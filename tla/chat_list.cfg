CONSTANTS
  c1 = c1
  c2 = c2
  Chats = {c1, c2}
  None = None
  MaxNews = 2
  MaxDrops = 1
  Workloads <- AloneOrPair
SPECIFICATION FairSpec
CHECK_DEADLOCK FALSE
INVARIANTS ChatListInv NewsShown
PROPERTIES ListedIsHeard
