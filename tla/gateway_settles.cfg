CONSTANTS
  Sockets = {s1, s2}
  Users = {u1}
  Chats = {c1}
  UserOf <- OneUser
  Kinds <- Arrivals
  MaxSubs = 1
  MaxPending = 1
  MaxFailures = 1
SPECIFICATION FairSpec
CHECK_DEADLOCK FALSE
INVARIANTS MappedIsRegistered
PROPERTIES SubscriptionSettles CleanupEnds
