CONSTANTS
  Chats = {c1, c2}
  Home = c1
  Ids = {1}
  ChatOf <- OneChat
  Users = {u1}
  Requests = {r1, r2}
  Fetches = {f1, f2}
  MaxEdits = 1
  MaxInbox = 1
  MaxCount = 2
  Kinds <- Everything
SPECIFICATION Spec
SYMMETRY Symmetry
INVARIANTS ViewInv NoDuplicates ViewAgrees
