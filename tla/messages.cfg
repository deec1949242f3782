CONSTANTS
  Users = {u1, u2}
  Owner = u1
  Admins = {}
  Ids = {m1, m2, m3}
  Requests = {r1, r2}
  PageSize = 1
  MaxTime = 2
  Workloads <- PagingOrReading
SPECIFICATION Spec
SYMMETRY Symmetry
INVARIANTS MessagesInv WalkComplete MarkedStaysRead
