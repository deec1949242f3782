CONSTANTS
  Sockets = {s1, s2}
  Users = {u1}
  Chats = {c1}
  UserOf <- OneUser
  Kinds <- Subscriptions
  MaxSubs = 2
  MaxPending = 1
  MaxFailures = 0
SPECIFICATION Spec
CHECK_DEADLOCK FALSE
SYMMETRY Symmetry
INVARIANTS GatewayInv HandlersMatchRedis ClosedSocketForgotten
