CONSTANTS
  Tokens = {t1, t2}
  Devices = {d1}
  NoDevice = NoDevice
  Requests = {r1, r2}
  AuthTTL = 2
  GatewayTTL = 1
  CallTicks = 0
  AllowedOps <- AllOps
SPECIFICATION SessionsSpec
SYMMETRY Symmetry
INVARIANTS SessionsInv StalenessBounded
PROPERTIES RevokedIsFinal
