CONSTANTS
  k1 = k1
  k2 = k2
  Replicas = {p1, p2}
  Keys = {k1, k2}
  Rollouts <- Overlap
  Calls = {r1, r2}
  None = None
  TTL = 2
  MsPerTick = 10
  BufferMs = 10
  MaxCall = 1
  MaxTime = 10
  MaxFailures = 1
SPECIFICATION Spec
SYMMETRY Symmetry
INVARIANTS IdentityInv NoTokenRefused NobodyStranded
PROPERTIES StoreNeverGoesBack
