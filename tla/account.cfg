CONSTANTS
  p1 = p1
  p2 = p2
  b1 = b1
  b2 = b2
  Browsers = {b1, b2}
  Pages = {p1, p2}
  Passwords = {w1, w2}
  Calls = {q1, q2}
  Keys = {k1, k2}
  NoKey = NoKey
  MaxTokens = 2
  Workloads <- TabsOrDevices
SPECIFICATION Spec
SYMMETRY Symmetry
INVARIANTS AccountInv BundleOpens OneKeyPair CacheFollowsRow StoredBundleOpens
