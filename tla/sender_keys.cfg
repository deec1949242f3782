CONSTANTS
  a = a
  b = b
  c1 = c1
  c2 = c2
  Users = {a, b}
  Creator = a
  Founders = {a}
  Clients = {c1, c2}
  UserOf <- Owners
  Home = c1
  Tasks = {t1, t2}
  Loads = {l1, l2}
  MaxKeys = 2
  MaxMessages = 2
  MaxReloads = 1
  Workloads <- OneOrTwoPages
SPECIFICATION Spec
SYMMETRY Symmetry
INVARIANTS   ReadableUnlessMissed
