CONSTANTS
  Chats = {c1}
  Users = {u1, u2}
  Requests = {r1, r2}
  MaxFailures = 1
  Operations <- Writes
SPECIFICATION Spec
SYMMETRY Symmetry
INVARIANTS TypeOK KeyEpochAccounting MemberlessOnlyInCreation OwnerlessOnlyInTransfer MembershipInv
PROPERTIES LeftIsFinal ImplementsRoster
