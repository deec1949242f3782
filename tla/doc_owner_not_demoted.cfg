CONSTANTS
  Chats = {c1}
  Users = {u1, u2}
  Requests = {r1, r2}
  MaxFailures = 0
  Operations <- RoleMoves
SPECIFICATION Spec
PROPERTIES OwnerNotDemotedByRoleUpdate
