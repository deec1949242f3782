-------------------------- MODULE MCChatMembership --------------------------
(* Instances of ChatMembership for TLC.  Chats, users and request slots    *)
(* are model values; users and slots are interchangeable.                  *)
EXTENDS ChatMembership, TLC

Symmetry == Permutations(Users) \cup Permutations(Requests)

(* Every operation that writes PostgreSQL, but updateMemberRole: its race   *)
(* with a transfer breaks what OwnerlessOnlyInTransfer says.               *)
Writes == AllOperations \ {"findAllActive", "updateMemberRole"}

(* A chat whose list is read while its members and their roles change.     *)
ListedChanges == {"createChat", "removeMember", "updateMemberRole", "findAllActive"}

(* Everything a client may ask of the role of a member.                    *)
RoleMoves == {"createChat", "updateMemberRole", "transferOwnership"}
=============================================================================
