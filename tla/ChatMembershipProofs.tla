------------------------ MODULE ChatMembershipProofs ------------------------
(* Proofs about ChatMembership, for every value of its constants.          *)
EXTENDS ChatMembership, FiniteSetTheorems, TLAPS

-----------------------------------------------------------------------------
(* The locals a call holds at each of its statements, by the record type   *)
(* the statement belongs to.                                               *)
LEMMA CallShapes ==
  ASSUME NEW q \in Call
  PROVE  /\ q.pc = "create_chat" =>
              q \in [pc : {"create_chat"}, type : ChatTypes, actor : Users,
                     others : SUBSET Users]
         /\ q.pc = "create_members" =>
              q \in [pc : {"create_members"}, chat : Chats, actor : Users,
                     others : SUBSET Users]
         /\ q.pc \in {"add_requester", "add_target", "add_insert"} =>
              q \in [pc : {"add_requester", "add_target", "add_insert"}, chat : Chats,
                     actor : Users, target : Users, role : Roles, epoch : Nat]
         /\ q.pc = "add_del" => q \in [pc : {"add_del"}, chat : Chats, epoch : Nat]
         /\ q.pc \in {"remove_update", "remove_del", "remove_bump"} => q \in RemoveCall
         /\ q.pc \in {"role_target", "role_update"} => q \in RoleCall
         /\ q.pc \in {"transfer_target", "transfer_demote", "transfer_demote_del",
                      "transfer_promote"} => q \in TransferCall
         /\ q.pc \in {"delete_member", "delete_chat"} => q \in DeleteCall
         /\ q.pc \in {"list_get", "list_select"} =>
              q \in [pc : {"list_get", "list_select"}, chat : Chats]
         /\ q.pc = "list_set" => q \in [pc : {"list_set"}, chat : Chats, list : Listing]
         /\ q.pc = "last_del" => q \in LastDelCall
BY DEF Call, Idle, CreateCall, AddCall, RemoveCall, RoleCall, TransferCall, DeleteCall,
       ListCall, LastDelCall

LEMMA InitTypeOK == Init => TypeOK
BY FiniteInstance DEF Init, TypeOK, NoChat, NoRow, NoEntry, ChatRow, MemberRow, CacheEntry,
   Listing, Call, Idle, StoredTypes, Roles

LEMMA SlotType ==
  ASSUME TypeOK, NEW r \in Requests, NEW q \in Call, req' = [req EXCEPT ![r] = q]
  PROVE  req' \in [Requests -> Call]
BY DEF TypeOK

LEMMA DropType ==
  ASSUME TypeOK, NEW c \in Chats, DropCached(c)
  PROVE  cache' \in [Chats -> CacheEntry]
BY DEF TypeOK, DropCached, NoEntry, CacheEntry, Listing

LEMMA ReturnType ==
  ASSUME TypeOK, NEW r \in Requests, Return(r)
  PROVE  req' \in [Requests -> Call]
BY SlotType DEF Return, Call

LEMMA RowShapes ==
  ASSUME NEW row \in MemberRow, NEW role \in Roles
  PROVE  /\ WithRole(row, role) \in MemberRow
         /\ WithRole(row, role).role = role
         /\ WithRole(row, role).status = row.status
         /\ WithLeftAt(row) \in MemberRow
         /\ WithLeftAt(row).status = "left"
         /\ WithLeftAt(row).role = row.role
         /\ ActiveRow(role) \in MemberRow
         /\ ActiveRow(role).status = "active"
         /\ ActiveRow(role).role = role
BY DEF MemberRow, WithRole, WithLeftAt, ActiveRow

LEMMA NoRowShape == NoRow \in MemberRow /\ NoRow.status = "absent"
BY DEF NoRow, MemberRow, Roles

LEMMA EpochShape ==
  ASSUME NEW row \in ChatRow
  PROVE  /\ NextEpoch(row) \in ChatRow
         /\ NextEpoch(row).state = row.state
         /\ NextEpoch(row).keyVersion = row.keyVersion + 1
BY DEF ChatRow, NextEpoch

LEMMA SetRoleType ==
  ASSUME TypeOK, NEW c \in Chats, NEW u \in Users, NEW role \in Roles, SetRole(c, u, role)
  PROVE  member' \in [Chats -> [Users -> MemberRow]]
<1>1. member[c][u] \in MemberRow
  BY DEF TypeOK
<1>. QED
  BY <1>1, RowShapes DEF TypeOK, SetRole

(* A call that goes on keeps its locals and only moves to another          *)
(* statement of the same operation.                                        *)
LEMMA GoToShapes ==
  ASSUME NEW q
  PROVE  /\ q \in [pc : {"add_requester", "add_target", "add_insert"}, chat : Chats,
                   actor : Users, target : Users, role : Roles, epoch : Nat] =>
              /\ WithPc(q, "add_target") \in AddCall
              /\ WithPc(q, "add_insert") \in AddCall
         /\ q \in RemoveCall =>
              /\ WithPc(q, "remove_del") \in RemoveCall
              /\ WithPc(q, "remove_bump") \in RemoveCall
              /\ WithPc(q, "remove_del").chat = q.chat
              /\ WithPc(q, "remove_bump").chat = q.chat
         /\ q \in RoleCall => WithPc(q, "role_update") \in RoleCall
         /\ q \in TransferCall =>
              /\ WithPc(q, "transfer_demote") \in TransferCall
              /\ WithPc(q, "transfer_demote_del") \in TransferCall
              /\ WithPc(q, "transfer_promote") \in TransferCall
         /\ q \in DeleteCall => WithPc(q, "delete_chat") \in DeleteCall
         /\ q \in [pc : {"list_get", "list_select"}, chat : Chats] =>
              WithPc(q, "list_select") \in ListCall
<1>. USE DEF WithPc
<1>1. q \in [pc : {"add_requester", "add_target", "add_insert"}, chat : Chats,
             actor : Users, target : Users, role : Roles, epoch : Nat] =>
        /\ WithPc(q, "add_target") \in AddCall
        /\ WithPc(q, "add_insert") \in AddCall
  BY DEF AddCall
<1>2. q \in RemoveCall =>
        /\ WithPc(q, "remove_del") \in RemoveCall
        /\ WithPc(q, "remove_bump") \in RemoveCall
        /\ WithPc(q, "remove_del").chat = q.chat
        /\ WithPc(q, "remove_bump").chat = q.chat
  BY DEF RemoveCall
<1>3. q \in RoleCall => WithPc(q, "role_update") \in RoleCall
  BY DEF RoleCall
<1>4. q \in TransferCall =>
        /\ WithPc(q, "transfer_demote") \in TransferCall
        /\ WithPc(q, "transfer_demote_del") \in TransferCall
        /\ WithPc(q, "transfer_promote") \in TransferCall
  BY DEF TransferCall
<1>5. q \in DeleteCall => WithPc(q, "delete_chat") \in DeleteCall
  BY DEF DeleteCall
<1>6. q \in [pc : {"list_get", "list_select"}, chat : Chats] =>
        WithPc(q, "list_select") \in ListCall
  BY DEF ListCall
<1>. QED
  BY <1>1, <1>2, <1>3, <1>4, <1>5, <1>6

LEMMA GoToType ==
  ASSUME TypeOK, NEW r \in Requests, NEW pc, WithPc(req[r], pc) \in Call, GoTo(r, pc)
  PROVE  req' \in [Requests -> Call]
BY DEF TypeOK, GoTo

LEMMA LastDelType ==
  ASSUME TypeOK, NEW r \in Requests, req[r].chat \in Chats, GoToLastDel(r)
  PROVE  req' \in [Requests -> Call]
BY SlotType DEF GoToLastDel, Call, LastDelCall

-----------------------------------------------------------------------------
LEMMA ArriveTypeOK ==
  ASSUME TypeOK, NEW r \in Requests, Arrive(r)
  PROVE  TypeOK'
<1>. USE DEF Start
<1>1. CASE CreateChatCheck(r)
  BY <1>1, SlotType DEF CreateChatCheck, TypeOK, Call, CreateCall
<1>2. CASE AddMemberFindChat(r)
  BY <1>2, SlotType DEF AddMemberFindChat, TypeOK, Call, AddCall, ChatRow
<1>3. CASE RemoveMemberFindRequester(r)
  BY <1>3, SlotType DEF RemoveMemberFindRequester, TypeOK, Call, RemoveCall
<1>4. CASE UpdateRoleFindRequester(r)
  BY <1>4, SlotType DEF UpdateRoleFindRequester, TypeOK, Call, RoleCall
<1>5. CASE TransferFindOwner(r)
  BY <1>5, SlotType DEF TransferFindOwner, TypeOK, Call, TransferCall
<1>6. CASE DeleteChatFind(r)
  BY <1>6, SlotType DEF DeleteChatFind, TypeOK, Call, DeleteCall
<1>7. CASE ListIsMember(r)
  BY <1>7, SlotType DEF ListIsMember, TypeOK, Call, ListCall
<1>. QED
  BY <1>1, <1>2, <1>3, <1>4, <1>5, <1>6, <1>7 DEF Arrive

-----------------------------------------------------------------------------
LEMMA ContinueTypeOK ==
  ASSUME TypeOK, NEW r \in Requests, Continue(r)
  PROVE  TypeOK'
<1>. USE DEF At, Check
<1>0. /\ req[r] \in Call
      /\ cache \in [Chats -> CacheEntry]
      /\ member \in [Chats -> [Users -> MemberRow]]
      /\ chat \in [Chats -> ChatRow]
  BY DEF TypeOK
<1>1. CASE CreateChatInsert(r)
  BY <1>0, <1>1, CallShapes, SlotType
     DEF CreateChatInsert, Storable, TypeOK, Call, CreateCall, ChatRow
<1>2. CASE CreateChatRejected(r)
  BY <1>2, ReturnType DEF CreateChatRejected, TypeOK
<1>3. CASE CreateChatMembers(r)
  <2>1. req[r].chat \in Chats
    BY <1>0, <1>3, CallShapes DEF CreateChatMembers
  <2>2. member' \in [Chats -> [Users -> MemberRow]]
    BY <1>0, <1>3, <2>1 DEF CreateChatMembers, ActiveRow, MemberRow, Roles
  <2>3. req' \in [Requests -> Call]
    BY <1>3, <2>1, LastDelType DEF CreateChatMembers
  <2>. QED
    BY <1>3, <2>2, <2>3 DEF CreateChatMembers, TypeOK
<1>4. CASE AddMemberFindRequester(r)
  BY <1>0, <1>4, CallShapes, GoToShapes, GoToType, ReturnType
     DEF AddMemberFindRequester, TypeOK, Call
<1>5. CASE AddMemberFindTarget(r)
  BY <1>0, <1>5, CallShapes, GoToShapes, GoToType, ReturnType
     DEF AddMemberFindTarget, TypeOK, Call
<1>6. CASE AddMemberInsert(r)
  <2>. DEFINE c == req[r].chat
              u == req[r].target
  <2>1. c \in Chats /\ u \in Users /\ req[r].role \in Roles /\ req[r].epoch \in Nat
    BY <1>0, <1>6, CallShapes DEF AddMemberInsert
  <2>2. CASE InsertAllowed(c, u)
    <3>0. member' = [member EXCEPT ![c][u] = ActiveRow(req[r].role)]
      BY <1>6, <2>2 DEF AddMemberInsert
    <3>1. member' \in [Chats -> [Users -> MemberRow]]
      <4>1. ActiveRow(req[r].role) \in MemberRow
        BY <2>1 DEF ActiveRow, MemberRow
      <4>. QED
        BY <1>0, <2>1, <3>0, <4>1
    <3>2. req' \in [Requests -> Call]
      BY <1>6, <2>1, <2>2, SlotType DEF AddMemberInsert, Call, AddCall
    <3>. QED
      BY <1>6, <3>1, <3>2 DEF AddMemberInsert, TypeOK
  <2>3. CASE ~InsertAllowed(c, u)
    BY <1>6, <2>3, ReturnType DEF AddMemberInsert, TypeOK
  <2>. QED
    BY <2>2, <2>3
<1>7. CASE RemoveMemberUpdate(r)
  <2>. DEFINE c == req[r].chat
              u == req[r].target
  <2>1. req[r] \in RemoveCall
    BY <1>0, <1>7, CallShapes DEF RemoveMemberUpdate
  <2>2. c \in Chats /\ u \in Users
    BY <2>1 DEF RemoveCall
  <2>3. CASE Removable(c, u)
    <3>1. member' = [member EXCEPT ![c][u] = WithLeftAt(member[c][u])]
      BY <1>0, <1>7, <2>2, <2>3 DEF RemoveMemberUpdate
    <3>2. member' \in [Chats -> [Users -> MemberRow]]
      BY <1>0, <2>2, <3>1, RowShapes DEF Roles
    <3>3. req' \in [Requests -> Call]
      BY <1>7, <2>1, <2>3, GoToShapes, GoToType DEF RemoveMemberUpdate, Call
    <3>. QED
      BY <1>7, <3>2, <3>3 DEF RemoveMemberUpdate, TypeOK
  <2>4. CASE ~Removable(c, u)
    BY <1>7, <2>4, ReturnType DEF RemoveMemberUpdate, TypeOK
  <2>. QED
    BY <2>3, <2>4
<1>8. CASE RemoveMemberDel(r)
  <2>1. req[r] \in RemoveCall /\ req[r].chat \in Chats
    BY <1>0, <1>8, CallShapes DEF RemoveMemberDel, RemoveCall
  <2>. QED
    BY <1>8, <2>1, GoToShapes, GoToType, DropType DEF RemoveMemberDel, TypeOK, Call
<1>9. CASE IncrementKeyVersion(r)
  <2>1. req[r].chat \in Chats
    BY <1>0, <1>9, CallShapes DEF IncrementKeyVersion, RemoveCall
  <2>2. chat' \in [Chats -> ChatRow]
    BY <1>0, <1>9, <2>1, EpochShape DEF IncrementKeyVersion
  <2>. QED
    BY <1>9, <2>2, ReturnType DEF IncrementKeyVersion, TypeOK
<1>10. CASE UpdateRoleFindTarget(r)
  BY <1>0, <1>10, CallShapes, GoToShapes, GoToType, ReturnType
     DEF UpdateRoleFindTarget, TypeOK, Call
<1>11. CASE UpdateRoleUpdate(r)
  <2>1. req[r].chat \in Chats /\ req[r].target \in Users /\ req[r].role \in Roles
    BY <1>0, <1>11, CallShapes DEF UpdateRoleUpdate, RoleCall
  <2>2. req' \in [Requests -> Call]
    BY <1>11, <2>1, LastDelType, ReturnType DEF UpdateRoleUpdate
  <2>. QED
    BY <1>11, <2>1, <2>2, SetRoleType DEF UpdateRoleUpdate, TypeOK
<1>12. CASE TransferFindNewOwner(r)
  BY <1>0, <1>12, CallShapes, GoToShapes, GoToType, ReturnType
     DEF TransferFindNewOwner, TypeOK, Call
<1>13. CASE TransferDemote(r)
  <2>1. req[r] \in TransferCall
    BY <1>0, <1>13, CallShapes DEF TransferDemote
  <2>2. req[r].chat \in Chats /\ req[r].actor \in Users
    BY <2>1 DEF TransferCall
  <2>3. req' \in [Requests -> Call]
    BY <1>13, <2>1, GoToShapes, GoToType DEF TransferDemote, Call
  <2>. QED
    BY <1>13, <2>2, <2>3, SetRoleType DEF TransferDemote, TypeOK, Roles
<1>14. CASE TransferDemoteDel(r)
  <2>1. req[r] \in TransferCall /\ req[r].chat \in Chats
    BY <1>0, <1>14, CallShapes DEF TransferDemoteDel, TransferCall
  <2>. QED
    BY <1>14, <2>1, GoToShapes, GoToType, DropType DEF TransferDemoteDel, TypeOK, Call
<1>15. CASE TransferPromote(r)
  <2>1. req[r].chat \in Chats /\ req[r].target \in Users
    BY <1>0, <1>15, CallShapes DEF TransferPromote, TransferCall
  <2>2. req' \in [Requests -> Call]
    BY <1>15, <2>1, LastDelType, ReturnType DEF TransferPromote
  <2>. QED
    BY <1>15, <2>1, <2>2, SetRoleType DEF TransferPromote, TypeOK, Roles
<1>16. CASE DeleteChatFindMember(r)
  BY <1>0, <1>16, CallShapes, GoToShapes, GoToType, ReturnType
     DEF DeleteChatFindMember, TypeOK, Call
<1>17. CASE DeleteChatDelete(r)
  BY <1>0, <1>17, ReturnType, NoRowShape
     DEF DeleteChatDelete, TypeOK, GoneChat, ChatRow, StoredTypes
<1>18. CASE ListGet(r)
  BY <1>0, <1>18, CallShapes, GoToShapes, GoToType, ReturnType DEF ListGet, TypeOK, Call
<1>19. CASE ListSelect(r)
  <2>1. req[r].chat \in Chats
    BY <1>0, <1>19, CallShapes DEF ListSelect
  <2>2. ActiveList(req[r].chat) \in Listing
    BY <1>0, <2>1 DEF ActiveList, Listing, MemberRow
  <2>. QED
    BY <1>19, <2>1, <2>2, SlotType DEF ListSelect, TypeOK, Call, ListCall
<1>20. CASE ListSet(r)
  BY <1>0, <1>20, CallShapes, ReturnType DEF ListSet, TypeOK, CacheEntry
<1>21. CASE LastDel(r)
  <2>1. req[r].chat \in Chats
    BY <1>0, <1>21, CallShapes DEF LastDel, LastDelCall
  <2>. QED
    BY <1>21, <2>1, DropType, ReturnType DEF LastDel, TypeOK
<1>. QED
  BY <1>1, <1>2, <1>3, <1>4, <1>5, <1>6, <1>7, <1>8, <1>9, <1>10, <1>11, <1>12, <1>13,
     <1>14, <1>15, <1>16, <1>17, <1>18, <1>19, <1>20, <1>21 DEF Continue

LEMMA FailTypeOK ==
  ASSUME TypeOK, NEW r \in Requests, Fail(r)
  PROVE  TypeOK'
BY FiniteInstance, ReturnType DEF Fail, TypeOK

LEMMA ExpireTypeOK ==
  ASSUME TypeOK, NEW c \in Chats, Expire(c)
  PROVE  TypeOK'
BY DropType DEF Expire, TypeOK

(* Rows, cached lists and calls in flight always have their types: in      *)
(* particular a stored chat is DIRECT or GROUP, never CHANNEL.             *)
THEOREM TypeCorrect == Spec => []TypeOK
<1>1. TypeOK /\ [Next]_vars => TypeOK'
  <2> SUFFICES ASSUME TypeOK, [Next]_vars PROVE TypeOK'
    OBVIOUS
  <2>1. CASE Next
    BY <2>1, ArriveTypeOK, ContinueTypeOK, FailTypeOK, ExpireTypeOK DEF Next
  <2>2. CASE UNCHANGED vars
    BY <2>2 DEF vars, TypeOK
  <2>. QED
    BY <2>1, <2>2
<1>. QED
  BY <1>1, InitTypeOK, PTL DEF Spec

-----------------------------------------------------------------------------
(* The invariant MembershipInv.                                            *)

LEMMA KeptFields ==
  ASSUME NEW q \in Call, NEW pc
  PROVE  /\ q.pc \notin {"idle", "create_chat"} => WithPc(q, pc).pc = pc /\ WithPc(q, pc).chat = q.chat
         /\ q \in TransferCall => WithPc(q, pc).target = q.target
BY DEF Call, Idle, WithPc, CreateCall, AddCall, RemoveCall, RoleCall, TransferCall,
       DeleteCall, ListCall, LastDelCall

LEMMA CallChat ==
  ASSUME NEW q \in Call, q.pc \notin {"idle", "create_chat"}
  PROVE  q.chat \in Chats
BY DEF Call, Idle, CreateCall, AddCall, RemoveCall, RoleCall, TransferCall, DeleteCall,
       ListCall, LastDelCall

(* A member found active belongs to a chat that is there.                  *)
LEMMA ActiveChat ==
  ASSUME TypeOK, NoOrphanRows, NEW c \in Chats, NEW u \in Users, Active(c, u)
  PROVE  Live(c) /\ Populated(c) /\ chat[c].state # "unused"
BY NoRowShape DEF NoOrphanRows, Active, Live, Populated

(* A step that writes no row keeps the invariant if the call that takes it *)
(* does not slip past a check.                                             *)
LEMMA QuietStep ==
  ASSUME TypeOK, MembershipInv, UNCHANGED <<chat, member>>,
         NEW r \in Requests, \A x \in Requests \ {r} : req[x]' = req[x],
         req[r]'.pc # "create_members",
         req[r]'.pc \in PastMemberCheck =>
           /\ chat[req[r]'.chat].state # "unused"
           /\ Live(req[r]'.chat) => Populated(req[r]'.chat)
  PROVE  MembershipInv'
<1>2. NoOrphanRows'
  BY DEF MembershipInv, NoOrphanRows, Live
<1>3. CreationIsolated'
  BY DEF MembershipInv, CreationIsolated, At, Live, Populated
<1>4. CheckedChatKnown'
  BY DEF MembershipInv, CheckedChatKnown, Live, Populated
<1>. QED
  BY <1>2, <1>3, <1>4 DEF MembershipInv

(* A step that writes rows of one chat, past a member check on it, keeps   *)
(* the invariant if it leaves the chats' states alone and deletes no row.  *)
LEMMA RowStep ==
  ASSUME TypeOK, MembershipInv, TypeOK',
         NEW r \in Requests, \A x \in Requests \ {r} : req[x]' = req[x],
         req[r]'.pc # "create_members",
         NEW d \in Chats,
         \A c \in Chats : chat[c]'.state = chat[c].state,
         \A c \in Chats \ {d} : member[c]' = member[c],
         Live(d) => Populated(d) /\ Populated(d)',
         ~Live(d) => member[d]' = member[d],
         chat[d].state # "unused",
         req[r]'.pc \in PastMemberCheck => req[r]'.chat = d
  PROVE  MembershipInv'
<1>2. \A c \in Chats : Live(c)' <=> Live(c)
  BY DEF Live
<1>3. NoOrphanRows'
  BY <1>2 DEF MembershipInv, NoOrphanRows
<1>4. CreationIsolated'
  <2>1. \A x \in Requests : At(x, "create_members") => req[x].chat \in Chats \ {d}
    BY CallChat DEF MembershipInv, CreationIsolated, TypeOK, At
  <2>2. \A c \in Chats \ {d} : Populated(c)' <=> Populated(c)
    BY DEF Populated
  <2>. QED
    BY <1>2, <2>1, <2>2 DEF MembershipInv, CreationIsolated, At
<1>5. CheckedChatKnown'
  <2>1. \A x \in Requests : req[x].pc \in PastMemberCheck => req[x].chat \in Chats
    BY CallChat DEF TypeOK, PastMemberCheck
  <2>2. \A c \in Chats \ {d} : Populated(c)' <=> Populated(c)
    BY DEF Populated
  <2>. QED
    BY <1>2, <2>1, <2>2 DEF MembershipInv, CheckedChatKnown
<1>. QED
  BY <1>3, <1>4, <1>5 DEF MembershipInv

LEMMA ReturnQuiet ==
  ASSUME TypeOK, MembershipInv, UNCHANGED <<chat, member>>, NEW r \in Requests, Return(r)
  PROVE  MembershipInv'
BY QuietStep DEF Return, Idle, PastMemberCheck, TypeOK

LEMMA ArriveMembershipInv ==
  ASSUME TypeOK, MembershipInv, NEW r \in Requests, Arrive(r)
  PROVE  MembershipInv'
<1>. USE QuietStep DEF Start, PastMemberCheck, TypeOK
<1>1. CASE CreateChatCheck(r)
  BY <1>1 DEF CreateChatCheck
<1>2. CASE AddMemberFindChat(r)
  BY <1>2 DEF AddMemberFindChat
<1>3. CASE RemoveMemberFindRequester(r)
  BY <1>3 DEF RemoveMemberFindRequester
<1>4. CASE UpdateRoleFindRequester(r)
  BY <1>4 DEF UpdateRoleFindRequester
<1>5. CASE TransferFindOwner(r)
  BY <1>5 DEF TransferFindOwner
<1>6. CASE DeleteChatFind(r)
  BY <1>6 DEF DeleteChatFind
<1>7. CASE ListIsMember(r)
  BY <1>7 DEF ListIsMember
<1>. QED
  BY <1>1, <1>2, <1>3, <1>4, <1>5, <1>6, <1>7 DEF Arrive

(* A call that goes on to its next statement stays on its chat; past a     *)
(* member check it was past one before.                                    *)
LEMMA GoToQuiet ==
  ASSUME TypeOK, MembershipInv, UNCHANGED <<chat, member>>, NEW r \in Requests,
         req[r].pc \notin {"idle", "create_chat"},
         NEW pc, pc # "create_members", GoTo(r, pc),
         pc \in PastMemberCheck =>
           \/ req[r].pc \in PastMemberCheck
           \/ \E u \in Users : Active(req[r].chat, u)
  PROVE  MembershipInv'
<1>1. req[r] \in Call /\ req[r].chat \in Chats
  BY CallChat DEF TypeOK
<1>2. req[r]' = WithPc(req[r], pc) /\ \A x \in Requests \ {r} : req[x]' = req[x]
  BY DEF GoTo, TypeOK
<1>3. req[r]'.pc = pc /\ req[r]'.chat = req[r].chat
  BY <1>1, <1>2, KeptFields
<1>4. pc \in PastMemberCheck =>
        /\ chat[req[r].chat].state # "unused"
        /\ Live(req[r].chat) => Populated(req[r].chat)
  BY <1>1, ActiveChat DEF MembershipInv, CheckedChatKnown
<1>. QED
  BY <1>2, <1>3, <1>4, QuietStep

(* One row written by ChatMemberRepository, not to be absent: its chat has *)
(* rows then, and had them before if it was there.                         *)
LEMMA OneRow ==
  ASSUME TypeOK, NoOrphanRows, NEW c \in Chats, NEW u \in Users,
         member[c][u]'.status # "absent", Populated(c)
  PROVE  Populated(c)' /\ Live(c)
BY NoRowShape DEF NoOrphanRows, Populated

LEMMA SetRoleRows ==
  ASSUME TypeOK, NoOrphanRows, NEW c \in Chats, NEW u \in Users, NEW role \in Roles,
         SetRole(c, u, role)
  PROVE  /\ \A d \in Chats \ {c} : member[d]' = member[d]
         /\ \A v \in Users \ {u} : member[c][v]' = member[c][v]
         /\ member[c][u]'.status = member[c][u].status
         /\ ~Active(c, u) => member' = member
         /\ Active(c, u) => member[c][u]'.role = role /\ Live(c)
         /\ Populated(c) <=> Populated(c)'
<1>1. CASE Active(c, u)
  <2>1. member[c][u] \in MemberRow
    BY DEF TypeOK
  <2>2. WithRole(member[c][u], role) \in MemberRow
    BY <2>1, RowShapes
  <2>3. /\ WithRole(member[c][u], role).status = "active"
        /\ WithRole(member[c][u], role).role = role
    BY <1>1, <2>1, RowShapes DEF Active
  <2>4. member' = [member EXCEPT ![c][u] = WithRole(member[c][u], role)]
    BY <1>1 DEF SetRole
  <2>5. /\ \A d \in Chats \ {c} : member[d]' = member[d]
        /\ \A v \in Users \ {u} : member[c][v]' = member[c][v]
        /\ member[c][u]' = WithRole(member[c][u], role)
    BY <2>4 DEF TypeOK
  <2>6. Populated(c)
    BY <1>1 DEF Active, Populated
  <2>. QED
    BY <1>1, <2>3, <2>5, <2>6, OneRow DEF Active
<1>2. CASE ~Active(c, u)
  BY <1>2 DEF SetRole, Populated
<1>. QED
  BY <1>1, <1>2

LEMMA SetRoleStep ==
  ASSUME TypeOK, TypeOK', MembershipInv, NEW r \in Requests,
         \A x \in Requests \ {r} : req[x]' = req[x],
         req[r]'.pc # "create_members",
         NEW c \in Chats, NEW u \in Users, NEW role \in Roles,
         SetRole(c, u, role), chat' = chat,
         req[r]'.pc \in PastMemberCheck => req[r].pc \in PastMemberCheck /\ req[r].chat = c
                                          /\ req[r]'.chat = c
  PROVE  MembershipInv'
<1>0. NoOrphanRows
  BY DEF MembershipInv
<1>1. CASE Active(c, u)
  <2>1. Live(c) /\ Populated(c) /\ chat[c].state # "unused"
    BY <1>0, <1>1, ActiveChat
  <2>. QED
    BY <1>0, <2>1, SetRoleRows, RowStep
<1>2. CASE ~Active(c, u)
  <2>1. member' = member
    BY <1>2 DEF SetRole
  <2>2. req[r]'.pc \in PastMemberCheck =>
          chat[c].state # "unused" /\ (Live(c) => Populated(c))
    BY DEF MembershipInv, CheckedChatKnown
  <2>. QED
    BY <2>1, <2>2, QuietStep
<1>. QED
  BY <1>1, <1>2

LEMMA CreateInsertStep ==
  ASSUME TypeOK, MembershipInv, NEW r \in Requests, CreateChatInsert(r)
  PROVE  MembershipInv'
<1>1. PICK c \in Chats :
        /\ chat[c].state = "unused"
        /\ chat' = [chat EXCEPT ![c] = [state |-> "live", type |-> req[r].type, keyVersion |-> 1]]
        /\ req' = [req EXCEPT ![r] = [pc |-> "create_members", chat |-> c,
                                      actor |-> req[r].actor, others |-> req[r].others]]
        /\ member' = member
  BY DEF CreateChatInsert
<1>2. /\ req[r]'.pc = "create_members" /\ req[r]'.chat = c
      /\ \A x \in Requests \ {r} : req[x]' = req[x]
      /\ Live(c)' /\ \A d \in Chats \ {c} : chat[d]' = chat[d]
  BY <1>1 DEF TypeOK, Live
<1>3. \A u \in Users : member[c][u] = NoRow
  BY <1>1 DEF MembershipInv, NoOrphanRows, Live
<1>4. NoOrphanRows'
  BY <1>1, <1>2 DEF MembershipInv, NoOrphanRows, Live
<1>5. \A x \in Requests \ {r} : At(x, "create_members") => req[x].chat # c
  BY <1>1 DEF MembershipInv, CreationIsolated, Live
<1>6. \A x \in Requests :
        req[x].pc \in PastMemberCheck \cup {"create_members"} => req[x].chat \in Chats
  BY CallChat DEF TypeOK, PastMemberCheck
<1>7. ~Populated(c)'
  BY <1>1, <1>3, NoRowShape DEF Populated
<1>8. CreationIsolated'
  <2>1. \A x \in Requests \ {r} : At(x, "create_members") =>
          (Live(req[x].chat) /\ ~Populated(req[x].chat))'
    BY <1>1, <1>2, <1>5, <1>6 DEF MembershipInv, CreationIsolated, Live, Populated, At
  <2>. QED
    BY <1>2, <1>5, <1>7, <2>1 DEF CreationIsolated, MembershipInv, At
<1>9. CheckedChatKnown'
  <2>1. \A x \in Requests : req[x].pc \in PastMemberCheck => req[x].chat \in Chats \ {c}
    BY <1>1, <1>6 DEF MembershipInv, CheckedChatKnown
  <2>2. req[r]'.pc \notin PastMemberCheck
    BY <1>2 DEF PastMemberCheck
  <2>. QED
    BY <1>1, <1>2, <2>1, <2>2 DEF MembershipInv, CheckedChatKnown, Live, Populated
<1>. QED
  BY <1>4, <1>8, <1>9 DEF MembershipInv

LEMMA CreateMembersStep ==
  ASSUME TypeOK, TypeOK', MembershipInv, NEW r \in Requests, CreateChatMembers(r),
         NEW c \in Chats, NEW a \in Users, c = req[r].chat, a = req[r].actor
  PROVE  /\ MembershipInv'
         /\ Live(c) /\ ~Populated(c)
         /\ \A d \in Chats \ {c} : member[d]' = member[d]
         /\ member[c][a]' = ActiveRow("OWNER")
         /\ \A u \in Users : member[c][u]'.status \in {"active", member[c][u].status}
<1>1. /\ Live(c) /\ ~Populated(c)
      /\ \A x \in Requests \ {r} : At(x, "create_members") => req[x].chat \in Chats \ {c}
      /\ \A x \in Requests : req[x].pc \in PastMemberCheck => req[x].chat \in Chats \ {c}
  <2>1. req[r] \in Call /\ At(r, "create_members")
    BY DEF TypeOK, CreateChatMembers
  <2>3. Live(c) /\ ~Populated(c)
    BY <2>1 DEF MembershipInv, CreationIsolated
  <2>4. \A x \in Requests \ {r} : At(x, "create_members") => req[x].chat \in Chats \ {c}
    BY <2>1, CallChat DEF MembershipInv, CreationIsolated, TypeOK, At
  <2>5. \A x \in Requests : req[x].pc \in PastMemberCheck => req[x].chat \in Chats \ {c}
    BY <2>3, CallChat DEF MembershipInv, CheckedChatKnown, TypeOK, PastMemberCheck
  <2>. QED
    BY <2>3, <2>4, <2>5
<1>2. /\ chat' = chat
      /\ \A d \in Chats \ {c} : member[d]' = member[d]
      /\ member[c][a]' = ActiveRow("OWNER")
      /\ \A u \in Users : member[c][u]'.status \in {"active", member[c][u].status}
      /\ \A x \in Requests \ {r} : req[x]' = req[x]
      /\ req[r]'.pc = "last_del"
  <2>1. member' = [member EXCEPT ![c] = [u \in Users |->
                     IF u = a THEN ActiveRow("OWNER")
                     ELSE IF u \in req[r].others THEN ActiveRow("MEMBER")
                     ELSE member[c][u]]]
    BY DEF CreateChatMembers
  <2>2. /\ \A d \in Chats \ {c} : member[d]' = member[d]
        /\ member[c][a]' = ActiveRow("OWNER")
        /\ \A u \in Users : member[c][u]'.status \in {"active", member[c][u].status}
    BY <1>1, <2>1 DEF TypeOK, ActiveRow
  <2>. QED
    BY <2>2 DEF CreateChatMembers, GoToLastDel, TypeOK
<1>3. NoOrphanRows'
  BY <1>1, <1>2 DEF MembershipInv, NoOrphanRows, Live
<1>4. CreationIsolated'
  BY <1>1, <1>2 DEF MembershipInv, CreationIsolated, Live, Populated, At
<1>5. CheckedChatKnown'
  BY <1>1, <1>2 DEF MembershipInv, CheckedChatKnown, Live, Populated, PastMemberCheck
<1>. QED
  BY <1>1, <1>2, <1>3, <1>4, <1>5 DEF MembershipInv

LEMMA DeleteStep ==
  ASSUME TypeOK, MembershipInv, NEW r \in Requests, DeleteChatDelete(r),
         NEW c \in Chats, c = req[r].chat
  PROVE  /\ MembershipInv'
         /\ ~Live(c)'
         /\ \A d \in Chats \ {c} : chat[d]' = chat[d] /\ member[d]' = member[d]
<1>1. /\ chat[c].state # "unused" /\ (Live(c) => Populated(c))
      /\ \A x \in Requests : At(x, "create_members") => req[x].chat \in Chats \ {c}
      /\ \A x \in Requests : req[x].pc \in PastMemberCheck => req[x].chat \in Chats
  <2>1. req[r] \in Call /\ At(r, "delete_chat")
    BY DEF TypeOK, DeleteChatDelete
  <2>2. chat[c].state # "unused" /\ (Live(c) => Populated(c))
    BY <2>1 DEF MembershipInv, CheckedChatKnown, PastMemberCheck, At
  <2>. QED
    BY <2>1, <2>2, CallChat DEF MembershipInv, CreationIsolated, TypeOK, At, PastMemberCheck
<1>2. /\ chat[c]'.state = "deleted"
      /\ \A d \in Chats \ {c} : chat[d]' = chat[d] /\ member[d]' = member[d]
      /\ \A u \in Users : member[c][u]' = NoRow
      /\ \A x \in Requests \ {r} : req[x]' = req[x]
      /\ req[r]'.pc = "idle"
  <2>1. /\ chat' = [chat EXCEPT ![c] = GoneChat]
        /\ member' = [member EXCEPT ![c] = [u \in Users |-> NoRow]]
        /\ req' = [req EXCEPT ![r] = Idle]
    BY DEF DeleteChatDelete, Return
  <2>2. /\ chat[c]'.state = "deleted"
        /\ \A d \in Chats \ {c} : chat[d]' = chat[d]
    BY <1>1, <2>1 DEF TypeOK, GoneChat
  <2>3. /\ \A d \in Chats \ {c} : member[d]' = member[d]
        /\ \A u \in Users : member[c][u]' = NoRow
    BY <1>1, <2>1 DEF TypeOK
  <2>4. /\ \A x \in Requests \ {r} : req[x]' = req[x]
        /\ req[r]'.pc = "idle"
    BY <2>1 DEF TypeOK, Idle
  <2>. QED
    BY <2>2, <2>3, <2>4
<1>3. NoOrphanRows'
  BY <1>1, <1>2 DEF MembershipInv, NoOrphanRows, Live
<1>4. CreationIsolated'
  BY <1>1, <1>2 DEF MembershipInv, CreationIsolated, Live, Populated, At
<1>5. CheckedChatKnown'
  BY <1>1, <1>2 DEF MembershipInv, CheckedChatKnown, Live, Populated, PastMemberCheck
<1>. QED
  BY <1>2, <1>3, <1>4, <1>5 DEF MembershipInv, Live

(* The two writes of a member row by addMember and removeMember.           *)
LEMMA InsertRow ==
  ASSUME TypeOK, MembershipInv, NEW r \in Requests, AddMemberInsert(r),
         NEW c \in Chats, NEW u \in Users, c = req[r].chat, u = req[r].target,
         InsertAllowed(c, u)
  PROVE  /\ Live(c) /\ Populated(c) /\ Populated(c)'
         /\ \A d \in Chats \ {c} : member[d]' = member[d]
         /\ \A v \in Users \ {u} : member[c][v]' = member[c][v]
         /\ member[c][u].status = "absent"
         /\ member[c][u]'.status = "active"
         /\ req[r]'.pc = "add_del"
<1>1. req[r] \in Call /\ At(r, "add_insert") /\ req[r].role \in Roles
  BY CallShapes DEF AddMemberInsert, TypeOK, At
<1>2. Live(c) /\ Populated(c)
  BY <1>1 DEF InsertAllowed, MembershipInv, CheckedChatKnown, PastMemberCheck, At
<1>3. ActiveRow(req[r].role).status = "active"
  BY <1>1 DEF ActiveRow
<1>4. member' = [member EXCEPT ![c][u] = ActiveRow(req[r].role)]
  BY DEF AddMemberInsert
<1>5. req[r]'.pc = "add_del"
  BY DEF AddMemberInsert, TypeOK
<1>6. /\ \A d \in Chats \ {c} : member[d]' = member[d]
      /\ \A v \in Users \ {u} : member[c][v]' = member[c][v]
      /\ member[c][u]' = ActiveRow(req[r].role)
  BY <1>4 DEF TypeOK
<1>. QED
  BY <1>2, <1>3, <1>5, <1>6, OneRow DEF MembershipInv, InsertAllowed

LEMMA RemoveRow ==
  ASSUME TypeOK, MembershipInv, NEW r \in Requests, RemoveMemberUpdate(r),
         NEW c \in Chats, NEW u \in Users, c = req[r].chat, u = req[r].target,
         Removable(c, u)
  PROVE  /\ Live(c) /\ Populated(c) /\ Populated(c)'
         /\ \A d \in Chats \ {c} : member[d]' = member[d]
         /\ \A v \in Users \ {u} : member[c][v]' = member[c][v]
         /\ member[c][u].status = "active"
         /\ member[c][u]'.status = "left"
         /\ req[r]'.pc = "remove_del" /\ req[r]'.chat = c
<1>1. req[r] \in RemoveCall /\ req[r] \in Call
  BY CallShapes DEF RemoveMemberUpdate, TypeOK, At
<1>2. member[c][u].status = "active" /\ Populated(c)
  BY DEF Removable, Active, Populated
<1>3. WithLeftAt(member[c][u]).status = "left"
  <2>1. member[c][u] \in MemberRow
    BY DEF TypeOK
  <2>. QED
    BY <2>1 DEF WithLeftAt, MemberRow
<1>4. member' = [member EXCEPT ![c][u] = WithLeftAt(member[c][u])]
  BY DEF RemoveMemberUpdate
<1>5. req[r]'.pc = "remove_del" /\ req[r]'.chat = c
  <2>1. req[r]' = WithPc(req[r], "remove_del")
    BY DEF RemoveMemberUpdate, GoTo, TypeOK
  <2>. QED
    BY <1>1, <2>1, KeptFields DEF RemoveCall
<1>6. /\ \A d \in Chats \ {c} : member[d]' = member[d]
      /\ \A v \in Users \ {u} : member[c][v]' = member[c][v]
      /\ member[c][u]' = WithLeftAt(member[c][u])
  BY <1>4 DEF TypeOK
<1>. QED
  BY <1>2, <1>3, <1>5, <1>6, OneRow DEF MembershipInv

-----------------------------------------------------------------------------
LEMMA ContinueMembershipInv ==
  ASSUME TypeOK, TypeOK', MembershipInv, NEW r \in Requests, Continue(r)
  PROVE  MembershipInv'
<1>0. /\ req[r] \in Call
      /\ req[r].pc \notin {"idle", "create_chat"} => req[r].chat \in Chats
      /\ NoOrphanRows
  BY CallChat DEF TypeOK, MembershipInv
<1>1. CASE CreateChatInsert(r)
  BY <1>1, CreateInsertStep
<1>2. CASE CreateChatRejected(r)
  BY <1>2, ReturnQuiet DEF CreateChatRejected
<1>3. CASE CreateChatMembers(r)
  BY <1>0, <1>3, CallShapes, CreateMembersStep DEF CreateChatMembers, At
<1>4. CASE AddMemberFindRequester(r)
  <2>1. req[r].actor \in Users
    BY <1>0, <1>4, CallShapes DEF AddMemberFindRequester, At
  <2>. QED
    BY <1>0, <1>4, <2>1, GoToQuiet, ReturnQuiet DEF AddMemberFindRequester, At, Check, HasRole
<1>5. CASE AddMemberFindTarget(r)
  BY <1>0, <1>5, GoToQuiet, ReturnQuiet DEF AddMemberFindTarget, At, Check, PastMemberCheck
<1>6. CASE AddMemberInsert(r)
  <2>1. PICK c \in Chats, u \in Users : c = req[r].chat /\ u = req[r].target
    BY <1>0, <1>6, CallShapes DEF AddMemberInsert, At
  <2>2. CASE InsertAllowed(c, u)
    <3>1. chat' = chat /\ \A x \in Requests \ {r} : req[x]' = req[x]
      BY <1>6, <2>1, <2>2 DEF AddMemberInsert, TypeOK
    <3>. QED
      BY <1>6, <2>1, <2>2, <3>1, InsertRow, RowStep DEF PastMemberCheck, Live
  <2>3. CASE ~InsertAllowed(c, u)
    BY <1>6, <2>1, <2>3, ReturnQuiet DEF AddMemberInsert
  <2>. QED
    BY <2>2, <2>3
<1>7. CASE RemoveMemberUpdate(r)
  <2>1. PICK c \in Chats, u \in Users : c = req[r].chat /\ u = req[r].target
    BY <1>0, <1>7, CallShapes DEF RemoveMemberUpdate, At, RemoveCall
  <2>2. CASE Removable(c, u)
    <3>1. chat' = chat /\ \A x \in Requests \ {r} : req[x]' = req[x]
      BY <1>7, <2>1, <2>2 DEF RemoveMemberUpdate, GoTo, TypeOK
    <3>. QED
      BY <1>7, <2>1, <2>2, <3>1, RemoveRow, RowStep DEF Live
  <2>3. CASE ~Removable(c, u)
    BY <1>7, <2>1, <2>3, ReturnQuiet DEF RemoveMemberUpdate
  <2>. QED
    BY <2>2, <2>3
<1>8. CASE RemoveMemberDel(r)
  BY <1>8, GoToQuiet DEF RemoveMemberDel, At, PastMemberCheck
<1>9. CASE IncrementKeyVersion(r)
  <2>1. PICK c \in Chats : c = req[r].chat
    BY <1>0, <1>9 DEF IncrementKeyVersion, At
  <2>2. CASE Live(c)
    <3>1. /\ \A d \in Chats : chat[d]'.state = chat[d].state
          /\ \A x \in Requests \ {r} : req[x]' = req[x]
          /\ req[r]'.pc = "idle"
      BY <1>9, <2>1, <2>2, EpochShape DEF IncrementKeyVersion, Return, Idle, TypeOK
    <3>2. chat[c].state # "unused" /\ Populated(c) /\ Populated(c)' /\ member' = member
      BY <1>9, <2>1, <2>2
         DEF IncrementKeyVersion, At, MembershipInv, CheckedChatKnown, PastMemberCheck, Populated
    <3>. QED
      BY <2>2, <3>1, <3>2, RowStep DEF PastMemberCheck
  <2>3. CASE ~Live(c)
    BY <1>9, <2>1, <2>3, ReturnQuiet DEF IncrementKeyVersion
  <2>. QED
    BY <2>2, <2>3
<1>10. CASE UpdateRoleFindTarget(r)
  BY <1>0, <1>10, GoToQuiet, ReturnQuiet DEF UpdateRoleFindTarget, At, Check, PastMemberCheck
<1>11. CASE UpdateRoleUpdate(r)
  <2>1. req[r].chat \in Chats /\ req[r].target \in Users /\ req[r].role \in Roles
    BY <1>0, <1>11, CallShapes DEF UpdateRoleUpdate, At, RoleCall
  <2>2. /\ \A x \in Requests \ {r} : req[x]' = req[x]
        /\ req[r]'.pc \in {"last_del", "idle"}
        /\ chat' = chat
    BY <1>11 DEF UpdateRoleUpdate, GoToLastDel, Return, Idle, TypeOK
  <2>. QED
    BY <1>11, <2>1, <2>2, SetRoleStep DEF UpdateRoleUpdate, PastMemberCheck
<1>12. CASE TransferFindNewOwner(r)
  <2>1. req[r].target \in Users
    BY <1>0, <1>12, CallShapes DEF TransferFindNewOwner, At, TransferCall
  <2>. QED
    BY <1>0, <1>12, <2>1, GoToQuiet, ReturnQuiet DEF TransferFindNewOwner, At, Check
<1>13. CASE TransferDemote(r)
  <2>1. req[r].chat \in Chats /\ req[r].actor \in Users
    BY <1>0, <1>13, CallShapes DEF TransferDemote, At, TransferCall
  <2>2. PICK pc \in {"transfer_demote_del", "transfer_promote"} : GoTo(r, pc)
    BY <1>13 DEF TransferDemote
  <2>3. /\ \A x \in Requests \ {r} : req[x]' = req[x]
        /\ req[r]' = WithPc(req[r], pc)
        /\ chat' = chat
    BY <1>13, <2>2 DEF TransferDemote, GoTo, TypeOK
  <2>4. req[r]'.pc = pc /\ req[r]'.chat = req[r].chat /\ At(r, "transfer_demote")
    BY <1>0, <1>13, <2>3, KeptFields DEF TransferDemote, At
  <2>5. SetRole(req[r].chat, req[r].actor, "ADMIN") /\ "ADMIN" \in Roles
    BY <1>13 DEF TransferDemote, Roles
  <2>. QED
    BY <2>1, <2>3, <2>4, <2>5, SetRoleStep DEF PastMemberCheck, At
<1>14. CASE TransferDemoteDel(r)
  BY <1>14, GoToQuiet DEF TransferDemoteDel, At, PastMemberCheck
<1>15. CASE TransferPromote(r)
  <2>1. req[r].chat \in Chats /\ req[r].target \in Users
    BY <1>0, <1>15, CallShapes DEF TransferPromote, At, TransferCall
  <2>2. /\ \A x \in Requests \ {r} : req[x]' = req[x]
        /\ req[r]'.pc \in {"last_del", "idle"}
        /\ chat' = chat
    BY <1>15 DEF TransferPromote, GoToLastDel, Return, Idle, TypeOK
  <2>3. SetRole(req[r].chat, req[r].target, "OWNER") /\ "OWNER" \in Roles
    BY <1>15 DEF TransferPromote, Roles
  <2>. QED
    BY <2>1, <2>2, <2>3, SetRoleStep DEF PastMemberCheck
<1>16. CASE DeleteChatFindMember(r)
  <2>1. req[r].actor \in Users
    BY <1>0, <1>16, CallShapes DEF DeleteChatFindMember, At, DeleteCall
  <2>. QED
    BY <1>0, <1>16, <2>1, GoToQuiet, ReturnQuiet DEF DeleteChatFindMember, At, Check
<1>17. CASE DeleteChatDelete(r)
  BY <1>0, <1>17, DeleteStep DEF DeleteChatDelete, At
<1>18. CASE ListGet(r)
  BY <1>0, <1>18, GoToQuiet, ReturnQuiet DEF ListGet, At, Check, PastMemberCheck
<1>19. CASE ListSelect(r)
  BY <1>19, QuietStep DEF ListSelect, PastMemberCheck, TypeOK
<1>20. CASE ListSet(r)
  BY <1>20, ReturnQuiet DEF ListSet
<1>21. CASE LastDel(r)
  BY <1>21, ReturnQuiet DEF LastDel
<1>. QED
  BY <1>1, <1>2, <1>3, <1>4, <1>5, <1>6, <1>7, <1>8, <1>9, <1>10, <1>11, <1>12, <1>13,
     <1>14, <1>15, <1>16, <1>17, <1>18, <1>19, <1>20, <1>21 DEF Continue

LEMMA InitMembershipInv == Init => MembershipInv
BY DEF Init, MembershipInv, NoOrphanRows, CreationIsolated, CheckedChatKnown, At, Idle,
       PastMemberCheck

LEMMA StepMembershipInv ==
  ASSUME TypeOK, TypeOK', MembershipInv, [Next]_vars
  PROVE  MembershipInv'
<1>1. CASE \E r \in Requests : Arrive(r) \/ Continue(r)
  BY <1>1, ArriveMembershipInv, ContinueMembershipInv
<1>2. CASE \E r \in Requests : Fail(r)
  BY <1>2, ReturnQuiet DEF Fail
<1>3. CASE \E c \in Chats : Expire(c)
  BY <1>3 DEF Expire, MembershipInv, NoOrphanRows, CreationIsolated, CheckedChatKnown, At,
              Live, Populated
<1>4. CASE UNCHANGED vars
  BY <1>4 DEF vars, MembershipInv, NoOrphanRows, CreationIsolated, CheckedChatKnown, At,
              Live, Populated
<1>. QED
  BY <1>1, <1>2, <1>3, <1>4 DEF Next

THEOREM MembershipInvariant == Spec => []MembershipInv
<1>1. TypeOK /\ TypeOK' /\ MembershipInv /\ [Next]_vars => MembershipInv'
  BY StepMembershipInv
<1>. QED
  BY <1>1, InitMembershipInv, TypeCorrect, PTL DEF Spec

(* A chat that was never created, or was deleted, has no member rows: no   *)
(* call that passed its checks before a deletion writes one after it.      *)
THEOREM NoRowOutlivesItsChat == Spec => []NoOrphanRows
<1>1. MembershipInv => NoOrphanRows
  BY DEF MembershipInv
<1>. QED
  BY <1>1, MembershipInvariant, PTL

-----------------------------------------------------------------------------
(* Departure is final.                                                     *)
LEMMA LeftRowKept ==
  ASSUME TypeOK, MembershipInv, NEW r \in Requests, Continue(r),
         NEW c \in Chats, NEW u \in Users,
         member[c][u].status = "left", chat[c]'.state = "live"
  PROVE  member[c][u]' = member[c][u]
<1>0. req[r] \in Call
  BY DEF TypeOK
<1>1. CASE CreateChatMembers(r)
  <2>1. req[r].chat # c
    BY <1>1 DEF CreateChatMembers, MembershipInv, CreationIsolated, Populated
  <2>. QED
    BY <1>1, <2>1 DEF CreateChatMembers, TypeOK
<1>2. CASE AddMemberInsert(r)
  <2>1. CASE InsertAllowed(req[r].chat, req[r].target)
    <3>1. member' = [member EXCEPT ![req[r].chat][req[r].target] = ActiveRow(req[r].role)]
      BY <1>2, <2>1 DEF AddMemberInsert
    <3>2. req[r].chat # c \/ req[r].target # u
      BY <2>1 DEF InsertAllowed
    <3>. QED
      BY <3>1, <3>2 DEF TypeOK
  <2>2. CASE ~InsertAllowed(req[r].chat, req[r].target)
    BY <1>2, <2>2 DEF AddMemberInsert
  <2>. QED
    BY <2>1, <2>2
<1>3. CASE RemoveMemberUpdate(r)
  <2>1. CASE Removable(req[r].chat, req[r].target)
    <3>1. member' = [member EXCEPT ![req[r].chat][req[r].target] = WithLeftAt(@)]
      BY <1>3, <2>1 DEF RemoveMemberUpdate
    <3>2. req[r].chat # c \/ req[r].target # u
      BY <2>1 DEF Removable, Active
    <3>. QED
      BY <3>1, <3>2 DEF TypeOK
  <2>2. CASE ~Removable(req[r].chat, req[r].target)
    BY <1>3, <2>2 DEF RemoveMemberUpdate
  <2>. QED
    BY <2>1, <2>2
<1>4. ASSUME NEW d, NEW v, NEW role, SetRole(d, v, role)
      PROVE  member[c][u]' = member[c][u]
  <2>1. CASE Active(d, v)
    <3>1. d # c \/ v # u
      BY <2>1 DEF Active
    <3>. QED
      BY <1>4, <2>1, <3>1 DEF SetRole, TypeOK
  <2>. QED
    BY <1>4, <2>1 DEF SetRole
<1>5. CASE UpdateRoleUpdate(r) \/ TransferDemote(r) \/ TransferPromote(r)
  BY <1>4, <1>5 DEF UpdateRoleUpdate, TransferDemote, TransferPromote
<1>6. CASE DeleteChatDelete(r)
  <2>1. req[r].chat # c
    BY <1>6 DEF DeleteChatDelete, GoneChat, TypeOK
  <2>. QED
    BY <1>6, <2>1 DEF DeleteChatDelete, TypeOK
<1>7. CASE UNCHANGED member
  BY <1>7
<1>. QED
  BY <1>1, <1>2, <1>3, <1>5, <1>6, <1>7 DEF Continue, CreateChatInsert, CreateChatRejected,
     AddMemberFindRequester, AddMemberFindTarget, RemoveMemberDel, IncrementKeyVersion,
     UpdateRoleFindTarget, TransferFindNewOwner, TransferDemoteDel, DeleteChatFindMember,
     ListGet, ListSelect, ListSet, LastDel

LEMMA ArriveKeepsRows ==
  ASSUME NEW r \in Requests, Arrive(r)
  PROVE  UNCHANGED member
BY DEF Arrive, CreateChatCheck, AddMemberFindChat, RemoveMemberFindRequester,
       UpdateRoleFindRequester, TransferFindOwner, DeleteChatFind, ListIsMember

(* No step makes a member who left active again or changes the role they   *)
(* left with while the chat is there, whatever was checked before the      *)
(* departure.                                                              *)
THEOREM DepartureIsFinal == Spec => LeftIsFinal
<1>1. ASSUME TypeOK, MembershipInv, [Next]_vars, NEW c \in Chats, NEW u \in Users,
             member[c][u].status = "left", chat[c]'.state = "live"
      PROVE  member[c][u]' = member[c][u]
  <2>1. CASE \E r \in Requests : Continue(r)
    BY <1>1, <2>1, LeftRowKept
  <2>2. CASE \E r \in Requests : Arrive(r)
    BY <2>2, ArriveKeepsRows
  <2>3. CASE (\E r \in Requests : Fail(r)) \/ (\E c1 \in Chats : Expire(c1)) \/ UNCHANGED vars
    BY <2>3 DEF Fail, Expire, vars
  <2>. QED
    BY <1>1, <2>1, <2>2, <2>3 DEF Next
<1>2. TypeOK /\ MembershipInv /\ [Next]_vars =>
        [\A c \in Chats, u \in Users :
           member[c][u].status = "left" /\ chat[c]'.state = "live" =>
             member[c][u]' = member[c][u]]_vars
  BY <1>1
<1>. QED
  BY <1>2, TypeCorrect, MembershipInvariant, PTL DEF Spec, LeftIsFinal

-----------------------------------------------------------------------------
(* Chats that are created, populated and owned.                            *)

(* A step of one call leaves the other slots alone.                        *)
LEMMA OnlyOneMoves ==
  ASSUME TypeOK, NEW r \in Requests, Arrive(r) \/ Continue(r) \/ Fail(r)
  PROVE  \A x \in Requests \ {r} : req[x]' = req[x]
<1>. USE DEF TypeOK
<1>1. CASE Arrive(r)
  BY <1>1 DEF Arrive, Start, CreateChatCheck, AddMemberFindChat, RemoveMemberFindRequester,
              UpdateRoleFindRequester, TransferFindOwner, DeleteChatFind, ListIsMember
<1>2. CASE Continue(r)
  BY <1>2 DEF Continue, Return, GoTo, Check, GoToLastDel, CreateChatInsert,
     CreateChatRejected, CreateChatMembers, AddMemberFindRequester, AddMemberFindTarget,
     AddMemberInsert, RemoveMemberUpdate, RemoveMemberDel, IncrementKeyVersion,
     UpdateRoleFindTarget, UpdateRoleUpdate, TransferFindNewOwner, TransferDemote,
     TransferDemoteDel, TransferPromote, DeleteChatFindMember, DeleteChatDelete, ListGet,
     ListSelect, ListSet, LastDel
<1>3. CASE Fail(r)
  BY <1>3 DEF Fail, Return
<1>. QED
  BY <1>1, <1>2, <1>3

(* A row is not taken away while its chat is there.                        *)
LEMMA RowStays ==
  ASSUME TypeOK, MembershipInv, NEW r \in Requests, Continue(r),
         NEW c \in Chats, NEW u \in Users,
         member[c][u].status # "absent", Live(c)'
  PROVE  member[c][u]'.status # "absent"
<1>0. req[r] \in Call /\ NoOrphanRows
  BY DEF TypeOK, MembershipInv
<1>1. CASE CreateChatMembers(r)
  <2>1. req[r].chat # c
    BY <1>1 DEF CreateChatMembers, MembershipInv, CreationIsolated, Populated
  <2>. QED
    BY <1>1, <2>1 DEF CreateChatMembers, TypeOK
<1>2. CASE AddMemberInsert(r)
  <2>1. CASE InsertAllowed(req[r].chat, req[r].target)
    <3>1. member' = [member EXCEPT ![req[r].chat][req[r].target] = ActiveRow(req[r].role)]
      BY <1>2, <2>1 DEF AddMemberInsert
    <3>2. req[r].chat # c \/ req[r].target # u
      BY <2>1 DEF InsertAllowed
    <3>. QED
      BY <3>1, <3>2 DEF TypeOK
  <2>2. CASE ~InsertAllowed(req[r].chat, req[r].target)
    BY <1>2, <2>2 DEF AddMemberInsert
  <2>. QED
    BY <2>1, <2>2
<1>3. CASE RemoveMemberUpdate(r)
  <2>1. CASE Removable(req[r].chat, req[r].target)
    <3>1. member' = [member EXCEPT ![req[r].chat][req[r].target] = WithLeftAt(@)]
      BY <1>3, <2>1 DEF RemoveMemberUpdate
    <3>2. WithLeftAt(member[c][u]).status = "left"
      BY RowShapes DEF TypeOK, Roles
    <3>. QED
      BY <3>1, <3>2 DEF TypeOK
  <2>2. CASE ~Removable(req[r].chat, req[r].target)
    BY <1>3, <2>2 DEF RemoveMemberUpdate
  <2>. QED
    BY <2>1, <2>2
<1>4. ASSUME NEW d \in Chats, NEW v \in Users, NEW role \in Roles, SetRole(d, v, role)
      PROVE  member[c][u]'.status = member[c][u].status
  BY <1>0, <1>4, SetRoleRows
<1>5. CASE UpdateRoleUpdate(r)
  <2>1. req[r].chat \in Chats /\ req[r].target \in Users /\ req[r].role \in Roles
    BY <1>0, <1>5, CallShapes DEF UpdateRoleUpdate, At, RoleCall
  <2>. QED
    BY <1>4, <1>5, <2>1 DEF UpdateRoleUpdate
<1>6. CASE TransferDemote(r) \/ TransferPromote(r)
  <2>1. /\ req[r].chat \in Chats /\ req[r].actor \in Users /\ req[r].target \in Users
        /\ "ADMIN" \in Roles /\ "OWNER" \in Roles
    BY <1>0, <1>6, CallShapes DEF TransferDemote, TransferPromote, At, TransferCall, Roles
  <2>. QED
    BY <1>4, <1>6, <2>1 DEF TransferDemote, TransferPromote
<1>7. CASE DeleteChatDelete(r)
  <2>1. req[r].chat # c
    BY <1>7 DEF DeleteChatDelete, GoneChat, TypeOK, Live
  <2>. QED
    BY <1>7, <2>1 DEF DeleteChatDelete, TypeOK
<1>8. CASE UNCHANGED member
  BY <1>8
<1>. QED
  BY <1>1, <1>2, <1>3, <1>5, <1>6, <1>7, <1>8 DEF Continue, CreateChatInsert,
     CreateChatRejected, AddMemberFindRequester, AddMemberFindTarget, RemoveMemberDel,
     IncrementKeyVersion, UpdateRoleFindTarget, TransferFindNewOwner, TransferDemoteDel,
     DeleteChatFindMember, ListGet, ListSelect, ListSet, LastDel

(* A chat comes into being in the first INSERT of its createChat only.     *)
LEMMA BornInCreation ==
  ASSUME TypeOK, NEW r \in Requests, Continue(r), NEW c \in Chats, Live(c)', ~Live(c)
  PROVE  /\ chat[c].state = "unused"
         /\ At(r, "create_members")' /\ req[r]'.chat = c /\ member' = member
<1>0. req[r] \in Call
  BY DEF TypeOK
<1>1. CASE CreateChatInsert(r)
  BY <1>1 DEF CreateChatInsert, Live, At, TypeOK
<1>2. CASE IncrementKeyVersion(r)
  <2>1. req[r].chat \in Chats
    BY <1>0, <1>2, CallShapes DEF IncrementKeyVersion, At, RemoveCall
  <2>. QED
    BY <1>2, <2>1, EpochShape DEF IncrementKeyVersion, Live, TypeOK
<1>3. CASE DeleteChatDelete(r)
  BY <1>3 DEF DeleteChatDelete, Live, TypeOK, GoneChat
<1>4. CASE UNCHANGED chat
  BY <1>4 DEF Live
<1>. QED
  BY <1>1, <1>2, <1>3, <1>4 DEF Continue, CreateChatRejected, CreateChatMembers,
     AddMemberFindRequester, AddMemberFindTarget, AddMemberInsert, RemoveMemberUpdate,
     RemoveMemberDel, UpdateRoleFindTarget, UpdateRoleUpdate, TransferFindNewOwner,
     TransferDemote, TransferDemoteDel, TransferPromote, DeleteChatFindMember, ListGet,
     ListSelect, ListSet, LastDel

(* The second INSERT of createChat is the only statement of such a call,   *)
(* and it gives the chat its owner.                                        *)
LEMMA CreationPopulates ==
  ASSUME TypeOK, TypeOK', MembershipInv, NEW r \in Requests, Continue(r),
         At(r, "create_members"), NEW c \in Chats, c = req[r].chat
  PROVE  Populated(c)' /\ Owned(c)'
<1>1. CreateChatMembers(r)
  BY DEF Continue, At, CreateChatInsert, CreateChatRejected, AddMemberFindRequester,
     AddMemberFindTarget, AddMemberInsert, RemoveMemberUpdate, RemoveMemberDel,
     IncrementKeyVersion, UpdateRoleFindTarget, UpdateRoleUpdate, TransferFindNewOwner,
     TransferDemote, TransferDemoteDel, TransferPromote, DeleteChatFindMember,
     DeleteChatDelete, ListGet, ListSelect, ListSet, LastDel
<1>2. PICK a \in Users : a = req[r].actor
  BY CallShapes DEF TypeOK, At
<1>3. member[c][a]' = ActiveRow("OWNER")
  BY <1>1, <1>2, CreateMembersStep
<1>. QED
  BY <1>3 DEF Populated, Owned, HasRole, Active, ActiveRow

LEMMA ContinueMemberless ==
  ASSUME TypeOK, TypeOK', MembershipInv, MemberlessOnlyInCreation,
         NEW r \in Requests, Continue(r)
  PROVE  MemberlessOnlyInCreation'
<1>. SUFFICES ASSUME NEW c \in Chats, Live(c)', ~Populated(c)', ~(failures > 0)'
              PROVE  \E x \in Requests : At(x, "create_members")' /\ req[x]'.chat = c
  BY DEF MemberlessOnlyInCreation, At
<1>1. CASE ~Live(c)
  BY <1>1, BornInCreation
<1>2. CASE Live(c)
  <2>1. ~Populated(c)
    BY <1>2, RowStays DEF Populated
  <2>2. failures' = failures
    BY DEF Continue, CreateChatInsert, CreateChatRejected, CreateChatMembers,
       AddMemberFindRequester, AddMemberFindTarget, AddMemberInsert, RemoveMemberUpdate,
       RemoveMemberDel, IncrementKeyVersion, UpdateRoleFindTarget, UpdateRoleUpdate,
       TransferFindNewOwner, TransferDemote, TransferDemoteDel, TransferPromote,
       DeleteChatFindMember, DeleteChatDelete, ListGet, ListSelect, ListSet, LastDel
  <2>3. PICK x \in Requests : At(x, "create_members") /\ req[x].chat = c
    BY <1>2, <2>1, <2>2 DEF MemberlessOnlyInCreation
  <2>4. x # r
    BY <2>3, CreationPopulates
  <2>. QED
    BY <2>3, <2>4, OnlyOneMoves DEF At
<1>. QED
  BY <1>1, <1>2

(* A chat has members except between the two INSERTs of its creation, or   *)
(* after a call failed: nothing that happens to it later empties it.       *)
THEOREM MemberlessInCreation == Spec => []MemberlessOnlyInCreation
<1>1. Init => MemberlessOnlyInCreation
  BY DEF Init, MemberlessOnlyInCreation, Live, NoChat
<1>2. ASSUME TypeOK, TypeOK', MembershipInv, MemberlessOnlyInCreation, [Next]_vars
      PROVE  MemberlessOnlyInCreation'
  <2>1. ASSUME NEW r \in Requests, Arrive(r)
        PROVE  MemberlessOnlyInCreation'
    <3>1. UNCHANGED <<chat, member, failures>> /\ req[r] = Idle
      BY <2>1 DEF Arrive, Start, CreateChatCheck, AddMemberFindChat,
         RemoveMemberFindRequester, UpdateRoleFindRequester, TransferFindOwner,
         DeleteChatFind, ListIsMember
    <3>2. \A x \in Requests : At(x, "create_members") => req[x]' = req[x]
      <4>1. ~At(r, "create_members")
        BY <3>1 DEF At, Idle
      <4>2. \A x \in Requests \ {r} : req[x]' = req[x]
        BY <1>2, <2>1, OnlyOneMoves
      <4>. QED
        BY <4>1, <4>2
    <3>. QED
      BY <1>2, <3>1, <3>2 DEF MemberlessOnlyInCreation, Live, Populated, At
  <2>2. ASSUME NEW r \in Requests, Continue(r)
        PROVE  MemberlessOnlyInCreation'
    BY <1>2, <2>2, ContinueMemberless
  <2>3. ASSUME NEW r \in Requests, Fail(r)
        PROVE  MemberlessOnlyInCreation'
    BY <1>2, <2>3 DEF Fail, MemberlessOnlyInCreation, TypeOK
  <2>4. ASSUME (\E c \in Chats : Expire(c)) \/ UNCHANGED vars
        PROVE  MemberlessOnlyInCreation'
    BY <1>2, <2>4 DEF Expire, vars, MemberlessOnlyInCreation, Live, Populated, At
  <2>. QED
    BY <1>2, <2>1, <2>2, <2>3, <2>4 DEF Next
<1>. QED
  BY <1>1, <1>2, TypeCorrect, MembershipInvariant, PTL DEF Spec

-----------------------------------------------------------------------------
(* Owners.  The new owner of a transfer that has passed its check has a    *)
(* row as long as the chat is there (they may have left meanwhile).  Where *)
(* no client asks for updateMemberRole there is no such call in flight.    *)
TransferTargetKnown ==
  \A r \in Requests :
    req[r].pc \in {"transfer_demote", "transfer_demote_del", "transfer_promote"} /\ Live(req[r].chat)
      => member[req[r].chat][req[r].target].status # "absent"

NoRoleCall == \A r \in Requests : req[r].pc \notin {"role_target", "role_update"}

LEMMA TransferMoves ==
  ASSUME TypeOK, NEW r \in Requests, Continue(r),
         req[r]'.pc \in {"transfer_demote", "transfer_demote_del", "transfer_promote"}
  PROVE  /\ req[r] \in TransferCall
         /\ req[r]'.chat = req[r].chat /\ req[r]'.target = req[r].target
         /\ At(r, "transfer_target") =>
              Active(req[r].chat, req[r].target) /\ UNCHANGED <<chat, member>>
         /\ At(r, "transfer_target") \/ TransferDemote(r) \/ TransferDemoteDel(r)
<1>0. req[r] \in Call
  BY DEF TypeOK
<1>1. CASE TransferFindNewOwner(r)
  <2>1. req[r] \in TransferCall /\ At(r, "transfer_target")
    BY <1>0, <1>1, CallShapes DEF TransferFindNewOwner, At
  <2>2. Active(req[r].chat, req[r].target) /\ req[r]' = WithPc(req[r], "transfer_demote")
    BY <1>1 DEF TransferFindNewOwner, Check, GoTo, Return, Idle, TypeOK
  <2>. QED
    BY <1>0, <1>1, <2>1, <2>2, KeptFields DEF TransferFindNewOwner, TransferCall
<1>2. CASE TransferDemote(r) \/ TransferDemoteDel(r)
  <2>1. req[r] \in TransferCall /\ ~At(r, "transfer_target")
    BY <1>0, <1>2, CallShapes DEF TransferDemote, TransferDemoteDel, At
  <2>2. \E pc : req[r]' = WithPc(req[r], pc)
    BY <1>2 DEF TransferDemote, TransferDemoteDel, GoTo, TypeOK
  <2>. QED
    BY <1>0, <1>2, <2>1, <2>2, KeptFields DEF TransferCall
<1>3. CASE AddMemberFindRequester(r) \/ AddMemberFindTarget(r) \/ UpdateRoleFindTarget(r)
             \/ DeleteChatFindMember(r) \/ ListGet(r)
  <2>1. req[r].pc \notin {"idle", "create_chat"}
    BY <1>3 DEF AddMemberFindRequester, AddMemberFindTarget, UpdateRoleFindTarget,
                DeleteChatFindMember, ListGet, At
  <2>. QED
    BY <1>0, <1>3, <2>1, KeptFields DEF AddMemberFindRequester, AddMemberFindTarget,
       UpdateRoleFindTarget, DeleteChatFindMember, ListGet, Check, GoTo, Return, Idle, TypeOK
<1>4. CASE RemoveMemberUpdate(r) \/ RemoveMemberDel(r)
  BY <1>0, <1>4, KeptFields DEF RemoveMemberUpdate, RemoveMemberDel, At, GoTo, Return, Idle,
                                TypeOK
<1>5. ASSUME \/ CreateChatInsert(r) \/ CreateChatRejected(r) \/ CreateChatMembers(r)
             \/ AddMemberInsert(r) \/ IncrementKeyVersion(r) \/ UpdateRoleUpdate(r)
             \/ TransferPromote(r) \/ DeleteChatDelete(r) \/ ListSelect(r) \/ ListSet(r)
             \/ LastDel(r)
      PROVE  FALSE
  BY <1>5 DEF CreateChatInsert, CreateChatRejected, CreateChatMembers, AddMemberInsert,
     IncrementKeyVersion, UpdateRoleUpdate, TransferPromote, DeleteChatDelete, ListSelect,
     ListSet, LastDel, Return, GoToLastDel, Idle, TypeOK
<1>. QED
  BY <1>1, <1>2, <1>3, <1>4, <1>5 DEF Continue

LEMMA TargetKnownStep ==
  ASSUME TypeOK, TypeOK', MembershipInv, TransferTargetKnown,
         NEW r \in Requests, Arrive(r) \/ Continue(r) \/ Fail(r)
  PROVE  TransferTargetKnown'
<1>. DEFINE Past == {"transfer_demote", "transfer_demote_del", "transfer_promote"}
<1>1. SUFFICES ASSUME NEW x \in Requests, (req[x]').pc \in Past,
                      NEW c \in Chats, c = (req[x]').chat,
                      NEW u \in Users, u = (req[x]').target, Live(c)'
               PROVE  (member')[c][u].status # "absent"
  <2>1. \A x \in Requests : (req[x]').pc \in Past =>
          (req[x]').chat \in Chats /\ (req[x]').target \in Users
    BY CallShapes DEF TypeOK, TransferCall
  <2>. QED
    BY <2>1 DEF TransferTargetKnown
<1>2. ASSUME req[x].pc \in Past, req[x].chat = c, req[x].target = u
      PROVE  (member')[c][u].status # "absent"
  <2>1. CASE Arrive(r) \/ Fail(r)
    BY <1>1, <1>2, <2>1 DEF Fail, Live, TransferTargetKnown, Arrive, CreateChatCheck,
       AddMemberFindChat, RemoveMemberFindRequester, UpdateRoleFindRequester,
       TransferFindOwner, DeleteChatFind, ListIsMember
  <2>2. CASE Continue(r)
    <3>1. Live(c)
      BY <1>1, <1>2, <2>2, BornInCreation DEF MembershipInv, CheckedChatKnown, PastMemberCheck
    <3>. QED
      BY <1>1, <1>2, <2>2, <3>1, RowStays DEF TransferTargetKnown
  <2>. QED
    BY <2>1, <2>2
<1>3. CASE x # r
  BY <1>1, <1>2, <1>3, OnlyOneMoves
<1>4. CASE x = r
  <2>1. ~Arrive(r) /\ ~Fail(r)
    BY <1>1, <1>4 DEF Arrive, Start, CreateChatCheck, AddMemberFindChat,
       RemoveMemberFindRequester, UpdateRoleFindRequester, TransferFindOwner,
       DeleteChatFind, ListIsMember, Fail, Return, Idle, TypeOK
  <2>2. /\ req[r].chat = c /\ req[r].target = u
        /\ At(r, "transfer_target") => Active(c, u) /\ UNCHANGED member
        /\ At(r, "transfer_target") \/ TransferDemote(r) \/ TransferDemoteDel(r)
    BY <1>1, <1>4, <2>1, TransferMoves
  <2>3. CASE At(r, "transfer_target")
    BY <2>2, <2>3 DEF Active
  <2>4. CASE TransferDemote(r) \/ TransferDemoteDel(r)
    BY <1>2, <1>4, <2>2, <2>4 DEF TransferDemote, TransferDemoteDel, At
  <2>. QED
    BY <2>2, <2>3, <2>4
<1>. QED
  BY <1>3, <1>4

LEMMA NoRoleCallStep ==
  ASSUME "updateMemberRole" \notin Operations, TypeOK, NoRoleCall,
         NEW r \in Requests, Arrive(r) \/ Continue(r) \/ Fail(r)
  PROVE  NoRoleCall'
<1>1. (req[r]').pc \notin {"role_target", "role_update"}
  <2>1. CASE Arrive(r)
    BY <2>1 DEF Arrive, Start, CreateChatCheck, AddMemberFindChat, RemoveMemberFindRequester,
       UpdateRoleFindRequester, TransferFindOwner, DeleteChatFind, ListIsMember, TypeOK
  <2>2. CASE Continue(r)
    <3>1. ASSUME NEW pc, GoTo(r, pc), req[r].pc \notin {"idle", "create_chat"}
          PROVE  (req[r]').pc = pc
      BY <3>1, KeptFields DEF GoTo, TypeOK
    <3>2. ~UpdateRoleFindTarget(r)
      BY DEF UpdateRoleFindTarget, NoRoleCall, At
    <3>3. \/ \E pc \in {"add_target", "add_insert", "remove_del", "remove_bump",
                        "transfer_demote", "transfer_demote_del", "transfer_promote",
                        "delete_chat", "list_select"} :
               GoTo(r, pc) /\ req[r].pc \notin {"idle", "create_chat"}
          \/ Return(r) \/ GoToLastDel(r)
          \/ CreateChatInsert(r) \/ AddMemberInsert(r) \/ ListSelect(r)
      BY <2>2, <3>2 DEF Continue, Check, CreateChatRejected, CreateChatMembers,
         AddMemberFindRequester, AddMemberFindTarget, RemoveMemberUpdate, RemoveMemberDel,
         IncrementKeyVersion, UpdateRoleUpdate, TransferFindNewOwner, TransferDemote,
         TransferDemoteDel, TransferPromote, DeleteChatFindMember, DeleteChatDelete, ListGet,
         ListSet, LastDel, At
    <3>. QED
      BY <3>1, <3>3 DEF Return, GoToLastDel, CreateChatInsert, AddMemberInsert, ListSelect,
                        Idle, TypeOK
  <2>3. CASE Fail(r)
    BY <2>3 DEF Fail, Return, Idle, TypeOK
  <2>. QED
    BY <2>1, <2>2, <2>3
<1>. QED
  BY <1>1, OnlyOneMoves DEF NoRoleCall

(* An owner of a chat nobody has left stays the owner, unless a transfer   *)
(* demotes them, and then it is under way.                                 *)
LEMMA OwnerStays ==
  ASSUME TypeOK, TypeOK', MembershipInv, NoRoleCall, NEW r \in Requests, Continue(r),
         NEW c \in Chats, Live(c)', LeftMembers(c)' = {}, Owned(c)
  PROVE  Owned(c)' \/ Transferring(c)'
<1>0. req[r] \in Call /\ NoOrphanRows
  BY DEF TypeOK, MembershipInv
<1>1. PICK o \in Users : member[c][o].status = "active" /\ member[c][o].role = "OWNER"
  BY DEF Owned, HasRole, Active
<1>2. ASSUME member[c][o]' = member[c][o]
      PROVE  Owned(c)'
  BY <1>1, <1>2 DEF Owned, HasRole, Active
<1>3. CASE CreateChatMembers(r)
  <2>1. req[r].chat # c
    BY <1>1, <1>3 DEF CreateChatMembers, MembershipInv, CreationIsolated, Populated
  <2>. QED
    BY <1>2, <1>3, <2>1 DEF CreateChatMembers, TypeOK
<1>4. CASE AddMemberInsert(r)
  <2>1. CASE InsertAllowed(req[r].chat, req[r].target)
    <3>1. member' = [member EXCEPT ![req[r].chat][req[r].target] = ActiveRow(req[r].role)]
      BY <1>4, <2>1 DEF AddMemberInsert
    <3>2. req[r].chat # c \/ req[r].target # o
      BY <1>1, <2>1 DEF InsertAllowed
    <3>. QED
      BY <1>2, <3>1, <3>2 DEF TypeOK
  <2>2. CASE ~InsertAllowed(req[r].chat, req[r].target)
    BY <1>2, <1>4, <2>2 DEF AddMemberInsert
  <2>. QED
    BY <2>1, <2>2
<1>5. CASE RemoveMemberUpdate(r)
  <2>1. CASE Removable(req[r].chat, req[r].target) /\ req[r].chat = c
    <3>1. req[r].target \in Users
      BY <1>0, <1>5, CallShapes DEF RemoveMemberUpdate, At, RemoveCall
    <3>2. (member')[c][req[r].target].status = "left"
      BY <1>5, <2>1, <3>1, RemoveRow
    <3>. QED
      BY <3>1, <3>2 DEF LeftMembers
  <2>2. CASE Removable(req[r].chat, req[r].target) /\ req[r].chat # c
    <3>1. member' = [member EXCEPT ![req[r].chat][req[r].target] = WithLeftAt(@)]
      BY <1>5, <2>2 DEF RemoveMemberUpdate
    <3>. QED
      BY <1>2, <2>2, <3>1 DEF TypeOK
  <2>3. CASE ~Removable(req[r].chat, req[r].target)
    BY <1>2, <1>5, <2>3 DEF RemoveMemberUpdate
  <2>. QED
    BY <2>1, <2>2, <2>3
<1>6. CASE TransferDemote(r)
  <2>1. /\ req[r].chat \in Chats /\ req[r].actor \in Users /\ "ADMIN" \in Roles
        /\ req[r].pc = "transfer_demote"
    BY <1>0, <1>6, CallShapes DEF TransferDemote, At, TransferCall, Roles
  <2>2. CASE req[r].chat = c
    <3>1. PICK pc \in {"transfer_demote_del", "transfer_promote"} : req[r]' = WithPc(req[r], pc)
      BY <1>6 DEF TransferDemote, GoTo, TypeOK
    <3>2. (req[r]').pc = pc /\ (req[r]').chat = c
      BY <1>0, <2>1, <2>2, <3>1, KeptFields
    <3>. QED
      BY <3>2 DEF Transferring
  <2>3. CASE req[r].chat # c
    BY <1>0, <1>2, <1>6, <2>1, <2>3, SetRoleRows DEF TransferDemote
  <2>. QED
    BY <2>2, <2>3
<1>7. CASE TransferPromote(r)
  <2>1. /\ req[r].chat \in Chats /\ req[r].target \in Users /\ "OWNER" \in Roles
        /\ SetRole(req[r].chat, req[r].target, "OWNER")
    BY <1>0, <1>7, CallShapes DEF TransferPromote, At, TransferCall, Roles
  <2>2. CASE req[r].chat = c /\ req[r].target = o /\ Active(c, o)
    BY <1>0, <2>1, <2>2, SetRoleRows DEF Owned, HasRole, Active
  <2>3. CASE ~(req[r].chat = c /\ req[r].target = o /\ Active(c, o))
    BY <1>0, <1>1, <1>2, <2>1, <2>3, SetRoleRows DEF Active
  <2>. QED
    BY <2>2, <2>3
<1>8. CASE DeleteChatDelete(r)
  <2>1. req[r].chat # c
    BY <1>8 DEF DeleteChatDelete, GoneChat, TypeOK, Live
  <2>. QED
    BY <1>2, <1>8, <2>1 DEF DeleteChatDelete, TypeOK
<1>9. CASE UNCHANGED member
  BY <1>2, <1>9
<1>10. ~UpdateRoleUpdate(r)
  BY DEF UpdateRoleUpdate, NoRoleCall, At
<1>. QED
  BY <1>3, <1>4, <1>5, <1>6, <1>7, <1>8, <1>9, <1>10 DEF Continue, CreateChatInsert,
     CreateChatRejected, AddMemberFindRequester, AddMemberFindTarget, RemoveMemberDel,
     IncrementKeyVersion, UpdateRoleFindTarget, TransferFindNewOwner, TransferDemoteDel,
     DeleteChatFindMember, ListGet, ListSelect, ListSet, LastDel

(* A transfer under way in a chat nobody has left stays under way until it *)
(* has made its new owner the owner.                                       *)
LEMMA TransferGoesThrough ==
  ASSUME TypeOK, TypeOK', MembershipInv, TransferTargetKnown, NEW r \in Requests, Continue(r),
         NEW c \in Chats, Live(c), LeftMembers(c) = {}, Transferring(c)
  PROVE  Owned(c)' \/ Transferring(c)'
<1>1. PICK x \in Requests :
        req[x].pc \in {"transfer_demote_del", "transfer_promote"} /\ req[x].chat = c
  BY DEF Transferring
<1>2. CASE x # r
  <2>1. req[x]' = req[x]
    BY <1>2, OnlyOneMoves
  <2>. QED
    BY <1>1, <2>1 DEF Transferring
<1>3. CASE x = r /\ At(r, "transfer_demote_del")
  <2>1. TransferDemoteDel(r)
    BY <1>3 DEF Continue, At, CreateChatInsert, CreateChatRejected, CreateChatMembers,
       AddMemberFindRequester, AddMemberFindTarget, AddMemberInsert, RemoveMemberUpdate,
       RemoveMemberDel, IncrementKeyVersion, UpdateRoleFindTarget, UpdateRoleUpdate,
       TransferFindNewOwner, TransferDemote, TransferPromote, DeleteChatFindMember,
       DeleteChatDelete, ListGet, ListSelect, ListSet, LastDel
  <2>2. req[r]' = WithPc(req[r], "transfer_promote")
    BY <2>1 DEF TransferDemoteDel, GoTo, TypeOK
  <2>3. (req[r]').pc = "transfer_promote" /\ (req[r]').chat = c
    BY <1>1, <1>3, <2>2, KeptFields DEF TypeOK, At
  <2>. QED
    BY <2>3 DEF Transferring
<1>4. CASE x = r /\ At(r, "transfer_promote")
  <2>1. TransferPromote(r)
    BY <1>4 DEF Continue, At, CreateChatInsert, CreateChatRejected, CreateChatMembers,
       AddMemberFindRequester, AddMemberFindTarget, AddMemberInsert, RemoveMemberUpdate,
       RemoveMemberDel, IncrementKeyVersion, UpdateRoleFindTarget, UpdateRoleUpdate,
       TransferFindNewOwner, TransferDemote, TransferDemoteDel, DeleteChatFindMember,
       DeleteChatDelete, ListGet, ListSelect, ListSet, LastDel
  <2>2. PICK u \in Users : u = req[r].target
    BY <2>1, CallShapes DEF TransferPromote, At, TransferCall, TypeOK
  <2>3. member[c][u].status # "absent" /\ member[c][u].status # "left"
    BY <1>1, <1>4, <2>2 DEF TransferTargetKnown, LeftMembers, At
  <2>4. Active(c, u)
    BY <2>3 DEF Active, TypeOK, MemberRow
  <2>5. SetRole(c, u, "OWNER") /\ "OWNER" \in Roles
    BY <1>1, <1>4, <2>1, <2>2 DEF TransferPromote, Roles
  <2>. QED
    BY <2>4, <2>5, SetRoleRows DEF MembershipInv, Owned, HasRole, Active
<1>. QED
  BY <1>1, <1>2, <1>3, <1>4 DEF At

LEMMA ContinueOwnerless ==
  ASSUME TypeOK, TypeOK', MembershipInv, NoRoleCall, TransferTargetKnown,
         OwnerlessOnlyInTransfer, NEW r \in Requests, Continue(r)
  PROVE  OwnerlessOnlyInTransfer'
<1>. SUFFICES ASSUME NEW c \in Chats, Live(c)', Populated(c)', LeftMembers(c)' = {},
                     (failures = 0)'
              PROVE  Owned(c)' \/ Transferring(c)'
  BY DEF OwnerlessOnlyInTransfer
<1>1. Live(c)
  <2>1. ASSUME ~Live(c)
        PROVE  ~Populated(c)'
    BY <2>1, BornInCreation, NoRowShape DEF MembershipInv, NoOrphanRows, Populated
  <2>. QED
    BY <2>1
<1>2. CASE ~Populated(c)
  <2>1. ASSUME NEW u \in Users, (member')[c][u] # member[c][u]
        PROVE  Owned(c)'
    <3>1. CASE CreateChatMembers(r)
      <4>1. req[r].chat = c /\ At(r, "create_members")
        BY <2>1, <3>1 DEF CreateChatMembers, TypeOK
      <4>. QED
        BY <4>1, CreationPopulates
    <3>2. CASE AddMemberInsert(r)
      <4>1. req[r].chat \in Chats /\ req[r].target \in Users
        BY <3>2, CallShapes DEF AddMemberInsert, At, TypeOK
      <4>2. CASE InsertAllowed(req[r].chat, req[r].target)
        BY <1>2, <2>1, <3>2, <4>1, <4>2, InsertRow
      <4>3. CASE ~InsertAllowed(req[r].chat, req[r].target)
        BY <2>1, <3>2, <4>3 DEF AddMemberInsert
      <4>. QED
        BY <4>2, <4>3
    <3>3. CASE RemoveMemberUpdate(r)
      <4>1. req[r].chat \in Chats /\ req[r].target \in Users
        BY <3>3, CallShapes DEF RemoveMemberUpdate, At, RemoveCall, TypeOK
      <4>2. CASE Removable(req[r].chat, req[r].target)
        BY <1>2, <2>1, <3>3, <4>1, <4>2, RemoveRow
      <4>3. CASE ~Removable(req[r].chat, req[r].target)
        BY <2>1, <3>3, <4>3 DEF RemoveMemberUpdate
      <4>. QED
        BY <4>2, <4>3
    <3>4. ASSUME NEW d \in Chats, NEW v \in Users, NEW role \in Roles, SetRole(d, v, role)
          PROVE  FALSE
      BY <1>2, <2>1, <3>4, SetRoleRows DEF MembershipInv, Populated, Active
    <3>5. ~(TransferDemote(r) \/ TransferPromote(r))
      <4>1. "ADMIN" \in Roles /\ "OWNER" \in Roles
        BY DEF Roles
      <4>2. TransferDemote(r) \/ TransferPromote(r) => req[r] \in TransferCall
        BY CallShapes DEF TransferDemote, TransferPromote, At, TypeOK
      <4>. QED
        BY <3>4, <4>1, <4>2 DEF TransferDemote, TransferPromote, TransferCall
    <3>6. ~UpdateRoleUpdate(r)
      BY DEF UpdateRoleUpdate, NoRoleCall, At
    <3>7. ~DeleteChatDelete(r)
      BY <2>1 DEF DeleteChatDelete, TypeOK, GoneChat, Live
    <3>. QED
      BY <2>1, <3>1, <3>2, <3>3, <3>5, <3>6, <3>7 DEF Continue, CreateChatInsert,
         CreateChatRejected, AddMemberFindRequester, AddMemberFindTarget, RemoveMemberDel,
         IncrementKeyVersion, UpdateRoleFindTarget, TransferFindNewOwner, TransferDemoteDel,
         DeleteChatFindMember, ListGet, ListSelect, ListSet, LastDel
  <2>. QED
    BY <1>2, <2>1 DEF Populated
<1>3. CASE Populated(c)
  <2>1. LeftMembers(c) = {}
    BY LeftRowKept DEF LeftMembers, Live
  <2>2. failures = 0
    BY DEF Continue, CreateChatInsert, CreateChatRejected, CreateChatMembers,
       AddMemberFindRequester, AddMemberFindTarget, AddMemberInsert, RemoveMemberUpdate,
       RemoveMemberDel, IncrementKeyVersion, UpdateRoleFindTarget, UpdateRoleUpdate,
       TransferFindNewOwner, TransferDemote, TransferDemoteDel, TransferPromote,
       DeleteChatFindMember, DeleteChatDelete, ListGet, ListSelect, ListSet, LastDel
  <2>3. Owned(c) \/ Transferring(c)
    BY <1>1, <1>3, <2>1, <2>2 DEF OwnerlessOnlyInTransfer
  <2>. QED
    BY <1>1, <2>1, <2>3, OwnerStays, TransferGoesThrough
<1>. QED
  BY <1>2, <1>3

(* When no client changes roles by updateMemberRole, a chat all of whose   *)
(* members stayed has an owner except between the two updates of a         *)
(* transferOwnership, however many transfers overlap, as long as no call   *)
(* fails.  (With updateMemberRole the same race demotes a new owner: the   *)
(* run doc_owner_not_demoted shows it.)                                    *)
THEOREM OwnerlessInTransfer ==
  ASSUME "updateMemberRole" \notin Operations
  PROVE  Spec => []OwnerlessOnlyInTransfer
<1>. DEFINE OwnerInv == NoRoleCall /\ TransferTargetKnown /\ OwnerlessOnlyInTransfer
<1>1. Init => OwnerInv
  BY DEF Init, Idle, NoRoleCall, TransferTargetKnown, OwnerlessOnlyInTransfer, Live, NoChat
<1>2. ASSUME TypeOK, TypeOK', MembershipInv, OwnerInv, [Next]_vars
      PROVE  OwnerInv'
  <2>1. ASSUME NEW r \in Requests, Arrive(r) \/ Fail(r)
        PROVE  OwnerlessOnlyInTransfer'
    <3>1. CASE Arrive(r)
      <4>1. UNCHANGED <<chat, member, failures>> /\ req[r] = Idle
        BY <3>1 DEF Arrive, Start, CreateChatCheck, AddMemberFindChat,
           RemoveMemberFindRequester, UpdateRoleFindRequester, TransferFindOwner,
           DeleteChatFind, ListIsMember
      <4>2. \A c \in Chats : Transferring(c) => Transferring(c)'
        <5>1. req[r].pc = "idle"
          BY <4>1 DEF Idle
        <5>2. \A x \in Requests \ {r} : req[x]' = req[x]
          BY <1>2, <2>1, OnlyOneMoves
        <5>. QED
          BY <5>1, <5>2 DEF Transferring
      <4>. QED
        BY <1>2, <4>1, <4>2
           DEF OwnerlessOnlyInTransfer, Live, Populated, LeftMembers, Owned, HasRole, Active
    <3>2. CASE Fail(r)
      BY <1>2, <3>2 DEF Fail, OwnerlessOnlyInTransfer, TypeOK
    <3>. QED
      BY <2>1, <3>1, <3>2
  <2>2. ASSUME NEW r \in Requests, Arrive(r) \/ Continue(r) \/ Fail(r)
        PROVE  OwnerInv'
    BY <1>2, <2>1, <2>2, NoRoleCallStep, TargetKnownStep, ContinueOwnerless
  <2>3. ASSUME (\E c \in Chats : Expire(c)) \/ UNCHANGED vars
        PROVE  OwnerInv'
    <3>1. UNCHANGED <<chat, member, req, failures>>
      BY <2>3 DEF Expire, vars
    <3>. QED
      BY <1>2, <3>1 DEF NoRoleCall, TransferTargetKnown, OwnerlessOnlyInTransfer, Live,
         Populated, LeftMembers, Owned, HasRole, Active, Transferring
  <2>. QED
    BY <1>2, <2>2, <2>3 DEF Next
<1>3. OwnerInv => OwnerlessOnlyInTransfer
  OBVIOUS
<1>. HIDE DEF OwnerInv
<1>. QED
  BY <1>1, <1>2, <1>3, TypeCorrect, MembershipInvariant, PTL DEF Spec

-----------------------------------------------------------------------------
(* The cached list.  A list is only ever asked for, and cached, once the   *)
(* chat has been created.                                                  *)
ListedChatKnown ==
  /\ \A c \in Chats : cache[c].hit => chat[c].state # "unused"
  /\ \A r \in Requests :
       req[r].pc \in {"list_get", "list_select", "list_set"} => chat[req[r].chat].state # "unused"

LEMMA CreatedForGood ==
  ASSUME TypeOK, NEW r \in Requests, Continue(r), NEW c \in Chats, chat[c].state # "unused"
  PROVE  chat[c]'.state # "unused"
<1>1. CASE CreateChatInsert(r)
  BY <1>1 DEF CreateChatInsert, TypeOK
<1>2. CASE IncrementKeyVersion(r)
  <2>1. req[r].chat \in Chats
    BY <1>2, CallShapes DEF IncrementKeyVersion, At, RemoveCall, TypeOK
  <2>. QED
    BY <1>2, <2>1, EpochShape DEF IncrementKeyVersion, TypeOK
<1>3. CASE DeleteChatDelete(r)
  BY <1>3 DEF DeleteChatDelete, TypeOK, GoneChat
<1>4. CASE UNCHANGED chat
  BY <1>4
<1>. QED
  BY <1>1, <1>2, <1>3, <1>4 DEF Continue, CreateChatRejected, CreateChatMembers,
     AddMemberFindRequester, AddMemberFindTarget, AddMemberInsert, RemoveMemberUpdate,
     RemoveMemberDel, UpdateRoleFindTarget, UpdateRoleUpdate, TransferFindNewOwner,
     TransferDemote, TransferDemoteDel, TransferPromote, DeleteChatFindMember, ListGet,
     ListSelect, ListSet, LastDel

(* The one SET, and the DELs.                                              *)
LEMMA CacheSteps ==
  ASSUME TypeOK, NEW r \in Requests, Continue(r), NEW c \in Chats, cache[c]' # cache[c]
  PROVE  \/ ~cache[c]'.hit
         \/ ListSet(r) /\ req[r].chat = c /\ cache[c]' = [hit |-> TRUE, list |-> req[r].list]
<1>1. CASE ListSet(r)
  BY <1>1 DEF ListSet, TypeOK
<1>2. CASE \E d : DropCached(d)
  BY <1>2 DEF DropCached, NoEntry, TypeOK
<1>3. CASE UNCHANGED cache
  BY <1>3
<1>. QED
  BY <1>1, <1>2, <1>3 DEF Continue, CreateChatInsert, CreateChatRejected, CreateChatMembers,
     AddMemberFindRequester, AddMemberFindTarget, AddMemberInsert, RemoveMemberUpdate,
     RemoveMemberDel, IncrementKeyVersion, UpdateRoleFindTarget, UpdateRoleUpdate,
     TransferFindNewOwner, TransferDemote, TransferDemoteDel, TransferPromote,
     DeleteChatFindMember, DeleteChatDelete, ListGet, ListSelect, LastDel

(* A call that is to list a chat goes on listing that chat.                *)
LEMMA ListMoves ==
  ASSUME TypeOK, NEW r \in Requests, Continue(r),
         req[r]'.pc \in {"list_get", "list_select", "list_set"}
  PROVE  /\ req[r].pc \in {"list_get", "list_select"}
         /\ req[r]'.chat = req[r].chat
<1>0. req[r] \in Call
  BY DEF TypeOK
<1>1. CASE ListGet(r)
  <2>1. req[r]' = WithPc(req[r], "list_select") /\ req[r].pc = "list_get"
    BY <1>1 DEF ListGet, Check, GoTo, Return, Idle, At, TypeOK
  <2>. QED
    BY <1>0, <2>1, KeptFields
<1>2. CASE ListSelect(r)
  BY <1>2 DEF ListSelect, At, TypeOK
<1>3. ASSUME NEW pc, GoTo(r, pc), req[r].pc \notin {"idle", "create_chat"}
      PROVE  (req[r]').pc = pc
  BY <1>0, <1>3, KeptFields DEF GoTo, TypeOK
<1>4. CASE ~ListGet(r) /\ ~ListSelect(r)
  <2>1. \/ \E pc \in {"add_target", "add_insert", "remove_del", "remove_bump", "role_update",
                      "transfer_demote", "transfer_demote_del", "transfer_promote",
                      "delete_chat"} :
             GoTo(r, pc) /\ req[r].pc \notin {"idle", "create_chat"}
        \/ Return(r) \/ GoToLastDel(r) \/ CreateChatInsert(r) \/ AddMemberInsert(r)
    BY <1>4 DEF Continue, Check, CreateChatRejected, CreateChatMembers,
       AddMemberFindRequester, AddMemberFindTarget, RemoveMemberUpdate, RemoveMemberDel,
       IncrementKeyVersion, UpdateRoleFindTarget, UpdateRoleUpdate, TransferFindNewOwner,
       TransferDemote, TransferDemoteDel, TransferPromote, DeleteChatFindMember,
       DeleteChatDelete, ListSet, LastDel, At
  <2>. QED
    BY <1>3, <2>1 DEF Return, GoToLastDel, CreateChatInsert, AddMemberInsert, Idle, TypeOK
<1>. QED
  BY <1>1, <1>2, <1>4

LEMMA ListedKnownStep ==
  ASSUME TypeOK, TypeOK', MembershipInv, ListedChatKnown, [Next]_vars
  PROVE  ListedChatKnown'
<1>. DEFINE Lists == {"list_get", "list_select", "list_set"}
<1>0. \A x \in Requests : req[x].pc \in Lists => req[x].chat \in Chats
  BY CallChat DEF TypeOK
<1>1. ASSUME NEW r \in Requests, Arrive(r)
      PROVE  ListedChatKnown'
  <2>1. UNCHANGED <<chat, cache>>
    BY <1>1 DEF Arrive, CreateChatCheck, AddMemberFindChat, RemoveMemberFindRequester,
       UpdateRoleFindRequester, TransferFindOwner, DeleteChatFind, ListIsMember
  <2>2. (req[r]').pc \in Lists => chat[(req[r]').chat].state # "unused"
    BY <1>1, ActiveChat DEF MembershipInv, Arrive, Start, CreateChatCheck, AddMemberFindChat,
       RemoveMemberFindRequester, UpdateRoleFindRequester, TransferFindOwner, DeleteChatFind,
       ListIsMember, TypeOK
  <2>. QED
    BY <1>1, <2>1, <2>2, OnlyOneMoves DEF ListedChatKnown
<1>2. ASSUME NEW r \in Requests, Continue(r)
      PROVE  ListedChatKnown'
  <2>1. \A x \in Requests : (req[x]').pc \in Lists =>
          req[x].pc \in Lists /\ (req[x]').chat = req[x].chat
    BY <1>2, OnlyOneMoves, ListMoves
  <2>2. \A c \in Chats : chat[c].state # "unused" => (chat[c]').state # "unused"
    BY <1>2, CreatedForGood
  <2>3. ASSUME NEW c \in Chats, cache[c]'.hit
        PROVE  chat[c].state # "unused"
    BY <1>2, <2>3, CacheSteps DEF ListedChatKnown, ListSet, At
  <2>. QED
    BY <1>0, <2>1, <2>2, <2>3 DEF ListedChatKnown
<1>3. ASSUME NEW r \in Requests, Fail(r)
      PROVE  ListedChatKnown'
  BY <1>3 DEF Fail, Return, Idle, ListedChatKnown, TypeOK
<1>4. ASSUME NEW c \in Chats, Expire(c)
      PROVE  ListedChatKnown'
  BY <1>4 DEF Expire, DropCached, NoEntry, ListedChatKnown, TypeOK
<1>5. CASE UNCHANGED vars
  BY <1>5 DEF vars, ListedChatKnown
<1>. QED
  BY <1>1, <1>2, <1>3, <1>4, <1>5 DEF Next

LEMMA SameList ==
  ASSUME TypeOK, NEW c \in Chats, member[c]' = member[c]
  PROVE  ActiveList(c)' = ActiveList(c)
<1>1. \A u \in Users : Active(c, u)' <=> Active(c, u)
  BY DEF Active
<1>2. {u \in Users : Active(c, u)}' = {u \in Users : Active(c, u)}
  BY <1>1
<1>. QED
  BY <1>2 DEF ActiveList

(* The statement that is about to run a DEL, and runs it.                  *)
LEMMA DelRuns ==
  ASSUME TypeOK, NEW r \in Requests, Continue(r), NEW c \in Chats, req[r].chat = c,
         req[r].pc \in {"last_del", "add_del", "remove_del", "transfer_demote_del"}
  PROVE  ~cache[c]'.hit
<1>1. DropCached(c)
  BY DEF Continue, At, CreateChatInsert, CreateChatRejected, CreateChatMembers,
     AddMemberFindRequester, AddMemberFindTarget, AddMemberInsert, RemoveMemberUpdate,
     RemoveMemberDel, IncrementKeyVersion, UpdateRoleFindTarget, UpdateRoleUpdate,
     TransferFindNewOwner, TransferDemote, TransferDemoteDel, TransferPromote,
     DeleteChatFindMember, DeleteChatDelete, ListGet, ListSelect, ListSet, LastDel
<1>. QED
  BY <1>1 DEF DropCached, NoEntry, TypeOK

(* A write of a chat's rows owes its DEL from then on.                     *)
LEMMA WriteOwesDel ==
  ASSUME TypeOK, NEW r \in Requests, Continue(r), NEW c \in Chats, Live(c)',
         member[c]' # member[c]
  PROVE  DelDue(c)'
<1>. SUFFICES (req[r]').chat = c /\
              (req[r]').pc \in {"last_del", "add_del", "remove_del", "transfer_demote_del"}
  BY DEF DelDue
<1>0. req[r] \in Call
  BY DEF TypeOK
<1>1. CASE CreateChatMembers(r)
  BY <1>1 DEF CreateChatMembers, GoToLastDel, TypeOK
<1>2. CASE AddMemberInsert(r)
  <2>1. req[r].chat = c /\ InsertAllowed(c, req[r].target)
    BY <1>2 DEF AddMemberInsert, TypeOK
  <2>. QED
    BY <1>2, <2>1 DEF AddMemberInsert, TypeOK
<1>3. CASE RemoveMemberUpdate(r)
  <2>1. req[r].chat = c /\ req[r]' = WithPc(req[r], "remove_del")
    BY <1>3 DEF RemoveMemberUpdate, GoTo, TypeOK
  <2>. QED
    BY <1>0, <1>3, <2>1, KeptFields DEF RemoveMemberUpdate, At
<1>4. ASSUME NEW d \in Chats, NEW u, NEW role, SetRole(d, u, role)
      PROVE  d = c /\ Active(c, u)
  BY <1>4 DEF SetRole, TypeOK
<1>5. CASE UpdateRoleUpdate(r)
  <2>1. req[r].chat \in Chats
    BY <1>0, <1>5, CallShapes DEF UpdateRoleUpdate, At, RoleCall
  <2>2. req[r].chat = c /\ Active(c, req[r].target)
    BY <1>4, <1>5, <2>1 DEF UpdateRoleUpdate
  <2>. QED
    BY <1>5, <2>2 DEF UpdateRoleUpdate, GoToLastDel, TypeOK
<1>6. CASE TransferDemote(r)
  <2>1. req[r].chat \in Chats
    BY <1>0, <1>6, CallShapes DEF TransferDemote, At, TransferCall
  <2>2. req[r].chat = c /\ Active(c, req[r].actor)
    BY <1>4, <1>6, <2>1 DEF TransferDemote
  <2>3. req[r]' = WithPc(req[r], "transfer_demote_del")
    BY <1>6, <2>2 DEF TransferDemote, GoTo, TypeOK
  <2>. QED
    BY <1>0, <1>6, <2>2, <2>3, KeptFields DEF TransferDemote, At
<1>7. CASE TransferPromote(r)
  <2>1. req[r].chat \in Chats
    BY <1>0, <1>7, CallShapes DEF TransferPromote, At, TransferCall
  <2>2. req[r].chat = c /\ Active(c, req[r].target)
    BY <1>4, <1>7, <2>1 DEF TransferPromote
  <2>. QED
    BY <1>7, <2>2 DEF TransferPromote, GoToLastDel, TypeOK
<1>8. ~DeleteChatDelete(r)
  BY DEF DeleteChatDelete, GoneChat, TypeOK, Live
<1>. QED
  BY <1>1, <1>2, <1>3, <1>5, <1>6, <1>7, <1>8 DEF Continue, CreateChatInsert,
     CreateChatRejected, AddMemberFindRequester, AddMemberFindTarget, RemoveMemberDel,
     IncrementKeyVersion, UpdateRoleFindTarget, TransferFindNewOwner, TransferDemoteDel,
     DeleteChatFindMember, ListGet, ListSelect, ListSet, LastDel

LEMMA StaleByFill ==
  ASSUME TypeOK, TypeOK', MembershipInv, ListedChatKnown, NEW r \in Requests, Continue(r),
         NEW c \in Chats, ~WrongList(c), WrongList(c)'
  PROVE  RacingFill(c)
<1>1. /\ Live(c)' /\ cache[c]'.hit
      /\ cache[c]'.list # ActiveList(c)' /\ ~DelDue(c)'
  BY DEF WrongList
<1>2. member[c]' = member[c] /\ ActiveList(c)' = ActiveList(c)
  BY <1>1, WriteOwesDel, SameList
<1>3. CASE cache[c]' # cache[c]
  <2>1. ListSet(r) /\ req[r].chat = c /\ cache[c]' = [hit |-> TRUE, list |-> req[r].list]
    BY <1>1, <1>3, CacheSteps
  <2>. QED
    BY <1>1, <1>2, <2>1 DEF RacingFill, ListSet, Return, TypeOK
<1>4. CASE cache[c]' = cache[c]
  <2>1. Live(c)
    BY <1>1, <1>4, BornInCreation DEF ListedChatKnown
  <2>2. PICK x \in Requests :
          /\ req[x].pc \in {"last_del", "add_del", "remove_del", "transfer_demote_del"}
          /\ req[x].chat = c
    BY <1>1, <1>2, <1>4, <2>1 DEF WrongList, DelDue
  <2>3. x = r
    BY <1>1, <2>2, OnlyOneMoves DEF DelDue
  <2>. QED
    BY <1>1, <2>2, <2>3, DelRuns
<1>. QED
  BY <1>3, <1>4

(* While no call fails, the cached list of a chat becomes wrong for good   *)
(* only by a findAllActive whose SELECT ran before a write and whose SET   *)
(* came after that write's DEL: no operation that writes rows forgets its  *)
(* DEL or runs it too early.                                               *)
THEOREM StaleListsComeFromFills == Spec => StaleOnlyByRacingFill
<1>1. Init => ListedChatKnown
  BY DEF Init, ListedChatKnown, NoEntry, Idle
<1>2. TypeOK /\ TypeOK' /\ MembershipInv /\ ListedChatKnown /\ [Next]_vars => ListedChatKnown'
  BY ListedKnownStep
<1>3. ASSUME TypeOK, TypeOK', MembershipInv, ListedChatKnown, [Next]_vars,
             NEW c \in Chats, ~WrongList(c), WrongList(c)', failures' = 0
      PROVE  RacingFill(c)
  <2>1. CASE \E r \in Requests : Continue(r)
    BY <1>3, <2>1, StaleByFill
  <2>2. ASSUME NEW r \in Requests, Arrive(r)
        PROVE  FALSE
    <3>1. UNCHANGED <<chat, member, cache>> /\ req[r].pc = "idle"
      BY <2>2 DEF Arrive, Start, CreateChatCheck, AddMemberFindChat, Idle,
         RemoveMemberFindRequester, UpdateRoleFindRequester, TransferFindOwner,
         DeleteChatFind, ListIsMember
    <3>2. DelDue(c) => DelDue(c)'
      <4>1. \A x \in Requests \ {r} : req[x]' = req[x]
        BY <1>3, <2>2, OnlyOneMoves
      <4>. QED
        BY <3>1, <4>1 DEF DelDue
    <3>. QED
      BY <1>3, <3>1, <3>2, SameList DEF WrongList, Live
  <2>3. ASSUME NEW r \in Requests, Fail(r)
        PROVE  FALSE
    BY <1>3, <2>3 DEF Fail, TypeOK
  <2>4. ASSUME NEW d \in Chats, Expire(d)
        PROVE  FALSE
    <3>1. UNCHANGED <<chat, member, req>>
      BY <2>4 DEF Expire
    <3>2. cache[c]' = cache[c] \/ ~cache[c]'.hit
      BY <1>3, <2>4 DEF Expire, DropCached, NoEntry, TypeOK
    <3>. QED
      BY <1>3, <3>1, <3>2, SameList DEF WrongList, Live, DelDue
  <2>5. CASE UNCHANGED vars
    BY <1>3, <2>5, SameList DEF vars, WrongList, Live, DelDue
  <2>. QED
    BY <1>3, <2>1, <2>2, <2>3, <2>4, <2>5 DEF Next
<1>4. TypeOK /\ TypeOK' /\ MembershipInv /\ ListedChatKnown /\ [Next]_vars =>
        [\A c \in Chats :
           ~WrongList(c) /\ WrongList(c)' /\ failures' = 0 => RacingFill(c)]_vars
  BY <1>3
<1>. QED
  BY <1>1, <1>2, <1>4, TypeCorrect, MembershipInvariant, PTL DEF Spec, StaleOnlyByRacingFill

-----------------------------------------------------------------------------
(* ChatMembership implements ChatRoster, for every value of the constants. *)

Owes(call) == call.pc \in {"remove_del", "remove_bump"}

(* Only r moves.                                                           *)
Moves(r) == \A q \in Requests \ {r} : req[q]' = req[q]

LEMMA SlotMoves ==
  ASSUME TypeOK, NEW r \in Requests, NEW q, req' = [req EXCEPT ![r] = q]
  PROVE  Moves(r) /\ req[r]' = q
BY DEF Moves, TypeOK

LEMMA ReturnMoves ==
  ASSUME TypeOK, NEW r \in Requests, Return(r)
  PROVE  Moves(r) /\ req[r]' = Idle /\ ~Owes(Idle)
BY SlotMoves DEF Return, Idle, Owes

LEMMA GoToMoves ==
  ASSUME TypeOK, NEW r \in Requests, NEW pc, GoTo(r, pc),
         req[r].pc \notin {"idle", "create_chat"}
  PROVE  Moves(r) /\ req[r]'.pc = pc /\ req[r]'.chat = req[r].chat
<1>1. Moves(r) /\ req[r]' = WithPc(req[r], pc)
  BY SlotMoves DEF GoTo
<1>. QED
  BY <1>1, KeptFields DEF TypeOK

LEMMA LastDelMoves ==
  ASSUME TypeOK, NEW r \in Requests, GoToLastDel(r)
  PROVE  Moves(r) /\ req[r]'.pc = "last_del"
BY DEF GoToLastDel, Moves, TypeOK

(* What is owed changes with the call that moves only.                     *)
LEMMA OwedBy ==
  ASSUME NEW r \in Requests, Moves(r), NEW c \in Chats
  PROVE  BumpsDue(c)' = IF Owes(req[r]') /\ req[r]'.chat = c
                        THEN BumpsDue(c) \cup {r} ELSE BumpsDue(c) \ {r}
BY DEF Moves, BumpsDue, Owes

LEMMA OwedKept ==
  ASSUME NEW r \in Requests, Moves(r), NEW c \in Chats,
         Owes(req[r]') /\ req[r]'.chat = c <=> Owes(req[r]) /\ req[r].chat = c
  PROVE  BumpsDue(c)' = BumpsDue(c)
BY DEF Moves, BumpsDue, Owes

(* The mapping is a function of the chats' states and epochs, the status   *)
(* of the rows, what is owed and the failures.                             *)
LEMMA Stutter ==
  ASSUME \A c \in Chats : /\ chat[c]'.state = chat[c].state
                          /\ Standing(c)' = Standing(c)
                          /\ Epoch(c)' = Epoch(c)
                          /\ Owed(c)' = Owed(c),
         failures' = failures
  PROVE  UNCHANGED Roster!vars
BY DEF Roster!vars

LEMMA QuietMoves ==
  ASSUME NEW r \in Requests, Moves(r), ~Owes(req[r]), ~Owes(req[r]'),
         UNCHANGED <<chat, failures>>,
         \A c \in Chats, u \in Users : member[c][u]'.status = member[c][u].status
  PROVE  UNCHANGED Roster!vars
<1>1. ASSUME NEW c \in Chats
      PROVE  BumpsDue(c)' = BumpsDue(c)
  BY OwedKept
<1>2. ASSUME NEW c \in Chats
      PROVE  /\ Standing(c)' = Standing(c)
             /\ Epoch(c)' = Epoch(c)
             /\ Owed(c)' = Owed(c)
  BY <1>1 DEF Standing, Epoch, Owed, Live
<1>. QED
  BY <1>2, Stutter

LEMMA ArriveMoves ==
  ASSUME TypeOK, NEW r \in Requests, Arrive(r)
  PROVE  /\ Moves(r) /\ ~Owes(req[r]) /\ ~Owes(req[r]')
         /\ UNCHANGED <<chat, member, failures>>
<1>. USE DEF Start, Owes, Idle, Moves, TypeOK
<1>1. CASE CreateChatCheck(r)
  BY <1>1 DEF CreateChatCheck
<1>2. CASE AddMemberFindChat(r)
  BY <1>2 DEF AddMemberFindChat
<1>3. CASE RemoveMemberFindRequester(r)
  BY <1>3 DEF RemoveMemberFindRequester
<1>4. CASE UpdateRoleFindRequester(r)
  BY <1>4 DEF UpdateRoleFindRequester
<1>5. CASE TransferFindOwner(r)
  BY <1>5 DEF TransferFindOwner
<1>6. CASE DeleteChatFind(r)
  BY <1>6 DEF DeleteChatFind
<1>7. CASE ListIsMember(r)
  BY <1>7 DEF ListIsMember
<1>. QED
  BY <1>1, <1>2, <1>3, <1>4, <1>5, <1>6, <1>7 DEF Arrive

LEMMA ArriveStutters ==
  ASSUME TypeOK, NEW r \in Requests, Arrive(r)
  PROVE  UNCHANGED Roster!vars
BY ArriveMoves, QuietMoves

-----------------------------------------------------------------------------
(* The steps that show.                                                    *)
LEMMA CreateShows ==
  ASSUME TypeOK, MembershipInv, NEW r \in Requests, CreateChatInsert(r)
  PROVE  \E c \in Chats : Roster!Create(c)
<1>1. PICK c \in Chats :
        /\ chat[c].state = "unused"
        /\ chat' = [chat EXCEPT ![c] = [state |-> "live", type |-> req[r].type,
                                        keyVersion |-> 1]]
        /\ req' = [req EXCEPT ![r] = [pc |-> "create_members", chat |-> c,
                                      actor |-> req[r].actor, others |-> req[r].others]]
  BY DEF CreateChatInsert
<1>2. Moves(r) /\ req[r]'.pc = "create_members" /\ req[r].pc = "create_chat"
  BY <1>1 DEF CreateChatInsert, At, Moves, TypeOK
<1>3. /\ chat'[c].state = "live" /\ chat'[c].keyVersion = 1
      /\ \A d \in Chats \ {c} : chat'[d] = chat[d]
  BY <1>1 DEF TypeOK
<1>4. \A d \in Chats : BumpsDue(d)' = BumpsDue(d)
  BY <1>2, OwedKept DEF Owes
<1>5. BumpsDue(c) = {}
  BY <1>1 DEF MembershipInv, CheckedChatKnown, BumpsDue, PastMemberCheck
<1>6. \A d \in Chats : Standing(d)' = Standing(d)
  BY DEF CreateChatInsert, Standing
<1>7. \A d \in Chats : Epoch(d)' = IF d = c THEN 1 ELSE Epoch(d)
  BY <1>3 DEF Epoch, Live
<1>8. \A d \in Chats : Owed(d)' = Owed(d)
  BY <1>1, <1>3, <1>4, <1>5 DEF Owed, Live
<1>9. failures' = failures
  BY DEF CreateChatInsert
<1>10. /\ chat[c].state = "unused"
       /\ \A d \in Chats : chat'[d].state = IF d = c THEN "live" ELSE chat[d].state
  BY <1>1, <1>3
<1>11. Roster!Create(c)
  BY <1>6, <1>7, <1>8, <1>9, <1>10 DEF Roster!Create
<1>. QED
  BY <1>11

LEMMA FoundShows ==
  ASSUME TypeOK, MembershipInv, NEW r \in Requests, CreateChatMembers(r)
  PROVE  \E c \in Chats : Roster!Found(c)
<1>. DEFINE c == req[r].chat
            founders == {req[r].actor} \cup req[r].others
<1>1. /\ req[r].pc = "create_members"
      /\ c \in Chats /\ req[r].actor \in Users /\ req[r].others \in SUBSET Users
  BY CallShapes DEF CreateChatMembers, At, TypeOK
<1>2. Live(c) /\ ~Populated(c)
  BY <1>1 DEF MembershipInv, CreationIsolated, At
<1>3. Standing(c) = Roster!Nobody
  BY <1>2 DEF Standing, Populated, Roster!Nobody
<1>4. member' = [member EXCEPT ![c] = [u \in Users |->
                   IF u = req[r].actor THEN ActiveRow("OWNER")
                   ELSE IF u \in req[r].others THEN ActiveRow("MEMBER")
                   ELSE member[c][u]]]
  BY DEF CreateChatMembers
<1>5. \A d \in Chats : Standing(d)' =
        IF d = c THEN [u \in Users |-> IF u \in founders THEN "active" ELSE "absent"]
        ELSE Standing(d)
  BY <1>1, <1>2, <1>4 DEF Standing, Populated, ActiveRow, TypeOK
<1>6. Moves(r) /\ req[r]'.pc = "last_del"
  BY LastDelMoves DEF CreateChatMembers
<1>7. \A d \in Chats : BumpsDue(d)' = BumpsDue(d)
  BY <1>1, <1>6, OwedKept DEF Owes
<1>8. \A d \in Chats : Epoch(d)' = Epoch(d) /\ Owed(d)' = Owed(d)
  BY <1>7 DEF Epoch, Owed, Live, CreateChatMembers
<1>9. founders \in (SUBSET Users) \ {{}}
  BY <1>1
<1>10. UNCHANGED <<chat, failures>>
  BY DEF CreateChatMembers
<1>. HIDE DEF c, founders
<1>11. Roster!Found(c)
  BY <1>1, <1>2, <1>3, <1>5, <1>8, <1>9, <1>10 DEF Roster!Found, Live
<1>. QED
  BY <1>1, <1>11

LEMMA JoinShows ==
  ASSUME TypeOK, MembershipInv, NEW r \in Requests, AddMemberInsert(r),
         InsertAllowed(req[r].chat, req[r].target)
  PROVE  \E c \in Chats, u \in Users : Roster!Join(c, u)
<1>0. req[r].pc = "add_insert" /\ req[r].chat \in Chats /\ req[r].target \in Users
  BY CallShapes DEF AddMemberInsert, At, TypeOK
<1>. PICK c \in Chats, u \in Users : c = req[r].chat /\ u = req[r].target
  BY <1>0
<1>1. req[r].pc = "add_insert" /\ c = req[r].chat /\ u = req[r].target
  BY <1>0
<1>2. /\ Live(c) /\ Populated(c)
      /\ \A d \in Chats \ {c} : member[d]' = member[d]
      /\ \A v \in Users \ {u} : member[c][v]' = member[c][v]
      /\ member[c][u].status = "absent"
      /\ member[c][u]'.status = "active"
      /\ req[r]'.pc = "add_del"
  BY <1>1, InsertRow
<1>3. Moves(r)
  BY SlotMoves DEF AddMemberInsert
<1>4. \A d \in Chats : BumpsDue(d)' = BumpsDue(d)
  BY <1>1, <1>2, <1>3, OwedKept DEF Owes
<1>5. UNCHANGED <<chat, failures>>
  BY DEF AddMemberInsert
<1>6. \A d \in Chats : Epoch(d)' = Epoch(d) /\ Owed(d)' = Owed(d)
  BY <1>4, <1>5 DEF Epoch, Owed, Live
<1>7. Standing(c) # Roster!Nobody
  BY <1>2 DEF Standing, Populated, Roster!Nobody
<1>8. /\ Standing(c)[u] = "absent"
      /\ \A d \in Chats : Standing(d)' =
           IF d = c THEN [Standing(c) EXCEPT ![u] = "active"] ELSE Standing(d)
  <2>1. Standing(c)[u] = "absent" /\ \A d \in Chats \ {c} : Standing(d)' = Standing(d)
    BY <1>1, <1>2 DEF Standing
  <2>2. Standing(c)' = [Standing(c) EXCEPT ![u] = "active"]
    BY <1>1, <1>2 DEF Standing
  <2>. QED
    BY <2>1, <2>2
<1>9. Roster!Join(c, u)
  BY <1>1, <1>2, <1>5, <1>6, <1>7, <1>8 DEF Roster!Join, Live
<1>. QED
  BY <1>9

LEMMA DepartShows ==
  ASSUME TypeOK, MembershipInv, NEW r \in Requests, RemoveMemberUpdate(r),
         Removable(req[r].chat, req[r].target)
  PROVE  \E c \in Chats, u \in Users : Roster!Depart(c, u)
<1>0. req[r].pc = "remove_update" /\ req[r].chat \in Chats /\ req[r].target \in Users
  BY CallShapes DEF RemoveMemberUpdate, RemoveCall, At, TypeOK
<1>. PICK c \in Chats, u \in Users : c = req[r].chat /\ u = req[r].target
  BY <1>0
<1>1. req[r].pc = "remove_update" /\ c = req[r].chat /\ u = req[r].target
  BY <1>0
<1>2. /\ Live(c) /\ Populated(c)
      /\ \A d \in Chats \ {c} : member[d]' = member[d]
      /\ \A v \in Users \ {u} : member[c][v]' = member[c][v]
      /\ member[c][u].status = "active"
      /\ member[c][u]'.status = "left"
      /\ req[r]'.pc = "remove_del" /\ req[r]'.chat = c
  BY <1>1, RemoveRow
<1>3. Moves(r)
  BY <1>0, GoToMoves DEF RemoveMemberUpdate
<1>4. \A d \in Chats :
        BumpsDue(d)' = IF d = c THEN BumpsDue(d) \cup {r} ELSE BumpsDue(d) \ {r}
  BY <1>2, <1>3, OwedBy DEF Owes
<1>5. \A d \in Chats : r \notin BumpsDue(d)
  BY <1>1 DEF BumpsDue
<1>6. UNCHANGED <<chat, failures>>
  BY DEF RemoveMemberUpdate
<1>7. \A d \in Chats : Epoch(d)' = Epoch(d)
  BY <1>6 DEF Epoch, Live
<1>8. /\ r \in Requests \ Owed(c)
      /\ \A d \in Chats : Owed(d)' = IF d = c THEN Owed(d) \cup {r} ELSE Owed(d)
  BY <1>2, <1>4, <1>5, <1>6 DEF Owed, Live
<1>9. /\ Standing(c)[u] = "active"
      /\ \A d \in Chats : Standing(d)' =
           IF d = c THEN [Standing(c) EXCEPT ![u] = "left"] ELSE Standing(d)
  <2>1. Standing(c)[u] = "active" /\ \A d \in Chats \ {c} : Standing(d)' = Standing(d)
    BY <1>2 DEF Standing
  <2>2. Standing(c)' = [Standing(c) EXCEPT ![u] = "left"]
    BY <1>2 DEF Standing
  <2>. QED
    BY <2>1, <2>2
<1>10. [d \in Chats |-> Owed(d)]' =
         [[d \in Chats |-> Owed(d)] EXCEPT ![c] = [d \in Chats |-> Owed(d)][c] \cup {r}]
  BY <1>8
<1>11. \E k \in Requests \ [d \in Chats |-> Owed(d)][c] :
         [d \in Chats |-> Owed(d)]' =
           [[d \in Chats |-> Owed(d)] EXCEPT ![c] = [d \in Chats |-> Owed(d)][c] \cup {k}]
  BY <1>8, <1>10
<1>12. UNCHANGED <<[d \in Chats |-> chat[d].state], [d \in Chats |-> Epoch(d)], failures>>
  BY <1>6, <1>7
<1>13. /\ [d \in Chats |-> Standing(d)][c][u] = "active"
       /\ [d \in Chats |-> Standing(d)]' = [[d \in Chats |-> Standing(d)] EXCEPT ![c][u] = "left"]
  BY <1>9
<1>14. Roster!Depart(c, u)
  BY <1>11, <1>12, <1>13 DEF Roster!Depart
<1>. QED
  BY <1>14

LEMMA NewEpochShows ==
  ASSUME TypeOK, MembershipInv, NEW r \in Requests, IncrementKeyVersion(r),
         Live(req[r].chat)
  PROVE  \E c \in Chats : Roster!NewEpoch(c)
<1>0. req[r].pc = "remove_bump" /\ req[r].chat \in Chats
  BY CallShapes DEF IncrementKeyVersion, RemoveCall, At, TypeOK
<1>. PICK c \in Chats : c = req[r].chat
  BY <1>0
<1>1. req[r].pc = "remove_bump" /\ c = req[r].chat /\ Live(c)
  BY <1>0
<1>2. Moves(r) /\ req[r]' = Idle /\ ~Owes(Idle)
  BY ReturnMoves DEF IncrementKeyVersion
<1>3. \A d \in Chats : BumpsDue(d)' = BumpsDue(d) \ {r}
  BY <1>2, OwedBy
<1>4. r \in BumpsDue(c) /\ \A d \in Chats \ {c} : r \notin BumpsDue(d)
  BY <1>1 DEF BumpsDue
<1>5. chat' = [chat EXCEPT ![c] = NextEpoch(@)]
  BY <1>1 DEF IncrementKeyVersion
<1>6. /\ chat[c]'.state = chat[c].state
      /\ chat[c]'.keyVersion = chat[c].keyVersion + 1
      /\ \A d \in Chats \ {c} : chat[d]' = chat[d]
  BY <1>5, EpochShape DEF TypeOK
<1>7. \A d \in Chats : Epoch(d)' = IF d = c THEN Epoch(d) + 1 ELSE Epoch(d)
  BY <1>1, <1>6 DEF Epoch, Live
<1>8. /\ r \in Owed(c)
      /\ \A d \in Chats : Owed(d)' = IF d = c THEN Owed(d) \ {r} ELSE Owed(d)
  BY <1>1, <1>3, <1>4, <1>6 DEF Owed, Live
<1>9. \A d \in Chats : chat[d]'.state = chat[d].state /\ Standing(d)' = Standing(d)
  BY <1>6 DEF Standing, IncrementKeyVersion
<1>10. failures' = failures
  BY DEF IncrementKeyVersion
<1>11. \E k \in [d \in Chats |-> Owed(d)][c] :
         [d \in Chats |-> Owed(d)]' = [[d \in Chats |-> Owed(d)] EXCEPT ![c] = @ \ {k}]
  BY <1>8
<1>12. [d \in Chats |-> Epoch(d)]' = [[d \in Chats |-> Epoch(d)] EXCEPT ![c] = @ + 1]
  BY <1>7
<1>13. UNCHANGED <<[d \in Chats |-> chat[d].state], [d \in Chats |-> Standing(d)], failures>>
  BY <1>9, <1>10
<1>14. Roster!NewEpoch(c)
  BY <1>11, <1>12, <1>13 DEF Roster!NewEpoch
<1>. QED
  BY <1>14

LEMMA DeleteShows ==
  ASSUME TypeOK, MembershipInv, NEW r \in Requests, DeleteChatDelete(r),
         Live(req[r].chat)
  PROVE  \E c \in Chats : Roster!Delete(c)
<1>0. req[r].pc = "delete_chat" /\ req[r].chat \in Chats
  BY CallShapes DEF DeleteChatDelete, DeleteCall, At, TypeOK
<1>. PICK c \in Chats : c = req[r].chat
  BY <1>0
<1>1. req[r].pc = "delete_chat" /\ c = req[r].chat /\ Live(c)
  BY <1>0
<1>2. Populated(c)
  BY <1>1 DEF MembershipInv, CheckedChatKnown, PastMemberCheck
<1>3. Moves(r) /\ req[r]' = Idle /\ ~Owes(Idle) /\ ~Owes(req[r])
  BY <1>1, ReturnMoves DEF DeleteChatDelete, Owes
<1>4. \A d \in Chats : BumpsDue(d)' = BumpsDue(d)
  BY <1>3, OwedKept
<1>5. /\ chat' = [chat EXCEPT ![c] = GoneChat]
      /\ member' = [member EXCEPT ![c] = [u \in Users |-> NoRow]]
  BY <1>1 DEF DeleteChatDelete
<1>6. chat[c]'.state = "deleted" /\ \A d \in Chats \ {c} : chat[d]' = chat[d]
  BY <1>5 DEF GoneChat, TypeOK
<1>7. \A d \in Chats : Epoch(d)' = IF d = c THEN 0 ELSE Epoch(d)
  BY <1>6 DEF Epoch, Live
<1>8. \A d \in Chats : Owed(d)' = IF d = c THEN {} ELSE Owed(d)
  BY <1>4, <1>6 DEF Owed, Live
<1>9. \A d \in Chats : Standing(d)' = IF d = c THEN Roster!Nobody ELSE Standing(d)
  BY <1>5, NoRowShape DEF Standing, Roster!Nobody, TypeOK
<1>10. Standing(c) # Roster!Nobody
  BY <1>2 DEF Standing, Populated, Roster!Nobody
<1>11. /\ chat[c].state = "live"
       /\ \A d \in Chats : chat[d]'.state = IF d = c THEN "deleted" ELSE chat[d].state
  BY <1>1, <1>6 DEF Live
<1>12. failures' = failures
  BY DEF DeleteChatDelete
<1>13. Roster!Delete(c)
  BY <1>7, <1>8, <1>9, <1>10, <1>11, <1>12 DEF Roster!Delete
<1>. QED
  BY <1>13

(* A call that fails may take the epoch it owes with it.                   *)
LEMMA FailureShows ==
  ASSUME TypeOK, MembershipInv, NEW r \in Requests, Fail(r)
  PROVE  Roster!Failure
<1>1. Moves(r) /\ req[r]' = Idle /\ ~Owes(Idle)
  BY ReturnMoves DEF Fail
<1>2. /\ UNCHANGED <<chat, member>> /\ failures' = failures + 1
      /\ \A d \in Chats : BumpsDue(d)' = BumpsDue(d) \ {r}
  BY <1>1, OwedBy DEF Fail
<1>3. \A d \in Chats :
        /\ chat[d]'.state = chat[d].state
        /\ Standing(d)' = Standing(d)
        /\ Epoch(d)' = Epoch(d)
        /\ Owed(d)' = Owed(d) \ {r}
  BY <1>2 DEF Standing, Epoch, Owed, Live
<1>4. CASE \E c \in Chats : r \in Owed(c)
  <2>1. PICK c \in Chats : r \in Owed(c)
    BY <1>4
  <2>2. \A d \in Chats \ {c} : r \notin Owed(d)
    BY <2>1 DEF Owed, BumpsDue
  <2>3. \A d \in Chats : Owed(d)' = IF d = c THEN Owed(d) \ {r} ELSE Owed(d)
    BY <1>3, <2>2
  <2>4. [d \in Chats |-> Owed(d)]' =
          [[d \in Chats |-> Owed(d)] EXCEPT ![c] = [d \in Chats |-> Owed(d)][c] \ {r}]
    BY <2>3
  <2>5. r \in [d \in Chats |-> Owed(d)][c]
    BY <2>1
  <2>6. UNCHANGED <<[d \in Chats |-> chat[d].state], [d \in Chats |-> Standing(d)],
                    [d \in Chats |-> Epoch(d)]>>
    BY <1>3
  <2>. QED
    BY <1>2, <2>4, <2>5, <2>6 DEF Roster!Failure
<1>5. CASE \A c \in Chats : r \notin Owed(c)
  <2>1. \A d \in Chats : Owed(d)' = Owed(d)
    BY <1>3, <1>5
  <2>. QED
    BY <1>2, <1>3, <2>1 DEF Roster!Failure
<1>. QED
  BY <1>4, <1>5

-----------------------------------------------------------------------------
(* The steps that do not show.                                             *)
LEMMA SetRoleStatus ==
  ASSUME TypeOK, NEW d \in Chats, NEW v \in Users, NEW role \in Roles, SetRole(d, v, role)
  PROVE  \A c \in Chats, u \in Users : member[c][u]'.status = member[c][u].status
<1>1. member[d][v] \in MemberRow
  BY DEF TypeOK
<1>2. WithRole(member[d][v], role).status = member[d][v].status
  BY <1>1, RowShapes
<1>. QED
  BY <1>2 DEF SetRole, TypeOK

LEMMA CheckMoves ==
  ASSUME TypeOK, NEW r \in Requests, NEW ok, NEW pc, Check(r, ok, pc),
         req[r].pc \notin {"idle", "create_chat"}
  PROVE  Moves(r) /\ req[r]'.pc \in {"idle", pc}
BY GoToMoves, ReturnMoves DEF Check, Idle

LEMMA SilentSteps ==
  ASSUME TypeOK, MembershipInv, NEW r \in Requests,
         \/ CreateChatRejected(r) \/ AddMemberFindRequester(r) \/ AddMemberFindTarget(r)
         \/ UpdateRoleFindTarget(r) \/ TransferFindNewOwner(r) \/ TransferDemoteDel(r)
         \/ DeleteChatFindMember(r) \/ ListGet(r) \/ ListSelect(r) \/ ListSet(r)
         \/ LastDel(r)
  PROVE  UNCHANGED Roster!vars
<1>1. /\ Moves(r) /\ ~Owes(req[r]) /\ ~Owes(req[r]')
      /\ UNCHANGED <<chat, member, failures>>
  <2>. USE DEF Owes, At, Idle
  <2>1. CASE CreateChatRejected(r)
    BY <2>1, ReturnMoves DEF CreateChatRejected
  <2>2. CASE AddMemberFindRequester(r)
    BY <2>2, CheckMoves DEF AddMemberFindRequester
  <2>3. CASE AddMemberFindTarget(r)
    BY <2>3, CheckMoves DEF AddMemberFindTarget
  <2>4. CASE UpdateRoleFindTarget(r)
    BY <2>4, CheckMoves DEF UpdateRoleFindTarget
  <2>5. CASE TransferFindNewOwner(r)
    BY <2>5, CheckMoves DEF TransferFindNewOwner
  <2>6. CASE TransferDemoteDel(r)
    BY <2>6, GoToMoves DEF TransferDemoteDel
  <2>7. CASE DeleteChatFindMember(r)
    BY <2>7, CheckMoves DEF DeleteChatFindMember
  <2>8. CASE ListGet(r)
    BY <2>8, CheckMoves DEF ListGet
  <2>9. CASE ListSelect(r)
    BY <2>9 DEF ListSelect, Moves, TypeOK
  <2>10. CASE ListSet(r)
    BY <2>10, ReturnMoves DEF ListSet
  <2>11. CASE LastDel(r)
    BY <2>11, ReturnMoves DEF LastDel
  <2>. QED
    BY <2>1, <2>2, <2>3, <2>4, <2>5, <2>6, <2>7, <2>8, <2>9, <2>10, <2>11
<1>. QED
  BY <1>1, QuietMoves

LEMMA RoleStepsSilent ==
  ASSUME TypeOK, NEW r \in Requests,
         UpdateRoleUpdate(r) \/ TransferDemote(r) \/ TransferPromote(r)
  PROVE  UNCHANGED Roster!vars
<1>. USE DEF Owes, At, Idle
<1>1. CASE UpdateRoleUpdate(r)
  <2>1. req[r].chat \in Chats /\ req[r].target \in Users /\ req[r].role \in Roles
    BY <1>1, CallShapes DEF UpdateRoleUpdate, RoleCall, TypeOK
  <2>2. Moves(r) /\ ~Owes(req[r]) /\ ~Owes(req[r]') /\ UNCHANGED <<chat, failures>>
    BY <1>1, ReturnMoves, LastDelMoves DEF UpdateRoleUpdate
  <2>3. \A c \in Chats, u \in Users : member[c][u]'.status = member[c][u].status
    BY <1>1, <2>1, SetRoleStatus DEF UpdateRoleUpdate
  <2>. QED
    BY <2>2, <2>3, QuietMoves
<1>2. CASE TransferDemote(r)
  <2>1. req[r].chat \in Chats /\ req[r].actor \in Users
    BY <1>2, CallShapes DEF TransferDemote, TransferCall, TypeOK
  <2>2. Moves(r) /\ ~Owes(req[r]) /\ ~Owes(req[r]') /\ UNCHANGED <<chat, failures>>
    BY <1>2, GoToMoves DEF TransferDemote
  <2>3. \A c \in Chats, u \in Users : member[c][u]'.status = member[c][u].status
    BY <1>2, <2>1, SetRoleStatus DEF TransferDemote, Roles
  <2>. QED
    BY <2>2, <2>3, QuietMoves
<1>3. CASE TransferPromote(r)
  <2>1. req[r].chat \in Chats /\ req[r].target \in Users
    BY <1>3, CallShapes DEF TransferPromote, TransferCall, TypeOK
  <2>2. Moves(r) /\ ~Owes(req[r]) /\ ~Owes(req[r]') /\ UNCHANGED <<chat, failures>>
    BY <1>3, ReturnMoves, LastDelMoves DEF TransferPromote
  <2>3. \A c \in Chats, u \in Users : member[c][u]'.status = member[c][u].status
    BY <1>3, <2>1, SetRoleStatus DEF TransferPromote, Roles
  <2>. QED
    BY <2>2, <2>3, QuietMoves
<1>. QED
  BY <1>1, <1>2, <1>3

(* A statement that finds nothing to write: the INSERT of addMember is     *)
(* refused, the UPDATE of removeMember finds no active row, the chat of an *)
(* increment or of a DELETE is gone already; and the DEL of removeMember.  *)
LEMMA VainSteps ==
  ASSUME TypeOK, MembershipInv, NEW r \in Requests,
         \/ AddMemberInsert(r) /\ ~InsertAllowed(req[r].chat, req[r].target)
         \/ RemoveMemberUpdate(r) /\ ~Removable(req[r].chat, req[r].target)
         \/ IncrementKeyVersion(r) /\ ~Live(req[r].chat)
         \/ DeleteChatDelete(r) /\ ~Live(req[r].chat)
         \/ RemoveMemberDel(r)
  PROVE  UNCHANGED Roster!vars
<1>. USE DEF Owes, At, Idle
<1>1. CASE AddMemberInsert(r) /\ ~InsertAllowed(req[r].chat, req[r].target)
  BY <1>1, ReturnMoves, QuietMoves DEF AddMemberInsert
<1>2. CASE RemoveMemberUpdate(r) /\ ~Removable(req[r].chat, req[r].target)
  BY <1>2, ReturnMoves, QuietMoves DEF RemoveMemberUpdate
<1>3. CASE IncrementKeyVersion(r) /\ ~Live(req[r].chat)
  <2>1. Moves(r) /\ ~Owes(req[r]')
    BY <1>3, ReturnMoves DEF IncrementKeyVersion
  <2>2. UNCHANGED <<chat, member, failures>>
    BY <1>3 DEF IncrementKeyVersion
  <2>3. ASSUME NEW c \in Chats
        PROVE  Owed(c)' = Owed(c)
    BY <1>3, <2>1, <2>2, OwedKept DEF Owed, Live
  <2>. QED
    BY <2>2, <2>3, Stutter DEF Standing, Epoch, Live
<1>4. CASE DeleteChatDelete(r) /\ ~Live(req[r].chat)
  <2>0. req[r].pc = "delete_chat" /\ req[r].chat \in Chats
    BY <1>4, CallShapes DEF DeleteChatDelete, DeleteCall, TypeOK
  <2>. PICK c \in Chats : c = req[r].chat
    BY <2>0
  <2>1. ~Live(c) /\ chat[c].state = "deleted"
    BY <1>4, <2>0 DEF MembershipInv, CheckedChatKnown, PastMemberCheck, Live, TypeOK, ChatRow
  <2>2. /\ chat' = [chat EXCEPT ![c] = GoneChat]
        /\ member' = [member EXCEPT ![c] = [u \in Users |-> NoRow]]
        /\ failures' = failures
    BY <1>4 DEF DeleteChatDelete
  <2>3. chat[c]'.state = "deleted" /\ \A d \in Chats \ {c} : chat[d]' = chat[d]
    BY <2>2 DEF GoneChat, TypeOK
  <2>4. \A d \in Chats, u \in Users : member[d][u]' = member[d][u]
    BY <2>1, <2>2 DEF MembershipInv, NoOrphanRows, TypeOK
  <2>5. Moves(r) /\ ~Owes(req[r]) /\ ~Owes(req[r]')
    BY <1>4, <2>0, ReturnMoves DEF DeleteChatDelete
  <2>6. ASSUME NEW d \in Chats
        PROVE  BumpsDue(d)' = BumpsDue(d)
    BY <2>5, OwedKept
  <2>7. \A d \in Chats : Live(d)' <=> Live(d)
    BY <2>1, <2>3 DEF Live
  <2>8. \A d \in Chats : Owed(d)' = Owed(d) /\ Epoch(d)' = Epoch(d)
    BY <2>1, <2>3, <2>6, <2>7 DEF Owed, Epoch
  <2>9. \A d \in Chats : Standing(d)' = Standing(d) /\ chat[d]'.state = chat[d].state
    BY <2>1, <2>3, <2>4 DEF Standing
  <2>. QED
    BY <2>2, <2>8, <2>9, Stutter
<1>5. CASE RemoveMemberDel(r)
  <2>1. UNCHANGED <<chat, member, failures>>
    BY <1>5 DEF RemoveMemberDel
  <2>2. Moves(r) /\ req[r]'.pc = "remove_bump" /\ req[r]'.chat = req[r].chat
    BY <1>5, GoToMoves DEF RemoveMemberDel
  <2>3. ASSUME NEW c \in Chats
        PROVE  BumpsDue(c)' = BumpsDue(c)
    BY <1>5, <2>2, OwedKept DEF RemoveMemberDel
  <2>4. \A c \in Chats : /\ Standing(c)' = Standing(c)
                          /\ Epoch(c)' = Epoch(c) /\ Owed(c)' = Owed(c)
    BY <2>1, <2>3 DEF Standing, Epoch, Owed, Live
  <2>. QED
    BY <2>1, <2>4, Stutter
<1>. QED
  BY <1>1, <1>2, <1>3, <1>4, <1>5

-----------------------------------------------------------------------------
LEMMA StepMaps ==
  ASSUME TypeOK, MembershipInv, [Next]_vars
  PROVE  [Roster!Next]_(Roster!vars)
<1>1. ASSUME NEW r \in Requests, Continue(r)
      PROVE  [Roster!Next]_(Roster!vars)
  <2>1. CASE CreateChatInsert(r)
    BY <2>1, CreateShows DEF Roster!Next
  <2>2. CASE CreateChatMembers(r)
    BY <2>2, FoundShows DEF Roster!Next
  <2>3. CASE AddMemberInsert(r)
    BY <2>3, JoinShows, VainSteps DEF Roster!Next
  <2>4. CASE RemoveMemberUpdate(r)
    BY <2>4, DepartShows, VainSteps DEF Roster!Next
  <2>5. CASE IncrementKeyVersion(r)
    BY <2>5, NewEpochShows, VainSteps DEF Roster!Next
  <2>6. CASE DeleteChatDelete(r)
    BY <2>6, DeleteShows, VainSteps DEF Roster!Next
  <2>7. CASE RemoveMemberDel(r)
    BY <2>7, VainSteps
  <2>8. CASE UpdateRoleUpdate(r) \/ TransferDemote(r) \/ TransferPromote(r)
    BY <2>8, RoleStepsSilent
  <2>. QED
    BY <1>1, <2>1, <2>2, <2>3, <2>4, <2>5, <2>6, <2>7, <2>8, SilentSteps DEF Continue
<1>2. CASE \E r \in Requests : Arrive(r)
  BY <1>2, ArriveStutters
<1>3. CASE \E r \in Requests : Fail(r)
  BY <1>3, FailureShows DEF Roster!Next
<1>4. CASE \E c \in Chats : Expire(c)
  <2>1. UNCHANGED <<chat, member, req, failures>>
    BY <1>4 DEF Expire
  <2>. QED
    BY <2>1, Stutter DEF Standing, Epoch, Owed, BumpsDue, Live
<1>5. CASE UNCHANGED vars
  BY <1>5, Stutter DEF vars, Standing, Epoch, Owed, BumpsDue, Live
<1>. QED
  BY <1>1, <1>2, <1>3, <1>4, <1>5 DEF Next

LEMMA InitMaps == Init => Roster!Init
BY DEF Init, Roster!Init, Roster!Nobody, Standing, Epoch, Owed, Live, NoChat, NoRow

(* The calls of ChatService, however their statements interleave and fail, *)
(* implement ChatRoster: nobody comes back, nobody departs twice, each     *)
(* departure opens one epoch.                                              *)
THEOREM RosterImplemented == Spec => ImplementsRoster
<1>1. TypeOK /\ MembershipInv /\ [Next]_vars => [Roster!Next]_(Roster!vars)
  BY StepMaps
<1>. QED
  BY <1>1, InitMaps, TypeCorrect, MembershipInvariant, PTL DEF Spec, ImplementsRoster, Roster!Spec

-----------------------------------------------------------------------------
(* Every step of the roster keeps the count of key epochs.                 *)
Gone(c) == {u \in Users : Standing(c)[u] = "left"}
Counted(c) ==
  /\ Epoch(c) + Cardinality(Owed(c)) <= 1 + Cardinality(Gone(c))
  /\ 1 + Cardinality(Gone(c)) <= Epoch(c) + Cardinality(Owed(c)) + failures

AllCounted == \A c \in Chats : Live(c) => Counted(c)

LEMMA CountedIsAccounted == AllCounted => KeyEpochAccounting
<1>1. ASSUME NEW c \in Chats, Live(c)
      PROVE  Gone(c) = LeftMembers(c) /\ Epoch(c) = chat[c].keyVersion /\ Owed(c) = BumpsDue(c)
  BY <1>1 DEF Gone, LeftMembers, Standing, Epoch, Owed
<1>. QED
  BY <1>1 DEF AllCounted, KeyEpochAccounting, Counted

LEMMA Sizes ==
  ASSUME TypeOK, NEW c \in Chats
  PROVE  /\ IsFiniteSet(Gone(c)) /\ Cardinality(Gone(c)) \in Nat
         /\ IsFiniteSet(Owed(c)) /\ Cardinality(Owed(c)) \in Nat
         /\ Epoch(c) \in Nat /\ failures \in Nat
<1>1. Gone(c) \in SUBSET Users /\ Owed(c) \in SUBSET Requests
  BY DEF Gone, Owed, BumpsDue
<1>2. IsFiniteSet(Gone(c)) /\ IsFiniteSet(Owed(c))
  BY <1>1, FiniteInstance, FS_Subset
<1>3. Epoch(c) \in Nat /\ failures \in Nat
  BY FiniteInstance DEF TypeOK, ChatRow, Epoch
<1>. QED
  BY <1>2, <1>3, FS_CardinalityType

(* A step that changes nothing of chat c and forgets no failure keeps its  *)
(* count.                                                                  *)
LEMMA SameChat ==
  ASSUME TypeOK, TypeOK', NEW c \in Chats, Counted(c),
         Epoch(c)' = Epoch(c), Owed(c)' = Owed(c), Standing(c)' = Standing(c),
         failures' >= failures
  PROVE  Counted(c)'
<1>1. Gone(c)' = Gone(c)
  BY DEF Gone
<1>2. failures' \in Nat
  BY FiniteInstance DEF TypeOK
<1>. QED
  BY <1>1, <1>2, Sizes DEF Counted

LEMMA RosterStepCounts ==
  ASSUME TypeOK, TypeOK', NoOrphanRows, AllCounted, [Roster!Next]_(Roster!vars)
  PROVE  AllCounted'
<1>. DEFINE Kept(d) == /\ chat[d]'.state = chat[d].state /\ Standing(d)' = Standing(d)
                       /\ Epoch(d)' = Epoch(d) /\ Owed(d)' = Owed(d)
<1>0. SUFFICES ASSUME \A d \in Chats : Live(d) => Counted(d),
                      NEW c \in Chats, Live(c)'
               PROVE  Counted(c)'
  BY DEF AllCounted
<1>1. ASSUME Kept(c), failures' >= failures
      PROVE  Counted(c)'
  BY <1>0, <1>1, SameChat DEF Live
<1>. HIDE DEF Kept
<1>2. ASSUME NEW d \in Chats, Roster!Create(d)
      PROVE  Counted(c)'
  <2>1. failures' = failures /\ (d # c => Kept(c))
    BY <1>2 DEF Roster!Create, Kept
  <2>2. CASE d = c
    <3>1. /\ chat[c].state = "unused" /\ Standing(c)' = Standing(c)
          /\ Epoch(c)' = 1 /\ Owed(c)' = Owed(c)
      BY <1>2, <2>2 DEF Roster!Create
    <3>2. Gone(c)' = {} /\ Owed(c)' = {}
      BY <3>1, NoRowShape DEF NoOrphanRows, Gone, Standing, Owed, Live
    <3>. QED
      BY <2>1, <3>1, <3>2, FS_EmptySet, Sizes DEF Counted
  <2>. QED
    BY <1>1, <2>1, <2>2, Sizes
<1>3. ASSUME NEW d \in Chats, Roster!Found(d)
      PROVE  Counted(c)'
  <2>1. failures' = failures /\ (d # c => Kept(c))
    BY <1>3 DEF Roster!Found, Kept
  <2>2. CASE d = c
    <3>1. /\ Standing(c) = Roster!Nobody /\ Live(c)
          /\ Epoch(c)' = Epoch(c) /\ Owed(c)' = Owed(c)
      BY <1>3, <2>2 DEF Roster!Found, Live
    <3>2. PICK founders \in SUBSET Users :
            Standing(c)' = [u \in Users |-> IF u \in founders THEN "active" ELSE "absent"]
      BY <1>3, <2>2 DEF Roster!Found
    <3>3. Gone(c)' = Gone(c)
      BY <3>1, <3>2 DEF Gone, Roster!Nobody
    <3>. QED
      BY <1>0, <2>1, <3>1, <3>3 DEF Counted
  <2>. QED
    BY <1>1, <2>1, <2>2, Sizes
<1>4. ASSUME NEW d \in Chats, NEW u \in Users, Roster!Join(d, u)
      PROVE  Counted(c)'
  <2>1. failures' = failures /\ (d # c => Kept(c))
    BY <1>4 DEF Roster!Join, Kept
  <2>2. CASE d = c
    <3>1. /\ Live(c) /\ Standing(c)[u] = "absent"
          /\ Standing(c)' = [Standing(c) EXCEPT ![u] = "active"]
          /\ Epoch(c)' = Epoch(c) /\ Owed(c)' = Owed(c)
      BY <1>4, <2>2 DEF Roster!Join, Live
    <3>2. Gone(c)' = Gone(c)
      BY <3>1 DEF Gone, Standing
    <3>. QED
      BY <1>0, <2>1, <3>1, <3>2 DEF Counted
  <2>. QED
    BY <1>1, <2>1, <2>2, Sizes
<1>5. ASSUME NEW d \in Chats, NEW u \in Users, Roster!Depart(d, u)
      PROVE  Counted(c)'
  <2>1. failures' = failures /\ (d # c => Kept(c))
    BY <1>5 DEF Roster!Depart, Kept
  <2>2. CASE d = c
    <3>1. /\ Standing(c)[u] = "active"
          /\ Standing(c)' = [Standing(c) EXCEPT ![u] = "left"]
          /\ Epoch(c)' = Epoch(c) /\ chat[c]'.state = chat[c].state
      BY <1>5, <2>2 DEF Roster!Depart
    <3>2. PICK k \in Requests \ Owed(c) : Owed(c)' = Owed(c) \cup {k}
      BY <1>5, <2>2 DEF Roster!Depart
    <3>3. Gone(c)' = Gone(c) \cup {u} /\ u \notin Gone(c)
      BY <3>1 DEF Gone, Standing
    <3>4. /\ Cardinality(Gone(c)') = Cardinality(Gone(c)) + 1
          /\ Cardinality(Owed(c)') = Cardinality(Owed(c)) + 1
      BY <3>2, <3>3, Sizes, FS_AddElement
    <3>5. Counted(c)
      BY <1>0, <3>1 DEF Live
    <3>. QED
      BY <2>1, <3>1, <3>4, <3>5, Sizes DEF Counted
  <2>. QED
    BY <1>1, <2>1, <2>2, Sizes
<1>6. ASSUME NEW d \in Chats, Roster!NewEpoch(d)
      PROVE  Counted(c)'
  <2>1. failures' = failures /\ (d # c => Kept(c))
    BY <1>6 DEF Roster!NewEpoch, Kept
  <2>2. CASE d = c
    <3>1. /\ Standing(c)' = Standing(c) /\ chat[c]'.state = chat[c].state
          /\ Epoch(c)' = Epoch(c) + 1
      BY <1>6, <2>2 DEF Roster!NewEpoch
    <3>2. PICK k \in Owed(c) : Owed(c)' = Owed(c) \ {k}
      BY <1>6, <2>2 DEF Roster!NewEpoch
    <3>3. Gone(c)' = Gone(c)
      BY <3>1 DEF Gone
    <3>4. Cardinality(Owed(c)') = Cardinality(Owed(c)) - 1
      BY <3>2, Sizes, FS_RemoveElement
    <3>5. Counted(c)
      BY <1>0, <3>1 DEF Live
    <3>. QED
      BY <2>1, <3>1, <3>3, <3>4, <3>5, Sizes DEF Counted
  <2>. QED
    BY <1>1, <2>1, <2>2, Sizes
<1>7. ASSUME NEW d \in Chats, Roster!Delete(d)
      PROVE  Counted(c)'
  <2>1. failures' = failures /\ (d # c => Kept(c))
    BY <1>7 DEF Roster!Delete, Kept
  <2>2. d # c
    BY <1>0, <1>7 DEF Roster!Delete, Live
  <2>. QED
    BY <1>1, <2>1, <2>2, Sizes
<1>8. ASSUME Roster!Failure
      PROVE  Counted(c)'
  <2>1. /\ failures' = failures + 1 /\ chat[c]'.state = chat[c].state
        /\ Standing(c)' = Standing(c) /\ Epoch(c)' = Epoch(c)
    BY <1>8 DEF Roster!Failure
  <2>2. Owed(c)' = Owed(c) \/ \E k \in Owed(c) : Owed(c)' = Owed(c) \ {k}
    BY <1>8 DEF Roster!Failure
  <2>3. Counted(c)
    BY <1>0, <2>1 DEF Live
  <2>4. CASE Owed(c)' = Owed(c)
    BY <1>1, <2>1, <2>4, Sizes DEF Kept
  <2>5. CASE \E k \in Owed(c) : Owed(c)' = Owed(c) \ {k}
    <3>1. Cardinality(Owed(c)') = Cardinality(Owed(c)) - 1
      BY <2>5, Sizes, FS_RemoveElement
    <3>2. Gone(c)' = Gone(c)
      BY <2>1 DEF Gone
    <3>. QED
      BY <2>1, <2>3, <3>1, <3>2, Sizes DEF Counted
  <2>. QED
    BY <2>2, <2>4, <2>5
<1>9. CASE UNCHANGED Roster!vars
  <2>1. failures' = failures /\ Kept(c)
    BY <1>9 DEF Roster!vars, Kept
  <2>. QED
    BY <1>1, <2>1, Sizes
<1>. QED
  BY <1>2, <1>3, <1>4, <1>5, <1>6, <1>7, <1>8, <1>9 DEF Roster!Next

(* chats.keyVersion counts the departures, less the increments still owed  *)
(* and those lost by failures, for any number of calls, users and chats.   *)
THEOREM KeyEpochsCounted == Spec => []KeyEpochAccounting
<1>1. Init => AllCounted
  BY DEF Init, AllCounted, Live, NoChat
<1>2. TypeOK /\ TypeOK' /\ MembershipInv /\ AllCounted /\ [Next]_vars => AllCounted'
  BY StepMaps, RosterStepCounts DEF MembershipInv
<1>. QED
  BY <1>1, <1>2, CountedIsAccounted, TypeCorrect, MembershipInvariant, PTL DEF Spec
=============================================================================
