--------------------------- MODULE ChatMembership ---------------------------
(***************************************************************************)
(* Chats and their members in the communication service: ChatService,      *)
(* ChatRepository and ChatMemberRepository, over any number of replicas.   *)
(*                                                                         *)
(* A gRPC call is a request that runs one step per awaited statement:      *)
(* every SELECT, UPDATE, INSERT, DELETE of PostgreSQL and every GET, SET,  *)
(* DEL of Redis is atomic, nothing else is (no transaction is opened and   *)
(* no row is locked).  Requests interleave between any two of their steps. *)
(* A check that fails ends the request; it has changed nothing then, so    *)
(* the first read of an operation is modelled with its check as the action *)
(* that starts the request.                                                *)
(***************************************************************************)
EXTENDS Naturals, FiniteSets

CONSTANTS
  Chats,        \* the ids randomUUID() hands out, each at most once
  Users,        \* user ids
  Requests,     \* slots for calls in flight, over all replicas
  Operations,   \* the operations clients call
  MaxFailures   \* bound on the calls that end in an exception half way

AllOperations == {"createChat", "addMember", "removeMember", "updateMemberRole",
                  "transferOwnership", "deleteChat", "findAllActive"}

ASSUME FiniteInstance ==
  /\ IsFiniteSet(Users)
  /\ IsFiniteSet(Requests)
  /\ Operations \subseteq AllOperations
  /\ MaxFailures \in Nat

Roles == {"OWNER", "ADMIN", "MEMBER"}

StoredTypes == {"DIRECT", "GROUP"}           \* CHECK constraint of chats.type
ChatTypes == StoredTypes \cup {"CHANNEL"}    \* what the API and the proto accept

VARIABLES
  chat,      \* chat[c]: the row of table chats
  member,    \* member[c][u]: the row of chat_members with key (c, u)
  cache,     \* cache[c]: Redis key chat:members:<c>
  req,       \* req[r]: the call in slot r: the next statement and its locals
  failures   \* calls that ended in an exception so far

vars == <<chat, member, cache, req, failures>>

-----------------------------------------------------------------------------
(* Rows, the cached list and the local state of a call.                    *)

ChatRow == [state : {"unused", "live", "deleted"}, type : StoredTypes, keyVersion : Nat]
MemberRow == [status : {"absent", "active", "left"}, role : Roles]

NoChat == [state |-> "unused", type |-> "GROUP", keyVersion |-> 0]
GoneChat == [state |-> "deleted", type |-> "GROUP", keyVersion |-> 0]
NoRow == [status |-> "absent", role |-> "MEMBER"]
ActiveRow(role) == [status |-> "active", role |-> role]

Listing == SUBSET (Users \X Roles)
CacheEntry == [hit : BOOLEAN, list : Listing]
NoEntry == [hit |-> FALSE, list |-> {}]

Idle == [pc |-> "idle"]

CreateCall ==
  [pc : {"create_chat"}, type : ChatTypes, actor : Users, others : SUBSET Users]
    \cup [pc : {"create_members"}, chat : Chats, actor : Users, others : SUBSET Users]
AddCall ==
  [pc : {"add_requester", "add_target", "add_insert"}, chat : Chats, actor : Users,
   target : Users, role : Roles, epoch : Nat]
    \cup [pc : {"add_del"}, chat : Chats, epoch : Nat]
RemoveCall == [pc : {"remove_update", "remove_del", "remove_bump"}, chat : Chats, target : Users]
RoleCall == [pc : {"role_target", "role_update"}, chat : Chats, target : Users, role : Roles]
TransferCall ==
  [pc : {"transfer_target", "transfer_demote", "transfer_demote_del", "transfer_promote"},
   chat : Chats, actor : Users, target : Users]
DeleteCall == [pc : {"delete_member", "delete_chat"}, chat : Chats, actor : Users]
ListCall ==
  [pc : {"list_get", "list_select"}, chat : Chats]
    \cup [pc : {"list_set"}, chat : Chats, list : Listing]
LastDelCall == [pc : {"last_del"}, chat : Chats]

Call == {Idle} \cup CreateCall \cup AddCall \cup RemoveCall \cup RoleCall
          \cup TransferCall \cup DeleteCall \cup ListCall \cup LastDelCall

TypeOK ==
  /\ chat \in [Chats -> ChatRow]
  /\ member \in [Chats -> [Users -> MemberRow]]
  /\ cache \in [Chats -> CacheEntry]
  /\ req \in [Requests -> Call]
  /\ failures \in 0..MaxFailures

Init ==
  /\ chat = [c \in Chats |-> NoChat]
  /\ member = [c \in Chats |-> [u \in Users |-> NoRow]]
  /\ cache = [c \in Chats |-> NoEntry]
  /\ req = [r \in Requests |-> Idle]
  /\ failures = 0

-----------------------------------------------------------------------------
(* Reads.                                                                  *)

Live(c) == chat[c].state = "live"                     \* chatRepo.findById finds it
Active(c, u) == member[c][u].status = "active"        \* findActive finds it
HasRole(c, u, roles) == Active(c, u) /\ member[c][u].role \in roles
ActiveList(c) == {<<u, member[c][u].role>> : u \in {v \in Users : Active(c, v)}}

DirectBetween(a, b) ==
  \E c \in Chats : Live(c) /\ chat[c].type = "DIRECT" /\ Active(c, a) /\ Active(c, b)

(* Control of a call: start in slot r, go on with the next statement,      *)
(* return (normally or by a MicroserviceException).                        *)
Start(r, op, call) ==
  /\ op \in Operations
  /\ req[r] = Idle
  /\ req' = [req EXCEPT ![r] = call]

At(r, pc) == req[r].pc = pc
WithPc(call, pc) == [call EXCEPT !.pc = pc]
GoTo(r, pc) == req' = [req EXCEPT ![r] = WithPc(@, pc)]
Return(r) == req' = [req EXCEPT ![r] = Idle]
Check(r, ok, pc) == IF ok THEN GoTo(r, pc) ELSE Return(r)

(* The DEL that ends an operation.  Seeded fault: the write is not         *)
(* followed by a DEL.                                                      *)
ReturnWithoutDel(r) == req' = [req EXCEPT ![r] = Idle]
GoToLastDel(r) == req' = [req EXCEPT ![r] = [pc |-> "last_del", chat |-> req[r].chat]]

DropCached(c) == cache' = [cache EXCEPT ![c] = NoEntry]

-----------------------------------------------------------------------------
(* createChat.  assertNoDuplicateDirectChat looks at the first other user  *)
(* only; the list comes in no particular order.                            *)

CreateChatCheck(r) ==
  \E type \in ChatTypes, creator \in Users :
    \E others \in SUBSET (Users \ {creator}) :
      /\ type = "DIRECT" /\ others # {} =>
           \E other \in others : ~DirectBetween(creator, other)
      /\ Start(r, "createChat",
               [pc |-> "create_chat", type |-> type, actor |-> creator, others |-> others])
      /\ UNCHANGED <<chat, member, cache, failures>>

AnyTypeStorable(type) == type \in ChatTypes       \* seeded fault: no CHECK constraint
Storable(type) == type \in StoredTypes

CreateChatInsert(r) ==
  /\ At(r, "create_chat")
  /\ Storable(req[r].type)
  /\ \E c \in Chats :
       /\ chat[c].state = "unused"
       /\ chat' = [chat EXCEPT ![c] =
                     [state |-> "live", type |-> req[r].type, keyVersion |-> 1]]
       /\ req' = [req EXCEPT ![r] = [pc |-> "create_members", chat |-> c,
                                     actor |-> req[r].actor, others |-> req[r].others]]
  /\ UNCHANGED <<member, cache, failures>>

(* The INSERT violates the CHECK constraint of chats.type (or no id is     *)
(* left, the bound of the model).                                          *)
CreateChatRejected(r) ==
  /\ At(r, "create_chat")
  /\ \/ ~Storable(req[r].type)
     \/ \A c \in Chats : chat[c].state # "unused"
  /\ Return(r)
  /\ UNCHANGED <<chat, member, cache, failures>>

CreateChatMembers(r) ==
  /\ At(r, "create_members")
  /\ LET c == req[r].chat IN
       member' = [member EXCEPT ![c] = [u \in Users |->
                    IF u = req[r].actor THEN ActiveRow("OWNER")
                    ELSE IF u \in req[r].others THEN ActiveRow("MEMBER")
                    ELSE member[c][u]]]
  /\ GoToLastDel(r)
  /\ UNCHANGED <<chat, cache, failures>>

-----------------------------------------------------------------------------
(* addMember                                                               *)

AddMemberFindChat(r) ==
  \E c \in Chats, actor \in Users, target \in Users, role \in Roles :
    /\ Live(c)
    /\ Start(r, "addMember",
             [pc |-> "add_requester", chat |-> c, actor |-> actor, target |-> target,
              role |-> role, epoch |-> chat[c].keyVersion])
    /\ UNCHANGED <<chat, member, cache, failures>>

AddMemberFindRequester(r) ==
  /\ At(r, "add_requester")
  /\ Check(r, HasRole(req[r].chat, req[r].actor, {"OWNER", "ADMIN"}), "add_target")
  /\ UNCHANGED <<chat, member, cache, failures>>

AddMemberFindTarget(r) ==
  /\ At(r, "add_target")
  /\ Check(r, ~Active(req[r].chat, req[r].target), "add_insert")
  /\ UNCHANGED <<chat, member, cache, failures>>

(* INSERT: the foreign key wants the chat, the primary key (chatId,        *)
(* userId) wants no row at all, not even one with leftAt set.  Seeded      *)
(* faults: no foreign key; an upsert that revives a row with leftAt set.   *)
InsertWithoutForeignKey(c, u) == member[c][u].status = "absent"
InsertOrRevive(c, u) == Live(c) /\ ~Active(c, u)
InsertAllowed(c, u) == Live(c) /\ member[c][u].status = "absent"

AddMemberInsert(r) ==
  /\ At(r, "add_insert")
  /\ LET c == req[r].chat
         u == req[r].target
     IN IF InsertAllowed(c, u)
        THEN /\ member' = [member EXCEPT ![c][u] = ActiveRow(req[r].role)]
             /\ req' = [req EXCEPT ![r] =
                          [pc |-> "add_del", chat |-> c, epoch |-> req[r].epoch]]
        ELSE /\ Return(r)
             /\ UNCHANGED member
  /\ UNCHANGED <<chat, cache, failures>>

-----------------------------------------------------------------------------
(* removeMember, also a member leaving by themselves                       *)

RemoveMemberFindRequester(r) ==
  \E c \in Chats, actor \in Users, target \in Users :
    /\ \/ actor = target
       \/ HasRole(c, actor, {"OWNER", "ADMIN"})
    /\ Start(r, "removeMember", [pc |-> "remove_update", chat |-> c, target |-> target])
    /\ UNCHANGED <<chat, member, cache, failures>>

(* UPDATE ... SET leftAt WHERE leftAt IS NULL.  Seeded faults: without the *)
(* condition a departure is counted twice; a DELETE of the row forgets it. *)
AnyRowRemovable(c, u) == member[c][u].status # "absent"
Removable(c, u) == Active(c, u)

RowDeleted(row) == NoRow
WithLeftAt(row) == [row EXCEPT !.status = "left"]

RemoveMemberUpdate(r) ==
  /\ At(r, "remove_update")
  /\ LET c == req[r].chat
         u == req[r].target
     IN IF Removable(c, u)
        THEN /\ member' = [member EXCEPT ![c][u] = WithLeftAt(@)]
             /\ GoTo(r, "remove_del")
        ELSE /\ Return(r)
             /\ UNCHANGED member
  /\ UNCHANGED <<chat, cache, failures>>

RemoveWithoutBump(r) ==           \* seeded fault: removeMember ends after the DEL
  /\ At(r, "remove_del")
  /\ DropCached(req[r].chat)
  /\ Return(r)
  /\ UNCHANGED <<chat, member, failures>>

RemoveMemberDel(r) ==
  /\ At(r, "remove_del")
  /\ DropCached(req[r].chat)
  /\ GoTo(r, "remove_bump")
  /\ UNCHANGED <<chat, member, failures>>

NextEpoch(row) == [row EXCEPT !.keyVersion = @ + 1]

IncrementKeyVersion(r) ==
  /\ At(r, "remove_bump")
  /\ LET c == req[r].chat IN
       chat' = IF Live(c) THEN [chat EXCEPT ![c] = NextEpoch(@)] ELSE chat
  /\ Return(r)
  /\ UNCHANGED <<member, cache, failures>>

-----------------------------------------------------------------------------
(* updateMemberRole.  The controller rejects newRole = OWNER.              *)

UpdateRoleFindRequester(r) ==
  \E c \in Chats, actor \in Users, target \in Users, role \in Roles \ {"OWNER"} :
    /\ HasRole(c, actor, {"OWNER"})
    /\ actor # target
    /\ Start(r, "updateMemberRole",
             [pc |-> "role_target", chat |-> c, target |-> target, role |-> role])
    /\ UNCHANGED <<chat, member, cache, failures>>

UpdateRoleFindTarget(r) ==
  /\ At(r, "role_target")
  /\ Check(r, HasRole(req[r].chat, req[r].target, Roles \ {"OWNER"}), "role_update")
  /\ UNCHANGED <<chat, member, cache, failures>>

(* ChatMemberRepository.updateRole writes the row only while it is active. *)
WithRole(row, role) == [row EXCEPT !.role = role]
SetRole(c, u, role) ==
  member' = IF Active(c, u) THEN [member EXCEPT ![c][u] = WithRole(@, role)] ELSE member

UpdateRoleUpdate(r) ==
  /\ At(r, "role_update")
  /\ LET c == req[r].chat
         u == req[r].target
     IN /\ SetRole(c, u, req[r].role)
        /\ IF Active(c, u) THEN GoToLastDel(r) ELSE Return(r)
  /\ UNCHANGED <<chat, cache, failures>>

-----------------------------------------------------------------------------
(* transferOwnership: two updates, the demotion first                      *)

TransferFindOwner(r) ==
  \E c \in Chats, actor \in Users, target \in Users :
    /\ HasRole(c, actor, {"OWNER"})
    /\ actor # target
    /\ Start(r, "transferOwnership",
             [pc |-> "transfer_target", chat |-> c, actor |-> actor, target |-> target])
    /\ UNCHANGED <<chat, member, cache, failures>>

TransferToAnybody(r) ==           \* seeded fault: the new owner is not looked up
  /\ At(r, "transfer_target")
  /\ GoTo(r, "transfer_demote")
  /\ UNCHANGED <<chat, member, cache, failures>>

TransferFindNewOwner(r) ==
  /\ At(r, "transfer_target")
  /\ Check(r, Active(req[r].chat, req[r].target), "transfer_demote")
  /\ UNCHANGED <<chat, member, cache, failures>>

TransferDemote(r) ==
  /\ At(r, "transfer_demote")
  /\ LET c == req[r].chat
         u == req[r].actor
     IN /\ SetRole(c, u, "ADMIN")
        /\ GoTo(r, IF Active(c, u) THEN "transfer_demote_del" ELSE "transfer_promote")
  /\ UNCHANGED <<chat, cache, failures>>

TransferDemoteDel(r) ==
  /\ At(r, "transfer_demote_del")
  /\ DropCached(req[r].chat)
  /\ GoTo(r, "transfer_promote")
  /\ UNCHANGED <<chat, member, failures>>

TransferPromote(r) ==
  /\ At(r, "transfer_promote")
  /\ LET c == req[r].chat
         u == req[r].target
     IN /\ SetRole(c, u, "OWNER")
        /\ IF Active(c, u) THEN GoToLastDel(r) ELSE Return(r)
  /\ UNCHANGED <<chat, cache, failures>>

-----------------------------------------------------------------------------
(* deleteChat.  ON DELETE CASCADE takes the members' rows; the cached list *)
(* stays until it expires.                                                 *)

DeleteChatFind(r) ==
  \E c \in Chats, actor \in Users :
    /\ Live(c)
    /\ Start(r, "deleteChat", [pc |-> "delete_member", chat |-> c, actor |-> actor])
    /\ UNCHANGED <<chat, member, cache, failures>>

DeleteChatFindMember(r) ==
  /\ At(r, "delete_member")
  /\ LET c == req[r].chat
         u == req[r].actor
     IN Check(r, Active(c, u) /\ (chat[c].type # "DIRECT" => HasRole(c, u, {"OWNER"})),
              "delete_chat")
  /\ UNCHANGED <<chat, member, cache, failures>>

DeleteChatDelete(r) ==
  /\ At(r, "delete_chat")
  /\ LET c == req[r].chat IN
       /\ chat' = [chat EXCEPT ![c] = GoneChat]
       /\ member' = [member EXCEPT ![c] = [u \in Users |-> NoRow]]
  /\ Return(r)
  /\ UNCHANGED <<cache, failures>>

-----------------------------------------------------------------------------
(* findAllActive, called by getChat, getChatsByUserId and sendMessage for  *)
(* a user their isMember check (or join) has found active.                 *)

ListIsMember(r) ==
  \E c \in Chats, u \in Users :
    /\ Active(c, u)
    /\ Start(r, "findAllActive", [pc |-> "list_get", chat |-> c])
    /\ UNCHANGED <<chat, member, cache, failures>>

ListGet(r) ==
  /\ At(r, "list_get")
  /\ Check(r, ~cache[req[r].chat].hit, "list_select")
  /\ UNCHANGED <<chat, member, cache, failures>>

ListSelect(r) ==
  /\ At(r, "list_select")
  /\ LET c == req[r].chat IN
       req' = [req EXCEPT ![r] = [pc |-> "list_set", chat |-> c, list |-> ActiveList(c)]]
  /\ UNCHANGED <<chat, member, cache, failures>>

ListSet(r) ==
  /\ At(r, "list_set")
  /\ cache' = [cache EXCEPT ![req[r].chat] = [hit |-> TRUE, list |-> req[r].list]]
  /\ Return(r)
  /\ UNCHANGED <<chat, member, failures>>

-----------------------------------------------------------------------------
(* invalidateMembersCache as the last statement of an operation            *)
LastDel(r) ==
  /\ req[r].pc \in {"last_del", "add_del"}
  /\ DropCached(req[r].chat)
  /\ Return(r)
  /\ UNCHANGED <<chat, member, failures>>

(* MEMBERS_TTL_SECONDS after its SET the entry is gone.                    *)
NeverExpires(c) == FALSE          \* seeded fault: SET without EX

Expire(c) ==
  /\ cache[c].hit
  /\ DropCached(c)
  /\ UNCHANGED <<chat, member, req, failures>>

(* The statement a call is about to run throws (PostgreSQL or Redis cannot *)
(* be reached) or its process dies: what is done stays done, the rest is   *)
(* never run, nothing is rolled back.                                      *)
Fail(r) ==
  /\ req[r] # Idle
  /\ failures < MaxFailures
  /\ failures' = failures + 1
  /\ Return(r)
  /\ UNCHANGED <<chat, member, cache>>

Arrive(r) ==
  \/ CreateChatCheck(r)
  \/ AddMemberFindChat(r)
  \/ RemoveMemberFindRequester(r)
  \/ UpdateRoleFindRequester(r)
  \/ TransferFindOwner(r)
  \/ DeleteChatFind(r)
  \/ ListIsMember(r)

Continue(r) ==
  \/ CreateChatInsert(r)
  \/ CreateChatRejected(r)
  \/ CreateChatMembers(r)
  \/ AddMemberFindRequester(r)
  \/ AddMemberFindTarget(r)
  \/ AddMemberInsert(r)
  \/ RemoveMemberUpdate(r)
  \/ RemoveMemberDel(r)
  \/ IncrementKeyVersion(r)
  \/ UpdateRoleFindTarget(r)
  \/ UpdateRoleUpdate(r)
  \/ TransferFindNewOwner(r)
  \/ TransferDemote(r)
  \/ TransferDemoteDel(r)
  \/ TransferPromote(r)
  \/ DeleteChatFindMember(r)
  \/ DeleteChatDelete(r)
  \/ ListGet(r)
  \/ ListSelect(r)
  \/ ListSet(r)
  \/ LastDel(r)

Next ==
  \/ \E r \in Requests : Arrive(r) \/ Continue(r) \/ Fail(r)
  \/ \E c \in Chats : Expire(c)

Spec == Init /\ [][Next]_vars

(* A call that has started goes on: the event loop runs every promise that *)
(* is settled.  Redis drops an entry whose EX has passed.                  *)
FairSpec ==
  /\ Spec
  /\ \A r \in Requests : WF_vars(Continue(r))
  /\ \A c \in Chats : WF_vars(Expire(c))
-----------------------------------------------------------------------------
(* Properties.                                                             *)

LeftMembers(c) == {u \in Users : member[c][u].status = "left"}
BumpsDue(c) ==
  {r \in Requests : req[r].pc \in {"remove_del", "remove_bump"} /\ req[r].chat = c}

(* Every departure opens exactly one new key epoch: chats.keyVersion is 1  *)
(* plus the members that left, less the increments removeMember still owes *)
(* and those it lost because a call failed after its UPDATE of leftAt.  No *)
(* interleaving of removals, additions and a deletion counts twice.        *)
KeyEpochAccounting ==
  \A c \in Chats : Live(c) =>
    LET epochs == chat[c].keyVersion + Cardinality(BumpsDue(c))
        wanted == 1 + Cardinality(LeftMembers(c))
    IN epochs <= wanted /\ wanted <= epochs + failures

(* A row of chat_members outlives neither its chat nor a racing INSERT: a  *)
(* chat that is not there has no member rows, so no call that checked      *)
(* before the deletion can write one after it.                             *)
NoOrphanRows ==
  \A c \in Chats : ~Live(c) => \A u \in Users : member[c][u] = NoRow

Populated(c) == \E u \in Users : member[c][u].status # "absent"

(* A chat nobody belongs to (createChat inserts the chat and its members   *)
(* in two statements) exists only while its creation is under way, or      *)
(* after a call failed.                                                    *)
MemberlessOnlyInCreation ==
  \A c \in Chats :
    Live(c) /\ ~Populated(c) =>
      \/ \E r \in Requests : At(r, "create_members") /\ req[r].chat = c
      \/ failures > 0

Owned(c) == \E u \in Users : HasRole(c, u, {"OWNER"})
Transferring(c) ==
  \E r \in Requests :
    req[r].pc \in {"transfer_demote_del", "transfer_promote"} /\ req[r].chat = c

(* A chat all of whose members stayed is without an owner only between the *)
(* two updates of a transferOwnership, as long as no call fails.  Any      *)
(* number of transfers, of the same or of several owners, may overlap.     *)
OwnerlessOnlyInTransfer ==
  \A c \in Chats :
    Live(c) /\ Populated(c) /\ LeftMembers(c) = {} /\ failures = 0 =>
      Owned(c) \/ Transferring(c)

(* Departure is final while the chat exists: a row with leftAt set is      *)
(* never active again and keeps its role, whatever checks were passed      *)
(* before the departure (addMember included: the primary key stops it).    *)
LeftIsFinal ==
  [][\A c \in Chats, u \in Users :
       member[c][u].status = "left" /\ chat[c]'.state = "live" =>
         member[c][u]' = member[c][u]]_vars

(* Every write of chat_members is followed by its DEL: while no call fails *)
(* a list that stays wrong after the DELs due can only come from a         *)
(* findAllActive whose SELECT ran before the write and whose SET came      *)
(* after its DEL.  (The deletion of a chat has no DEL.)                    *)
DelDue(c) ==
  \E r \in Requests :
    req[r].pc \in {"last_del", "add_del", "remove_del", "transfer_demote_del"} /\ req[r].chat = c

WrongList(c) ==
  Live(c) /\ cache[c].hit /\ cache[c].list # ActiveList(c) /\ ~DelDue(c)

RacingFill(c) ==
  \E r \in Requests :
    At(r, "list_set") /\ req[r]' = Idle /\ req[r].chat = c /\ req[r].list # ActiveList(c)

StaleOnlyByRacingFill ==
  [][\A c \in Chats :
       ~WrongList(c) /\ WrongList(c)' /\ failures' = 0 => RacingFill(c)]_vars

(* The list senders and readers of a chat work with is repaired in the     *)
(* end: a stale entry (a findAllActive that read before a write and wrote  *)
(* its SET after the DEL, a lost DEL) does not stay.                       *)
StaleListRepaired ==
  \A c \in Chats : []<>(cache[c].hit => cache[c].list = ActiveList(c))

(* Once somebody has left a chat, its key version catches up with the      *)
(* departures or the chat is deleted (when no call fails).                 *)
EpochCatchesUp ==
  \A c \in Chats : \A n \in 1..Cardinality(Users) :
    (Live(c) /\ Cardinality(LeftMembers(c)) = n) ~> (chat[c].keyVersion > n \/ ~Live(c))

-----------------------------------------------------------------------------
(* The inductive invariant the proofs rest on.  While createChat is        *)
(* between its two INSERTs the chat is its own: it has no rows, so no      *)
(* check of another call has passed on it.  A call that is past such a     *)
(* check works on a chat that was created, and that has rows as long as it *)
(* is there.                                                               *)
CreationIsolated ==
  \A r \in Requests : At(r, "create_members") =>
    /\ Live(req[r].chat) /\ ~Populated(req[r].chat)
    /\ \A q \in Requests : At(q, "create_members") /\ req[q].chat = req[r].chat => q = r

PastMemberCheck ==
  {"add_target", "add_insert", "remove_del", "remove_bump", "transfer_demote",
   "transfer_demote_del", "transfer_promote", "delete_chat"}

CheckedChatKnown ==
  \A r \in Requests : req[r].pc \in PastMemberCheck =>
    /\ chat[req[r].chat].state # "unused"
    /\ Live(req[r].chat) => Populated(req[r].chat)

MembershipInv == NoOrphanRows /\ CreationIsolated /\ CheckedChatKnown

-----------------------------------------------------------------------------
(* The abstract specification: the statements of the calls, however they   *)
(* interleave and fail, add up to steps of ChatRoster.  A removeMember     *)
(* owes an epoch from its UPDATE of leftAt to its increment.               *)
Standing(c) == [u \in Users |-> member[c][u].status]
Epoch(c) == IF Live(c) THEN chat[c].keyVersion ELSE 0
Owed(c) == IF Live(c) THEN BumpsDue(c) ELSE {}

Roster ==
  INSTANCE ChatRoster WITH
    Calls <- Requests,
    phase <- [c \in Chats |-> chat[c].state],
    standing <- [c \in Chats |-> Standing(c)],
    epoch <- [c \in Chats |-> Epoch(c)],
    owed <- [c \in Chats |-> Owed(c)],
    failed <- failures

(* Every step of the calls is a step of the roster: nobody is brought      *)
(* back, nobody departs twice, no epoch is lost but by a failure, and a    *)
(* chat nobody belongs to is neither joined nor deleted.                   *)
ImplementsRoster == Roster!Spec

-----------------------------------------------------------------------------
(* What a check of the source says, and the code does not keep.            *)

(* chat.service.ts:295: updateMemberRole cannot demote the owner.          *)
OwnerNotDemotedByRoleUpdate ==
  [][\A r \in Requests :
       At(r, "role_update") /\ req[r]' # req[r] /\ failures' = failures =>
         ~HasRole(req[r].chat, req[r].target, {"OWNER"})]_vars
=============================================================================
