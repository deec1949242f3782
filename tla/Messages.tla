------------------------------- MODULE Messages -------------------------------
(***************************************************************************)
(* The messages of one chat in the communication-service: sendMessage,     *)
(* getMessages, deleteMessage and markAsRead of MessageService, one step   *)
(* per awaited statement, while members join and leave.                    *)
(*                                                                         *)
(* A message is ordered by createdAt, the time its call read the clock     *)
(* before its INSERT: messages may become visible in another order, and    *)
(* two may have the same createdAt.  The clocks of the replicas are taken  *)
(* to agree.  The chat itself is not deleted here (ChatMembership).        *)
(***************************************************************************)
EXTENDS Naturals, FiniteSets

CONSTANTS
  Users,      \* users who are or become members
  Owner,      \* the owner, who cannot leave
  Admins,     \* those with the role ADMIN while they are members
  Ids,        \* message ids
  Requests,   \* slots for calls in flight
  PageSize,   \* the limit of getMessages
  MaxTime,    \* bound on the clock
  Workloads   \* what clients do in a behaviour: kinds of operations, sends

ASSUME MessageConstants ==
  /\ \A w \in Workloads : w.sends \in Nat
  /\ Owner \in Users /\ Admins \subseteq Users
  /\ PageSize \in Nat \ {0} /\ MaxTime \in Nat \ {0}
  /\ IsFiniteSet(Ids)

VARIABLES
  clock,    \* the time, in milliseconds of createdAt
  message,  \* message[m]: the row of messages with id m
  status,   \* status[m][u]: the row (m, u) of message_status
  active,   \* the users findActive finds
  from,     \* from[u]: canReadFrom of u (0: null)
  lists,    \* the member lists the chat has had: what a cached list may be
  req,      \* req[r]: the call in slot r
  marked,   \* history: the pairs (m, u) a markAsRead of u answered for
  mix       \* the workload of the behaviour

vars == <<clock, message, status, active, from, lists, req, marked, mix>>
members == <<active, from, lists>>

-----------------------------------------------------------------------------
Times == 1..MaxTime
Row == [state : {"unused"}, at : {0}, sender : Users]
         \cup [state : {"sent", "deleted"}, at : Times, sender : Users]
NoMessage(m) == message[m].state = "unused"
Visible(m) == message[m].state = "sent"

Idle == [pc |-> "idle"]
SendCall ==
  [pc : {"send_create"}, user : Users]
    \cup [pc : {"send_insert"}, user : Users, at : Times]
    \cup [pc : {"send_list"}, user : Users, id : Ids]
    \cup [pc : {"send_status"}, user : Users, id : Ids, list : SUBSET Users]
DeleteCall == [pc : {"delete_member", "delete_update"}, user : Users, id : Ids]

(* due: what the caller may expect to be read when markAsRead returns.     *)
MarkCall ==
  [pc : {"mark_select"}, user : Users, id : Ids, due : SUBSET Ids]
    \cup [pc : {"mark_update"}, user : Users, ids : SUBSET Ids, due : SUBSET Ids]

(* A client that pages back through the history: before is the cursor of   *)
(* its next getMessages (none at first), due what it has yet to be sent,   *)
(* cut the cursors it has used.                                            *)
WalkCall == [pc : {"walk_member", "walk_page", "walk_end"}, user : Users,
             before : SUBSET Ids, due : SUBSET Ids, cut : SUBSET Ids]
Call == {Idle} \cup SendCall \cup DeleteCall \cup MarkCall \cup WalkCall

TypeOK ==
  /\ clock \in Times
  /\ message \in [Ids -> Row]
  /\ status \in [Ids -> [Users -> {"none", "SENT", "READ"}]]
  /\ active \subseteq Users
  /\ from \in [Users -> 0..MaxTime]
  /\ lists \subseteq SUBSET Users
  /\ req \in [Requests -> Call]
  /\ marked \subseteq Ids \X Users
  /\ mix \in Workloads

Init ==
  /\ clock = 1
  /\ message = [m \in Ids |-> [state |-> "unused", at |-> 0, sender |-> Owner]]
  /\ status = [m \in Ids |-> [u \in Users |-> "none"]]
  /\ active = {Owner} /\ lists = {{Owner}}
  /\ from = [u \in Users |-> 0]
  /\ req = [r \in Requests |-> Idle]
  /\ marked = {}
  /\ mix \in Workloads

At(r, pc) == req[r].pc = pc
Become(r, call) == req' = [req EXCEPT ![r] = call]
Return(r) == Become(r, Idle)
Arrive(r, kind, call) == req[r] = Idle /\ kind \in mix.kinds /\ Become(r, call)

-----------------------------------------------------------------------------
(* The chat's members, as ChatMembership has them: nobody comes back.      *)
Join(u) ==
  /\ "join" \in mix.kinds
  /\ u \notin active /\ \A l \in lists : u \notin l
  /\ active' = active \cup {u} /\ lists' = lists \cup {active'}
  /\ \E readable \in {0, clock} : from' = [from EXCEPT ![u] = readable]
  /\ UNCHANGED <<clock, message, status, req, marked, mix>>

Leave(u) ==
  /\ "leave" \in mix.kinds
  /\ u \in active \ {Owner}
  /\ active' = active \ {u} /\ lists' = lists \cup {active'}
  /\ UNCHANGED <<clock, message, status, from, req, marked, mix>>

Tick ==
  /\ clock < MaxTime
  /\ clock' = clock + 1
  /\ UNCHANGED <<message, status, members, req, marked, mix>>

-----------------------------------------------------------------------------
(* sendMessage: isMember, the INSERT with the createdAt read before it,    *)
(* findAllActive (cached, so any list the chat has had), upsertManySent.   *)
SendCheck(r) ==
  \E u \in active :
    /\ Arrive(r, "send", [pc |-> "send_create", user |-> u])
    /\ UNCHANGED <<clock, message, status, members, marked, mix>>

SendCreate(r) ==
  /\ At(r, "send_create")
  /\ Become(r, [pc |-> "send_insert", user |-> req[r].user, at |-> clock])
  /\ UNCHANGED <<clock, message, status, members, marked, mix>>

AllSent == Cardinality({m \in Ids : ~NoMessage(m)}) >= mix.sends

SendInsert(r) ==
  /\ At(r, "send_insert") /\ ~AllSent
  /\ \E m \in Ids :
       /\ NoMessage(m)
       /\ message' = [message EXCEPT ![m] =
            [state |-> "sent", at |-> req[r].at, sender |-> req[r].user]]
       /\ Become(r, [pc |-> "send_list", user |-> req[r].user, id |-> m])
  /\ UNCHANGED <<clock, status, members, marked, mix>>

(* The bound of the model.                                                 *)
SendGivenUp(r) ==
  /\ At(r, "send_insert") /\ AllSent
  /\ Return(r)
  /\ UNCHANGED <<clock, message, status, members, marked, mix>>

SendList(r) ==
  /\ At(r, "send_list")
  /\ \E l \in lists :
       Become(r, [pc |-> "send_status", user |-> req[r].user, id |-> req[r].id, list |-> l])
  /\ UNCHANGED <<clock, message, status, members, marked, mix>>

SendStatuses(r) ==
  /\ At(r, "send_status")
  /\ status' = [status EXCEPT ![req[r].id] =
       [u \in Users |-> IF u \in req[r].list /\ @[u] = "none" THEN "SENT" ELSE @[u]]]
  /\ Return(r)
  /\ UNCHANGED <<clock, message, members, marked, mix>>

-----------------------------------------------------------------------------
(* deleteMessage: findById, findActive, the check, softDelete.             *)
DeleteFind(r) ==
  \E u \in Users, m \in Ids :
    /\ ~NoMessage(m)
    /\ Arrive(r, "delete", [pc |-> "delete_member", user |-> u, id |-> m])
    /\ UNCHANGED <<clock, message, status, members, marked, mix>>

DeleteFindMember(r) ==
  /\ At(r, "delete_member")
  /\ IF \/ message[req[r].id].sender = req[r].user
        \/ req[r].user \in active \cap (Admins \cup {Owner})
     THEN Become(r, [req[r] EXCEPT !.pc = "delete_update"])
     ELSE Return(r)
  /\ UNCHANGED <<clock, message, status, members, marked, mix>>

(* isDeleted is set and the row stays, so that its createdAt still is a    *)
(* cursor.  Seeded fault: the row is emptied.                              *)
Emptied(row) == [row EXCEPT !.state = "deleted", !.at = 0]
Deleted(row) == [row EXCEPT !.state = "deleted"]

(* A message that is deleted no walk has to show any more.                 *)
DeleteUpdate(r) ==
  /\ At(r, "delete_update")
  /\ message' = [message EXCEPT ![req[r].id] = Deleted(@)]
  /\ req' = [q \in Requests |->
       IF q = r THEN Idle
       ELSE IF req[q] \in WalkCall THEN [req[q] EXCEPT !.due = @ \ {req[r].id}] ELSE req[q]]
  /\ UNCHANGED <<clock, status, members, marked, mix>>

-----------------------------------------------------------------------------
(* markAsRead: isMember, then markReadUpTo: the cursor's createdAt (which  *)
(* never changes, so the step reads it at once), the SELECT, the UPDATE.   *)
SendOver(m) == \A q \in Requests : req[q].pc \in {"send_list", "send_status"} => req[q].id # m

(* createdAt <= cursor.createdAt.  Seeded fault: the cursor is left out.   *)
BeforeCursor(m, cursor) == ~NoMessage(m) /\ message[m].at < message[cursor].at
UpToCursor(m, cursor) == ~NoMessage(m) /\ message[m].at <= message[cursor].at

MarkCheck(r) ==
  \E u \in active, m \in Ids :
    /\ ~NoMessage(m)
    /\ Arrive(r, "mark", [pc |-> "mark_select", user |-> u, id |-> m, due |->
         {k \in Ids : ~NoMessage(k) /\ message[k].at <= message[m].at /\ SendOver(k)}])
    /\ UNCHANGED <<clock, message, status, members, marked, mix>>

MarkSelect(r) ==
  /\ At(r, "mark_select")
  /\ LET ids == {m \in Ids : UpToCursor(m, req[r].id)} IN
     IF ids = {} THEN Return(r)
     ELSE Become(r, [pc |-> "mark_update", user |-> req[r].user, ids |-> ids,
                     due |-> req[r].due])
  /\ UNCHANGED <<clock, message, status, members, marked, mix>>

(* UPDATE ... WHERE status <> 'READ'.                                      *)
MarkUpdate(r) ==
  /\ At(r, "mark_update")
  /\ LET u == req[r].user IN
     /\ status' = [m \in Ids |->
          IF m \in req[r].ids /\ status[m][u] = "SENT"
          THEN [status[m] EXCEPT ![u] = "READ"] ELSE status[m]]
     /\ marked' = marked \cup (req[r].due \X {u})
  /\ Return(r)
  /\ UNCHANGED <<clock, message, members, mix>>

-----------------------------------------------------------------------------
(* getMessages, call after call: each asks for the page before the last    *)
(* message of the one it was sent, until hasMore is false.                 *)
Readable(u) == {m \in Ids : Visible(m) /\ message[m].at >= from[u]}

WalkStart(r) ==
  \E u \in active :
    /\ Arrive(r, "walk", [pc |-> "walk_member", user |-> u, before |-> {},
                          due |-> Readable(u), cut |-> {}])
    /\ UNCHANGED <<clock, message, status, members, marked, mix>>

WalkFindMember(r) ==
  /\ At(r, "walk_member")
  /\ IF req[r].user \in active THEN Become(r, [req[r] EXCEPT !.pc = "walk_page"]) ELSE Return(r)
  /\ UNCHANGED <<clock, message, status, members, marked, mix>>

(* findByChatId: the rows before the cursor, by descending createdAt, rows *)
(* with the same createdAt in any order.  The newest n of a set are any n  *)
(* of which none is older than one left out.                               *)
Selectable(r) ==
  {m \in Readable(req[r].user) : \A c \in req[r].before : message[m].at < message[c].at}

Newest(ms, n) ==
  {p \in SUBSET ms :
     /\ Cardinality(p) = (IF Cardinality(ms) < n THEN Cardinality(ms) ELSE n)
     /\ \A m \in p, k \in ms \ p : message[m].at >= message[k].at}

Oldest(ms) == {m \in ms : \A k \in ms : message[m].at <= message[k].at}

(* One row more than the limit tells whether there are more.  Seeded       *)
(* fault: the row is not asked for.                                        *)
JustTheLimit(limit) == limit
FetchLimit(limit) == limit + 1

WalkPage(r) ==
  /\ At(r, "walk_page")
  /\ \E rows \in Newest(Selectable(r), FetchLimit(PageSize)) :
       \E page \in Newest(rows, PageSize) :
         IF rows = page
         THEN Become(r, [req[r] EXCEPT !.pc = "walk_end", !.due = @ \ page])
         ELSE \E last \in Oldest(page) :
                Become(r, [req[r] EXCEPT !.pc = "walk_member", !.due = @ \ page,
                                         !.before = {last}, !.cut = @ \cup {last}])
  /\ UNCHANGED <<clock, message, status, members, marked, mix>>

WalkEnd(r) ==
  /\ At(r, "walk_end")
  /\ Return(r)
  /\ UNCHANGED <<clock, message, status, members, marked, mix>>

-----------------------------------------------------------------------------
(* A statement fails, and with it the call: what it wrote stays.           *)
Fail(r) ==
  /\ ~At(r, "idle")
  /\ "fail" \in mix.kinds
  /\ Return(r)
  /\ UNCHANGED <<clock, message, status, members, marked, mix>>

Step(r) ==
  \/ SendCheck(r) \/ SendCreate(r) \/ SendInsert(r) \/ SendGivenUp(r)
  \/ SendList(r) \/ SendStatuses(r)
  \/ DeleteFind(r) \/ DeleteFindMember(r) \/ DeleteUpdate(r)
  \/ MarkCheck(r) \/ MarkSelect(r) \/ MarkUpdate(r)
  \/ WalkStart(r) \/ WalkFindMember(r) \/ WalkPage(r) \/ WalkEnd(r)
  \/ Fail(r)

Next ==
  \/ \E r \in Requests : Step(r)
  \/ \E u \in Users : Join(u) \/ Leave(u)
  \/ Tick

Spec == Init /\ [][Next]_vars

-----------------------------------------------------------------------------
(* Properties.                                                             *)

(* A client that pages to the end has been sent every message that was     *)
(* readable when it began and was not deleted meanwhile, whatever was      *)
(* sent, deleted or became visible between its pages: only a message with  *)
(* the createdAt of a cursor may be missing (findByChatId cuts at <).      *)
WalkComplete ==
  \A r \in Requests : At(r, "walk_end") =>
    \A m \in req[r].due : \E c \in req[r].cut : message[c].at = message[m].at

(* What a markAsRead answered for stays read: no message that was not      *)
(* newer than its cursor and whose sendMessage was over when it began is   *)
(* unread afterwards, whichever sends, with whichever createdAt, overlap   *)
(* it (markReadUpTo selects by createdAt and updates in two statements;    *)
(* upsertManySent must not write over a status that is there).             *)
MarkedStaysRead ==
  \A m \in Ids, u \in Users : <<m, u>> \in marked => status[m][u] # "SENT"

-----------------------------------------------------------------------------
(* The inductive invariant the proofs rest on.  A message is settled once  *)
(* its row is there and no sendMessage has still to write its statuses.    *)
Settled(m) == ~NoMessage(m) /\ SendOver(m)

(* A call that names a message names one whose row is there.               *)
NamesMessages ==
  \A r \in Requests :
    req[r].pc \in {"send_list", "send_status", "delete_member", "delete_update", "mark_select"}
      => ~NoMessage(req[r].id)

(* What a markAsRead answers for is settled and will be updated, and what  *)
(* one answered for was read if it was ever unread.                        *)
MarksSettled ==
  /\ \A r \in Requests :
       /\ At(r, "mark_select") => \A m \in req[r].due :
            Settled(m) /\ message[m].at <= message[req[r].id].at
       /\ At(r, "mark_update") => \A m \in req[r].due : Settled(m) /\ m \in req[r].ids
  /\ \A m \in Ids, u \in Users :
       <<m, u>> \in marked => Settled(m) /\ status[m][u] # "SENT"

(* A walk's user was a member, so that what he may read is fixed; what the *)
(* walk has not been sent is still there, and either before its cursor or  *)
(* of the createdAt of a cursor it used.                                   *)
ListsGrow == active \in lists
Walking(r) == req[r].pc \in {"walk_member", "walk_page", "walk_end"}
WalksOwe ==
  \A r \in Requests : Walking(r) =>
    /\ \E l \in lists : req[r].user \in l
    /\ \A c \in req[r].before \cup req[r].cut : ~NoMessage(c)
    /\ \A m \in req[r].due :
         /\ m \in Readable(req[r].user)
         /\ \/ \E c \in req[r].cut : message[c].at = message[m].at
            \/ ~At(r, "walk_end") /\ \A c \in req[r].before : message[m].at < message[c].at

MessagesInv == TypeOK /\ NamesMessages /\ MarksSettled /\ ListsGrow /\ WalksOwe
=============================================================================
