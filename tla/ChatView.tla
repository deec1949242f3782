------------------------------- MODULE ChatView -------------------------------
(***************************************************************************)
(* What one client shows of a chat: the messages of the communication-     *)
(* service, the operations of the api-gateway on them, each a gRPC call    *)
(* followed by a publish, and ChatPage of the web client, which fetches    *)
(* the messages and applies the events to what it fetched.                 *)
(*                                                                         *)
(* The text of a message is its version, the number of its edits, and one  *)
(* emoji stands for all.  Chats are those whose room the socket is in;     *)
(* fewer messages are sent than a fetch asks for (50), so that no page is  *)
(* cut (Messages has the pages).  A call that fails before its statement   *)
(* has no effect and is not a step.                                        *)
(***************************************************************************)
EXTENDS Naturals, Sequences, FiniteSets, SequencesExt

CONSTANTS
  Chats,     \* the chats of the client
  Home,      \* the chat it opens first
  Ids,       \* message ids, numbered in the order of createdAt
  ChatOf,    \* ChatOf[m]: the chat of message m
  Users,     \* the members who react
  Requests,  \* slots for calls to the gateway
  Fetches,   \* slots for fetches of the client
  MaxEdits,  \* bound on the edits of a message
  MaxInbox,  \* bound on the events between gateway and client
  MaxCount,  \* bound on the count of a reaction a page may show
  Kinds      \* the operations a configuration exercises

ASSUME ViewConstants ==
  /\ Home \in Chats /\ ChatOf \in [Ids -> Chats]
  /\ Ids \subseteq Nat /\ IsFiniteSet(Ids) /\ IsFiniteSet(Users)
  /\ MaxEdits \in Nat /\ MaxInbox \in Nat /\ MaxCount \in Nat

VARIABLES
  row,       \* row[m]: the row of messages with id m
  reacted,   \* reacted[m]: the users with a row in message_reactions for m
  req,       \* req[r]: the call in slot r
  inbox,     \* the events emitted to the socket and not yet handled
  open,      \* the chat the page is open at (activeChatIdRef)
  view,      \* the messages state of the page
  handlers,  \* events whose handler awaits the decryption
  fetch,     \* fetch[f]: the fetchMessages in slot f
  excused    \* history: the ids the page may be wrong about

server == <<row, reacted, req>>
client == <<open, view, handlers, fetch>>
vars == <<server, inbox, client, excused>>

-----------------------------------------------------------------------------
NoRow == [state |-> "unused", ver |-> 0]
Row == {NoRow} \cup [state : {"sent", "deleted"}, ver : Nat]

(* A message as it travels: its id, its text, and per reaction the user.   *)
(* The page keeps the aggregate: the count and the users of the emoji.     *)
Wire == [id : Ids, ver : Nat, by : SUBSET Users]
Shown == [id : Ids, ver : Nat, count : Nat, by : SUBSET Users]

TextEvent == [kind : {"new", "updated"}, msg : Wire]
Event == TextEvent
           \cup [kind : {"deleted"}, id : Ids]
           \cup [kind : {"added", "removed"}, id : Ids, user : Users]
About(e) == IF e.kind \in {"new", "updated"} THEN e.msg.id ELSE e.id

Idle == [pc |-> "idle"]
Call == {Idle} \cup [pc : {"update"}, id : Ids]
               \cup [pc : {"hydrate"}, id : Ids, ver : Nat]
               \cup [pc : {"publish"}, event : Event]

(* dirty: the ids that changed, or were in flight, while the fetch was.    *)
NoFetch == [pc |-> "none"]
FetchCall == {NoFetch}
  \cup [pc : {"list"}, chat : Chats, dirty : SUBSET Ids]
  \cup [pc : {"hydrate"}, chat : Chats, dirty : SUBSET Ids, rows : Seq([id : Ids, ver : Nat])]
  \cup [pc : {"set"}, chat : Chats, dirty : SUBSET Ids, rows : Seq(Wire)]

TypeOK ==
  /\ row \in [Ids -> Row]
  /\ reacted \in [Ids -> SUBSET Users]
  /\ req \in [Requests -> Call]
  /\ inbox \in Seq(Event)
  /\ open \in Chats
  /\ view \in Seq(Shown)
  /\ handlers \subseteq TextEvent
  /\ fetch \in [Fetches -> FetchCall]
  /\ excused \subseteq Ids

InChat(c) == {m \in Ids : ChatOf[m] = c}

Init ==
  /\ row = [m \in Ids |-> NoRow] /\ reacted = [m \in Ids |-> {}]
  /\ req = [r \in Requests |-> Idle]
  /\ inbox = <<>>
  /\ open = Home /\ view = <<>> /\ handlers = {}
  /\ fetch = [f \in Fetches |-> NoFetch]
  /\ excused = InChat(Home)

-----------------------------------------------------------------------------
(* What was done to messages and is not yet in the page: the events on     *)
(* their way, and the edits whose answer is being read.                    *)
Flying == {req[r].event : r \in {q \in Requests : req[q].pc = "publish"}}
            \cup Range(inbox) \cup handlers
Hydrating(m) == \E r \in Requests : req[r].pc = "hydrate" /\ req[r].id = m
Busy(m) == Hydrating(m) \/ \E e \in Flying : About(e) = m

NewFlying(m) == \E e \in Flying : e.kind = "new" /\ e.msg.id = m
TextFlying(m) ==
  Hydrating(m) \/ \E e \in Flying : e.kind \in {"new", "updated"} /\ e.msg.id = m
ReactionFlying(m, u) ==
  \E e \in Flying : e.kind \in {"added", "removed"} /\ e.id = m /\ e.user = u

(* The history, with every statement that changes m: race says that the    *)
(* events on their way may leave the page wrong about m; and a fetch that  *)
(* overlaps the statement may.                                             *)
Note(m, race) ==
  /\ excused' = IF race THEN excused \cup {m} ELSE excused
  /\ fetch' = [f \in Fetches |->
       IF fetch[f] # NoFetch /\ fetch[f].chat = ChatOf[m]
       THEN [fetch[f] EXCEPT !.dirty = @ \cup {m}] ELSE fetch[f]]

(* What the gateway publishes when the communication-service has answered. *)
NewEvent(m) == [kind |-> "new", msg |-> [id |-> m, ver |-> 0, by |-> {}]]
UpdatedEvent(m, ver) == [kind |-> "updated", msg |-> [id |-> m, ver |-> ver, by |-> reacted[m]]]
DeletedEvent(m) == [kind |-> "deleted", id |-> m]
AddedEvent(m, u) == [kind |-> "added", id |-> m, user |-> u]
RemovedEvent(m, u) == [kind |-> "removed", id |-> m, user |-> u]

Become(r, call) == req' = [req EXCEPT ![r] = call]
Answer(r, event) == Become(r, [pc |-> "publish", event |-> event])
Free(r, kind) == req[r] = Idle /\ kind \in Kinds

-----------------------------------------------------------------------------
(* sendMessage: the INSERT, whose row is the answer, without reactions.    *)
SendMessage(r) ==
  /\ Free(r, "send")
  /\ \E m \in Ids :
       /\ row[m] = NoRow /\ \A k \in Ids : k < m => row[k] # NoRow
       /\ row' = [row EXCEPT ![m].state = "sent"]
       /\ Answer(r, NewEvent(m))
       /\ Note(m, FALSE)
  /\ UNCHANGED <<reacted, inbox, open, view, handlers>>

(* updateMessage: isDeleted is read before the UPDATE, which writes the    *)
(* text whatever the row has become; the reactions are read after it.      *)
Edits(m) == row[m].ver + Cardinality({q \in Requests : req[q].pc = "update" /\ req[q].id = m})

Rewrite(m) == row' = [row EXCEPT ![m].ver = @ + 1]

UpdateFind(r) ==
  /\ Free(r, "edit")
  /\ \E m \in Ids :
       /\ row[m].state = "sent" /\ Edits(m) < MaxEdits
       /\ Become(r, [pc |-> "update", id |-> m])
  /\ UNCHANGED <<row, reacted, inbox, client, excused>>

UpdateWrite(r) ==
  /\ req[r].pc = "update"
  /\ LET m == req[r].id IN
     /\ Rewrite(m)
     /\ Become(r, [pc |-> "hydrate", id |-> m, ver |-> row[m].ver + 1])
     /\ Note(m, Busy(m))
  /\ UNCHANGED <<reacted, inbox, open, view, handlers>>

UpdateHydrate(r) ==
  /\ req[r].pc = "hydrate"
  /\ Answer(r, UpdatedEvent(req[r].id, req[r].ver))
  /\ UNCHANGED <<row, reacted, inbox, client, excused>>

(* deleteMessage: the row exists, softDelete.  A deletion may be repeated. *)
SoftDelete(m) == row' = [row EXCEPT ![m].state = "deleted"]

DeleteMessage(r) ==
  /\ Free(r, "delete")
  /\ \E m \in Ids :
       /\ row[m] # NoRow
       /\ SoftDelete(m)
       /\ Answer(r, DeletedEvent(m))
       /\ Note(m, NewFlying(m))
  /\ UNCHANGED <<reacted, inbox, open, view, handlers>>

(* addReaction: INSERT ... ON CONFLICT DO NOTHING; the event is published  *)
(* for a row that was there too, so that the count of a page may pass the  *)
(* number of rows: it is bounded here.                                     *)
Countable(m) ==
  LET more == Cardinality({e \in Flying : e.kind = "added" /\ e.id = m}) IN
  \A s \in Range(view) : s.id = m => s.count + more < MaxCount

Insert(m, u) == reacted' = [reacted EXCEPT ![m] = @ \cup {u}]
Delete(m, u) == reacted' = [reacted EXCEPT ![m] = @ \ {u}]

AddReaction(r) ==
  /\ Free(r, "react")
  /\ \E m \in Ids, u \in Users :
       /\ row[m] # NoRow /\ Countable(m)
       /\ Insert(m, u)
       /\ Answer(r, AddedEvent(m, u))
       /\ Note(m, u \in reacted[m] \/ TextFlying(m) \/ ReactionFlying(m, u))
  /\ UNCHANGED <<row, inbox, open, view, handlers>>

(* removeReaction: a row that is not there is an error, and no event.      *)
RemoveReaction(r) ==
  /\ Free(r, "react")
  /\ \E m \in Ids, u \in Users :
       /\ u \in reacted[m]
       /\ Delete(m, u)
       /\ Answer(r, RemovedEvent(m, u))
       /\ Note(m, TextFlying(m) \/ ReactionFlying(m, u))
  /\ UNCHANGED <<row, inbox, open, view, handlers>>

(* The publish to the channel of the chat, in the order the calls reach it,*)
(* and its emission to the room; or the event is lost with the socket.     *)
Publish(r) ==
  /\ req[r].pc = "publish" /\ Len(inbox) < MaxInbox
  /\ inbox' = Append(inbox, req[r].event)
  /\ Become(r, Idle)
  /\ UNCHANGED <<row, reacted, client, excused>>

PublishLost(r) ==
  /\ req[r].pc = "publish" /\ "lose" \in Kinds
  /\ excused' = excused \cup {About(req[r].event)}
  /\ Become(r, Idle)
  /\ UNCHANGED <<row, reacted, inbox, client>>

-----------------------------------------------------------------------------
(* Numbers in their order.                                                 *)
InOrder(ms) ==
  CHOOSE q \in [1..Cardinality(ms) -> ms] : \A i, j \in DOMAIN q : i < j => q[i] < q[j]

(* The handlers of the page.  One that decrypts finishes in a later step.  *)
Event1 == Head(inbox)

OnMessage ==
  /\ inbox # <<>> /\ Event1.kind \in {"new", "updated"}
  /\ handlers' = IF ChatOf[Event1.msg.id] = open THEN handlers \cup {Event1} ELSE handlers
  /\ inbox' = Tail(inbox)
  /\ UNCHANGED <<server, open, view, fetch, excused>>

(* prev.filter((m) => m.id !== payload.messageId).                         *)
Without(m) ==
  LET kept == InOrder({i \in DOMAIN view : view[i].id # m}) IN
  [k \in DOMAIN kept |-> view[kept[k]]]

OnMessageDeleted ==
  /\ inbox # <<>> /\ Event1.kind = "deleted"
  /\ view' = Without(Event1.id)
  /\ inbox' = Tail(inbox)
  /\ UNCHANGED <<server, open, handlers, fetch, excused>>

(* The message with these reactions.                                       *)
Reacted(s, count, by) == [id |-> s.id, ver |-> s.ver, count |-> count, by |-> by]

Mapped(m, Op(_)) == [i \in DOMAIN view |-> IF view[i].id = m THEN Op(view[i]) ELSE view[i]]
Added(s, u) == Reacted(s, s.count + 1, s.by \cup {u})

(* A reaction whose count is 0 is filtered out, with its users; a page     *)
(* that does not show the emoji ignores the event.  Seeded fault: nothing  *)
(* is filtered, and nothing ignored.                                       *)
Decremented(s, u) == Reacted(s, s.count - 1, s.by \ {u})
Removed(s, u) == IF s.count <= 1 THEN Reacted(s, 0, {}) ELSE Decremented(s, u)

OnReaction ==
  /\ inbox # <<>> /\ Event1.kind \in {"added", "removed"}
  /\ view' = IF ChatOf[Event1.id] # open THEN view
             ELSE IF Event1.kind = "added"
             THEN Mapped(Event1.id, LAMBDA s : Added(s, Event1.user))
             ELSE Mapped(Event1.id, LAMBDA s : Removed(s, Event1.user))
  /\ inbox' = Tail(inbox)
  /\ UNCHANGED <<server, open, handlers, fetch, excused>>

(* aggregateReactions.                                                     *)
Aggregated(w) == Reacted(w, Cardinality(w.by), w.by)

(* prev.some((m) => m.id === decrypted.id).  Seeded fault: not asked.      *)
NeverShown(m) == FALSE
IsShown(m) == \E i \in DOMAIN view : view[i].id = m

NewDone(e) ==
  /\ e.kind = "new"
  /\ view' = IF IsShown(e.msg.id) THEN view ELSE Append(view, Aggregated(e.msg))

UpdatedDone(e) ==
  /\ e.kind = "updated"
  /\ view' = Mapped(e.msg.id, LAMBDA s : Aggregated(e.msg))

HandlerDone(e) ==
  /\ NewDone(e) \/ UpdatedDone(e)
  /\ handlers' = handlers \ {e}
  /\ UNCHANGED <<server, inbox, open, fetch, excused>>

-----------------------------------------------------------------------------
(* fetchMessages: the SELECT of the rows, that of their reactions, and,    *)
(* decrypted, the new state of the page if it still shows the chat.        *)
Asked(c) == [pc |-> "list", chat |-> c, dirty |-> {m \in InChat(c) : Busy(m)}]

(* The chat is switched: the page is cleared and fetches.                  *)
Switch(c, f) ==
  /\ "switch" \in Kinds /\ c # open /\ fetch[f] = NoFetch
  /\ open' = c /\ view' = <<>>
  /\ fetch' = [fetch EXCEPT ![f] = Asked(c)]
  /\ excused' = excused \cup InChat(c)
  /\ UNCHANGED <<server, inbox, handlers>>

(* The page is mounted, or cryptoStore changed, and with it fetchMessages. *)
Refetch(f) ==
  /\ fetch[f] = NoFetch
  /\ fetch' = [fetch EXCEPT ![f] = Asked(open)]
  /\ UNCHANGED <<server, inbox, open, view, handlers, excused>>

FetchList(f) ==
  /\ fetch[f].pc = "list"
  /\ LET found == InOrder({m \in InChat(fetch[f].chat) : row[m].state = "sent"}) IN
     fetch' = [fetch EXCEPT ![f] =
       [pc |-> "hydrate", chat |-> @.chat, dirty |-> @.dirty, rows |->
          [i \in DOMAIN found |-> [id |-> found[i], ver |-> row[found[i]].ver]]]]
  /\ UNCHANGED <<server, inbox, open, view, handlers, excused>>

FetchHydrate(f) ==
  /\ fetch[f].pc = "hydrate"
  /\ LET rows == fetch[f].rows IN
     fetch' = [fetch EXCEPT ![f] =
       [pc |-> "set", chat |-> @.chat, dirty |-> @.dirty, rows |->
          [i \in DOMAIN rows |->
             [id |-> rows[i].id, ver |-> rows[i].ver, by |-> reacted[rows[i].id]]]]]
  /\ UNCHANGED <<server, inbox, open, view, handlers, excused>>

(* Guard: discard if user switched chats.  Seeded fault: no guard.         *)
AnyChat(f) == TRUE
StillOpen(f) == open = fetch[f].chat

FetchSet(f) ==
  /\ fetch[f].pc = "set"
  /\ IF StillOpen(f)
     THEN /\ view' = [i \in DOMAIN fetch[f].rows |-> Aggregated(fetch[f].rows[i])]
          /\ excused' = (excused \ InChat(fetch[f].chat)) \cup fetch[f].dirty
     ELSE UNCHANGED <<view, excused>>
  /\ fetch' = [fetch EXCEPT ![f] = NoFetch]
  /\ UNCHANGED <<server, inbox, open, handlers>>

FetchFails(f) ==
  /\ fetch[f] # NoFetch /\ "lose" \in Kinds
  /\ fetch' = [fetch EXCEPT ![f] = NoFetch]
  /\ UNCHANGED <<server, inbox, open, view, handlers, excused>>

-----------------------------------------------------------------------------
Serve(r) ==
  \/ SendMessage(r) \/ UpdateFind(r) \/ UpdateWrite(r) \/ UpdateHydrate(r)
  \/ DeleteMessage(r) \/ AddReaction(r) \/ RemoveReaction(r)
  \/ Publish(r) \/ PublishLost(r)

Handle == OnMessage \/ OnMessageDeleted \/ OnReaction \/ \E e \in handlers : HandlerDone(e)

Load(f) ==
  \/ \E c \in Chats : Switch(c, f)
  \/ Refetch(f) \/ FetchList(f) \/ FetchHydrate(f) \/ FetchSet(f) \/ FetchFails(f)

Next == (\E r \in Requests : Serve(r)) \/ Handle \/ (\E f \in Fetches : Load(f))

Spec == Init /\ [][Next]_vars

-----------------------------------------------------------------------------
(* The inductive invariant the proofs rest on.                             *)

(* Only rows that are there are spoken of, and only a deleted one is       *)
(* spoken of as deleted.                                                   *)
Known(m) == row[m] # NoRow
OnlyKnown ==
  /\ \A m \in Ids : reacted[m] # {} => Known(m)
  /\ \A e \in Flying : Known(About(e)) /\ (e.kind = "deleted" => row[e.id].state = "deleted")
  /\ \A r \in Requests : req[r].pc \in {"update", "hydrate"} => Known(req[r].id)
  /\ \A i \in DOMAIN view : Known(view[i].id)

(* A message is on the page once.  (onMessageNew looks for it in the state *)
(* it appends to.)                                                         *)
Entries(m) == {s \in Range(view) : s.id = m}

(* A message as the page shows it if its reactions are by these users.     *)
ShownWith(m, users) ==
  [id |-> m, ver |-> row[m].ver, count |-> Cardinality(users), by |-> users]
Expected(m) == ShownWith(m, reacted[m])

(* A fetch has read each message once; and what it has read of a message   *)
(* that is not dirty is what is stored.                                    *)
Read(f, m) == {w \in Range(fetch[f].rows) : w.id = m}
Found(f, m, w) == Read(f, m) = IF row[m].state = "sent" THEN {w} ELSE {}
ReadRight(f) ==
  /\ fetch[f].pc \in {"hydrate", "set"} =>
       \A i, j \in DOMAIN fetch[f].rows :
         /\ Known(fetch[f].rows[i].id)
         /\ fetch[f].rows[i].id = fetch[f].rows[j].id => i = j
  /\ fetch[f] # NoFetch =>
       \A m \in InChat(fetch[f].chat) \ fetch[f].dirty :
         /\ ~Busy(m)
         /\ fetch[f].pc = "hydrate" => Found(f, m, [id |-> m, ver |-> row[m].ver])
         /\ fetch[f].pc = "set" => Found(f, m, [id |-> m, ver |-> row[m].ver, by |-> reacted[m]])
FetchFollows == \A f \in Fetches : ReadRight(f)

(* Where a message stands with the page that is not excused about it.      *)
(* Its row is not there; it is sent, and its arrival is on its way; it is  *)
(* edited, and what is on its way brings the text and the reactions; only  *)
(* reactions are on their way, each once, and the page is behind by them;  *)
(* or it is deleted, which the page knows or will hear.                    *)
Unsent(m) == row[m] = NoRow /\ Entries(m) = {}

Arriving(m) ==
  /\ row[m] = [state |-> "sent", ver |-> 0] /\ reacted[m] = {}
  /\ NewFlying(m) /\ ~Hydrating(m)
  /\ \A e \in Flying : About(e) = m => e = NewEvent(m)
  /\ Entries(m) \subseteq {Expected(m)}

Rewriting(m) ==
  /\ row[m].state = "sent" /\ TextFlying(m)
  /\ \A e \in Flying : About(e) = m => e = UpdatedEvent(m, row[m].ver)
  /\ \A r \in Requests : req[r].pc = "hydrate" /\ req[r].id = m => req[r].ver = row[m].ver
  /\ \E s \in Range(view) : Entries(m) = {s}

Reacts(e, m, u) == e.kind \in {"added", "removed"} /\ e.id = m /\ e.user = u
Posts(r, m, u) == req[r].pc = "publish" /\ Reacts(req[r].event, m, u)
InOnePlace(m, u) ==
  /\ \A q, r \in Requests : Posts(q, m, u) /\ Posts(r, m, u) => q = r
  /\ \A i, j \in DOMAIN inbox : Reacts(inbox[i], m, u) /\ Reacts(inbox[j], m, u) => i = j
  /\ \A r \in Requests, i \in DOMAIN inbox : ~(Posts(r, m, u) /\ Reacts(inbox[i], m, u))

Adding(m) == {u \in Users : AddedEvent(m, u) \in Flying}
Removing(m) == {u \in Users : RemovedEvent(m, u) \in Flying}
Reacting(m) ==
  /\ row[m].state = "sent" /\ ~TextFlying(m)
  /\ \A u \in Users : InOnePlace(m, u)
  /\ Adding(m) \subseteq reacted[m] /\ Removing(m) \cap reacted[m] = {}
  /\ Entries(m) = {ShownWith(m, (reacted[m] \cup Removing(m)) \ Adding(m))}

Gone(m) ==
  /\ row[m].state = "deleted" /\ ~NewFlying(m)
  /\ Entries(m) = {} \/ DeletedEvent(m) \in Flying

Follows(m) == Unsent(m) \/ Arriving(m) \/ Rewriting(m) \/ Reacting(m) \/ Gone(m)
ViewFollows == \A m \in InChat(open) \ excused : Follows(m)

-----------------------------------------------------------------------------
(* Properties.                                                             *)

(* A message is on the page once, whether a fetch brought it, the event of *)
(* the sending, or both, and in whichever order (onMessageNew looks for it *)
(* in the state it appends to, not in the one it was called with).         *)
NoDuplicates == \A i, j \in DOMAIN view : view[i].id = view[j].id => i = j

(* The page agrees with the database: a message nothing about which is on  *)
(* its way is shown exactly if it was sent and is not deleted, with its    *)
(* last text, and with the reactions that are stored, unless it is         *)
(* excused: a fetch overlapped a change of it, an edit overtook or was     *)
(* overtaken by an event of it, its deletion overtook its arrival, a       *)
(* reaction crossed its text or one of the same user, was added twice, or  *)
(* an event was lost.  The next fetch that meets none of these repairs it. *)
ViewAgrees ==
  \A m \in InChat(open) \ excused : ~Busy(m) =>
    Entries(m) = IF row[m].state = "sent" THEN {Expected(m)} ELSE {}

(* What the page is behind by is on its way, at every moment and not only  *)
(* at rest: the inductive invariant.                                       *)
ViewInv == TypeOK /\ OnlyKnown /\ NoDuplicates /\ FetchFollows /\ ViewFollows
=============================================================================
