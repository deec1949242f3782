------------------------------- MODULE ChatList -------------------------------
(***************************************************************************)
(* The chat list of one user's page: Layout of the web client, its Socket  *)
(* connection to the gateway, the query ['chats'] that fetches the list,   *)
(* and what the gateway publishes about chats and messages meanwhile.      *)
(*                                                                         *)
(* News about a chat are numbered: what happened to it (its creation with  *)
(* the user, the user being added, a message) in the order of the          *)
(* statements.  Redis and the handlers of the gateway are those of         *)
(* MessagingGateway, here in one step.  There are fewer chats than a fetch *)
(* asks for (20).                                                          *)
(***************************************************************************)
EXTENDS Naturals, Sequences, FiniteSets, SequencesExt

CONSTANTS
  Chats,      \* chat ids
  None,       \* no chat
  MaxNews,    \* bound on the news of a chat
  MaxDrops,   \* bound on the connections lost
  Workloads   \* what a behaviour may have happen, one of which it has

ASSUME ListConstants ==
  /\ None \notin Chats
  /\ MaxNews \in Nat /\ MaxDrops \in Nat
  /\ \A w \in Workloads : w.news \in [Chats -> 0..MaxNews] /\ "kinds" \in DOMAIN w

VARIABLES
  mix,         \* the workload of the behaviour
  row,         \* row[c]: the chat, as the user's membership has it
  unread,      \* unread[c]: the user's message_status rows that are not READ
  news,        \* news[c]: how much has happened to c
  publishing,  \* events the gateway publishes when its call has answered
  link,        \* the connection, as the gateway has it
  heard,       \* the chats the gateway has the socket subscribed to
  inbox,       \* the events on their way to the page
  greeted,     \* the page's socket is connected
  buffer,      \* chat:subscribe_many emitted while it is not
  sent,        \* those on their way to the gateway
  badge,       \* the query's data: badge[c] is the unreadCount of a listed chat c
  loaded,      \* there is data
  open,        \* the chat the page is at
  fetch,       \* the getChats in flight
  call,        \* the createChat or deleteChat the page awaits
  drops,
  seen,        \* history: the latest news of a chat whose event is gone by
  lost,        \* history: the chats of which the page may have missed news
  visited,     \* history: the chats that were opened
  own          \* history: the chats created here whose list was fetched again

server == <<row, unread, news, publishing>>
wire == <<link, heard, inbox, greeted, buffer, sent, drops>>
page == <<badge, loaded, open, fetch, call>>
history == <<seen, lost, visited, own>>
vars == <<mix, server, wire, page, history>>

Kinds == mix.kinds

-----------------------------------------------------------------------------
Event == [kind : {"new", "message"}, chat : Chats, n : 1..MaxNews]
Messages == (SUBSET Chats) \ {{}}        \* the payloads of chat:subscribe_many
Counts == [Chats -> 0..MaxNews]

NoFetch == [pc |-> "none"]
Asked == [pc |-> "asked"]
Fetch == {NoFetch, Asked}
  \cup [pc : {"count"}, list : SUBSET Chats]
  \cup [pc : {"set"}, list : SUBSET Chats, unread : Counts, upTo : Counts]

NoCall == [pc |-> "none"]
Call == {NoCall} \cup [pc : {"create", "delete"}, chat : Chats]

(* A socket the page takes for dead has sent nothing, and one that lives   *)
(* has nothing waiting; only an open one is subscribed.                    *)
TypeOK ==
  /\ mix \in Workloads
  /\ row \in [Chats -> {"none", "others", "mine", "left", "deleted"}]
  /\ unread \in Counts /\ news \in Counts /\ seen \in Counts
  /\ publishing \subseteq Event /\ inbox \in Seq(Event)
  /\ link \in {"down", "resolving", "open", "refused"}
  /\ heard \subseteq Chats
  /\ lost \subseteq Chats /\ visited \subseteq Chats /\ own \subseteq Chats
  /\ greeted \in BOOLEAN /\ loaded \in BOOLEAN
  /\ buffer \subseteq Messages /\ sent \subseteq Messages
  /\ DOMAIN badge \subseteq Chats /\ \A c \in DOMAIN badge : badge[c] \in Nat
  /\ open \in Chats \cup {None}
  /\ fetch \in Fetch /\ call \in Call
  /\ drops \in 0..MaxDrops
  /\ greeted => buffer = {} /\ link \in {"resolving", "open"}
  /\ sent # {} => greeted
  /\ heard # {} => link = "open"

Listed == DOMAIN badge
Mine == {c \in Chats : row[c] = "mine"}

Init ==
  /\ mix \in Workloads
  /\ row \in [Chats -> {"none", "others", "mine"}]
  /\ \A c \in Chats : mix.news[c] = 0 => row[c] = "none"
  /\ unread = [c \in Chats |-> 0]
  /\ news = [c \in Chats |-> 0] /\ seen = news
  /\ publishing = {} /\ inbox = <<>>
  /\ link = "down" /\ heard = {} /\ greeted = FALSE /\ buffer = {} /\ sent = {} /\ drops = 0
  /\ badge = <<>> /\ loaded = FALSE /\ open = None
  /\ fetch = Asked /\ call = NoCall
  /\ lost = Chats /\ visited = {} /\ own = {}

-----------------------------------------------------------------------------
(* What happens to chats, and the event the gateway publishes about it.    *)
Happens(c, kind) ==
  /\ news[c] < mix.news[c]
  /\ news' = [news EXCEPT ![c] = @ + 1]
  /\ publishing' = publishing \cup {[kind |-> kind, chat |-> c, n |-> news[c] + 1]}

Created(c) ==
  /\ row[c] = "none"
  /\ row' = [row EXCEPT ![c] = "mine"]
  /\ Happens(c, "new")
  /\ UNCHANGED <<mix, unread, wire, badge, loaded, open, fetch, history>>

CreateChat(c) == Created(c) /\ UNCHANGED call

(* addMember publishes to the channel of the chat only, and no page        *)
(* listens to chat:member_added: the new member is not told.               *)
AddMember(c) ==
  /\ row[c] = "others" /\ news[c] < mix.news[c]
  /\ row' = [row EXCEPT ![c] = "mine"]
  /\ news' = [news EXCEPT ![c] = @ + 1]
  /\ seen' = [seen EXCEPT ![c] = news[c] + 1]
  /\ lost' = lost \cup {c}
  /\ UNCHANGED <<mix, unread, publishing, wire, page, visited, own>>

(* The user is removed, or the chat is deleted: chat:member_removed and    *)
(* chat:deleted are published, and no page listens to them either.         *)
End(c) ==
  /\ "end" \in Kinds /\ row[c] = "mine"
  /\ \E state \in {"left", "deleted"} : row' = [row EXCEPT ![c] = state]
  /\ UNCHANGED <<mix, unread, news, publishing, wire, page, history>>

(* A message by the user (from another page) or by another member, who     *)
(* may be in a chat the user has left.                                     *)
SendMessage(c, self) ==
  /\ row[c] \in {"mine", "left"} /\ (self => row[c] = "mine")
  /\ Happens(c, "message")
  /\ unread' = IF self \/ row[c] = "left" THEN unread ELSE [unread EXCEPT ![c] = @ + 1]
  /\ UNCHANGED <<mix, row, wire, page, history>>

(* markRead, by this page of the chat it is at or by another.              *)
MarkRead(c) ==
  /\ "read" \in Kinds /\ unread[c] > 0
  /\ unread' = [unread EXCEPT ![c] = 0]
  /\ UNCHANGED <<mix, row, news, publishing, wire, page, history>>

GoneBy(es) ==
  seen' = [c \in Chats |->
    LET ns == {e.n : e \in {x \in es : x.chat = c}} IN
    IF \E n \in ns : n > seen[c] THEN CHOOSE n \in ns : \A k \in ns : k <= n ELSE seen[c]]

(* chat:new goes to the channel of each member, message:new to the chat's. *)
Hears(e) == link = "open" /\ (e.kind = "new" \/ e.chat \in heard)

Publish(e) ==
  /\ publishing' = publishing \ {e}
  /\ IF Hears(e)
     THEN inbox' = Append(inbox, e) /\ UNCHANGED <<seen, lost>>
     ELSE GoneBy({e}) /\ lost' = lost \cup {e.chat} /\ UNCHANGED inbox
  /\ UNCHANGED <<mix, row, unread, news, link, heard, greeted, buffer, sent, drops, page, visited, own>>

-----------------------------------------------------------------------------
(* The connection.  The socket emits to the gateway when it is connected,  *)
(* and keeps what is emitted before.                                       *)
Emit(ms) ==
  IF greeted THEN sent' = sent \cup ms /\ UNCHANGED buffer
  ELSE buffer' = buffer \cup ms /\ UNCHANGED sent

(* The listener for 'connect' is there once there are chats to subscribe   *)
(* to.                                                                     *)
Resubscribe == IF Listed = {} THEN {} ELSE {Listed}

Connect ==
  /\ link = "down"
  /\ link' = "resolving"
  /\ UNCHANGED <<mix, server, heard, inbox, greeted, buffer, sent, drops, page, history>>

Greet ==
  /\ link \in {"resolving", "open"} /\ ~greeted
  /\ greeted' = TRUE /\ buffer' = {}
  /\ sent' = buffer \cup Resubscribe
  /\ UNCHANGED <<mix, server, link, heard, inbox, drops, page, history>>

(* handleConnection has resolved the session and subscribed the socket to  *)
(* the user's channel.                                                     *)
Registered ==
  /\ link = "resolving"
  /\ link' = "open"
  /\ UNCHANGED <<mix, server, heard, inbox, greeted, buffer, sent, drops, page, history>>

(* A connection ends: what is on it is lost.  Seeded fault: the next one   *)
(* inherits the subscriptions.                                             *)
KeepHeard == heard
NoneHeard == {}

Cut(how) ==
  /\ link' = how
  /\ heard' = NoneHeard /\ greeted' = FALSE /\ sent' = {} /\ inbox' = <<>>
  /\ GoneBy(Range(inbox))
  /\ lost' = lost \cup {e.chat : e \in Range(inbox)}
  /\ UNCHANGED <<mix, server, buffer, page, visited, own>>

Drop ==
  /\ link \in {"resolving", "open"} /\ drops < MaxDrops
  /\ drops' = drops + 1
  /\ Cut("down")

(* The gateway disconnects a socket whose session is gone, and one that    *)
(* sends before its session is resolved.  A socket the server has          *)
(* disconnected does not connect again.                                    *)
SessionGone ==
  /\ "end" \in Kinds /\ link \in {"resolving", "open"}
  /\ Cut("refused")
  /\ UNCHANGED drops

ArrivesTooEarly ==
  /\ link = "resolving" /\ sent # {}
  /\ Cut("refused")
  /\ UNCHANGED drops

Subscribe(m) ==
  /\ link = "open" /\ m \in sent
  /\ sent' = sent \ {m}
  /\ heard' = heard \cup m
  /\ UNCHANGED <<mix, server, link, inbox, greeted, buffer, drops, page, history>>

-----------------------------------------------------------------------------
(* The page.  New data is rendered, and what is listed is subscribed to.   *)
(* Seeded fault: only on a connection.                                     *)
NoSubscriptions(b) == {}
Subscriptions(b) == IF DOMAIN b = {} THEN {} ELSE {DOMAIN b}

Show(b, new) ==
  /\ badge' = b
  /\ Emit(IF new THEN Subscriptions(b) ELSE {})

Reset(b, c) == [d \in DOMAIN b |-> IF d = c THEN 0 ELSE b[d]]
Counted(b, c) == [d \in DOMAIN b |-> IF d = c THEN b[d] + 1 ELSE b[d]]
WithChat(b, c) == [d \in DOMAIN b \cup {c} |-> IF d \in DOMAIN b THEN b[d] ELSE 0]

Handled(e) ==
  /\ inbox # <<>> /\ Head(inbox) = e
  /\ inbox' = Tail(inbox)
  /\ GoneBy({e})
  /\ UNCHANGED <<mix, server, link, heard, greeted, drops, open, fetch, call, lost, visited, own>>

OnChatNew(e) ==
  /\ e.kind = "new"
  /\ Handled(e)
  /\ loaded' = TRUE
  /\ badge' = WithChat(badge, e.chat)
  /\ Emit({{e.chat}} \cup IF e.chat \in Listed THEN {} ELSE Subscriptions(badge'))

(* The message is the last one of its chat in any case: the data is new.   *)
OnMessageNew(e) ==
  /\ e.kind = "message"
  /\ Handled(e)
  /\ badge' = IF e.chat = open THEN badge ELSE Counted(badge, e.chat)
  /\ Emit(Subscriptions(badge))
  /\ UNCHANGED loaded

(* Navigation to a chat of the list, and away.                             *)
Enter(c) ==
  /\ open' = c
  /\ visited' = visited \cup {c}
  /\ Show(Reset(badge, c), Reset(badge, c) # badge)

OpenChat(c) ==
  /\ "open" \in Kinds /\ call = NoCall
  /\ c \in Listed \ {open}
  /\ Enter(c)
  /\ UNCHANGED <<mix, server, link, heard, inbox, greeted, drops, loaded, fetch, call, seen, lost, own>>

CloseChat ==
  /\ call = NoCall /\ open # None
  /\ open' = None
  /\ UNCHANGED <<mix, server, wire, badge, loaded, fetch, call, history>>

(* The query fetches again when its data is stale and the window gets the  *)
(* focus, if it does not already.                                          *)
Refetch ==
  /\ fetch = NoFetch
  /\ fetch' = Asked
  /\ UNCHANGED <<mix, server, wire, badge, loaded, open, call, history>>

(* invalidateQueries: a fetch in flight is given up for a new one, unless  *)
(* there is no data yet.  Seeded fault: it is waited for.                  *)
AwaitFetch == fetch' = IF fetch = NoFetch THEN Asked ELSE fetch
Invalidate == fetch' = IF fetch = NoFetch \/ loaded THEN Asked ELSE fetch

(* getChatsByUserId: the chats of the user, then the unread count of each. *)
FetchList ==
  /\ fetch.pc = "asked"
  /\ fetch' = [pc |-> "count", list |-> Mine]
  /\ UNCHANGED <<mix, server, wire, badge, loaded, open, call, history>>

FetchCount ==
  /\ fetch.pc = "count"
  /\ fetch' = [pc |-> "set", list |-> fetch.list, unread |-> unread,
               upTo |-> [c \in Chats |-> IF c \in fetch.list THEN news[c] ELSE 0]]
  /\ UNCHANGED <<mix, server, wire, badge, loaded, open, call, history>>

(* The answer replaces the data, and is new to the page also if only the   *)
(* last message of a chat is.  What was heard after it was read is gone    *)
(* from the list.                                                          *)
FetchSet ==
  /\ fetch.pc = "set"
  /\ LET b == [c \in fetch.list |-> fetch.unread[c]] IN
     \E new \in BOOLEAN : (b # badge => new) /\ Show(b, new)
  /\ loaded' = TRUE
  /\ lost' = {c \in Chats : seen[c] > fetch.upTo[c]}
  /\ fetch' = NoFetch
  /\ UNCHANGED <<mix, server, link, heard, inbox, greeted, drops, open, call, seen, visited, own>>

FetchFails ==
  /\ "fail" \in Kinds /\ fetch # NoFetch
  /\ fetch' = NoFetch /\ own' = {}
  /\ UNCHANGED <<mix, server, wire, badge, loaded, open, call, seen, lost, visited>>

(* handleCreate and handleDeleteChat: the answer comes when the gateway    *)
(* has published.  After an error (of the request, or of the distribution  *)
(* of the chain key) nothing is fetched.                                   *)
CreateHere(c) ==
  /\ "create" \in Kinds /\ call = NoCall /\ open = None
  /\ Created(c)
  /\ call' = [pc |-> "create", chat |-> c]

Published(c) == ~ \E e \in publishing : e.chat = c /\ e.kind = "new"

CreateAnswered ==
  /\ call.pc = "create" /\ Published(call.chat)
  /\ Invalidate
  /\ Enter(call.chat)
  /\ own' = IF loaded THEN own \cup {call.chat} ELSE own
  /\ call' = NoCall
  /\ UNCHANGED <<mix, server, link, heard, inbox, greeted, drops, loaded, seen, lost>>

DeleteHere ==
  /\ "end" \in Kinds /\ call = NoCall
  /\ open # None /\ row[open] = "mine"
  /\ row' = [row EXCEPT ![open] = "deleted"]
  /\ call' = [pc |-> "delete", chat |-> open]
  /\ UNCHANGED <<mix, unread, news, publishing, wire, badge, loaded, open, fetch, history>>

DeleteAnswered ==
  /\ call.pc = "delete"
  /\ Invalidate
  /\ open' = None /\ call' = NoCall
  /\ UNCHANGED <<mix, server, wire, badge, loaded, history>>

CallFails ==
  /\ "fail" \in Kinds /\ call # NoCall
  /\ call' = NoCall
  /\ UNCHANGED <<mix, server, wire, badge, loaded, open, fetch, history>>

-----------------------------------------------------------------------------
Others(c) ==
  \/ CreateChat(c)
  \/ AddMember(c)
  \/ End(c)
  \/ \E self \in BOOLEAN : SendMessage(c, self)
  \/ MarkRead(c)

Gateway == Registered \/ SessionGone \/ ArrivesTooEarly

Socket == Connect \/ Greet \/ Gateway \/ Drop \/ \E m \in sent : Subscribe(m)

Page ==
  \/ \E c \in Chats : OpenChat(c) \/ CreateHere(c)
  \/ CloseChat \/ CreateAnswered \/ DeleteHere \/ DeleteAnswered \/ CallFails
  \/ Refetch \/ FetchList \/ FetchCount \/ FetchSet \/ FetchFails

Next ==
  \/ \E c \in Chats : Others(c)
  \/ \E e \in publishing : Publish(e)
  \/ \E e \in Range(inbox) : OnChatNew(e) \/ OnMessageNew(e)
  \/ Socket
  \/ Page

Spec == Init /\ [][Next]_vars

(* A connection that is there delivers, and the gateway handles what it is *)
(* sent.                                                                   *)
FairSpec ==
  /\ Spec
  /\ WF_vars(Greet) /\ WF_vars(Gateway)
  /\ \A m \in Messages : WF_vars(Subscribe(m))

-----------------------------------------------------------------------------
(* The inductive invariant the proofs rest on.                             *)

(* News that are on their way to the page, from a publish that is still to *)
(* be made on; and chats the socket is subscribed to, or will be.          *)
OnTheWay == publishing \cup Range(inbox)
Unheard(c) == {n \in 1..MaxNews : [kind |-> "message", chat |-> c, n |-> n] \in OnTheWay}
NewComes(c) == \E e \in OnTheWay : e.kind = "new" /\ e.chat = c
Tuned(c) == c \in heard \/ \E m \in sent \cup buffer : c \in m
Told(c) == \E e \in Range(inbox) : e.kind = "message" /\ e.chat = c

(* News happened, and each is in one place.                                *)
EachEventOnce ==
  /\ \A e \in OnTheWay : e.n <= news[e.chat]
  /\ publishing \cap Range(inbox) = {}
  /\ \A i, j \in DOMAIN inbox : inbox[i] = inbox[j] => i = j

(* Of a chat the user is not in, the page knows nothing.                   *)
Foreign(c) == row[c] \in {"none", "others"}
ForeignIsUnknown ==
  \A c \in Chats : Foreign(c) =>
    /\ news[c] = 0 /\ seen[c] = 0
    /\ c \notin Listed \cup own /\ ~Tuned(c)
    /\ fetch.pc \in {"count", "set"} => c \notin fetch.list
    /\ call # NoCall => call.chat # c

CountsAreOfNews ==
  /\ \A c \in Chats : unread[c] <= news[c]
  /\ fetch.pc = "set" => \A c \in Chats :
       fetch.upTo[c] <= news[c] /\ (c \notin fetch.list => fetch.upTo[c] = 0)
  /\ open # None => open \in visited

(* A chat the page missed no news of is listed, and its messages that are  *)
(* not in its badge are on their way; or chat:new is, and no message comes *)
(* before it.                                                              *)
Current(c) ==
  c \in Listed /\ (c \in visited \/ unread[c] <= badge[c] + Cardinality(Unheard(c)))
Awaited(c) ==
  /\ c \notin Listed /\ NewComes(c) /\ ~Tuned(c) /\ ~Told(c)
  /\ unread[c] <= Cardinality(Unheard(c))
MissedNothing == \A c \in Mine \ lost : Current(c) \/ Awaited(c)

(* What a fetch has not read is on its way, unless it is gone by, which    *)
(* the page makes up for by a fetch after this one.                        *)
FetchKnows ==
  \A c \in Mine :
    /\ fetch.pc \in {"count", "set"} /\ c \notin fetch.list /\ seen[c] = 0 => Awaited(c)
    /\ fetch.pc = "set" /\ c \in fetch.list /\ seen[c] <= fetch.upTo[c] =>
         unread[c] <= fetch.unread[c] + Cardinality({n \in Unheard(c) : n > fetch.upTo[c]})

OwnIsFetched ==
  \A c \in Mine \cap own :
    \/ fetch = NoFetch /\ c \in Listed
    \/ fetch = Asked
    \/ fetch.pc \in {"count", "set"} /\ c \in fetch.list

(* The types, and that the page has missed nothing but what lost says, at  *)
(* every moment and not only at rest.                                      *)
ChatListInv ==
  /\ TypeOK
  /\ EachEventOnce
  /\ ForeignIsUnknown
  /\ CountsAreOfNews
  /\ MissedNothing
  /\ FetchKnows
  /\ OwnIsFetched

-----------------------------------------------------------------------------
(* Properties.                                                             *)

(* When nothing is on its way the page shows every chat the user is in,    *)
(* with a badge that counts at least the unread messages (unless it was    *)
(* opened), but for the chats of which it may have missed news: the user   *)
(* was added by another, an event came while the page did not hear the     *)
(* chat or was lost with the connection, or a fetch that had read before   *)
(* the news was answered after their event.  A chat the page created is    *)
(* shown in any case, if the page had data and no fetch failed: what was   *)
(* read before the creation is not taken for the list any more.            *)
AtRest == publishing = {} /\ inbox = <<>> /\ fetch = NoFetch
NewsShown ==
  AtRest =>
    /\ \A c \in Mine \ lost : c \in Listed /\ (c \in visited \/ badge[c] >= unread[c])
    /\ Mine \cap own \subseteq Listed

(* A chat that is listed is heard in the end, if the connection stays and  *)
(* is not refused: after a reconnection too, and whether the chat came     *)
(* with a fetch or with an event, before or after the socket connected.    *)
ListedIsHeard ==
  \A c \in Chats :
    c \in Listed ~> c \in heard \/ c \notin Listed \/ link \in {"down", "refused"}
=============================================================================
