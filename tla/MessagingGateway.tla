--------------------------- MODULE MessagingGateway ---------------------------
(***************************************************************************)
(* The WebSocket side of one api-gateway replica: MessagingGateway, its    *)
(* WsSessionGuard, and the RedisPubSubService whose one subscriber         *)
(* connection all sockets of the replica share.                            *)
(*                                                                         *)
(* JavaScript runs a handler up to its next await without interruption, so *)
(* an action is the code between two awaits.  What is awaited: the session *)
(* lookup of a connection or a message, Redis's answer to a SUBSCRIBE or   *)
(* UNSUBSCRIBE, and the PUBLISH of a presence update.  Redis answers the   *)
(* commands on a channel in the order they were sent; commands on          *)
(* different channels touch different state and are left unordered.  A     *)
(* replica that restarts begins again in Init with new sockets.            *)
(***************************************************************************)
EXTENDS Naturals, Sequences, FiniteSets

CONSTANTS
  Sockets,      \* socket ids; a reconnecting client gets a new one
  Users,        \* user ids, also standing for the channels user:<id>
  Chats,        \* chat ids, also standing for the channels chat:<id>
  UserOf,       \* UserOf[s]: the user whose session token socket s presents
  Kinds,        \* the kinds of messages clients send
  MaxSubs,      \* bound on the handlers a socket creates for one channel
  MaxPending,   \* bound on the messages of a socket awaiting their guard
  MaxFailures   \* bound on the commands Redis fails

ASSUME GatewayConstants ==
  /\ UserOf \in [Sockets -> Users]
  /\ Users \cap Chats = {}
  /\ Kinds \subseteq {"subscribe", "unsubscribe"}
  /\ {MaxSubs, MaxPending, MaxFailures} \subseteq Nat

Channels == Users \cup Chats

Numbers == 1..MaxSubs
Handlers == Sockets \X Numbers      \* <<s, n>>: the n-th closure s made for a channel

VARIABLES
  handlers,        \* RedisPubSubService.handlers: channel -> absent or a set of closures
  wire,            \* wire[c]: commands on c that Redis has not answered
  redisSubs,       \* channels Redis has the subscriber connection subscribed to
  link,            \* link[s]: the Socket.IO connection
  user,            \* user[s]: socket.data['user'] is set
  socketChannels,  \* MessagingGateway.socketChannels: socket -> absent or channel -> closure
  userSockets,     \* MessagingGateway.userSockets (an absent key is the empty set)
  cleanup,         \* cleanup[s]: where handleDisconnect of s is
  pending,         \* pending[s]: messages of s whose guard is awaited
  made,            \* made[s][c]: closures made so far (their identity)
  late, thrown,    \* history: subscriptions completed after they were given up, and
                   \* subscriptions that ended in an exception
  failures

registry == <<handlers, wire, redisSubs>>
sockets == <<link, user, socketChannels, userSockets, cleanup, pending, made>>
history == <<late, thrown, failures>>
vars == <<registry, sockets, history>>

-----------------------------------------------------------------------------
Absent == [known |-> FALSE, fns |-> {}]
NoMap == [known |-> FALSE, of |-> [c \in Channels |-> 0]]
NewMap == [known |-> TRUE, of |-> [c \in Channels |-> 0]]

Command == [cmd : {"sub", "unsub"}, by : Handlers, cleaning : BOOLEAN]
Message == [kind : {"subscribe", "unsubscribe"}, chats : (SUBSET Chats) \ {{}}]

TypeOK ==
  /\ handlers \in [Channels -> [known : BOOLEAN, fns : SUBSET Handlers]]
  /\ wire \in [Channels -> Seq(Command)]
  /\ redisSubs \subseteq Channels
  /\ link \in [Sockets -> {"new", "resolving", "open", "dropped", "closed"}]
  /\ user \in [Sockets -> BOOLEAN]
  /\ socketChannels \in [Sockets -> [known : BOOLEAN, of : [Channels -> 0..MaxSubs]]]
  /\ userSockets \in [Users -> SUBSET Sockets]
  /\ cleanup \in [Sockets -> [at : {"none", "publish", "next", "await", "done"},
                              visited : SUBSET (Channels \X Numbers)]]
  /\ pending \in [Sockets -> SUBSET Message]
  /\ made \in [Sockets -> [Channels -> 0..MaxSubs]]
  /\ late \subseteq Channels \X Handlers
  /\ thrown \subseteq Channels \X Handlers
  /\ failures \in 0..MaxFailures

Init ==
  /\ handlers = [c \in Channels |-> Absent]
  /\ wire = [c \in Channels |-> <<>>]
  /\ redisSubs = {}
  /\ link = [s \in Sockets |-> "new"]
  /\ user = [s \in Sockets |-> FALSE]
  /\ socketChannels = [s \in Sockets |-> NoMap]
  /\ userSockets = [u \in Users |-> {}]
  /\ cleanup = [s \in Sockets |-> [at |-> "none", visited |-> {}]]
  /\ pending = [s \in Sockets |-> {}]
  /\ made = [s \in Sockets |-> [c \in Channels |-> 0]]
  /\ late = {} /\ thrown = {} /\ failures = 0

-----------------------------------------------------------------------------
(* RedisPubSubService, up to its await.                                    *)

Sub(h) == [cmd |-> "sub", by |-> h, cleaning |-> FALSE]
Unsub(h, cleaning) == [cmd |-> "unsub", by |-> h, cleaning |-> cleaning]

(* subscribe: the first handler of a channel makes the entry and sends the *)
(* SUBSCRIBE; it is added when Redis has answered, every other one at once.*)
(* Seeded fault: a second subscriber replaces the set.                     *)
JoinedAnew(entry, h) ==
  IF entry.known THEN [entry EXCEPT !.fns = {h}] ELSE [known |-> TRUE, fns |-> {}]
Joined(entry, h) ==
  IF entry.known THEN [entry EXCEPT !.fns = @ \cup {h}] ELSE [known |-> TRUE, fns |-> {}]

(* unsubscribe: the handler is deleted, and an entry left empty with it.   *)
(* Seeded fault: the empty entry stays in the map.                         *)
PartedKeepingKey(entry, h) == [entry EXCEPT !.fns = @ \ {h}]
Parted(entry, h) ==
  IF entry.fns \ {h} = {} THEN Absent ELSE [entry EXCEPT !.fns = @ \ {h}]

LastOut(entry, h) == entry.known /\ entry.fns \ {h} = {}

(* subscribeSocketToChannel for every channel of cs, in one run of the     *)
(* event loop: chat:subscribe_many starts all of them before it awaits.    *)
SubscribeSocket(s, chans, cs) ==
  LET fresh == {c \in cs : chans.of[c] = 0}
      h(c) == <<s, made[s][c] + 1>>
  IN /\ \A c \in fresh : made[s][c] < MaxSubs
     /\ made' = [made EXCEPT ![s] = [c \in Channels |-> IF c \in fresh THEN @[c] + 1 ELSE @[c]]]
     /\ socketChannels' = [socketChannels EXCEPT ![s] =
          [chans EXCEPT !.of = [c \in Channels |-> IF c \in fresh THEN made[s][c] + 1 ELSE @[c]]]]
     /\ handlers' = [c \in Channels |->
          IF c \in fresh THEN Joined(handlers[c], h(c)) ELSE handlers[c]]
     /\ wire' = [c \in Channels |->
          IF c \in fresh /\ ~handlers[c].known THEN Append(wire[c], Sub(h(c))) ELSE wire[c]]

(* pubSub.unsubscribe(c, closure n of s) for every channel of cs.          *)
UnsubscribeHandlers(s, cs, cleaning) ==
  LET h(c) == <<s, socketChannels[s].of[c]>> IN
  /\ handlers' = [c \in Channels |->
       IF c \in cs /\ handlers[c].known THEN Parted(handlers[c], h(c)) ELSE handlers[c]]
  /\ wire' = [c \in Channels |->
       IF c \in cs /\ LastOut(handlers[c], h(c))
       THEN Append(wire[c], Unsub(h(c), cleaning)) ELSE wire[c]]

-----------------------------------------------------------------------------
(* The end of a connection: the first stretch of cleanupSocket, which runs *)
(* as soon as the socket is gone.  Before handleConnection has set         *)
(* socket.data['user'] there is nothing to clean up yet, and it is over.   *)
Disconnected(s, how) ==
  LET u == UserOf[s]
      left == userSockets[u] \ {s}
      last == user[s] /\ userSockets[u] # {} /\ left = {}
  IN /\ link' = [link EXCEPT ![s] = how]
     /\ userSockets' = IF user[s] THEN [userSockets EXCEPT ![u] = left] ELSE userSockets
     /\ cleanup' = [cleanup EXCEPT ![s].at =
          IF last THEN "publish" ELSE IF user[s] THEN "next" ELSE "done"]

Connect(s) ==
  /\ link[s] = "new"
  /\ link' = [link EXCEPT ![s] = "resolving"]
  /\ UNCHANGED <<registry, user, socketChannels, userSockets, cleanup, pending, made, history>>

(* resolveSession has answered: handleConnection registers the socket.  It *)
(* does not look whether the socket is still there.                        *)
Registered(s) ==
  /\ link[s] \in {"resolving", "dropped"}
  /\ ~user[s]
  /\ user' = [user EXCEPT ![s] = TRUE]
  /\ link' = [link EXCEPT ![s] = IF @ = "resolving" THEN "open" ELSE @]
  /\ userSockets' = [userSockets EXCEPT ![UserOf[s]] = @ \cup {s}]
  /\ SubscribeSocket(s, NewMap, {UserOf[s]})
  /\ UNCHANGED <<redisSubs, cleanup, pending, history>>

ConnectionRejected(s) ==
  /\ link[s] \in {"resolving", "dropped"}
  /\ ~user[s]
  /\ IF link[s] = "resolving" THEN Disconnected(s, "closed")
     ELSE /\ link' = [link EXCEPT ![s] = "closed"]
          /\ UNCHANGED <<userSockets, cleanup>>
  /\ UNCHANGED <<registry, user, socketChannels, pending, made, history>>

(* The client goes away, also while its session is still being resolved.   *)
ClientDisconnects(s) ==
  /\ link[s] \in {"resolving", "open"}
  /\ Disconnected(s, IF link[s] = "resolving" THEN "dropped" ELSE "closed")
  /\ UNCHANGED <<registry, user, socketChannels, pending, made, history>>

(* cleanupSocket, after the PUBLISH and after each awaited unsubscribe.    *)
(* The loop runs over the live map: entries added meanwhile are met, one   *)
(* that is met is not met again.                                           *)
CleanupPublished(s) ==
  /\ cleanup[s].at = "publish"
  /\ cleanup' = [cleanup EXCEPT ![s].at = "next"]
  /\ UNCHANGED <<registry, link, user, socketChannels, userSockets, pending, made, history>>

PublishFails(s) ==
  /\ cleanup[s].at = "publish"
  /\ failures < MaxFailures
  /\ failures' = failures + 1
  /\ cleanup' = [cleanup EXCEPT ![s].at = "done"]
  /\ UNCHANGED <<registry, link, user, socketChannels, userSockets, pending, made, late, thrown>>

ChatsToVisit(s) ==        \* seeded fault: the user's own channel is forgotten
  {c \in Chats : /\ socketChannels[s].of[c] # 0
                 /\ <<c, socketChannels[s].of[c]>> \notin cleanup[s].visited}
ToVisit(s) ==
  {c \in Channels : /\ socketChannels[s].of[c] # 0
                    /\ <<c, socketChannels[s].of[c]>> \notin cleanup[s].visited}

CleanupUnsubscribe(s) ==
  /\ cleanup[s].at = "next"
  /\ \E c \in ToVisit(s) :
       /\ UnsubscribeHandlers(s, {c}, TRUE)
       /\ cleanup' = [cleanup EXCEPT
            ![s].at = IF LastOut(handlers[c], <<s, socketChannels[s].of[c]>>) THEN "await" ELSE "next",
            ![s].visited = @ \cup {<<c, socketChannels[s].of[c]>>}]
  /\ UNCHANGED <<redisSubs, link, user, socketChannels, userSockets, pending, made, history>>

CleanupDone(s) ==
  /\ cleanup[s].at = "next"
  /\ ToVisit(s) = {}
  /\ socketChannels' = [socketChannels EXCEPT ![s] = NoMap]
  /\ cleanup' = [cleanup EXCEPT ![s] = [at |-> "done", visited |-> {}]]
  /\ UNCHANGED <<registry, link, user, userSockets, pending, made, history>>

-----------------------------------------------------------------------------
(* Messages from a client: the guard resolves the session, then the        *)
(* handler runs, wherever the socket is by then.  Without a user the guard *)
(* disconnects at once; when the session is gone it disconnects too.       *)
Arrives(s) ==
  /\ link[s] = "open"
  /\ Cardinality(pending[s]) < MaxPending
  /\ \E msg \in Message :
       msg.kind \in Kinds /\ pending' = [pending EXCEPT ![s] = @ \cup {msg}]
  /\ UNCHANGED <<registry, link, user, socketChannels, userSockets, cleanup, made, history>>

ArrivesTooEarly(s) ==
  /\ link[s] = "resolving"
  /\ Disconnected(s, "dropped")
  /\ UNCHANGED <<registry, user, socketChannels, pending, made, history>>

GuardRejects(s) ==
  /\ \E msg \in pending[s] : pending' = [pending EXCEPT ![s] = @ \ {msg}]
  /\ IF link[s] = "open" THEN Disconnected(s, "closed")
     ELSE UNCHANGED <<link, userSockets, cleanup>>
  /\ UNCHANGED <<registry, user, socketChannels, made, history>>

Guarded(s, msg) ==
  /\ msg \in pending[s]
  /\ pending' = [pending EXCEPT ![s] = @ \ {msg}]

ChatSubscribe(s) ==
  \E msg \in pending[s] :
    /\ msg.kind = "subscribe"
    /\ Guarded(s, msg)
    /\ IF socketChannels[s].known THEN SubscribeSocket(s, socketChannels[s], msg.chats)
       ELSE UNCHANGED <<made, socketChannels, handlers, wire>>
    /\ UNCHANGED <<redisSubs, link, user, userSockets, cleanup, history>>

AllAsked(s, cs) == cs         \* seeded fault: no look whether there is a handler
Subscribed(s, cs) == {c \in cs : socketChannels[s].of[c] # 0}

ChatUnsubscribe(s) ==
  \E msg \in pending[s] :
    /\ msg.kind = "unsubscribe"
    /\ Guarded(s, msg)
    /\ LET mine == Subscribed(s, msg.chats) IN
       /\ UnsubscribeHandlers(s, mine, FALSE)
       /\ socketChannels' = [socketChannels EXCEPT ![s].of =
            [c \in Channels |-> IF c \in mine THEN 0 ELSE @[c]]]
    /\ UNCHANGED <<redisSubs, link, user, userSockets, cleanup, made, history>>

-----------------------------------------------------------------------------
(* Redis answers; what awaited the answer goes on.                         *)

Mapped(c, h) == socketChannels[h[1]].known /\ socketChannels[h[1]].of[c] = h[2]
Forsaken(c, h) == ~Mapped(c, h) \/ <<c, h[2]>> \in cleanup[h[1]].visited

(* this.handlers.get(key)!.add(handler): a TypeError when the entry that   *)
(* was made for the SUBSCRIBE is gone.                                     *)
AddAnswered(entry, h) == [entry EXCEPT !.fns = @ \cup {h}]

SubscribeAnswered(c) ==
  /\ wire[c] # <<>>
  /\ LET h == Head(wire[c]).by IN
     /\ Head(wire[c]).cmd = "sub"
     /\ wire' = [wire EXCEPT ![c] = Tail(@)]
     /\ redisSubs' = redisSubs \cup {c}
     /\ IF handlers[c].known
        THEN /\ handlers' = [handlers EXCEPT ![c] = AddAnswered(@, h)]
             /\ late' = IF Forsaken(c, h) THEN late \cup {<<c, h>>} ELSE late
             /\ UNCHANGED thrown
        ELSE /\ thrown' = thrown \cup {<<c, h>>}
             /\ UNCHANGED <<handlers, late>>
  /\ UNCHANGED <<sockets, failures>>

CleanupStuck(cmd) == UNCHANGED cleanup      \* seeded fault: the loop is not resumed
ResumeCleanup(cmd) ==
  cleanup' = IF cmd.cleaning THEN [cleanup EXCEPT ![cmd.by[1]].at = "next"] ELSE cleanup

UnsubscribeAnswered(c) ==
  /\ wire[c] # <<>>
  /\ Head(wire[c]).cmd = "unsub"
  /\ wire' = [wire EXCEPT ![c] = Tail(@)]
  /\ redisSubs' = redisSubs \ {c}
  /\ ResumeCleanup(Head(wire[c]))
  /\ UNCHANGED <<handlers, link, user, socketChannels, userSockets, pending, made, history>>

(* Redis fails the command: the awaiting call ends in an exception.  A     *)
(* cleanup leaves its loop and what it had still to do undone.             *)
CommandFails(c) ==
  /\ wire[c] # <<>>
  /\ failures < MaxFailures
  /\ failures' = failures + 1
  /\ LET cmd == Head(wire[c]) IN
     /\ wire' = [wire EXCEPT ![c] = Tail(@)]
     /\ thrown' = IF cmd.cmd = "sub" THEN thrown \cup {<<c, cmd.by>>} ELSE thrown
     /\ cleanup' = IF cmd.cleaning THEN [cleanup EXCEPT ![cmd.by[1]].at = "done"] ELSE cleanup
  /\ UNCHANGED <<handlers, redisSubs, link, user, socketChannels, userSockets, pending, made, late>>

-----------------------------------------------------------------------------
Client(s) ==
  \/ Connect(s)
  \/ ClientDisconnects(s)
  \/ Arrives(s)
  \/ ArrivesTooEarly(s)

Gateway(s) ==
  \/ Registered(s)
  \/ ConnectionRejected(s)
  \/ CleanupPublished(s)
  \/ CleanupUnsubscribe(s)
  \/ CleanupDone(s)
  \/ GuardRejects(s)
  \/ ChatSubscribe(s)
  \/ ChatUnsubscribe(s)

Redis(c) ==
  \/ SubscribeAnswered(c)
  \/ UnsubscribeAnswered(c)
  \/ CommandFails(c)

Next ==
  \/ \E s \in Sockets : Client(s) \/ Gateway(s) \/ PublishFails(s)
  \/ \E c \in Channels : Redis(c)

Spec == Init /\ [][Next]_vars

(* What the event loop and Redis owe: a promise that can settle does, and  *)
(* its continuation runs.  Clients owe nothing.                            *)
FairSpec ==
  /\ Spec
  /\ \A s \in Sockets : WF_vars(Gateway(s))
  /\ \A c \in Channels : WF_vars(Redis(c))

-----------------------------------------------------------------------------
(* Properties.                                                             *)

Awaiting(c, h) == \E i \in DOMAIN wire[c] : wire[c][i] = Sub(h)
WillListen(c) ==
  IF wire[c] = <<>> THEN c \in redisSubs ELSE wire[c][Len(wire[c])].cmd = "sub"

(* What the process believes and what Redis will do once it has answered   *)
(* agree: a channel has an entry exactly if it ends up subscribed, and an  *)
(* entry without a handler is one whose SUBSCRIBE is still unanswered.     *)
HandlersMatchRedis ==
  failures = 0 =>
    \A c \in Channels :
      /\ handlers[c].known <=> WillListen(c)
      /\ handlers[c].known /\ handlers[c].fns = {} =>
           \E h \in Handlers : Awaiting(c, h)

(* A socket that believes to be subscribed to a channel has its handler    *)
(* registered, or will have when Redis answers.  No unsubscription of      *)
(* another socket takes it away; only a subscribe that ended in an         *)
(* exception leaves the socket deaf.                                       *)
MappedIsRegistered ==
  \A s \in Sockets, c \in Channels :
    LET h == <<s, socketChannels[s].of[c]>> IN
    socketChannels[s].of[c] # 0 /\ cleanup[s].at = "none" =>
      h \in handlers[c].fns \/ Awaiting(c, h) \/ <<c, h>> \in thrown

(* A socket that was closed after it was registered is forgotten by the    *)
(* presence set, by socketChannels and by the handlers when its cleanup is *)
(* over.  A handler survives only where Redis answered its SUBSCRIBE after *)
(* the unsubscription.                                                     *)
ClosedSocketForgotten ==
  failures = 0 =>
    \A s \in Sockets : link[s] = "closed" /\ cleanup[s].at = "done" =>
      /\ s \notin userSockets[UserOf[s]]
      /\ ~socketChannels[s].known
      /\ \A c \in Channels, n \in Numbers :
           <<s, n>> \in handlers[c].fns => <<c, <<s, n>>>> \in late

(* A subscription settles: in the end its messages reach the socket, or it *)
(* ended in an exception, or it was given up (unless Redis fails commands). *)
Reached(s, c) ==
  c \in redisSubs /\ <<s, socketChannels[s].of[c]>> \in handlers[c].fns

SubscriptionSettles ==
  \A s \in Sockets, c \in Channels, n \in Numbers :
    socketChannels[s].of[c] = n ~>
      \/ Reached(s, c)
      \/ <<c, <<s, n>>>> \in thrown
      \/ socketChannels[s].of[c] # n
      \/ cleanup[s].at # "none"
      \/ failures > 0

(* The cleanup of a closed socket comes to its end.                        *)
CleanupEnds ==
  \A s \in Sockets : cleanup[s].at # "none" ~> cleanup[s].at = "done"

-----------------------------------------------------------------------------
(* The inductive invariant the proofs rest on.  What a socket has of the   *)
(* gateway follows its connection: its user is set once its session is     *)
(* resolved, its map of channels exists from then on, and its cleanup runs *)
(* only when it was closed after that, to the end of the map.              *)
Lifecycle ==
  \A s \in Sockets :
    /\ link[s] \in {"new", "resolving"} => ~user[s] /\ cleanup[s].at = "none"
    /\ link[s] = "open" => user[s] /\ cleanup[s].at = "none"
    /\ link[s] = "dropped" => cleanup[s].at = "done"
    /\ link[s] = "closed" => cleanup[s].at # "none"
    /\ cleanup[s].at \in {"publish", "next", "await"} => user[s]
    /\ socketChannels[s].known => user[s]
    /\ link[s] = "closed" /\ cleanup[s].at = "done" /\ failures = 0 => ~socketChannels[s].known

Presence ==
  \A s \in Sockets, u \in Users :
    s \in userSockets[u] => u = UserOf[s] /\ user[s] /\ link[s] # "closed"

(* Whose cleanup awaits an UNSUBSCRIBE was closed.                         *)
CleaningIsClosed ==
  \A c \in Channels : \A i \in DOMAIN wire[c] :
    LET s == wire[c][i].by[1] IN wire[c][i].cleaning => user[s] /\ link[s] = "closed"

(* Closures are numbered as they are made.                                 *)
Numbered ==
  \A s \in Sockets, c \in Channels :
    /\ socketChannels[s].of[c] <= made[s][c]
    /\ \A n \in Numbers : <<c, n>> \in cleanup[s].visited => n <= made[s][c]

(* A registered handler is the one its socket's map names and its cleanup  *)
(* has not met yet, or one whose SUBSCRIBE was answered too late.          *)
HandlersOwned ==
  \A c \in Channels :
    /\ ~handlers[c].known => handlers[c].fns = {}
    /\ \A s \in Sockets, n \in Numbers : <<s, n>> \in handlers[c].fns =>
         \/ <<c, <<s, n>>>> \in late
         \/ /\ socketChannels[s].known /\ socketChannels[s].of[c] = n
            /\ <<c, n>> \notin cleanup[s].visited

GatewayInv ==
  TypeOK /\ Lifecycle /\ Presence /\ CleaningIsClosed /\ Numbered /\ HandlersOwned
=============================================================================
