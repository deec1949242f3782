------------------------ MODULE MessagingGatewayProofs ------------------------
(* Proofs about MessagingGateway, for every value of its constants.        *)
EXTENDS MessagingGateway, TLAPS

-----------------------------------------------------------------------------
(* Sequences of commands.                                                  *)
LEMMA AppendFacts ==
  ASSUME NEW S, NEW q \in Seq(S), NEW e \in S
  PROVE  /\ Append(q, e) \in Seq(S)
         /\ Append(q, e) # <<>>
         /\ Append(q, e)[Len(Append(q, e))] = e
         /\ \A i \in DOMAIN q : i \in DOMAIN Append(q, e) /\ Append(q, e)[i] = q[i]
         /\ \A i \in DOMAIN Append(q, e) : i \in DOMAIN q \/ Append(q, e)[i] = e
OBVIOUS

LEMMA TailFacts ==
  ASSUME NEW S, NEW q \in Seq(S), q # <<>>
  PROVE  /\ Tail(q) \in Seq(S)
         /\ Head(q) \in S
         /\ Head(q) = q[1] /\ 1 \in DOMAIN q
         /\ \A i \in DOMAIN Tail(q) : i + 1 \in DOMAIN q /\ Tail(q)[i] = q[i + 1]
         /\ \A i \in DOMAIN q : i = 1 \/ (i - 1 \in DOMAIN Tail(q) /\ Tail(q)[i - 1] = q[i])
         /\ Tail(q) = <<>> => q[Len(q)] = Head(q)
         /\ Tail(q) # <<>> => Tail(q)[Len(Tail(q))] = q[Len(q)]
OBVIOUS

-----------------------------------------------------------------------------
(* What a stretch of the gateway's code does to the entry and the commands *)
(* of one channel: the first handler opens the entry and sends SUBSCRIBE,  *)
(* another one joins, one leaves an entry others are in, and the last one  *)
(* closes the entry and sends UNSUBSCRIBE.                                 *)
Entry == [known : BOOLEAN, fns : SUBSET Handlers]
MapOf == [known : BOOLEAN, of : [Channels -> 0..MaxSubs]]

Kept(c) == handlers'[c] = handlers[c] /\ wire'[c] = wire[c]
Opens(c, h) ==
  /\ ~handlers[c].known
  /\ handlers'[c] = [known |-> TRUE, fns |-> {}]
  /\ wire'[c] = Append(wire[c], Sub(h))
Joins(c, h) ==
  /\ handlers[c].known
  /\ handlers'[c] = [known |-> TRUE, fns |-> handlers[c].fns \cup {h}]
  /\ wire'[c] = wire[c]
Parts(c, h) ==
  /\ handlers[c].known /\ handlers[c].fns \ {h} # {}
  /\ handlers'[c] = [known |-> TRUE, fns |-> handlers[c].fns \ {h}]
  /\ wire'[c] = wire[c]
Closes(c, h, cleaning) ==
  /\ handlers[c].known /\ handlers[c].fns \ {h} = {}
  /\ handlers'[c] = Absent
  /\ wire'[c] = Append(wire[c], Unsub(h, cleaning))

Enters(c, h) == Opens(c, h) \/ Joins(c, h)
Quits(c, h, cleaning) ==
  Parts(c, h) \/ Closes(c, h, cleaning) \/ (~handlers[c].known /\ Kept(c))

LEMMA CommandShapes ==
  ASSUME NEW h \in Handlers, NEW cleaning \in BOOLEAN
  PROVE  /\ Sub(h) \in Command /\ Sub(h).cmd = "sub" /\ ~Sub(h).cleaning
         /\ Unsub(h, cleaning) \in Command /\ Unsub(h, cleaning).cmd = "unsub"
         /\ Unsub(h, cleaning).by = h /\ Unsub(h, cleaning).cleaning = cleaning
         /\ Sub(h).by = h
BY DEF Sub, Unsub, Command

LEMMA EntryShapes ==
  ASSUME NEW entry \in Entry, NEW h \in Handlers
  PROVE  /\ Joined(entry, h) = IF entry.known
                               THEN [known |-> TRUE, fns |-> entry.fns \cup {h}]
                               ELSE [known |-> TRUE, fns |-> {}]
         /\ entry.known => Parted(entry, h) = IF entry.fns \ {h} = {} THEN Absent
                                              ELSE [known |-> TRUE, fns |-> entry.fns \ {h}]
         /\ AddAnswered(entry, h) = [known |-> entry.known, fns |-> entry.fns \cup {h}]
<1>1. \A fns : [entry EXCEPT !.fns = fns] = [known |-> entry.known, fns |-> fns]
  BY DEF Entry
<1>2. entry.known \in BOOLEAN
  BY DEF Entry
<1>3. Joined(entry, h) = IF entry.known
                         THEN [known |-> TRUE, fns |-> entry.fns \cup {h}]
                         ELSE [known |-> TRUE, fns |-> {}]
  BY <1>1, <1>2 DEF Joined
<1>4. entry.known => Parted(entry, h) = IF entry.fns \ {h} = {} THEN Absent
                                        ELSE [known |-> TRUE, fns |-> entry.fns \ {h}]
  BY <1>1, <1>2 DEF Parted
<1>5. AddAnswered(entry, h) = [known |-> entry.known, fns |-> entry.fns \cup {h}]
  BY <1>1 DEF AddAnswered
<1>. QED
  BY <1>3, <1>4, <1>5

LEMMA EntryTypes ==
  /\ Absent \in Entry
  /\ [known |-> TRUE, fns |-> {}] \in Entry
  /\ \A entry \in Entry, h \in Handlers :
       /\ [known |-> TRUE, fns |-> entry.fns \cup {h}] \in Entry
       /\ [known |-> TRUE, fns |-> entry.fns \ {h}] \in Entry
       /\ [known |-> entry.known, fns |-> entry.fns \cup {h}] \in Entry
BY DEF Entry, Absent

(* An entry and the commands of its channel keep their types.              *)
LEMMA ChannelTyped ==
  ASSUME TypeOK, NEW c \in Channels,
         \/ Kept(c)
         \/ \E h \in Handlers : Enters(c, h)
         \/ \E h \in Handlers, cleaning \in BOOLEAN : Quits(c, h, cleaning)
  PROVE  handlers'[c] \in Entry /\ wire'[c] \in Seq(Command)
<1>0. handlers[c] \in Entry /\ wire[c] \in Seq(Command)
  BY DEF TypeOK, Entry
<1>1. CASE Kept(c)
  BY <1>0, <1>1 DEF Kept
<1>2. ASSUME NEW h \in Handlers, Enters(c, h)
      PROVE  handlers'[c] \in Entry /\ wire'[c] \in Seq(Command)
  <2>1. Append(wire[c], Sub(h)) \in Seq(Command)
    BY <1>0, CommandShapes, AppendFacts
  <2>2. wire'[c] \in Seq(Command)
    BY <1>0, <1>2, <2>1 DEF Enters, Opens, Joins
  <2>3. handlers'[c] \in Entry
    BY <1>0, <1>2, EntryTypes DEF Enters, Opens, Joins
  <2>. QED
    BY <2>2, <2>3
<1>3. ASSUME NEW h \in Handlers, NEW cleaning \in BOOLEAN, Quits(c, h, cleaning)
      PROVE  handlers'[c] \in Entry /\ wire'[c] \in Seq(Command)
  <2>1. Append(wire[c], Unsub(h, cleaning)) \in Seq(Command)
    BY <1>0, CommandShapes, AppendFacts
  <2>2. wire'[c] \in Seq(Command)
    BY <1>0, <1>3, <2>1 DEF Quits, Parts, Closes, Kept
  <2>3. handlers'[c] \in Entry
    BY <1>0, <1>3, EntryTypes DEF Quits, Parts, Closes, Kept
  <2>. QED
    BY <2>2, <2>3
<1>. QED
  BY <1>1, <1>2, <1>3

(* subscribeSocketToChannel makes one closure for every channel the socket *)
(* is not in, names it in the socket's map and enters it.                  *)
LEMMA SubscribeFacts ==
  ASSUME TypeOK, NEW s \in Sockets, NEW chans \in MapOf, NEW cs \in SUBSET Channels,
         SubscribeSocket(s, chans, cs)
  PROVE  /\ handlers' \in [Channels -> Entry] /\ wire' \in [Channels -> Seq(Command)]
         /\ made' \in [Sockets -> [Channels -> 0..MaxSubs]]
         /\ socketChannels' \in [Sockets -> MapOf]
         /\ \A x \in Sockets \ {s} :
              made'[x] = made[x] /\ socketChannels'[x] = socketChannels[x]
         /\ socketChannels'[s].known = chans.known
         /\ \A c \in Channels :
              IF c \in cs /\ chans.of[c] = 0
              THEN /\ made[s][c] + 1 \in Numbers /\ <<s, made[s][c] + 1>> \in Handlers
                   /\ Enters(c, <<s, made[s][c] + 1>>)
                   /\ made'[s][c] = made[s][c] + 1
                   /\ socketChannels'[s].of[c] = made[s][c] + 1
              ELSE /\ Kept(c)
                   /\ made'[s][c] = made[s][c]
                   /\ socketChannels'[s].of[c] = chans.of[c]
<1>. DEFINE fresh == {c \in cs : chans.of[c] = 0}
            h(c) == <<s, made[s][c] + 1>>
<1>0. /\ MaxSubs \in Nat
      /\ made[s] \in [Channels -> 0..MaxSubs] /\ chans.of \in [Channels -> 0..MaxSubs]
      /\ fresh \subseteq Channels
  BY GatewayConstants DEF TypeOK, MapOf
<1>1. /\ \A c \in fresh : made[s][c] < MaxSubs
      /\ made' = [made EXCEPT ![s] =
                    [c \in Channels |-> IF c \in fresh THEN made[s][c] + 1 ELSE made[s][c]]]
      /\ socketChannels' = [socketChannels EXCEPT ![s] =
           [chans EXCEPT !.of =
              [c \in Channels |-> IF c \in fresh THEN made[s][c] + 1 ELSE chans.of[c]]]]
      /\ handlers' = [c \in Channels |->
           IF c \in fresh THEN Joined(handlers[c], h(c)) ELSE handlers[c]]
      /\ wire' = [c \in Channels |->
           IF c \in fresh /\ ~handlers[c].known THEN Append(wire[c], Sub(h(c))) ELSE wire[c]]
  BY DEF SubscribeSocket, TypeOK
<1>2. \A c \in fresh : made[s][c] + 1 \in Numbers /\ h(c) \in Handlers
  BY <1>0, <1>1 DEF Numbers, Handlers
<1>3. /\ made' \in [Sockets -> [Channels -> 0..MaxSubs]]
      /\ \A x \in Sockets \ {s} : made'[x] = made[x]
      /\ \A c \in Channels : made'[s][c] = IF c \in fresh THEN made[s][c] + 1 ELSE made[s][c]
  <2>1. [c \in Channels |-> IF c \in fresh THEN made[s][c] + 1 ELSE made[s][c]]
          \in [Channels -> 0..MaxSubs]
    BY <1>0, <1>1
  <2>. QED
    BY <1>1, <2>1 DEF TypeOK
<1>4. /\ socketChannels' \in [Sockets -> MapOf]
      /\ \A x \in Sockets \ {s} : socketChannels'[x] = socketChannels[x]
      /\ socketChannels'[s].known = chans.known
      /\ \A c \in Channels :
           socketChannels'[s].of[c] = IF c \in fresh THEN made[s][c] + 1 ELSE chans.of[c]
  <2>. DEFINE of == [c \in Channels |-> IF c \in fresh THEN made[s][c] + 1 ELSE chans.of[c]]
  <2>1. of \in [Channels -> 0..MaxSubs]
    BY <1>0, <1>1
  <2>2. socketChannels' = [socketChannels EXCEPT ![s] = [chans EXCEPT !.of = of]]
    BY <1>1
  <2>3. \A c \in Channels : of[c] = IF c \in fresh THEN made[s][c] + 1 ELSE chans.of[c]
    OBVIOUS
  <2>. HIDE DEF of, fresh
  <2>4. /\ [chans EXCEPT !.of = of] \in MapOf
        /\ [chans EXCEPT !.of = of].known = chans.known
        /\ [chans EXCEPT !.of = of].of = of
    BY <2>1 DEF MapOf
  <2>5. /\ socketChannels' \in [Sockets -> MapOf]
        /\ \A x \in Sockets \ {s} : socketChannels'[x] = socketChannels[x]
        /\ socketChannels'[s] = [chans EXCEPT !.of = of]
    BY <2>2, <2>4 DEF TypeOK, MapOf
  <2>. QED
    BY <2>3, <2>4, <2>5
<1>5. ASSUME NEW c \in Channels
      PROVE  IF c \in fresh THEN Enters(c, h(c)) ELSE Kept(c)
  <2>1. CASE c \in fresh
    <3>1. handlers[c] \in Entry
      BY DEF TypeOK, Entry
    <3>2. /\ handlers'[c] = Joined(handlers[c], h(c))
          /\ wire'[c] = IF ~handlers[c].known THEN Append(wire[c], Sub(h(c))) ELSE wire[c]
      BY <1>1, <2>1
    <3>. QED
      BY <1>2, <2>1, <3>1, <3>2, EntryShapes DEF Enters, Opens, Joins
  <2>2. CASE c \notin fresh
    BY <1>1, <2>2 DEF Kept
  <2>. QED
    BY <2>1, <2>2
<1>6. handlers' \in [Channels -> Entry] /\ wire' \in [Channels -> Seq(Command)]
  <2>1. \A c \in Channels : handlers'[c] \in Entry /\ wire'[c] \in Seq(Command)
    BY <1>2, <1>5, ChannelTyped
  <2>. QED
    BY <1>1, <2>1
<1>. QED
  BY <1>2, <1>3, <1>4, <1>5, <1>6

(* pubSub.unsubscribe takes the socket's closure out of every channel that *)
(* has an entry.                                                           *)
LEMMA UnsubscribeFacts ==
  ASSUME TypeOK, NEW s \in Sockets, NEW cs \in SUBSET Channels, NEW cleaning \in BOOLEAN,
         \A c \in cs : socketChannels[s].of[c] # 0, UnsubscribeHandlers(s, cs, cleaning)
  PROVE  /\ handlers' \in [Channels -> Entry] /\ wire' \in [Channels -> Seq(Command)]
         /\ \A c \in Channels :
              IF c \in cs
              THEN /\ <<s, socketChannels[s].of[c]>> \in Handlers
                   /\ socketChannels[s].of[c] \in Numbers
                   /\ Quits(c, <<s, socketChannels[s].of[c]>>, cleaning)
              ELSE Kept(c)
<1>. DEFINE h(c) == <<s, socketChannels[s].of[c]>>
<1>1. /\ handlers' = [c \in Channels |->
           IF c \in cs /\ handlers[c].known THEN Parted(handlers[c], h(c)) ELSE handlers[c]]
      /\ wire' = [c \in Channels |->
           IF c \in cs /\ LastOut(handlers[c], h(c))
           THEN Append(wire[c], Unsub(h(c), cleaning)) ELSE wire[c]]
  BY DEF UnsubscribeHandlers
<1>2. \A c \in cs : socketChannels[s].of[c] \in Numbers /\ h(c) \in Handlers
  <2>1. \A c \in cs : socketChannels[s].of[c] \in 0..MaxSubs
    BY DEF TypeOK
  <2>. QED
    BY <2>1, GatewayConstants DEF Numbers, Handlers
<1>3. ASSUME NEW c \in Channels
      PROVE  IF c \in cs THEN Quits(c, h(c), cleaning) ELSE Kept(c)
  <2>1. CASE c \in cs
    <3>1. handlers[c] \in Entry
      BY DEF TypeOK, Entry
    <3>2. /\ handlers'[c] = IF handlers[c].known THEN Parted(handlers[c], h(c)) ELSE handlers[c]
          /\ wire'[c] = IF LastOut(handlers[c], h(c))
                        THEN Append(wire[c], Unsub(h(c), cleaning)) ELSE wire[c]
      BY <1>1, <2>1
    <3>. QED
      BY <1>2, <2>1, <3>1, <3>2, EntryShapes DEF Quits, Parts, Closes, Kept, LastOut
  <2>2. CASE c \notin cs
    BY <1>1, <2>2 DEF Kept
  <2>. QED
    BY <2>1, <2>2
<1>4. handlers' \in [Channels -> Entry] /\ wire' \in [Channels -> Seq(Command)]
  <2>1. \A c \in Channels : handlers'[c] \in Entry /\ wire'[c] \in Seq(Command)
    BY <1>2, <1>3, ChannelTyped
  <2>. QED
    BY <1>1, <2>1
<1>. QED
  BY <1>2, <1>3, <1>4

LEMMA UnsubscribeQuits ==
  ASSUME TypeOK, NEW s \in Sockets, NEW cs \in SUBSET Channels, NEW cleaning \in BOOLEAN,
         \A c \in cs : socketChannels[s].of[c] # 0, UnsubscribeHandlers(s, cs, cleaning)
  PROVE  /\ \A c \in cs : /\ <<s, socketChannels[s].of[c]>> \in Handlers
                          /\ Quits(c, <<s, socketChannels[s].of[c]>>, cleaning)
         /\ \A c \in Channels \ cs : Kept(c)
<1>1. \A c \in Channels :
        IF c \in cs
        THEN /\ <<s, socketChannels[s].of[c]>> \in Handlers
             /\ socketChannels[s].of[c] \in Numbers
             /\ Quits(c, <<s, socketChannels[s].of[c]>>, cleaning)
        ELSE Kept(c)
  BY UnsubscribeFacts
<1>. QED
  BY <1>1

-----------------------------------------------------------------------------
(* Typing.                                                                 *)
Ats == {"none", "publish", "next", "await", "done"}
CleanupOf == [at : Ats, visited : SUBSET (Channels \X Numbers)]

LEMMA CleanupTypes ==
  ASSUME NEW entry \in CleanupOf, NEW at \in Ats
  PROVE  /\ [entry EXCEPT !.at = at] \in CleanupOf
         /\ [entry EXCEPT !.at = at].at = at
         /\ [entry EXCEPT !.at = at].visited = entry.visited
BY DEF CleanupOf

LEMMA AtStep ==
  ASSUME TypeOK, NEW s \in Sockets, NEW at \in Ats,
         cleanup' = [cleanup EXCEPT ![s].at = at]
  PROVE  /\ cleanup' \in [Sockets -> CleanupOf]
         /\ cleanup'[s].at = at /\ cleanup'[s].visited = cleanup[s].visited
         /\ \A x \in Sockets \ {s} : cleanup'[x] = cleanup[x]
<1>1. cleanup \in [Sockets -> CleanupOf]
  BY DEF TypeOK, CleanupOf, Ats
<1>2. cleanup' = [cleanup EXCEPT ![s] = [cleanup[s] EXCEPT !.at = at]]
  BY <1>1
<1>. QED
  BY <1>1, <1>2, CleanupTypes

LEMMA UserHasChannel ==
  ASSUME NEW s \in Sockets
  PROVE  UserOf[s] \in Users /\ UserOf[s] \in Channels
BY GatewayConstants DEF Channels

(* The end of a connection, registered or not.                             *)
LEMMA DisconnectFacts ==
  ASSUME TypeOK, NEW s \in Sockets, NEW how \in {"dropped", "closed"}, Disconnected(s, how)
  PROVE  /\ link' \in [Sockets -> {"new", "resolving", "open", "dropped", "closed"}]
         /\ userSockets' \in [Users -> SUBSET Sockets]
         /\ cleanup' \in [Sockets -> CleanupOf]
         /\ link'[s] = how /\ \A x \in Sockets \ {s} : link'[x] = link[x]
         /\ cleanup'[s].at \in IF user[s] THEN {"publish", "next"} ELSE {"done"}
         /\ cleanup'[s].visited = cleanup[s].visited
         /\ \A x \in Sockets \ {s} : cleanup'[x] = cleanup[x]
         /\ \A u \in Users : userSockets'[u] \subseteq userSockets[u]
         /\ user[s] => s \notin userSockets'[UserOf[s]]
<1>. DEFINE u == UserOf[s]
            at == IF user[s] /\ userSockets[u] # {} /\ userSockets[u] \ {s} = {} THEN "publish"
                  ELSE IF user[s] THEN "next" ELSE "done"
<1>1. /\ link' = [link EXCEPT ![s] = how]
      /\ userSockets' = IF user[s] THEN [userSockets EXCEPT ![u] = userSockets[u] \ {s}]
                        ELSE userSockets
      /\ cleanup' = [cleanup EXCEPT ![s].at = at]
  BY UserHasChannel DEF Disconnected, TypeOK
<1>2. at \in Ats /\ at \in IF user[s] THEN {"publish", "next"} ELSE {"done"}
  BY DEF Ats
<1>3. /\ userSockets' \in [Users -> SUBSET Sockets]
      /\ \A v \in Users : userSockets'[v] \subseteq userSockets[v]
      /\ user[s] => s \notin userSockets'[u]
  BY <1>1, UserHasChannel DEF TypeOK
<1>4. /\ link' \in [Sockets -> {"new", "resolving", "open", "dropped", "closed"}]
      /\ link'[s] = how /\ \A x \in Sockets \ {s} : link'[x] = link[x]
  BY <1>1 DEF TypeOK
<1>. HIDE DEF at
<1>5. /\ cleanup' \in [Sockets -> CleanupOf]
      /\ cleanup'[s].at = at /\ cleanup'[s].visited = cleanup[s].visited
      /\ \A x \in Sockets \ {s} : cleanup'[x] = cleanup[x]
  BY <1>1, <1>2, AtStep
<1>. QED
  BY <1>2, <1>3, <1>4, <1>5

LEMMA NewMapTyped == NewMap \in MapOf /\ NoMap \in MapOf
BY GatewayConstants DEF NewMap, NoMap, MapOf

LEMMA ClientTyped ==
  ASSUME TypeOK, NEW s \in Sockets, Client(s)
  PROVE  TypeOK'
<1>1. CASE Connect(s)
  BY <1>1 DEF Connect, TypeOK, registry, history
<1>2. CASE ClientDisconnects(s) \/ ArrivesTooEarly(s)
  <2>1. PICK how \in {"dropped", "closed"} : Disconnected(s, how)
    BY <1>2 DEF ClientDisconnects, ArrivesTooEarly
  <2>2. UNCHANGED <<registry, user, socketChannels, pending, made, history>>
    BY <1>2 DEF ClientDisconnects, ArrivesTooEarly
  <2>. QED
    BY <2>1, <2>2, DisconnectFacts DEF TypeOK, registry, history, CleanupOf, Ats
<1>3. CASE Arrives(s)
  BY <1>3 DEF Arrives, TypeOK, registry, history
<1>. QED
  BY <1>1, <1>2, <1>3 DEF Client

LEMMA RegisteredFacts ==
  ASSUME TypeOK, NEW s \in Sockets, Registered(s)
  PROVE  /\ ~user[s] /\ link[s] \in {"resolving", "dropped"}
         /\ user' = [user EXCEPT ![s] = TRUE]
         /\ link' = [link EXCEPT ![s] = IF @ = "resolving" THEN "open" ELSE @]
         /\ userSockets' = [userSockets EXCEPT ![UserOf[s]] = userSockets[UserOf[s]] \cup {s}]
         /\ NewMap \in MapOf /\ {UserOf[s]} \in SUBSET Channels
         /\ SubscribeSocket(s, NewMap, {UserOf[s]})
         /\ UNCHANGED <<redisSubs, cleanup, pending, late, thrown, failures>>
BY UserHasChannel, NewMapTyped DEF Registered, history, TypeOK

LEMMA VisitFacts ==
  ASSUME TypeOK, NEW s \in Sockets, CleanupUnsubscribe(s)
  PROVE  \E c \in Channels :
           /\ cleanup[s].at = "next"
           /\ socketChannels[s].of[c] # 0 /\ socketChannels[s].of[c] \in Numbers
           /\ <<c, socketChannels[s].of[c]>> \notin cleanup[s].visited
           /\ UnsubscribeHandlers(s, {c}, TRUE)
           /\ cleanup' \in [Sockets -> CleanupOf]
           /\ cleanup'[s].at \in {"await", "next"}
           /\ cleanup'[s].visited = cleanup[s].visited \cup {<<c, socketChannels[s].of[c]>>}
           /\ \A x \in Sockets \ {s} : cleanup'[x] = cleanup[x]
<1>1. PICK c \in ToVisit(s) :
        /\ UnsubscribeHandlers(s, {c}, TRUE)
        /\ cleanup' = [cleanup EXCEPT
             ![s].at = IF LastOut(handlers[c], <<s, socketChannels[s].of[c]>>) THEN "await" ELSE "next",
             ![s].visited = @ \cup {<<c, socketChannels[s].of[c]>>}]
  BY DEF CleanupUnsubscribe
<1>. DEFINE at == IF LastOut(handlers[c], <<s, socketChannels[s].of[c]>>) THEN "await" ELSE "next"
            n == socketChannels[s].of[c]
<1>2. c \in Channels /\ n # 0 /\ <<c, n>> \notin cleanup[s].visited /\ n \in Numbers
  <2>1. c \in Channels /\ n # 0 /\ <<c, n>> \notin cleanup[s].visited
    BY DEF ToVisit
  <2>2. n \in 0..MaxSubs
    BY <2>1 DEF TypeOK
  <2>. QED
    BY <2>1, <2>2, GatewayConstants DEF Numbers
<1>3. cleanup \in [Sockets -> CleanupOf]
  BY DEF TypeOK, CleanupOf, Ats
<1>4. at \in {"await", "next"}
  OBVIOUS
<1>5. cleanup' = [cleanup EXCEPT ![s] = [at |-> at, visited |-> cleanup[s].visited \cup {<<c, n>>}]]
  <2>1. [[cleanup[s] EXCEPT !.at = at] EXCEPT !.visited = cleanup[s].visited \cup {<<c, n>>}]
          = [at |-> at, visited |-> cleanup[s].visited \cup {<<c, n>>}]
    <3>1. [cleanup[s] EXCEPT !.at = at] = [at |-> at, visited |-> cleanup[s].visited]
      BY <1>3 DEF CleanupOf
    <3>. HIDE DEF at, n
    <3>2. \A V : [[at |-> at, visited |-> cleanup[s].visited] EXCEPT !.visited = V]
                 = [at |-> at, visited |-> V]
      OBVIOUS
    <3>. QED
      BY <3>1, <3>2
  <2>. QED
    BY <1>1, <1>3, <2>1
<1>. HIDE DEF at, n
<1>6. [at |-> at, visited |-> cleanup[s].visited \cup {<<c, n>>}] \in CleanupOf
  BY <1>2, <1>3, <1>4 DEF CleanupOf, Ats
<1>7. /\ cleanup' \in [Sockets -> CleanupOf]
      /\ cleanup'[s].at = at
      /\ cleanup'[s].visited = cleanup[s].visited \cup {<<c, n>>}
      /\ \A x \in Sockets \ {s} : cleanup'[x] = cleanup[x]
  BY <1>3, <1>5, <1>6
<1>8. cleanup[s].at = "next"
  BY DEF CleanupUnsubscribe
<1>. QED
  BY <1>1, <1>2, <1>4, <1>7, <1>8 DEF n

LEMMA UnmapFacts ==
  ASSUME TypeOK, NEW s \in Sockets, NEW mine \in SUBSET Channels,
         socketChannels' = [socketChannels EXCEPT ![s].of =
            [c \in Channels |-> IF c \in mine THEN 0 ELSE @[c]]]
  PROVE  /\ socketChannels' \in [Sockets -> MapOf]
         /\ socketChannels'[s].known = socketChannels[s].known
         /\ \A c \in Channels :
              socketChannels'[s].of[c] = IF c \in mine THEN 0 ELSE socketChannels[s].of[c]
         /\ \A x \in Sockets \ {s} : socketChannels'[x] = socketChannels[x]
<1>. DEFINE of == [c \in Channels |-> IF c \in mine THEN 0 ELSE socketChannels[s].of[c]]
<1>1. socketChannels \in [Sockets -> MapOf]
  BY DEF TypeOK, MapOf
<1>2. of \in [Channels -> 0..MaxSubs]
  BY <1>1, GatewayConstants DEF MapOf
<1>3. socketChannels' = [socketChannels EXCEPT ![s] = [socketChannels[s] EXCEPT !.of = of]]
  BY <1>1
<1>4. \A c \in Channels : of[c] = IF c \in mine THEN 0 ELSE socketChannels[s].of[c]
  OBVIOUS
<1>. HIDE DEF of
<1>5. /\ [socketChannels[s] EXCEPT !.of = of] \in MapOf
      /\ [socketChannels[s] EXCEPT !.of = of].known = socketChannels[s].known
      /\ [socketChannels[s] EXCEPT !.of = of].of = of
  BY <1>1, <1>2 DEF MapOf
<1>. QED
  BY <1>1, <1>3, <1>4, <1>5

(* The two messages of a client, once their guard has let them pass.       *)
LEMMA ChatSubscribeFacts ==
  ASSUME TypeOK, NEW s \in Sockets, ChatSubscribe(s)
  PROVE  /\ pending' \in [Sockets -> SUBSET Message]
         /\ UNCHANGED <<redisSubs, link, user, userSockets, cleanup, late, thrown, failures>>
         /\ socketChannels[s] \in MapOf
         /\ \/ /\ socketChannels[s].known
               /\ \E cs \in SUBSET Channels : SubscribeSocket(s, socketChannels[s], cs)
            \/ UNCHANGED <<made, socketChannels, handlers, wire>>
<1>1. PICK msg \in pending[s] :
        /\ Guarded(s, msg)
        /\ IF socketChannels[s].known THEN SubscribeSocket(s, socketChannels[s], msg.chats)
           ELSE UNCHANGED <<made, socketChannels, handlers, wire>>
  BY DEF ChatSubscribe
<1>2. pending' \in [Sockets -> SUBSET Message]
  BY <1>1 DEF Guarded, TypeOK
<1>3. msg.chats \in SUBSET Channels /\ socketChannels[s] \in MapOf
  <2>1. msg \in Message
    BY <1>1 DEF TypeOK
  <2>2. socketChannels[s] \in MapOf
    BY DEF TypeOK, MapOf
  <2>. QED
    BY <2>1, <2>2 DEF Message, Channels
<1>. QED
  BY <1>1, <1>2, <1>3 DEF ChatSubscribe, history

LEMMA ChatUnsubscribeFacts ==
  ASSUME TypeOK, NEW s \in Sockets, ChatUnsubscribe(s)
  PROVE  /\ pending' \in [Sockets -> SUBSET Message]
         /\ UNCHANGED <<redisSubs, link, user, userSockets, cleanup, made, late, thrown, failures>>
         /\ \E mine \in SUBSET Channels :
              /\ \A c \in mine : socketChannels[s].of[c] # 0
              /\ UnsubscribeHandlers(s, mine, FALSE)
              /\ socketChannels' = [socketChannels EXCEPT ![s].of =
                   [c \in Channels |-> IF c \in mine THEN 0 ELSE @[c]]]
<1>1. PICK msg \in pending[s] :
        /\ Guarded(s, msg)
        /\ UnsubscribeHandlers(s, Subscribed(s, msg.chats), FALSE)
        /\ socketChannels' = [socketChannels EXCEPT ![s].of =
             [c \in Channels |-> IF c \in Subscribed(s, msg.chats) THEN 0 ELSE @[c]]]
  BY DEF ChatUnsubscribe
<1>2. pending' \in [Sockets -> SUBSET Message]
  BY <1>1 DEF Guarded, TypeOK
<1>3. /\ Subscribed(s, msg.chats) \in SUBSET Channels
      /\ \A c \in Subscribed(s, msg.chats) : socketChannels[s].of[c] # 0
  BY DEF TypeOK, Message, Channels, Subscribed
<1>. QED
  BY <1>1, <1>2, <1>3 DEF ChatUnsubscribe, history

LEMMA ChatKeepsMap ==
  ASSUME TypeOK, NEW s \in Sockets, ChatSubscribe(s) \/ ChatUnsubscribe(s)
  PROVE  /\ \A x \in Sockets \ {s} : socketChannels'[x] = socketChannels[x]
         /\ socketChannels'[s].known = socketChannels[s].known
<1>1. CASE ChatSubscribe(s)
  BY <1>1, ChatSubscribeFacts, SubscribeFacts
<1>2. CASE ChatUnsubscribe(s)
  BY <1>2, ChatUnsubscribeFacts, UnmapFacts
<1>. QED
  BY <1>1, <1>2

LEMMA GatewayTyped ==
  ASSUME TypeOK, NEW s \in Sockets, Gateway(s)
  PROVE  TypeOK'
<1>. USE DEF registry, history
<1>1. CASE Registered(s)
  <2>1. /\ user' \in [Sockets -> BOOLEAN]
        /\ link' \in [Sockets -> {"new", "resolving", "open", "dropped", "closed"}]
        /\ userSockets' \in [Users -> SUBSET Sockets]
    <3>1. user' \in [Sockets -> BOOLEAN]
      BY <1>1, RegisteredFacts DEF TypeOK
    <3>2. link' \in [Sockets -> {"new", "resolving", "open", "dropped", "closed"}]
      BY <1>1, RegisteredFacts DEF TypeOK
    <3>3. userSockets' \in [Users -> SUBSET Sockets]
      <4>1. userSockets' = [userSockets EXCEPT ![UserOf[s]] = userSockets[UserOf[s]] \cup {s}]
        BY <1>1, RegisteredFacts
      <4>2. UserOf[s] \in Users
        BY UserHasChannel
      <4>. QED
        BY <4>1, <4>2 DEF TypeOK
    <3>. QED
      BY <3>1, <3>2, <3>3
  <2>. QED
    BY <1>1, <2>1, RegisteredFacts, SubscribeFacts DEF TypeOK, Entry, MapOf
<1>2. CASE ConnectionRejected(s)
  <2>1. CASE Disconnected(s, "closed")
    BY <1>2, <2>1, DisconnectFacts DEF ConnectionRejected, TypeOK, CleanupOf, Ats
  <2>2. CASE ~Disconnected(s, "closed")
    BY <1>2, <2>2 DEF ConnectionRejected, TypeOK
  <2>. QED
    BY <2>1, <2>2
<1>3. CASE CleanupPublished(s)
  <2>1. cleanup' \in [Sockets -> CleanupOf]
    BY <1>3, AtStep DEF CleanupPublished, Ats
  <2>. QED
    BY <1>3, <2>1 DEF CleanupPublished, TypeOK, CleanupOf, Ats
<1>4. CASE CleanupUnsubscribe(s)
  <2>1. PICK c \in Channels :
          /\ socketChannels[s].of[c] # 0
          /\ UnsubscribeHandlers(s, {c}, TRUE)
          /\ cleanup' \in [Sockets -> CleanupOf]
    BY <1>4, VisitFacts
  <2>2. handlers' \in [Channels -> Entry] /\ wire' \in [Channels -> Seq(Command)]
    <3>1. {c} \in SUBSET Channels /\ \A d \in {c} : socketChannels[s].of[d] # 0
      BY <2>1
    <3>. QED
      BY <2>1, <3>1, UnsubscribeFacts
  <2>. QED
    BY <1>4, <2>1, <2>2 DEF CleanupUnsubscribe, TypeOK, Entry, CleanupOf, Ats
<1>5. CASE CleanupDone(s)
  <2>1. [at |-> "done", visited |-> {}] \in CleanupOf
    BY DEF CleanupOf, Ats
  <2>. QED
    BY <1>5, <2>1, NewMapTyped DEF CleanupDone, TypeOK, CleanupOf, Ats, MapOf
<1>6. CASE GuardRejects(s)
  <2>1. pending' \in [Sockets -> SUBSET Message]
    BY <1>6 DEF GuardRejects, TypeOK
  <2>2. CASE Disconnected(s, "closed")
    BY <1>6, <2>1, <2>2, DisconnectFacts DEF GuardRejects, TypeOK, CleanupOf, Ats
  <2>3. CASE ~Disconnected(s, "closed")
    BY <1>6, <2>1, <2>3 DEF GuardRejects, TypeOK
  <2>. QED
    BY <2>2, <2>3
<1>7. CASE ChatSubscribe(s)
  <2>1. CASE UNCHANGED <<made, socketChannels, handlers, wire>>
    BY <1>7, <2>1, ChatSubscribeFacts DEF TypeOK
  <2>2. CASE \E cs \in SUBSET Channels : SubscribeSocket(s, socketChannels[s], cs)
    <3>1. /\ handlers' \in [Channels -> Entry] /\ wire' \in [Channels -> Seq(Command)]
          /\ made' \in [Sockets -> [Channels -> 0..MaxSubs]]
          /\ socketChannels' \in [Sockets -> MapOf]
      BY <1>7, <2>2, ChatSubscribeFacts, SubscribeFacts
    <3>. QED
      BY <1>7, <3>1, ChatSubscribeFacts DEF TypeOK, Entry, MapOf
  <2>. QED
    BY <1>7, <2>1, <2>2, ChatSubscribeFacts
<1>8. CASE ChatUnsubscribe(s)
  <2>1. /\ handlers' \in [Channels -> Entry] /\ wire' \in [Channels -> Seq(Command)]
        /\ socketChannels' \in [Sockets -> MapOf]
    <3>1. PICK mine \in SUBSET Channels :
            /\ \A c \in mine : socketChannels[s].of[c] # 0
            /\ UnsubscribeHandlers(s, mine, FALSE)
            /\ socketChannels' = [socketChannels EXCEPT ![s].of =
                 [c \in Channels |-> IF c \in mine THEN 0 ELSE @[c]]]
      BY <1>8, ChatUnsubscribeFacts
    <3>2. handlers' \in [Channels -> Entry] /\ wire' \in [Channels -> Seq(Command)]
      BY <3>1, UnsubscribeFacts
    <3>3. socketChannels' \in [Sockets -> MapOf]
      BY <3>1, UnmapFacts
    <3>. QED
      BY <3>2, <3>3
  <2>. QED
    BY <1>8, <2>1, ChatUnsubscribeFacts DEF TypeOK, Entry, MapOf
<1>. QED
  BY <1>1, <1>2, <1>3, <1>4, <1>5, <1>6, <1>7, <1>8 DEF Gateway

(* The command that is answered, or failed, is the oldest one.             *)
LEMMA AnswerFacts ==
  ASSUME TypeOK, NEW c \in Channels, wire[c] # <<>>, wire' = [wire EXCEPT ![c] = Tail(@)]
  PROVE  /\ wire' \in [Channels -> Seq(Command)]
         /\ wire'[c] = Tail(wire[c]) /\ \A d \in Channels \ {c} : wire'[d] = wire[d]
         /\ wire[c] \in Seq(Command) /\ Head(wire[c]) \in Command
         /\ Head(wire[c]).by \in Handlers /\ Head(wire[c]).by[1] \in Sockets
         /\ Head(wire[c]).cmd = "sub" => Head(wire[c]) = wire[c][1]
<1>1. wire[c] \in Seq(Command)
  BY DEF TypeOK
<1>2. Tail(wire[c]) \in Seq(Command) /\ Head(wire[c]) \in Command /\ Head(wire[c]) = wire[c][1]
  BY <1>1, TailFacts
<1>3. Head(wire[c]).by \in Handlers /\ Head(wire[c]).by[1] \in Sockets
  BY <1>2 DEF Command, Handlers
<1>4. /\ wire' \in [Channels -> Seq(Command)]
      /\ wire'[c] = Tail(wire[c]) /\ \A d \in Channels \ {c} : wire'[d] = wire[d]
  <2>. DEFINE t == Tail(wire[c])
  <2>1. t \in Seq(Command) /\ wire' = [wire EXCEPT ![c] = t]
    BY <1>2
  <2>. HIDE DEF t
  <2>2. wire' \in [Channels -> Seq(Command)] /\ wire'[c] = t
        /\ \A d \in Channels \ {c} : wire'[d] = wire[d]
    BY <2>1 DEF TypeOK
  <2>. QED
    BY <2>2 DEF t
<1>. QED
  BY <1>1, <1>2, <1>3, <1>4

LEMMA SubscribeAnsweredFacts ==
  ASSUME TypeOK, NEW c \in Channels, SubscribeAnswered(c),
         NEW h \in Handlers, h = Head(wire[c]).by
  PROVE  /\ handlers' \in [Channels -> Entry]
         /\ \A d \in Channels \ {c} : handlers'[d] = handlers[d]
         /\ handlers[c].known =>
              handlers'[c] = [known |-> TRUE, fns |-> handlers[c].fns \cup {h}]
         /\ ~handlers[c].known => handlers'[c] = handlers[c]
<1>1. handlers \in [Channels -> Entry]
  BY DEF TypeOK, Entry
<1>2. CASE handlers[c].known
  <2>1. handlers' = [handlers EXCEPT ![c] = AddAnswered(handlers[c], h)]
    BY <1>1, <1>2 DEF SubscribeAnswered
  <2>2. AddAnswered(handlers[c], h) = [known |-> TRUE, fns |-> handlers[c].fns \cup {h}]
    BY <1>1, <1>2, EntryShapes DEF Entry
  <2>3. AddAnswered(handlers[c], h) \in Entry
    <3>1. handlers[c] \in Entry
      BY <1>1
    <3>. QED
      BY <2>2, <3>1, EntryTypes
  <2>. QED
    BY <1>1, <1>2, <2>1, <2>2, <2>3
<1>3. CASE ~handlers[c].known
  BY <1>1, <1>3 DEF SubscribeAnswered
<1>. QED
  BY <1>2, <1>3

LEMMA RedisTyped ==
  ASSUME TypeOK, NEW c \in Channels, Redis(c)
  PROVE  TypeOK'
<1>1. wire[c] # <<>> /\ wire' = [wire EXCEPT ![c] = Tail(@)]
  BY DEF Redis, SubscribeAnswered, UnsubscribeAnswered, CommandFails
<1>2. PICK h \in Handlers : h = Head(wire[c]).by /\ h[1] \in Sockets
  BY <1>1, AnswerFacts
<1>3. wire' \in [Channels -> Seq(Command)]
  BY <1>1, AnswerFacts
<1>4. CASE SubscribeAnswered(c)
  <2>1. handlers' \in [Channels -> Entry]
    BY <1>2, <1>4, SubscribeAnsweredFacts
  <2>2. redisSubs' \subseteq Channels
    BY <1>4 DEF SubscribeAnswered, TypeOK
  <2>3. late' \subseteq Channels \X Handlers /\ thrown' \subseteq Channels \X Handlers
    BY <1>2, <1>4 DEF SubscribeAnswered, TypeOK
  <2>. QED
    BY <1>3, <1>4, <2>1, <2>2, <2>3 DEF SubscribeAnswered, TypeOK, sockets, Entry
<1>5. CASE UnsubscribeAnswered(c)
  <2>1. cleanup' = cleanup \/ cleanup' = [cleanup EXCEPT ![h[1]].at = "next"]
    BY <1>2, <1>5 DEF UnsubscribeAnswered, ResumeCleanup
  <2>2. cleanup' \in [Sockets -> CleanupOf]
    BY <1>2, <2>1, AtStep DEF TypeOK, CleanupOf, Ats
  <2>. QED
    BY <1>3, <1>5, <2>2 DEF UnsubscribeAnswered, TypeOK, history, CleanupOf, Ats
<1>6. CASE CommandFails(c)
  <2>1. cleanup' = cleanup \/ cleanup' = [cleanup EXCEPT ![h[1]].at = "done"]
    BY <1>2, <1>6 DEF CommandFails
  <2>2. cleanup' \in [Sockets -> CleanupOf]
    BY <1>2, <2>1, AtStep DEF TypeOK, CleanupOf, Ats
  <2>3. thrown' \subseteq Channels \X Handlers
    BY <1>2, <1>6 DEF CommandFails, TypeOK
  <2>4. failures' \in 0..MaxFailures
    BY <1>6, GatewayConstants DEF CommandFails, TypeOK
  <2>. QED
    BY <1>3, <1>6, <2>2, <2>3, <2>4 DEF CommandFails, TypeOK, CleanupOf, Ats
<1>. QED
  BY <1>4, <1>5, <1>6 DEF Redis

LEMMA PublishFailsTyped ==
  ASSUME TypeOK, NEW s \in Sockets, PublishFails(s)
  PROVE  TypeOK'
<1>1. cleanup' \in [Sockets -> CleanupOf]
  BY AtStep DEF PublishFails, Ats
<1>2. failures' \in 0..MaxFailures
  BY GatewayConstants DEF PublishFails, TypeOK
<1>. QED
  BY <1>1, <1>2 DEF PublishFails, TypeOK, registry, CleanupOf, Ats

LEMMA InitTyped == Init => TypeOK
BY GatewayConstants DEF Init, TypeOK, Absent, NoMap

(* Handlers, commands, maps and cleanups always have their types: in       *)
(* particular no command carries the absent closure of a socket, which an  *)
(* unsubscription the socket never asked for would.                        *)
THEOREM GatewayIsTyped == Spec => []TypeOK
<1>1. TypeOK /\ [Next]_vars => TypeOK'
  <2>. SUFFICES ASSUME TypeOK, [Next]_vars PROVE TypeOK'
    OBVIOUS
  <2>1. CASE Next
    BY <2>1, ClientTyped, GatewayTyped, PublishFailsTyped, RedisTyped DEF Next
  <2>2. CASE UNCHANGED vars
    BY <2>2 DEF vars, registry, sockets, history, TypeOK
  <2>. QED
    BY <2>1, <2>2
<1>. QED
  BY <1>1, InitTyped, PTL DEF Spec

-----------------------------------------------------------------------------
(* The inductive invariant.                                                *)

(* What a step does to the sockets it is not about, and to the one it is   *)
(* about.                                                                  *)
SocketKept(x) ==
  /\ link'[x] = link[x] /\ user'[x] = user[x]
  /\ cleanup'[x] = cleanup[x] /\ socketChannels'[x] = socketChannels[x]

SocketLives(s) ==
  /\ link[s] \in {"new", "resolving"} => ~user[s] /\ cleanup[s].at = "none"
  /\ link[s] = "open" => user[s] /\ cleanup[s].at = "none"
  /\ link[s] = "dropped" => cleanup[s].at = "done"
  /\ link[s] = "closed" => cleanup[s].at # "none"
  /\ cleanup[s].at \in {"publish", "next", "await"} => user[s]
  /\ socketChannels[s].known => user[s]
  /\ link[s] = "closed" /\ cleanup[s].at = "done" /\ failures = 0 => ~socketChannels[s].known

LEMMA OneSocketLives ==
  ASSUME TypeOK, Lifecycle, NEW s \in Sockets, SocketLives(s)',
         \A x \in Sockets \ {s} : SocketKept(x), failures' = failures \/ failures' # 0
  PROVE  Lifecycle'
BY DEF Lifecycle, SocketLives, SocketKept

LEMMA DisconnectLives ==
  ASSUME TypeOK, Lifecycle, NEW s \in Sockets, NEW how \in {"dropped", "closed"},
         link[s] = "resolving" \/ (link[s] = "open" /\ how = "closed"), Disconnected(s, how),
         UNCHANGED <<user, socketChannels, failures>>
  PROVE  Lifecycle'
<1>1. SocketLives(s)
  BY DEF Lifecycle, SocketLives
<1>2. /\ link'[s] = how
      /\ cleanup'[s].at \in IF user[s] THEN {"publish", "next"} ELSE {"done"}
      /\ \A x \in Sockets \ {s} : SocketKept(x)
  BY DisconnectFacts DEF SocketKept
<1>3. SocketLives(s)'
  BY <1>1, <1>2 DEF SocketLives
<1>. QED
  BY <1>2, <1>3, OneSocketLives

LEMMA AnswerLives ==
  ASSUME TypeOK, Lifecycle, CleaningIsClosed, NEW c \in Channels,
         UnsubscribeAnswered(c) \/ CommandFails(c)
  PROVE  Lifecycle'
<1>1. /\ wire[c] # <<>> /\ wire' = [wire EXCEPT ![c] = Tail(@)]
      /\ UNCHANGED <<link, user, socketChannels>>
  BY DEF UnsubscribeAnswered, CommandFails
<1>2. /\ wire[c] \in Seq(Command)
      /\ Head(wire[c]) = wire[c][1] /\ 1 \in DOMAIN wire[c]
      /\ Head(wire[c]).by[1] \in Sockets
  BY <1>1, AnswerFacts, TailFacts
<1>3. failures' = failures \/ failures' # 0
  BY DEF UnsubscribeAnswered, CommandFails, history, TypeOK
<1>4. CASE cleanup' = cleanup
  <2>1. CASE failures' = failures
    BY <1>1, <1>4, <2>1 DEF Lifecycle
  <2>2. CASE failures' # 0
    BY <1>1, <1>4, <2>2 DEF Lifecycle
  <2>. QED
    BY <1>3, <2>1, <2>2
<1>5. CASE cleanup' # cleanup
  <2>1. PICK s \in Sockets : s = Head(wire[c]).by[1]
    BY <1>2
  <2>2. /\ Head(wire[c]).cleaning
        /\ \/ cleanup' = [cleanup EXCEPT ![s].at = "next"] /\ UnsubscribeAnswered(c)
           \/ cleanup' = [cleanup EXCEPT ![s].at = "done"] /\ CommandFails(c)
    BY <1>5, <2>1 DEF UnsubscribeAnswered, CommandFails, ResumeCleanup
  <2>3. user[s] /\ link[s] = "closed"
    BY <1>2, <2>1, <2>2 DEF CleaningIsClosed
  <2>4. /\ \A x \in Sockets \ {s} : SocketKept(x)
        /\ \/ cleanup'[s].at = "next"
           \/ cleanup'[s].at = "done" /\ failures' # 0
    BY <1>1, <2>2, AtStep DEF Ats, SocketKept, CommandFails, TypeOK
  <2>5. SocketLives(s)'
    BY <1>1, <2>3, <2>4 DEF SocketLives
  <2>. QED
    BY <1>3, <2>4, <2>5, OneSocketLives
<1>. QED
  BY <1>4, <1>5

LEMMA LifecycleStep ==
  ASSUME TypeOK, Lifecycle, CleaningIsClosed, Next
  PROVE  Lifecycle'
<1>. USE DEF history, registry
<1>1. ASSUME NEW s \in Sockets, Client(s) \/ Gateway(s) \/ PublishFails(s)
      PROVE  Lifecycle'
  <2>0. SocketLives(s)
    BY DEF Lifecycle, SocketLives
  <2>1. CASE Connect(s)
    <3>1. /\ \A x \in Sockets \ {s} : SocketKept(x)
          /\ link'[s] = "resolving" /\ link[s] = "new"
      BY <2>1 DEF Connect, SocketKept, TypeOK
    <3>2. SocketLives(s)'
      BY <2>0, <2>1, <3>1 DEF Connect, SocketLives
    <3>. QED
      BY <2>1, <3>1, <3>2, OneSocketLives DEF Connect
  <2>2. CASE ClientDisconnects(s) \/ ArrivesTooEarly(s)
    BY <2>2, DisconnectLives DEF ClientDisconnects, ArrivesTooEarly
  <2>3. CASE Registered(s)
    <3>1. /\ \A x \in Sockets \ {s} : SocketKept(x)
          /\ link[s] \in {"resolving", "dropped"}
          /\ link'[s] = IF link[s] = "resolving" THEN "open" ELSE link[s]
          /\ user'[s] /\ UNCHANGED <<cleanup, failures>>
      <4>1. \A x \in Sockets \ {s} : socketChannels'[x] = socketChannels[x]
        BY <2>3, RegisteredFacts, SubscribeFacts
      <4>2. /\ \A x \in Sockets \ {s} : user'[x] = user[x] /\ link'[x] = link[x]
            /\ user'[s] /\ link'[s] = IF link[s] = "resolving" THEN "open" ELSE link[s]
        <5>1. /\ user' = [user EXCEPT ![s] = TRUE]
              /\ link' = [link EXCEPT ![s] = IF @ = "resolving" THEN "open" ELSE @]
          BY <2>3, RegisteredFacts
        <5>. QED
          BY <5>1 DEF TypeOK
      <4>3. link[s] \in {"resolving", "dropped"} /\ UNCHANGED <<cleanup, failures>>
        BY <2>3, RegisteredFacts
      <4>. QED
        BY <4>1, <4>2, <4>3 DEF SocketKept
    <3>2. SocketLives(s)'
      BY <2>0, <3>1 DEF SocketLives
    <3>. QED
      BY <3>1, <3>2, OneSocketLives
  <2>4. CASE ConnectionRejected(s)
    <3>1. CASE link[s] = "resolving"
      BY <2>4, <3>1, DisconnectLives DEF ConnectionRejected
    <3>2. CASE link[s] = "dropped"
      <4>1. /\ \A x \in Sockets \ {s} : SocketKept(x)
            /\ link'[s] = "closed" /\ ~user[s]
        BY <2>4, <3>2 DEF ConnectionRejected, SocketKept, TypeOK
      <4>2. SocketLives(s)'
        BY <2>0, <2>4, <3>2, <4>1 DEF ConnectionRejected, SocketLives
      <4>. QED
        BY <2>4, <4>1, <4>2, OneSocketLives DEF ConnectionRejected
    <3>. QED
      BY <2>4, <3>1, <3>2 DEF ConnectionRejected
  <2>5. CASE CleanupPublished(s) \/ PublishFails(s)
    <3>1. /\ cleanup[s].at = "publish" /\ UNCHANGED <<link, user, socketChannels>>
          /\ \/ cleanup'[s].at = "next" /\ failures' = failures
             \/ cleanup'[s].at = "done" /\ failures' # 0
          /\ \A x \in Sockets \ {s} : cleanup'[x] = cleanup[x]
      BY <2>5, AtStep DEF CleanupPublished, PublishFails, Ats, TypeOK
    <3>2. SocketLives(s)'
      BY <2>0, <3>1 DEF SocketLives
    <3>. QED
      BY <3>1, <3>2, OneSocketLives DEF SocketKept
  <2>6. CASE CleanupUnsubscribe(s)
    <3>1. /\ cleanup[s].at = "next" /\ cleanup'[s].at \in {"await", "next"}
          /\ \A x \in Sockets \ {s} : cleanup'[x] = cleanup[x]
          /\ UNCHANGED <<link, user, socketChannels, failures>>
      BY <2>6, VisitFacts DEF CleanupUnsubscribe
    <3>2. SocketLives(s)'
      BY <2>0, <3>1 DEF SocketLives
    <3>. QED
      BY <3>1, <3>2, OneSocketLives DEF SocketKept
  <2>7. CASE CleanupDone(s)
    <3>1. /\ cleanup[s].at = "next" /\ cleanup'[s].at = "done" /\ ~socketChannels'[s].known
          /\ \A x \in Sockets \ {s} : SocketKept(x)
          /\ UNCHANGED <<link, user, failures>>
      BY <2>7 DEF CleanupDone, SocketKept, TypeOK, NoMap
    <3>2. SocketLives(s)'
      BY <2>0, <3>1 DEF SocketLives
    <3>. QED
      BY <3>1, <3>2, OneSocketLives
  <2>8. CASE GuardRejects(s)
    <3>1. CASE link[s] = "open"
      BY <2>8, <3>1, DisconnectLives DEF GuardRejects
    <3>2. CASE link[s] # "open"
      BY <2>8, <3>2 DEF GuardRejects, Lifecycle
    <3>. QED
      BY <3>1, <3>2
  <2>9. CASE Arrives(s)
    BY <2>9 DEF Arrives, Lifecycle
  <2>10. CASE ChatSubscribe(s) \/ ChatUnsubscribe(s)
    <3>1. /\ UNCHANGED <<link, user, cleanup, failures>>
          /\ \A x \in Sockets \ {s} : socketChannels'[x] = socketChannels[x]
          /\ socketChannels'[s].known = socketChannels[s].known
      BY <2>10, ChatKeepsMap DEF ChatSubscribe, ChatUnsubscribe
    <3>2. SocketLives(s)'
      BY <2>0, <3>1 DEF SocketLives
    <3>. QED
      BY <3>1, <3>2, OneSocketLives DEF SocketKept
  <2>. QED
    BY <1>1, <2>1, <2>2, <2>3, <2>4, <2>5, <2>6, <2>7, <2>8, <2>9, <2>10 DEF Client, Gateway
<1>2. ASSUME NEW c \in Channels, Redis(c)
      PROVE  Lifecycle'
  <2>1. CASE SubscribeAnswered(c)
    BY <2>1 DEF SubscribeAnswered, sockets, Lifecycle
  <2>. QED
    BY <1>2, <2>1, AnswerLives DEF Redis
<1>. QED
  BY <1>1, <1>2 DEF Next

(* A user, once set, stays set; a connection, once closed, stays closed.   *)
LEMMA ConnectionStep ==
  ASSUME TypeOK, Presence, NEW s \in Sockets, Client(s) \/ Gateway(s)
  PROVE  /\ Presence'
         /\ \A x \in Sockets : user[x] => user'[x]
         /\ \A x \in Sockets : user[x] /\ link[x] = "closed" => link'[x] = "closed"
<1>. USE DEF history, registry
<1>1. CASE Connect(s)
  BY <1>1 DEF Connect, Presence, TypeOK
<1>2. ASSUME NEW how \in {"dropped", "closed"}, Disconnected(s, how), user' = user,
             link[s] # "closed"
      PROVE  /\ Presence'
             /\ \A x \in Sockets : user[x] => user'[x]
             /\ \A x \in Sockets : user[x] /\ link[x] = "closed" => link'[x] = "closed"
  <2>1. /\ \A u \in Users : userSockets'[u] \subseteq userSockets[u]
        /\ user[s] => s \notin userSockets'[UserOf[s]]
        /\ \A x \in Sockets \ {s} : link'[x] = link[x]
    BY <1>2, DisconnectFacts
  <2>. QED
    BY <1>2, <2>1 DEF Presence
<1>3. CASE ClientDisconnects(s) \/ ArrivesTooEarly(s)
  BY <1>2, <1>3 DEF ClientDisconnects, ArrivesTooEarly
<1>4. CASE Registered(s)
  <2>1. /\ user' = [user EXCEPT ![s] = TRUE]
        /\ link' = [link EXCEPT ![s] = IF @ = "resolving" THEN "open" ELSE @]
        /\ userSockets' = [userSockets EXCEPT ![UserOf[s]] = userSockets[UserOf[s]] \cup {s}]
        /\ link[s] \in {"resolving", "dropped"}
    BY <1>4, RegisteredFacts
  <2>2. /\ \A x \in Sockets : user[x] => user'[x]
        /\ user'[s] /\ link'[s] # "closed"
        /\ \A x \in Sockets \ {s} : link'[x] = link[x] /\ user'[x] = user[x]
    BY <2>1 DEF TypeOK
  <2>3. \A x \in Sockets, u \in Users :
          x \in userSockets'[u] => x \in userSockets[u] \/ (x = s /\ u = UserOf[s])
    BY <2>1 DEF TypeOK
  <2>. QED
    BY <2>1, <2>2, <2>3 DEF Presence
<1>5. CASE ConnectionRejected(s)
  <2>1. CASE link[s] = "resolving"
    BY <1>2, <1>5, <2>1 DEF ConnectionRejected
  <2>2. CASE link[s] = "dropped"
    BY <1>5, <2>2 DEF ConnectionRejected, Presence, TypeOK
  <2>. QED
    BY <1>5, <2>1, <2>2 DEF ConnectionRejected
<1>6. CASE GuardRejects(s)
  <2>1. CASE link[s] = "open"
    BY <1>2, <1>6, <2>1 DEF GuardRejects
  <2>2. CASE link[s] # "open"
    BY <1>6, <2>2 DEF GuardRejects, Presence
  <2>. QED
    BY <2>1, <2>2
<1>7. CASE UNCHANGED <<link, user, userSockets>>
  BY <1>7 DEF Presence
<1>. QED
  BY <1>1, <1>3, <1>4, <1>5, <1>6, <1>7 DEF Client, Gateway, Arrives, CleanupPublished,
     CleanupUnsubscribe, CleanupDone, ChatSubscribe, ChatUnsubscribe

(* Steps of a connection that leave the registry alone.                    *)
QuietSocket(s) ==
  \/ Client(s) \/ ConnectionRejected(s) \/ CleanupPublished(s) \/ GuardRejects(s)
  \/ PublishFails(s)

LEMMA QuietFacts ==
  ASSUME TypeOK, NEW s \in Sockets, QuietSocket(s)
  PROVE  /\ UNCHANGED <<handlers, wire, made, socketChannels, late>>
         /\ \A x \in Sockets : cleanup'[x].visited = cleanup[x].visited
<1>. USE DEF history, registry
<1>1. UNCHANGED <<handlers, wire, made, socketChannels, late>>
  BY DEF QuietSocket, Client, Connect, ClientDisconnects, Arrives, ArrivesTooEarly,
     ConnectionRejected, CleanupPublished, GuardRejects, PublishFails
<1>2. CASE \E how \in {"dropped", "closed"} : Disconnected(s, how)
  <2>1. PICK how \in {"dropped", "closed"} : Disconnected(s, how)
    BY <1>2
  <2>2. /\ cleanup'[s].visited = cleanup[s].visited
        /\ \A x \in Sockets \ {s} : cleanup'[x] = cleanup[x]
    BY <2>1, DisconnectFacts
  <2>3. \A x \in Sockets : cleanup'[x].visited = cleanup[x].visited
    BY <2>2
  <2>. QED
    BY <1>1, <2>3
<1>3. CASE CleanupPublished(s) \/ PublishFails(s)
  BY <1>3, AtStep DEF CleanupPublished, PublishFails, Ats
<1>4. CASE UNCHANGED cleanup
  BY <1>1, <1>4
<1>5. \/ \E how \in {"dropped", "closed"} : Disconnected(s, how)
      \/ CleanupPublished(s) \/ PublishFails(s) \/ UNCHANGED cleanup
  BY DEF QuietSocket, Client, Connect, ClientDisconnects, Arrives, ArrivesTooEarly,
     ConnectionRejected, GuardRejects
<1>. QED
  BY <1>1, <1>2, <1>3, <1>4, <1>5

LEMMA CleaningStep ==
  ASSUME TypeOK, TypeOK', Lifecycle, Presence, CleaningIsClosed, Next
  PROVE  CleaningIsClosed'
<1>. USE DEF history, registry
<1>1. ASSUME NEW s \in Sockets, Client(s) \/ Gateway(s) \/ PublishFails(s),
             \A c \in Channels : wire'[c] # wire[c] =>
               \E g \in Handlers, cleaning \in BOOLEAN :
                 /\ wire'[c] = Append(wire[c], Sub(g)) \/ wire'[c] = Append(wire[c], Unsub(g, cleaning))
                 /\ cleaning => user[g[1]] /\ link[g[1]] = "closed"
      PROVE  CleaningIsClosed'
  <2>. SUFFICES ASSUME NEW c \in Channels, NEW i \in DOMAIN wire'[c], wire'[c][i].cleaning
                PROVE  LET x == wire'[c][i].by[1] IN user'[x] /\ link'[x] = "closed"
    BY DEF CleaningIsClosed
  <2>1. /\ \A x \in Sockets : user[x] => user'[x]
        /\ \A x \in Sockets : user[x] /\ link[x] = "closed" => link'[x] = "closed"
    BY <1>1, ConnectionStep DEF PublishFails
  <2>2. wire[c] \in Seq(Command) /\ wire'[c] \in Seq(Command)
    BY DEF TypeOK
  <2>3. wire'[c][i] \in Command
    BY <2>2
  <2>4. wire'[c][i].by[1] \in Sockets
    BY <2>3 DEF Command, Handlers
  <2>5. CASE i \in DOMAIN wire[c] /\ wire'[c][i] = wire[c][i]
    BY <2>1, <2>4, <2>5 DEF CleaningIsClosed
  <2>6. CASE ~(i \in DOMAIN wire[c] /\ wire'[c][i] = wire[c][i])
    <3>1. PICK g \in Handlers, cleaning \in BOOLEAN :
            /\ wire'[c] = Append(wire[c], Sub(g)) \/ wire'[c] = Append(wire[c], Unsub(g, cleaning))
            /\ cleaning => user[g[1]] /\ link[g[1]] = "closed"
      BY <1>1, <2>6
    <3>2. Sub(g) \in Command /\ Unsub(g, cleaning) \in Command
      BY CommandShapes
    <3>3. wire'[c][i] = Sub(g) \/ wire'[c][i] = Unsub(g, cleaning)
      <4>1. PICK e \in Command : /\ wire'[c] = Append(wire[c], e)
                                 /\ e = Sub(g) \/ e = Unsub(g, cleaning)
        BY <3>1, <3>2
      <4>2. /\ \A j \in DOMAIN wire[c] : wire'[c][j] = wire[c][j]
            /\ \A j \in DOMAIN wire'[c] : j \in DOMAIN wire[c] \/ wire'[c][j] = e
        BY <2>2, <4>1, AppendFacts
      <4>. QED
        BY <2>6, <4>1, <4>2
    <3>4. wire'[c][i].by = g /\ cleaning
      BY <3>3, CommandShapes
    <3>. QED
      BY <2>1, <2>4, <3>1, <3>4
  <2>. QED
    BY <2>5, <2>6
<1>2. ASSUME NEW s \in Sockets, QuietSocket(s)
      PROVE  CleaningIsClosed'
  BY <1>1, <1>2, QuietFacts DEF QuietSocket, Gateway
<1>3. ASSUME NEW s \in Sockets, NEW chans \in MapOf, NEW cs \in SUBSET Channels,
             SubscribeSocket(s, chans, cs), Gateway(s)
      PROVE  CleaningIsClosed'
  <2>1. ASSUME NEW c \in Channels, wire'[c] # wire[c]
        PROVE  \E g \in Handlers : wire'[c] = Append(wire[c], Sub(g))
    BY <1>3, <2>1, SubscribeFacts DEF Enters, Opens, Joins, Kept
  <2>. QED
    BY <1>1, <1>3, <2>1
<1>4. ASSUME NEW s \in Sockets, NEW cs \in SUBSET Channels, NEW cleaning \in BOOLEAN,
             \A c \in cs : socketChannels[s].of[c] # 0, UnsubscribeHandlers(s, cs, cleaning),
             cleaning => user[s] /\ link[s] = "closed", Gateway(s)
      PROVE  CleaningIsClosed'
  <2>1. ASSUME NEW c \in Channels, wire'[c] # wire[c]
        PROVE  \E g \in Handlers : g[1] = s /\ wire'[c] = Append(wire[c], Unsub(g, cleaning))
    <3>1. c \in cs /\ <<s, socketChannels[s].of[c]>> \in Handlers
          /\ Quits(c, <<s, socketChannels[s].of[c]>>, cleaning)
      <4>1. ~Kept(c)
        BY <2>1 DEF Kept
      <4>. QED
        BY <1>4, <4>1, UnsubscribeQuits
    <3>. QED
      BY <2>1, <3>1 DEF Quits, Parts, Closes, Kept
  <2>. QED
    BY <1>1, <1>4, <2>1
<1>5. ASSUME NEW s \in Sockets, Gateway(s)
      PROVE  CleaningIsClosed'
  <2>1. CASE Registered(s)
    BY <1>3, <1>5, <2>1, RegisteredFacts
  <2>2. CASE ChatSubscribe(s)
    <3>1. CASE UNCHANGED wire
      BY <1>1, <1>5, <3>1
    <3>2. CASE \E cs \in SUBSET Channels : SubscribeSocket(s, socketChannels[s], cs)
      BY <1>3, <1>5, <2>2, <3>2, ChatSubscribeFacts
    <3>. QED
      BY <2>2, <3>1, <3>2, ChatSubscribeFacts
  <2>3. CASE ChatUnsubscribe(s)
    BY <1>4, <1>5, <2>3, ChatUnsubscribeFacts
  <2>4. CASE CleanupUnsubscribe(s)
    <3>1. PICK c \in Channels : /\ cleanup[s].at = "next"
                                /\ socketChannels[s].of[c] # 0
                                /\ UnsubscribeHandlers(s, {c}, TRUE)
      BY <2>4, VisitFacts
    <3>2. user[s] /\ link[s] = "closed"
      <4>1. link[s] \in {"new", "resolving", "open", "dropped", "closed"}
        BY DEF TypeOK
      <4>. QED
        BY <3>1, <4>1 DEF Lifecycle
    <3>3. {c} \in SUBSET Channels /\ \A d \in {c} : socketChannels[s].of[d] # 0
      BY <3>1
    <3>. QED
      BY <1>4, <1>5, <3>1, <3>2, <3>3
  <2>5. CASE CleanupDone(s)
    BY <1>1, <1>5, <2>5 DEF CleanupDone
  <2>. QED
    BY <1>2, <1>5, <2>1, <2>2, <2>3, <2>4, <2>5 DEF Gateway, QuietSocket
<1>6. ASSUME NEW c \in Channels, Redis(c)
      PROVE  CleaningIsClosed'
  <2>1. /\ wire[c] # <<>> /\ wire' = [wire EXCEPT ![c] = Tail(@)] /\ UNCHANGED <<link, user>>
    BY <1>6 DEF Redis, SubscribeAnswered, UnsubscribeAnswered, CommandFails, sockets
  <2>2. /\ wire[c] \in Seq(Command)
        /\ wire'[c] = Tail(wire[c]) /\ \A d \in Channels \ {c} : wire'[d] = wire[d]
    BY <2>1, AnswerFacts
  <2>3. \A i \in DOMAIN wire'[c] : i + 1 \in DOMAIN wire[c] /\ wire'[c][i] = wire[c][i + 1]
    <3>1. \A i \in DOMAIN Tail(wire[c]) :
            i + 1 \in DOMAIN wire[c] /\ Tail(wire[c])[i] = wire[c][i + 1]
      BY <2>1, <2>2, TailFacts
    <3>. QED
      BY <2>2, <3>1
  <2>. QED
    BY <2>1, <2>2, <2>3 DEF CleaningIsClosed
<1>. QED
  BY <1>2, <1>5, <1>6 DEF Next, QuietSocket

LEMMA AnswerVisits ==
  ASSUME TypeOK, NEW c \in Channels, Redis(c)
  PROVE  /\ UNCHANGED <<made, socketChannels>>
         /\ \A x \in Sockets : cleanup'[x].visited = cleanup[x].visited
<1>1. wire[c] # <<>> /\ wire' = [wire EXCEPT ![c] = Tail(@)] /\ UNCHANGED <<made, socketChannels>>
  BY DEF Redis, SubscribeAnswered, UnsubscribeAnswered, CommandFails, sockets
<1>2. PICK s \in Sockets : s = Head(wire[c]).by[1]
  BY <1>1, AnswerFacts
<1>3. CASE cleanup' = cleanup
  BY <1>1, <1>3
<1>4. CASE \E at \in Ats : cleanup' = [cleanup EXCEPT ![s].at = at]
  BY <1>1, <1>4, AtStep
<1>5. \/ cleanup' = cleanup
      \/ cleanup' = [cleanup EXCEPT ![s].at = "next"]
      \/ cleanup' = [cleanup EXCEPT ![s].at = "done"]
  BY <1>2 DEF Redis, SubscribeAnswered, UnsubscribeAnswered, ResumeCleanup, CommandFails, sockets
<1>. QED
  BY <1>3, <1>4, <1>5 DEF Ats

(* What the maps and the cleanups number, step by step.                    *)
LEMMA NumberedStep ==
  ASSUME TypeOK, Numbered, Next
  PROVE  Numbered'
<1>1. ASSUME NEW s \in Sockets, NEW chans \in MapOf, NEW cs \in SUBSET Channels,
             SubscribeSocket(s, chans, cs), UNCHANGED cleanup,
             \A c \in Channels : chans.of[c] <= made[s][c]
      PROVE  Numbered'
  <2>1. /\ \A x \in Sockets \ {s} : made'[x] = made[x] /\ socketChannels'[x] = socketChannels[x]
        /\ \A c \in Channels :
             /\ made'[s][c] \in {made[s][c], made[s][c] + 1}
             /\ socketChannels'[s].of[c] = made'[s][c]
                  \/ (socketChannels'[s].of[c] = chans.of[c] /\ made'[s][c] = made[s][c])
    <3>1. \A x \in Sockets \ {s} : made'[x] = made[x] /\ socketChannels'[x] = socketChannels[x]
      BY <1>1, SubscribeFacts
    <3>2. ASSUME NEW c \in Channels
          PROVE  /\ made'[s][c] \in {made[s][c], made[s][c] + 1}
                 /\ socketChannels'[s].of[c] = made'[s][c]
                      \/ (socketChannels'[s].of[c] = chans.of[c] /\ made'[s][c] = made[s][c])
      <4>1. IF c \in cs /\ chans.of[c] = 0
            THEN made'[s][c] = made[s][c] + 1 /\ socketChannels'[s].of[c] = made[s][c] + 1
            ELSE made'[s][c] = made[s][c] /\ socketChannels'[s].of[c] = chans.of[c]
        <5>1. \A d \in Channels :
                IF d \in cs /\ chans.of[d] = 0
                THEN /\ made[s][d] + 1 \in Numbers /\ <<s, made[s][d] + 1>> \in Handlers
                     /\ Enters(d, <<s, made[s][d] + 1>>)
                     /\ made'[s][d] = made[s][d] + 1
                     /\ socketChannels'[s].of[d] = made[s][d] + 1
                ELSE /\ Kept(d)
                     /\ made'[s][d] = made[s][d]
                     /\ socketChannels'[s].of[d] = chans.of[d]
          BY <1>1, SubscribeFacts
        <5>. QED
          BY <5>1
      <4>. QED
        BY <4>1
    <3>. QED
      BY <3>1, <3>2
  <2>2. ASSUME NEW c \in Channels
        PROVE  /\ socketChannels'[s].of[c] <= made'[s][c]
               /\ \A n \in Numbers : <<c, n>> \in cleanup'[s].visited => n <= made'[s][c]
    <3>1. made[s][c] \in Nat /\ Numbers \subseteq Nat
      BY GatewayConstants DEF TypeOK, Numbers
    <3>2. \A n \in Numbers : <<c, n>> \in cleanup'[s].visited => n <= made[s][c]
      BY <1>1 DEF Numbered
    <3>3. made'[s][c] \in Nat /\ made[s][c] <= made'[s][c]
      BY <2>1, <3>1
    <3>4. socketChannels'[s].of[c] <= made'[s][c]
      BY <1>1, <2>1, <3>3
    <3>5. ASSUME NEW n \in Numbers, <<c, n>> \in cleanup'[s].visited
          PROVE  n <= made'[s][c]
      <4>1. n \in Nat /\ n <= made[s][c]
        BY <3>1, <3>2, <3>5
      <4>. QED
        BY <3>1, <3>3, <4>1
    <3>. QED
      BY <3>4, <3>5
  <2>. QED
    BY <1>1, <2>1, <2>2 DEF Numbered
<1>2. ASSUME NEW s \in Sockets, Gateway(s)
      PROVE  Numbered'
  <2>1. CASE Registered(s)
    <3>1. \A c \in Channels : NewMap.of[c] <= made[s][c]
      BY GatewayConstants DEF NewMap, TypeOK
    <3>. QED
      BY <1>1, <2>1, <3>1, RegisteredFacts
  <2>2. CASE ChatSubscribe(s)
    <3>1. CASE UNCHANGED <<made, socketChannels>>
      BY <2>2, <3>1, ChatSubscribeFacts DEF Numbered
    <3>2. CASE \E cs \in SUBSET Channels : SubscribeSocket(s, socketChannels[s], cs)
      BY <1>1, <2>2, <3>2, ChatSubscribeFacts DEF Numbered
    <3>. QED
      BY <2>2, <3>1, <3>2, ChatSubscribeFacts
  <2>3. CASE ChatUnsubscribe(s)
    <3>1. UNCHANGED <<made, cleanup>>
      BY <2>3, ChatUnsubscribeFacts
    <3>2. /\ \A x \in Sockets \ {s} : socketChannels'[x] = socketChannels[x]
          /\ \A c \in Channels : socketChannels'[s].of[c] \in {0, socketChannels[s].of[c]}
      BY <2>3, ChatUnsubscribeFacts, UnmapFacts
    <3>3. \A c \in Channels : 0 <= made[s][c]
      BY GatewayConstants DEF TypeOK
    <3>. QED
      BY <3>1, <3>2, <3>3 DEF Numbered
  <2>4. CASE CleanupUnsubscribe(s)
    <3>1. PICK c \in Channels :
            /\ cleanup'[s].visited = cleanup[s].visited \cup {<<c, socketChannels[s].of[c]>>}
            /\ \A x \in Sockets \ {s} : cleanup'[x] = cleanup[x]
      BY <2>4, VisitFacts
    <3>2. UNCHANGED <<made, socketChannels>>
      BY <2>4 DEF CleanupUnsubscribe
    <3>. QED
      BY <3>1, <3>2 DEF Numbered
  <2>5. CASE CleanupDone(s)
    <3>1. /\ UNCHANGED made
          /\ \A x \in Sockets \ {s} : /\ socketChannels'[x] = socketChannels[x]
                                      /\ cleanup'[x] = cleanup[x]
          /\ cleanup'[s].visited = {} /\ \A c \in Channels : socketChannels'[s].of[c] = 0
      BY <2>5 DEF CleanupDone, NoMap, TypeOK
    <3>2. \A c \in Channels : 0 <= made[s][c]
      BY GatewayConstants DEF TypeOK
    <3>. QED
      BY <3>1, <3>2 DEF Numbered
  <2>6. CASE QuietSocket(s)
    BY <2>6, QuietFacts DEF Numbered
  <2>. QED
    BY <1>2, <2>1, <2>2, <2>3, <2>4, <2>5, <2>6 DEF Gateway, QuietSocket
<1>3. ASSUME NEW s \in Sockets, QuietSocket(s)
      PROVE  Numbered'
  BY <1>3, QuietFacts DEF Numbered
<1>4. ASSUME NEW c \in Channels, Redis(c)
      PROVE  Numbered'
  BY <1>4, AnswerVisits DEF Redis, Numbered
<1>. QED
  BY <1>2, <1>3, <1>4 DEF Next, QuietSocket

(* A handler that is there after a channel's step was there before, or is  *)
(* the one that entered.                                                   *)
LEMMA HandlerFrom ==
  ASSUME NEW c \in Channels, ~handlers[c].known => handlers[c].fns = {},
         NEW g \in Handlers, NEW cleaning \in BOOLEAN,
         Kept(c) \/ Enters(c, g) \/ Quits(c, g, cleaning)
  PROVE  /\ ~handlers'[c].known => handlers'[c].fns = {}
         /\ handlers'[c].fns \subseteq handlers[c].fns \cup {g}
         /\ Quits(c, g, cleaning) => g \notin handlers'[c].fns
         /\ Kept(c) \/ Quits(c, g, cleaning) => handlers'[c].fns \subseteq handlers[c].fns
BY DEF Kept, Enters, Opens, Joins, Quits, Parts, Closes, Absent

Accounted(c, s, n) ==
  \/ <<c, <<s, n>>>> \in late
  \/ /\ socketChannels[s].known /\ socketChannels[s].of[c] = n
     /\ <<c, n>> \notin cleanup[s].visited

LEMMA OwnedEnter ==
  ASSUME TypeOK, Numbered, HandlersOwned, UNCHANGED <<cleanup, late>>,
         NEW s \in Sockets, NEW chans \in MapOf, NEW cs \in SUBSET Channels, chans.known,
         SubscribeSocket(s, chans, cs),
         socketChannels[s].known => chans = socketChannels[s]
  PROVE  HandlersOwned'
<1>0. SUFFICES ASSUME NEW c \in Channels
               PROVE  /\ ~handlers'[c].known => handlers'[c].fns = {}
                      /\ \A x \in Sockets, n \in Numbers :
                           <<x, n>> \in handlers'[c].fns => Accounted(c, x, n)'
  BY DEF HandlersOwned, Accounted
<1>. DEFINE k == made[s][c] + 1
<1>1. /\ ~handlers[c].known => handlers[c].fns = {}
      /\ \A x \in Sockets, n \in Numbers : <<x, n>> \in handlers[c].fns => Accounted(c, x, n)
  BY DEF HandlersOwned, Accounted
<1>2. /\ \A x \in Sockets \ {s} : socketChannels'[x] = socketChannels[x]
      /\ socketChannels'[s].known
  BY SubscribeFacts
<1>3. CASE c \in cs /\ chans.of[c] = 0
  <2>1. /\ k \in Numbers /\ <<s, k>> \in Handlers /\ Enters(c, <<s, k>>)
        /\ socketChannels'[s].of[c] = k
    BY <1>3, SubscribeFacts
  <2>2. /\ ~handlers'[c].known => handlers'[c].fns = {}
        /\ handlers'[c].fns \subseteq handlers[c].fns \cup {<<s, k>>}
    BY <1>1, <2>1, HandlerFrom
  <2>3. <<c, k>> \notin cleanup[s].visited
    BY <2>1, GatewayConstants DEF Numbered, TypeOK
  <2>4. ASSUME NEW x \in Sockets, NEW n \in Numbers, <<x, n>> \in handlers'[c].fns
        PROVE  Accounted(c, x, n)'
    <3>1. CASE x = s /\ n = k
      BY <1>2, <2>1, <2>3, <3>1 DEF Accounted
    <3>2. CASE ~(x = s /\ n = k)
      <4>1. Accounted(c, x, n)
        BY <1>1, <2>2, <2>4, <3>2
      <4>2. n # 0
        BY GatewayConstants DEF Numbers
      <4>3. x = s => <<c, <<x, n>>>> \in late
        BY <1>3, <4>1, <4>2 DEF Accounted
      <4>. QED
        BY <1>2, <4>1, <4>3 DEF Accounted
    <3>. QED
      BY <3>1, <3>2
  <2>. QED
    BY <2>2, <2>4
<1>4. CASE ~(c \in cs /\ chans.of[c] = 0)
  <2>1. Kept(c) /\ socketChannels'[s].of[c] = chans.of[c]
    BY <1>4, SubscribeFacts
  <2>. QED
    BY <1>1, <1>2, <2>1 DEF Kept, Accounted
<1>. QED
  BY <1>3, <1>4
LEMMA OwnedQuit ==
  ASSUME TypeOK, HandlersOwned, UNCHANGED late,
         NEW s \in Sockets, NEW cs \in SUBSET Channels, NEW cleaning \in BOOLEAN,
         \A c \in cs : socketChannels[s].of[c] # 0, UnsubscribeHandlers(s, cs, cleaning),
         \A x \in Sockets \ {s} :
           socketChannels'[x] = socketChannels[x] /\ cleanup'[x] = cleanup[x],
         socketChannels'[s].known = socketChannels[s].known,
         \A c \in Channels \ cs :
           /\ socketChannels'[s].of[c] = socketChannels[s].of[c]
           /\ \A n \in Numbers :
                <<c, n>> \in cleanup'[s].visited => <<c, n>> \in cleanup[s].visited
  PROVE  HandlersOwned'
<1>0. SUFFICES ASSUME NEW c \in Channels
               PROVE  /\ ~handlers'[c].known => handlers'[c].fns = {}
                      /\ \A x \in Sockets, n \in Numbers :
                           <<x, n>> \in handlers'[c].fns => Accounted(c, x, n)'
  BY DEF HandlersOwned, Accounted
<1>1. /\ ~handlers[c].known => handlers[c].fns = {}
      /\ \A x \in Sockets, n \in Numbers : <<x, n>> \in handlers[c].fns => Accounted(c, x, n)
  BY DEF HandlersOwned, Accounted
<1>2. CASE c \in cs
  <2>. DEFINE g == <<s, socketChannels[s].of[c]>>
  <2>1. g \in Handlers /\ Quits(c, g, cleaning)
    BY <1>2, UnsubscribeQuits
  <2>2. /\ ~handlers'[c].known => handlers'[c].fns = {}
        /\ handlers'[c].fns \subseteq handlers[c].fns /\ g \notin handlers'[c].fns
    BY <1>1, <2>1, HandlerFrom
  <2>3. ASSUME NEW x \in Sockets, NEW n \in Numbers, <<x, n>> \in handlers'[c].fns
        PROVE  Accounted(c, x, n)'
    <3>1. Accounted(c, x, n)
      BY <1>1, <2>2, <2>3
    <3>2. x = s => n # socketChannels[s].of[c]
      BY <2>2, <2>3
    <3>. QED
      BY <3>1, <3>2 DEF Accounted
  <2>. QED
    BY <2>2, <2>3
<1>3. CASE c \notin cs
  <2>1. Kept(c)
    BY <1>3, UnsubscribeQuits
  <2>2. c \in Channels \ cs
    BY <1>3
  <2>3. ASSUME NEW x \in Sockets, NEW n \in Numbers, Accounted(c, x, n)
        PROVE  Accounted(c, x, n)'
    BY <2>2, <2>3 DEF Accounted
  <2>. QED
    BY <1>1, <2>1, <2>3 DEF Kept
<1>. QED
  BY <1>2, <1>3

LEMMA HandlersOwnedStep ==
  ASSUME GatewayInv, Next
  PROVE  HandlersOwned'
<1>. USE DEF GatewayInv
<1>1. ASSUME UNCHANGED <<handlers, late, socketChannels>>,
             \A x \in Sockets : cleanup'[x].visited = cleanup[x].visited
      PROVE  HandlersOwned'
  BY <1>1 DEF HandlersOwned
<1>2. ASSUME NEW s \in Sockets, QuietSocket(s)
      PROVE  HandlersOwned'
  BY <1>1, <1>2, QuietFacts
<1>3. ASSUME NEW s \in Sockets, Gateway(s)
      PROVE  HandlersOwned'
  <2>1. CASE Registered(s)
    <3>1. /\ ~user[s] /\ NewMap \in MapOf /\ {UserOf[s]} \in SUBSET Channels
          /\ SubscribeSocket(s, NewMap, {UserOf[s]}) /\ UNCHANGED <<cleanup, late>>
      BY <2>1, RegisteredFacts
    <3>2. ~socketChannels[s].known
      BY <3>1 DEF Lifecycle
    <3>. QED
      BY <3>1, <3>2, OwnedEnter DEF NewMap
  <2>2. CASE ChatSubscribe(s)
    <3>1. CASE UNCHANGED <<made, socketChannels, handlers, wire>>
      BY <1>1, <2>2, <3>1, ChatSubscribeFacts
    <3>2. CASE /\ socketChannels[s].known
               /\ \E cs \in SUBSET Channels : SubscribeSocket(s, socketChannels[s], cs)
      <4>1. socketChannels[s] \in MapOf /\ UNCHANGED <<cleanup, late>>
        BY <2>2, ChatSubscribeFacts
      <4>. QED
        BY <3>2, <4>1, OwnedEnter
    <3>. QED
      BY <2>2, <3>1, <3>2, ChatSubscribeFacts
  <2>3. CASE ChatUnsubscribe(s)
    <3>1. PICK mine \in SUBSET Channels :
            /\ \A c \in mine : socketChannels[s].of[c] # 0
            /\ UnsubscribeHandlers(s, mine, FALSE)
            /\ socketChannels' = [socketChannels EXCEPT ![s].of =
                 [c \in Channels |-> IF c \in mine THEN 0 ELSE @[c]]]
      BY <2>3, ChatUnsubscribeFacts
    <3>2. /\ socketChannels'[s].known = socketChannels[s].known
          /\ \A c \in Channels \ mine : socketChannels'[s].of[c] = socketChannels[s].of[c]
          /\ \A x \in Sockets \ {s} : socketChannels'[x] = socketChannels[x]
      BY <3>1, UnmapFacts
    <3>3. UNCHANGED <<cleanup, late>>
      BY <2>3, ChatUnsubscribeFacts
    <3>. QED
      BY <3>1, <3>2, <3>3, OwnedQuit
  <2>4. CASE CleanupUnsubscribe(s)
    <3>1. PICK c \in Channels :
            /\ socketChannels[s].of[c] # 0
            /\ UnsubscribeHandlers(s, {c}, TRUE)
            /\ cleanup'[s].visited = cleanup[s].visited \cup {<<c, socketChannels[s].of[c]>>}
            /\ \A x \in Sockets \ {s} : cleanup'[x] = cleanup[x]
      BY <2>4, VisitFacts
    <3>2. UNCHANGED <<socketChannels, late>>
      BY <2>4 DEF CleanupUnsubscribe, history
    <3>3. {c} \in SUBSET Channels /\ \A d \in {c} : socketChannels[s].of[d] # 0
      BY <3>1
    <3>4. \A d \in Channels \ {c}, n \in Numbers :
            <<d, n>> \in cleanup'[s].visited => <<d, n>> \in cleanup[s].visited
      BY <3>1
    <3>. QED
      BY <3>1, <3>2, <3>3, <3>4, OwnedQuit
  <2>5. CASE CleanupDone(s)
    <3>1. /\ UNCHANGED <<handlers, late>> /\ ToVisit(s) = {}
          /\ \A x \in Sockets \ {s} : /\ socketChannels'[x] = socketChannels[x]
                                      /\ cleanup'[x] = cleanup[x]
      BY <2>5 DEF CleanupDone, TypeOK, registry, history
    <3>2. \A c \in Channels, n \in Numbers :
            <<s, n>> \in handlers[c].fns => <<c, <<s, n>>>> \in late
      <4>. SUFFICES ASSUME NEW c \in Channels, NEW n \in Numbers, <<s, n>> \in handlers[c].fns,
                           socketChannels[s].of[c] = n, <<c, n>> \notin cleanup[s].visited
                    PROVE  FALSE
        BY DEF HandlersOwned
      <4>1. n # 0
        BY GatewayConstants DEF Numbers
      <4>. QED
        BY <3>1, <4>1 DEF ToVisit
    <3>. QED
      BY <3>1, <3>2 DEF HandlersOwned
  <2>. QED
    BY <1>2, <1>3, <2>1, <2>2, <2>3, <2>4, <2>5 DEF Gateway, QuietSocket
<1>4. ASSUME NEW c \in Channels, Redis(c)
      PROVE  HandlersOwned'
  <2>1. CASE SubscribeAnswered(c)
    <3>1. PICK h \in Handlers : h = Head(wire[c]).by
      BY <2>1, AnswerFacts DEF SubscribeAnswered
    <3>2. /\ \A d \in Channels \ {c} : handlers'[d] = handlers[d]
          /\ handlers[c].known =>
               handlers'[c] = [known |-> TRUE, fns |-> handlers[c].fns \cup {h}]
          /\ ~handlers[c].known => handlers'[c] = handlers[c]
      BY <2>1, <3>1, SubscribeAnsweredFacts
    <3>3. /\ UNCHANGED <<socketChannels, cleanup>> /\ late \subseteq late'
          /\ handlers[c].known /\ Forsaken(c, h) => <<c, h>> \in late'
      BY <2>1, <3>1 DEF SubscribeAnswered, sockets
    <3>4. h = <<h[1], h[2]>> /\ h[1] \in Sockets /\ h[2] \in Numbers
      BY DEF Handlers
    <3>5. ASSUME NEW d \in Channels, NEW x \in Sockets, NEW n \in Numbers,
                 <<x, n>> \in handlers'[d].fns
          PROVE  Accounted(d, x, n)'
      <4>1. CASE <<x, n>> \in handlers[d].fns
        BY <3>3, <4>1 DEF HandlersOwned, Accounted
      <4>2. CASE <<x, n>> \notin handlers[d].fns
        <5>1. d = c /\ <<x, n>> = h /\ handlers[c].known
          BY <3>2, <3>5, <4>2
        <5>. QED
          BY <3>3, <3>4, <5>1 DEF Forsaken, Mapped, Accounted
      <4>. QED
        BY <4>1, <4>2
    <3>6. \A d \in Channels : ~handlers'[d].known => handlers'[d].fns = {}
      BY <3>2 DEF HandlersOwned
    <3>. QED
      BY <3>5, <3>6 DEF HandlersOwned, Accounted
  <2>2. CASE UnsubscribeAnswered(c) \/ CommandFails(c)
    BY <1>1, <1>4, <2>2, AnswerVisits DEF UnsubscribeAnswered, CommandFails, history
  <2>. QED
    BY <1>4, <2>1, <2>2 DEF Redis
<1>. QED
  BY <1>2, <1>3, <1>4 DEF Next, QuietSocket

LEMMA InitOwned == Init => GatewayInv
<1>. SUFFICES ASSUME Init PROVE GatewayInv
  OBVIOUS
<1>1. TypeOK
  BY InitTyped
<1>2. Lifecycle /\ Presence /\ CleaningIsClosed
  BY UserHasChannel DEF Init, Lifecycle, Presence, CleaningIsClosed, NoMap
<1>3. Numbered /\ HandlersOwned
  BY DEF Init, Numbered, HandlersOwned, NoMap, Absent
<1>. QED
  BY <1>1, <1>2, <1>3 DEF GatewayInv

LEMMA TypedStep == TypeOK /\ Next => TypeOK'
BY ClientTyped, GatewayTyped, PublishFailsTyped, RedisTyped DEF Next

LEMMA PresenceStep ==
  ASSUME TypeOK, Presence, Next
  PROVE  Presence'
<1>1. ASSUME NEW s \in Sockets, Client(s) \/ Gateway(s)
      PROVE  Presence'
  BY <1>1, ConnectionStep
<1>2. CASE UNCHANGED <<link, user, userSockets>>
  BY <1>2 DEF Presence
<1>. QED
  BY <1>1, <1>2 DEF Next, PublishFails, Redis, SubscribeAnswered, UnsubscribeAnswered,
     CommandFails, sockets

LEMMA GatewayInvStep == GatewayInv /\ [Next]_vars => GatewayInv'
<1>. SUFFICES ASSUME GatewayInv, [Next]_vars PROVE GatewayInv'
  OBVIOUS
<1>1. CASE Next
  <2>1. TypeOK'
    BY <1>1, TypedStep DEF GatewayInv
  <2>2. Lifecycle' /\ Presence' /\ Numbered'
    BY <1>1, LifecycleStep, PresenceStep, NumberedStep DEF GatewayInv
  <2>3. CleaningIsClosed'
    BY <1>1, <2>1, CleaningStep DEF GatewayInv
  <2>4. HandlersOwned'
    BY <1>1, HandlersOwnedStep
  <2>. QED
    BY <2>1, <2>2, <2>3, <2>4 DEF GatewayInv
<1>2. CASE UNCHANGED vars
  BY <1>2 DEF vars, registry, sockets, history, GatewayInv, TypeOK, Lifecycle, Presence,
     CleaningIsClosed, Numbered, HandlersOwned
<1>. QED
  BY <1>1, <1>2

(* Whatever the order in which connections, cleanups, messages and Redis's *)
(* answers come: what the gateway keeps of a socket follows its            *)
(* connection, and every registered handler is the one its socket's map    *)
(* names and its cleanup has still to meet, or was answered too late.      *)
THEOREM GatewayInvariant == Spec => []GatewayInv
BY InitOwned, GatewayInvStep, PTL DEF Spec

(* When handleDisconnect of a registered socket is over, none of the three *)
(* maps of the process holds it any more.                                  *)
THEOREM ClosedIsForgotten == Spec => []ClosedSocketForgotten
<1>1. GatewayInv => ClosedSocketForgotten
  <2>. SUFFICES ASSUME GatewayInv, failures = 0, NEW s \in Sockets,
                       link[s] = "closed", cleanup[s].at = "done"
                PROVE  /\ s \notin userSockets[UserOf[s]]
                       /\ ~socketChannels[s].known
                       /\ \A c \in Channels, n \in Numbers :
                            <<s, n>> \in handlers[c].fns => <<c, <<s, n>>>> \in late
    BY DEF ClosedSocketForgotten
  <2>1. s \notin userSockets[UserOf[s]]
    BY UserHasChannel DEF GatewayInv, Presence
  <2>2. ~socketChannels[s].known
    BY DEF GatewayInv, Lifecycle
  <2>. QED
    BY <2>1, <2>2 DEF GatewayInv, HandlersOwned
<1>. QED
  BY <1>1, GatewayInvariant, PTL

-----------------------------------------------------------------------------
(* What the process believes and what Redis will do.                       *)

(* A step of a connection moves every channel by at most one handler.      *)
LEMMA ChannelMoves ==
  ASSUME TypeOK, NEW s \in Sockets, Client(s) \/ Gateway(s) \/ PublishFails(s), NEW c \in Channels
  PROVE  \/ Kept(c)
         \/ \E g \in Handlers : Enters(c, g)
         \/ \E g \in Handlers, cleaning \in BOOLEAN : Quits(c, g, cleaning)
<1>1. ASSUME NEW chans \in MapOf, NEW cs \in SUBSET Channels, SubscribeSocket(s, chans, cs)
      PROVE  Kept(c) \/ \E g \in Handlers : Enters(c, g)
  <2>1. \A d \in Channels :
          IF d \in cs /\ chans.of[d] = 0
          THEN /\ made[s][d] + 1 \in Numbers /\ <<s, made[s][d] + 1>> \in Handlers
               /\ Enters(d, <<s, made[s][d] + 1>>)
               /\ made'[s][d] = made[s][d] + 1
               /\ socketChannels'[s].of[d] = made[s][d] + 1
          ELSE /\ Kept(d)
               /\ made'[s][d] = made[s][d]
               /\ socketChannels'[s].of[d] = chans.of[d]
    BY <1>1, SubscribeFacts
  <2>. QED
    BY <2>1
<1>2. ASSUME NEW cs \in SUBSET Channels, NEW cleaning \in BOOLEAN,
             \A d \in cs : socketChannels[s].of[d] # 0, UnsubscribeHandlers(s, cs, cleaning)
      PROVE  Kept(c) \/ \E g \in Handlers : Quits(c, g, cleaning)
  <2>1. /\ \A d \in cs : /\ <<s, socketChannels[s].of[d]>> \in Handlers
                         /\ Quits(d, <<s, socketChannels[s].of[d]>>, cleaning)
        /\ \A d \in Channels \ cs : Kept(d)
    BY <1>2, UnsubscribeQuits
  <2>. QED
    BY <2>1
<1>3. CASE Registered(s)
  BY <1>1, <1>3, RegisteredFacts
<1>4. CASE ChatSubscribe(s)
  <2>1. CASE UNCHANGED <<made, socketChannels, handlers, wire>>
    BY <2>1 DEF Kept
  <2>2. CASE \E cs \in SUBSET Channels : SubscribeSocket(s, socketChannels[s], cs)
    BY <1>1, <1>4, <2>2, ChatSubscribeFacts
  <2>. QED
    BY <1>4, <2>1, <2>2, ChatSubscribeFacts
<1>5. CASE ChatUnsubscribe(s)
  BY <1>2, <1>5, ChatUnsubscribeFacts
<1>6. CASE CleanupUnsubscribe(s)
  <2>1. PICK d \in Channels : socketChannels[s].of[d] # 0 /\ UnsubscribeHandlers(s, {d}, TRUE)
    BY <1>6, VisitFacts
  <2>2. {d} \in SUBSET Channels /\ \A x \in {d} : socketChannels[s].of[x] # 0
    BY <2>1
  <2>. QED
    BY <1>2, <2>1, <2>2
<1>7. CASE CleanupDone(s)
  BY <1>7 DEF CleanupDone, registry, Kept
<1>8. CASE QuietSocket(s)
  BY <1>8, QuietFacts DEF Kept
<1>. QED
  BY <1>3, <1>4, <1>5, <1>6, <1>7, <1>8 DEF Gateway, QuietSocket

LEMMA ConnectionKeepsRedis ==
  ASSUME NEW s \in Sockets, Client(s) \/ Gateway(s) \/ PublishFails(s)
  PROVE  redisSubs' = redisSubs /\ (failures' = failures \/ PublishFails(s))
BY DEF Client, Connect, ClientDisconnects, Arrives, ArrivesTooEarly, Gateway, Registered,
   ConnectionRejected, CleanupPublished, CleanupUnsubscribe, CleanupDone, GuardRejects,
   ChatSubscribe, ChatUnsubscribe, PublishFails, registry, history

(* What HandlersMatchRedis says of one channel.                            *)
Matches(c) ==
  /\ handlers[c].known <=> WillListen(c)
  /\ handlers[c].known /\ handlers[c].fns = {} => \E h \in Handlers : Awaiting(c, h)

LEMMA MatchesMove ==
  ASSUME TypeOK, NEW c \in Channels, Matches(c), redisSubs' = redisSubs,
         \/ Kept(c)
         \/ \E g \in Handlers : Enters(c, g)
         \/ \E g \in Handlers, cleaning \in BOOLEAN : Quits(c, g, cleaning)
  PROVE  Matches(c)'
<1>0. wire[c] \in Seq(Command)
  BY DEF TypeOK
<1>1. CASE Kept(c)
  BY <1>1 DEF Kept, Matches, WillListen, Awaiting
<1>2. ASSUME NEW g \in Handlers, Opens(c, g)
      PROVE  Matches(c)'
  <2>1. Sub(g) \in Command /\ Sub(g).cmd = "sub"
    BY CommandShapes
  <2>2. /\ wire'[c] # <<>> /\ wire'[c][Len(wire'[c])] = Sub(g)
        /\ Len(wire'[c]) \in DOMAIN wire'[c]
    <3>1. Append(wire[c], Sub(g)) \in Seq(Command) /\ Append(wire[c], Sub(g)) # <<>>
          /\ Append(wire[c], Sub(g))[Len(Append(wire[c], Sub(g)))] = Sub(g)
      BY <1>0, <2>1, AppendFacts
    <3>2. \A q \in Seq(Command) : q # <<>> => Len(q) \in DOMAIN q
      OBVIOUS
    <3>. QED
      BY <1>2, <3>1, <3>2 DEF Opens
  <2>. QED
    BY <1>2, <2>1, <2>2 DEF Opens, Matches, WillListen, Awaiting
<1>3. ASSUME NEW g \in Handlers, Joins(c, g) \/ Parts(c, g)
      PROVE  Matches(c)'
  BY <1>3 DEF Joins, Parts, Matches, WillListen, Awaiting
<1>4. ASSUME NEW g \in Handlers, NEW cleaning \in BOOLEAN, Closes(c, g, cleaning)
      PROVE  Matches(c)'
  <2>1. Unsub(g, cleaning) \in Command /\ Unsub(g, cleaning).cmd = "unsub"
    BY CommandShapes
  <2>2. wire'[c] # <<>> /\ wire'[c][Len(wire'[c])] = Unsub(g, cleaning)
    <3>1. /\ Append(wire[c], Unsub(g, cleaning)) # <<>>
          /\ Append(wire[c], Unsub(g, cleaning))[Len(Append(wire[c], Unsub(g, cleaning)))]
               = Unsub(g, cleaning)
      BY <1>0, <2>1, AppendFacts
    <3>. QED
      BY <1>4, <3>1 DEF Closes
  <2>. QED
    BY <1>4, <2>1, <2>2 DEF Closes, Matches, WillListen, Absent
<1>. QED
  BY <1>1, <1>2, <1>3, <1>4 DEF Enters, Quits

LEMMA MatchesAnswer ==
  ASSUME TypeOK, NEW c \in Channels, SubscribeAnswered(c) \/ UnsubscribeAnswered(c),
         \A d \in Channels : Matches(d)
  PROVE  \A d \in Channels : Matches(d)'
<1>1. /\ wire[c] # <<>> /\ wire' = [wire EXCEPT ![c] = Tail(@)]
      /\ \A d \in Channels \ {c} : (d \in redisSubs') <=> (d \in redisSubs)
  BY DEF SubscribeAnswered, UnsubscribeAnswered
<1>2. /\ wire[c] \in Seq(Command)
      /\ wire'[c] = Tail(wire[c]) /\ \A d \in Channels \ {c} : wire'[d] = wire[d]
  BY <1>1, AnswerFacts
<1>3. /\ Head(wire[c]) = wire[c][1]
      /\ \A i \in DOMAIN wire[c] :
           i = 1 \/ (i - 1 \in DOMAIN Tail(wire[c]) /\ Tail(wire[c])[i - 1] = wire[c][i])
      /\ Tail(wire[c]) = <<>> => wire[c][Len(wire[c])] = Head(wire[c])
      /\ Tail(wire[c]) # <<>> => Tail(wire[c])[Len(Tail(wire[c]))] = wire[c][Len(wire[c])]
  BY <1>1, <1>2, TailFacts
<1>4. CASE SubscribeAnswered(c)
  <2>1. PICK h \in Handlers : h = Head(wire[c]).by
    BY <1>1, AnswerFacts
  <2>2. /\ \A d \in Channels \ {c} : handlers'[d] = handlers[d]
        /\ handlers[c].known => handlers'[c] = [known |-> TRUE, fns |-> handlers[c].fns \cup {h}]
        /\ ~handlers[c].known => handlers'[c] = handlers[c]
    BY <1>4, <2>1, SubscribeAnsweredFacts
  <2>3. Head(wire[c]).cmd = "sub" /\ c \in redisSubs'
    BY <1>4 DEF SubscribeAnswered
  <2>4. (handlers'[c].known <=> handlers[c].known)
        /\ (handlers'[c].known => handlers'[c].fns # {})
    BY <2>2
  <2>5. WillListen(c)' <=> WillListen(c)
    BY <1>1, <1>2, <1>3, <2>3 DEF WillListen
  <2>6. Matches(c)'
    BY <2>4, <2>5 DEF Matches
  <2>7. \A d \in Channels \ {c} : Matches(d)'
    BY <1>1, <1>2, <2>2 DEF Matches, WillListen, Awaiting
  <2>. QED
    BY <2>6, <2>7
<1>5. CASE UnsubscribeAnswered(c)
  <2>1. Head(wire[c]).cmd = "unsub" /\ c \notin redisSubs' /\ UNCHANGED handlers
    BY <1>5 DEF UnsubscribeAnswered
  <2>2. WillListen(c)' <=> WillListen(c)
    BY <1>1, <1>2, <1>3, <2>1 DEF WillListen
  <2>3. ASSUME NEW h \in Handlers, Awaiting(c, h)
        PROVE  Awaiting(c, h)'
    <3>1. PICK i \in DOMAIN wire[c] : wire[c][i] = Sub(h)
      BY <2>3 DEF Awaiting
    <3>2. i # 1
      <4>1. Sub(h).cmd = "sub"
        BY CommandShapes
      <4>. QED
        BY <1>3, <2>1, <3>1, <4>1
    <3>. QED
      BY <1>2, <1>3, <3>1, <3>2 DEF Awaiting
  <2>4. Matches(c)'
    BY <2>1, <2>2, <2>3 DEF Matches
  <2>5. \A d \in Channels \ {c} : Matches(d)'
    BY <1>1, <1>2, <2>1 DEF Matches, WillListen, Awaiting
  <2>. QED
    BY <2>4, <2>5
<1>. QED
  BY <1>4, <1>5

(* As long as Redis fails no command, a channel has handlers in the        *)
(* process exactly if Redis will deliver it once the commands under way    *)
(* are answered, whatever the interleaving of the sockets that share it.   *)
THEOREM RegistryMatchesRedis == Spec => []HandlersMatchRedis
<1>1. Init => HandlersMatchRedis
  BY DEF Init, HandlersMatchRedis, WillListen, Absent
<1>2. TypeOK /\ HandlersMatchRedis /\ [Next]_vars => HandlersMatchRedis'
  <2>. SUFFICES ASSUME TypeOK, HandlersMatchRedis, [Next]_vars, failures' = 0
                PROVE  \A c \in Channels : Matches(c)'
    BY DEF HandlersMatchRedis, Matches
  <2>0. failures = 0 => \A c \in Channels : Matches(c)
    BY DEF HandlersMatchRedis, Matches
  <2>1. failures \in Nat
    BY DEF TypeOK
  <2>2. ASSUME NEW s \in Sockets, Client(s) \/ Gateway(s) \/ PublishFails(s)
        PROVE  \A c \in Channels : Matches(c)'
    <3>1. redisSubs' = redisSubs /\ failures = 0
      BY <2>1, <2>2, ConnectionKeepsRedis DEF PublishFails
    <3>. QED
      BY <2>0, <2>2, <3>1, ChannelMoves, MatchesMove
  <2>3. ASSUME NEW c \in Channels, Redis(c)
        PROVE  \A d \in Channels : Matches(d)'
    <3>1. ~CommandFails(c)
      BY <2>1 DEF CommandFails
    <3>2. failures = 0
      BY <2>3, <3>1 DEF Redis, SubscribeAnswered, UnsubscribeAnswered, history
    <3>. QED
      BY <2>0, <2>3, <3>1, <3>2, MatchesAnswer DEF Redis
  <2>4. CASE UNCHANGED vars
    BY <2>0, <2>4 DEF vars, registry, history, Matches, WillListen, Awaiting
  <2>. QED
    BY <2>2, <2>3, <2>4 DEF Next
<1>. QED
  BY <1>1, <1>2, GatewayIsTyped, PTL DEF Spec

-----------------------------------------------------------------------------
(* A socket that believes to be subscribed is.                             *)

Heard(c, h) == h \in handlers[c].fns \/ Awaiting(c, h) \/ <<c, h>> \in thrown

(* Only a handler's own departure silences it.                             *)
LEMMA HeardMove ==
  ASSUME TypeOK, HandlersOwned, NEW c \in Channels, NEW h \in Handlers, Heard(c, h),
         thrown' = thrown,
         \/ Kept(c)
         \/ \E g \in Handlers : Enters(c, g)
         \/ \E g \in Handlers \ {h}, cleaning \in BOOLEAN : Quits(c, g, cleaning)
  PROVE  Heard(c, h)'
<1>0. wire[c] \in Seq(Command) /\ (~handlers[c].known => handlers[c].fns = {})
  BY DEF TypeOK, HandlersOwned
<1>1. CASE h \in handlers[c].fns
  <2>1. handlers[c].known /\ handlers[c].fns # {}
    BY <1>0, <1>1
  <2>2. \A g \in Handlers \ {h} : h \in handlers[c].fns \ {g}
    BY <1>1
  <2>3. CASE Kept(c)
    BY <1>1, <2>3 DEF Heard, Kept
  <2>4. CASE \E g \in Handlers : Enters(c, g)
    BY <1>1, <2>1, <2>4 DEF Heard, Enters, Opens, Joins
  <2>5. CASE \E g \in Handlers \ {h}, cleaning \in BOOLEAN : Quits(c, g, cleaning)
    <3>1. PICK g \in Handlers \ {h}, cleaning \in BOOLEAN : Quits(c, g, cleaning)
      BY <2>5
    <3>2. h \in handlers[c].fns \ {g}
      BY <2>2
    <3>. QED
      BY <2>1, <3>1, <3>2 DEF Heard, Quits, Parts, Closes
  <2>. QED
    BY <2>3, <2>4, <2>5
<1>2. CASE Awaiting(c, h)
  <2>1. \/ wire'[c] = wire[c]
        \/ \E e \in Command : wire'[c] = Append(wire[c], e)
    BY CommandShapes DEF Kept, Enters, Opens, Joins, Quits, Parts, Closes
  <2>2. \A i \in DOMAIN wire[c] : i \in DOMAIN wire'[c] /\ wire'[c][i] = wire[c][i]
    BY <1>0, <2>1, AppendFacts
  <2>. QED
    BY <1>2, <2>2 DEF Heard, Awaiting
<1>3. CASE <<c, h>> \in thrown
  BY <1>3 DEF Heard
<1>. QED
  BY <1>1, <1>2, <1>3 DEF Heard

(* Who enters a channel is heard of.                                       *)
LEMMA EnteredIsHeard ==
  ASSUME TypeOK, NEW c \in Channels, NEW h \in Handlers, Enters(c, h)
  PROVE  Heard(c, h)'
<1>1. CASE Joins(c, h)
  BY <1>1 DEF Joins, Heard
<1>2. CASE Opens(c, h)
  <2>1. wire[c] \in Seq(Command) /\ Sub(h) \in Command
    BY CommandShapes DEF TypeOK
  <2>2. /\ Append(wire[c], Sub(h))[Len(Append(wire[c], Sub(h)))] = Sub(h)
        /\ Len(Append(wire[c], Sub(h))) \in DOMAIN Append(wire[c], Sub(h))
    BY <2>1
  <2>. QED
    BY <1>2, <2>2 DEF Opens, Heard, Awaiting
<1>. QED
  BY <1>1, <1>2 DEF Enters

(* Redis's answer to the SUBSCRIBE of h, or its failure, leaves h heard of.*)
LEMMA HeardAnswer ==
  ASSUME TypeOK, NEW c \in Channels, Redis(c), NEW d \in Channels, NEW h \in Handlers, Heard(d, h)
  PROVE  Heard(d, h)'
<1>1. wire[c] # <<>> /\ wire' = [wire EXCEPT ![c] = Tail(@)]
  BY DEF Redis, SubscribeAnswered, UnsubscribeAnswered, CommandFails
<1>2. /\ wire[c] \in Seq(Command)
      /\ wire'[c] = Tail(wire[c]) /\ \A x \in Channels \ {c} : wire'[x] = wire[x]
  BY <1>1, AnswerFacts
<1>3. /\ Head(wire[c]) = wire[c][1]
      /\ \A i \in DOMAIN wire[c] :
           i = 1 \/ (i - 1 \in DOMAIN Tail(wire[c]) /\ Tail(wire[c])[i - 1] = wire[c][i])
  BY <1>1, <1>2, TailFacts
<1>4. thrown \subseteq thrown'
  BY DEF Redis, SubscribeAnswered, UnsubscribeAnswered, CommandFails, history
<1>5. handlers[d].fns \subseteq handlers'[d].fns
  <2>1. PICK g \in Handlers : g = Head(wire[c]).by
    BY <1>1, AnswerFacts
  <2>2. CASE SubscribeAnswered(c)
    <3>1. /\ \A x \in Channels \ {c} : handlers'[x] = handlers[x]
          /\ handlers[c].known => handlers'[c] = [known |-> TRUE, fns |-> handlers[c].fns \cup {g}]
          /\ ~handlers[c].known => handlers'[c] = handlers[c]
      BY <2>1, <2>2, SubscribeAnsweredFacts
    <3>. QED
      BY <3>1
  <2>3. CASE UNCHANGED handlers
    BY <2>3
  <2>. QED
    BY <2>2, <2>3 DEF Redis, UnsubscribeAnswered, CommandFails
<1>6. CASE Awaiting(d, h)
  <2>1. CASE d # c
    BY <1>2, <1>6, <2>1 DEF Awaiting, Heard
  <2>2. CASE d = c
    <3>1. PICK i \in DOMAIN wire[c] : wire[c][i] = Sub(h)
      BY <1>6, <2>2 DEF Awaiting
    <3>2. CASE i # 1
      BY <1>2, <1>3, <2>2, <3>1, <3>2 DEF Awaiting, Heard
    <3>3. CASE i = 1
      <4>1. Head(wire[c]).by = h /\ Head(wire[c]).cmd = "sub"
        BY <1>3, <3>1, <3>3 DEF Sub
      <4>2. CASE SubscribeAnswered(c) /\ handlers[c].known
        <5>1. handlers'[c] = [known |-> TRUE, fns |-> handlers[c].fns \cup {h}]
          BY <4>1, <4>2, SubscribeAnsweredFacts
        <5>. QED
          BY <2>2, <5>1 DEF Heard
      <4>3. CASE (SubscribeAnswered(c) /\ ~handlers[c].known) \/ CommandFails(c)
        BY <2>2, <4>1, <4>3 DEF SubscribeAnswered, CommandFails, Heard
      <4>4. ~UnsubscribeAnswered(c)
        BY <4>1 DEF UnsubscribeAnswered
      <4>. QED
        BY <4>2, <4>3, <4>4 DEF Redis
    <3>. QED
      BY <3>2, <3>3
  <2>. QED
    BY <2>1, <2>2
<1>. QED
  BY <1>4, <1>5, <1>6 DEF Heard

(* A cleanup that has begun does not come back to its beginning.           *)
LEMMA CleanupBegun ==
  ASSUME TypeOK, Next, NEW x \in Sockets, cleanup'[x].at = "none"
  PROVE  cleanup[x].at = "none"
<1>1. ASSUME NEW s \in Sockets, NEW how \in {"dropped", "closed"}, Disconnected(s, how)
      PROVE  cleanup[x].at = "none"
  <2>1. cleanup'[s].at # "none" /\ \A y \in Sockets \ {s} : cleanup'[y] = cleanup[y]
    BY <1>1, DisconnectFacts
  <2>. QED
    BY <2>1
<1>2. ASSUME NEW s \in Sockets, NEW at \in Ats, at # "none",
             cleanup' = [cleanup EXCEPT ![s].at = at]
      PROVE  cleanup[x].at = "none"
  <2>1. cleanup'[s].at = at /\ \A y \in Sockets \ {s} : cleanup'[y] = cleanup[y]
    BY <1>2, AtStep
  <2>. QED
    BY <1>2, <2>1
<1>3. ASSUME UNCHANGED cleanup
      PROVE  cleanup[x].at = "none"
  BY <1>3
<1>4. ASSUME NEW s \in Sockets, Client(s) \/ Gateway(s) \/ PublishFails(s)
      PROVE  cleanup[x].at = "none"
  <2>1. CASE CleanupUnsubscribe(s)
    <3>1. /\ cleanup'[s].at \in {"await", "next"}
          /\ \A y \in Sockets \ {s} : cleanup'[y] = cleanup[y]
      BY <2>1, VisitFacts
    <3>. QED
      BY <3>1
  <2>2. CASE CleanupDone(s)
    BY <2>2 DEF CleanupDone, TypeOK
  <2>3. CASE CleanupPublished(s) \/ PublishFails(s)
    BY <1>2, <2>3 DEF CleanupPublished, PublishFails, Ats
  <2>4. CASE Registered(s) \/ ChatSubscribe(s) \/ ChatUnsubscribe(s) \/ Connect(s) \/ Arrives(s)
    BY <1>3, <2>4 DEF Registered, ChatSubscribe, ChatUnsubscribe, Connect, Arrives
  <2>5. CASE ClientDisconnects(s) \/ ArrivesTooEarly(s) \/ ConnectionRejected(s) \/ GuardRejects(s)
    <3>1. UNCHANGED cleanup \/ \E how \in {"dropped", "closed"} : Disconnected(s, how)
      BY <2>5 DEF ClientDisconnects, ArrivesTooEarly, ConnectionRejected, GuardRejects
    <3>. QED
      BY <1>1, <1>3, <3>1
  <2>. QED
    BY <1>4, <2>1, <2>2, <2>3, <2>4, <2>5 DEF Client, Gateway
<1>5. ASSUME NEW c \in Channels, Redis(c)
      PROVE  cleanup[x].at = "none"
  <2>1. wire[c] # <<>> /\ wire' = [wire EXCEPT ![c] = Tail(@)]
    BY <1>5 DEF Redis, SubscribeAnswered, UnsubscribeAnswered, CommandFails
  <2>2. PICK s \in Sockets : s = Head(wire[c]).by[1]
    BY <2>1, AnswerFacts
  <2>3. \/ cleanup' = cleanup
        \/ cleanup' = [cleanup EXCEPT ![s].at = "next"]
        \/ cleanup' = [cleanup EXCEPT ![s].at = "done"]
    BY <1>5, <2>2 DEF Redis, SubscribeAnswered, UnsubscribeAnswered, ResumeCleanup, CommandFails,
       sockets
  <2>. QED
    BY <1>2, <1>3, <2>3 DEF Ats
<1>. QED
  BY <1>4, <1>5 DEF Next

(* What MappedIsRegistered says of one socket and one channel.             *)
Hears(s, c) ==
  socketChannels[s].of[c] # 0 /\ cleanup[s].at = "none" =>
    Heard(c, <<s, socketChannels[s].of[c]>>)

LEMMA MapHandler ==
  ASSUME TypeOK, NEW s \in Sockets, NEW c \in Channels, socketChannels[s].of[c] # 0
  PROVE  <<s, socketChannels[s].of[c]>> \in Handlers
<1>1. socketChannels[s].of[c] \in 0..MaxSubs
  BY DEF TypeOK
<1>. QED
  BY <1>1, GatewayConstants DEF Handlers, Numbers

LEMMA HearsEnter ==
  ASSUME TypeOK, HandlersOwned, UNCHANGED <<cleanup, thrown>>,
         NEW s \in Sockets, NEW chans \in MapOf, NEW cs \in SUBSET Channels,
         SubscribeSocket(s, chans, cs),
         chans = socketChannels[s] \/ \A c \in Channels : chans.of[c] = 0,
         NEW x \in Sockets, NEW c \in Channels, Hears(x, c)
  PROVE  Hears(x, c)'
<1>1. /\ \A y \in Sockets \ {s} : socketChannels'[y] = socketChannels[y]
      /\ \A d \in Channels :
           IF d \in cs /\ chans.of[d] = 0
           THEN /\ made[s][d] + 1 \in Numbers /\ <<s, made[s][d] + 1>> \in Handlers
                /\ Enters(d, <<s, made[s][d] + 1>>)
                /\ made'[s][d] = made[s][d] + 1
                /\ socketChannels'[s].of[d] = made[s][d] + 1
           ELSE /\ Kept(d)
                /\ made'[s][d] = made[s][d]
                /\ socketChannels'[s].of[d] = chans.of[d]
  BY SubscribeFacts, ZenonT(30)
<1>2. Kept(c) \/ \E g \in Handlers : Enters(c, g)
  BY <1>1
<1>3. SUFFICES ASSUME socketChannels'[x].of[c] # 0, cleanup[x].at = "none"
               PROVE  Heard(c, <<x, socketChannels[x].of[c]>>)'
  BY DEF Hears
<1>4. CASE socketChannels'[x].of[c] = socketChannels[x].of[c]
  <2>. DEFINE h == <<x, socketChannels[x].of[c]>>
  <2>1. h \in Handlers /\ Heard(c, h)
    BY <1>3, <1>4, MapHandler DEF Hears
  <2>2. Heard(c, h)'
    <3>1. PICK k \in Handlers : k = h
      BY <2>1
    <3>2. Heard(c, k)'
      BY <1>2, <2>1, <3>1, HeardMove
    <3>. QED
      BY <1>4, <3>1, <3>2 DEF Heard, Awaiting
  <2>. QED
    BY <1>4, <2>2 DEF Heard, Awaiting
<1>5. CASE socketChannels'[x].of[c] # socketChannels[x].of[c]
  <2>1. x = s /\ c \in cs /\ chans.of[c] = 0
    BY <1>1, <1>3, <1>5
  <2>2. PICK k \in Handlers : k = <<s, socketChannels'[s].of[c]>> /\ Enters(c, k)
    BY <1>1, <2>1
  <2>3. Heard(c, k)'
    BY <2>2, EnteredIsHeard
  <2>. QED
    BY <2>1, <2>2, <2>3 DEF Heard, Awaiting
<1>. QED
  BY <1>4, <1>5

LEMMA HearsQuit ==
  ASSUME TypeOK, HandlersOwned, thrown' = thrown,
         NEW s \in Sockets, NEW cs \in SUBSET Channels, NEW cleaning \in BOOLEAN,
         \A c \in cs : socketChannels[s].of[c] # 0, UnsubscribeHandlers(s, cs, cleaning),
         NEW x \in Sockets, NEW c \in Channels, Hears(x, c),
         cleanup'[x].at = "none" => cleanup[x].at = "none",
         socketChannels'[x].of[c] = socketChannels[x].of[c],
         x = s => c \notin cs
  PROVE  Hears(x, c)'
<1>1. SUFFICES ASSUME socketChannels[x].of[c] # 0, cleanup[x].at = "none"
               PROVE  Heard(c, <<x, socketChannels[x].of[c]>>)'
  BY DEF Hears
<1>2. PICK h \in Handlers : h = <<x, socketChannels[x].of[c]>> /\ Heard(c, h)
  BY <1>1, MapHandler DEF Hears
<1>3. Kept(c) \/ \E g \in Handlers \ {h} : Quits(c, g, cleaning)
  <2>1. /\ \A d \in cs : /\ <<s, socketChannels[s].of[d]>> \in Handlers
                         /\ Quits(d, <<s, socketChannels[s].of[d]>>, cleaning)
        /\ \A d \in Channels \ cs : Kept(d)
    BY UnsubscribeQuits
  <2>2. x # s => <<s, socketChannels[s].of[c]>> # h
    BY <1>2
  <2>. QED
    BY <2>1, <2>2
<1>4. Heard(c, h)'
  BY <1>2, <1>3, HeardMove
<1>. QED
  BY <1>2, <1>4 DEF Heard, Awaiting

(* No unsubscription of another socket, no cleanup and no order of Redis's *)
(* answers takes from a connected socket a channel its map holds, unless   *)
(* its own subscribe ended in an exception.                                *)
THEOREM MappedSocketsAreHeard == Spec => []MappedIsRegistered
<1>1. Init => MappedIsRegistered
  BY DEF Init, MappedIsRegistered, NoMap
<1>2. GatewayInv /\ MappedIsRegistered /\ [Next]_vars => MappedIsRegistered'
  <2>. SUFFICES ASSUME GatewayInv, MappedIsRegistered, [Next]_vars,
                       NEW x \in Sockets, NEW c \in Channels
                PROVE  Hears(x, c)'
    BY DEF MappedIsRegistered, Hears, Heard, Awaiting
  <2>0. TypeOK /\ HandlersOwned /\ Hears(x, c)
    BY DEF GatewayInv, MappedIsRegistered, Hears, Heard
  <2>1. CASE Next
    <3>0. cleanup'[x].at = "none" => cleanup[x].at = "none"
      BY <2>0, <2>1, CleanupBegun
    <3>1. ASSUME NEW s \in Sockets, Client(s) \/ Gateway(s) \/ PublishFails(s)
          PROVE  Hears(x, c)'
      <4>1. CASE QuietSocket(s)
        <5>1. UNCHANGED <<handlers, wire, socketChannels>>
          BY <2>0, <4>1, QuietFacts
        <5>2. UNCHANGED thrown
          BY <4>1 DEF QuietSocket, Client, Connect, ClientDisconnects, Arrives, ArrivesTooEarly,
             ConnectionRejected, CleanupPublished, GuardRejects, PublishFails, history
        <5>. QED
          BY <2>0, <3>0, <5>1, <5>2 DEF Hears, Heard, Awaiting
      <4>2. CASE Registered(s)
        <5>1. /\ NewMap \in MapOf /\ {UserOf[s]} \in SUBSET Channels
              /\ SubscribeSocket(s, NewMap, {UserOf[s]}) /\ UNCHANGED <<cleanup, thrown>>
          BY <2>0, <4>2, RegisteredFacts
        <5>2. \A d \in Channels : NewMap.of[d] = 0
          BY DEF NewMap
        <5>. QED
          BY <2>0, <5>1, <5>2, HearsEnter
      <4>3. CASE ChatSubscribe(s)
        <5>1. /\ UNCHANGED <<cleanup, thrown>> /\ socketChannels[s] \in MapOf
              /\ \/ \E cs \in SUBSET Channels : SubscribeSocket(s, socketChannels[s], cs)
                 \/ UNCHANGED <<made, socketChannels, handlers, wire>>
          BY <2>0, <4>3, ChatSubscribeFacts
        <5>2. CASE UNCHANGED <<made, socketChannels, handlers, wire>>
          BY <2>0, <5>1, <5>2 DEF Hears, Heard, Awaiting
        <5>3. CASE \E cs \in SUBSET Channels : SubscribeSocket(s, socketChannels[s], cs)
          BY <2>0, <5>1, <5>3, HearsEnter
        <5>. QED
          BY <5>1, <5>2, <5>3
      <4>4. CASE ChatUnsubscribe(s)
        <5>1. PICK mine \in SUBSET Channels :
                /\ \A d \in mine : socketChannels[s].of[d] # 0
                /\ UnsubscribeHandlers(s, mine, FALSE)
                /\ socketChannels' = [socketChannels EXCEPT ![s].of =
                     [d \in Channels |-> IF d \in mine THEN 0 ELSE @[d]]]
          BY <2>0, <4>4, ChatUnsubscribeFacts
        <5>2. UNCHANGED <<cleanup, thrown>>
          BY <2>0, <4>4, ChatUnsubscribeFacts
        <5>3. /\ \A d \in Channels :
                   socketChannels'[s].of[d] = IF d \in mine THEN 0 ELSE socketChannels[s].of[d]
              /\ \A y \in Sockets \ {s} : socketChannels'[y] = socketChannels[y]
          BY <2>0, <5>1, UnmapFacts
        <5>4. CASE x = s /\ c \in mine
          BY <5>3, <5>4 DEF Hears
        <5>5. CASE ~(x = s /\ c \in mine)
          <6>1. socketChannels'[x].of[c] = socketChannels[x].of[c]
            BY <5>3, <5>5
          <6>. QED
            BY <2>0, <3>0, <5>1, <5>2, <5>5, <6>1, HearsQuit
        <5>. QED
          BY <5>4, <5>5
      <4>5. CASE CleanupUnsubscribe(s)
        <5>1. PICK d \in Channels :
                /\ socketChannels[s].of[d] # 0 /\ UnsubscribeHandlers(s, {d}, TRUE)
                /\ cleanup'[s].at \in {"await", "next"}
          BY <2>0, <4>5, VisitFacts
        <5>2. UNCHANGED <<socketChannels, thrown>>
          BY <4>5 DEF CleanupUnsubscribe, history
        <5>3. {d} \in SUBSET Channels /\ \A y \in {d} : socketChannels[s].of[y] # 0
          BY <5>1
        <5>4. CASE x = s
          BY <5>1, <5>4 DEF Hears
        <5>5. CASE x # s
          BY <2>0, <3>0, <5>1, <5>2, <5>3, <5>5, HearsQuit
        <5>. QED
          BY <5>4, <5>5
      <4>6. CASE CleanupDone(s)
        <5>1. /\ UNCHANGED <<handlers, wire, thrown>> /\ cleanup'[s].at = "done"
              /\ \A y \in Sockets \ {s} : socketChannels'[y] = socketChannels[y]
          BY <2>0, <4>6 DEF CleanupDone, TypeOK, registry, history
        <5>2. CASE x = s
          BY <5>1, <5>2 DEF Hears
        <5>3. CASE x # s
          BY <2>0, <3>0, <5>1, <5>3 DEF Hears, Heard, Awaiting
        <5>. QED
          BY <5>2, <5>3
      <4>. QED
        BY <3>1, <4>1, <4>2, <4>3, <4>4, <4>5, <4>6 DEF Gateway, QuietSocket
    <3>2. ASSUME NEW d \in Channels, Redis(d)
          PROVE  Hears(x, c)'
      <4>1. UNCHANGED socketChannels
        BY <2>0, <3>2, AnswerVisits
      <4>2. SUFFICES ASSUME socketChannels[x].of[c] # 0, cleanup[x].at = "none"
                     PROVE  Heard(c, <<x, socketChannels[x].of[c]>>)'
        BY <3>0, <4>1 DEF Hears
      <4>3. PICK h \in Handlers : h = <<x, socketChannels[x].of[c]>> /\ Heard(c, h)
        BY <2>0, <4>2, MapHandler DEF Hears
      <4>4. Heard(c, h)'
        BY <2>0, <3>2, <4>3, HeardAnswer
      <4>. QED
        BY <4>1, <4>3, <4>4 DEF Heard, Awaiting
    <3>. QED
      BY <2>1, <3>1, <3>2 DEF Next
  <2>2. CASE UNCHANGED vars
    BY <2>0, <2>2 DEF vars, registry, sockets, history, Hears, Heard, Awaiting
  <2>. QED
    BY <2>1, <2>2
<1>. QED
  BY <1>1, <1>2, GatewayInvariant, PTL DEF Spec
=============================================================================
