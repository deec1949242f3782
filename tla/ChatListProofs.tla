---------------------------- MODULE ChatListProofs ----------------------------
(* Proofs about ChatList, for every value of its constants.                *)
EXTENDS ChatList, FiniteSetTheorems, WellFoundedInduction, TLAPS

-----------------------------------------------------------------------------
(* Helpers.                                                                *)

(* What a fetch holds, by how far it is.                                   *)
LEMMA FetchShapes ==
  ASSUME NEW x \in Fetch
  PROVE  /\ x.pc \in {"none", "asked", "count", "set"}
         /\ x.pc = "none" => x = NoFetch
         /\ x.pc = "asked" => x = Asked
         /\ x.pc = "count" => x \in [pc : {"count"}, list : SUBSET Chats]
         /\ x.pc = "set" =>
              x \in [pc : {"set"}, list : SUBSET Chats, unread : Counts, upTo : Counts]
BY DEF Fetch, NoFetch, Asked

LEMMA NumbersTypes ==
  /\ TypeOK => \A c \in Chats :
       unread[c] \in Nat /\ news[c] \in Nat /\ seen[c] \in Nat
  /\ TypeOK' => \A c \in Chats :
       unread'[c] \in Nat /\ news'[c] \in Nat /\ seen'[c] \in Nat
<1>1. \A f \in Counts : \A c \in Chats : f[c] \in Nat
  BY ListConstants DEF Counts
<1>2. TypeOK => unread \in Counts /\ news \in Counts /\ seen \in Counts
  BY DEF TypeOK
<1>3. TypeOK' => unread' \in Counts /\ news' \in Counts /\ seen' \in Counts
  BY DEF TypeOK, Counts
<1>. QED
  BY <1>1, <1>2, <1>3

LEMMA CallShapes ==
  ASSUME NEW x \in Call
  PROVE  /\ x.pc \in {"none", "create", "delete"}
         /\ x.pc = "none" <=> x = NoCall
         /\ x # NoCall => x.chat \in Chats
BY DEF Call, NoCall

(* Of some numbers up to a bound one is the greatest.                      *)
LEMMA Greatest ==
  ASSUME NEW k \in Nat, NEW ns \in SUBSET (1..k), ns # {}
  PROVE  \E n \in ns : \A m \in ns : m <= n
<1>. DEFINE T == {k - n : n \in ns}
<1>. DEFINE Less == {p \in Nat \X Nat : p[1] < p[2]}
<1>1. T \in SUBSET Nat /\ T # {}
  OBVIOUS
<1>2. IsWellFoundedOn(Less, Nat)
  BY NatLessThanWellFounded, Zenon DEF OpToRel
<1>3. \A x, y \in T : y < x => <<y, x>> \in Less
  BY <1>1
<1>. HIDE DEF Less
<1>4. PICK x \in T : \A y \in T : ~(<<y, x>> \in Less)
  BY <1>1, <1>2, WFMin
<1>5. \A y \in T : ~(y < x)
  BY <1>3, <1>4
<1>6. PICK n \in ns : x = k - n
  BY <1>4
<1>7. \A m \in ns : ~(k - m < k - n)
  BY <1>5, <1>6
<1>. QED
  BY <1>7

(* seen grows to the latest of the events gone by, and only for their      *)
(* chats.                                                                  *)
LEMMA SeenGrows ==
  ASSUME TypeOK, NEW es \in SUBSET Event, GoneBy(es), MaxNews \in Nat
  PROVE  /\ seen' \in Counts
         /\ \A c \in Chats : seen[c] <= seen'[c]
         /\ \A e \in es : e.n <= seen'[e.chat]
         /\ \A c \in Chats : (\A e \in es : e.chat # c) => seen'[c] = seen[c]
<1>. DEFINE Ns(c) == {e.n : e \in {x \in es : x.chat = c}}
<1>1. \A c \in Chats : Ns(c) \in SUBSET (1..MaxNews)
  BY DEF Event
<1>2. \A c \in Chats : seen'[c] =
         IF \E n \in Ns(c) : n > seen[c] THEN CHOOSE n \in Ns(c) : \A k \in Ns(c) : k <= n
         ELSE seen[c]
  BY DEF GoneBy
<1>3. DOMAIN seen' = Chats /\ seen' = [c \in Chats |-> seen'[c]]
  BY DEF GoneBy
<1>4. \A c \in Chats : seen[c] \in 0..MaxNews
  BY DEF TypeOK, Counts
<1>5. ASSUME NEW c \in Chats
      PROVE  /\ seen'[c] \in 0..MaxNews /\ seen[c] <= seen'[c]
             /\ \A n \in Ns(c) : n <= seen'[c]
             /\ Ns(c) = {} => seen'[c] = seen[c]
  <2>1. CASE \E n \in Ns(c) : n > seen[c]
    <3>1. \E n \in Ns(c) : \A k \in Ns(c) : k <= n
      BY <1>1, <2>1, Greatest
    <3>2. PICK m : m = CHOOSE n \in Ns(c) : \A k \in Ns(c) : k <= n
      OBVIOUS
    <3>3. m \in Ns(c) /\ \A k \in Ns(c) : k <= m
      BY <3>1, <3>2
    <3>4. seen'[c] = m
      BY <1>2, <2>1, <3>2
    <3>. HIDE DEF Ns
    <3>. QED
      BY <1>1, <1>4, <2>1, <3>3, <3>4
  <2>2. CASE ~ \E n \in Ns(c) : n > seen[c]
    <3>1. seen'[c] = seen[c]
      BY <1>2, <2>2
    <3>. HIDE DEF Ns
    <3>. QED
      BY <1>1, <1>4, <2>2, <3>1
  <2>. QED
    BY <2>1, <2>2
<1>6. \A e \in es : e.chat \in Chats /\ e.n \in Ns(e.chat)
  BY DEF Event
<1>7. \A c \in Chats : (\A e \in es : e.chat # c) => Ns(c) = {}
  OBVIOUS
<1>. HIDE DEF Ns
<1>8. seen' \in Counts
  BY <1>3, <1>5 DEF Counts
<1>. QED
  BY <1>5, <1>6, <1>7, <1>8

-----------------------------------------------------------------------------
(* Types.                                                                  *)

LEMMA EmitTypes ==
  ASSUME TypeOK, NEW ms \in SUBSET Messages, Emit(ms), UNCHANGED <<greeted, link>>
  PROVE  /\ buffer' \subseteq Messages /\ sent' \subseteq Messages
         /\ greeted' => buffer' = {} /\ link' \in {"resolving", "open"}
         /\ sent' # {} => greeted'
BY DEF TypeOK, Emit

LEMMA CutTypes ==
  ASSUME TypeOK, NEW how \in {"down", "refused"}, Cut(how), drops' \in 0..MaxDrops
  PROVE  TypeOK'
<1>1. Range(inbox) \in SUBSET Event
  BY DEF TypeOK, Range
<1>2. seen' \in Counts
  BY <1>1, SeenGrows, ListConstants DEF Cut
<1>3. lost' \subseteq Chats
  BY <1>1 DEF Cut, TypeOK, Event
<1>4. inbox' \in Seq(Event)
  BY DEF Cut
<1>. QED
  BY <1>2, <1>3, <1>4 DEF Cut, NoneHeard, TypeOK, server, page

LEMMA HappensTypes ==
  ASSUME TypeOK, NEW c \in Chats, NEW kind \in {"new", "message"}, Happens(c, kind)
  PROVE  news' \in Counts /\ publishing' \subseteq Event /\ news[c] + 1 <= MaxNews
<1>1. mix.news \in [Chats -> 0..MaxNews] /\ MaxNews \in Nat
  BY ListConstants DEF TypeOK
<1>2. news[c] \in 0..MaxNews /\ news[c] + 1 \in 1..MaxNews
  BY <1>1 DEF Happens, TypeOK, Counts
<1>3. news' \in Counts
  BY <1>2 DEF Happens, TypeOK, Counts
<1>4. [kind |-> kind, chat |-> c, n |-> news[c] + 1] \in Event
  BY <1>2 DEF Event
<1>. QED
  BY <1>2, <1>3, <1>4 DEF Happens, TypeOK

LEMMA CreatedTypes ==
  ASSUME TypeOK, NEW c \in Chats, Created(c), call' \in Call
  PROVE  TypeOK'
<1>1. row' \in [Chats -> {"none", "others", "mine", "left", "deleted"}]
  BY DEF Created, TypeOK
<1>. QED
  BY <1>1, HappensTypes DEF Created, TypeOK, wire, history

LEMMA OthersTypes ==
  ASSUME TypeOK, CountsAreOfNews, NEW c \in Chats, Others(c)
  PROVE  TypeOK'
<1>1. CASE CreateChat(c)
  BY <1>1, CreatedTypes DEF CreateChat, TypeOK
<1>2. CASE AddMember(c)
  <2>1. mix.news \in [Chats -> 0..MaxNews] /\ MaxNews \in Nat
    BY ListConstants DEF TypeOK
  <2>2. news[c] + 1 \in 0..MaxNews
    BY <1>2, <2>1 DEF AddMember, TypeOK, Counts
  <2>3. news' \in Counts /\ seen' \in Counts
    BY <1>2, <2>2 DEF AddMember, TypeOK, Counts
  <2>4. row' \in [Chats -> {"none", "others", "mine", "left", "deleted"}]
    BY <1>2 DEF AddMember, TypeOK
  <2>. QED
    BY <1>2, <2>3, <2>4 DEF AddMember, TypeOK, wire, page
<1>3. CASE End(c)
  <2>1. row' \in [Chats -> {"none", "others", "mine", "left", "deleted"}]
    BY <1>3 DEF End, TypeOK
  <2>. QED
    BY <1>3, <2>1 DEF End, TypeOK, wire, page, history
<1>4. ASSUME NEW self \in BOOLEAN, SendMessage(c, self)
      PROVE  TypeOK'
  <2>1. unread[c] + 1 \in 0..MaxNews
    <3>1. news[c] + 1 <= MaxNews
      BY <1>4, HappensTypes DEF SendMessage
    <3>2. unread[c] \in 0..MaxNews /\ news[c] \in 0..MaxNews /\ MaxNews \in Nat
      BY ListConstants DEF TypeOK, Counts
    <3>3. unread[c] <= news[c]
      BY DEF CountsAreOfNews
    <3>. QED
      BY <3>1, <3>2, <3>3
  <2>2. unread' \in Counts
    BY <1>4, <2>1 DEF SendMessage, TypeOK, Counts
  <2>. QED
    BY <1>4, <2>2, HappensTypes DEF SendMessage, TypeOK, wire, page, history
<1>5. CASE MarkRead(c)
  <2>1. unread' \in Counts
    BY <1>5, ListConstants DEF MarkRead, TypeOK, Counts
  <2>. QED
    BY <1>5, <2>1 DEF MarkRead, TypeOK, wire, page, history
<1>. QED
  BY <1>1, <1>2, <1>3, <1>4, <1>5 DEF Others

LEMMA PublishTypes ==
  ASSUME TypeOK, NEW e \in publishing, Publish(e)
  PROVE  TypeOK'
<1>1. e \in Event /\ {e} \in SUBSET Event /\ e.chat \in Chats
  BY DEF TypeOK, Event
<1>2. seen' \in Counts /\ lost' \subseteq Chats /\ inbox' \in Seq(Event)
  <2>1. CASE Hears(e)
    BY <1>1, <2>1 DEF Publish, TypeOK
  <2>2. CASE ~Hears(e)
    <3>1. seen' \in Counts
      BY <1>1, <2>2, SeenGrows, ListConstants DEF Publish
    <3>. QED
      BY <1>1, <2>2, <3>1 DEF Publish, TypeOK
  <2>. QED
    BY <2>1, <2>2
<1>. QED
  BY <1>2 DEF Publish, TypeOK, page

LEMMA SocketTypes ==
  ASSUME TypeOK, Socket
  PROVE  TypeOK'
<1>1. CASE Connect
  BY <1>1 DEF Connect, TypeOK, server, page, history
<1>2. CASE Greet
  <2>1. Listed \subseteq Chats
    BY DEF Listed, TypeOK
  <2>2. Resubscribe \subseteq Messages
    BY <2>1 DEF Resubscribe, Messages
  <2>. QED
    BY <1>2, <2>2 DEF Greet, TypeOK, server, page, history
<1>3. CASE Registered
  BY <1>3 DEF Registered, TypeOK, server, page, history
<1>4. CASE SessionGone
  BY <1>4, CutTypes DEF SessionGone, TypeOK
<1>5. CASE ArrivesTooEarly
  BY <1>5, CutTypes DEF ArrivesTooEarly, TypeOK
<1>6. CASE Drop
  <2>1. drops' \in 0..MaxDrops
    BY <1>6, ListConstants DEF Drop, TypeOK
  <2>. QED
    BY <1>6, <2>1, CutTypes DEF Drop
<1>7. ASSUME NEW m \in sent, Subscribe(m)
      PROVE  TypeOK'
  BY <1>7 DEF Subscribe, TypeOK, server, page, history, Messages
<1>. QED
  BY <1>1, <1>2, <1>3, <1>4, <1>5, <1>6, <1>7 DEF Socket, Gateway

LEMMA ShowTypes ==
  ASSUME TypeOK, NEW b, NEW new \in BOOLEAN, Show(b, new), UNCHANGED <<greeted, link>>,
         DOMAIN b \subseteq Chats, \A c \in DOMAIN b : b[c] \in Nat
  PROVE  /\ DOMAIN badge' \subseteq Chats /\ \A c \in DOMAIN badge' : badge'[c] \in Nat
         /\ buffer' \subseteq Messages /\ sent' \subseteq Messages
         /\ greeted' => buffer' = {} /\ link' \in {"resolving", "open"}
         /\ sent' # {} => greeted'
<1>1. (IF new THEN Subscriptions(b) ELSE {}) \in SUBSET Messages
  BY DEF Subscriptions, Messages
<1>. QED
  BY <1>1, EmitTypes DEF Show

LEMMA EnterTypes ==
  ASSUME TypeOK, NEW c \in Chats, Enter(c), UNCHANGED <<greeted, link>>
  PROVE  /\ DOMAIN badge' \subseteq Chats /\ \A d \in DOMAIN badge' : badge'[d] \in Nat
         /\ buffer' \subseteq Messages /\ sent' \subseteq Messages
         /\ greeted' => buffer' = {} /\ link' \in {"resolving", "open"}
         /\ sent' # {} => greeted'
         /\ open' \in Chats \cup {None} /\ visited' \subseteq Chats
<1>1. /\ DOMAIN Reset(badge, c) \subseteq Chats
      /\ \A d \in DOMAIN Reset(badge, c) : Reset(badge, c)[d] \in Nat
  BY DEF Reset, TypeOK
<1>2. Show(Reset(badge, c), Reset(badge, c) # badge)
  BY DEF Enter
<1>. QED
  BY <1>1, <1>2, ShowTypes DEF Enter, TypeOK

LEMMA HandledTypes ==
  ASSUME TypeOK, NEW e, Handled(e)
  PROVE  /\ e \in Event /\ e \in Range(inbox) /\ e.chat \in Chats
         /\ inbox' \in Seq(Event) /\ seen' \in Counts
<1>1. inbox \in Seq(Event) /\ inbox # <<>> /\ Head(inbox) = e /\ inbox' = Tail(inbox)
  BY DEF Handled, TypeOK
<1>2. e \in Event /\ inbox' \in Seq(Event) /\ e = inbox[1] /\ 1 \in DOMAIN inbox
  BY <1>1
<1>3. {e} \in SUBSET Event /\ e.chat \in Chats
  BY <1>2 DEF Event
<1>4. seen' \in Counts
  BY <1>3, SeenGrows, ListConstants DEF Handled
<1>. QED
  BY <1>2, <1>3, <1>4 DEF Range

LEMMA EventTypes ==
  ASSUME TypeOK, NEW e, OnChatNew(e) \/ OnMessageNew(e)
  PROVE  TypeOK'
<1>1. Handled(e)
  BY DEF OnChatNew, OnMessageNew
<1>2. /\ e \in Event /\ e.chat \in Chats /\ inbox' \in Seq(Event) /\ seen' \in Counts
  BY <1>1, HandledTypes
<1>3. /\ DOMAIN badge' \subseteq Chats /\ \A c \in DOMAIN badge' : badge'[c] \in Nat
      /\ loaded' \in BOOLEAN
      /\ \E ms \in SUBSET Messages : Emit(ms)
  <2>1. CASE OnChatNew(e)
    <3>1. /\ DOMAIN badge' \subseteq Chats /\ \A c \in DOMAIN badge' : badge'[c] \in Nat
      BY <1>2, <2>1 DEF OnChatNew, WithChat, TypeOK
    <3>2. ({{e.chat}} \cup IF e.chat \in Listed THEN {} ELSE Subscriptions(badge'))
            \in SUBSET Messages
      BY <1>2, <3>1 DEF Subscriptions, Messages
    <3>. QED
      BY <2>1, <3>1, <3>2 DEF OnChatNew
  <2>2. CASE OnMessageNew(e)
    <3>1. /\ DOMAIN badge' \subseteq Chats /\ \A c \in DOMAIN badge' : badge'[c] \in Nat
      BY <1>2, <2>2 DEF OnMessageNew, Counted, TypeOK
    <3>2. Subscriptions(badge) \in SUBSET Messages
      BY DEF Subscriptions, Messages, TypeOK
    <3>. QED
      BY <2>2, <3>1, <3>2 DEF OnMessageNew, TypeOK
  <2>. QED
    BY <2>1, <2>2
<1>4. /\ buffer' \subseteq Messages /\ sent' \subseteq Messages
      /\ greeted' => buffer' = {} /\ link' \in {"resolving", "open"}
      /\ sent' # {} => greeted'
  BY <1>1, <1>3, EmitTypes DEF Handled
<1>. QED
  BY <1>1, <1>2, <1>3, <1>4 DEF Handled, TypeOK, server

LEMMA FetchTypes ==
  ASSUME TypeOK, Refetch \/ FetchList \/ FetchCount \/ FetchSet \/ FetchFails
  PROVE  TypeOK'
<1>1. CASE Refetch
  BY <1>1 DEF Refetch, TypeOK, server, wire, history, Fetch
<1>2. CASE FetchList
  <2>1. fetch' \in Fetch
    BY <1>2 DEF FetchList, Fetch, Mine
  <2>. QED
    BY <1>2, <2>1 DEF FetchList, TypeOK, server, wire, history
<1>3. CASE FetchCount
  <2>1. fetch.list \in SUBSET Chats
    BY <1>3, FetchShapes DEF FetchCount, TypeOK
  <2>2. [c \in Chats |-> IF c \in fetch.list THEN news[c] ELSE 0] \in Counts
    BY ListConstants DEF TypeOK, Counts
  <2>3. fetch' \in Fetch
    BY <1>3, <2>1, <2>2 DEF FetchCount, Fetch, TypeOK
  <2>. QED
    BY <1>3, <2>3 DEF FetchCount, TypeOK, server, wire, history
<1>4. CASE FetchSet
  <2>. DEFINE b == [c \in fetch.list |-> fetch.unread[c]]
  <2>1. fetch.list \in SUBSET Chats /\ fetch.unread \in Counts
    BY <1>4, FetchShapes DEF FetchSet, TypeOK
  <2>2. DOMAIN b \subseteq Chats /\ \A c \in DOMAIN b : b[c] \in Nat
    BY <2>1 DEF Counts
  <2>3. PICK new \in BOOLEAN : Show(b, new)
    BY <1>4 DEF FetchSet
  <2>4. /\ DOMAIN badge' \subseteq Chats /\ \A c \in DOMAIN badge' : badge'[c] \in Nat
        /\ buffer' \subseteq Messages /\ sent' \subseteq Messages
        /\ greeted' => buffer' = {} /\ link' \in {"resolving", "open"}
        /\ sent' # {} => greeted'
    <3>. HIDE DEF b
    <3>. QED
      BY <1>4, <2>2, <2>3, ShowTypes DEF FetchSet
  <2>5. fetch' \in Fetch /\ lost' \subseteq Chats
    BY <1>4 DEF FetchSet, Fetch
  <2>. HIDE DEF b
  <2>. QED
    BY <1>4, <2>4, <2>5 DEF FetchSet, TypeOK, server
<1>5. CASE FetchFails
  BY <1>5 DEF FetchFails, TypeOK, server, wire, Fetch
<1>. QED
  BY <1>1, <1>2, <1>3, <1>4, <1>5

LEMMA InvalidateTypes ==
  ASSUME TypeOK, Invalidate
  PROVE  fetch' \in Fetch
BY DEF TypeOK, Invalidate, Fetch

LEMMA PageTypes ==
  ASSUME TypeOK, Page
  PROVE  TypeOK'
<1>1. ASSUME NEW c \in Chats, OpenChat(c)
      PROVE  TypeOK'
  BY <1>1, EnterTypes DEF OpenChat, TypeOK, server
<1>2. ASSUME NEW c \in Chats, CreateHere(c)
      PROVE  TypeOK'
  BY <1>2, CreatedTypes DEF CreateHere, Call
<1>3. CASE CloseChat
  BY <1>3 DEF CloseChat, TypeOK, server, wire, history
<1>4. CASE CreateAnswered
  <2>1. call.chat \in Chats /\ call' \in Call
    BY <1>4, CallShapes DEF CreateAnswered, TypeOK, Call, NoCall
  <2>2. fetch' \in Fetch /\ own' \subseteq Chats
    BY <1>4, <2>1, InvalidateTypes DEF CreateAnswered, TypeOK
  <2>. QED
    BY <1>4, <2>1, <2>2, EnterTypes DEF CreateAnswered, TypeOK, server
<1>5. CASE DeleteHere
  <2>1. open \in Chats
    BY <1>5 DEF DeleteHere, TypeOK
  <2>2. row' \in [Chats -> {"none", "others", "mine", "left", "deleted"}] /\ call' \in Call
    BY <1>5, <2>1 DEF DeleteHere, TypeOK, Call
  <2>. QED
    BY <1>5, <2>2 DEF DeleteHere, TypeOK, wire, history
<1>6. CASE DeleteAnswered
  <2>1. fetch' \in Fetch
    BY <1>6, InvalidateTypes DEF DeleteAnswered
  <2>. QED
    BY <1>6, <2>1 DEF DeleteAnswered, TypeOK, server, wire, history, Call
<1>7. CASE CallFails
  BY <1>7 DEF CallFails, TypeOK, server, wire, history, Call
<1>. QED
  BY <1>1, <1>2, <1>3, <1>4, <1>5, <1>6, <1>7, FetchTypes DEF Page

LEMMA StepTypes ==
  ASSUME TypeOK, CountsAreOfNews, [Next]_vars
  PROVE  TypeOK'
<1>1. CASE Next
  BY <1>1, OthersTypes, PublishTypes, EventTypes, SocketTypes, PageTypes DEF Next
<1>2. CASE UNCHANGED vars
  BY <1>2 DEF vars, server, wire, page, history, TypeOK
<1>. QED
  BY <1>1, <1>2

-----------------------------------------------------------------------------
(* What is on its way, step by step.                                       *)

OnceIn(s) == \A i, j \in DOMAIN s : s[i] = s[j] => i = j

LEMMA TailOnce ==
  ASSUME NEW s \in Seq(Event), s # <<>>, OnceIn(s)
  PROVE  /\ Range(Tail(s)) = Range(s) \ {Head(s)} /\ OnceIn(Tail(s))
         /\ Head(s) \in Range(s)
<1>1. /\ DOMAIN s = 1..Len(s) /\ Len(s) \in Nat \ {0} /\ Head(s) = s[1]
      /\ DOMAIN Tail(s) = 1..(Len(s) - 1)
      /\ \A i \in 1..(Len(s) - 1) : Tail(s)[i] = s[i + 1]
  OBVIOUS
<1>2. Range(Tail(s)) \subseteq Range(s) \ {Head(s)}
  BY <1>1 DEF Range, OnceIn
<1>3. ASSUME NEW e \in Range(s) \ {Head(s)}
      PROVE  e \in Range(Tail(s))
  <2>1. PICK i \in DOMAIN s : e = s[i]
    BY DEF Range
  <2>2. i - 1 \in 1..(Len(s) - 1) /\ Tail(s)[i - 1] = e
    BY <1>1, <1>3, <2>1
  <2>. QED
    BY <1>1, <2>2 DEF Range
<1>4. OnceIn(Tail(s)) /\ Head(s) \in Range(s)
  BY <1>1 DEF OnceIn, Range
<1>. QED
  BY <1>2, <1>3, <1>4

LEMMA AppendOnce ==
  ASSUME NEW s \in Seq(Event), NEW e \in Event \ Range(s), OnceIn(s)
  PROVE  Range(Append(s, e)) = Range(s) \cup {e} /\ OnceIn(Append(s, e))
<1>1. /\ DOMAIN s = 1..Len(s) /\ Len(s) \in Nat
      /\ DOMAIN Append(s, e) = 1..(Len(s) + 1)
      /\ \A i \in 1..Len(s) : Append(s, e)[i] = s[i]
      /\ Append(s, e)[Len(s) + 1] = e
  OBVIOUS
<1>2. \A i \in 1..Len(s) : s[i] # e
  BY <1>1 DEF Range
<1>3. OnceIn(Append(s, e))
  BY <1>1, <1>2 DEF OnceIn
<1>4. Range(s) \cup {e} \subseteq Range(Append(s, e))
  BY <1>1 DEF Range
<1>5. Range(Append(s, e)) \subseteq Range(s) \cup {e}
  BY <1>1 DEF Range
<1>. QED
  BY <1>3, <1>4, <1>5

LEMMA FlightTypes ==
  ASSUME TypeOK
  PROVE  /\ OnTheWay \subseteq Event /\ Range(inbox) \subseteq OnTheWay
         /\ \A e \in Event : e.chat \in Chats /\ e.n \in Nat \ {0} /\ news[e.chat] \in Nat
         /\ \A e \in Event : e.kind \in {"new", "message"}
<1>1. Range(inbox) \subseteq Event
  BY DEF TypeOK, Range
<1>2. OnTheWay \subseteq Event /\ Range(inbox) \subseteq OnTheWay
  BY <1>1 DEF OnTheWay, TypeOK
<1>. QED
  BY <1>2, ListConstants DEF Event, TypeOK, Counts

(* The events that are gone with the step, those that have come.           *)
Gone(es) == OnTheWay' = OnTheWay \ es
LEMMA HandledFlight ==
  ASSUME TypeOK, EachEventOnce, NEW e, Handled(e)
  PROVE  /\ Gone({e}) /\ Range(inbox') = Range(inbox) \ {e} /\ e \in Range(inbox)
         /\ EachEventOnce'
<1>1. /\ inbox \in Seq(Event) /\ inbox # <<>> /\ Head(inbox) = e
      /\ inbox' = Tail(inbox) /\ publishing' = publishing /\ news' = news
  BY DEF Handled, TypeOK, server
<1>2. OnceIn(inbox) /\ publishing \cap Range(inbox) = {}
  BY DEF EachEventOnce, OnceIn
<1>3. /\ Range(inbox') = Range(inbox) \ {e} /\ OnceIn(inbox') /\ e \in Range(inbox)
  BY <1>1, <1>2, TailOnce
<1>4. Gone({e})
  BY <1>1, <1>2, <1>3 DEF Gone, OnTheWay
<1>. QED
  BY <1>1, <1>2, <1>3, <1>4 DEF EachEventOnce, OnceIn, Gone

LEMMA CutFlight ==
  ASSUME TypeOK, EachEventOnce, NEW how, Cut(how)
  PROVE  /\ Gone(Range(inbox)) /\ Range(inbox') = {} /\ EachEventOnce'
<1>1. inbox' = <<>> /\ publishing' = publishing /\ news' = news
  BY DEF Cut, server
<1>2. Range(inbox') = {} /\ DOMAIN inbox' = {}
  BY <1>1 DEF Range
<1>3. Gone(Range(inbox))
  BY <1>1, <1>2 DEF Gone, OnTheWay, EachEventOnce
<1>. QED
  BY <1>1, <1>2, <1>3 DEF EachEventOnce, Gone

LEMMA PublishFlight ==
  ASSUME TypeOK, EachEventOnce, NEW e \in publishing, Publish(e)
  PROVE  /\ Hears(e) => OnTheWay' = OnTheWay /\ Range(inbox') = Range(inbox) \cup {e}
         /\ ~Hears(e) => Gone({e}) /\ inbox' = inbox
         /\ EachEventOnce'
<1>1. /\ inbox \in Seq(Event) /\ e \in Event \ Range(inbox) /\ OnceIn(inbox)
      /\ publishing' = publishing \ {e} /\ news' = news
      /\ publishing \cap Range(inbox) = {}
      /\ \A x \in OnTheWay : x.n <= news[x.chat]
  BY DEF Publish, TypeOK, EachEventOnce, OnceIn
<1>2. CASE Hears(e)
  <2>1. /\ Range(inbox') = Range(inbox) \cup {e} /\ OnceIn(inbox')
    BY <1>1, <1>2, AppendOnce DEF Publish
  <2>2. OnTheWay' = OnTheWay
    BY <1>1, <2>1 DEF OnTheWay
  <2>. QED
    BY <1>1, <1>2, <2>1, <2>2 DEF EachEventOnce, OnceIn
<1>3. CASE ~Hears(e)
  <2>1. inbox' = inbox
    BY <1>3 DEF Publish
  <2>2. Gone({e})
    BY <1>1, <2>1 DEF Gone, OnTheWay
  <2>. QED
    BY <1>1, <1>3, <2>1, <2>2 DEF EachEventOnce, OnceIn, Gone
<1>. QED
  BY <1>2, <1>3

LEMMA HappensFlight ==
  ASSUME TypeOK, EachEventOnce, NEW c \in Chats, NEW kind \in {"new", "message"},
         Happens(c, kind), inbox' = inbox
  PROVE  /\ OnTheWay' = OnTheWay \cup {[kind |-> kind, chat |-> c, n |-> news[c] + 1]}
         /\ \A x \in OnTheWay : x.chat = c => x.n <= news[c]
         /\ EachEventOnce'
<1>. DEFINE e == [kind |-> kind, chat |-> c, n |-> news[c] + 1]
<1>1. publishing' = publishing \cup {e} /\ e.chat = c /\ e.n = news[c] + 1
  BY DEF Happens
<1>2. \A x \in OnTheWay : x.n <= news[x.chat] /\ x.chat \in Chats
  BY FlightTypes DEF EachEventOnce
<1>3. news[c] \in Nat /\ news' = [news EXCEPT ![c] = news[c] + 1] /\ DOMAIN news = Chats
  BY DEF Happens, TypeOK, Counts
<1>. HIDE DEF e
<1>4. e \notin OnTheWay
  BY <1>1, <1>2, <1>3
<1>5. OnTheWay' = OnTheWay \cup {e}
  BY <1>1 DEF OnTheWay
<1>6. \A x \in OnTheWay' : x.n <= news'[x.chat]
  <2>1. \A d \in Chats : news'[d] = IF d = c THEN news[c] + 1 ELSE news[d]
    BY <1>3
  <2>2. \A x \in OnTheWay : x.n \in Nat /\ news[x.chat] \in Nat
    BY FlightTypes
  <2>. QED
    BY <1>1, <1>2, <1>3, <1>5, <2>1, <2>2
<1>7. publishing' \cap Range(inbox') = {}
  BY <1>1, <1>4 DEF OnTheWay, EachEventOnce
<1>8. EachEventOnce'
  BY <1>6, <1>7 DEF EachEventOnce
<1>. QED
  BY <1>2, <1>5, <1>8 DEF e

-----------------------------------------------------------------------------
(* The messages of a chat that are on their way.                           *)

LEMMA UnheardTypes ==
  ASSUME NEW c \in Chats
  PROVE  /\ Unheard(c) \subseteq 1..MaxNews /\ IsFiniteSet(Unheard(c))
         /\ Cardinality(Unheard(c)) \in Nat
         /\ \A k : LET after == {n \in Unheard(c) : n > k} IN
              /\ IsFiniteSet(after) /\ Cardinality(after) \in Nat
              /\ Cardinality(after) <= Cardinality(Unheard(c))
<1>1. Unheard(c) \subseteq 1..MaxNews
  BY DEF Unheard
<1>2. IsFiniteSet(1..MaxNews)
  BY FS_Interval, ListConstants
<1>3. IsFiniteSet(Unheard(c))
  BY <1>1, <1>2, FS_Subset
<1>4. Cardinality(Unheard(c)) \in Nat
  BY <1>3, FS_CardinalityType
<1>5. ASSUME NEW k
      PROVE  LET after == {n \in Unheard(c) : n > k} IN
               /\ IsFiniteSet(after) /\ Cardinality(after) \in Nat
               /\ Cardinality(after) <= Cardinality(Unheard(c))
  <2>. DEFINE after == {n \in Unheard(c) : n > k}
  <2>1. after \in SUBSET Unheard(c)
    OBVIOUS
  <2>. HIDE DEF after
  <2>2. IsFiniteSet(after) /\ Cardinality(after) <= Cardinality(Unheard(c))
    BY <1>3, <2>1, FS_Subset
  <2>3. Cardinality(after) \in Nat
    BY <2>2, FS_CardinalityType
  <2>. QED
    BY <2>2, <2>3 DEF after
<1>. QED
  BY <1>1, <1>3, <1>4, <1>5

LEMMA UnheardTypesNext ==
  ASSUME NEW c \in Chats
  PROVE  /\ IsFiniteSet(Unheard(c)') /\ Cardinality(Unheard(c)') \in Nat
         /\ \A k : LET after == {n \in Unheard(c)' : n > k} IN
              Cardinality(after) \in Nat /\ Cardinality(after) <= Cardinality(Unheard(c)')
<1>1. Unheard(c)' \subseteq 1..MaxNews
  BY DEF Unheard
<1>2. IsFiniteSet(1..MaxNews)
  BY FS_Interval, ListConstants
<1>3. IsFiniteSet(Unheard(c)')
  BY <1>1, <1>2, FS_Subset
<1>4. Cardinality(Unheard(c)') \in Nat
  BY <1>3, FS_CardinalityType
<1>5. ASSUME NEW k
      PROVE  LET after == {n \in Unheard(c)' : n > k} IN
               Cardinality(after) \in Nat /\ Cardinality(after) <= Cardinality(Unheard(c)')
  <2>. DEFINE after == {n \in Unheard(c)' : n > k}
  <2>1. after \in SUBSET Unheard(c)'
    OBVIOUS
  <2>. HIDE DEF after
  <2>2. IsFiniteSet(after) /\ Cardinality(after) <= Cardinality(Unheard(c)')
    BY <1>3, <2>1, FS_Subset
  <2>3. Cardinality(after) \in Nat
    BY <2>2, FS_CardinalityType
  <2>. QED
    BY <2>2, <2>3 DEF after
<1>. QED
  BY <1>3, <1>4, <1>5

(* What comes or goes of other chats leaves a chat alone.                  *)
LEMMA SameFlight ==
  ASSUME NEW c \in Chats,
         \A e \in OnTheWay \cup OnTheWay' : e.chat = c => (e \in OnTheWay <=> e \in OnTheWay')
  PROVE  Unheard(c)' = Unheard(c) /\ (NewComes(c)' <=> NewComes(c))
<1>1. ASSUME NEW n \in 1..MaxNews
      PROVE  LET e == [kind |-> "message", chat |-> c, n |-> n] IN
             e \in OnTheWay' <=> e \in OnTheWay
  OBVIOUS
<1>2. Unheard(c)' = Unheard(c)
  BY <1>1 DEF Unheard
<1>3. NewComes(c)' <=> NewComes(c)
  BY DEF NewComes
<1>. QED
  BY <1>2, <1>3

LEMMA MessageUnheard ==
  ASSUME NEW c \in Chats, NEW k \in 1..MaxNews, OnTheWay \subseteq Event,
         \A e \in OnTheWay : e.chat = c => e.n # k,
         OnTheWay' = OnTheWay \cup {[kind |-> "message", chat |-> c, n |-> k]}
  PROVE  /\ Unheard(c)' = Unheard(c) \cup {k} /\ k \notin Unheard(c)
         /\ (NewComes(c)' <=> NewComes(c))
         /\ Cardinality(Unheard(c)') = Cardinality(Unheard(c)) + 1
<1>1. Unheard(c)' = Unheard(c) \cup {k}
  BY DEF Unheard
<1>2. k \notin Unheard(c)
  BY DEF Unheard
<1>3. NewComes(c)' <=> NewComes(c)
  BY DEF NewComes
<1>. QED
  BY <1>1, <1>2, <1>3, UnheardTypes, FS_AddElement

LEMMA MessageHeard ==
  ASSUME NEW e \in OnTheWay, OnTheWay \subseteq Event, e.kind = "message", Gone({e})
  PROVE  /\ Cardinality(Unheard(e.chat)') = Cardinality(Unheard(e.chat)) - 1
         /\ Unheard(e.chat)' = Unheard(e.chat) \ {e.n}
<1>1. e \in Event /\ e.chat \in Chats /\ e.n \in 1..MaxNews
  BY DEF Event
<1>2. e = [kind |-> "message", chat |-> e.chat, n |-> e.n]
  BY <1>1 DEF Event
<1>3. \A n \in 1..MaxNews :
        [kind |-> "message", chat |-> e.chat, n |-> n] = e <=> n = e.n
  BY <1>1, <1>2
<1>4. Unheard(e.chat)' = Unheard(e.chat) \ {e.n}
  BY <1>3 DEF Unheard, Gone
<1>5. e.n \in Unheard(e.chat)
  BY <1>1, <1>2 DEF Unheard
<1>. QED
  BY <1>1, <1>4, <1>5, UnheardTypes, FS_RemoveElement

-----------------------------------------------------------------------------
(* Steps after which a chat is where it was: its messages are as they      *)
(* were, it is not listed anew, and no subscription names it that it had   *)
(* not unless it is listed.                                                *)

MissedHere(c) == c \in Mine \ lost => Current(c) \/ Awaited(c)
KnownHere(c) ==
  c \in Mine =>
    /\ fetch.pc \in {"count", "set"} /\ c \notin fetch.list /\ seen[c] = 0 => Awaited(c)
    /\ fetch.pc = "set" /\ c \in fetch.list /\ seen[c] <= fetch.upTo[c] =>
         unread[c] <= fetch.unread[c] + Cardinality({n \in Unheard(c) : n > fetch.upTo[c]})

Still(c) ==
  /\ Unheard(c)' = Unheard(c)
  /\ NewComes(c) => NewComes(c)'
  /\ Told(c)' => Told(c) \/ Tuned(c)
  /\ Tuned(c)' => Tuned(c) \/ c \in Listed
  /\ c \in Listed' <=> c \in Listed
  /\ unread'[c] <= unread[c]
  /\ c \in Mine' => c \in Mine
  /\ seen[c] <= seen'[c]

LEMMA StillAwaited ==
  ASSUME TypeOK, TypeOK', NEW c \in Chats, Still(c), Awaited(c)
  PROVE  Awaited(c)'
<1>1. unread[c] \in Nat /\ unread'[c] \in Nat
  BY ListConstants DEF TypeOK, Counts
<1>2. unread'[c] <= Cardinality(Unheard(c)')
  BY <1>1, UnheardTypes DEF Still, Awaited
<1>. QED
  BY <1>2 DEF Still, Awaited

LEMMA StillMissed ==
  ASSUME TypeOK, TypeOK', NEW c \in Chats, MissedHere(c), Still(c),
         c \in lost => c \in lost', c \in visited => c \in visited',
         c \in Listed => badge'[c] >= badge[c] \/ c \in visited'
  PROVE  MissedHere(c)'
<1>1. SUFFICES ASSUME c \in Mine' \ lost'
               PROVE  Current(c)' \/ Awaited(c)'
  BY DEF MissedHere
<1>2. c \in Mine \ lost
  BY <1>1 DEF Still
<1>3. CASE Awaited(c)
  BY <1>3, StillAwaited
<1>4. CASE Current(c)
  <2>1. unread[c] \in Nat /\ unread'[c] \in Nat
    BY ListConstants DEF TypeOK, Counts
  <2>2. c \in Listed /\ c \in Listed' /\ badge[c] \in Nat /\ badge'[c] \in Nat
    BY <1>4 DEF Current, Still, TypeOK, Listed
  <2>3. c \notin visited => unread[c] <= badge[c] + Cardinality(Unheard(c))
    BY <1>4 DEF Current
  <2>4. c \notin visited' => unread'[c] <= badge'[c] + Cardinality(Unheard(c)')
    BY <2>1, <2>2, <2>3, UnheardTypes DEF Still
  <2>. QED
    BY <2>2, <2>4 DEF Current
<1>. QED
  BY <1>2, <1>3, <1>4 DEF MissedHere

LEMMA StillKnown ==
  ASSUME TypeOK, TypeOK', NEW c \in Chats, KnownHere(c), Still(c),
         fetch' = fetch \/ fetch' = NoFetch \/ fetch' = Asked
  PROVE  KnownHere(c)'
<1>1. CASE fetch' = NoFetch \/ fetch' = Asked
  BY <1>1 DEF KnownHere, NoFetch, Asked
<1>2. CASE fetch' = fetch
  <2>1. SUFFICES ASSUME c \in Mine'
                 PROVE  KnownHere(c)'
    BY DEF KnownHere
  <2>2. c \in Mine
    BY <2>1 DEF Still
  <2>3. seen[c] \in Nat /\ seen'[c] \in Nat /\ unread[c] \in Nat /\ unread'[c] \in Nat
    BY ListConstants DEF TypeOK, Counts
  <2>4. seen[c] <= seen'[c] /\ unread'[c] <= unread[c] /\ Unheard(c)' = Unheard(c)
    BY DEF Still
  <2>5. fetch'.pc \in {"count", "set"} /\ c \notin fetch'.list /\ seen'[c] = 0 => Awaited(c)'
    BY <1>2, <2>2, <2>3, <2>4, StillAwaited DEF KnownHere
  <2>6. ASSUME fetch'.pc = "set", c \in fetch'.list, seen'[c] <= fetch'.upTo[c]
        PROVE  unread'[c] <= fetch'.unread[c]
                 + Cardinality({n \in Unheard(c)' : n > fetch'.upTo[c]})
    <3>1. fetch.upTo[c] \in Nat /\ fetch.unread[c] \in Nat
      BY <1>2, <2>6, FetchShapes, ListConstants DEF TypeOK, Counts
    <3>2. unread[c] <= fetch.unread[c] + Cardinality({n \in Unheard(c) : n > fetch.upTo[c]})
      BY <1>2, <2>2, <2>3, <2>4, <2>6, <3>1 DEF KnownHere
    <3>3. Cardinality({n \in Unheard(c) : n > fetch.upTo[c]}) \in Nat
      BY UnheardTypes
    <3>4. {n \in Unheard(c)' : n > fetch'.upTo[c]} = {n \in Unheard(c) : n > fetch.upTo[c]}
      BY <1>2, <2>4
    <3>5. unread'[c] <= fetch.unread[c] + Cardinality({n \in Unheard(c) : n > fetch.upTo[c]})
      BY <2>3, <2>4, <3>1, <3>2, <3>3
    <3>. QED
      BY <1>2, <3>4, <3>5
  <2>. QED
    BY <2>5, <2>6 DEF KnownHere
<1>. QED
  BY <1>1, <1>2

LEMMA EmitTunes ==
  ASSUME NEW ms, Emit(ms), heard' = heard, NEW c, Tuned(c)'
  PROVE  Tuned(c) \/ \E m \in ms : c \in m
BY DEF Emit, Tuned

LEMMA SubscriptionsOf ==
  ASSUME NEW b, NEW c, NEW m \in Subscriptions(b), c \in m
  PROVE  c \in DOMAIN b
BY DEF Subscriptions

(* Without an event and without news, that is all there is to see.         *)
LEMMA QuietStill ==
  ASSUME TypeOK, NEW c \in Chats, UNCHANGED <<publishing, inbox, seen>>, unread'[c] <= unread[c],
         c \in Mine' => c \in Mine, c \in Listed' <=> c \in Listed,
         Tuned(c)' => Tuned(c) \/ c \in Listed
  PROVE  Still(c)
<1>1. OnTheWay' = OnTheWay /\ Range(inbox') = Range(inbox)
  BY DEF OnTheWay
<1>2. Unheard(c)' = Unheard(c) /\ (NewComes(c)' <=> NewComes(c))
  BY <1>1 DEF Unheard, NewComes
<1>3. Told(c)' <=> Told(c)
  BY <1>1 DEF Told
<1>4. unread[c] \in Nat /\ seen[c] \in Nat
  BY ListConstants DEF TypeOK, Counts
<1>. QED
  BY <1>2, <1>3, <1>4 DEF Still

-----------------------------------------------------------------------------
(* Each conjunct, over steps that do little to what it speaks of.          *)

LEMMA PerChat ==
  ASSUME ChatListInv
  PROVE  \A c \in Chats : MissedHere(c) /\ KnownHere(c)
BY DEF ChatListInv, MissedNothing, FetchKnows, MissedHere, KnownHere, Mine

LEMMA PerChatNext ==
  ASSUME \A c \in Chats : MissedHere(c)' /\ KnownHere(c)'
  PROVE  MissedNothing' /\ FetchKnows'
BY DEF MissedNothing, FetchKnows, MissedHere, KnownHere, Mine

LEMMA ForeignStays ==
  ASSUME ForeignIsUnknown,
         \A c \in Chats : Foreign(c)' =>
           /\ Foreign(c) /\ news'[c] = news[c] /\ seen'[c] = seen[c]
           /\ c \in Listed' => c \in Listed
           /\ c \in own' => c \in own
           /\ Tuned(c)' => Tuned(c) \/ c \in Listed
           /\ fetch'.pc \in {"count", "set"} /\ c \in fetch'.list =>
                fetch.pc \in {"count", "set"} /\ c \in fetch.list
           /\ call' # NoCall /\ call'.chat = c => call # NoCall /\ call.chat = c
  PROVE  ForeignIsUnknown'
<1>1. SUFFICES ASSUME NEW c \in Chats, Foreign(c)'
               PROVE  /\ news'[c] = 0 /\ seen'[c] = 0
                      /\ c \notin Listed' \cup own' /\ ~Tuned(c)'
                      /\ fetch'.pc \in {"count", "set"} => c \notin fetch'.list
                      /\ call' # NoCall => call'.chat # c
  BY DEF ForeignIsUnknown
<1>2. /\ news[c] = 0 /\ seen[c] = 0
      /\ c \notin Listed \cup own /\ ~Tuned(c)
      /\ fetch.pc \in {"count", "set"} => c \notin fetch.list
      /\ call # NoCall => call.chat # c
  BY <1>1 DEF ForeignIsUnknown
<1>. QED
  BY <1>1, <1>2

(* Steps without events, without news and without a new list.              *)
Quiet ==
  /\ UNCHANGED <<row, unread, news, publishing, inbox, seen, lost, loaded>>
  /\ Listed' = Listed
  /\ \A c \in Chats : Tuned(c)' => Tuned(c) \/ c \in Listed
  /\ visited \subseteq visited'
  /\ \A c \in Listed : badge'[c] = badge[c] \/ c \in visited'

LEMMA QuietSteps ==
  ASSUME ChatListInv, TypeOK', Quiet
  PROVE  /\ EachEventOnce' /\ \A c \in Chats : Still(c) /\ MissedHere(c)'
<1>1. EachEventOnce'
  BY DEF Quiet, EachEventOnce, OnTheWay, ChatListInv
<1>2. ASSUME NEW c \in Chats
      PROVE  Still(c)
  <2>1. unread'[c] <= unread[c]
    BY ListConstants DEF Quiet, ChatListInv, TypeOK, Counts
  <2>. QED
    BY <2>1, QuietStill DEF Quiet, ChatListInv, Mine
<1>3. ASSUME NEW c \in Chats
      PROVE  MissedHere(c)'
  <2>1. c \in Listed => badge'[c] >= badge[c] \/ c \in visited'
    BY DEF Quiet, ChatListInv, TypeOK, Listed
  <2>. QED
    BY <1>2, <2>1, StillMissed, PerChat DEF Quiet, ChatListInv
<1>. QED
  BY <1>1, <1>2, <1>3

(* The socket connects, is registered, subscribes: the page sees nothing.  *)
LEMMA WireSteps ==
  ASSUME ChatListInv, TypeOK', Connect \/ Greet \/ Registered \/ \E m \in sent : Subscribe(m)
  PROVE  ChatListInv'
<1>1. ASSUME NEW c \in Chats, Tuned(c)'
      PROVE  Tuned(c) \/ c \in Listed
  <2>1. CASE Connect \/ Registered
    BY <1>1, <2>1 DEF Connect, Registered, Tuned
  <2>2. CASE Greet
    BY <1>1, <2>2 DEF Greet, Tuned, Resubscribe
  <2>3. CASE \E m \in sent : Subscribe(m)
    BY <1>1, <2>3 DEF Subscribe, Tuned
  <2>. QED
    BY <2>1, <2>2, <2>3
<1>2. /\ UNCHANGED <<server, page, history, inbox>>
  BY DEF Connect, Greet, Registered, Subscribe
<1>3. Quiet
  BY <1>1, <1>2 DEF Quiet, server, page, history, Listed, ChatListInv, TypeOK
<1>4. \A c \in Chats : KnownHere(c)'
  BY <1>2, <1>3, QuietSteps, StillKnown, PerChat DEF page, ChatListInv
<1>5. ForeignIsUnknown'
  BY <1>1, <1>2, ForeignStays DEF ChatListInv, server, page, history, Foreign, Listed
<1>6. CountsAreOfNews' /\ OwnIsFetched'
  BY <1>2 DEF ChatListInv, server, page, history, CountsAreOfNews, OwnIsFetched, Mine, Listed
<1>. QED
  BY <1>3, <1>4, <1>5, <1>6, QuietSteps, PerChatNext DEF ChatListInv

(* Steps of the page that neither read nor replace the list: what they do  *)
(* to the fetch is to give it up or to begin it.                           *)
GivesUp == fetch' = fetch \/ fetch' = NoFetch \/ fetch' = Asked

LEMMA PlainPage ==
  ASSUME ChatListInv, TypeOK', Quiet, GivesUp,
         open' # None => open' \in visited',
         \A c \in own' : c \in own \/ (call # NoCall /\ call.chat = c),
         call' = NoCall \/ call' = call,
         OwnIsFetched'
  PROVE  ChatListInv'
<1>1. \A c \in Chats : KnownHere(c)'
  BY QuietSteps, StillKnown, PerChat DEF GivesUp, ChatListInv
<1>2. ForeignIsUnknown'
  <2>1. ASSUME NEW c \in Chats, Foreign(c)'
        PROVE  /\ Foreign(c) /\ news'[c] = news[c] /\ seen'[c] = seen[c]
               /\ c \in Listed' => c \in Listed
               /\ c \in own' => c \in own
               /\ Tuned(c)' => Tuned(c) \/ c \in Listed
               /\ fetch'.pc \in {"count", "set"} /\ c \in fetch'.list =>
                    fetch.pc \in {"count", "set"} /\ c \in fetch.list
               /\ call' # NoCall /\ call'.chat = c => call # NoCall /\ call.chat = c
    <3>1. Foreign(c)
      BY <2>1 DEF Foreign, Quiet
    <3>2. call # NoCall => call.chat # c
      BY <3>1 DEF ChatListInv, ForeignIsUnknown
    <3>. QED
      BY <3>1, <3>2 DEF Quiet, GivesUp, NoFetch, Asked
  <2>. QED
    BY <2>1, ForeignStays DEF ChatListInv
<1>3. CountsAreOfNews'
  BY DEF ChatListInv, CountsAreOfNews, Quiet, GivesUp, NoFetch, Asked
<1>. QED
  BY <1>1, <1>2, <1>3, QuietSteps, PerChatNext DEF ChatListInv

LEMMA EnterSees ==
  ASSUME TypeOK, NEW c \in Chats, Enter(c), heard' = heard
  PROVE  /\ Listed' = Listed
         /\ \A d \in Chats : Tuned(d)' => Tuned(d) \/ d \in Listed
         /\ visited \subseteq visited' /\ open' \in visited'
         /\ \A d \in Listed : badge'[d] = badge[d] \/ d \in visited'
<1>1. badge' = Reset(badge, c) /\ open' = c /\ visited' = visited \cup {c}
  BY DEF Enter, Show
<1>2. DOMAIN Reset(badge, c) = Listed
  BY DEF Reset, Listed
<1>3. ASSUME NEW d \in Chats, Tuned(d)'
      PROVE  Tuned(d) \/ d \in Listed
  <2>1. PICK ms : Emit(ms) /\ ms \subseteq Subscriptions(Reset(badge, c))
    BY DEF Enter, Show
  <2>. QED
    BY <1>2, <1>3, <2>1, EmitTunes, SubscriptionsOf
<1>4. \A d \in Listed : badge'[d] = badge[d] \/ d \in visited'
  BY <1>1 DEF Reset, Listed
<1>. QED
  BY <1>1, <1>2, <1>3, <1>4 DEF Listed

LEMMA OpenSteps ==
  ASSUME ChatListInv, TypeOK', NEW c \in Chats, OpenChat(c)
  PROVE  ChatListInv'
<1>1. Enter(c) /\ UNCHANGED <<mix, server, link, heard, inbox, loaded, fetch, call, seen, lost, own>>
  BY DEF OpenChat
<1>2. /\ Listed' = Listed
      /\ \A d \in Chats : Tuned(d)' => Tuned(d) \/ d \in Listed
      /\ visited \subseteq visited' /\ open' \in visited'
      /\ \A d \in Listed : badge'[d] = badge[d] \/ d \in visited'
  BY <1>1, EnterSees DEF ChatListInv
<1>3. Quiet
  BY <1>1, <1>2 DEF Quiet, server
<1>4. OwnIsFetched'
  BY <1>1, <1>2 DEF ChatListInv, OwnIsFetched, Mine, server
<1>5. /\ GivesUp /\ (call' = NoCall \/ call' = call)
      /\ open' # None => open' \in visited'
      /\ \A d \in own' : d \in own \/ (call # NoCall /\ call.chat = d)
  BY <1>1, <1>2 DEF GivesUp
<1>. QED
  BY <1>3, <1>4, <1>5, PlainPage

LEMMA AnswerSteps ==
  ASSUME ChatListInv, TypeOK', CreateAnswered
  PROVE  ChatListInv'
<1>1. /\ Enter(call.chat) /\ call.chat \in Chats /\ call # NoCall
      /\ UNCHANGED <<mix, server, link, heard, inbox, loaded, seen, lost>>
      /\ Invalidate /\ call' = NoCall
      /\ own' = IF loaded THEN own \cup {call.chat} ELSE own
  BY CallShapes DEF CreateAnswered, ChatListInv, TypeOK, NoCall
<1>2. /\ Listed' = Listed
      /\ \A d \in Chats : Tuned(d)' => Tuned(d) \/ d \in Listed
      /\ visited \subseteq visited' /\ open' \in visited'
      /\ \A d \in Listed : badge'[d] = badge[d] \/ d \in visited'
  BY <1>1, EnterSees DEF ChatListInv
<1>3. Quiet
  BY <1>1, <1>2 DEF Quiet, server
<1>4. OwnIsFetched'
  <2>1. CASE fetch = NoFetch \/ loaded
    BY <1>1, <2>1 DEF Invalidate, OwnIsFetched
  <2>2. CASE ~(fetch = NoFetch \/ loaded)
    BY <1>1, <1>2, <2>2 DEF Invalidate, OwnIsFetched, ChatListInv, Mine, server
  <2>. QED
    BY <2>1, <2>2
<1>5. /\ GivesUp /\ (call' = NoCall \/ call' = call)
      /\ open' # None => open' \in visited'
      /\ \A d \in own' : d \in own \/ (call # NoCall /\ call.chat = d)
  BY <1>1, <1>2 DEF GivesUp, Invalidate
<1>. QED
  BY <1>3, <1>4, <1>5, PlainPage

LEMMA PlainSteps ==
  ASSUME ChatListInv, TypeOK', CloseChat \/ DeleteAnswered \/ CallFails \/ Refetch \/ FetchFails
  PROVE  ChatListInv'
<1>1. /\ UNCHANGED <<server, wire, badge, loaded, seen, lost, visited>>
      /\ open' = open \/ open' = None
      /\ own' = own \/ own' = {}
      /\ call' = NoCall \/ call' = call
      /\ GivesUp
  BY DEF CloseChat, DeleteAnswered, CallFails, Refetch, FetchFails, Invalidate, history, GivesUp
<1>2. Quiet
  BY <1>1 DEF Quiet, server, wire, Listed, Tuned
<1>3. OwnIsFetched'
  <2>1. CASE CloseChat \/ CallFails
    BY <2>1 DEF CloseChat, CallFails, OwnIsFetched, ChatListInv, Mine, Listed, server, history
  <2>2. CASE DeleteAnswered
    BY <2>2 DEF DeleteAnswered, Invalidate, OwnIsFetched, ChatListInv, Mine, Listed, server, history
  <2>3. CASE Refetch
    BY <2>3 DEF Refetch, OwnIsFetched
  <2>4. CASE FetchFails
    BY <2>4 DEF FetchFails, OwnIsFetched
  <2>. QED
    BY <2>1, <2>2, <2>3, <2>4
<1>4. open' # None => open' \in visited'
  BY <1>1 DEF ChatListInv, CountsAreOfNews
<1>5. \A d \in own' : d \in own \/ (call # NoCall /\ call.chat = d)
  BY <1>1
<1>. QED
  BY <1>1, <1>2, <1>3, <1>4, <1>5, PlainPage

(* The list is read, and then the counts.                                  *)
LEMMA ReadSteps ==
  ASSUME ChatListInv, TypeOK', FetchList \/ FetchCount
  PROVE  ChatListInv'
<1>1. /\ UNCHANGED <<server, wire, badge, loaded, open, call, history>>
  BY DEF FetchList, FetchCount
<1>2. Quiet
  BY <1>1 DEF Quiet, server, wire, history, Listed, Tuned
<1>3. FetchList => fetch' = [pc |-> "count", list |-> Mine]
  BY DEF FetchList
<1>4. FetchCount => /\ fetch.pc = "count" /\ fetch'.pc = "set" /\ fetch'.list = fetch.list
                    /\ fetch'.unread = unread
                    /\ fetch'.upTo = [c \in Chats |-> IF c \in fetch.list THEN news[c] ELSE 0]
  BY DEF FetchCount
<1>5. \A c \in Chats : news[c] \in Nat /\ unread[c] \in Nat /\ Mine \subseteq Chats
  BY ListConstants DEF ChatListInv, TypeOK, Counts, Mine
<1>6. UNCHANGED <<row, news, unread, seen, own, open, visited, call>> /\ Listed' = Listed
  BY <1>1 DEF server, wire, history, Listed
<1>7. \A c \in Chats : KnownHere(c)'
  <2>1. SUFFICES ASSUME NEW c \in Chats, c \in Mine'
                 PROVE  KnownHere(c)'
    BY DEF KnownHere
  <2>2. c \in Mine
    BY <1>6, <2>1 DEF Mine
  <2>3. CASE FetchList
    BY <1>3, <2>2, <2>3 DEF KnownHere
  <2>4. CASE FetchCount
    <3>1. c \notin fetch'.list /\ seen'[c] = 0 => Awaited(c)'
      BY <1>2, <1>4, <1>6, <2>2, <2>4, PerChat, QuietSteps, StillAwaited DEF KnownHere, ChatListInv
    <3>2. Cardinality({n \in Unheard(c)' : n > fetch'.upTo[c]}) \in Nat
      BY UnheardTypesNext
    <3>3. unread'[c] <= fetch'.unread[c] + Cardinality({n \in Unheard(c)' : n > fetch'.upTo[c]})
      BY <1>4, <1>5, <1>6, <2>4, <3>2
    <3>. QED
      BY <3>1, <3>3 DEF KnownHere
  <2>. QED
    BY <2>3, <2>4
<1>8. ForeignIsUnknown'
  <2>1. \A c \in Chats : Foreign(c) => c \notin Mine
    BY DEF Foreign, Mine
  <2>2. \A c \in Chats : fetch'.pc \in {"count", "set"} /\ c \in fetch'.list =>
          c \in Mine \/ (fetch.pc \in {"count", "set"} /\ c \in fetch.list)
    <3>1. CASE FetchList
      BY <1>3, <3>1
    <3>2. CASE FetchCount
      BY <1>4, <3>2
    <3>. QED
      BY <3>1, <3>2
  <2>. QED
    BY <1>2, <1>6, <2>1, <2>2, ForeignStays DEF ChatListInv, Foreign, Quiet
<1>9. CountsAreOfNews'
  BY <1>3, <1>4, <1>5, <1>6 DEF ChatListInv, CountsAreOfNews
<1>10. OwnIsFetched'
  <2>1. CASE FetchList
    BY <1>3, <1>6, <2>1 DEF OwnIsFetched, Mine
  <2>2. CASE FetchCount
    BY <1>4, <1>6, <2>2 DEF OwnIsFetched, Mine, ChatListInv, NoFetch, Asked
  <2>. QED
    BY <2>1, <2>2
<1>. QED
  BY <1>2, <1>7, <1>8, <1>9, <1>10, QuietSteps, PerChatNext DEF ChatListInv

(* The answer replaces the list.                                           *)
LEMMA SetSteps ==
  ASSUME ChatListInv, TypeOK', FetchSet
  PROVE  ChatListInv'
<1>. DEFINE b == [c \in fetch.list |-> fetch.unread[c]]
<1>1. PICK new \in BOOLEAN : Show(b, new)
  BY DEF FetchSet
<1>2. /\ UNCHANGED <<mix, server, link, heard, inbox, greeted, drops, open, call, seen, visited, own>>
      /\ lost' = {c \in Chats : seen[c] > fetch.upTo[c]} /\ fetch' = NoFetch /\ fetch.pc = "set"
  BY DEF FetchSet
<1>3. /\ fetch.list \in SUBSET Chats /\ fetch.unread \in Counts /\ fetch.upTo \in Counts
  BY <1>2, FetchShapes DEF ChatListInv, TypeOK
<1>4. badge' = b /\ Listed' = fetch.list /\ \A c \in fetch.list : badge'[c] = fetch.unread[c]
  BY <1>1 DEF Show, Listed
<1>5. ASSUME NEW c \in Chats, Tuned(c)'
      PROVE  Tuned(c) \/ c \in fetch.list
  <2>1. PICK ms : Emit(ms) /\ ms \subseteq Subscriptions(b)
    BY <1>1 DEF Show
  <2>2. DOMAIN b = fetch.list
    OBVIOUS
  <2>. HIDE DEF b
  <2>. QED
    BY <1>2, <1>5, <2>1, <2>2, EmitTunes, SubscriptionsOf
<1>. HIDE DEF b
<1>6. \A c \in Chats : /\ unread[c] \in Nat /\ seen[c] \in Nat /\ fetch.unread[c] \in Nat
                       /\ fetch.upTo[c] \in Nat
  <2>1. \A c \in Chats : unread[c] \in Nat /\ seen[c] \in Nat
    BY NumbersTypes DEF ChatListInv
  <2>. QED
    BY <1>3, <2>1, ListConstants DEF Counts
<1>7. /\ UNCHANGED <<row, unread, news, publishing, inbox, seen, open, visited, own, call>>
      /\ OnTheWay' = OnTheWay
  BY <1>2 DEF server, OnTheWay
<1>8. \A c \in Chats : Unheard(c)' = Unheard(c) /\ (NewComes(c)' <=> NewComes(c))
                       /\ (Told(c)' <=> Told(c))
  BY <1>7 DEF Unheard, NewComes, Told
<1>9. ASSUME NEW c \in Chats
      PROVE  MissedHere(c)'
  <2>1. SUFFICES ASSUME c \in Mine' \ lost'
                 PROVE  Current(c)' \/ Awaited(c)'
    BY DEF MissedHere
  <2>2. c \in Mine /\ seen[c] <= fetch.upTo[c] /\ KnownHere(c)
    BY <1>2, <1>6, <1>7, <2>1, PerChat DEF Mine
  <2>3. CASE c \in fetch.list
    <3>1. unread[c] <= fetch.unread[c] + Cardinality({n \in Unheard(c) : n > fetch.upTo[c]})
      BY <1>2, <2>2, <2>3 DEF KnownHere
    <3>2. unread[c] <= fetch.unread[c] + Cardinality(Unheard(c))
      BY <1>6, <3>1, UnheardTypes
    <3>3. unread'[c] <= badge'[c] + Cardinality(Unheard(c)')
      BY <1>4, <1>7, <1>8, <2>3, <3>2
    <3>. QED
      BY <1>4, <2>3, <3>3 DEF Current
  <2>4. CASE c \notin fetch.list
    <3>1. fetch.upTo[c] = 0
      BY <1>2, <2>4 DEF ChatListInv, CountsAreOfNews
    <3>2. Awaited(c)
      BY <1>2, <1>6, <2>2, <2>4, <3>1 DEF KnownHere
    <3>3. ~Tuned(c)' /\ c \notin Listed'
      BY <1>4, <1>5, <2>4, <3>2 DEF Awaited
    <3>4. unread'[c] <= Cardinality(Unheard(c)')
      BY <1>7, <1>8, <3>2 DEF Awaited
    <3>. QED
      BY <1>8, <3>2, <3>3, <3>4 DEF Awaited
  <2>. QED
    BY <2>3, <2>4
<1>10. \A c \in Chats : KnownHere(c)'
  BY <1>2 DEF KnownHere, NoFetch
<1>11. ForeignIsUnknown'
  <2>1. SUFFICES ASSUME NEW c \in Chats, Foreign(c)'
                 PROVE  /\ news'[c] = 0 /\ seen'[c] = 0
                        /\ c \notin Listed' \cup own' /\ ~Tuned(c)'
                        /\ fetch'.pc \in {"count", "set"} => c \notin fetch'.list
                        /\ call' # NoCall => call'.chat # c
    BY DEF ForeignIsUnknown
  <2>2. /\ news[c] = 0 /\ seen[c] = 0
        /\ c \notin Listed \cup own /\ ~Tuned(c)
        /\ c \notin fetch.list
        /\ call # NoCall => call.chat # c
    BY <1>2, <1>7, <2>1 DEF ChatListInv, ForeignIsUnknown, Foreign
  <2>. QED
    BY <1>2, <1>4, <1>5, <1>7, <2>2 DEF NoFetch
<1>12. CountsAreOfNews'
  BY <1>2, <1>7 DEF ChatListInv, CountsAreOfNews, NoFetch
<1>13. OwnIsFetched'
  <2>1. ASSUME NEW c \in Mine' \cap own'
        PROVE  c \in Listed'
    <3>1. c \in Mine \cap own
      BY <1>7, <2>1 DEF Mine
    <3>2. c \in fetch.list
      BY <1>2, <3>1 DEF ChatListInv, OwnIsFetched, NoFetch, Asked
    <3>. QED
      BY <1>4, <3>2
  <2>. QED
    BY <1>2, <2>1 DEF OwnIsFetched
<1>14. EachEventOnce'
  BY <1>7 DEF ChatListInv, EachEventOnce
<1>. QED
  BY <1>9, <1>10, <1>11, <1>12, <1>13, <1>14, PerChatNext DEF ChatListInv

-----------------------------------------------------------------------------
(* What happens to chats.                                                  *)

(* A user leaves, reads, deletes: there is less to be shown.               *)
LEMMA FewerSteps ==
  ASSUME ChatListInv, TypeOK', (\E c \in Chats : End(c) \/ MarkRead(c)) \/ DeleteHere
  PROVE  ChatListInv'
<1>1. /\ UNCHANGED <<news, publishing, wire, badge, loaded, open, fetch, history>>
      /\ \A d \in Chats : /\ unread'[d] <= unread[d]
                          /\ d \in Mine' => d \in Mine
                          /\ Foreign(d)' => Foreign(d)
      /\ \/ call' = call
         \/ open \in Chats /\ row[open] = "mine" /\ call' = [pc |-> "delete", chat |-> open]
  <2>1. TypeOK /\ unread \in Counts /\ \A d \in Chats : unread[d] \in Nat
    BY NumbersTypes DEF ChatListInv, TypeOK
  <2>2. ASSUME NEW c \in Chats, End(c)
        PROVE  /\ unread' = unread /\ call' = call
               /\ \A d \in Chats : (d \in Mine' => d \in Mine) /\ (Foreign(d)' => Foreign(d))
    BY <2>1, <2>2 DEF End, TypeOK, Mine, Foreign, page
  <2>3. ASSUME NEW c \in Chats, MarkRead(c)
        PROVE  row' = row /\ call' = call /\ \A d \in Chats : unread'[d] <= unread[d]
    BY <2>1, <2>3 DEF MarkRead, page, Counts
  <2>4. ASSUME DeleteHere
        PROVE  /\ unread' = unread /\ open \in Chats /\ row[open] = "mine"
               /\ call' = [pc |-> "delete", chat |-> open]
               /\ \A d \in Chats : (d \in Mine' => d \in Mine) /\ (Foreign(d)' => Foreign(d))
    BY <2>1, <2>4 DEF DeleteHere, TypeOK, Mine, Foreign
  <2>5. UNCHANGED <<news, publishing, wire, badge, loaded, open, fetch, history>>
    BY DEF End, MarkRead, DeleteHere, page
  <2>. QED
    BY <2>1, <2>2, <2>3, <2>4, <2>5 DEF Mine, Foreign
<1>2. /\ UNCHANGED <<inbox, seen, lost, visited, own>> /\ Listed' = Listed
      /\ \A d \in Chats : Tuned(d)' <=> Tuned(d)
  BY <1>1 DEF wire, history, Listed, Tuned
<1>3. ASSUME NEW d \in Chats
      PROVE  MissedHere(d)' /\ KnownHere(d)'
  <2>1. Still(d)
    BY <1>1, <1>2, QuietStill DEF ChatListInv
  <2>2. d \in Listed => badge'[d] >= badge[d] \/ d \in visited'
    BY <1>1 DEF ChatListInv, TypeOK, Listed
  <2>. QED
    BY <1>1, <1>2, <2>1, <2>2, StillMissed, StillKnown, PerChat DEF ChatListInv
<1>4. ForeignIsUnknown'
  <2>1. ASSUME NEW d \in Chats, Foreign(d)', call' # NoCall, call'.chat = d
        PROVE  call # NoCall /\ call.chat = d
    BY <1>1, <2>1 DEF Foreign
  <2>. QED
    BY <1>1, <1>2, <2>1, ForeignStays DEF ChatListInv
<1>5. CountsAreOfNews'
  <2>1. \A d \in Chats : unread[d] \in Nat /\ unread'[d] \in Nat /\ news[d] \in Nat
    BY NumbersTypes DEF ChatListInv
  <2>2. \A d \in Chats : unread'[d] <= news[d]
    BY <1>1, <2>1 DEF ChatListInv, CountsAreOfNews
  <2>. QED
    BY <1>1, <1>2, <2>2 DEF ChatListInv, CountsAreOfNews
<1>6. OwnIsFetched'
  <2>1. Mine' \cap own' \subseteq Mine \cap own
    BY <1>1, <1>2 DEF Mine
  <2>. QED
    BY <1>1, <1>2, <2>1 DEF ChatListInv, OwnIsFetched
<1>7. EachEventOnce'
  BY <1>1, <1>2 DEF ChatListInv, EachEventOnce, OnTheWay
<1>. QED
  BY <1>3, <1>4, <1>5, <1>6, <1>7, PerChatNext DEF ChatListInv

(* The counts over a step that only adds news.                             *)
LEMMA MoreNews ==
  ASSUME ChatListInv, TypeOK', UNCHANGED <<fetch, open, visited>>,
         \A d \in Chats : news[d] <= news'[d] /\ unread'[d] <= news'[d]
  PROVE  CountsAreOfNews'
<1>1. fetch.pc = "set" => \A d \in Chats :
        /\ fetch.upTo[d] \in Nat /\ fetch.upTo[d] <= news[d]
        /\ d \notin fetch.list => fetch.upTo[d] = 0
  BY FetchShapes, ListConstants DEF ChatListInv, TypeOK, Counts, CountsAreOfNews
<1>2. fetch'.pc = "set" => \A d \in Chats :
        fetch'.upTo[d] <= news'[d] /\ (d \notin fetch'.list => fetch'.upTo[d] = 0)
  BY <1>1, NumbersTypes DEF ChatListInv
<1>. QED
  BY <1>2 DEF ChatListInv, CountsAreOfNews
LEMMA NewsGrow ==
  ASSUME TypeOK, NEW c \in Chats, news' = [news EXCEPT ![c] = @ + 1]
                                  \/ \E kind \in {"new", "message"} : Happens(c, kind)
  PROVE  /\ \A d \in Chats : news[d] <= news'[d]
         /\ \A d \in Chats \ {c} : news'[d] = news[d]
         /\ news'[c] = news[c] + 1
<1>1. news' = [news EXCEPT ![c] = news[c] + 1]
  BY DEF Happens
<1>2. DOMAIN news = Chats
  BY DEF TypeOK, Counts
<1>3. \A d \in Chats : news'[d] = IF d = c THEN news[c] + 1 ELSE news[d]
  BY <1>1, <1>2
<1>. QED
  BY <1>3, NumbersTypes

(* News of a chat leave the others alone.                                  *)
LEMMA OthersStill ==
  ASSUME TypeOK, TypeOK', EachEventOnce, NEW c \in Chats, NEW d \in Chats \ {c},
         (\E kind \in {"new", "message"} : Happens(c, kind)) \/ publishing' = publishing,
         UNCHANGED <<inbox, badge, wire>>, seen'[d] = seen[d], row'[d] = row[d],
         unread'[d] = unread[d]
  PROVE  Still(d) /\ (Tuned(d)' <=> Tuned(d))
<1>1. \A e \in OnTheWay \cup OnTheWay' : e.chat = d => (e \in OnTheWay <=> e \in OnTheWay')
  <2>1. CASE publishing' = publishing
    BY <2>1 DEF OnTheWay
  <2>2. ASSUME NEW kind \in {"new", "message"}, Happens(c, kind)
        PROVE  \A e \in OnTheWay \cup OnTheWay' :
                 e.chat = d => (e \in OnTheWay <=> e \in OnTheWay')
    BY <2>2, HappensFlight
  <2>. QED
    BY <2>1, <2>2
<1>2. Unheard(d)' = Unheard(d) /\ (NewComes(d)' <=> NewComes(d))
  BY <1>1, SameFlight
<1>3. (Told(d)' <=> Told(d)) /\ (Tuned(d)' <=> Tuned(d)) /\ Listed' = Listed
  BY DEF Told, Tuned, Listed, wire
<1>4. unread[d] \in Nat /\ seen[d] \in Nat
  BY ListConstants DEF TypeOK, Counts
<1>. QED
  BY <1>2, <1>3, <1>4 DEF Still, Mine

(* A chat begins: its event is on its way before any other of it.          *)
LEMMA CreatedSteps ==
  ASSUME ChatListInv, TypeOK', NEW c \in Chats, Created(c),
         call' = call \/ call' = [pc |-> "create", chat |-> c]
  PROVE  ChatListInv'
<1>1. /\ row[c] = "none" /\ row' = [row EXCEPT ![c] = "mine"] /\ Happens(c, "new")
      /\ UNCHANGED <<mix, unread, wire, badge, loaded, open, fetch, history>>
  BY DEF Created
<1>2. UNCHANGED <<unread, inbox, heard, sent, buffer, badge, open, fetch, seen, lost, visited, own>>
  BY <1>1 DEF wire, history
<1>3. /\ news[c] = 0 /\ seen[c] = 0
      /\ c \notin Listed \cup own /\ ~Tuned(c)
      /\ fetch.pc \in {"count", "set"} => c \notin fetch.list
      /\ call # NoCall => call.chat # c
  BY <1>1 DEF ChatListInv, ForeignIsUnknown, Foreign
<1>4. \A d \in Chats \ {c} : row'[d] = row[d]
  BY <1>1
<1>5. \A d \in Chats \ {c} : Still(d) /\ (Tuned(d)' <=> Tuned(d))
  BY <1>1, <1>2, <1>4, OthersStill DEF ChatListInv
<1>6. ASSUME NEW d \in Chats \ {c}
      PROVE  MissedHere(d)' /\ KnownHere(d)'
  <2>1. d \in Listed => badge'[d] >= badge[d] \/ d \in visited'
    BY <1>2 DEF ChatListInv, TypeOK, Listed
  <2>. QED
    BY <1>2, <1>5, <2>1, StillMissed, StillKnown, PerChat DEF ChatListInv
<1>7. /\ OnTheWay' = OnTheWay \cup {[kind |-> "new", chat |-> c, n |-> news[c] + 1]}
      /\ \A x \in OnTheWay : x.chat = c => x.n <= news[c]
      /\ EachEventOnce'
  BY <1>1, <1>2, HappensFlight DEF ChatListInv
<1>8. Awaited(c)'
  <2>1. c \notin Listed' /\ ~Tuned(c)'
    BY <1>2, <1>3 DEF Listed, Tuned
  <2>2. NewComes(c)'
    <3>1. PICK e : e = [kind |-> "new", chat |-> c, n |-> news[c] + 1]
      OBVIOUS
    <3>2. e.kind = "new" /\ e.chat = c /\ e \in OnTheWay'
      BY <1>7, <3>1
    <3>. QED
      BY <3>2 DEF NewComes
  <2>3. ~Told(c)'
    <3>1. \A x \in OnTheWay : x.n \in Nat \ {0}
      BY FlightTypes DEF ChatListInv
    <3>2. \A x \in Range(inbox) : x \in OnTheWay
      BY DEF OnTheWay
    <3>3. \A x \in Range(inbox) : x.chat # c
      BY <1>3, <1>7, <3>1, <3>2
    <3>. QED
      BY <1>2, <3>3 DEF Told
  <2>4. unread'[c] <= Cardinality(Unheard(c)')
    <3>1. unread[c] = 0
      BY <1>3, NumbersTypes DEF ChatListInv, CountsAreOfNews
    <3>. QED
      BY <1>2, <3>1, UnheardTypesNext
  <2>. QED
    BY <2>1, <2>2, <2>3, <2>4 DEF Awaited
<1>9. MissedHere(c)' /\ KnownHere(c)'
  BY <1>2, <1>3, <1>8 DEF MissedHere, KnownHere
<1>10. \A d \in Chats : MissedHere(d)' /\ KnownHere(d)'
  BY <1>6, <1>9
<1>11. DOMAIN row = Chats /\ row'[c] = "mine" /\ ~Foreign(c)'
  BY <1>1 DEF ChatListInv, TypeOK, Foreign
<1>12. \A d \in Chats \ {c} : news'[d] = news[d]
  BY <1>1 DEF Happens, ChatListInv, TypeOK, Counts
<1>13. ForeignIsUnknown'
  <2>1. ASSUME NEW d \in Chats, Foreign(d)'
        PROVE  /\ d # c /\ Foreign(d)
               /\ call' # NoCall /\ call'.chat = d => call # NoCall /\ call.chat = d
    BY <1>4, <1>11, <2>1 DEF Foreign
  <2>. QED
    BY <1>2, <1>5, <1>12, <2>1, ForeignStays DEF ChatListInv, Listed
<1>14. CountsAreOfNews'
  <2>1. \A d \in Chats : news[d] <= news'[d]
    BY <1>1, NewsGrow DEF ChatListInv
  <2>2. \A d \in Chats : unread'[d] <= news'[d]
    BY <1>2, <2>1, NumbersTypes DEF ChatListInv, CountsAreOfNews
  <2>. QED
    BY <1>2, <2>1, <2>2, MoreNews
<1>15. OwnIsFetched'
  <2>1. Mine' \cap own' \subseteq Mine \cap own
    BY <1>2, <1>3, <1>4 DEF Mine
  <2>. QED
    BY <1>2, <2>1 DEF ChatListInv, OwnIsFetched, Listed
<1>. QED
  BY <1>7, <1>10, <1>13, <1>14, <1>15, PerChatNext DEF ChatListInv

(* The user is added to a chat by another: the page is not told.           *)
LEMMA AddSteps ==
  ASSUME ChatListInv, TypeOK', NEW c \in Chats, AddMember(c)
  PROVE  ChatListInv'
<1>1. /\ row[c] = "others" /\ row' = [row EXCEPT ![c] = "mine"]
      /\ news' = [news EXCEPT ![c] = @ + 1] /\ seen' = [seen EXCEPT ![c] = news[c] + 1]
      /\ lost' = lost \cup {c}
      /\ UNCHANGED <<mix, unread, publishing, wire, page, visited, own>>
  BY DEF AddMember
<1>2. UNCHANGED <<inbox, heard, sent, buffer, badge, open, fetch, call>>
  BY <1>1 DEF wire, page
<1>3. /\ news[c] = 0 /\ c \notin own
      /\ fetch.pc \in {"count", "set"} => c \notin fetch.list
  BY <1>1 DEF ChatListInv, ForeignIsUnknown, Foreign
<1>4. DOMAIN row = Chats /\ DOMAIN seen = Chats /\ DOMAIN news = Chats
  BY DEF ChatListInv, TypeOK, Counts
<1>5. /\ \A d \in Chats \ {c} : row'[d] = row[d] /\ seen'[d] = seen[d] /\ news'[d] = news[d]
      /\ row'[c] = "mine" /\ seen'[c] = 1
  BY <1>1, <1>3, <1>4
<1>6. \A d \in Chats \ {c} : Still(d) /\ (Tuned(d)' <=> Tuned(d))
  BY <1>1, <1>2, <1>5, OthersStill DEF ChatListInv
<1>7. ASSUME NEW d \in Chats \ {c}
      PROVE  MissedHere(d)' /\ KnownHere(d)'
  <2>1. d \in Listed => badge'[d] >= badge[d] \/ d \in visited'
    BY <1>2 DEF ChatListInv, TypeOK, Listed
  <2>. QED
    BY <1>1, <1>2, <1>6, <2>1, StillMissed, StillKnown, PerChat DEF ChatListInv
<1>8. MissedHere(c)' /\ KnownHere(c)'
  BY <1>1, <1>2, <1>3, <1>5, FetchShapes DEF MissedHere, KnownHere, ChatListInv, TypeOK
<1>9. ForeignIsUnknown'
  <2>1. \A d \in Chats : Foreign(d)' => d # c /\ Foreign(d)
    BY <1>5 DEF Foreign
  <2>. QED
    BY <1>1, <1>2, <1>5, <1>6, <2>1, ForeignStays DEF ChatListInv, Listed
<1>10. CountsAreOfNews'
  <2>1. \A d \in Chats : news[d] <= news'[d]
    BY <1>1, NewsGrow DEF ChatListInv
  <2>2. \A d \in Chats : unread'[d] <= news'[d]
    BY <1>1, <2>1, NumbersTypes DEF ChatListInv, CountsAreOfNews
  <2>. QED
    BY <1>1, <1>2, <2>1, <2>2, MoreNews
<1>11. OwnIsFetched'
  <2>1. Mine' \cap own' \subseteq Mine \cap own
    BY <1>1, <1>3, <1>5 DEF Mine
  <2>. QED
    BY <1>2, <2>1 DEF ChatListInv, OwnIsFetched, Listed
<1>12. EachEventOnce'
  <2>1. \A x \in OnTheWay : x.n <= news'[x.chat]
    <3>1. \A x \in OnTheWay : /\ x.chat \in Chats /\ x.n \in Nat /\ x.n <= news[x.chat]
      BY FlightTypes DEF ChatListInv, EachEventOnce
    <3>. QED
      BY <1>1, <3>1, NewsGrow, NumbersTypes DEF ChatListInv
  <2>. QED
    BY <1>1, <1>2, <2>1 DEF ChatListInv, EachEventOnce, OnTheWay
<1>. QED
  BY <1>7, <1>8, <1>9, <1>10, <1>11, <1>12, PerChatNext DEF ChatListInv

(* A message: it is on its way, and unread for the user at most.           *)
LEMMA SendSteps ==
  ASSUME ChatListInv, TypeOK', NEW c \in Chats, NEW self \in BOOLEAN, SendMessage(c, self)
  PROVE  ChatListInv'
<1>1. /\ ~Foreign(c) /\ Happens(c, "message")
      /\ UNCHANGED <<mix, row, wire, page, history>>
  BY DEF SendMessage, Foreign
<1>2. /\ UNCHANGED <<inbox, heard, sent, buffer, badge, open, fetch, call,
                     seen, lost, visited, own>>
      /\ Listed' = Listed
  BY <1>1 DEF wire, page, history, Listed
<1>3. /\ \A d \in Chats \ {c} : unread'[d] = unread[d]
      /\ unread'[c] = unread[c] \/ unread'[c] = unread[c] + 1
  BY DEF SendMessage, ChatListInv, TypeOK, Counts
<1>4. \A d \in Chats \ {c} : Still(d) /\ (Tuned(d)' <=> Tuned(d))
  BY <1>1, <1>2, <1>3, OthersStill DEF ChatListInv
<1>5. ASSUME NEW d \in Chats \ {c}
      PROVE  MissedHere(d)' /\ KnownHere(d)'
  <2>1. d \in Listed => badge'[d] >= badge[d] \/ d \in visited'
    BY <1>2 DEF ChatListInv, TypeOK, Listed
  <2>. QED
    BY <1>2, <1>4, <2>1, StillMissed, StillKnown, PerChat DEF ChatListInv
<1>6. PICK k : k = news[c] + 1
  OBVIOUS
<1>7. /\ OnTheWay' = OnTheWay \cup {[kind |-> "message", chat |-> c, n |-> k]}
      /\ \A x \in OnTheWay : x.chat = c => x.n <= news[c]
      /\ EachEventOnce'
  BY <1>1, <1>2, <1>6, HappensFlight DEF ChatListInv
<1>8. k \in 1..MaxNews /\ news[c] \in Nat /\ OnTheWay \subseteq Event
  BY <1>1, <1>6, HappensTypes, NumbersTypes, FlightTypes, ListConstants DEF ChatListInv
<1>9. \A x \in OnTheWay : x.chat = c => x.n # k
  BY <1>6, <1>7, <1>8, FlightTypes DEF ChatListInv
<1>10. /\ Unheard(c)' = Unheard(c) \cup {k} /\ k \notin Unheard(c)
       /\ (NewComes(c)' <=> NewComes(c))
       /\ Cardinality(Unheard(c)') = Cardinality(Unheard(c)) + 1
  BY <1>7, <1>8, <1>9, MessageUnheard
<1>11. /\ unread'[c] <= unread[c] + 1
       /\ unread[c] \in Nat /\ unread'[c] \in Nat
       /\ Cardinality(Unheard(c)) \in Nat
  BY <1>3, NumbersTypes, UnheardTypes DEF ChatListInv
<1>12. /\ Told(c)' <=> Told(c)
       /\ Tuned(c)' <=> Tuned(c)
       /\ c \in Mine' <=> c \in Mine
  BY <1>1, <1>2 DEF Told, Tuned, Mine
<1>13. Awaited(c) => Awaited(c)'
  BY <1>2, <1>10, <1>11, <1>12 DEF Awaited
<1>14. Current(c) => Current(c)'
  <2>1. c \in Listed => badge[c] \in Nat
    BY DEF ChatListInv, TypeOK, Listed
  <2>. QED
    BY <1>2, <1>10, <1>11, <2>1 DEF Current
<1>15. MissedHere(c)'
  BY <1>2, <1>12, <1>13, <1>14, PerChat DEF MissedHere
<1>16. KnownHere(c)'
  <2>1. SUFFICES ASSUME c \in Mine'
                 PROVE  KnownHere(c)'
    BY DEF KnownHere
  <2>2. KnownHere(c) /\ c \in Mine
    BY <1>12, <2>1, PerChat
  <2>3. fetch'.pc \in {"count", "set"} /\ c \notin fetch'.list /\ seen'[c] = 0 => Awaited(c)'
    BY <1>2, <1>13, <2>2 DEF KnownHere
  <2>4. ASSUME fetch'.pc = "set", c \in fetch'.list, seen'[c] <= fetch'.upTo[c]
        PROVE  unread'[c] <= fetch'.unread[c]
                 + Cardinality({n \in Unheard(c)' : n > fetch'.upTo[c]})
    <3>. DEFINE after == {n \in Unheard(c) : n > fetch.upTo[c]}
    <3>1. fetch.upTo[c] \in Nat /\ fetch.upTo[c] <= news[c] /\ fetch.unread[c] \in Nat
      <4>1. fetch.upTo \in Counts /\ fetch.unread \in Counts
        BY <1>2, <2>4, FetchShapes DEF ChatListInv, TypeOK
      <4>2. fetch.upTo[c] <= news[c]
        BY <1>2, <2>4 DEF ChatListInv, CountsAreOfNews
      <4>. QED
        BY <4>1, <4>2, ListConstants DEF Counts
    <3>2. {n \in Unheard(c)' : n > fetch'.upTo[c]} = after \cup {k} /\ k \notin after
      BY <1>2, <1>6, <1>8, <1>10, <3>1
    <3>3. IsFiniteSet(after) /\ Cardinality(after) \in Nat
      BY UnheardTypes
    <3>4. unread[c] <= fetch.unread[c] + Cardinality(after)
      BY <1>2, <2>2, <2>4 DEF KnownHere
    <3>. HIDE DEF after
    <3>5. Cardinality(after \cup {k}) = Cardinality(after) + 1
      BY <3>2, <3>3, FS_AddElement
    <3>6. Cardinality({n \in Unheard(c)' : n > fetch'.upTo[c]}) = Cardinality(after) + 1
      BY <3>2, <3>5
    <3>7. fetch'.unread[c] = fetch.unread[c]
      BY <1>2
    <3>8. unread'[c] <= fetch.unread[c] + (Cardinality(after) + 1)
      BY <1>11, <3>1, <3>3, <3>4
    <3>. QED
      BY <3>6, <3>7, <3>8
  <2>. QED
    BY <2>3, <2>4 DEF KnownHere
<1>17. \A d \in Chats : MissedHere(d)' /\ KnownHere(d)'
  BY <1>5, <1>15, <1>16
<1>18. ForeignIsUnknown'
  <2>1. \A d \in Chats : Foreign(d)' => d # c /\ Foreign(d)
    BY <1>1 DEF Foreign
  <2>. QED
    BY <1>1, <1>2, <1>4, <2>1, NewsGrow, ForeignStays DEF ChatListInv
<1>19. CountsAreOfNews'
  <2>1. \A d \in Chats : news[d] <= news'[d] /\ news'[c] = news[c] + 1
    BY <1>1, NewsGrow DEF ChatListInv
  <2>2. \A d \in Chats : unread'[d] <= news'[d]
    BY <1>3, <2>1, NumbersTypes DEF ChatListInv, CountsAreOfNews
  <2>. QED
    BY <1>2, <2>1, <2>2, MoreNews
<1>20. OwnIsFetched'
  BY <1>1, <1>2 DEF ChatListInv, OwnIsFetched, Mine
<1>. QED
  BY <1>7, <1>17, <1>18, <1>19, <1>20, PerChatNext DEF ChatListInv

-----------------------------------------------------------------------------
(* Events.                                                                 *)

(* An event is published to a socket that hears it: it stays on its way.   *)
LEMMA HeardSteps ==
  ASSUME ChatListInv, TypeOK', NEW e \in publishing, Publish(e), Hears(e)
  PROVE  ChatListInv'
<1>1. /\ UNCHANGED <<mix, row, unread, news, link, heard, greeted, buffer, sent, drops,
                     page, visited, own, seen, lost>>
      /\ OnTheWay' = OnTheWay /\ Range(inbox') = Range(inbox) \cup {e}
      /\ EachEventOnce'
  BY PublishFlight DEF Publish, ChatListInv
<1>2. UNCHANGED <<badge, open, fetch, call>> /\ Listed' = Listed
  BY <1>1 DEF page, Listed
<1>3. e.kind = "message" => e.chat \in heard
  BY DEF Hears
<1>4. ASSUME NEW c \in Chats
      PROVE  Still(c) /\ (Tuned(c)' <=> Tuned(c))
  <2>1. Unheard(c)' = Unheard(c) /\ (NewComes(c)' <=> NewComes(c))
    BY <1>1 DEF Unheard, NewComes
  <2>2. Told(c)' => Told(c) \/ Tuned(c)
    BY <1>1, <1>3 DEF Told, Tuned
  <2>3. Tuned(c)' <=> Tuned(c)
    BY <1>1 DEF Tuned
  <2>. QED
    BY <1>1, <1>2, <2>1, <2>2, <2>3, NumbersTypes DEF Still, Mine, ChatListInv
<1>5. ASSUME NEW c \in Chats
      PROVE  MissedHere(c)' /\ KnownHere(c)'
  <2>1. c \in Listed => badge'[c] >= badge[c] \/ c \in visited'
    BY <1>2 DEF ChatListInv, TypeOK, Listed
  <2>. QED
    BY <1>1, <1>2, <1>4, <2>1, StillMissed, StillKnown, PerChat DEF ChatListInv
<1>6. ForeignIsUnknown'
  BY <1>1, <1>2, <1>4, ForeignStays DEF ChatListInv, Foreign
<1>7. CountsAreOfNews' /\ OwnIsFetched'
  BY <1>1, <1>2 DEF ChatListInv, CountsAreOfNews, OwnIsFetched, Mine
<1>. QED
  BY <1>1, <1>5, <1>6, <1>7, PerChatNext DEF ChatListInv

(* What a fetch has not read is gone by, or on its way as before.          *)
LEMMA GoneKnown ==
  ASSUME ChatListInv, TypeOK', NEW es \in SUBSET Event, Gone(es), NEW y \in es,
         NEW c \in Chats, y.chat = c, \A x \in es : x.n <= seen'[x.chat],
         seen[c] <= seen'[c], UNCHANGED <<row, unread, fetch>>
  PROVE  KnownHere(c)'
<1>1. SUFFICES ASSUME c \in Mine'
               PROVE  KnownHere(c)'
  BY DEF KnownHere
<1>2. KnownHere(c) /\ c \in Mine
  BY <1>1, PerChat DEF Mine
<1>3. y.n \in Nat \ {0} /\ y.n <= seen'[c] /\ seen'[c] \in Nat
  BY FlightTypes, NumbersTypes DEF ChatListInv
<1>4. ASSUME fetch'.pc = "set", c \in fetch'.list, seen'[c] <= fetch'.upTo[c]
      PROVE  unread'[c] <= fetch'.unread[c]
               + Cardinality({n \in Unheard(c)' : n > fetch'.upTo[c]})
  <2>1. fetch.upTo[c] \in Nat
    <3>1. fetch.upTo \in Counts
      BY <1>4, FetchShapes DEF ChatListInv, TypeOK
    <3>. QED
      BY <3>1, ListConstants DEF Counts
  <2>2. \A x \in es : x.chat = c => ~(x.n > fetch.upTo[c])
    BY <1>3, <1>4, <2>1, FlightTypes DEF ChatListInv
  <2>3. {n \in Unheard(c)' : n > fetch'.upTo[c]} = {n \in Unheard(c) : n > fetch.upTo[c]}
    <3>1. \A n \in 1..MaxNews : n > fetch.upTo[c] =>
            ([kind |-> "message", chat |-> c, n |-> n] \in OnTheWay'
               <=> [kind |-> "message", chat |-> c, n |-> n] \in OnTheWay)
      BY <2>2 DEF Gone
    <3>. QED
      BY <3>1 DEF Unheard
  <2>4. seen[c] <= fetch.upTo[c]
    BY <1>3, <1>4, <2>1, NumbersTypes DEF ChatListInv
  <2>5. unread[c] <= fetch.unread[c] + Cardinality({n \in Unheard(c) : n > fetch.upTo[c]})
    BY <1>2, <1>4, <2>4 DEF KnownHere
  <2>. QED
    BY <2>3, <2>5
<1>. QED
  BY <1>3, <1>4 DEF KnownHere

(* Events are gone, and the page has not seen them: their chats are lost.  *)
LEMMA LostSteps ==
  ASSUME ChatListInv, TypeOK', EachEventOnce', NEW es \in SUBSET OnTheWay, Gone(es),
         GoneBy(es), Range(inbox') \subseteq Range(inbox),
         lost' = lost \cup {e.chat : e \in es},
         UNCHANGED <<row, unread, news, buffer, page, visited, own>>,
         heard' \subseteq heard, sent' \subseteq sent
  PROVE  ChatListInv'
<1>1. UNCHANGED <<badge, open, fetch, call>> /\ Listed' = Listed
  BY DEF page, Listed
<1>2. es \in SUBSET Event
  BY FlightTypes DEF ChatListInv
<1>3. /\ \A c \in Chats : seen[c] <= seen'[c]
      /\ \A x \in es : x.n <= seen'[x.chat]
      /\ \A c \in Chats : (\A x \in es : x.chat # c) => seen'[c] = seen[c]
  BY <1>2, SeenGrows, ListConstants DEF ChatListInv
<1>4. \A c \in Chats : Tuned(c)' => Tuned(c)
  BY DEF Tuned
<1>5. ASSUME NEW c \in Chats, \A x \in es : x.chat # c
      PROVE  MissedHere(c)' /\ KnownHere(c)'
  <2>1. \A x \in OnTheWay \cup OnTheWay' : x.chat = c => (x \in OnTheWay <=> x \in OnTheWay')
    BY <1>5 DEF Gone
  <2>2. Unheard(c)' = Unheard(c) /\ (NewComes(c)' <=> NewComes(c))
    BY <2>1, SameFlight
  <2>3. Told(c)' => Told(c)
    BY DEF Told
  <2>4. Still(c)
    BY <1>1, <1>3, <1>4, <2>2, <2>3, NumbersTypes DEF Still, Mine, ChatListInv
  <2>5. c \in Listed => badge'[c] >= badge[c] \/ c \in visited'
    BY <1>1 DEF ChatListInv, TypeOK, Listed
  <2>. QED
    BY <1>1, <2>4, <2>5, StillMissed, StillKnown, PerChat DEF ChatListInv
<1>6. ASSUME NEW c \in Chats, NEW y \in es, y.chat = c
      PROVE  MissedHere(c)' /\ KnownHere(c)'
  <2>1. c \in lost'
    BY <1>6
  <2>2. KnownHere(c)'
    BY <1>1, <1>2, <1>3, <1>6, GoneKnown
  <2>. QED
    BY <2>1, <2>2 DEF MissedHere
<1>7. \A c \in Chats : MissedHere(c)' /\ KnownHere(c)'
  BY <1>5, <1>6
<1>8. ForeignIsUnknown'
  <2>1. ASSUME NEW c \in Chats, Foreign(c)'
        PROVE  Foreign(c) /\ seen'[c] = seen[c]
    <3>1. Foreign(c)
      BY <2>1 DEF Foreign
    <3>2. news[c] = 0
      BY <3>1 DEF ChatListInv, ForeignIsUnknown
    <3>3. \A x \in es : x.chat # c
      BY <1>2, <3>2, FlightTypes DEF ChatListInv, EachEventOnce
    <3>. QED
      BY <1>3, <3>1, <3>3
  <2>. QED
    BY <1>1, <1>4, <2>1, ForeignStays DEF ChatListInv
<1>9. CountsAreOfNews' /\ OwnIsFetched'
  BY <1>1 DEF ChatListInv, CountsAreOfNews, OwnIsFetched, Mine
<1>. QED
  BY <1>7, <1>8, <1>9, PerChatNext DEF ChatListInv

LEMMA PublishSteps ==
  ASSUME ChatListInv, TypeOK', NEW e \in publishing, Publish(e)
  PROVE  ChatListInv'
<1>1. CASE Hears(e)
  BY <1>1, HeardSteps
<1>2. CASE ~Hears(e)
  <2>1. /\ GoneBy({e}) /\ lost' = lost \cup {e.chat} /\ inbox' = inbox
        /\ UNCHANGED <<row, unread, news, heard, buffer, sent, page, visited, own>>
    BY <1>2 DEF Publish
  <2>2. Gone({e}) /\ EachEventOnce'
    BY <1>2, PublishFlight DEF ChatListInv
  <2>3. {e} \in SUBSET OnTheWay /\ lost' = lost \cup {x.chat : x \in {e}}
    BY <2>1 DEF OnTheWay
  <2>. QED
    BY <2>1, <2>2, <2>3, LostSteps
<1>. QED
  BY <1>1, <1>2

LEMMA CutSteps ==
  ASSUME ChatListInv, TypeOK', NEW how, Cut(how)
  PROVE  ChatListInv'
<1>1. /\ GoneBy(Range(inbox)) /\ lost' = lost \cup {e.chat : e \in Range(inbox)}
      /\ heard' = {} /\ sent' = {}
      /\ UNCHANGED <<row, unread, news, buffer, page, visited, own>>
  BY DEF Cut, NoneHeard, server
<1>2. Gone(Range(inbox)) /\ Range(inbox') = {} /\ EachEventOnce'
  BY CutFlight DEF ChatListInv
<1>3. Range(inbox) \in SUBSET OnTheWay
  BY DEF OnTheWay
<1>. QED
  BY <1>1, <1>2, <1>3, LostSteps

(* The page handles an event: of other chats it learns nothing.            *)
LEMMA HandledOthers ==
  ASSUME ChatListInv, TypeOK', NEW e, Handled(e), NEW c \in Chats, c # e.chat,
         c \in Listed' <=> c \in Listed, Tuned(c)' => Tuned(c) \/ c \in Listed,
         c \in Listed => badge'[c] = badge[c]
  PROVE  MissedHere(c)' /\ KnownHere(c)'
<1>1. /\ UNCHANGED <<row, unread, news, fetch, lost, visited>>
      /\ Gone({e}) /\ Range(inbox') = Range(inbox) \ {e}
  BY HandledFlight DEF Handled, server, ChatListInv
<1>2. seen'[c] = seen[c]
  BY HandledTypes, SeenGrows, ListConstants DEF Handled, ChatListInv
<1>3. \A x \in OnTheWay \cup OnTheWay' : x.chat = c => (x \in OnTheWay <=> x \in OnTheWay')
  BY <1>1 DEF Gone
<1>4. Unheard(c)' = Unheard(c) /\ (NewComes(c)' <=> NewComes(c))
  BY <1>3, SameFlight
<1>5. Told(c)' => Told(c)
  BY <1>1 DEF Told
<1>6. Still(c)
  BY <1>1, <1>2, <1>4, <1>5, NumbersTypes DEF Still, Mine, ChatListInv
<1>7. c \in Listed => badge'[c] >= badge[c] \/ c \in visited'
  BY DEF ChatListInv, TypeOK, Listed
<1>. QED
  BY <1>1, <1>6, <1>7, StillMissed, StillKnown, PerChat DEF ChatListInv

(* ... and everything the proofs ask about apart from the badges.          *)
LEMMA HandledRest ==
  ASSUME ChatListInv, TypeOK', NEW e, Handled(e),
         Listed \subseteq Listed', Listed' \subseteq Listed \cup {e.chat},
         \A c \in Chats : Tuned(c)' => Tuned(c) \/ c \in Listed'
  PROVE  /\ EachEventOnce' /\ ForeignIsUnknown' /\ CountsAreOfNews' /\ OwnIsFetched'
         /\ e \in OnTheWay /\ e \in Event /\ e.chat \in Chats
         /\ KnownHere(e.chat)'
<1>1. /\ UNCHANGED <<row, unread, news, fetch, lost, visited, open, call, own>>
      /\ Gone({e}) /\ EachEventOnce' /\ e \in Range(inbox)
  BY HandledFlight DEF Handled, server, ChatListInv
<1>2. e \in OnTheWay /\ e \in Event /\ e.chat \in Chats
  BY <1>1, HandledTypes DEF OnTheWay, ChatListInv
<1>3. /\ \A c \in Chats : seen[c] <= seen'[c]
      /\ e.n <= seen'[e.chat]
      /\ \A c \in Chats : e.chat # c => seen'[c] = seen[c]
  BY <1>2, SeenGrows, ListConstants DEF Handled, ChatListInv
<1>4. KnownHere(e.chat)'
  <2>1. {e} \in SUBSET Event /\ \A x \in {e} : x.n <= seen'[x.chat]
    BY <1>2, <1>3
  <2>. QED
    BY <1>1, <1>2, <1>3, <2>1, GoneKnown
<1>5. ForeignIsUnknown'
  <2>1. ASSUME NEW c \in Chats, Foreign(c)'
        PROVE  Foreign(c) /\ c # e.chat
    <3>1. Foreign(c)
      BY <1>1, <2>1 DEF Foreign
    <3>2. news[c] = 0
      BY <3>1 DEF ChatListInv, ForeignIsUnknown
    <3>. QED
      BY <1>2, <3>1, <3>2, FlightTypes DEF ChatListInv, EachEventOnce
  <2>2. \A c \in Chats : c # e.chat /\ c \in Listed' => c \in Listed
    OBVIOUS
  <2>. QED
    BY <1>1, <1>3, <2>1, <2>2, ForeignStays DEF ChatListInv
<1>6. CountsAreOfNews' /\ OwnIsFetched'
  BY <1>1 DEF ChatListInv, CountsAreOfNews, OwnIsFetched, Mine
<1>. QED
  BY <1>1, <1>2, <1>4, <1>5, <1>6

LEMMA ChatNewSteps ==
  ASSUME ChatListInv, TypeOK', NEW e, OnChatNew(e)
  PROVE  ChatListInv'
<1>1. /\ Handled(e) /\ e.kind = "new" /\ badge' = WithChat(badge, e.chat)
      /\ Emit({{e.chat}} \cup IF e.chat \in Listed THEN {} ELSE Subscriptions(badge'))
  BY DEF OnChatNew
<1>2. /\ UNCHANGED <<row, unread, heard, lost, visited>>
      /\ Gone({e})
  BY <1>1, HandledFlight DEF Handled, server, ChatListInv
<1>3. /\ Listed' = Listed \cup {e.chat}
      /\ \A c \in Listed : badge'[c] = badge[c]
      /\ e.chat \notin Listed => badge'[e.chat] = 0
  BY <1>1 DEF WithChat, Listed
<1>4. ASSUME NEW c \in Chats, Tuned(c)'
      PROVE  Tuned(c) \/ c \in Listed'
  <2>1. Tuned(c) \/ \E m \in {{e.chat}} \cup
                      IF e.chat \in Listed THEN {} ELSE Subscriptions(badge') : c \in m
    BY <1>1, <1>2, <1>4, EmitTunes
  <2>2. \A m \in Subscriptions(badge') : c \in m => c \in Listed'
    BY SubscriptionsOf DEF Listed
  <2>. QED
    BY <1>3, <2>1, <2>2
<1>5. /\ EachEventOnce' /\ ForeignIsUnknown' /\ CountsAreOfNews' /\ OwnIsFetched'
      /\ e \in OnTheWay /\ e \in Event /\ e.chat \in Chats
      /\ KnownHere(e.chat)'
  BY <1>1, <1>3, <1>4, HandledRest
<1>6. \A c \in Chats : c # e.chat => MissedHere(c)' /\ KnownHere(c)'
  BY <1>1, <1>3, <1>4, HandledOthers
<1>7. MissedHere(e.chat)'
  <2>1. SUFFICES ASSUME e.chat \in Mine' \ lost'
                 PROVE  Current(e.chat)'
    BY DEF MissedHere
  <2>2. Current(e.chat) \/ Awaited(e.chat)
    BY <1>2, <1>5, <2>1, PerChat DEF MissedHere, Mine
  <2>3. Unheard(e.chat)' = Unheard(e.chat)
    <3>1. \A n \in 1..MaxNews : [kind |-> "message", chat |-> e.chat, n |-> n] # e
      BY <1>1
    <3>. QED
      BY <1>2, <3>1 DEF Unheard, Gone
  <2>4. e.chat \in Listed'
    BY <1>3
  <2>5. CASE Current(e.chat)
    BY <1>2, <1>3, <2>3, <2>4, <2>5 DEF Current
  <2>6. CASE Awaited(e.chat)
    <3>1. badge'[e.chat] = 0 /\ unread'[e.chat] <= Cardinality(Unheard(e.chat)')
      BY <1>2, <1>3, <2>3, <2>6 DEF Awaited
    <3>. QED
      BY <1>5, <2>4, <3>1, UnheardTypesNext DEF Current
  <2>. QED
    BY <2>2, <2>5, <2>6
<1>8. \A c \in Chats : MissedHere(c)' /\ KnownHere(c)'
  BY <1>5, <1>6, <1>7
<1>. QED
  BY <1>5, <1>8, PerChatNext DEF ChatListInv

LEMMA MessageNewSteps ==
  ASSUME ChatListInv, TypeOK', NEW e, OnMessageNew(e)
  PROVE  ChatListInv'
<1>1. /\ Handled(e) /\ e.kind = "message"
      /\ badge' = IF e.chat = open THEN badge ELSE Counted(badge, e.chat)
      /\ Emit(Subscriptions(badge))
  BY DEF OnMessageNew
<1>2. /\ UNCHANGED <<row, unread, heard, lost, visited>>
      /\ Gone({e}) /\ e \in Range(inbox)
  BY <1>1, HandledFlight DEF Handled, server, ChatListInv
<1>3. /\ Listed' = Listed
      /\ \A c \in Listed : c # e.chat => badge'[c] = badge[c]
      /\ e.chat \in Listed /\ e.chat # open => badge'[e.chat] = badge[e.chat] + 1
  BY <1>1 DEF Counted, Listed
<1>4. ASSUME NEW c \in Chats, Tuned(c)'
      PROVE  Tuned(c) \/ c \in Listed'
  BY <1>1, <1>2, <1>3, <1>4, EmitTunes, SubscriptionsOf DEF Listed
<1>5. /\ EachEventOnce' /\ ForeignIsUnknown' /\ CountsAreOfNews' /\ OwnIsFetched'
      /\ e \in OnTheWay /\ e \in Event /\ e.chat \in Chats
      /\ KnownHere(e.chat)'
  BY <1>1, <1>3, <1>4, HandledRest
<1>6. \A c \in Chats : c # e.chat => MissedHere(c)' /\ KnownHere(c)'
  BY <1>1, <1>3, <1>4, HandledOthers
<1>7. MissedHere(e.chat)'
  <2>1. SUFFICES ASSUME e.chat \in Mine' \ lost'
                 PROVE  Current(e.chat)'
    BY DEF MissedHere
  <2>2. Told(e.chat)
    BY <1>1, <1>2 DEF Told
  <2>3. Current(e.chat)
    BY <1>2, <1>5, <2>1, <2>2, PerChat DEF MissedHere, Mine, Awaited
  <2>4. e.chat \in Listed'
    BY <1>3, <2>3 DEF Current
  <2>5. CASE e.chat \in visited
    BY <1>2, <2>4, <2>5 DEF Current
  <2>6. CASE e.chat \notin visited
    <3>1. e.chat # open
      <4>1. None \notin Chats /\ (open # None => open \in visited)
        BY ListConstants DEF ChatListInv, CountsAreOfNews
      <4>. QED
        BY <1>5, <2>6, <4>1
    <3>2. badge'[e.chat] = badge[e.chat] + 1 /\ badge[e.chat] \in Nat
      BY <1>3, <2>3, <3>1 DEF Current, ChatListInv, TypeOK, Listed
    <3>3. Cardinality(Unheard(e.chat)') = Cardinality(Unheard(e.chat)) - 1
      BY <1>1, <1>2, <1>5, FlightTypes, MessageHeard DEF ChatListInv
    <3>4. unread[e.chat] <= badge[e.chat] + Cardinality(Unheard(e.chat))
      BY <2>3, <2>6 DEF Current
    <3>5. unread'[e.chat] <= badge'[e.chat] + Cardinality(Unheard(e.chat)')
      BY <1>2, <1>5, <3>2, <3>3, <3>4, UnheardTypes, NumbersTypes DEF ChatListInv
    <3>. QED
      BY <2>4, <3>5 DEF Current
  <2>. QED
    BY <2>5, <2>6
<1>8. \A c \in Chats : MissedHere(c)' /\ KnownHere(c)'
  BY <1>5, <1>6, <1>7
<1>. QED
  BY <1>5, <1>8, PerChatNext DEF ChatListInv

-----------------------------------------------------------------------------
(* The theorems.                                                           *)

LEMMA InitInv ==
  ASSUME Init
  PROVE  ChatListInv
<1>1. DOMAIN badge = {} /\ DOMAIN inbox = {} /\ Range(inbox) = {} /\ OnTheWay = {}
  BY DEF Init, Range, OnTheWay
<1>2. (\A c \in Chats : unread[c] = 0 /\ news[c] = 0 /\ seen[c] = 0)
      /\ unread \in Counts /\ news \in Counts /\ seen \in Counts
  BY ListConstants DEF Init, Counts
<1>3. inbox \in Seq(Event) /\ 0 \in 0..MaxDrops
  BY ListConstants DEF Init
<1>4. row \in [Chats -> {"none", "others", "mine", "left", "deleted"}]
  BY DEF Init
<1>5. TypeOK
  BY <1>1, <1>2, <1>3, <1>4 DEF Init, TypeOK, Fetch, Call
<1>6. EachEventOnce
  BY <1>1 DEF Init, EachEventOnce
<1>7. ForeignIsUnknown
  BY <1>1, <1>2 DEF Init, ForeignIsUnknown, Listed, Tuned, Asked
<1>8. CountsAreOfNews
  BY <1>2 DEF Init, CountsAreOfNews, Asked
<1>9. MissedNothing
  BY DEF Init, MissedNothing, Mine
<1>10. FetchKnows /\ OwnIsFetched
  BY DEF Init, FetchKnows, OwnIsFetched, Asked
<1>. QED
  BY <1>5, <1>6, <1>7, <1>8, <1>9, <1>10 DEF ChatListInv

LEMMA StepInv ==
  ASSUME ChatListInv, [Next]_vars
  PROVE  ChatListInv'
<1>1. TypeOK'
  BY StepTypes DEF ChatListInv
<1>2. ASSUME NEW c \in Chats, Others(c)
      PROVE  ChatListInv'
  <2>1. CASE CreateChat(c)
    BY <1>1, <2>1, CreatedSteps DEF CreateChat
  <2>2. CASE AddMember(c)
    BY <1>1, <2>2, AddSteps
  <2>3. CASE End(c) \/ MarkRead(c)
    BY <1>1, <2>3, FewerSteps
  <2>4. CASE \E self \in BOOLEAN : SendMessage(c, self)
    BY <1>1, <2>4, SendSteps
  <2>. QED
    BY <1>2, <2>1, <2>2, <2>3, <2>4 DEF Others
<1>3. ASSUME NEW e \in publishing, Publish(e)
      PROVE  ChatListInv'
  BY <1>1, <1>3, PublishSteps
<1>4. ASSUME NEW e \in Range(inbox), OnChatNew(e) \/ OnMessageNew(e)
      PROVE  ChatListInv'
  BY <1>1, <1>4, ChatNewSteps, MessageNewSteps
<1>5. CASE Socket
  <2>1. CASE Connect \/ Greet \/ Registered \/ \E m \in sent : Subscribe(m)
    BY <1>1, <2>1, WireSteps
  <2>2. CASE SessionGone \/ ArrivesTooEarly \/ Drop
    BY <1>1, <2>2, CutSteps DEF SessionGone, ArrivesTooEarly, Drop
  <2>. QED
    BY <1>5, <2>1, <2>2 DEF Socket, Gateway
<1>6. CASE Page
  <2>1. ASSUME NEW c \in Chats, OpenChat(c) \/ CreateHere(c)
        PROVE  ChatListInv'
    BY <1>1, <2>1, OpenSteps, CreatedSteps DEF CreateHere
  <2>2. CASE CloseChat \/ DeleteAnswered \/ CallFails \/ Refetch \/ FetchFails
    BY <1>1, <2>2, PlainSteps
  <2>3. CASE CreateAnswered
    BY <1>1, <2>3, AnswerSteps
  <2>4. CASE DeleteHere
    BY <1>1, <2>4, FewerSteps
  <2>5. CASE FetchList \/ FetchCount
    BY <1>1, <2>5, ReadSteps
  <2>6. CASE FetchSet
    BY <1>1, <2>6, SetSteps
  <2>. QED
    BY <1>6, <2>1, <2>2, <2>3, <2>4, <2>5, <2>6 DEF Page
<1>7. CASE UNCHANGED vars
  <2>1. /\ UNCHANGED <<row, unread, news, publishing, heard, inbox, buffer, sent, badge, open,
                       fetch, call, seen, lost, visited, own>>
    BY <1>7 DEF vars, server, wire, page, history
  <2>2. Quiet /\ GivesUp /\ call' = call /\ own' = own
    BY <1>7 DEF vars, server, wire, page, history, Quiet, GivesUp, Listed, Tuned
  <2>3. open' # None => open' \in visited'
    BY <2>1 DEF ChatListInv, CountsAreOfNews
  <2>4. OwnIsFetched'
    BY <2>1 DEF ChatListInv, OwnIsFetched, Mine, Listed
  <2>. QED
    BY <1>1, <2>2, <2>3, <2>4, PlainPage
<1>. QED
  BY <1>2, <1>3, <1>4, <1>5, <1>6, <1>7 DEF Next

(* Whatever happens to chats, to the connection and to the page, each chat *)
(* the page has missed no news of is listed with a badge that its messages *)
(* on the way will bring up to date, or its chat:new is to come before any *)
(* message of it (Layout, createChat, getChats).                           *)
THEOREM ChatListInvariant == Spec => []ChatListInv
<1>1. Init => ChatListInv
  BY InitInv
<1>2. ChatListInv /\ [Next]_vars => ChatListInv'
  BY StepInv
<1>. QED
  BY <1>1, <1>2, PTL DEF Spec

(* When nothing is on its way, the page lists the chats of the user, with  *)
(* badges that count at least what is unread, but for those it may have    *)
(* missed news of, and those it created itself in any case.                *)
THEOREM NewsAreShown == Spec => []NewsShown
<1>1. ASSUME ChatListInv
      PROVE  NewsShown
  <2>1. SUFFICES ASSUME AtRest
                 PROVE  /\ \A c \in Mine \ lost :
                             c \in Listed /\ (c \in visited \/ badge[c] >= unread[c])
                        /\ Mine \cap own \subseteq Listed
    BY DEF NewsShown
  <2>2. OnTheWay = {} /\ fetch = NoFetch
    BY <2>1 DEF AtRest, OnTheWay, Range
  <2>3. ASSUME NEW c \in Mine \ lost
        PROVE  c \in Listed /\ (c \in visited \/ badge[c] >= unread[c])
    <3>1. c \in Chats /\ Unheard(c) = {} /\ ~NewComes(c)
      BY <2>2 DEF Unheard, NewComes, Mine
    <3>2. Current(c)
      BY <1>1, <3>1 DEF ChatListInv, MissedNothing, Awaited
    <3>3. badge[c] \in Nat /\ unread[c] \in Nat /\ Cardinality(Unheard(c)) = 0
      BY <1>1, <3>1, <3>2, FS_EmptySet, NumbersTypes DEF Current, ChatListInv, TypeOK, Listed
    <3>. QED
      BY <3>2, <3>3 DEF Current
  <2>4. Mine \cap own \subseteq Listed
    BY <1>1, <2>2 DEF ChatListInv, OwnIsFetched, NoFetch, Asked
  <2>. QED
    BY <2>3, <2>4
<1>. QED
  BY <1>1, ChatListInvariant, PTL
=============================================================================
