---------------------------- MODULE ChatViewProofs ----------------------------
(* Proofs about ChatView, for any chats, messages, members, calls and      *)
(* fetches.                                                                *)
EXTENDS ChatView, FiniteSetTheorems, TLAPS

-----------------------------------------------------------------------------
(* Numbers in their order.                                                 *)

(* The rank of a number in a finite set of them tells them apart.          *)
LEMMA InOrderExists ==
  ASSUME NEW ms \in SUBSET Nat, IsFiniteSet(ms)
  PROVE  \E q \in [1..Cardinality(ms) -> ms] :
           \A i, j \in DOMAIN q : i < j => q[i] < q[j]
<1>. DEFINE n == Cardinality(ms)
<1>. DEFINE UpTo(m) == {k \in ms : k <= m}
<1>. DEFINE rank == [m \in ms |-> Cardinality(UpTo(m))]
<1>1. n \in Nat /\ IsFiniteSet(1..n) /\ Cardinality(1..n) = n
  BY FS_CardinalityType, FS_Interval
<1>2. ASSUME NEW m \in ms
      PROVE  IsFiniteSet(UpTo(m)) /\ Cardinality(UpTo(m)) \in 1..n
  <2>1. UpTo(m) \in SUBSET ms /\ m \in UpTo(m)
    OBVIOUS
  <2>2. IsFiniteSet(UpTo(m)) /\ Cardinality(UpTo(m)) <= n
    BY <2>1, FS_Subset
  <2>3. Cardinality(UpTo(m)) \in Nat /\ Cardinality(UpTo(m)) # 0
    BY <2>1, <2>2, FS_CardinalityType, FS_EmptySet
  <2>. QED
    BY <1>1, <2>2, <2>3
<1>3. ASSUME NEW a \in ms, NEW b \in ms, a < b
      PROVE  rank[a] < rank[b]
  <2>0. a \in Nat /\ b \in Nat /\ \A k \in ms : k \in Nat
    OBVIOUS
  <2>1. UpTo(a) \in SUBSET UpTo(b) /\ b \in UpTo(b) /\ b \notin UpTo(a)
    <3>1. \A k \in ms : k <= a => k <= b
      BY <1>3, <2>0
    <3>2. b <= b /\ ~(b <= a)
      BY <1>3, <2>0
    <3>. QED
      BY <3>1, <3>2
  <2>2. Cardinality(UpTo(a)) <= Cardinality(UpTo(b)) /\ Cardinality(UpTo(b)) # Cardinality(UpTo(a))
    BY <1>2, <2>1, FS_Subset
  <2>. QED
    BY <1>2, <2>2
<1>. HIDE DEF UpTo
<1>4. rank \in [ms -> 1..n]
  BY <1>2
<1>. HIDE DEF rank, n
<1>5. \A a, b \in ms : rank[a] = rank[b] => a = b
  <2>. SUFFICES ASSUME NEW a \in ms, NEW b \in ms, rank[a] = rank[b], a # b PROVE FALSE
    OBVIOUS
  <2>1. rank[a] \in 1..n /\ rank[b] \in 1..n
    BY <1>4
  <2>2. CASE a < b
    BY <1>3, <2>1, <2>2
  <2>3. CASE b < a
    BY <1>3, <2>1, <2>3
  <2>. QED
    BY <2>2, <2>3
<1>6. rank \in Injection(ms, 1..n)
  BY <1>4, <1>5 DEF Injection, IsInjective
<1>7. rank \in Surjection(ms, 1..n)
  BY <1>1, <1>6, FS_Injection DEF n
<1>. DEFINE q == [i \in 1..n |-> CHOOSE m \in ms : rank[m] = i]
<1>8. \A i \in 1..n : q[i] \in ms /\ rank[q[i]] = i
  BY <1>7 DEF Surjection
<1>9. ASSUME NEW i \in 1..n, NEW j \in 1..n, i < j
      PROVE  q[i] < q[j]
  <2>1. q[i] \in Nat /\ q[j] \in Nat /\ q[i] \in ms /\ q[j] \in ms
    BY <1>8
  <2>2. ~(q[j] < q[i])
    <3>1. q[j] < q[i] => rank[q[j]] < rank[q[i]]
      BY <1>3, <2>1
    <3>2. rank[q[j]] = j /\ rank[q[i]] = i /\ i \in Int /\ j \in Int
      BY <1>1, <1>8
    <3>. QED
      BY <1>9, <3>1, <3>2
  <2>3. q[i] # q[j]
    BY <1>8, <1>9
  <2>. QED
    BY <2>1, <2>2, <2>3
<1>10. q \in [1..n -> ms] /\ DOMAIN q = 1..n
  BY <1>8
<1>. HIDE DEF q
<1>11. \A i, j \in DOMAIN q : i < j => q[i] < q[j]
  BY <1>9, <1>10
<1>. QED
  BY <1>10, <1>11 DEF n

(* What is in order is each of the numbers, once.                          *)
LEMMA InOrderShape ==
  ASSUME NEW ms \in SUBSET Nat, IsFiniteSet(ms)
  PROVE  /\ DOMAIN InOrder(ms) = 1..Cardinality(ms) /\ Cardinality(ms) \in Nat
         /\ \A i \in DOMAIN InOrder(ms) : InOrder(ms)[i] \in ms
         /\ \A i, j \in DOMAIN InOrder(ms) : InOrder(ms)[i] = InOrder(ms)[j] => i = j
         /\ \A m \in ms : \E i \in DOMAIN InOrder(ms) : InOrder(ms)[i] = m
<1>. DEFINE q == InOrder(ms)
<1>. DEFINE n == Cardinality(ms)
<1>1. n \in Nat /\ IsFiniteSet(1..n) /\ Cardinality(1..n) = n
  BY FS_CardinalityType, FS_Interval
<1>2. q \in [1..n -> ms] /\ \A i, j \in DOMAIN q : i < j => q[i] < q[j]
  BY InOrderExists DEF InOrder
<1>. HIDE DEF q, n
<1>3. \A i, j \in 1..n : q[i] = q[j] => i = j
  <2>. SUFFICES ASSUME NEW i \in 1..n, NEW j \in 1..n, q[i] = q[j], i # j PROVE FALSE
    OBVIOUS
  <2>1. q[i] \in Nat /\ q[j] \in Nat
    BY <1>2
  <2>2. i \in Int /\ j \in Int /\ (i < j \/ j < i)
    BY <1>1
  <2>. QED
    BY <1>2, <2>1, <2>2
<1>4. q \in Injection(1..n, ms)
  BY <1>2, <1>3 DEF Injection, IsInjective
<1>5. q \in Surjection(1..n, ms)
  BY <1>1, <1>4, FS_Injection DEF n
<1>. QED
  BY <1>1, <1>2, <1>3, <1>5 DEF Surjection, q, n

LEMMA SeqElement ==
  ASSUME NEW S, NEW q \in Seq(S), NEW i \in DOMAIN q
  PROVE  q[i] \in S
OBVIOUS

LEMMA SeqOfFunction ==
  ASSUME NEW S, NEW n \in Nat, NEW q \in [1..n -> S]
  PROVE  q \in Seq(S) /\ Len(q) = n
OBVIOUS

-----------------------------------------------------------------------------
(* Shapes.                                                                 *)

LEMMA CallShapes ==
  ASSUME NEW c \in Call
  PROVE  /\ c.pc \in {"idle", "update", "hydrate", "publish"}
         /\ c.pc = "idle" <=> c = Idle
         /\ c.pc = "update" => c \in [pc : {"update"}, id : Ids]
         /\ c.pc = "hydrate" => c \in [pc : {"hydrate"}, id : Ids, ver : Nat]
         /\ c.pc = "publish" => c \in [pc : {"publish"}, event : Event]
BY DEF Call, Idle

LEMMA EventShapes ==
  ASSUME NEW e \in Event
  PROVE  /\ About(e) \in Ids
         /\ e.kind \in {"new", "updated", "deleted", "added", "removed"}
         /\ e.kind \in {"new", "updated"} =>
              e \in TextEvent /\ e.msg \in Wire /\ About(e) = e.msg.id
         /\ e.kind = "deleted" => e \in [kind : {"deleted"}, id : Ids] /\ About(e) = e.id
         /\ e.kind \in {"added", "removed"} =>
              e \in [kind : {"added", "removed"}, id : Ids, user : Users] /\ About(e) = e.id
BY DEF Event, TextEvent, About, Wire

LEMMA FetchShapes ==
  ASSUME NEW x \in FetchCall
  PROVE  /\ x.pc \in {"none", "list", "hydrate", "set"}
         /\ x.pc = "none" <=> x = NoFetch
         /\ x # NoFetch => x.chat \in Chats /\ x.dirty \in SUBSET Ids
         /\ x.pc = "list" => x \in [pc : {"list"}, chat : Chats, dirty : SUBSET Ids]
         /\ x.pc = "hydrate" =>
              x \in [pc : {"hydrate"}, chat : Chats, dirty : SUBSET Ids,
                     rows : Seq([id : Ids, ver : Nat])]
         /\ x.pc = "set" =>
              x \in [pc : {"set"}, chat : Chats, dirty : SUBSET Ids, rows : Seq(Wire)]
BY DEF FetchCall, NoFetch

LEMMA RowShapes ==
  ASSUME NEW x \in Row
  PROVE  /\ x.state \in {"unused", "sent", "deleted"} /\ x.ver \in Nat
         /\ x.state = "unused" <=> x = NoRow
         /\ x = [state |-> x.state, ver |-> x.ver]
BY DEF Row, NoRow

(* The events the gateway publishes.                                       *)
LEMMA EventsMade ==
  ASSUME TypeOK, NEW m \in Ids
  PROVE  /\ NewEvent(m) \in Event /\ About(NewEvent(m)) = m /\ NewEvent(m).kind = "new"
         /\ \A ver \in Nat : /\ UpdatedEvent(m, ver) \in Event
                             /\ About(UpdatedEvent(m, ver)) = m
                             /\ UpdatedEvent(m, ver).kind = "updated"
         /\ DeletedEvent(m) \in Event /\ About(DeletedEvent(m)) = m
         /\ DeletedEvent(m).kind = "deleted"
         /\ \A u \in Users : /\ AddedEvent(m, u) \in Event /\ About(AddedEvent(m, u)) = m
                             /\ AddedEvent(m, u).kind = "added"
                             /\ RemovedEvent(m, u) \in Event /\ About(RemovedEvent(m, u)) = m
                             /\ RemovedEvent(m, u).kind = "removed"
BY DEF TypeOK, Event, TextEvent, Wire, About, NewEvent, UpdatedEvent, DeletedEvent, AddedEvent,
       RemovedEvent

LEMMA BecomeShape ==
  ASSUME TypeOK, NEW r \in Requests, NEW c \in Call, Become(r, c)
  PROVE  /\ req' \in [Requests -> Call] /\ req'[r] = c
         /\ \A q \in Requests \ {r} : req'[q] = req[q]
BY DEF TypeOK, Become

-----------------------------------------------------------------------------
(* The events on their way, after each way a step moves them.              *)

LEMMA FlyingIs ==
  /\ \A e : e \in Flying <=>
       \/ \E r \in Requests : req[r].pc = "publish" /\ req[r].event = e
       \/ \E i \in DOMAIN inbox : inbox[i] = e
       \/ e \in handlers
  /\ \A e : e \in Flying' <=>
       \/ \E r \in Requests : req'[r].pc = "publish" /\ req'[r].event = e
       \/ \E i \in DOMAIN inbox' : inbox'[i] = e
       \/ e \in handlers'
BY DEF Flying, Range

LEMMA FlyingTyped ==
  /\ TypeOK => Flying \subseteq Event
  /\ TypeOK' => Flying' \subseteq Event
<1>1. ASSUME TypeOK, NEW e \in Flying PROVE e \in Event
  <2>1. ASSUME NEW r \in Requests, req[r].pc = "publish", req[r].event = e
        PROVE  e \in Event
    BY <1>1, <2>1, CallShapes DEF TypeOK
  <2>2. ASSUME NEW i \in DOMAIN inbox, inbox[i] = e
        PROVE  e \in Event
    BY <1>1, <2>2 DEF TypeOK
  <2>. QED
    BY <1>1, <2>1, <2>2, FlyingIs DEF TypeOK, Event
<1>2. ASSUME TypeOK', NEW e \in Flying' PROVE e \in Event
  <2>1. ASSUME NEW r \in Requests, req'[r].pc = "publish", req'[r].event = e
        PROVE  e \in Event
    BY <1>2, <2>1, CallShapes DEF TypeOK
  <2>2. ASSUME NEW i \in DOMAIN inbox', inbox'[i] = e
        PROVE  e \in Event
    BY <1>2, <2>2 DEF TypeOK
  <2>. QED
    BY <1>2, <2>1, <2>2, FlyingIs DEF TypeOK, Event
<1>. QED
  BY <1>1, <1>2

(* A call posts an event.                                                  *)
LEMMA Posting ==
  ASSUME TypeOK, NEW r \in Requests, NEW e \in Event, req[r].pc # "publish", Answer(r, e),
         UNCHANGED <<inbox, handlers>>
  PROVE  /\ \A x : x \in Flying' <=> x \in Flying \/ x = e
         /\ \A k, u : InOnePlace(k, u) /\ ~Reacts(e, k, u) => InOnePlace(k, u)'
         /\ \A k, u : (\A x \in Flying : ~Reacts(x, k, u)) => InOnePlace(k, u)'
<1>. DEFINE c == [pc |-> "publish", event |-> e]
<1>1. c \in Call /\ c.pc = "publish" /\ c.event = e
  BY DEF Call
<1>. HIDE DEF c
<1>2. /\ req'[r] = c
      /\ \A q \in Requests \ {r} : req'[q] = req[q]
  BY <1>1, BecomeShape DEF Answer, c
<1>3. \A x : x \in Flying' <=> x \in Flying \/ x = e
  BY <1>1, <1>2, FlyingIs
<1>4. \A k, u : \A q \in Requests : Posts(q, k, u)' => Posts(q, k, u) \/ (q = r /\ Reacts(e, k, u))
  BY <1>1, <1>2 DEF Posts, Reacts
<1>5. \A k, u : InOnePlace(k, u) /\ ~Reacts(e, k, u) => InOnePlace(k, u)'
  BY <1>4 DEF InOnePlace, Reacts
<1>6. ASSUME NEW k, NEW u, \A x \in Flying : ~Reacts(x, k, u)
      PROVE  InOnePlace(k, u)'
  <2>1. \A q \in Requests : ~Posts(q, k, u)
    BY <1>6, FlyingIs DEF Posts
  <2>2. \A i \in DOMAIN inbox : ~Reacts(inbox[i], k, u)
    BY <1>6, FlyingIs
  <2>. QED
    BY <1>4, <2>1, <2>2 DEF InOnePlace, Reacts
<1>. QED
  BY <1>3, <1>5, <1>6

(* A call goes on without posting one.                                     *)
LEMMA Quieting ==
  ASSUME TypeOK, NEW r \in Requests, NEW c \in Call, req[r].pc # "publish", c.pc # "publish",
         Become(r, c), UNCHANGED <<inbox, handlers>>
  PROVE  /\ \A x : x \in Flying' <=> x \in Flying
         /\ \A k, u : InOnePlace(k, u) => InOnePlace(k, u)'
<1>1. /\ req'[r] = c
      /\ \A q \in Requests \ {r} : req'[q] = req[q]
  BY BecomeShape
<1>2. \A x : x \in Flying' <=> x \in Flying
  BY <1>1, FlyingIs
<1>3. \A k, u : \A q \in Requests : Posts(q, k, u)' => Posts(q, k, u)
  BY <1>1 DEF Posts, Reacts
<1>. QED
  BY <1>2, <1>3 DEF InOnePlace, Reacts

LEMMA IdleIsCall == Idle \in Call /\ Idle.pc = "idle"
BY DEF Call, Idle

(* An event goes from its call to the inbox.                               *)
LEMMA Publishing ==
  ASSUME TypeOK, NEW r \in Requests, Publish(r)
  PROVE  /\ \A x : x \in Flying' <=> x \in Flying
         /\ \A k, u : InOnePlace(k, u) => InOnePlace(k, u)'
         /\ inbox' \in Seq(Event)
<1>. DEFINE e == req[r].event
<1>1. /\ req'[r] = Idle
      /\ \A q \in Requests \ {r} : req'[q] = req[q]
  BY IdleIsCall, BecomeShape DEF Publish
<1>2. e \in Event /\ req[r].pc = "publish" /\ Idle.pc = "idle"
  BY CallShapes DEF Publish, TypeOK, Idle
<1>. DEFINE n == Len(inbox)
<1>3. /\ n \in Nat /\ DOMAIN inbox = 1..n /\ DOMAIN inbox' = 1..(n + 1)
      /\ inbox' \in Seq(Event)
      /\ inbox'[n + 1] = e
      /\ \A i \in 1..n : inbox'[i] = inbox[i]
  BY <1>2 DEF TypeOK, Publish
<1>. HIDE DEF e, n
<1>4. handlers' = handlers
  BY DEF Publish, client
<1>5. \A x : (\E i \in DOMAIN inbox' : inbox'[i] = x) <=>
              x = e \/ \E i \in DOMAIN inbox : inbox[i] = x
  BY <1>3
<1>6. \A x : x \in Flying' <=> x \in Flying
  BY <1>1, <1>2, <1>4, <1>5, FlyingIs DEF e
<1>7. ASSUME NEW k, NEW u, InOnePlace(k, u) PROVE InOnePlace(k, u)'
  <2>1. \A q \in Requests : Posts(q, k, u)' => Posts(q, k, u) /\ q # r
    BY <1>1, <1>2 DEF Posts, Reacts
  <2>2. Reacts(e, k, u) => Posts(r, k, u)
    BY <1>2 DEF Posts, e
  <2>3. \A i \in DOMAIN inbox' :
          Reacts(inbox'[i], k, u) =>
            \/ i \in DOMAIN inbox /\ Reacts(inbox[i], k, u)
            \/ i = n + 1 /\ Posts(r, k, u)
    BY <1>3, <2>2
  <2>. QED
    BY <1>7, <2>1, <2>3 DEF InOnePlace, Reacts
<1>. QED
  BY <1>3, <1>6, <1>7

(* One is lost on its way.                                                 *)
LEMMA Losing ==
  ASSUME TypeOK, NEW r \in Requests, PublishLost(r)
  PROVE  /\ \A x : x \in Flying' => x \in Flying
         /\ \A x : x \in Flying => x \in Flying' \/ x = req[r].event
         /\ \A k, u : InOnePlace(k, u) => InOnePlace(k, u)'
<1>1. /\ req'[r] = Idle
      /\ \A q \in Requests \ {r} : req'[q] = req[q]
  BY IdleIsCall, BecomeShape DEF PublishLost
<1>2. inbox' = inbox /\ handlers' = handlers
  BY DEF PublishLost, client
<1>3. \A k, u : \A q \in Requests : Posts(q, k, u)' => Posts(q, k, u)
  BY <1>1, IdleIsCall DEF Posts, Reacts
<1>. QED
  BY <1>1, <1>2, <1>3, IdleIsCall, FlyingIs DEF InOnePlace, Reacts

(* The first of the inbox is handled, at once or later.                    *)
LEMMA Handling ==
  ASSUME TypeOK, inbox # <<>>, inbox' = Tail(inbox), req' = req,
         handlers' = handlers \/ handlers' = handlers \cup {Event1}
  PROVE  /\ inbox' \in Seq(Event) /\ Event1 \in Event /\ Event1 \in Flying
         /\ \A x : x \in Flying' => x \in Flying
         /\ \A x : x \in Flying => x \in Flying' \/ x = Event1
         /\ \A k, u : InOnePlace(k, u) => InOnePlace(k, u)'
         /\ \A k, u : InOnePlace(k, u) /\ Reacts(Event1, k, u) =>
              /\ \A r \in Requests : ~Posts(r, k, u)'
              /\ \A i \in DOMAIN inbox' : ~Reacts(inbox'[i], k, u)
<1>. DEFINE n == Len(inbox)
<1>1. /\ n \in Nat \ {0} /\ DOMAIN inbox = 1..n /\ DOMAIN inbox' = 1..(n - 1)
      /\ \A i \in 1..(n - 1) : inbox'[i] = inbox[i + 1]
      /\ Event1 = inbox[1] /\ inbox[1] \in Event /\ inbox' \in Seq(Event)
  BY DEF TypeOK, Event1
<1>. HIDE DEF n
<1>2. \A i \in DOMAIN inbox' : i + 1 \in DOMAIN inbox /\ i + 1 # 1 /\ inbox'[i] = inbox[i + 1]
  BY <1>1
<1>3. \A i \in DOMAIN inbox : i = 1 \/ (i - 1 \in DOMAIN inbox' /\ inbox'[i - 1] = inbox[i])
  <2>1. \A i \in 1..n : i = 1 \/ (i - 1 \in 1..(n - 1) /\ (i - 1) + 1 = i)
    BY <1>1
  <2>. QED
    BY <1>1, <2>1
<1>4. 1 \in DOMAIN inbox
  BY <1>1
<1>5. Event1 \in Flying
  BY <1>1, <1>4, FlyingIs
<1>6. ASSUME NEW x, x \in Flying' PROVE x \in Flying
  BY <1>2, <1>5, <1>6, FlyingIs
<1>7. ASSUME NEW x, x \in Flying PROVE x \in Flying' \/ x = Event1
  BY <1>1, <1>3, <1>7, FlyingIs
<1>8. \A k, u : \A r \in Requests : Posts(r, k, u)' => Posts(r, k, u)
  BY DEF Posts, Reacts
<1>9. \A i, j \in DOMAIN inbox' : i + 1 = j + 1 => i = j
  BY <1>1
<1>10. ASSUME NEW k, NEW u, InOnePlace(k, u) PROVE InOnePlace(k, u)'
  BY <1>2, <1>8, <1>9, <1>10 DEF InOnePlace, Reacts
<1>11. ASSUME NEW k, NEW u, InOnePlace(k, u), Reacts(Event1, k, u)
       PROVE  /\ \A r \in Requests : ~Posts(r, k, u)'
              /\ \A i \in DOMAIN inbox' : ~Reacts(inbox'[i], k, u)
  BY <1>1, <1>2, <1>4, <1>8, <1>11 DEF InOnePlace
<1>. QED
  BY <1>1, <1>5, <1>6, <1>7, <1>10, <1>11

(* A handler that decrypted is done.                                       *)
LEMMA HandlerEnding ==
  ASSUME NEW e, handlers' = handlers \ {e}, UNCHANGED <<req, inbox>>
  PROVE  /\ \A x : x \in Flying' => x \in Flying
         /\ \A x : x \in Flying => x \in Flying' \/ x = e
         /\ \A k, u : InOnePlace(k, u) => InOnePlace(k, u)'
<1>1. \A k, u : \A r \in Requests : Posts(r, k, u)' => Posts(r, k, u)
  BY DEF Posts, Reacts
<1>. QED
  BY <1>1, FlyingIs DEF InOnePlace, Reacts

-----------------------------------------------------------------------------
(* The entries of the page, after each way a step changes it.              *)

LEMMA EntryIs ==
  /\ \A m, s : s \in Entries(m) <=> s.id = m /\ \E i \in DOMAIN view : view[i] = s
  /\ \A m, s : s \in Entries(m)' <=> s.id = m /\ \E i \in DOMAIN view' : view'[i] = s
BY DEF Entries, Range

(* The entry of one message becomes another.                               *)
LEMMA EntryReplaced ==
  ASSUME NEW m, DOMAIN view' = DOMAIN view,
         \A i \in DOMAIN view :
           view'[i].id = view[i].id /\ (view[i].id # m => view'[i] = view[i])
  PROVE  /\ NoDuplicates => NoDuplicates'
         /\ \A k : k # m => Entries(k)' = Entries(k)
         /\ Entries(m) = {} => Entries(m)' = {}
         /\ \A s, t : /\ Entries(m) = {s}
                      /\ \A i \in DOMAIN view : view[i] = s => view'[i] = t
                      => Entries(m)' = {t}
<1>1. NoDuplicates => NoDuplicates'
  BY DEF NoDuplicates
<1>2. ASSUME NEW k, k # m PROVE Entries(k)' = Entries(k)
  <2>1. \A s : s \in Entries(k)' <=> s \in Entries(k)
    BY <1>2, EntryIs
  <2>. QED
    BY <2>1
<1>3. ASSUME Entries(m) = {} PROVE Entries(m)' = {}
  <2>1. \A i \in DOMAIN view : view[i].id # m
    BY <1>3, EntryIs
  <2>2. \A s : s \notin Entries(m)'
    BY <2>1, EntryIs
  <2>. QED
    BY <2>2
<1>4. ASSUME NEW s, NEW t, Entries(m) = {s},
             \A i \in DOMAIN view : view[i] = s => view'[i] = t
      PROVE  Entries(m)' = {t}
  <2>1. ASSUME NEW i \in DOMAIN view, view[i].id = m PROVE view[i] = s
    <3>1. view[i] \in Entries(m)
      BY <2>1, EntryIs
    <3>. QED
      BY <1>4, <3>1
  <2>2. PICK i \in DOMAIN view : view[i] = s /\ s.id = m
    BY <1>4, EntryIs
  <2>3. view'[i] = t /\ t.id = m
    BY <1>4, <2>2
  <2>4. \A x : x \in Entries(m)' => x = t
    BY <1>4, <2>1, EntryIs
  <2>5. t \in Entries(m)'
    BY <2>2, <2>3, EntryIs
  <2>. QED
    BY <2>4, <2>5
<1>. QED
  BY <1>1, <1>2, <1>3, <1>4

(* One is appended.                                                        *)
LEMMA EntryAppended ==
  ASSUME TypeOK, NEW s \in Shown, ~IsShown(s.id), view' = Append(view, s)
  PROVE  /\ view' \in Seq(Shown)
         /\ NoDuplicates => NoDuplicates'
         /\ \A k : k # s.id => Entries(k)' = Entries(k)
         /\ Entries(s.id)' = {s}
         /\ \A i \in DOMAIN view' : view'[i] = s \/ (i \in DOMAIN view /\ view'[i] = view[i])
<1>. DEFINE n == Len(view)
<1>1. /\ n \in Nat /\ DOMAIN view = 1..n /\ DOMAIN view' = 1..(n + 1)
      /\ view' \in Seq(Shown) /\ view'[n + 1] = s
      /\ \A i \in 1..n : view'[i] = view[i]
  BY DEF TypeOK
<1>2. \A i \in DOMAIN view : view[i].id # s.id
  BY DEF IsShown
<1>. HIDE DEF n
<1>3. \A x : (\E i \in DOMAIN view' : view'[i] = x) <=> x = s \/ \E i \in DOMAIN view : view[i] = x
  BY <1>1
<1>4. NoDuplicates => NoDuplicates'
  BY <1>1, <1>2 DEF NoDuplicates
<1>5. ASSUME NEW k, k # s.id PROVE Entries(k)' = Entries(k)
  <2>1. \A x : x \in Entries(k)' <=> x \in Entries(k)
    BY <1>3, <1>5, EntryIs
  <2>. QED
    BY <2>1
<1>6. \A x : x \in Entries(s.id)' <=> x = s
  BY <1>2, <1>3, EntryIs
<1>7. \A i \in DOMAIN view' : view'[i] = s \/ (i \in DOMAIN view /\ view'[i] = view[i])
  BY <1>1
<1>. QED
  BY <1>1, <1>4, <1>5, <1>6, <1>7

(* Those of a message are taken out.                                       *)
LEMMA EntriesRemoved ==
  ASSUME TypeOK, NEW m, view' = Without(m)
  PROVE  /\ view' \in Seq(Shown)
         /\ NoDuplicates => NoDuplicates'
         /\ \A k : k # m => Entries(k)' = Entries(k)
         /\ Entries(m)' = {}
         /\ \A i \in DOMAIN view' : \E j \in DOMAIN view : view'[i] = view[j]
<1>. DEFINE n == Len(view)
<1>. DEFINE ms == {i \in DOMAIN view : view[i].id # m}
<1>. DEFINE kept == InOrder(ms)
<1>1. n \in Nat /\ DOMAIN view = 1..n /\ \A i \in 1..n : view[i] \in Shown
  BY DEF TypeOK
<1>2. ms \in SUBSET Nat /\ ms \in SUBSET (1..n)
  BY <1>1
<1>3. IsFiniteSet(ms)
  <2>1. IsFiniteSet(1..n)
    BY <1>1, FS_Interval
  <2>. QED
    BY <1>2, <2>1, FS_Subset
<1>4. /\ DOMAIN kept = 1..Cardinality(ms) /\ Cardinality(ms) \in Nat
      /\ \A i \in DOMAIN kept : kept[i] \in ms
      /\ \A i, j \in DOMAIN kept : kept[i] = kept[j] => i = j
      /\ \A k \in ms : \E i \in DOMAIN kept : kept[i] = k
  BY <1>2, <1>3, InOrderShape
<1>5. view' = [k \in DOMAIN kept |-> view[kept[k]]]
  BY DEF Without
<1>. HIDE DEF kept
<1>6. DOMAIN view' = DOMAIN kept /\ \A k \in DOMAIN kept : view'[k] = view[kept[k]]
  BY <1>5
<1>7. view' \in Seq(Shown)
  <2>1. \A k \in DOMAIN kept : view[kept[k]] \in Shown
    BY <1>1, <1>4
  <2>2. view' \in [1..Cardinality(ms) -> Shown]
    BY <1>4, <1>5, <2>1
  <2>. QED
    BY <1>4, <2>2, SeqOfFunction
<1>8. ASSUME NEW k, k # m PROVE Entries(k)' = Entries(k)
  <2>1. \A i \in DOMAIN view : view[i].id = k => i \in ms
    BY <1>8
  <2>2. ASSUME NEW s, s \in Entries(k) PROVE s \in Entries(k)'
    <3>1. PICK i \in DOMAIN view : view[i] = s /\ s.id = k
      BY <2>2, EntryIs
    <3>2. PICK j \in DOMAIN kept : kept[j] = i
      BY <1>4, <2>1, <3>1
    <3>. QED
      BY <1>6, <3>1, <3>2, EntryIs
  <2>3. ASSUME NEW s, s \in Entries(k)' PROVE s \in Entries(k)
    <3>1. PICK i \in DOMAIN kept : view[kept[i]] = s /\ s.id = k
      BY <1>6, <2>3, EntryIs
    <3>2. kept[i] \in DOMAIN view
      BY <1>4
    <3>. QED
      BY <3>1, <3>2, EntryIs
  <2>. QED
    BY <2>2, <2>3
<1>9. Entries(m)' = {}
  <2>1. \A i \in DOMAIN view' : view'[i].id # m
    BY <1>4, <1>6
  <2>2. \A s : s \notin Entries(m)'
    BY <2>1, EntryIs
  <2>. QED
    BY <2>2
<1>10. ASSUME NoDuplicates PROVE NoDuplicates'
  <2>1. ASSUME NEW i \in DOMAIN kept, NEW j \in DOMAIN kept, view'[i].id = view'[j].id
        PROVE  i = j
    <3>1. view[kept[i]].id = view[kept[j]].id /\ kept[i] \in DOMAIN view /\ kept[j] \in DOMAIN view
      BY <1>4, <1>6, <2>1
    <3>2. kept[i] = kept[j]
      BY <1>10, <3>1 DEF NoDuplicates
    <3>. QED
      BY <1>4, <3>2
  <2>. QED
    BY <1>6, <2>1 DEF NoDuplicates
<1>11. \A i \in DOMAIN view' : \E j \in DOMAIN view : view'[i] = view[j]
  BY <1>4, <1>6
<1>. QED
  BY <1>7, <1>8, <1>9, <1>10, <1>11

(* The page is what a fetch has read.                                      *)
LEMMA EntriesFetched ==
  ASSUME TypeOK, NEW f \in Fetches, fetch[f].pc = "set",
         view' = [i \in DOMAIN fetch[f].rows |-> Aggregated(fetch[f].rows[i])]
  PROVE  /\ \A m : Read(f, m) = {} => Entries(m)' = {}
         /\ \A m, w : Read(f, m) = {w} => Entries(m)' = {Aggregated(w)}
<1>. DEFINE rows == fetch[f].rows
<1>1. \A i \in DOMAIN rows : rows[i] \in Wire
  BY FetchShapes DEF TypeOK
<1>2. DOMAIN view' = DOMAIN rows /\ \A i \in DOMAIN rows : view'[i] = Aggregated(rows[i])
  OBVIOUS
<1>3. \A i \in DOMAIN rows : Aggregated(rows[i]).id = rows[i].id
  BY DEF Aggregated, Reacted
<1>4. \A m, w : w \in Read(f, m) <=> w.id = m /\ \E i \in DOMAIN rows : rows[i] = w
  BY DEF Read, Range
<1>. HIDE DEF rows
<1>5. \A i \in DOMAIN view' : i \in DOMAIN rows /\ view'[i].id = rows[i].id
  BY <1>2, <1>3
<1>6. ASSUME NEW m, Read(f, m) = {} PROVE Entries(m)' = {}
  <2>1. \A i \in DOMAIN rows : rows[i].id # m
    BY <1>4, <1>6
  <2>2. \A i \in DOMAIN view' : view'[i].id # m
    BY <1>5, <2>1
  <2>3. \A s : s \notin Entries(m)'
    BY <2>2, EntryIs
  <2>. QED
    BY <2>3
<1>7. ASSUME NEW m, NEW w, Read(f, m) = {w} PROVE Entries(m)' = {Aggregated(w)}
  <2>1. \A i \in DOMAIN rows : rows[i].id = m => rows[i] = w
    BY <1>4, <1>7
  <2>2. PICK i \in DOMAIN rows : rows[i] = w /\ w.id = m
    BY <1>4, <1>7
  <2>3. Aggregated(w).id = m
    BY <1>3, <2>2
  <2>4. \A j \in DOMAIN view' : view'[j].id = m => view'[j] = Aggregated(w)
    BY <1>2, <1>5, <2>1
  <2>5. \A s : s \in Entries(m)' => s = Aggregated(w)
    BY <2>4, EntryIs
  <2>6. Aggregated(w) \in Entries(m)'
    BY <1>2, <2>2, <2>3, EntryIs
  <2>. QED
    BY <2>5, <2>6
<1>. QED
  BY <1>6, <1>7

-----------------------------------------------------------------------------
(* What a step leaves alone stands with the page as before.                *)

Rewrites(r, k) == req[r].pc = "hydrate" /\ req[r].id = k

SameCalls(k) ==
  /\ \A r \in Requests : Rewrites(r, k)' => Rewrites(r, k) /\ req'[r] = req[r]
  /\ Hydrating(k) => Hydrating(k)'

SameEvents(k) ==
  /\ \A e : About(e) = k => (e \in Flying' <=> e \in Flying)
  /\ \A u \in Users : InOnePlace(k, u) => InOnePlace(k, u)'

SameRow(k) == row'[k] = row[k] /\ reacted'[k] = reacted[k]

Quiet(k) == SameRow(k) /\ Entries(k)' = Entries(k) /\ SameEvents(k) /\ SameCalls(k)

LEMMA HydratingIs ==
  \A k : /\ Hydrating(k) <=> \E r \in Requests : Rewrites(r, k)
         /\ Hydrating(k)' <=> \E r \in Requests : Rewrites(r, k)'
BY DEF Hydrating, Rewrites

(* An event with a text is about the message it brings.                    *)
LEMMA NewFlyingIs ==
  /\ TypeOK => \A k : NewFlying(k) <=> \E e \in Flying : e.kind = "new" /\ About(e) = k
  /\ TypeOK' => \A k : NewFlying(k)' <=> \E e \in Flying' : e.kind = "new" /\ About(e) = k
<1>1. ASSUME TypeOK, NEW k
      PROVE  NewFlying(k) <=> \E e \in Flying : e.kind = "new" /\ About(e) = k
  BY <1>1, FlyingTyped, EventShapes DEF NewFlying
<1>2. ASSUME TypeOK', NEW k
      PROVE  NewFlying(k)' <=> \E e \in Flying' : e.kind = "new" /\ About(e) = k
  BY <1>2, FlyingTyped, EventShapes DEF NewFlying
<1>. QED
  BY <1>1, <1>2

LEMMA TextFlyingIs ==
  /\ TypeOK => \A k : TextFlying(k) <=>
       Hydrating(k) \/ \E e \in Flying : e.kind \in {"new", "updated"} /\ About(e) = k
  /\ TypeOK' => \A k : TextFlying(k)' <=>
       Hydrating(k)' \/ \E e \in Flying' : e.kind \in {"new", "updated"} /\ About(e) = k
<1>1. ASSUME TypeOK, NEW k
      PROVE  TextFlying(k) <=>
               Hydrating(k) \/ \E e \in Flying : e.kind \in {"new", "updated"} /\ About(e) = k
  BY <1>1, FlyingTyped, EventShapes DEF TextFlying
<1>2. ASSUME TypeOK', NEW k
      PROVE  TextFlying(k)' <=>
               Hydrating(k)' \/ \E e \in Flying' : e.kind \in {"new", "updated"} /\ About(e) = k
  BY <1>2, FlyingTyped, EventShapes DEF TextFlying
<1>. QED
  BY <1>1, <1>2

LEMMA ReactionsKept ==
  ASSUME TypeOK, NEW k \in Ids, \A e : About(e) = k => (e \in Flying' <=> e \in Flying)
  PROVE  Adding(k)' = Adding(k) /\ Removing(k)' = Removing(k)
<1>1. \A u \in Users : About(AddedEvent(k, u)) = k /\ About(RemovedEvent(k, u)) = k
  BY EventsMade
<1>2. \A u \in Users : u \in Adding(k)' <=> u \in Adding(k)
  BY <1>1 DEF Adding, AddedEvent
<1>3. \A u \in Users : u \in Removing(k)' <=> u \in Removing(k)
  BY <1>1 DEF Removing, RemovedEvent
<1>. QED
  BY <1>2, <1>3 DEF Adding, Removing

LEMMA ShownKept ==
  ASSUME NEW k, SameRow(k)
  PROVE  /\ \A users : ShownWith(k, users)' = ShownWith(k, users)
         /\ Expected(k)' = Expected(k)
         /\ \A ver : UpdatedEvent(k, ver)' = UpdatedEvent(k, ver)
BY DEF SameRow, ShownWith, Expected, UpdatedEvent

LEMMA FollowsKept ==
  ASSUME TypeOK, TypeOK', NEW k \in Ids, Quiet(k), Follows(k)
  PROVE  Follows(k)'
<1>1. /\ row'[k] = row[k] /\ reacted'[k] = reacted[k] /\ Entries(k)' = Entries(k)
      /\ SameRow(k)
      /\ \A e : About(e) = k => (e \in Flying' <=> e \in Flying)
      /\ \A u \in Users : InOnePlace(k, u) => InOnePlace(k, u)'
  BY DEF Quiet, SameRow, SameEvents
<1>2. Hydrating(k)' <=> Hydrating(k)
  BY HydratingIs DEF Quiet, SameCalls
<1>3. NewFlying(k)' <=> NewFlying(k)
  BY <1>1, NewFlyingIs
<1>4. TextFlying(k)' <=> TextFlying(k)
  BY <1>1, <1>2, TextFlyingIs
<1>5. \A ver : UpdatedEvent(k, ver)' = UpdatedEvent(k, ver)
  BY <1>1, ShownKept
<1>6. Expected(k)' = Expected(k) /\ \A users : ShownWith(k, users)' = ShownWith(k, users)
  BY <1>1, ShownKept
<1>7. CASE Unsent(k)
  <2>1. Unsent(k)'
    BY <1>1, <1>7 DEF Unsent
  <2>. QED
    BY <2>1 DEF Follows
<1>8. CASE Arriving(k)
  <2>1. Arriving(k)'
    BY <1>1, <1>2, <1>3, <1>6, <1>8 DEF Arriving
  <2>. QED
    BY <2>1 DEF Follows
<1>9. CASE Rewriting(k)
  <2>1. \A e \in Flying' : About(e) = k => e = UpdatedEvent(k, row[k].ver)'
    BY <1>1, <1>5, <1>9 DEF Rewriting
  <2>2. \A r \in Requests : Rewrites(r, k)' => req'[r].ver = row'[k].ver
    BY <1>1, <1>9 DEF Rewriting, Quiet, SameCalls, Rewrites
  <2>3. \E s \in Range(view') : Entries(k)' = {s}
    <3>1. PICK s : Entries(k) = {s}
      BY <1>9 DEF Rewriting
    <3>2. s \in Entries(k)'
      BY <1>1, <3>1
    <3>. QED
      BY <1>1, <3>1, <3>2 DEF Entries
  <2>4. Rewriting(k)'
    BY <1>1, <1>4, <1>9, <2>1, <2>2, <2>3 DEF Rewriting, Rewrites
  <2>. QED
    BY <2>4 DEF Follows
<1>10. CASE Reacting(k)
  <2>1. Adding(k)' = Adding(k) /\ Removing(k)' = Removing(k)
    BY <1>1, ReactionsKept
  <2>2. Reacting(k)'
    BY <1>1, <1>4, <1>6, <1>10, <2>1 DEF Reacting
  <2>. QED
    BY <2>2 DEF Follows
<1>11. CASE Gone(k)
  <2>1. DeletedEvent(k) \in Flying' <=> DeletedEvent(k) \in Flying
    BY <1>1, EventsMade
  <2>2. Gone(k)'
    BY <1>1, <1>3, <1>11, <2>1 DEF Gone, DeletedEvent
  <2>. QED
    BY <2>2 DEF Follows
<1>. QED
  BY <1>7, <1>8, <1>9, <1>10, <1>11 DEF Follows

LEMMA BusyIs ==
  \A k : /\ Busy(k) <=> Hydrating(k) \/ \E e \in Flying : About(e) = k
         /\ Busy(k)' <=> Hydrating(k)' \/ \E e \in Flying' : About(e) = k
BY DEF Busy

LEMMA BusyKept ==
  ASSUME NEW k, SameEvents(k), SameCalls(k)
  PROVE  Busy(k)' <=> Busy(k)
<1>1. Hydrating(k)' <=> Hydrating(k)
  BY HydratingIs DEF SameCalls
<1>2. \A e : About(e) = k => (e \in Flying' <=> e \in Flying)
  BY DEF SameEvents
<1>. QED
  BY <1>1, <1>2, BusyIs

(* How a statement that changes a message, or an event that is handled,    *)
(* leaves the fetches.                                                     *)
FetchesGoOn ==
  \A f \in Fetches :
    /\ fetch'[f].pc = fetch[f].pc
    /\ fetch[f] = NoFetch <=> fetch'[f] = NoFetch
    /\ fetch[f] # NoFetch =>
         fetch'[f].chat = fetch[f].chat /\ fetch[f].dirty \subseteq fetch'[f].dirty
    /\ fetch[f].pc \in {"hydrate", "set"} => fetch'[f].rows = fetch[f].rows

Dirtied(k) ==
  \A f \in Fetches : fetch[f] # NoFetch /\ fetch[f].chat = ChatOf[k] => k \in fetch'[f].dirty

RowsStay ==
  \A k \in Ids : /\ Known(k) => Known(k)'
                 /\ row[k].state = "deleted" => row'[k].state = "deleted"

LEMMA FetchKept ==
  ASSUME TypeOK, FetchFollows, FetchesGoOn, RowsStay,
         \A k \in Ids : Dirtied(k) \/ (SameRow(k) /\ (Busy(k)' => Busy(k)))
  PROVE  FetchFollows'
<1>. SUFFICES ASSUME NEW f \in Fetches PROVE ReadRight(f)'
  BY DEF FetchFollows
<1>1. ReadRight(f) /\ fetch[f] \in FetchCall
  BY DEF FetchFollows, TypeOK
<1>2. /\ fetch'[f].pc = fetch[f].pc
      /\ fetch[f] = NoFetch <=> fetch'[f] = NoFetch
      /\ fetch[f] # NoFetch =>
           fetch'[f].chat = fetch[f].chat /\ fetch[f].dirty \subseteq fetch'[f].dirty
      /\ fetch[f].pc \in {"hydrate", "set"} => fetch'[f].rows = fetch[f].rows
  BY DEF FetchesGoOn
<1>3. ASSUME fetch[f].pc \in {"hydrate", "set"},
             NEW i \in DOMAIN fetch[f].rows, NEW j \in DOMAIN fetch[f].rows
      PROVE  /\ Known(fetch[f].rows[i].id)'
             /\ fetch'[f].rows[i].id = fetch'[f].rows[j].id => i = j
  <2>1. fetch[f].rows[i].id \in Ids
    <3>1. fetch[f].rows \in Seq([id : Ids, ver : Nat]) \/ fetch[f].rows \in Seq(Wire)
      BY <1>1, <1>3, FetchShapes
    <3>2. fetch[f].rows[i] \in [id : Ids, ver : Nat] \/ fetch[f].rows[i] \in Wire
      BY <1>3, <3>1, SeqElement
    <3>. QED
      BY <3>2 DEF Wire
  <2>2. Known(fetch[f].rows[i].id) /\ (fetch[f].rows[i].id = fetch[f].rows[j].id => i = j)
    BY <1>1, <1>3 DEF ReadRight
  <2>3. \A k \in Ids : row[k] # NoRow => row'[k] # NoRow
    BY DEF RowsStay, Known
  <2>. QED
    BY <1>2, <1>3, <2>1, <2>2, <2>3 DEF Known
<1>4. ASSUME fetch'[f] # NoFetch, NEW m \in InChat(fetch'[f].chat) \ fetch'[f].dirty
      PROVE  /\ ~Busy(m)'
             /\ fetch'[f].pc = "hydrate" => Found(f, m, [id |-> m, ver |-> row[m].ver])'
             /\ fetch'[f].pc = "set" =>
                  Found(f, m, [id |-> m, ver |-> row[m].ver, by |-> reacted[m]])'
  <2>1. m \in InChat(fetch[f].chat) \ fetch[f].dirty /\ fetch[f] # NoFetch /\ m \in Ids
    BY <1>2, <1>4 DEF InChat
  <2>2. ~Dirtied(m)
    BY <1>2, <1>4, <2>1 DEF Dirtied, InChat
  <2>3. SameRow(m) /\ (Busy(m)' => Busy(m))
    BY <2>1, <2>2
  <2>4. /\ ~Busy(m)
        /\ fetch[f].pc = "hydrate" => Found(f, m, [id |-> m, ver |-> row[m].ver])
        /\ fetch[f].pc = "set" => Found(f, m, [id |-> m, ver |-> row[m].ver, by |-> reacted[m]])
    BY <1>1, <2>1 DEF ReadRight
  <2>5. fetch[f].pc \in {"hydrate", "set"} => Read(f, m)' = Read(f, m)
    BY <1>2 DEF Read
  <2>. QED
    BY <1>2, <2>3, <2>4, <2>5 DEF Found, SameRow
<1>5. fetch'[f].pc \in {"hydrate", "set"} => DOMAIN fetch'[f].rows = DOMAIN fetch[f].rows
  BY <1>2
<1>. QED
  BY <1>2, <1>3, <1>4, <1>5 DEF ReadRight

(* The invariant holds after a step that keeps the chat open, if each      *)
(* message is left alone, excused, or seen to on its own.                  *)
LEMMA InvKept ==
  ASSUME ViewInv, TypeOK', OnlyKnown', NoDuplicates', FetchFollows',
         open' = open, excused \subseteq excused',
         \A k \in InChat(open) \ excused' : Quiet(k) \/ Follows(k)'
  PROVE  ViewInv'
<1>1. \A k \in InChat(open) \ excused' : Follows(k)
  BY DEF ViewInv, ViewFollows
<1>2. \A k \in InChat(open) \ excused' : Follows(k)'
  <2>1. ASSUME NEW k \in InChat(open) \ excused' PROVE Follows(k)'
    <3>1. k \in Ids
      BY DEF InChat
    <3>. QED
      BY <1>1, <2>1, <3>1, FollowsKept DEF ViewInv
  <2>. QED
    BY <2>1
<1>3. InChat(open)' = InChat(open)
  BY DEF InChat
<1>4. ViewFollows'
  BY <1>2, <1>3 DEF ViewFollows
<1>. QED
  BY <1>4 DEF ViewInv

(* What a step has to keep.                                                *)
LEMMA KnownKept ==
  ASSUME TypeOK, TypeOK', OnlyKnown, RowsStay,
         \A i \in DOMAIN view' :
           row'[view'[i].id] # NoRow \/ \E j \in DOMAIN view : view'[i].id = view[j].id,
         \A k \in Ids : reacted'[k] = reacted[k] \/ Known(k)',
         \A e : e \in Flying' =>
           \/ e \in Flying
           \/ Known(About(e))' /\ (e.kind = "deleted" => row'[e.id].state = "deleted"),
         \A r \in Requests : req'[r].pc \in {"update", "hydrate"} =>
           row'[req'[r].id] # NoRow \/ req'[r] = req[r]
  PROVE  OnlyKnown'
<1>1. \A k \in Ids : reacted'[k] # {} => Known(k)'
  BY DEF OnlyKnown, RowsStay
<1>2. ASSUME NEW e \in Flying'
      PROVE  Known(About(e))' /\ (e.kind = "deleted" => row'[e.id].state = "deleted")
  <2>1. About(e) \in Ids /\ (e.kind = "deleted" => About(e) = e.id)
    BY <1>2, FlyingTyped, EventShapes
  <2>2. CASE e \in Flying
    <3>1. Known(About(e)) /\ (e.kind = "deleted" => row[e.id].state = "deleted")
      BY <2>2 DEF OnlyKnown
    <3>2. Known(About(e))' <=> row'[About(e)] # NoRow
      BY DEF Known, About
    <3>3. row'[About(e)] # NoRow
      BY <2>1, <3>1 DEF RowsStay, Known
    <3>. QED
      BY <2>1, <3>1, <3>2, <3>3 DEF RowsStay
  <2>. QED
    BY <1>2, <2>2
<1>3. ASSUME NEW r \in Requests, req'[r].pc \in {"update", "hydrate"}
      PROVE  row'[req'[r].id] # NoRow
  <2>1. CASE req'[r] = req[r]
    <3>1. req[r].id \in Ids /\ Known(req[r].id)
      BY <1>3, <2>1, CallShapes DEF OnlyKnown, TypeOK
    <3>. QED
      BY <2>1, <3>1 DEF RowsStay, Known
  <2>. QED
    BY <1>3, <2>1
<1>4. ASSUME NEW i \in DOMAIN view' PROVE Known(view[i].id)'
  <2>1. ASSUME NEW j \in DOMAIN view, view'[i].id = view[j].id
        PROVE  row'[view'[i].id] # NoRow
    <3>1. view[j] \in Shown /\ Known(view[j].id)
      BY <2>1 DEF TypeOK, OnlyKnown
    <3>. QED
      BY <2>1, <3>1 DEF RowsStay, Known, Shown
  <2>. QED
    BY <1>4, <2>1 DEF Known
<1>5. ASSUME NEW r \in Requests, req'[r].pc \in {"update", "hydrate"}
      PROVE  Known(req[r].id)'
  BY <1>3, <1>5 DEF Known
<1>. QED
  BY <1>1, <1>2, <1>4, <1>5 DEF OnlyKnown

-----------------------------------------------------------------------------
(* What the steps of the gateway leave alone.                              *)

LEMMA NoteKeeps ==
  ASSUME TypeOK, NEW m \in Ids, NEW race \in BOOLEAN, Note(m, race)
  PROVE  /\ fetch' \in [Fetches -> FetchCall]
         /\ FetchesGoOn /\ Dirtied(m)
         /\ excused \subseteq excused' /\ excused' \in SUBSET Ids
         /\ race => m \in excused'
<1>1. \A f \in Fetches : fetch'[f] =
        IF fetch[f] # NoFetch /\ fetch[f].chat = ChatOf[m]
        THEN [fetch[f] EXCEPT !.dirty = @ \cup {m}] ELSE fetch[f]
  BY DEF Note
<1>2. ASSUME NEW f \in Fetches
      PROVE  /\ fetch'[f] \in FetchCall
             /\ fetch'[f].pc = fetch[f].pc
             /\ fetch[f] = NoFetch <=> fetch'[f] = NoFetch
             /\ fetch[f] # NoFetch =>
                  /\ fetch'[f].chat = fetch[f].chat /\ fetch[f].dirty \subseteq fetch'[f].dirty
                  /\ fetch[f].chat = ChatOf[m] => m \in fetch'[f].dirty
             /\ fetch[f].pc \in {"hydrate", "set"} => fetch'[f].rows = fetch[f].rows
  <2>1. fetch[f] \in FetchCall
    BY DEF TypeOK
  <2>2. CASE fetch[f] # NoFetch /\ fetch[f].chat = ChatOf[m]
    <3>1. fetch'[f] = [fetch[f] EXCEPT !.dirty = @ \cup {m}]
      BY <1>1, <2>2
    <3>2. CASE fetch[f].pc = "list"
      BY <2>1, <2>2, <3>1, <3>2, FetchShapes DEF FetchCall, NoFetch
    <3>3. CASE fetch[f].pc = "hydrate"
      <4>1. fetch[f] \in [pc : {"hydrate"}, chat : Chats, dirty : SUBSET Ids,
                          rows : Seq([id : Ids, ver : Nat])]
        BY <2>1, <3>3, FetchShapes
      <4>. PICK chat \in Chats, dirty \in SUBSET Ids, rows \in Seq([id : Ids, ver : Nat]) :
             fetch[f] = [pc |-> "hydrate", chat |-> chat, dirty |-> dirty, rows |-> rows]
        BY <4>1
      <4>2. fetch'[f] = [pc |-> "hydrate", chat |-> chat, dirty |-> dirty \cup {m}, rows |-> rows]
        <5>1. fetch'[f] = [[pc |-> "hydrate", chat |-> chat, dirty |-> dirty, rows |-> rows]
                             EXCEPT !.dirty = dirty \cup {m}]
          BY <3>1
        <5>. QED
          BY <5>1
      <4>3. fetch'[f] \in [pc : {"hydrate"}, chat : Chats, dirty : SUBSET Ids,
                           rows : Seq([id : Ids, ver : Nat])]
        BY <4>2
      <4>4. fetch'[f] \in FetchCall
        BY <4>3 DEF FetchCall
      <4>. QED
        BY <2>2, <4>2, <4>4 DEF NoFetch
    <3>4. CASE fetch[f].pc = "set"
      <4>1. fetch[f] \in [pc : {"set"}, chat : Chats, dirty : SUBSET Ids, rows : Seq(Wire)]
        BY <2>1, <3>4, FetchShapes
      <4>. PICK chat \in Chats, dirty \in SUBSET Ids, rows \in Seq(Wire) :
             fetch[f] = [pc |-> "set", chat |-> chat, dirty |-> dirty, rows |-> rows]
        BY <4>1
      <4>2. fetch'[f] = [pc |-> "set", chat |-> chat, dirty |-> dirty \cup {m}, rows |-> rows]
        <5>1. fetch'[f] = [[pc |-> "set", chat |-> chat, dirty |-> dirty, rows |-> rows]
                             EXCEPT !.dirty = dirty \cup {m}]
          BY <3>1
        <5>. QED
          BY <5>1
      <4>3. fetch'[f] \in [pc : {"set"}, chat : Chats, dirty : SUBSET Ids, rows : Seq(Wire)]
        BY <4>2
      <4>4. fetch'[f] \in FetchCall
        BY <4>3 DEF FetchCall
      <4>. QED
        BY <2>2, <4>2, <4>4 DEF NoFetch
    <3>. QED
      BY <2>1, <2>2, <3>2, <3>3, <3>4, FetchShapes
  <2>3. CASE ~(fetch[f] # NoFetch /\ fetch[f].chat = ChatOf[m])
    BY <1>1, <2>1, <2>3, FetchShapes
  <2>. QED
    BY <2>2, <2>3
<1>3. fetch' \in [Fetches -> FetchCall]
  BY <1>2 DEF Note
<1>4. excused \subseteq excused' /\ excused' \in SUBSET Ids /\ (race => m \in excused')
  BY DEF Note, TypeOK
<1>. QED
  BY <1>2, <1>3, <1>4 DEF FetchesGoOn, Dirtied

LEMMA FetchesUntouched == UNCHANGED fetch => FetchesGoOn
BY DEF FetchesGoOn

LEMMA EntriesUntouched == UNCHANGED view => \A k : Entries(k)' = Entries(k)
BY DEF Entries

(* An event is of one message.                                             *)
LEMMA ReactsAbout ==
  ASSUME NEW e \in Event, NEW k, NEW u, Reacts(e, k, u)
  PROVE  About(e) = k
BY EventShapes DEF Reacts

LEMMA PostingLeaves ==
  ASSUME TypeOK, NEW r \in Requests, NEW e \in Event, req[r].pc # "publish", Answer(r, e),
         UNCHANGED <<inbox, handlers>>, NEW k, About(e) # k, ~Rewrites(r, k)
  PROVE  SameEvents(k) /\ SameCalls(k)
<1>1. SameEvents(k)
  BY Posting, ReactsAbout DEF SameEvents
<1>2. /\ req'[r].pc = "publish"
      /\ \A q \in Requests \ {r} : req'[q] = req[q]
  <2>1. [pc |-> "publish", event |-> e] \in Call
    BY DEF Call
  <2>. QED
    BY <2>1, BecomeShape DEF Answer
<1>3. SameCalls(k)
  BY <1>2, HydratingIs DEF SameCalls, Rewrites
<1>. QED
  BY <1>1, <1>3

LEMMA QuietingLeaves ==
  ASSUME TypeOK, NEW r \in Requests, NEW c \in Call, req[r].pc # "publish", c.pc # "publish",
         Become(r, c), UNCHANGED <<inbox, handlers>>, NEW k, ~Rewrites(r, k),
         ~(c.pc = "hydrate" /\ c.id = k)
  PROVE  SameEvents(k) /\ SameCalls(k)
<1>1. SameEvents(k)
  BY Quieting DEF SameEvents
<1>2. /\ req'[r] = c
      /\ \A q \in Requests \ {r} : req'[q] = req[q]
  BY BecomeShape
<1>3. SameCalls(k)
  BY <1>2, HydratingIs DEF SameCalls, Rewrites
<1>. QED
  BY <1>1, <1>3

(* A slot that has posted its event was hydrating nothing.                 *)
LEMMA EmptyingLeaves ==
  ASSUME TypeOK, NEW r \in Requests, req[r].pc = "publish", Become(r, Idle), NEW k
  PROVE  SameCalls(k)
<1>1. /\ req'[r] = Idle
      /\ \A q \in Requests \ {r} : req'[q] = req[q]
  BY IdleIsCall, BecomeShape
<1>. QED
  BY <1>1, IdleIsCall, HydratingIs DEF SameCalls, Rewrites

LEMMA CallsUntouched == UNCHANGED req => \A k : SameCalls(k)
<1>. SUFFICES ASSUME UNCHANGED req, NEW k PROVE SameCalls(k)
  OBVIOUS
<1>1. \A r \in Requests : Rewrites(r, k)' <=> Rewrites(r, k)
  BY DEF Rewrites
<1>. QED
  BY <1>1, HydratingIs DEF SameCalls

(* A message about which nothing was said is in none of these ways.        *)
LEMMA StandsSomehow ==
  ASSUME TypeOK, OnlyKnown, NEW m \in Ids, Follows(m)
  PROVE  /\ row[m] = NoRow => Unsent(m) /\ reacted[m] = {} /\ ~Busy(m)
         /\ Known(m) /\ row[m].state = "deleted" => Gone(m)
         /\ Known(m) /\ row[m].state # "deleted" => Arriving(m) \/ Rewriting(m) \/ Reacting(m)
<1>1. row[m] = NoRow => reacted[m] = {} /\ ~Busy(m)
  <2>1. row[m] = NoRow => ~Known(m)
    BY DEF Known
  <2>2. ~Known(m) => ~Hydrating(m)
    BY DEF OnlyKnown, Hydrating
  <2>3. ~Known(m) => \A e \in Flying : About(e) # m
    BY DEF OnlyKnown
  <2>. QED
    BY <2>1, <2>2, <2>3, BusyIs DEF OnlyKnown
<1>2. row[m] \in Row
  BY DEF TypeOK
<1>. QED
  BY <1>1, <1>2, RowShapes DEF Follows, Unsent, Arriving, Rewriting, Reacting, Gone, Known, NoRow


(* A statement of the communication-service that changes one message, and  *)
(* with it the call that made it: what is left to show is where that       *)
(* message stands.                                                         *)
LEMMA StatementKept ==
  ASSUME ViewInv, NEW r \in Requests, NEW m \in Ids, NEW race \in BOOLEAN, NEW c \in Call,
         req[r].pc \in {"idle", "update"}, Become(r, c), Note(m, race),
         UNCHANGED <<inbox, open, view, handlers>>,
         c.pc \in {"hydrate", "publish"}, c.pc = "hydrate" => c.id = m,
         c.pc = "publish" => /\ About(c.event) = m
                             /\ c.event.kind = "deleted" => row'[m].state = "deleted",
         row' \in [Ids -> Row], reacted' \in [Ids -> SUBSET Users],
         \A k \in Ids \ {m} : SameRow(k),
         row'[m] # NoRow, row[m].state = "deleted" => row'[m].state = "deleted",
         TypeOK' /\ m \in InChat(open) \ excused' => Follows(m)'
  PROVE  ViewInv'
<1>. USE DEF ViewInv
<1>1. /\ req' \in [Requests -> Call] /\ req'[r] = c
      /\ \A q \in Requests \ {r} : req'[q] = req[q]
  BY BecomeShape
<1>2. /\ fetch' \in [Fetches -> FetchCall]
      /\ FetchesGoOn /\ Dirtied(m)
      /\ excused \subseteq excused' /\ excused' \in SUBSET Ids
  BY NoteKeeps
<1>3. TypeOK'
  BY <1>1, <1>2 DEF TypeOK
<1>4. RowsStay
  BY DEF RowsStay, SameRow, Known
<1>5. ASSUME NEW k \in Ids \ {m} PROVE SameEvents(k) /\ SameCalls(k)
  <2>1. ~Rewrites(r, k)
    BY DEF Rewrites
  <2>2. CASE c.pc = "hydrate"
    BY <1>5, <2>1, <2>2, QuietingLeaves
  <2>3. CASE c.pc = "publish"
    <3>1. c.event \in Event /\ c = [pc |-> "publish", event |-> c.event]
      BY <2>3, CallShapes
    <3>2. Answer(r, c.event)
      BY <3>1 DEF Answer
    <3>. QED
      BY <1>5, <2>1, <2>3, <3>1, <3>2, PostingLeaves
  <2>. QED
    BY <2>2, <2>3
<1>6. OnlyKnown'
  <2>1. \A k \in Ids : reacted'[k] = reacted[k] \/ Known(k)'
    BY DEF SameRow, Known
  <2>2. ASSUME NEW e, e \in Flying'
        PROVE  \/ e \in Flying
               \/ Known(About(e))' /\ (e.kind = "deleted" => row'[e.id].state = "deleted")
    <3>1. e \in Flying \/ (c.pc = "publish" /\ e = c.event)
      BY <1>1, <2>2, FlyingIs
    <3>2. CASE c.pc = "publish" /\ e = c.event
      <4>1. About(e) = m /\ (e.kind = "deleted" => e.id = m)
        BY <3>2, CallShapes, EventShapes
      <4>2. Known(About(e))' <=> row'[About(e)] # NoRow
        BY DEF Known, About
      <4>. QED
        BY <3>2, <4>1, <4>2
    <3>. QED
      BY <3>1, <3>2
  <2>3. \A q \in Requests : req'[q].pc \in {"update", "hydrate"} =>
          row'[req'[q].id] # NoRow \/ req'[q] = req[q]
    BY <1>1
  <2>. QED
    BY <1>3, <1>4, <2>1, <2>2, <2>3, KnownKept
<1>7. NoDuplicates'
  BY DEF NoDuplicates
<1>8. FetchFollows'
  <2>1. \A k \in Ids : Dirtied(k) \/ (SameRow(k) /\ (Busy(k)' => Busy(k)))
    BY <1>2, <1>5, BusyKept
  <2>. QED
    BY <1>2, <1>4, <2>1, FetchKept
<1>9. \A k \in InChat(open) \ excused' : Quiet(k) \/ Follows(k)'
  BY <1>3, <1>5, EntriesUntouched DEF Quiet, InChat
<1>. QED
  BY <1>2, <1>3, <1>6, <1>7, <1>8, <1>9, InvKept


LEMMA SendKeeps ==
  ASSUME ViewInv, NEW r \in Requests, SendMessage(r)
  PROVE  ViewInv'
<1>. USE DEF ViewInv
<1>1. PICK m \in Ids :
        /\ row[m] = NoRow
        /\ row' = [row EXCEPT ![m].state = "sent"]
        /\ Answer(r, NewEvent(m))
        /\ Note(m, FALSE)
  BY DEF SendMessage
<1>. DEFINE c == [pc |-> "publish", event |-> NewEvent(m)]
<1>2. c \in Call /\ c.pc = "publish" /\ c.event = NewEvent(m) /\ Become(r, c)
  BY <1>1, EventsMade DEF Call, Answer
<1>. HIDE DEF c
<1>3. req[r].pc = "idle" /\ UNCHANGED <<reacted, inbox, open, view, handlers>>
  BY DEF SendMessage, Free, Idle
<1>4. /\ row'[m] = [state |-> "sent", ver |-> 0]
      /\ \A k \in Ids \ {m} : row'[k] = row[k]
      /\ row' \in [Ids -> Row]
  BY <1>1 DEF TypeOK, Row, NoRow
<1>5. row'[m] # NoRow /\ row[m].state # "deleted"
  BY <1>1, <1>4 DEF NoRow
<1>6. ASSUME TypeOK', m \in InChat(open) \ excused' PROVE Follows(m)'
  <2>1. m \notin excused
    BY <1>1, <1>6 DEF Note
  <2>2. Unsent(m) /\ reacted[m] = {} /\ ~Busy(m)
    BY <1>1, <1>6, <2>1, StandsSomehow DEF ViewFollows
  <2>3. \A e : e \in Flying' <=> e \in Flying \/ e = NewEvent(m)
    BY <1>1, <1>3, EventsMade, Posting
  <2>4. NewFlying(m)'
    BY <1>6, <2>3, EventsMade, NewFlyingIs
  <2>5. ~Hydrating(m)'
    <3>1. \A q \in Requests : Rewrites(q, m)' => Rewrites(q, m)
      BY <1>2, BecomeShape DEF Rewrites
    <3>. QED
      BY <2>2, <3>1, BusyIs, HydratingIs
  <2>6. \A e \in Flying' : About(e) = m => e = NewEvent(m)'
    BY <2>2, <2>3, BusyIs DEF NewEvent
  <2>7. Entries(m)' = {}
    BY <1>3, <2>2, EntriesUntouched DEF Unsent
  <2>8. Arriving(m)'
    BY <1>3, <1>4, <2>2, <2>4, <2>5, <2>6, <2>7 DEF Arriving
  <2>. QED
    BY <2>8 DEF Follows
<1>. QED
  BY <1>1, <1>2, <1>3, <1>4, <1>5, <1>6, EventsMade, StatementKept
  DEF TypeOK, SameRow

LEMMA DeleteKeeps ==
  ASSUME ViewInv, NEW r \in Requests, DeleteMessage(r)
  PROVE  ViewInv'
<1>. USE DEF ViewInv
<1>1. PICK m \in Ids :
        /\ row[m] # NoRow
        /\ row' = [row EXCEPT ![m].state = "deleted"]
        /\ Answer(r, DeletedEvent(m))
        /\ Note(m, NewFlying(m))
  BY DEF DeleteMessage, SoftDelete
<1>. DEFINE c == [pc |-> "publish", event |-> DeletedEvent(m)]
<1>. DEFINE race == NewFlying(m)
<1>2. c \in Call /\ c.pc = "publish" /\ c.event = DeletedEvent(m) /\ Become(r, c)
  BY <1>1, EventsMade DEF Call, Answer
<1>. HIDE DEF c
<1>3. req[r].pc = "idle" /\ UNCHANGED <<reacted, inbox, open, view, handlers>>
  BY DEF DeleteMessage, Free, Idle
<1>4. /\ row'[m].state = "deleted"
      /\ \A k \in Ids \ {m} : row'[k] = row[k]
      /\ row' \in [Ids -> Row]
  BY <1>1 DEF TypeOK, Row, NoRow
<1>5. row'[m] # NoRow
  BY <1>4 DEF NoRow
<1>6. race \in BOOLEAN /\ Note(m, race)
  BY <1>1 DEF NewFlying
<1>7. ASSUME TypeOK', m \notin excused' PROVE Follows(m)'
  <2>1. ~NewFlying(m)
    BY <1>6, <1>7, NoteKeeps
  <2>2. \A e : e \in Flying' <=> e \in Flying \/ e = DeletedEvent(m)
    BY <1>1, <1>3, EventsMade, Posting
  <2>3. ~NewFlying(m)'
    BY <1>7, <2>1, <2>2, EventsMade, NewFlyingIs
  <2>4. DeletedEvent(m)' \in Flying'
    BY <2>2 DEF DeletedEvent
  <2>5. Gone(m)'
    BY <1>4, <2>3, <2>4 DEF Gone
  <2>. QED
    BY <2>5 DEF Follows
<1>. HIDE DEF race
<1>. QED
  BY <1>2, <1>3, <1>4, <1>5, <1>6, <1>7, EventsMade, StatementKept DEF TypeOK, SameRow


(* A deleted message stays one, if its deletion is not forgotten.          *)
LEMMA GoneKept ==
  ASSUME TypeOK, TypeOK', NEW m \in Ids, Gone(m), row'[m].state = "deleted",
         Entries(m) = {} => Entries(m)' = {},
         \A e \in Flying' : About(e) = m => e \in Flying \/ e.kind # "new",
         Entries(m)' = {} \/ (DeletedEvent(m) \in Flying => DeletedEvent(m) \in Flying')
  PROVE  Follows(m)'
<1>1. ~NewFlying(m)'
  BY NewFlyingIs DEF Gone
<1>2. Gone(m)'
  BY <1>1 DEF Gone, DeletedEvent
<1>. QED
  BY <1>2 DEF Follows

(* A reaction to a message about whose text nothing is on its way, nor     *)
(* about one of the same user, puts the page behind by it.                 *)
LEMMA ReactionPosted ==
  ASSUME TypeOK, TypeOK', OnlyKnown, NEW r \in Requests, NEW m \in Ids, NEW u \in Users, NEW e,
         Answer(r, e), req[r].pc = "idle", UNCHANGED <<row, inbox, view, handlers>>,
         \/ e = AddedEvent(m, u) /\ u \notin reacted[m] /\ reacted'[m] = reacted[m] \cup {u}
         \/ e = RemovedEvent(m, u) /\ u \in reacted[m] /\ reacted'[m] = reacted[m] \ {u},
         Known(m), Follows(m), ~TextFlying(m), ~ReactionFlying(m, u)
  PROVE  Follows(m)'
<1>1. /\ e \in Event /\ About(e) = m /\ e.kind \in {"added", "removed"}
      /\ e.id = m /\ e.user = u
  <2>1. e \in Event /\ About(e) = m /\ e.kind \in {"added", "removed"}
    BY EventsMade
  <2>2. e.id = m /\ e.user = u
    BY DEF AddedEvent, RemovedEvent
  <2>. QED
    BY <2>1, <2>2
<1>2. /\ \A x : x \in Flying' <=> x \in Flying \/ x = e
      /\ \A v : InOnePlace(m, v) /\ ~Reacts(e, m, v) => InOnePlace(m, v)'
      /\ \A v : (\A x \in Flying : ~Reacts(x, m, v)) => InOnePlace(m, v)'
  BY <1>1, Posting
<1>3. Entries(m)' = Entries(m)
  BY EntriesUntouched
<1>4. CASE Gone(m)
  <2>1. row'[m].state = "deleted"
    BY <1>4 DEF Gone
  <2>. QED
    BY <1>1, <1>2, <1>3, <1>4, <2>1, GoneKept
<1>5. CASE Reacting(m)
  <2>1. \A x \in Flying : ~Reacts(x, m, u)
    BY DEF ReactionFlying, Reacts
  <2>2. \A v \in Users : InOnePlace(m, v)'
    <3>1. \A v \in Users \ {u} : ~Reacts(e, m, v)
      BY <1>1 DEF Reacts
    <3>. QED
      BY <1>2, <1>5, <2>1, <3>1 DEF Reacting
  <2>3. ~TextFlying(m)'
    <3>1. Hydrating(m)' <=> Hydrating(m)
      <4>1. [pc |-> "publish", event |-> e] \in Call
        BY <1>1 DEF Call
      <4>2. /\ req'[r].pc = "publish"
            /\ \A q \in Requests \ {r} : req'[q] = req[q]
        BY <4>1, BecomeShape DEF Answer
      <4>3. \A q \in Requests : Rewrites(q, m)' <=> Rewrites(q, m)
        BY <4>2 DEF Rewrites
      <4>. QED
        BY <4>3, HydratingIs
    <3>. QED
      BY <1>1, <1>2, <3>1, TextFlyingIs
  <2>4. u \notin Adding(m) /\ u \notin Removing(m)
    <3>1. Reacts(AddedEvent(m, u), m, u) /\ Reacts(RemovedEvent(m, u), m, u)
      BY DEF Reacts, AddedEvent, RemovedEvent
    <3>. QED
      BY <2>1, <3>1 DEF Adding, Removing
  <2>5. /\ Adding(m) \subseteq reacted[m] /\ Removing(m) \cap reacted[m] = {}
        /\ Entries(m) = {ShownWith(m, (reacted[m] \cup Removing(m)) \ Adding(m))}
    BY <1>5 DEF Reacting
  <2>6. \A users : ShownWith(m, users)' = ShownWith(m, users)
    BY DEF ShownWith
  <2>7. CASE e = AddedEvent(m, u) /\ u \notin reacted[m] /\ reacted'[m] = reacted[m] \cup {u}
    <3>1. Adding(m)' = Adding(m) \cup {u}
      BY <1>2, <2>7 DEF Adding, AddedEvent
    <3>2. Removing(m)' = Removing(m)
      BY <1>2, <2>7 DEF Removing, AddedEvent, RemovedEvent
    <3>3. (reacted'[m] \cup Removing(m)') \ Adding(m)' = (reacted[m] \cup Removing(m)) \ Adding(m)
      BY <2>4, <2>7, <3>1, <3>2
    <3>4. Adding(m)' \subseteq reacted'[m] /\ Removing(m)' \cap reacted'[m] = {}
      BY <2>4, <2>5, <2>7, <3>1, <3>2
    <3>. QED
      BY <1>3, <1>5, <2>2, <2>3, <2>5, <2>6, <3>3, <3>4 DEF Reacting, Follows
  <2>8. CASE e = RemovedEvent(m, u) /\ u \in reacted[m] /\ reacted'[m] = reacted[m] \ {u}
    <3>1. Adding(m)' = Adding(m)
      BY <1>2, <2>8 DEF Adding, AddedEvent, RemovedEvent
    <3>2. Removing(m)' = Removing(m) \cup {u}
      BY <1>2, <2>8 DEF Removing, RemovedEvent
    <3>3. (reacted'[m] \cup Removing(m)') \ Adding(m)' = (reacted[m] \cup Removing(m)) \ Adding(m)
      BY <2>4, <2>8, <3>1, <3>2
    <3>4. Adding(m)' \subseteq reacted'[m] /\ Removing(m)' \cap reacted'[m] = {}
      BY <2>4, <2>5, <2>8, <3>1, <3>2
    <3>. QED
      BY <1>3, <1>5, <2>2, <2>3, <2>5, <2>6, <3>3, <3>4 DEF Reacting, Follows
  <2>. QED
    BY <2>7, <2>8
<1>6. Gone(m) \/ Reacting(m)
  <2>1. NewFlying(m) => TextFlying(m)
    BY NewFlyingIs, TextFlyingIs
  <2>. QED
    BY <2>1, StandsSomehow DEF Known, Arriving, Rewriting
<1>. QED
  BY <1>4, <1>5, <1>6

LEMMA ReactionKeeps ==
  ASSUME ViewInv, NEW r \in Requests, AddReaction(r) \/ RemoveReaction(r)
  PROVE  ViewInv'
<1>. USE DEF ViewInv
<1>1. PICK m \in Ids, u \in Users :
        \/ /\ row[m] # NoRow
           /\ Insert(m, u)
           /\ Answer(r, AddedEvent(m, u))
           /\ Note(m, u \in reacted[m] \/ TextFlying(m) \/ ReactionFlying(m, u))
        \/ /\ u \in reacted[m]
           /\ Delete(m, u)
           /\ Answer(r, RemovedEvent(m, u))
           /\ Note(m, TextFlying(m) \/ ReactionFlying(m, u))
  BY DEF AddReaction, RemoveReaction
<1>2. req[r].pc = "idle" /\ UNCHANGED <<row, inbox, open, view, handlers>>
  BY DEF AddReaction, RemoveReaction, Free, Idle
<1>3. /\ reacted' \in [Ids -> SUBSET Users]
      /\ \A k \in Ids \ {m} : reacted'[k] = reacted[k]
      /\ Insert(m, u) => reacted'[m] = reacted[m] \cup {u}
      /\ Delete(m, u) => reacted'[m] = reacted[m] \ {u}
  BY <1>1 DEF Insert, Delete, TypeOK
<1>4. row[m] # NoRow
  BY <1>1 DEF OnlyKnown, Known
<1>5. PICK e \in {AddedEvent(m, u), RemovedEvent(m, u)}, race \in BOOLEAN :
        /\ Answer(r, e) /\ Note(m, race)
        /\ TextFlying(m) \/ ReactionFlying(m, u) => race
        /\ ~race =>
             \/ e = AddedEvent(m, u) /\ u \notin reacted[m] /\ reacted'[m] = reacted[m] \cup {u}
             \/ e = RemovedEvent(m, u) /\ u \in reacted[m] /\ reacted'[m] = reacted[m] \ {u}
  <2>1. CASE Insert(m, u) /\ Answer(r, AddedEvent(m, u))
               /\ Note(m, u \in reacted[m] \/ TextFlying(m) \/ ReactionFlying(m, u))
    <3>. DEFINE race == u \in reacted[m] \/ TextFlying(m) \/ ReactionFlying(m, u)
    <3>1. race \in BOOLEAN /\ Note(m, race)
      BY <2>1
    <3>2. ~race => u \notin reacted[m]
      OBVIOUS
    <3>3. TextFlying(m) \/ ReactionFlying(m, u) => race
      OBVIOUS
    <3>. HIDE DEF race
    <3>. QED
      BY <1>3, <2>1, <3>1, <3>2, <3>3
  <2>2. CASE Delete(m, u) /\ u \in reacted[m] /\ Answer(r, RemovedEvent(m, u))
               /\ Note(m, TextFlying(m) \/ ReactionFlying(m, u))
    <3>. DEFINE race == TextFlying(m) \/ ReactionFlying(m, u)
    <3>1. race \in BOOLEAN /\ Note(m, race)
      BY <2>2
    <3>2. TextFlying(m) \/ ReactionFlying(m, u) => race
      OBVIOUS
    <3>. HIDE DEF race
    <3>. QED
      BY <1>3, <2>2, <3>1, <3>2
  <2>. QED
    BY <1>1, <2>1, <2>2
<1>. DEFINE c == [pc |-> "publish", event |-> e]
<1>6. e \in Event /\ About(e) = m /\ e.kind # "deleted"
  BY EventsMade DEF AddedEvent, RemovedEvent
<1>7. c \in Call /\ c.pc = "publish" /\ c.event = e /\ Become(r, c)
  BY <1>5, <1>6 DEF Call, Answer
<1>. HIDE DEF c
<1>8. ASSUME TypeOK', m \in InChat(open) \ excused' PROVE Follows(m)'
  <2>1. ~race /\ m \notin excused
    BY <1>5, <1>8, NoteKeeps
  <2>2. Known(m) /\ Follows(m)
    BY <1>4, <1>8, <2>1 DEF ViewFollows, Known
  <2>. QED
    BY <1>2, <1>5, <1>8, <2>1, <2>2, ReactionPosted
<1>9. /\ row' \in [Ids -> Row] /\ row'[m] # NoRow
      /\ (row[m].state = "deleted" => row'[m].state = "deleted")
  BY <1>2, <1>4 DEF TypeOK
<1>. QED
  BY <1>2, <1>3, <1>5, <1>6, <1>7, <1>8, <1>9, StatementKept DEF SameRow


(* A step that moves an event, or handles one, and changes nothing stored. *)
LEMMA PassKept ==
  ASSUME ViewInv, UNCHANGED <<row, reacted, open, fetch>>,
         req' \in [Requests -> Call], inbox' \in Seq(Event), handlers' \in SUBSET TextEvent,
         view' \in Seq(Shown), NoDuplicates',
         \A i \in DOMAIN view' :
           row[view'[i].id] # NoRow \/ \E j \in DOMAIN view : view'[i].id = view[j].id,
         excused \subseteq excused', excused' \in SUBSET Ids,
         \A e : e \in Flying' => e \in Flying \/ (row[About(e)] # NoRow /\ e.kind # "deleted"),
         \A q \in Requests : req'[q].pc \in {"update", "hydrate"} =>
           row[req'[q].id] # NoRow \/ req'[q] = req[q],
         \A k \in Ids : Busy(k)' => Busy(k),
         \A k \in InChat(open) \ excused' :
           \/ SameEvents(k) /\ SameCalls(k) /\ Entries(k)' = Entries(k)
           \/ TypeOK' => Follows(k)'
  PROVE  ViewInv'
<1>. USE DEF ViewInv
<1>1. TypeOK'
  BY DEF TypeOK
<1>2. RowsStay /\ \A k : SameRow(k)
  BY DEF RowsStay, SameRow, Known
<1>3. OnlyKnown'
  <2>1. ASSUME NEW e, e \in Flying'
        PROVE  \/ e \in Flying
               \/ Known(About(e))' /\ (e.kind = "deleted" => row'[e.id].state = "deleted")
    <3>1. Known(About(e))' <=> row'[About(e)] # NoRow
      BY DEF Known, About
    <3>. QED
      BY <2>1, <3>1
  <2>. QED
    BY <1>1, <1>2, <2>1, KnownKept DEF SameRow
<1>4. FetchFollows'
  BY <1>2, FetchesUntouched, FetchKept
<1>5. \A k \in InChat(open) \ excused' : Quiet(k) \/ Follows(k)'
  BY <1>1, <1>2 DEF Quiet
<1>. QED
  BY <1>1, <1>3, <1>4, <1>5, InvKept

LEMMA UpdateFindKeeps ==
  ASSUME ViewInv, NEW r \in Requests, UpdateFind(r)
  PROVE  ViewInv'
<1>. USE DEF ViewInv
<1>1. PICK m \in Ids : row[m].state = "sent" /\ Become(r, [pc |-> "update", id |-> m])
  BY DEF UpdateFind
<1>. DEFINE c == [pc |-> "update", id |-> m]
<1>2. c \in Call /\ c.pc = "update" /\ c.id = m
  BY DEF Call
<1>3. Become(r, c)
  BY <1>1
<1>. HIDE DEF c
<1>4. /\ req[r].pc = "idle"
      /\ UNCHANGED <<row, reacted, inbox, open, view, handlers, fetch, excused>>
  BY DEF UpdateFind, Free, Idle, client
<1>5. /\ req' \in [Requests -> Call] /\ req'[r] = c
      /\ \A q \in Requests \ {r} : req'[q] = req[q]
  BY <1>2, <1>3, BecomeShape
<1>6. \A k : SameEvents(k) /\ SameCalls(k)
  <2>1. \A k : ~Rewrites(r, k)
    BY <1>4 DEF Rewrites
  <2>. QED
    BY <1>2, <1>3, <1>4, <2>1, QuietingLeaves
<1>7. \A e : e \in Flying' => e \in Flying
  BY <1>2, <1>3, <1>4, Quieting
<1>8. row[m] # NoRow
  BY <1>1 DEF NoRow
<1>9. NoDuplicates'
  BY <1>4 DEF NoDuplicates
<1>. QED
  BY <1>2, <1>4, <1>5, <1>6, <1>7, <1>8, <1>9, BusyKept, EntriesUntouched, PassKept DEF TypeOK

LEMMA PublishKeeps ==
  ASSUME ViewInv, NEW r \in Requests, Publish(r)
  PROVE  ViewInv'
<1>. USE DEF ViewInv
<1>1. /\ req[r].pc = "publish" /\ Become(r, Idle)
      /\ UNCHANGED <<row, reacted, open, view, handlers, fetch, excused>>
  BY DEF Publish, client
<1>2. /\ req' \in [Requests -> Call] /\ req'[r] = Idle
      /\ \A q \in Requests \ {r} : req'[q] = req[q]
  BY <1>1, IdleIsCall, BecomeShape
<1>3. \A k : SameCalls(k)
  BY <1>1, EmptyingLeaves
<1>4. inbox' \in Seq(Event) /\ \A k : SameEvents(k)
  BY Publishing DEF SameEvents
<1>5. \A e : e \in Flying' => e \in Flying
  BY Publishing
<1>6. NoDuplicates'
  BY <1>1 DEF NoDuplicates
<1>. QED
  BY <1>1, <1>2, <1>3, <1>4, <1>5, <1>6, IdleIsCall, BusyKept, EntriesUntouched, PassKept DEF TypeOK

LEMMA PublishLostKeeps ==
  ASSUME ViewInv, NEW r \in Requests, PublishLost(r)
  PROVE  ViewInv'
<1>. USE DEF ViewInv
<1>. DEFINE m == About(req[r].event)
<1>1. /\ req[r].pc = "publish" /\ Become(r, Idle) /\ excused' = excused \cup {m}
      /\ UNCHANGED <<row, reacted, inbox, open, view, handlers, fetch>>
  BY DEF PublishLost, client
<1>2. /\ req' \in [Requests -> Call] /\ req'[r] = Idle
      /\ \A q \in Requests \ {r} : req'[q] = req[q]
  BY <1>1, IdleIsCall, BecomeShape
<1>3. \A k : SameCalls(k)
  BY <1>1, EmptyingLeaves
<1>4. /\ \A e : e \in Flying' => e \in Flying
      /\ \A k : k # m => SameEvents(k)
  BY Losing DEF SameEvents
<1>5. \A k \in Ids : Busy(k)' => Busy(k)
  BY <1>3, <1>4, BusyIs, HydratingIs DEF SameCalls
<1>6. NoDuplicates'
  BY <1>1 DEF NoDuplicates
<1>7. m \in Ids
  BY <1>1, CallShapes, EventShapes DEF TypeOK
<1>. HIDE DEF m
<1>. QED
  BY <1>1, <1>2, <1>3, <1>4, <1>5, <1>6, <1>7, IdleIsCall, EntriesUntouched, PassKept DEF TypeOK


LEMMA UpdateWriteKeeps ==
  ASSUME ViewInv, NEW r \in Requests, UpdateWrite(r)
  PROVE  ViewInv'
<1>. USE DEF ViewInv
<1>0. req[r].pc = "update" /\ req[r].id \in Ids /\ row[req[r].id] # NoRow
  BY CallShapes DEF UpdateWrite, TypeOK, OnlyKnown, Known
<1>. PICK m \in Ids : m = req[r].id
  BY <1>0
<1>. DEFINE race == Busy(m)
<1>. DEFINE c == [pc |-> "hydrate", id |-> m, ver |-> row[m].ver + 1]
<1>1. /\ req[r].pc = "update" /\ Become(r, c) /\ Note(m, race)
      /\ row' = [row EXCEPT ![m].ver = @ + 1]
      /\ UNCHANGED <<reacted, inbox, open, view, handlers>>
  BY DEF UpdateWrite, Rewrite
<1>2. m \in Ids /\ row[m] # NoRow /\ race \in BOOLEAN
  BY <1>0 DEF Busy, Hydrating
<1>3. row[m] \in Row /\ row[m].ver \in Nat /\ row[m].state \in {"sent", "deleted"}
  BY <1>2, RowShapes DEF TypeOK
<1>4. c \in Call /\ c.pc = "hydrate" /\ c.id = m /\ c.ver = row[m].ver + 1
  BY <1>2, <1>3 DEF Call
<1>5. race <=> Busy(m)
  OBVIOUS
<1>. HIDE DEF c, race
<1>6. /\ row' \in [Ids -> Row]
      /\ \A k \in Ids \ {m} : row'[k] = row[k]
      /\ row'[m].ver = row[m].ver + 1 /\ row'[m].state = row[m].state
      /\ row'[m] # NoRow
  <2>1. row[m] = [state |-> row[m].state, ver |-> row[m].ver]
    BY <1>3, RowShapes
  <2>2. row'[m] = [state |-> row[m].state, ver |-> row[m].ver + 1]
    BY <1>1, <1>2, <2>1 DEF TypeOK
  <2>3. row'[m] \in Row /\ row'[m] # NoRow
    BY <1>3, <2>2 DEF Row, NoRow
  <2>. QED
    BY <1>1, <1>2, <2>2, <2>3 DEF TypeOK
<1>7. ASSUME TypeOK', m \in InChat(open) \ excused' PROVE Follows(m)'
  <2>1. ~Busy(m) /\ m \notin excused
    BY <1>1, <1>2, <1>5, <1>7, NoteKeeps
  <2>2. Follows(m)
    BY <1>7, <2>1 DEF ViewFollows
  <2>3. ~NewFlying(m) /\ ~TextFlying(m)
    BY <2>1, BusyIs, NewFlyingIs, TextFlyingIs
  <2>4. Gone(m) \/ Reacting(m)
    BY <1>2, <2>2, <2>3, StandsSomehow DEF Known, Arriving, Rewriting
  <2>5. /\ \A e : e \in Flying' <=> e \in Flying
        /\ Entries(m)' = Entries(m)
    BY <1>1, <1>4, Quieting, EntriesUntouched
  <2>6. CASE Gone(m)
    BY <1>2, <1>6, <1>7, <2>5, <2>6, GoneKept DEF Gone
  <2>7. CASE Reacting(m)
    <3>1. /\ req'[r] = c
          /\ \A q \in Requests \ {r} : req'[q] = req[q]
      BY <1>1, <1>4, BecomeShape
    <3>2. \A q \in Requests : ~Rewrites(q, m)
      BY <2>1, BusyIs, HydratingIs
    <3>3. Rewrites(r, m)' /\ \A q \in Requests : Rewrites(q, m)' => q = r
      BY <1>4, <3>1, <3>2 DEF Rewrites
    <3>4. TextFlying(m)'
      BY <1>7, <3>3, HydratingIs, TextFlyingIs
    <3>5. \A e \in Flying' : About(e) # m
      BY <2>1, <2>5, BusyIs
    <3>6. \E s \in Range(view') : Entries(m)' = {s}
      <4>1. PICK s : Entries(m)' = {s}
        BY <2>5, <2>7 DEF Reacting
      <4>. QED
        BY <4>1 DEF Entries
    <3>7. \A q \in Requests : Rewrites(q, m)' => req'[q].ver = row'[m].ver
      BY <1>4, <1>6, <3>1, <3>3
    <3>8. Rewriting(m)'
      BY <1>6, <2>7, <3>4, <3>5, <3>6, <3>7 DEF Rewriting, Rewrites, Reacting
    <3>. QED
      BY <3>8 DEF Follows
  <2>. QED
    BY <2>4, <2>6, <2>7
<1>8. \A k \in Ids \ {m} : SameRow(k)
  BY <1>1, <1>6 DEF SameRow
<1>9. reacted' \in [Ids -> SUBSET Users] /\ req[r].pc \in {"idle", "update"}
  BY <1>1 DEF TypeOK
<1>. QED
  BY <1>1, <1>2, <1>4, <1>6, <1>7, <1>8, <1>9, StatementKept

LEMMA UpdateHydrateKeeps ==
  ASSUME ViewInv, NEW r \in Requests, UpdateHydrate(r)
  PROVE  ViewInv'
<1>. USE DEF ViewInv
<1>0. req[r].pc = "hydrate" /\ req[r] \in Call /\ row[req[r].id] # NoRow
  BY DEF UpdateHydrate, TypeOK, OnlyKnown, Known
<1>. PICK m \in Ids : m = req[r].id
  BY <1>0, CallShapes
<1>. PICK e : e = UpdatedEvent(m, req[r].ver)
  OBVIOUS
<1>1. /\ req[r].pc = "hydrate" /\ Answer(r, e)
      /\ UNCHANGED <<row, reacted, inbox, open, view, handlers, fetch, excused>>
  BY DEF UpdateHydrate, client
<1>2. m \in Ids /\ req[r].ver \in Nat /\ row[m] # NoRow
  BY <1>0, CallShapes
<1>3. e \in Event /\ About(e) = m /\ e.kind = "updated"
  BY <1>2, EventsMade
<1>4. Rewrites(r, m) /\ \A k : k # m => ~Rewrites(r, k)
  BY <1>1 DEF Rewrites
<1>5. e = UpdatedEvent(m, req[r].ver)
  OBVIOUS
<1>6. /\ req' \in [Requests -> Call] /\ req'[r].pc = "publish"
      /\ \A q \in Requests \ {r} : req'[q] = req[q]
  <2>1. [pc |-> "publish", event |-> e] \in Call
    BY <1>3 DEF Call
  <2>. QED
    BY <1>1, <2>1, BecomeShape DEF Answer
<1>7. \A x : x \in Flying' <=> x \in Flying \/ x = e
  BY <1>1, <1>3, Posting
<1>8. \A k : k # m => SameEvents(k) /\ SameCalls(k)
  BY <1>1, <1>3, <1>4, PostingLeaves
<1>9. \A k \in Ids : Busy(k)' => Busy(k)
  <2>1. Busy(m)
    BY <1>4, BusyIs, HydratingIs
  <2>. QED
    BY <1>8, <2>1, BusyKept
<1>10. ASSUME TypeOK', m \in InChat(open) \ excused' PROVE Follows(m)'
  <2>1. Follows(m)
    BY <1>1, <1>10 DEF ViewFollows
  <2>2. Hydrating(m) /\ TextFlying(m)
    BY <1>4, HydratingIs DEF TextFlying
  <2>3. Gone(m) \/ Rewriting(m)
    BY <1>2, <2>1, <2>2, StandsSomehow DEF Known, Arriving, Reacting
  <2>4. Entries(m)' = Entries(m)
    BY <1>1, EntriesUntouched
  <2>5. CASE Gone(m)
    BY <1>1, <1>2, <1>3, <1>7, <1>10, <2>4, <2>5, GoneKept DEF Gone
  <2>6. CASE Rewriting(m)
    <3>1. req[r].ver = row[m].ver
      BY <1>4, <2>6 DEF Rewriting, Rewrites
    <3>2. \A ver : UpdatedEvent(m, ver)' = UpdatedEvent(m, ver)
      BY <1>1 DEF UpdatedEvent
    <3>3. \A x \in Flying' : About(x) = m => x = UpdatedEvent(m, row[m].ver)'
      BY <1>1, <1>5, <1>7, <2>6, <3>1, <3>2 DEF Rewriting
    <3>4. TextFlying(m)'
      BY <1>3, <1>7, <1>10, TextFlyingIs
    <3>5. \A q \in Requests : Rewrites(q, m)' => Rewrites(q, m) /\ req'[q] = req[q]
      BY <1>6 DEF Rewrites
    <3>6. \A q \in Requests : Rewrites(q, m)' => req'[q].ver = row'[m].ver
      BY <1>1, <2>6, <3>5 DEF Rewriting, Rewrites
    <3>7. Rewriting(m)'
      BY <1>1, <2>4, <2>6, <3>3, <3>4, <3>6 DEF Rewriting, Rewrites
    <3>. QED
      BY <3>7 DEF Follows
  <2>. QED
    BY <2>3, <2>5, <2>6
<1>11. NoDuplicates'
  BY <1>1 DEF NoDuplicates
<1>. QED
  BY <1>1, <1>2, <1>3, <1>6, <1>7, <1>8, <1>9, <1>10, <1>11, EntriesUntouched, PassKept DEF TypeOK


(* A message about which nothing is on its way has only to be shown right. *)
LEMMA Settled ==
  ASSUME TypeOK', NEW m \in Ids, ~Busy(m)', row'[m].state = "sent", Entries(m)' = {Expected(m)'}
  PROVE  Follows(m)'
<1>1. \A e \in Flying' : About(e) # m
  BY BusyIs
<1>2. ~TextFlying(m)'
  BY <1>1, BusyIs, TextFlyingIs
<1>3. \A e \in Flying' : \A u : ~Reacts(e, m, u)
  BY <1>1, FlyingTyped, ReactsAbout
<1>4. ASSUME NEW u PROVE InOnePlace(m, u)'
  <2>1. \A q \in Requests : ~Posts(q, m, u)'
    BY <1>3, FlyingIs DEF Posts, Reacts
  <2>2. \A i \in DOMAIN inbox' : ~Reacts(inbox'[i], m, u)
    BY <1>3, FlyingIs
  <2>. QED
    BY <2>1, <2>2 DEF InOnePlace, Reacts
<1>5. \A u \in Users : AddedEvent(m, u) \notin Flying' /\ RemovedEvent(m, u) \notin Flying'
  <2>1. \A u : Reacts(AddedEvent(m, u), m, u) /\ Reacts(RemovedEvent(m, u), m, u)
    BY DEF Reacts, AddedEvent, RemovedEvent
  <2>. QED
    BY <1>3, <2>1
<1>6. Adding(m)' = {} /\ Removing(m)' = {}
  BY <1>5 DEF Adding, Removing, AddedEvent, RemovedEvent
<1>7. (reacted'[m] \cup Removing(m)') \ Adding(m)' = reacted'[m]
  BY <1>6
<1>8. Reacting(m)'
  BY <1>2, <1>4, <1>6, <1>7 DEF Reacting, Expected, ShownWith
<1>. QED
  BY <1>8 DEF Follows

LEMMA MessageKeeps ==
  ASSUME ViewInv, OnMessage
  PROVE  ViewInv'
<1>. USE DEF ViewInv
<1>1. /\ inbox # <<>> /\ inbox' = Tail(inbox) /\ Event1.kind \in {"new", "updated"}
      /\ UNCHANGED <<row, reacted, req, open, view, fetch, excused>>
      /\ handlers' = IF ChatOf[Event1.msg.id] = open THEN handlers \cup {Event1} ELSE handlers
  BY DEF OnMessage, server
<1>2. /\ inbox' \in Seq(Event) /\ Event1 \in Event /\ Event1 \in Flying
      /\ \A x : x \in Flying' => x \in Flying
      /\ \A x : x \in Flying => x \in Flying' \/ x = Event1
      /\ \A k, u : InOnePlace(k, u) => InOnePlace(k, u)'
  BY <1>1, Handling
<1>3. Event1 \in TextEvent /\ About(Event1) = Event1.msg.id
  BY <1>1, <1>2, EventShapes
<1>4. ASSUME NEW k \in InChat(open) PROVE SameEvents(k)
  <2>1. \A x : About(x) = k /\ x \in Flying => x \in Flying'
    <3>1. CASE ChatOf[Event1.msg.id] = open
      <4>1. Event1 \in Flying'
        BY <1>1, <3>1, FlyingIs
      <4>. QED
        BY <1>2, <4>1
    <3>2. CASE ChatOf[Event1.msg.id] # open
      BY <1>2, <1>3, <1>4, <3>2 DEF InChat
    <3>. QED
      BY <3>1, <3>2
  <2>. QED
    BY <1>2, <2>1 DEF SameEvents
<1>5. \A k : SameCalls(k) /\ Entries(k)' = Entries(k)
  BY <1>1, CallsUntouched, EntriesUntouched
<1>6. \A k \in Ids : Busy(k)' => Busy(k)
  BY <1>2, <1>5, BusyIs, HydratingIs DEF SameCalls
<1>7. NoDuplicates' /\ handlers' \in SUBSET TextEvent
  BY <1>1, <1>3 DEF NoDuplicates, TypeOK
<1>. QED
  BY <1>1, <1>2, <1>4, <1>5, <1>6, <1>7, PassKept DEF TypeOK

LEMMA DeletedKeeps ==
  ASSUME ViewInv, OnMessageDeleted
  PROVE  ViewInv'
<1>. USE DEF ViewInv
<1>1. /\ inbox # <<>> /\ inbox' = Tail(inbox) /\ Event1.kind = "deleted"
      /\ UNCHANGED <<row, reacted, req, open, handlers, fetch, excused>>
      /\ view' = Without(Event1.id)
  BY DEF OnMessageDeleted, server
<1>2. /\ inbox' \in Seq(Event) /\ Event1 \in Event /\ Event1 \in Flying
      /\ \A x : x \in Flying' => x \in Flying
      /\ \A x : x \in Flying => x \in Flying' \/ x = Event1
      /\ \A k, u : InOnePlace(k, u) => InOnePlace(k, u)'
  BY <1>1, Handling
<1>3. About(Event1) = Event1.id /\ Event1.id \in Ids /\ row[Event1.id].state = "deleted"
  BY <1>1, <1>2, EventShapes DEF OnlyKnown
<1>. PICK m \in Ids : m = Event1.id
  BY <1>3
<1>4. \A k : k # m => SameEvents(k)
  BY <1>2, <1>3 DEF SameEvents
<1>5. /\ view' \in Seq(Shown) /\ NoDuplicates'
      /\ \A k : k # m => Entries(k)' = Entries(k)
      /\ Entries(m)' = {}
      /\ \A i \in DOMAIN view' : \E j \in DOMAIN view : view'[i] = view[j]
  BY <1>1, EntriesRemoved
<1>6. \A k : SameCalls(k)
  BY <1>1, CallsUntouched
<1>7. \A k \in Ids : Busy(k)' => Busy(k)
  BY <1>2, <1>6, BusyIs, HydratingIs DEF SameCalls
<1>8. ASSUME TypeOK', m \in InChat(open) \ excused' PROVE Follows(m)'
  <2>1. Gone(m)
    <3>1. Known(m)
      BY <1>3 DEF Known, NoRow
    <3>. QED
      BY <1>1, <1>3, <1>8, <3>1, StandsSomehow DEF ViewFollows
  <2>. QED
    BY <1>1, <1>2, <1>3, <1>5, <1>8, <2>1, GoneKept
<1>. QED
  BY <1>1, <1>2, <1>4, <1>5, <1>6, <1>7, <1>8, PassKept DEF TypeOK


(* What a reaction does to an entry that shows these users.                *)
LEMMA ReactionShown ==
  ASSUME NEW s \in Shown, NEW u \in Users
  PROVE  /\ Added(s, u) \in Shown /\ Added(s, u).id = s.id
         /\ Removed(s, u) \in Shown /\ Removed(s, u).id = s.id
<1>1. /\ s.id \in Ids /\ s.ver \in Nat /\ s.count \in Nat /\ s.by \in SUBSET Users
  BY DEF Shown
<1>2. s.count <= 1 \/ s.count - 1 \in Nat
  BY <1>1
<1>. QED
  BY <1>1, <1>2 DEF Shown, Added, Removed, Decremented, Reacted

LEMMA ReactionCounted ==
  ASSUME IsFiniteSet(Users), NEW m, NEW users \in SUBSET Users, NEW u \in Users
  PROVE  /\ u \notin users => Added(ShownWith(m, users), u) = ShownWith(m, users \cup {u})
         /\ u \in users => Removed(ShownWith(m, users), u) = ShownWith(m, users \ {u})
<1>1. IsFiniteSet(users) /\ Cardinality(users) \in Nat
  BY FS_Subset, FS_CardinalityType
<1>2. ASSUME u \notin users
      PROVE  Added(ShownWith(m, users), u) = ShownWith(m, users \cup {u})
  <2>1. Cardinality(users \cup {u}) = Cardinality(users) + 1
    BY <1>1, <1>2, FS_AddElement
  <2>2. Added(ShownWith(m, users), u) =
          [id |-> m, ver |-> row[m].ver, count |-> Cardinality(users) + 1, by |-> users \cup {u}]
    BY DEF Added, Reacted, ShownWith
  <2>. QED
    BY <2>1, <2>2 DEF ShownWith
<1>3. ASSUME u \in users
      PROVE  Removed(ShownWith(m, users), u) = ShownWith(m, users \ {u})
  <2>1. Cardinality(users \ {u}) = Cardinality(users) - 1 /\ IsFiniteSet(users \ {u})
    BY <1>1, <1>3, FS_RemoveElement
  <2>2. Cardinality(users) <= 1 => Cardinality(users \ {u}) = 0 /\ users \ {u} = {}
    <3>1. Cardinality(users \ {u}) \in Nat
      BY <2>1, FS_CardinalityType
    <3>. QED
      BY <1>1, <2>1, <3>1, FS_EmptySet
  <2>. QED
    BY <1>1, <2>1, <2>2 DEF Removed, Decremented, Reacted, ShownWith
<1>. QED
  BY <1>2, <1>3

(* The page hears of a reaction it is behind by.                           *)
LEMMA ReactionHeard ==
  ASSUME ViewInv, TypeOK', OnReaction, NEW m \in Ids, NEW u \in Users,
         Event1.id = m, Event1.user = u, ChatOf[m] = open, Reacting(m),
         DOMAIN view' = DOMAIN view,
         \A i \in DOMAIN view :
           view'[i] = IF view[i].id # m THEN view[i]
                      ELSE IF Event1.kind = "added" THEN Added(view[i], u) ELSE Removed(view[i], u)
  PROVE  Reacting(m)'
<1>. USE DEF ViewInv
<1>1. /\ inbox # <<>> /\ inbox' = Tail(inbox) /\ Event1.kind \in {"added", "removed"}
      /\ UNCHANGED <<row, reacted, req, open, handlers, fetch, excused>>
  BY DEF OnReaction, server
<1>. PICK e : e = Event1
  OBVIOUS
<1>2. /\ e \in Event /\ e \in Flying
      /\ \A x : x \in Flying' => x \in Flying
      /\ \A x : x \in Flying => x \in Flying' \/ x = e
      /\ \A k, v : InOnePlace(k, v) => InOnePlace(k, v)'
      /\ InOnePlace(m, u) /\ Reacts(e, m, u) =>
           /\ \A r \in Requests : ~Posts(r, m, u)'
           /\ \A i \in DOMAIN inbox' : ~Reacts(inbox'[i], m, u)
  BY <1>1, Handling
<1>3. /\ e \in [kind : {"added", "removed"}, id : Ids, user : Users]
      /\ e.kind = "added" => e = AddedEvent(m, u)
      /\ e.kind = "removed" => e = RemovedEvent(m, u)
  BY <1>1, <1>2, EventShapes DEF AddedEvent, RemovedEvent
<1>4. Reacts(e, m, u)
  BY <1>1 DEF Reacts
<1>5. \A x \in Flying' : ~Reacts(x, m, u)
  <2>1. \A h \in handlers' : ~Reacts(h, m, u)
    BY DEF TypeOK, TextEvent, Reacts
  <2>2. InOnePlace(m, u)
    BY DEF Reacting
  <2>. QED
    BY <1>2, <1>4, <2>1, <2>2, FlyingIs DEF Posts, Reacts
<1>6. Reacts(AddedEvent(m, u), m, u) /\ Reacts(RemovedEvent(m, u), m, u)
  BY DEF Reacts, AddedEvent, RemovedEvent
<1>7. ASSUME NEW v \in Users, v # u
      PROVE  /\ AddedEvent(m, v) \in Flying' <=> AddedEvent(m, v) \in Flying
             /\ RemovedEvent(m, v) \in Flying' <=> RemovedEvent(m, v) \in Flying
  <2>1. AddedEvent(m, v) # e /\ RemovedEvent(m, v) # e
    BY <1>7 DEF AddedEvent, RemovedEvent
  <2>. QED
    BY <1>2, <2>1
<1>8. Adding(m)' = Adding(m) \ {u} /\ Removing(m)' = Removing(m) \ {u}
  <2>1. \A v \in Users : v \in Adding(m)' <=> AddedEvent(m, v) \in Flying'
    BY DEF Adding, AddedEvent
  <2>2. \A v \in Users : v \in Removing(m)' <=> RemovedEvent(m, v) \in Flying'
    BY DEF Removing, RemovedEvent
  <2>3. Adding(m)' \subseteq Users /\ Removing(m)' \subseteq Users
    BY DEF Adding, Removing
  <2>. QED
    BY <1>5, <1>6, <1>7, <2>1, <2>2, <2>3 DEF Adding, Removing
<1>9. ~TextFlying(m)'
  <2>1. Hydrating(m)' <=> Hydrating(m)
    BY <1>1, CallsUntouched, HydratingIs DEF SameCalls
  <2>. QED
    BY <1>2, <2>1, TextFlyingIs DEF Reacting
<1>. DEFINE users == (reacted[m] \cup Removing(m)) \ Adding(m)
<1>. DEFINE later == (reacted'[m] \cup Removing(m)') \ Adding(m)'
<1>10. /\ Adding(m) \subseteq reacted[m] /\ Removing(m) \cap reacted[m] = {}
       /\ Entries(m) = {ShownWith(m, users)}
  BY DEF Reacting
<1>11. users \in SUBSET Users
  BY DEF TypeOK, Removing
<1>12. /\ e.kind = "added" => u \in Adding(m) /\ u \notin users /\ later = users \cup {u}
       /\ e.kind = "removed" => u \in Removing(m) /\ u \in users /\ later = users \ {u}
  <2>1. e.kind = "added" => u \in Adding(m)
    BY <1>2, <1>3 DEF Adding
  <2>2. e.kind = "removed" => u \in Removing(m)
    BY <1>2, <1>3 DEF Removing
  <2>3. reacted' = reacted
    BY <1>1
  <2>. QED
    BY <1>8, <1>10, <2>1, <2>2, <2>3
<1>. HIDE DEF users, later
<1>13. \A S : ShownWith(m, S)' = ShownWith(m, S)
  BY <1>1 DEF ShownWith
<1>14. Entries(m)' = {ShownWith(m, later)}
  <2>1. PICK s : s = ShownWith(m, users)
    OBVIOUS
  <2>2. PICK t : t = ShownWith(m, later)
    OBVIOUS
  <2>3. s.id = m
    BY <2>1 DEF ShownWith
  <2>4. IF e.kind = "added" THEN Added(s, u) = t ELSE Removed(s, u) = t
    BY <1>1, <1>11, <1>12, <2>1, <2>2, ReactionCounted, ViewConstants
  <2>5. \A i \in DOMAIN view : view[i] = s => view'[i] = t
    BY <2>3, <2>4
  <2>6. ASSUME NEW i \in DOMAIN view
        PROVE  view'[i].id = view[i].id /\ (view[i].id # m => view'[i] = view[i])
    <3>1. view[i] \in Shown
      BY SeqElement DEF TypeOK
    <3>. QED
      BY <3>1, ReactionShown
  <2>7. Entries(m) = {s}
    BY <1>10, <2>1
  <2>8. \A x, y : /\ Entries(m) = {x}
                  /\ \A i \in DOMAIN view : view[i] = x => view'[i] = y
                  => Entries(m)' = {y}
    BY <2>6, EntryReplaced
  <2>9. Entries(m)' = {t}
    BY <2>5, <2>7, <2>8
  <2>. QED
    BY <2>2, <2>9
<1>15. Adding(m)' \subseteq reacted'[m] /\ Removing(m)' \cap reacted'[m] = {}
  BY <1>1, <1>8, <1>10
<1>16. \A v \in Users : InOnePlace(m, v)'
  BY <1>2 DEF Reacting
<1>17. Entries(m)' = {ShownWith(m, (reacted[m] \cup Removing(m)) \ Adding(m))'}
  BY <1>13, <1>14 DEF later, ShownWith
<1>. QED
  BY <1>1, <1>9, <1>15, <1>16, <1>17 DEF Reacting


LEMMA ReactionHeardKeeps ==
  ASSUME ViewInv, OnReaction
  PROVE  ViewInv'
<1>. USE DEF ViewInv
<1>1. /\ inbox # <<>> /\ inbox' = Tail(inbox) /\ Event1.kind \in {"added", "removed"}
      /\ UNCHANGED <<row, reacted, req, open, handlers, fetch, excused>>
  BY DEF OnReaction, server
<1>2. /\ inbox' \in Seq(Event) /\ Event1 \in Event /\ Event1 \in Flying
      /\ \A x : x \in Flying' => x \in Flying
      /\ \A x : x \in Flying => x \in Flying' \/ x = Event1
      /\ \A k, u : InOnePlace(k, u) => InOnePlace(k, u)'
  BY <1>1, Handling
<1>3. /\ About(Event1) = Event1.id /\ Event1.id \in Ids /\ Event1.user \in Users
      /\ Known(Event1.id)
  BY <1>1, <1>2, EventShapes DEF OnlyKnown
<1>. PICK m \in Ids, u \in Users : m = Event1.id /\ u = Event1.user
  BY <1>3
<1>4. \A k : k # m => SameEvents(k)
  BY <1>2, <1>3 DEF SameEvents
<1>5. \A k : SameCalls(k)
  BY <1>1, CallsUntouched
<1>6. \A k \in Ids : Busy(k)' => Busy(k)
  BY <1>2, <1>5, BusyIs, HydratingIs DEF SameCalls
<1>7. CASE ChatOf[m] # open
  <2>1. view' = view
    BY <1>7 DEF OnReaction
  <2>2. NoDuplicates'
    BY <2>1 DEF NoDuplicates
  <2>3. m \notin InChat(open)
    BY <1>7 DEF InChat
  <2>. QED
    BY <1>1, <1>2, <1>4, <1>5, <1>6, <2>1, <2>2, <2>3, EntriesUntouched, PassKept DEF TypeOK
<1>8. CASE ChatOf[m] = open
  <2>1. /\ DOMAIN view' = DOMAIN view
        /\ \A i \in DOMAIN view :
             view'[i] = IF view[i].id # m THEN view[i]
                        ELSE IF Event1.kind = "added" THEN Added(view[i], u)
                        ELSE Removed(view[i], u)
    <3>1. CASE Event1.kind = "added"
      <4>1. view' = [i \in DOMAIN view |-> IF view[i].id = m THEN Added(view[i], u) ELSE view[i]]
        BY <1>8, <3>1 DEF OnReaction, Mapped
      <4>. QED
        BY <3>1, <4>1
    <3>2. CASE Event1.kind # "added"
      <4>1. view' = [i \in DOMAIN view |-> IF view[i].id = m THEN Removed(view[i], u) ELSE view[i]]
        BY <1>8, <3>2 DEF OnReaction, Mapped
      <4>. QED
        BY <3>2, <4>1
    <3>. QED
      BY <3>1, <3>2
  <2>2. ASSUME NEW i \in DOMAIN view
        PROVE  /\ view'[i] \in Shown /\ view'[i].id = view[i].id
               /\ view[i].id # m => view'[i] = view[i]
    <3>1. view[i] \in Shown
      BY SeqElement DEF TypeOK
    <3>. QED
      BY <2>1, <3>1, ReactionShown
  <2>3. view' \in Seq(Shown)
    <3>1. view' = [i \in DOMAIN view |-> view'[i]]
      <4>1. CASE Event1.kind = "added"
        BY <1>8, <4>1 DEF OnReaction, Mapped
      <4>2. CASE Event1.kind # "added"
        BY <1>8, <4>2 DEF OnReaction, Mapped
      <4>. QED
        BY <4>1, <4>2
    <3>2. Len(view) \in Nat /\ DOMAIN view = 1..Len(view)
      BY DEF TypeOK
    <3>3. view' \in [1..Len(view) -> Shown]
      BY <2>2, <3>1, <3>2
    <3>. QED
      BY <3>2, <3>3, SeqOfFunction
  <2>4. /\ NoDuplicates'
        /\ \A k : k # m => Entries(k)' = Entries(k)
        /\ Entries(m) = {} => Entries(m)' = {}
    BY <2>1, <2>2, EntryReplaced
  <2>5. ASSUME TypeOK', m \in InChat(open) \ excused' PROVE Follows(m)'
    <3>1. Follows(m)
      BY <1>1, <2>5 DEF ViewFollows
    <3>2. Gone(m) \/ Reacting(m)
      <4>1. ~Arriving(m) /\ ~Rewriting(m)
        BY <1>1, <1>2, <1>3, RowShapes, EventsMade DEF Arriving, Rewriting, TypeOK
      <4>. QED
        BY <1>3, <3>1, <4>1, StandsSomehow DEF Known
    <3>3. CASE Gone(m)
      <4>1. DeletedEvent(m) # Event1
        BY <1>1, EventsMade
      <4>. QED
        BY <1>1, <1>2, <2>4, <2>5, <3>3, <4>1, GoneKept DEF Gone
    <3>4. CASE Reacting(m)
      <4>1. Reacting(m)'
        BY <1>8, <2>1, <2>5, <3>4, ReactionHeard
      <4>. QED
        BY <4>1 DEF Follows
    <3>. QED
      BY <3>2, <3>3, <3>4
  <2>6. \A i \in DOMAIN view' : \E j \in DOMAIN view : view'[i].id = view[j].id
    BY <2>1, <2>2
  <2>. QED
    BY <1>1, <1>2, <1>4, <1>5, <1>6, <2>3, <2>4, <2>5, <2>6, PassKept DEF TypeOK
<1>. QED
  BY <1>7, <1>8


(* A text that was decrypted is on the page; the message is settled, or    *)
(* the same is on its way again.                                           *)
LEMMA TextDone ==
  ASSUME ViewInv, TypeOK', NEW m \in Ids, NEW e \in TextEvent, e.msg.id = m,
         UNCHANGED <<row, reacted, req>>, m \in InChat(open) \ excused,
         e \in Flying,
         \A x : x \in Flying' => x \in Flying,
         \A x : x \in Flying => x \in Flying' \/ x = e,
         Entries(m) = {} /\ e.kind = "updated" => Entries(m)' = {},
         Entries(m) = {} /\ e.kind = "new" => Entries(m)' = {Aggregated(e.msg)},
         \A s : Entries(m) = {s} =>
           Entries(m)' = {IF e.kind = "new" THEN s ELSE Aggregated(e.msg)}
  PROVE  Follows(m)'
<1>. USE DEF ViewInv
<1>1. /\ e \in Event /\ e.kind \in {"new", "updated"} /\ About(e) = m /\ Known(m)
      /\ TextFlying(m) /\ (e.kind = "new" => NewFlying(m))
  BY DEF TextEvent, Event, About, OnlyKnown, TextFlying, NewFlying
<1>2. Follows(m)
  BY DEF ViewFollows
<1>3. Arriving(m) \/ Rewriting(m) \/ Gone(m)
  BY <1>1, <1>2, StandsSomehow DEF Reacting
<1>4. Hydrating(m)' <=> Hydrating(m)
  BY CallsUntouched, HydratingIs DEF SameCalls
<1>5. CASE Gone(m)
  <2>1. DeletedEvent(m) # e
    BY <1>1, EventsMade
  <2>2. e.kind = "updated"
    BY <1>1, <1>5 DEF Gone
  <2>. QED
    BY <1>1, <1>5, <2>1, <2>2, GoneKept DEF Gone
<1>6. row'[m] = row[m] /\ reacted'[m] = reacted[m] /\ Expected(m)' = Expected(m)
  BY DEF Expected, ShownWith
<1>7. CASE Arriving(m)
  <2>1. e = NewEvent(m)
    BY <1>1, <1>7 DEF Arriving
  <2>2. e.kind = "new" /\ Aggregated(e.msg) = Expected(m)
    <3>1. e.kind = "new" /\ e.msg = [id |-> m, ver |-> 0, by |-> {}]
      BY <2>1 DEF NewEvent
    <3>2. row[m].ver = 0 /\ reacted[m] = {}
      BY <1>7 DEF Arriving
    <3>. QED
      BY <3>1, <3>2 DEF Expected, ShownWith, Aggregated, Reacted
  <2>3. Entries(m)' = {Expected(m)}
    <3>1. CASE Entries(m) = {}
      BY <2>2, <3>1
    <3>2. CASE Entries(m) # {}
      <4>1. Entries(m) = {Expected(m)}
        BY <1>7, <3>2 DEF Arriving
      <4>. QED
        BY <2>2, <4>1
    <3>. QED
      BY <3>1, <3>2
  <2>4. \A x \in Flying' : About(x) = m => x = NewEvent(m)
    BY <1>7 DEF Arriving
  <2>5. ~Hydrating(m)'
    BY <1>4, <1>7 DEF Arriving
  <2>6. CASE NewFlying(m)'
    <3>1. Arriving(m)'
      BY <1>6, <1>7, <2>3, <2>4, <2>5, <2>6 DEF Arriving, NewEvent
    <3>. QED
      BY <3>1 DEF Follows
  <2>7. CASE ~NewFlying(m)'
    <3>1. ~Busy(m)'
      BY <2>4, <2>5, <2>7, BusyIs, NewFlyingIs, EventsMade
    <3>2. row'[m].state = "sent"
      BY <1>6, <1>7 DEF Arriving
    <3>. QED
      BY <1>6, <2>3, <3>1, <3>2, Settled
  <2>. QED
    BY <2>6, <2>7
<1>8. CASE Rewriting(m)
  <2>1. e = UpdatedEvent(m, row[m].ver)
    BY <1>1, <1>8 DEF Rewriting
  <2>2. e.kind = "updated" /\ Aggregated(e.msg) = Expected(m)
    BY <2>1 DEF UpdatedEvent, Expected, ShownWith, Aggregated, Reacted
  <2>3. Entries(m)' = {Expected(m)}
    <3>1. PICK s : Entries(m) = {s}
      BY <1>8 DEF Rewriting
    <3>. QED
      BY <2>2, <3>1
  <2>4. \A x \in Flying' : About(x) = m => x = UpdatedEvent(m, row[m].ver)
    BY <1>8 DEF Rewriting
  <2>5. \A q \in Requests : Rewrites(q, m)' => req'[q].ver = row'[m].ver
    BY <1>6, <1>8 DEF Rewriting, Rewrites
  <2>6. CASE TextFlying(m)'
    <3>1. UpdatedEvent(m, row[m].ver)' = UpdatedEvent(m, row[m].ver)
      BY <1>6 DEF UpdatedEvent
    <3>2. \E s \in Range(view') : Entries(m)' = {s}
      <4>1. Expected(m) \in Range(view')
        BY <2>3 DEF Entries
      <4>. QED
        BY <2>3, <4>1
    <3>3. Rewriting(m)'
      BY <1>6, <1>8, <2>4, <2>5, <2>6, <3>1, <3>2 DEF Rewriting, Rewrites
    <3>. QED
      BY <3>3 DEF Follows
  <2>7. CASE ~TextFlying(m)'
    <3>1. UpdatedEvent(m, row[m].ver).kind = "updated"
      BY DEF UpdatedEvent
    <3>2. ~Busy(m)'
      BY <2>4, <2>7, <3>1, BusyIs, TextFlyingIs
    <3>3. row'[m].state = "sent"
      BY <1>6, <1>8 DEF Rewriting
    <3>. QED
      BY <1>6, <2>3, <3>2, <3>3, Settled
  <2>. QED
    BY <2>6, <2>7
<1>. QED
  BY <1>3, <1>5, <1>7, <1>8

LEMMA HandlerKeeps ==
  ASSUME ViewInv, NEW e \in handlers, HandlerDone(e)
  PROVE  ViewInv'
<1>. USE DEF ViewInv
<1>1. /\ handlers' = handlers \ {e} /\ (NewDone(e) \/ UpdatedDone(e))
      /\ UNCHANGED <<row, reacted, req, inbox, open, fetch, excused>>
  BY DEF HandlerDone, server
<1>2. /\ \A x : x \in Flying' => x \in Flying
      /\ \A x : x \in Flying => x \in Flying' \/ x = e
      /\ \A k, u : InOnePlace(k, u) => InOnePlace(k, u)'
  BY <1>1, HandlerEnding DEF HandlerDone
<1>3. e \in TextEvent /\ e \in Event /\ e \in Flying
  BY FlyingIs DEF TypeOK, Event
<1>4. /\ e.kind \in {"new", "updated"} /\ e.msg \in Wire /\ e.msg.id \in Ids
      /\ About(e) = e.msg.id /\ Known(e.msg.id)
  BY <1>3, EventShapes DEF OnlyKnown, TextEvent, Wire
<1>. PICK m \in Ids : m = e.msg.id
  BY <1>4
<1>5. \A k : k # m => SameEvents(k)
  BY <1>2, <1>4 DEF SameEvents
<1>6. \A k : SameCalls(k)
  BY <1>1, CallsUntouched
<1>7. \A k \in Ids : Busy(k)' => Busy(k)
  BY <1>2, <1>6, BusyIs, HydratingIs DEF SameCalls
<1>. DEFINE s0 == Aggregated(e.msg)
<1>8. s0 \in Shown /\ s0.id = m
  <2>1. e.msg.id = m /\ e.msg.ver \in Nat /\ e.msg.by \in SUBSET Users
    BY <1>4 DEF Wire
  <2>2. Cardinality(e.msg.by) \in Nat
    BY <2>1, ViewConstants, FS_Subset, FS_CardinalityType
  <2>. QED
    BY <2>1, <2>2 DEF Shown, Aggregated, Reacted
<1>. HIDE DEF s0
<1>9. /\ view' \in Seq(Shown) /\ NoDuplicates'
      /\ \A k : k # m => Entries(k)' = Entries(k)
      /\ Entries(m) = {} /\ e.kind = "updated" => Entries(m)' = {}
      /\ Entries(m) = {} /\ e.kind = "new" => Entries(m)' = {s0}
      /\ \A s : Entries(m) = {s} => Entries(m)' = {IF e.kind = "new" THEN s ELSE s0}
      /\ \A i \in DOMAIN view' :
           row[view'[i].id] # NoRow \/ \E j \in DOMAIN view : view'[i].id = view[j].id
  <2>1. CASE NewDone(e) /\ IsShown(m)
    <3>1. view' = view /\ e.kind = "new"
      BY <2>1 DEF NewDone
    <3>2. NoDuplicates'
      BY <3>1 DEF NoDuplicates
    <3>3. Entries(m) # {}
      BY <2>1, EntryIs DEF IsShown
    <3>. QED
      BY <3>1, <3>2, <3>3, EntriesUntouched DEF TypeOK
  <2>2. CASE NewDone(e) /\ ~IsShown(m)
    <3>1. view' = Append(view, s0) /\ e.kind = "new"
      BY <2>2 DEF NewDone, s0
    <3>2. /\ view' \in Seq(Shown) /\ NoDuplicates'
          /\ \A k : k # m => Entries(k)' = Entries(k)
          /\ Entries(m)' = {s0}
          /\ \A i \in DOMAIN view' : view'[i] = s0 \/ (i \in DOMAIN view /\ view'[i] = view[i])
      BY <1>8, <2>2, <3>1, EntryAppended
    <3>3. Entries(m) = {}
      <4>1. \A s : s \notin Entries(m)
        BY <2>2, EntryIs DEF IsShown
      <4>. QED
        BY <4>1
    <3>4. row[s0.id] # NoRow
      BY <1>4, <1>8 DEF Known
    <3>. QED
      BY <3>1, <3>2, <3>3, <3>4
  <2>3. CASE UpdatedDone(e)
    <3>1. /\ e.kind = "updated"
          /\ view' = [i \in DOMAIN view |-> IF view[i].id = m THEN s0 ELSE view[i]]
      BY <2>3 DEF UpdatedDone, Mapped, s0
    <3>2. /\ DOMAIN view' = DOMAIN view
          /\ \A i \in DOMAIN view :
               /\ view'[i] \in Shown /\ view'[i].id = view[i].id
               /\ view[i].id # m => view'[i] = view[i]
      <4>1. \A i \in DOMAIN view : view[i] \in Shown
        BY SeqElement DEF TypeOK
      <4>. QED
        BY <1>8, <3>1, <4>1
    <3>3. view' \in Seq(Shown)
      <4>1. Len(view) \in Nat /\ DOMAIN view = 1..Len(view)
        BY DEF TypeOK
      <4>2. view' \in [1..Len(view) -> Shown]
        BY <3>1, <3>2, <4>1
      <4>. QED
        BY <4>1, <4>2, SeqOfFunction
    <3>4. /\ NoDuplicates'
          /\ \A k : k # m => Entries(k)' = Entries(k)
          /\ Entries(m) = {} => Entries(m)' = {}
      BY <3>2, EntryReplaced
    <3>5. \A s, t : /\ Entries(m) = {s}
                    /\ \A i \in DOMAIN view : view[i] = s => view'[i] = t
                    => Entries(m)' = {t}
      BY <3>2, EntryReplaced
    <3>6. ASSUME NEW s, Entries(m) = {s} PROVE Entries(m)' = {s0}
      <4>1. s.id = m
        BY <3>6, EntryIs
      <4>2. \A i \in DOMAIN view : view[i] = s => view'[i] = s0
        BY <3>1, <4>1
      <4>. QED
        BY <3>5, <3>6, <4>2
    <3>. QED
      BY <3>1, <3>2, <3>3, <3>4, <3>6
  <2>. QED
    BY <1>1, <2>1, <2>2, <2>3
<1>10. ASSUME TypeOK', m \in InChat(open) \ excused' PROVE Follows(m)'
  BY <1>1, <1>2, <1>3, <1>9, <1>10, TextDone DEF s0
<1>. QED
  BY <1>1, <1>2, <1>5, <1>6, <1>7, <1>9, <1>10, PassKept DEF TypeOK


-----------------------------------------------------------------------------
(* The fetches.                                                            *)

LEMMA NothingMoved ==
  ASSUME UNCHANGED <<req, inbox, handlers>>
  PROVE  /\ \A e : e \in Flying' <=> e \in Flying
         /\ \A k : SameEvents(k) /\ SameCalls(k) /\ (Busy(k)' <=> Busy(k))
<1>1. \A e : e \in Flying' <=> e \in Flying
  BY FlyingIs
<1>2. \A k : SameEvents(k)
  BY <1>1 DEF SameEvents, InOnePlace, Posts, Reacts
<1>. QED
  BY <1>1, <1>2, CallsUntouched, BusyKept

(* A step of one fetch leaves the others, and what is stored and on its    *)
(* way, alone.                                                             *)
LEMMA LoadKept ==
  ASSUME ViewInv, NEW f \in Fetches, NEW x \in FetchCall, fetch' = [fetch EXCEPT ![f] = x],
         UNCHANGED <<row, reacted, req, inbox, handlers>>,
         open' \in Chats, view' \in Seq(Shown), excused' \in SUBSET Ids,
         \A i \in DOMAIN view' :
           row[view'[i].id] # NoRow \/ \E j \in DOMAIN view : view'[i].id = view[j].id,
         ReadRight(f)'
  PROVE  TypeOK' /\ OnlyKnown' /\ FetchFollows'
<1>. USE DEF ViewInv
<1>1. TypeOK'
  BY DEF TypeOK
<1>2. \A g \in Fetches \ {f} : fetch'[g] = fetch[g]
  OBVIOUS
<1>3. OnlyKnown'
  <2>1. RowsStay
    BY DEF RowsStay, Known
  <2>. QED
    BY <1>1, <2>1, NothingMoved, KnownKept
<1>4. ASSUME NEW g \in Fetches \ {f} PROVE ReadRight(g)'
  <2>1. ReadRight(g) /\ fetch'[g] = fetch[g]
    BY <1>2 DEF FetchFollows
  <2>2. \A m, w : Found(g, m, w)' <=> Found(g, m, w)
    BY <2>1 DEF Found, Read
  <2>3. \A m : (Busy(m)' <=> Busy(m)) /\ (Known(m)' <=> Known(m)) /\ InChat(m)' = InChat(m)
    BY NothingMoved DEF Known, InChat
  <2>4. ASSUME fetch'[g].pc \in {"hydrate", "set"},
               NEW i \in DOMAIN fetch'[g].rows, NEW j \in DOMAIN fetch'[g].rows
        PROVE  /\ Known(fetch[g].rows[i].id)'
               /\ fetch'[g].rows[i].id = fetch'[g].rows[j].id => i = j
    BY <2>1, <2>4 DEF ReadRight, Known
  <2>5. ASSUME fetch'[g] # NoFetch, NEW m \in InChat(fetch'[g].chat) \ fetch'[g].dirty
        PROVE  /\ ~Busy(m)'
               /\ fetch'[g].pc = "hydrate" => Found(g, m, [id |-> m, ver |-> row[m].ver])'
               /\ fetch'[g].pc = "set" =>
                    Found(g, m, [id |-> m, ver |-> row[m].ver, by |-> reacted[m]])'
    <3>1. /\ ~Busy(m)
          /\ fetch[g].pc = "hydrate" => Found(g, m, [id |-> m, ver |-> row[m].ver])
          /\ fetch[g].pc = "set" => Found(g, m, [id |-> m, ver |-> row[m].ver, by |-> reacted[m]])
      BY <2>1, <2>5 DEF ReadRight, InChat
    <3>. QED
      BY <2>1, <2>3, <3>1 DEF Found, Read
  <2>. QED
    BY <2>4, <2>5 DEF ReadRight, InChat
<1>5. FetchFollows'
  BY <1>4 DEF FetchFollows
<1>. QED
  BY <1>1, <1>3, <1>5

(* Most of these steps leave the page alone as well.                       *)
LEMMA LoadLeaves ==
  ASSUME ViewInv, NEW f \in Fetches, NEW x \in FetchCall, fetch' = [fetch EXCEPT ![f] = x],
         UNCHANGED <<row, reacted, req, inbox, open, view, handlers, excused>>,
         ReadRight(f)'
  PROVE  ViewInv'
<1>. USE DEF ViewInv
<1>1. TypeOK' /\ OnlyKnown' /\ FetchFollows'
  BY LoadKept DEF TypeOK
<1>2. NoDuplicates'
  BY DEF NoDuplicates
<1>3. \A k : Quiet(k)
  BY NothingMoved, EntriesUntouched DEF Quiet, SameRow
<1>. QED
  BY <1>1, <1>2, <1>3, InvKept

(* A fetch that has just been asked for has read nothing.                  *)
LEMMA AskedRight ==
  ASSUME TypeOK, NEW f \in Fetches, NEW c \in Chats, fetch' = [fetch EXCEPT ![f] = Asked(c)],
         UNCHANGED <<req, inbox, handlers>>
  PROVE  Asked(c) \in FetchCall /\ ReadRight(f)'
<1>1. Asked(c) \in FetchCall
  BY DEF Asked, FetchCall, InChat
<1>2. fetch'[f] = Asked(c)
  BY DEF TypeOK
<1>3. fetch'[f].pc = "list" /\ fetch'[f].chat = c
  BY <1>2 DEF Asked
<1>4. \A m \in InChat(c) \ fetch'[f].dirty : ~Busy(m)'
  <2>1. fetch'[f].dirty = {m \in InChat(c) : Busy(m)}
    BY <1>2 DEF Asked
  <2>. QED
    BY <2>1, NothingMoved
<1>. QED
  BY <1>1, <1>3, <1>4 DEF ReadRight, InChat

LEMMA SwitchKeeps ==
  ASSUME ViewInv, NEW f \in Fetches, NEW c \in Chats, Switch(c, f)
  PROVE  ViewInv'
<1>. USE DEF ViewInv
<1>1. /\ open' = c /\ view' = <<>> /\ fetch' = [fetch EXCEPT ![f] = Asked(c)]
      /\ excused' = excused \cup InChat(c)
      /\ UNCHANGED <<row, reacted, req, inbox, handlers>>
  BY DEF Switch, server
<1>2. view' \in Seq(Shown) /\ DOMAIN view' = {} /\ excused' \in SUBSET Ids
  BY <1>1 DEF TypeOK, InChat
<1>3. TypeOK' /\ OnlyKnown' /\ FetchFollows'
  BY <1>1, <1>2, AskedRight, LoadKept
<1>4. NoDuplicates'
  BY <1>2 DEF NoDuplicates
<1>5. ViewFollows'
  BY <1>1 DEF ViewFollows, InChat
<1>. QED
  BY <1>3, <1>4, <1>5

LEMMA RefetchKeeps ==
  ASSUME ViewInv, NEW f \in Fetches, Refetch(f)
  PROVE  ViewInv'
<1>. USE DEF ViewInv
<1>1. /\ fetch' = [fetch EXCEPT ![f] = Asked(open)]
      /\ UNCHANGED <<row, reacted, req, inbox, open, view, handlers, excused>>
  BY DEF Refetch, server
<1>2. Asked(open) \in FetchCall /\ ReadRight(f)'
  BY <1>1, AskedRight DEF TypeOK
<1>. QED
  BY <1>1, <1>2, LoadLeaves

LEMMA FetchFailsKeeps ==
  ASSUME ViewInv, NEW f \in Fetches, FetchFails(f)
  PROVE  ViewInv'
<1>. USE DEF ViewInv
<1>1. /\ fetch' = [fetch EXCEPT ![f] = NoFetch]
      /\ UNCHANGED <<row, reacted, req, inbox, open, view, handlers, excused>>
  BY DEF FetchFails, server
<1>2. NoFetch \in FetchCall /\ fetch'[f] = NoFetch
  BY <1>1 DEF FetchCall, TypeOK
<1>3. ReadRight(f)'
  BY <1>2 DEF ReadRight, NoFetch
<1>. QED
  BY <1>1, <1>2, <1>3, LoadLeaves


LEMMA FetchListKeeps ==
  ASSUME ViewInv, NEW f \in Fetches, FetchList(f)
  PROVE  ViewInv'
<1>. USE DEF ViewInv
<1>1. fetch[f].pc = "list" /\ fetch[f] \in FetchCall /\ ReadRight(f)
  BY DEF FetchList, TypeOK, FetchFollows
<1>2. fetch[f] \in [pc : {"list"}, chat : Chats, dirty : SUBSET Ids] /\ fetch[f] # NoFetch
  BY <1>1, FetchShapes DEF NoFetch
<1>. PICK c \in Chats, dirty \in SUBSET Ids : c = fetch[f].chat /\ dirty = fetch[f].dirty
  BY <1>2
<1>ms. PICK ms : ms = {m \in InChat(c) : row[m].state = "sent"}
  OBVIOUS
<1>found. PICK found : found = InOrder(ms)
  OBVIOUS
<1>rows. PICK rows : rows = [i \in DOMAIN found |-> [id |-> found[i], ver |-> row[found[i]].ver]]
  OBVIOUS
<1>x. PICK x : x = [pc |-> "hydrate", chat |-> c, dirty |-> dirty, rows |-> rows]
  OBVIOUS
<1>3. /\ fetch' = [fetch EXCEPT ![f] = x]
      /\ UNCHANGED <<row, reacted, req, inbox, open, view, handlers, excused>>
  BY <1>ms, <1>found, <1>rows, <1>x DEF FetchList, server
<1>4. ms \in SUBSET Ids /\ ms \in SUBSET Nat /\ IsFiniteSet(ms)
  BY <1>ms, ViewConstants, FS_Subset DEF InChat
<1>5. /\ DOMAIN found = 1..Cardinality(ms) /\ Cardinality(ms) \in Nat
      /\ \A i \in DOMAIN found : found[i] \in ms
      /\ \A i, j \in DOMAIN found : found[i] = found[j] => i = j
      /\ \A m \in ms : \E i \in DOMAIN found : found[i] = m
  <2>1. /\ DOMAIN InOrder(ms) = 1..Cardinality(ms) /\ Cardinality(ms) \in Nat
        /\ \A i \in DOMAIN InOrder(ms) : InOrder(ms)[i] \in ms
        /\ \A i, j \in DOMAIN InOrder(ms) : InOrder(ms)[i] = InOrder(ms)[j] => i = j
        /\ \A m \in ms : \E i \in DOMAIN InOrder(ms) : InOrder(ms)[i] = m
    BY <1>4, InOrderShape
  <2>. QED
    BY <1>found, <2>1
<1>6. /\ DOMAIN rows = DOMAIN found
      /\ \A i \in DOMAIN rows : /\ rows[i] = [id |-> found[i], ver |-> row[found[i]].ver]
                                /\ rows[i].id = found[i] /\ found[i] \in ms
                                /\ rows[i] \in [id : Ids, ver : Nat]
  <2>1. \A m \in ms : row[m].ver \in Nat
    BY <1>4, RowShapes DEF TypeOK
  <2>. QED
    BY <1>4, <1>5, <1>rows, <2>1
<1>7. rows \in Seq([id : Ids, ver : Nat])
  <2>1. rows = [i \in 1..Cardinality(ms) |-> rows[i]]
    BY <1>5, <1>rows
  <2>2. \A i \in 1..Cardinality(ms) : rows[i] \in [id : Ids, ver : Nat]
    BY <1>5, <1>6
  <2>3. rows \in [1..Cardinality(ms) -> [id : Ids, ver : Nat]]
    BY <2>1, <2>2
  <2>. QED
    BY <1>5, <2>3, SeqOfFunction
<1>8. x \in FetchCall /\ fetch'[f] = x
  BY <1>3, <1>7, <1>x DEF FetchCall, TypeOK
<1>9. /\ fetch'[f].pc = "hydrate" /\ fetch'[f].chat = c
      /\ fetch'[f].dirty = dirty /\ fetch'[f].rows = rows
  BY <1>8, <1>x
<1>10. ASSUME NEW i \in DOMAIN rows, NEW j \in DOMAIN rows
       PROVE  Known(rows[i].id)' /\ (rows[i].id = rows[j].id => i = j)
  <2>1. row[rows[i].id] # NoRow
    BY <1>6, <1>ms DEF NoRow
  <2>2. Known(rows[i].id)' <=> row'[rows[i].id] # NoRow
    BY DEF Known
  <2>. QED
    BY <1>3, <1>5, <1>6, <2>1, <2>2
<1>11. ASSUME NEW m \in InChat(c) \ dirty
       PROVE  ~Busy(m)' /\ Found(f, m, [id |-> m, ver |-> row[m].ver])'
  <2>1. ~Busy(m)'
    BY <1>1, <1>2, <1>3, NothingMoved DEF ReadRight
  <2>2. \A w : w \in Read(f, m)' <=> w.id = m /\ \E i \in DOMAIN rows : rows[i] = w
    <3>1. Read(f, m)' = {w \in Range(rows) : w.id = m}
      BY <1>9 DEF Read
    <3>. QED
      BY <3>1 DEF Range
  <2>3. CASE row[m].state = "sent"
    <3>1. PICK i \in DOMAIN rows : found[i] = m
      BY <1>5, <1>6, <1>ms, <2>3
    <3>2. rows[i] = [id |-> m, ver |-> row[m].ver]
      BY <1>6, <3>1
    <3>3. \A j \in DOMAIN rows : rows[j].id = m => j = i
      BY <1>6, <1>10, <3>1
    <3>4. \A w : w \in Read(f, m)' <=> w = [id |-> m, ver |-> row[m].ver]
      BY <2>2, <3>2, <3>3
    <3>. QED
      BY <1>3, <2>1, <2>3, <3>4 DEF Found
  <2>4. CASE row[m].state # "sent"
    <3>1. \A i \in DOMAIN rows : rows[i].id # m
      BY <1>6, <1>ms, <2>4
    <3>2. \A w : w \notin Read(f, m)'
      BY <2>2, <3>1
    <3>. QED
      BY <1>3, <2>1, <2>4, <3>2 DEF Found
  <2>. QED
    BY <2>3, <2>4
<1>12. ReadRight(f)'
  BY <1>9, <1>10, <1>11 DEF ReadRight, InChat
<1>. QED
  BY <1>3, <1>8, <1>12, LoadLeaves

LEMMA FetchHydrateKeeps ==
  ASSUME ViewInv, NEW f \in Fetches, FetchHydrate(f)
  PROVE  ViewInv'
<1>. USE DEF ViewInv
<1>1. fetch[f].pc = "hydrate" /\ fetch[f] \in FetchCall /\ ReadRight(f)
  BY DEF FetchHydrate, TypeOK, FetchFollows
<1>2. /\ fetch[f] \in [pc : {"hydrate"}, chat : Chats, dirty : SUBSET Ids,
                       rows : Seq([id : Ids, ver : Nat])]
      /\ fetch[f] # NoFetch
  BY <1>1, FetchShapes DEF NoFetch
<1>. PICK c \in Chats, dirty \in SUBSET Ids, rows \in Seq([id : Ids, ver : Nat]) :
       c = fetch[f].chat /\ dirty = fetch[f].dirty /\ rows = fetch[f].rows
  BY <1>2
<1>later. PICK later : later = [i \in DOMAIN rows |->
                    [id |-> rows[i].id, ver |-> rows[i].ver, by |-> reacted[rows[i].id]]]
  OBVIOUS
<1>x. PICK x : x = [pc |-> "set", chat |-> c, dirty |-> dirty, rows |-> later]
  OBVIOUS
<1>3. /\ fetch' = [fetch EXCEPT ![f] = x]
      /\ UNCHANGED <<row, reacted, req, inbox, open, view, handlers, excused>>
  BY <1>later, <1>x DEF FetchHydrate, server
<1>4. /\ DOMAIN rows = 1..Len(rows) /\ Len(rows) \in Nat
      /\ \A i \in DOMAIN rows : /\ rows[i] = [id |-> rows[i].id, ver |-> rows[i].ver]
                                /\ rows[i].id \in Ids /\ rows[i].ver \in Nat
  <2>1. \A i \in DOMAIN rows : rows[i] \in [id : Ids, ver : Nat]
    BY SeqElement
  <2>. QED
    BY <2>1
<1>5. /\ DOMAIN later = DOMAIN rows
      /\ \A i \in DOMAIN rows :
           /\ later[i] = [id |-> rows[i].id, ver |-> rows[i].ver, by |-> reacted[rows[i].id]]
           /\ later[i].id = rows[i].id
           /\ later[i] \in Wire
  BY <1>4, <1>later DEF TypeOK, Wire
<1>6. later \in Seq(Wire)
  <2>1. later \in [1..Len(rows) -> Wire]
    BY <1>4, <1>5, <1>later
  <2>. QED
    BY <1>4, <2>1, SeqOfFunction
<1>7. x \in FetchCall /\ fetch'[f] = x
  BY <1>3, <1>6, <1>x DEF FetchCall, TypeOK
<1>8. /\ fetch'[f].pc = "set" /\ fetch'[f].chat = c
      /\ fetch'[f].dirty = dirty /\ fetch'[f].rows = later
  BY <1>7, <1>x
<1>9. ASSUME NEW i \in DOMAIN later, NEW j \in DOMAIN later
      PROVE  Known(later[i].id)' /\ (later[i].id = later[j].id => i = j)
  <2>1. Known(rows[i].id) /\ (rows[i].id = rows[j].id => i = j)
    BY <1>1, <1>5 DEF ReadRight
  <2>2. Known(later[i].id)' <=> row'[later[i].id] # NoRow
    BY DEF Known
  <2>. QED
    BY <1>3, <1>5, <2>1, <2>2 DEF Known
<1>10. ASSUME NEW m \in InChat(c) \ dirty
       PROVE  ~Busy(m)' /\ Found(f, m, [id |-> m, ver |-> row[m].ver, by |-> reacted[m]])'
  <2>1. ~Busy(m)'
    BY <1>1, <1>2, <1>3, NothingMoved DEF ReadRight
  <2>2. \A w : w \in Read(f, m)' <=> w.id = m /\ \E i \in DOMAIN later : later[i] = w
    <3>1. Read(f, m)' = {w \in Range(later) : w.id = m}
      BY <1>8 DEF Read
    <3>. QED
      BY <3>1 DEF Range
  <2>3. \A w : w \in Read(f, m) <=> w.id = m /\ \E i \in DOMAIN rows : rows[i] = w
    BY DEF Read, Range
  <2>4. Found(f, m, [id |-> m, ver |-> row[m].ver])
    BY <1>1, <1>2 DEF ReadRight
  <2>5. CASE row[m].state = "sent"
    <3>1. \A w : w \in Read(f, m) <=> w = [id |-> m, ver |-> row[m].ver]
      BY <2>4, <2>5 DEF Found
    <3>2. PICK i \in DOMAIN rows : rows[i] = [id |-> m, ver |-> row[m].ver]
      BY <2>3, <3>1
    <3>3. /\ later[i] = [id |-> m, ver |-> row[m].ver, by |-> reacted[m]]
          /\ later[i].id = m /\ i \in DOMAIN later
      BY <1>5, <3>2
    <3>4. \A j \in DOMAIN later : later[j].id = m => j = i
      BY <1>9, <3>3
    <3>5. \A w : w \in Read(f, m)' <=> w = [id |-> m, ver |-> row[m].ver, by |-> reacted[m]]
      BY <1>5, <2>2, <3>3, <3>4
    <3>. QED
      BY <1>3, <2>1, <2>5, <3>5 DEF Found
  <2>6. CASE row[m].state # "sent"
    <3>1. Read(f, m) = {}
      BY <2>4, <2>6 DEF Found
    <3>2. \A i \in DOMAIN rows : rows[i].id # m
      BY <2>3, <3>1
    <3>3. \A i \in DOMAIN later : later[i].id # m
      BY <1>5, <3>2
    <3>4. \A w : w \notin Read(f, m)'
      BY <2>2, <3>3
    <3>. QED
      BY <1>3, <2>1, <2>6, <3>4 DEF Found
  <2>. QED
    BY <2>5, <2>6
<1>11. ReadRight(f)'
  BY <1>8, <1>9, <1>10 DEF ReadRight, InChat
<1>. QED
  BY <1>3, <1>7, <1>11, LoadLeaves


LEMMA FetchSetKeeps ==
  ASSUME ViewInv, NEW f \in Fetches, FetchSet(f)
  PROVE  ViewInv'
<1>. USE DEF ViewInv
<1>1. /\ fetch[f].pc = "set" /\ fetch[f] \in FetchCall /\ ReadRight(f)
      /\ fetch' = [fetch EXCEPT ![f] = NoFetch]
      /\ UNCHANGED <<row, reacted, req, inbox, open, handlers>>
  BY DEF FetchSet, server, TypeOK, FetchFollows
<1>2. /\ fetch[f] \in [pc : {"set"}, chat : Chats, dirty : SUBSET Ids, rows : Seq(Wire)]
      /\ fetch[f] # NoFetch
  BY <1>1, FetchShapes DEF NoFetch
<1>3. NoFetch \in FetchCall /\ fetch'[f] = NoFetch
  BY <1>1 DEF FetchCall, TypeOK
<1>4. ReadRight(f)'
  BY <1>3 DEF ReadRight, NoFetch
<1>5. CASE ~StillOpen(f)
  <2>1. UNCHANGED <<view, excused>>
    BY <1>5 DEF FetchSet
  <2>. QED
    BY <1>1, <1>3, <1>4, <2>1, LoadLeaves
<1>6. CASE StillOpen(f)
  <2>. PICK rows \in Seq(Wire), dirty \in SUBSET Ids :
         rows = fetch[f].rows /\ dirty = fetch[f].dirty
    BY <1>2
  <2>1. /\ open = fetch[f].chat
        /\ view' = [i \in DOMAIN fetch[f].rows |-> Aggregated(fetch[f].rows[i])]
        /\ excused' = (excused \ InChat(open)) \cup dirty
    BY <1>6 DEF FetchSet, StillOpen
  <2>2. /\ DOMAIN rows = 1..Len(rows) /\ Len(rows) \in Nat
        /\ \A i \in DOMAIN rows : rows[i] \in Wire
    BY SeqElement
  <2>3. \A i \in DOMAIN rows : Aggregated(rows[i]) \in Shown /\ Aggregated(rows[i]).id = rows[i].id
    <3>1. ASSUME NEW w \in Wire PROVE Aggregated(w) \in Shown /\ Aggregated(w).id = w.id
      <4>1. w.id \in Ids /\ w.ver \in Nat /\ w.by \in SUBSET Users
        BY DEF Wire
      <4>2. Cardinality(w.by) \in Nat
        BY <4>1, ViewConstants, FS_Subset, FS_CardinalityType
      <4>. QED
        BY <4>1, <4>2 DEF Shown, Aggregated, Reacted
    <3>. QED
      BY <2>2, <3>1
  <2>4. view' = [i \in DOMAIN rows |-> Aggregated(rows[i])]
    BY <2>1
  <2>5. view' \in Seq(Shown)
    <3>1. view' \in [1..Len(rows) -> Shown]
      BY <2>2, <2>3, <2>4
    <3>. QED
      BY <2>2, <3>1, SeqOfFunction
  <2>6. \A i, j \in DOMAIN rows :
          /\ row[rows[i].id] # NoRow
          /\ rows[i].id = rows[j].id => i = j
    BY <1>1 DEF ReadRight, Known
  <2>7. DOMAIN view' = DOMAIN rows /\ \A i \in DOMAIN rows : view'[i].id = rows[i].id
    BY <2>3, <2>4
  <2>8. NoDuplicates'
    BY <2>6, <2>7 DEF NoDuplicates
  <2>9. excused' \in SUBSET Ids
    BY <2>1 DEF TypeOK
  <2>10. TypeOK' /\ OnlyKnown' /\ FetchFollows'
    <3>1. \A i \in DOMAIN view' : row[view'[i].id] # NoRow
      BY <2>6, <2>7
    <3>2. open' \in Chats
      BY <1>1 DEF TypeOK
    <3>. QED
      BY <1>1, <1>3, <1>4, <2>5, <2>9, <3>1, <3>2, LoadKept
  <2>11. ASSUME NEW m \in InChat(open) \ excused'
         PROVE  Follows(m)'
    <3>1. m \in Ids /\ m \in InChat(fetch[f].chat) \ fetch[f].dirty
      BY <2>1, <2>11 DEF InChat
    <3>2. ~Busy(m) /\ Found(f, m, [id |-> m, ver |-> row[m].ver, by |-> reacted[m]])
      BY <1>1, <1>2, <3>1 DEF ReadRight
    <3>3. ~Busy(m)' /\ row' = row /\ reacted' = reacted
      BY <1>1, <3>2, NothingMoved
    <3>4. /\ \A k : Read(f, k) = {} => Entries(k)' = {}
          /\ \A k, w : Read(f, k) = {w} => Entries(k)' = {Aggregated(w)}
      BY <1>1, <2>1, EntriesFetched
    <3>5. CASE row[m].state = "sent"
      <4>. PICK w : w = [id |-> m, ver |-> row[m].ver, by |-> reacted[m]]
        OBVIOUS
      <4>1. Entries(m)' = {Aggregated(w)}
        BY <3>2, <3>4, <3>5 DEF Found
      <4>2. Aggregated(w) = Expected(m)'
        BY <3>3 DEF Aggregated, Reacted, Expected, ShownWith
      <4>. QED
        BY <2>10, <3>1, <3>3, <3>5, <4>1, <4>2, Settled
    <3>6. CASE row[m].state # "sent"
      <4>1. Entries(m)' = {}
        BY <3>2, <3>4, <3>6 DEF Found
      <4>2. ~NewFlying(m)'
        BY <2>10, <3>3, BusyIs, NewFlyingIs
      <4>3. row[m] = NoRow \/ row[m].state = "deleted"
        BY <3>1, <3>6, RowShapes DEF TypeOK
      <4>4. row[m] = NoRow => Unsent(m)'
        BY <3>3, <4>1 DEF Unsent
      <4>5. row[m].state = "deleted" => Gone(m)'
        BY <3>3, <4>1, <4>2 DEF Gone
      <4>. QED
        BY <4>3, <4>4, <4>5 DEF Follows
    <3>. QED
      BY <3>5, <3>6
  <2>12. ViewFollows'
    BY <1>1, <2>11 DEF ViewFollows, InChat
  <2>. QED
    BY <2>8, <2>10, <2>12
<1>. QED
  BY <1>5, <1>6

-----------------------------------------------------------------------------
LEMMA InitKeeps == Init => ViewInv
<1>. SUFFICES ASSUME Init PROVE ViewInv
  OBVIOUS
<1>1. /\ row = [m \in Ids |-> NoRow] /\ reacted = [m \in Ids |-> {}]
      /\ req = [r \in Requests |-> Idle]
      /\ inbox = <<>> /\ open = Home /\ view = <<>> /\ handlers = {}
      /\ fetch = [f \in Fetches |-> NoFetch] /\ excused = InChat(Home)
  BY DEF Init
<1>2. TypeOK
  <2>1. NoRow \in Row /\ Idle \in Call /\ NoFetch \in FetchCall
    BY DEF Row, Call, FetchCall
  <2>. QED
    BY <1>1, <2>1, ViewConstants DEF TypeOK, InChat
<1>3. \A e : e \notin Flying
  BY <1>1, IdleIsCall, FlyingIs
<1>4. OnlyKnown
  BY <1>1, <1>3, IdleIsCall DEF OnlyKnown
<1>5. NoDuplicates
  BY <1>1 DEF NoDuplicates
<1>6. FetchFollows
  BY <1>1 DEF FetchFollows, ReadRight, NoFetch
<1>7. ViewFollows
  BY <1>1 DEF ViewFollows
<1>. QED
  BY <1>2, <1>4, <1>5, <1>6, <1>7 DEF ViewInv

LEMMA StepKeeps == ViewInv /\ [Next]_vars => ViewInv'
<1>. SUFFICES ASSUME ViewInv, [Next]_vars PROVE ViewInv'
  OBVIOUS
<1>1. ASSUME NEW r \in Requests, Serve(r) PROVE ViewInv'
  BY <1>1, SendKeeps, UpdateFindKeeps, UpdateWriteKeeps, UpdateHydrateKeeps, DeleteKeeps,
     ReactionKeeps, PublishKeeps, PublishLostKeeps DEF Serve
<1>2. ASSUME Handle PROVE ViewInv'
  BY <1>2, MessageKeeps, DeletedKeeps, ReactionHeardKeeps, HandlerKeeps DEF Handle
<1>3. ASSUME NEW f \in Fetches, Load(f) PROVE ViewInv'
  BY <1>3, SwitchKeeps, RefetchKeeps, FetchListKeeps, FetchHydrateKeeps, FetchSetKeeps,
     FetchFailsKeeps DEF Load
<1>4. CASE UNCHANGED vars
  <2>1. UNCHANGED <<row, reacted, req, inbox, open, view, handlers, fetch, excused>>
    BY <1>4 DEF vars, server, client
  <2>2. /\ TypeOK' /\ NoDuplicates'
        /\ FetchesGoOn /\ RowsStay /\ \A k : SameRow(k)
    BY <2>1 DEF ViewInv, TypeOK, NoDuplicates, FetchesGoOn, RowsStay, SameRow, Known
  <2>3. /\ \A e : e \in Flying' <=> e \in Flying
        /\ \A k : SameEvents(k) /\ SameCalls(k) /\ (Busy(k)' <=> Busy(k))
    BY <2>1, NothingMoved
  <2>4. OnlyKnown'
    BY <2>1, <2>2, <2>3, KnownKept DEF ViewInv
  <2>5. FetchFollows'
    BY <2>2, <2>3, FetchKept DEF ViewInv
  <2>6. \A k : Quiet(k)
    BY <2>1, <2>2, <2>3, EntriesUntouched DEF Quiet
  <2>. QED
    BY <2>1, <2>2, <2>4, <2>5, <2>6, InvKept
<1>. QED
  BY <1>1, <1>2, <1>3, <1>4 DEF Next

(* What a page shows of a chat, what is stored of it and what is on its    *)
(* way belong together at every moment, whatever the order of calls,       *)
(* events and fetches: ViewInv is inductive.                               *)
THEOREM ViewInvariant == Spec => []ViewInv
<1>. QED
  BY InitKeeps, StepKeeps, PTL DEF Spec

(* However a fetch and the event of its sending race, onMessageNew never   *)
(* puts a message on the page a second time.                               *)
THEOREM NoDuplicatesEver == Spec => []NoDuplicates
<1>1. ViewInv => NoDuplicates
  BY DEF ViewInv
<1>. QED
  BY <1>1, ViewInvariant, PTL

(* A message about which nothing is on its way stands as it is stored.     *)
LEMMA RestAgrees ==
  ASSUME TypeOK, NEW m \in Ids, Follows(m), ~Busy(m)
  PROVE  Entries(m) = IF row[m].state = "sent" THEN {Expected(m)} ELSE {}
<1>1. \A e \in Flying : About(e) # m
  BY BusyIs
<1>2. ~NewFlying(m) /\ ~TextFlying(m)
  BY <1>1, BusyIs, NewFlyingIs, TextFlyingIs
<1>3. CASE Unsent(m)
  BY <1>3 DEF Unsent, NoRow
<1>4. CASE Reacting(m)
  <2>1. Adding(m) = {} /\ Removing(m) = {}
    BY <1>1, EventsMade DEF Adding, Removing
  <2>. QED
    BY <1>4, <2>1 DEF Reacting, Expected
<1>5. CASE Gone(m)
  BY <1>1, <1>5, EventsMade DEF Gone
<1>. QED
  BY <1>2, <1>3, <1>4, <1>5 DEF Follows, Arriving, Rewriting

(* Once nothing about a message is on its way, the page of its chat shows  *)
(* it exactly as the communication-service has stored it.                  *)
THEOREM PageAgrees == Spec => []ViewAgrees
<1>1. ViewInv => ViewAgrees
  <2>. SUFFICES ASSUME ViewInv, NEW m \in InChat(open) \ excused, ~Busy(m)
                PROVE  Entries(m) = IF row[m].state = "sent" THEN {Expected(m)} ELSE {}
    BY DEF ViewAgrees
  <2>1. m \in Ids /\ Follows(m) /\ TypeOK
    BY DEF ViewInv, ViewFollows, InChat
  <2>. QED
    BY <2>1, RestAgrees
<1>. QED
  BY <1>1, ViewInvariant, PTL
=============================================================================
