----------------------------- MODULE MessagesProofs -----------------------------
(* Proofs about Messages, for every value of its constants.                *)
EXTENDS Messages, FiniteSetTheorems, TLAPS

-----------------------------------------------------------------------------
(* Typing.                                                                 *)

(* What a call carries, by where it is.                                    *)
LEMMA CallFields ==
  ASSUME NEW c \in Call
  PROVE  /\ c # Idle => c.user \in Users
         /\ c.pc = "send_insert" => c.at \in Times
         /\ c.pc \in {"send_list", "send_status", "delete_member", "delete_update", "mark_select"}
              => c.id \in Ids
         /\ c.pc = "send_status" => c.list \in SUBSET Users
         /\ c.pc \in {"mark_select", "mark_update"} => c.due \in SUBSET Ids
         /\ c.pc = "mark_update" => c.ids \in SUBSET Ids
         /\ c.pc \in {"walk_member", "walk_page", "walk_end"} =>
              /\ c.before \in SUBSET Ids /\ c.due \in SUBSET Ids /\ c.cut \in SUBSET Ids
              /\ c \in WalkCall
         /\ c.pc \in {"delete_member", "delete_update"} => c \in DeleteCall
         /\ c.pc = "idle" <=> c = Idle
<1>1. CASE c = Idle
  BY <1>1 DEF Idle
<1>2. CASE c \in SendCall
  BY <1>2 DEF SendCall, Idle
<1>3. CASE c \in DeleteCall
  BY <1>3 DEF DeleteCall, Idle
<1>4. CASE c \in MarkCall
  BY <1>4 DEF MarkCall, Idle
<1>5. CASE c \in WalkCall
  BY <1>5 DEF WalkCall, Idle
<1>. QED
  BY <1>1, <1>2, <1>3, <1>4, <1>5 DEF Call

WalkRecord(pc, user, before, due, cut) ==
  [pc |-> pc, user |-> user, before |-> before, due |-> due, cut |-> cut]

LEMMA WalkFields ==
  ASSUME NEW c \in WalkCall
  PROVE  /\ c = WalkRecord(c.pc, c.user, c.before, c.due, c.cut)
         /\ \A pc \in {"walk_member", "walk_page", "walk_end"} :
              /\ [c EXCEPT !.pc = pc] \in WalkCall
              /\ [c EXCEPT !.pc = pc] = WalkRecord(pc, c.user, c.before, c.due, c.cut)
         /\ \A due \in SUBSET Ids :
              /\ [c EXCEPT !.due = due] \in WalkCall
              /\ [c EXCEPT !.due = due] = WalkRecord(c.pc, c.user, c.before, due, c.cut)
         /\ \A before \in SUBSET Ids :
              /\ [c EXCEPT !.before = before] \in WalkCall
              /\ [c EXCEPT !.before = before] = WalkRecord(c.pc, c.user, before, c.due, c.cut)
         /\ \A cut \in SUBSET Ids :
              /\ [c EXCEPT !.cut = cut] \in WalkCall
              /\ [c EXCEPT !.cut = cut] = WalkRecord(c.pc, c.user, c.before, c.due, cut)
         /\ c.due \in SUBSET Ids /\ c.before \in SUBSET Ids /\ c.cut \in SUBSET Ids
BY DEF WalkCall, WalkRecord

LEMMA WalkTwice ==
  ASSUME NEW c \in WalkCall, NEW page \in SUBSET Ids, NEW pc \in {"walk_member", "walk_end"}
  PROVE  /\ [c EXCEPT !.pc = pc, !.due = @ \ page] \in WalkCall
         /\ [c EXCEPT !.pc = pc, !.due = @ \ page]
              = WalkRecord(pc, c.user, c.before, c.due \ page, c.cut)
<1>1. PICK d \in WalkCall : d = [c EXCEPT !.pc = pc]
  BY WalkFields
<1>2. d = WalkRecord(pc, c.user, c.before, c.due, c.cut)
  BY <1>1, WalkFields
<1>3. d.due \ page \in SUBSET Ids
  BY WalkFields
<1>4. /\ [d EXCEPT !.due = d.due \ page] \in WalkCall
      /\ [d EXCEPT !.due = d.due \ page] = WalkRecord(d.pc, d.user, d.before, d.due \ page, d.cut)
  BY <1>3, WalkFields
<1>5. [c EXCEPT !.pc = pc, !.due = @ \ page] = [d EXCEPT !.due = d.due \ page]
  BY <1>1
<1>. QED
  BY <1>2, <1>4, <1>5 DEF WalkRecord

LEMMA WalkOn ==
  ASSUME NEW c \in WalkCall, NEW page \in SUBSET Ids, NEW last \in Ids
  PROVE  LET next == [c EXCEPT !.pc = "walk_member", !.due = @ \ page,
                               !.before = {last}, !.cut = @ \cup {last}] IN
         /\ next \in WalkCall
         /\ next = WalkRecord("walk_member", c.user, {last}, c.due \ page, c.cut \cup {last})
<1>. DEFINE next == [c EXCEPT !.pc = "walk_member", !.due = @ \ page,
                              !.before = {last}, !.cut = @ \cup {last}]
<1>1. PICK d \in WalkCall : d = [c EXCEPT !.pc = "walk_member", !.due = @ \ page]
  BY WalkTwice
<1>2. d = WalkRecord("walk_member", c.user, c.before, c.due \ page, c.cut)
  BY <1>1, WalkTwice
<1>3. PICK before \in SUBSET Ids : before = {last}
  OBVIOUS
<1>4. PICK e \in WalkCall : e = [d EXCEPT !.before = before]
  BY WalkFields
<1>5. e = WalkRecord(d.pc, d.user, before, d.due, d.cut)
  BY <1>4, WalkFields
<1>6. PICK cut \in SUBSET Ids : cut = e.cut \cup {last}
  BY WalkFields
<1>7. /\ [e EXCEPT !.cut = cut] \in WalkCall
      /\ [e EXCEPT !.cut = cut] = WalkRecord(e.pc, e.user, e.before, e.due, cut)
  BY WalkFields
<1>8. next = [e EXCEPT !.cut = cut]
  BY <1>1, <1>3, <1>4, <1>6
<1>. QED
  BY <1>2, <1>3, <1>5, <1>6, <1>7, <1>8 DEF WalkRecord

(* A deletion in its second statement.                                     *)
LEMMA DeleteMoves ==
  ASSUME NEW c \in DeleteCall
  PROVE  /\ [c EXCEPT !.pc = "delete_update"] \in Call
         /\ [c EXCEPT !.pc = "delete_update"].pc = "delete_update"
         /\ [c EXCEPT !.pc = "delete_update"].id = c.id
BY DEF DeleteCall, Call

LEMMA BecomeFacts ==
  ASSUME TypeOK, NEW r \in Requests, NEW call \in Call, Become(r, call)
  PROVE  /\ req' \in [Requests -> Call]
         /\ req'[r] = call /\ \A q \in Requests \ {r} : req'[q] = req[q]
BY DEF Become, TypeOK

(* What the statements of a call do to the call itself.                    *)
LEMMA SendFacts ==
  ASSUME TypeOK, NEW r \in Requests,
         SendCheck(r) \/ SendCreate(r) \/ SendInsert(r) \/ SendGivenUp(r) \/ SendList(r)
           \/ SendStatuses(r)
  PROVE  \E call \in Call :
           /\ Become(r, call)
           /\ call.pc \in {"idle", "send_create", "send_insert", "send_list", "send_status"}
           /\ SendInsert(r) => /\ call.pc = "send_list" /\ NoMessage(call.id)
                               /\ req[r].user \in Users /\ req[r].at \in Times
                               /\ message' = [message EXCEPT ![call.id] =
                                    [state |-> "sent", at |-> req[r].at, sender |-> req[r].user]]
           /\ call.pc = "send_list" => SendInsert(r)
           /\ call.pc = "send_status" => At(r, "send_list") /\ call.id = req[r].id
<1>. USE DEF At, Call, SendCall
<1>0. req[r] \in Call
  BY DEF TypeOK
<1>1. CASE SendCheck(r)
  <2>1. PICK u \in active : Become(r, [pc |-> "send_create", user |-> u])
    BY <1>1 DEF SendCheck, Arrive
  <2>2. [pc |-> "send_create", user |-> u] \in Call
    BY DEF TypeOK
  <2>. QED
    BY <1>1, <2>1, <2>2 DEF SendCheck, SendInsert, Arrive, Idle
<1>2. CASE SendCreate(r)
  <2>1. [pc |-> "send_insert", user |-> req[r].user, at |-> clock] \in Call
    BY <1>0, <1>2, CallFields DEF SendCreate, TypeOK, Idle
  <2>. QED
    BY <1>2, <2>1 DEF SendCreate, SendInsert
<1>3. CASE SendInsert(r)
  <2>1. PICK m \in Ids : /\ NoMessage(m)
                         /\ message' = [message EXCEPT ![m] =
                              [state |-> "sent", at |-> req[r].at, sender |-> req[r].user]]
                         /\ Become(r, [pc |-> "send_list", user |-> req[r].user, id |-> m])
    BY <1>3 DEF SendInsert
  <2>2. req[r].user \in Users /\ req[r].at \in Times
    BY <1>0, <1>3, CallFields DEF SendInsert, Idle
  <2>3. [pc |-> "send_list", user |-> req[r].user, id |-> m] \in Call
    BY <2>2
  <2>. QED
    BY <1>3, <2>1, <2>2, <2>3
<1>4. CASE SendGivenUp(r) \/ SendStatuses(r)
  <2>1. Become(r, Idle) /\ Idle \in Call /\ Idle.pc = "idle"
    BY <1>4 DEF SendGivenUp, SendStatuses, Return, Idle
  <2>. QED
    BY <1>4, <2>1 DEF SendGivenUp, SendStatuses, SendInsert
<1>5. CASE SendList(r)
  <2>1. PICK l \in lists : Become(r, [pc |-> "send_status", user |-> req[r].user,
                                      id |-> req[r].id, list |-> l])
    BY <1>5 DEF SendList
  <2>2. [pc |-> "send_status", user |-> req[r].user, id |-> req[r].id, list |-> l] \in Call
    BY <1>0, <1>5, CallFields DEF SendList, TypeOK, Idle
  <2>. QED
    BY <1>5, <2>1, <2>2 DEF SendList, SendInsert
<1>. QED
  BY <1>1, <1>2, <1>3, <1>4, <1>5

LEMMA MarkFacts ==
  ASSUME TypeOK, NEW r \in Requests, MarkCheck(r) \/ MarkSelect(r) \/ MarkUpdate(r)
  PROVE  \E call \in Call :
           /\ Become(r, call)
           /\ call.pc \in {"idle", "mark_select", "mark_update"}
           /\ call.pc = "mark_select" =>
                ~NoMessage(call.id) /\ \A k \in call.due : Settled(k) /\ message[k].at <= message[call.id].at
           /\ call.pc = "mark_update" =>
                /\ At(r, "mark_select")
                /\ call.due = req[r].due
                /\ call.ids = {m \in Ids : UpToCursor(m, req[r].id)}
<1>. USE DEF At, Call, MarkCall
<1>0. req[r] \in Call
  BY DEF TypeOK
<1>1. CASE MarkCheck(r)
  <2>1. PICK u \in active, m \in Ids :
          /\ ~NoMessage(m)
          /\ Become(r, [pc |-> "mark_select", user |-> u, id |-> m, due |->
               {k \in Ids : ~NoMessage(k) /\ message[k].at <= message[m].at /\ SendOver(k)}])
    BY <1>1 DEF MarkCheck, Arrive
  <2>. DEFINE due == {k \in Ids : ~NoMessage(k) /\ message[k].at <= message[m].at /\ SendOver(k)}
  <2>2. due \in SUBSET Ids /\ \A k \in due : Settled(k) /\ message[k].at <= message[m].at
    BY DEF Settled
  <2>. HIDE DEF due
  <2>3. [pc |-> "mark_select", user |-> u, id |-> m, due |-> due] \in Call
    BY <2>2 DEF TypeOK
  <2>4. Become(r, [pc |-> "mark_select", user |-> u, id |-> m, due |-> due])
    BY <2>1 DEF due
  <2>. QED
    BY <2>1, <2>2, <2>3, <2>4
<1>2. CASE MarkSelect(r)
  <2>. DEFINE ids == {m \in Ids : UpToCursor(m, req[r].id)}
  <2>1. CASE ids = {}
    <3>1. Become(r, Idle) /\ Idle \in Call /\ Idle.pc = "idle"
      BY <1>2, <2>1 DEF MarkSelect, Return, Idle
    <3>. QED
      BY <3>1
  <2>2. CASE ids # {}
    <3>1. Become(r, [pc |-> "mark_update", user |-> req[r].user, ids |-> ids, due |-> req[r].due])
      BY <1>2, <2>2 DEF MarkSelect
    <3>2. ids \in SUBSET Ids /\ req[r].due \in SUBSET Ids /\ req[r].user \in Users
      BY <1>0, <1>2, CallFields DEF MarkSelect, Idle
    <3>. HIDE DEF ids
    <3>3. [pc |-> "mark_update", user |-> req[r].user, ids |-> ids, due |-> req[r].due] \in Call
      BY <3>2
    <3>4. At(r, "mark_select")
      BY <1>2 DEF MarkSelect
    <3>. QED
      BY <3>1, <3>3, <3>4 DEF ids
  <2>. QED
    BY <2>1, <2>2
<1>3. CASE MarkUpdate(r)
  <2>1. Become(r, Idle) /\ Idle \in Call /\ Idle.pc = "idle"
    BY <1>3 DEF MarkUpdate, Return, Idle
  <2>. QED
    BY <2>1
<1>. QED
  BY <1>1, <1>2, <1>3

LEMMA DeleteFacts ==
  ASSUME TypeOK, NEW r \in Requests, DeleteFind(r) \/ DeleteFindMember(r)
  PROVE  \E call \in Call :
           /\ Become(r, call)
           /\ call.pc \in {"idle", "delete_member", "delete_update"}
           /\ call.pc # "idle" => ~NoMessage(call.id) \/ (At(r, "delete_member") /\ call.id = req[r].id)
<1>. USE DEF At, Call
<1>0. req[r] \in Call
  BY DEF TypeOK
<1>1. CASE DeleteFind(r)
  <2>1. PICK u \in Users, m \in Ids :
          ~NoMessage(m) /\ Become(r, [pc |-> "delete_member", user |-> u, id |-> m])
    BY <1>1 DEF DeleteFind, Arrive
  <2>2. [pc |-> "delete_member", user |-> u, id |-> m] \in Call
    BY DEF DeleteCall
  <2>. QED
    BY <2>1, <2>2
<1>2. CASE DeleteFindMember(r)
  <2>1. req[r] \in DeleteCall /\ At(r, "delete_member")
    BY <1>0, <1>2, CallFields DEF DeleteFindMember
  <2>2. CASE Become(r, [req[r] EXCEPT !.pc = "delete_update"])
    BY <2>1, <2>2, DeleteMoves
  <2>3. CASE Return(r)
    <3>1. Become(r, Idle) /\ Idle \in Call /\ Idle.pc = "idle"
      BY <2>3 DEF Return, Idle
    <3>. QED
      BY <3>1
  <2>. QED
    BY <1>2, <2>2, <2>3 DEF DeleteFindMember
<1>. QED
  BY <1>1, <1>2

(* A deletion takes the message out of what every walk is owed.            *)
LEMMA DeleteUpdateFacts ==
  ASSUME TypeOK, NEW r \in Requests, DeleteUpdate(r), NEW q \in Requests
  PROVE  /\ req'[q] \in Call /\ req' = [x \in Requests |-> req'[x]]
         /\ req[r].id \in Ids
         /\ q = r => req'[q] = Idle
         /\ q # r /\ ~Walking(q) => req'[q] = req[q]
         /\ q # r /\ Walking(q) =>
              req'[q] = WalkRecord(req[q].pc, req[q].user, req[q].before,
                                   req[q].due \ {req[r].id}, req[q].cut)
<1>1. req[q] \in Call /\ req[r] \in Call
  BY DEF TypeOK
<1>2. req[r].id \in Ids
  BY <1>1, CallFields DEF DeleteUpdate, At
<1>3. Walking(q) <=> req[q] \in WalkCall
  BY <1>1, CallFields DEF Walking, WalkCall
<1>4. req' = [x \in Requests |->
         IF x = r THEN Idle
         ELSE IF req[x] \in WalkCall THEN [req[x] EXCEPT !.due = req[x].due \ {req[r].id}] ELSE req[x]]
  BY DEF DeleteUpdate
<1>5. CASE q = r
  BY <1>2, <1>4, <1>5 DEF Call
<1>6. CASE q # r /\ ~Walking(q)
  BY <1>1, <1>2, <1>3, <1>4, <1>6
<1>7. CASE q # r /\ Walking(q)
  <2>1. req[q] \in WalkCall
    BY <1>3, <1>7
  <2>2. PICK due \in SUBSET Ids : due = req[q].due \ {req[r].id}
    BY <2>1, WalkFields
  <2>3. /\ [req[q] EXCEPT !.due = due] \in WalkCall
        /\ [req[q] EXCEPT !.due = due] = WalkRecord(req[q].pc, req[q].user, req[q].before, due, req[q].cut)
    BY <2>1, WalkFields
  <2>4. req'[q] = [req[q] EXCEPT !.due = due]
    BY <1>4, <1>7, <2>1, <2>2
  <2>. QED
    BY <1>2, <1>4, <1>7, <2>2, <2>3, <2>4 DEF Call
<1>. QED
  BY <1>5, <1>6, <1>7

(* A walk goes on.                                                         *)
WalksTo(r, call) ==
  \/ /\ WalkStart(r)
     /\ \E u \in active : call = WalkRecord("walk_member", u, {}, Readable(u), {})
  \/ /\ At(r, "walk_member")
     /\ call = WalkRecord("walk_page", req[r].user, req[r].before, req[r].due, req[r].cut)
  \/ /\ At(r, "walk_page")
     /\ \E rows \in Newest(Selectable(r), PageSize + 1) :
          \E page \in Newest(rows, PageSize) :
            \/ /\ rows = page
               /\ call = WalkRecord("walk_end", req[r].user, req[r].before,
                                    req[r].due \ page, req[r].cut)
            \/ \E last \in Oldest(page) :
                 call = WalkRecord("walk_member", req[r].user, {last},
                                   req[r].due \ page, req[r].cut \cup {last})

LEMMA WalkFacts ==
  ASSUME TypeOK, NEW r \in Requests,
         WalkStart(r) \/ WalkFindMember(r) \/ WalkPage(r) \/ WalkEnd(r)
  PROVE  \E call \in Call : Become(r, call) /\ (call.pc = "idle" \/ WalksTo(r, call))
<1>. USE DEF At, WalksTo
<1>0. req[r] \in Call /\ \A c \in WalkCall : c \in Call
  BY DEF TypeOK, Call
<1>1. CASE WalkStart(r)
  <2>1. PICK u \in active : Become(r, WalkRecord("walk_member", u, {}, Readable(u), {}))
    BY <1>1 DEF WalkStart, Arrive, WalkRecord
  <2>2. WalkRecord("walk_member", u, {}, Readable(u), {}) \in WalkCall
    <3>1. Readable(u) \in SUBSET Ids /\ u \in Users
      BY DEF Readable, TypeOK
    <3>. QED
      BY <3>1 DEF WalkRecord, WalkCall
  <2>. QED
    BY <1>0, <1>1, <2>1, <2>2
<1>2. CASE WalkFindMember(r)
  <2>1. req[r] \in WalkCall /\ At(r, "walk_member")
    BY <1>0, <1>2, CallFields DEF WalkFindMember
  <2>2. CASE Become(r, [req[r] EXCEPT !.pc = "walk_page"])
    <3>1. /\ [req[r] EXCEPT !.pc = "walk_page"] \in WalkCall
          /\ [req[r] EXCEPT !.pc = "walk_page"]
               = WalkRecord("walk_page", req[r].user, req[r].before, req[r].due, req[r].cut)
      BY <2>1, WalkFields
    <3>. QED
      BY <1>0, <2>1, <2>2, <3>1
  <2>3. CASE Return(r)
    <3>1. Become(r, Idle) /\ Idle \in Call /\ Idle.pc = "idle"
      BY <2>3 DEF Return, Idle, Call
    <3>. QED
      BY <3>1
  <2>. QED
    BY <1>2, <2>2, <2>3 DEF WalkFindMember
<1>3. CASE WalkPage(r)
  <2>1. req[r] \in WalkCall /\ At(r, "walk_page")
    BY <1>0, <1>3, CallFields DEF WalkPage
  <2>. DEFINE Sent(rows, page) ==
         IF rows = page
         THEN Become(r, [req[r] EXCEPT !.pc = "walk_end", !.due = @ \ page])
         ELSE \E last \in Oldest(page) :
                Become(r, [req[r] EXCEPT !.pc = "walk_member", !.due = @ \ page,
                                         !.before = {last}, !.cut = @ \cup {last}])
  <2>6. PICK rows \in Newest(Selectable(r), PageSize + 1) :
          \E page \in Newest(rows, PageSize) : Sent(rows, page)
    BY <1>3 DEF WalkPage, FetchLimit
  <2>2. PICK page \in Newest(rows, PageSize) : Sent(rows, page)
    BY <2>6
  <2>3. page \in SUBSET Ids
    BY DEF Newest, Selectable, Readable
  <2>4. CASE rows = page
    <3>. DEFINE next == [req[r] EXCEPT !.pc = "walk_end", !.due = @ \ page]
    <3>1. /\ next \in WalkCall
          /\ next = WalkRecord("walk_end", req[r].user, req[r].before, req[r].due \ page, req[r].cut)
      BY <2>1, <2>3, WalkTwice
    <3>2. Become(r, next)
      BY <2>2, <2>4
    <3>. HIDE DEF next
    <3>. QED
      BY <1>0, <2>1, <2>4, <3>1, <3>2
  <2>5. CASE rows # page
    <3>1. PICK last \in Oldest(page) :
            Become(r, [req[r] EXCEPT !.pc = "walk_member", !.due = @ \ page,
                                     !.before = {last}, !.cut = @ \cup {last}])
      BY <2>2, <2>5
    <3>. DEFINE next == [req[r] EXCEPT !.pc = "walk_member", !.due = @ \ page,
                                       !.before = {last}, !.cut = @ \cup {last}]
    <3>2. last \in Ids
      BY <2>3 DEF Oldest
    <3>3. /\ next \in WalkCall
          /\ next = WalkRecord("walk_member", req[r].user, {last}, req[r].due \ page,
                               req[r].cut \cup {last})
      BY <2>1, <2>3, <3>2, WalkOn
    <3>4. Become(r, next)
      BY <3>1
    <3>. HIDE DEF next
    <3>. QED
      BY <1>0, <2>1, <3>3, <3>4
  <2>. QED
    BY <2>4, <2>5
<1>4. CASE WalkEnd(r)
  <2>1. Become(r, Idle) /\ Idle \in Call /\ Idle.pc = "idle"
    BY <1>4 DEF WalkEnd, Return, Idle, Call
  <2>. QED
    BY <2>1
<1>. QED
  BY <1>1, <1>2, <1>3, <1>4

(* Except for a deletion, a step of a call is about that call alone.       *)
LEMMA OneCallMoves ==
  ASSUME TypeOK, NEW r \in Requests, Step(r), ~DeleteUpdate(r)
  PROVE  \E call \in Call : Become(r, call)
<1>1. CASE Fail(r)
  BY <1>1 DEF Fail, Return, Call
<1>. QED
  BY <1>1, SendFacts, MarkFacts, DeleteFacts, WalkFacts DEF Step

LEMMA StepTyped ==
  ASSUME TypeOK, NamesMessages, NEW r \in Requests, Step(r)
  PROVE  TypeOK'
<1>. USE DEF members
<1>1. req' \in [Requests -> Call]
  <2>1. CASE DeleteUpdate(r)
    BY <2>1, DeleteUpdateFacts
  <2>2. CASE ~DeleteUpdate(r)
    BY <2>2, OneCallMoves, BecomeFacts
  <2>. QED
    BY <2>1, <2>2
<1>2. CASE SendInsert(r)
  <2>1. PICK call \in Call :
          /\ call.pc = "send_list" /\ req[r].user \in Users /\ req[r].at \in Times
          /\ message' = [message EXCEPT ![call.id] =
               [state |-> "sent", at |-> req[r].at, sender |-> req[r].user]]
    BY <1>2, SendFacts
  <2>2. [state |-> "sent", at |-> req[r].at, sender |-> req[r].user] \in Row
    BY <2>1 DEF Row
  <2>3. message' \in [Ids -> Row]
    BY <2>1, <2>2, CallFields DEF TypeOK
  <2>. QED
    BY <1>1, <1>2, <2>3 DEF SendInsert, TypeOK
<1>3. CASE SendStatuses(r)
  <2>1. req[r].id \in Ids
    BY <1>3, CallFields DEF SendStatuses, At, TypeOK
  <2>2. status' \in [Ids -> [Users -> {"none", "SENT", "READ"}]]
    BY <1>3, <2>1 DEF SendStatuses, TypeOK
  <2>. QED
    BY <1>1, <1>3, <2>2 DEF SendStatuses, TypeOK
<1>4. CASE DeleteUpdate(r)
  <2>1. req[r].id \in Ids /\ ~NoMessage(req[r].id)
    BY <1>4, DeleteUpdateFacts DEF NamesMessages, DeleteUpdate, At
  <2>2. message[req[r].id] \in [state : {"sent", "deleted"}, at : Times, sender : Users]
    BY <2>1 DEF TypeOK, Row, NoMessage
  <2>3. Deleted(message[req[r].id]) \in Row
    BY <2>2 DEF Deleted, Row
  <2>4. message' = [message EXCEPT ![req[r].id] = Deleted(message[req[r].id])]
    BY <1>4, <2>1 DEF DeleteUpdate, TypeOK
  <2>5. message' \in [Ids -> Row]
    BY <2>1, <2>3, <2>4 DEF TypeOK
  <2>. QED
    BY <1>1, <1>4, <2>5 DEF DeleteUpdate, TypeOK
<1>5. CASE MarkUpdate(r)
  <2>1. req[r].user \in Users /\ req[r].due \in SUBSET Ids
    BY <1>5, CallFields DEF MarkUpdate, At, TypeOK, Idle
  <2>2. status' \in [Ids -> [Users -> {"none", "SENT", "READ"}]]
    BY <1>5, <2>1 DEF MarkUpdate, TypeOK
  <2>3. marked' \subseteq Ids \X Users
    BY <1>5, <2>1 DEF MarkUpdate, TypeOK
  <2>. QED
    BY <1>1, <1>5, <2>2, <2>3 DEF MarkUpdate, TypeOK
<1>6. CASE UNCHANGED <<clock, message, status, members, marked, mix>>
  BY <1>1, <1>6 DEF TypeOK
<1>. QED
  BY <1>2, <1>3, <1>4, <1>5, <1>6 DEF Step, SendCheck, SendCreate, SendGivenUp, SendList,
     DeleteFind, DeleteFindMember, MarkCheck, MarkSelect, WalkStart, WalkFindMember, WalkPage,
     WalkEnd, Fail

LEMMA MembersTyped ==
  ASSUME TypeOK, (\E u \in Users : Join(u) \/ Leave(u)) \/ Tick
  PROVE  TypeOK'
<1>1. ASSUME NEW u \in Users, Join(u)
      PROVE  TypeOK'
  <2>1. /\ active' = active \cup {u} /\ lists' = lists \cup {active'}
        /\ \E readable \in {0, clock} : from' = [from EXCEPT ![u] = readable]
        /\ UNCHANGED <<clock, message, status, req, marked, mix>>
    BY <1>1 DEF Join
  <2>2. from' \in [Users -> 0..MaxTime]
    BY <2>1, MessageConstants DEF TypeOK, Times
  <2>. QED
    BY <2>1, <2>2 DEF TypeOK
<1>2. ASSUME NEW u \in Users, Leave(u)
      PROVE  TypeOK'
  BY <1>2 DEF Leave, TypeOK
<1>3. CASE Tick
  BY <1>3, MessageConstants DEF Tick, members, TypeOK, Times
<1>. QED
  BY <1>1, <1>2, <1>3

-----------------------------------------------------------------------------
(* A message keeps its createdAt and its row for good; a row that is shown *)
(* is shown until its deletion.                                            *)
LEMMA RowsStay ==
  ASSUME TypeOK, NamesMessages, Next, NEW m \in Ids, ~NoMessage(m)
  PROVE  /\ ~NoMessage(m)' /\ message'[m].at = message[m].at
         /\ (\A r \in Requests : DeleteUpdate(r) => req[r].id # m) => message'[m] = message[m]
<1>1. ASSUME NEW r \in Requests, SendInsert(r)
      PROVE  message'[m] = message[m]
  <2>1. PICK k : NoMessage(k) /\ \E row : message' = [message EXCEPT ![k] = row]
    BY <1>1 DEF SendInsert
  <2>. QED
    BY <2>1 DEF TypeOK
<1>2. ASSUME NEW r \in Requests, DeleteUpdate(r)
      PROVE  /\ ~NoMessage(m)' /\ message'[m].at = message[m].at
             /\ req[r].id # m => message'[m] = message[m]
  <2>1. req[r].id \in Ids /\ ~NoMessage(req[r].id)
    BY <1>2, DeleteUpdateFacts DEF NamesMessages, DeleteUpdate, At
  <2>2. message[req[r].id] \in [state : {"sent", "deleted"}, at : Times, sender : Users]
    BY <2>1 DEF TypeOK, Row, NoMessage
  <2>3. /\ Deleted(message[req[r].id]).state = "deleted"
        /\ Deleted(message[req[r].id]).at = message[req[r].id].at
    BY <2>2 DEF Deleted
  <2>4. message' = [message EXCEPT ![req[r].id] = Deleted(message[req[r].id])]
    BY <1>2, <2>1 DEF DeleteUpdate, TypeOK
  <2>5. CASE req[r].id = m
    <3>1. message'[m] = Deleted(message[m])
      BY <2>4, <2>5 DEF TypeOK
    <3>. QED
      BY <2>3, <2>5, <3>1 DEF NoMessage
  <2>6. CASE req[r].id # m
    BY <2>4, <2>6 DEF TypeOK, NoMessage
  <2>. QED
    BY <2>5, <2>6
<1>3. CASE UNCHANGED message
  BY <1>3 DEF NoMessage
<1>. QED
  BY <1>1, <1>2, <1>3 DEF Next, Step, SendCheck, SendCreate, SendGivenUp, SendList, SendStatuses,
     DeleteFind, DeleteFindMember, MarkCheck, MarkSelect, MarkUpdate, WalkStart, WalkFindMember,
     WalkPage, WalkEnd, Fail, Join, Leave, Tick, NoMessage

(* Every other call stays where it is; a deletion shortens what walks are  *)
(* owed.                                                                   *)
LEMMA OtherCalls ==
  ASSUME TypeOK, NEW r \in Requests, Step(r), NEW q \in Requests, q # r
  PROVE  /\ \/ req'[q] = req[q]
            \/ /\ DeleteUpdate(r) /\ Walking(q)
               /\ req'[q] = WalkRecord(req[q].pc, req[q].user, req[q].before,
                                       req[q].due \ {req[r].id}, req[q].cut)
         /\ ~Walking(q)' => req'[q] = req[q]
<1>1. CASE DeleteUpdate(r) /\ Walking(q)
  <2>1. req'[q] = WalkRecord(req[q].pc, req[q].user, req[q].before,
                             req[q].due \ {req[r].id}, req[q].cut)
    BY <1>1, DeleteUpdateFacts
  <2>2. req'[q].pc = req[q].pc
    BY <2>1 DEF WalkRecord
  <2>. QED
    BY <1>1, <2>1, <2>2 DEF Walking
<1>2. CASE DeleteUpdate(r) /\ ~Walking(q)
  BY <1>2, DeleteUpdateFacts
<1>3. CASE ~DeleteUpdate(r)
  BY <1>3, OneCallMoves, BecomeFacts
<1>. QED
  BY <1>1, <1>2, <1>3

(* What the call that moves has to do with sends, deletions and marks.     *)
Effects(r, call) ==
  /\ call.pc = "send_list" =>
       /\ NoMessage(call.id)
       /\ SendInsert(r)
       /\ message' = [message EXCEPT ![call.id] =
            [state |-> "sent", at |-> req[r].at, sender |-> req[r].user]]
  /\ call.pc = "send_status" => At(r, "send_list") /\ call.id = req[r].id
  /\ call.pc \in {"delete_member", "delete_update"} =>
       ~NoMessage(call.id) \/ (At(r, "delete_member") /\ call.id = req[r].id)
  /\ call.pc = "mark_select" =>
       ~NoMessage(call.id) /\ \A k \in call.due : Settled(k) /\ message[k].at <= message[call.id].at
  /\ call.pc = "mark_update" =>
       /\ At(r, "mark_select")
       /\ call.due = req[r].due
       /\ call.ids = {m \in Ids : UpToCursor(m, req[r].id)}

LEMMA MovedCall ==
  ASSUME TypeOK, NEW r \in Requests, Step(r)
  PROVE  req'[r] \in Call /\ Effects(r, req'[r])
<1>1. CASE DeleteUpdate(r) \/ Fail(r)
  <2>1. req'[r] = Idle
    BY <1>1, DeleteUpdateFacts, BecomeFacts DEF Fail, Return, Call
  <2>. QED
    BY <2>1 DEF Idle, Effects, Call
<1>2. ASSUME NEW call \in Call, Become(r, call), Effects(r, call)
      PROVE  req'[r] \in Call /\ Effects(r, req'[r])
  BY <1>2, BecomeFacts
<1>3. CASE SendCheck(r) \/ SendCreate(r) \/ SendInsert(r) \/ SendGivenUp(r) \/ SendList(r)
             \/ SendStatuses(r)
  BY <1>2, <1>3, SendFacts DEF Effects
<1>4. CASE DeleteFind(r) \/ DeleteFindMember(r)
  BY <1>2, <1>4, DeleteFacts DEF Effects
<1>5. CASE MarkCheck(r) \/ MarkSelect(r) \/ MarkUpdate(r)
  BY <1>2, <1>5, MarkFacts DEF Effects
<1>6. CASE WalkStart(r) \/ WalkFindMember(r) \/ WalkPage(r) \/ WalkEnd(r)
  BY <1>2, <1>6, WalkFacts DEF Effects, WalkRecord, WalksTo
<1>. QED
  BY <1>1, <1>3, <1>4, <1>5, <1>6 DEF Step

LEMMA NamesStep ==
  ASSUME TypeOK, NamesMessages, Next
  PROVE  NamesMessages'
<1>. DEFINE Naming == {"send_list", "send_status", "delete_member", "delete_update", "mark_select"}
<1>1. ASSUME NEW q \in Requests, req'[q] = req[q], req[q].pc \in Naming
      PROVE  ~NoMessage(req[q].id)'
  <2>1. PICK m \in Ids : m = req[q].id
    BY <1>1, CallFields DEF TypeOK
  <2>2. ~NoMessage(m)
    BY <1>1, <2>1 DEF NamesMessages
  <2>. QED
    BY <1>1, <2>1, <2>2, RowsStay DEF NoMessage
<1>2. ASSUME NEW r \in Requests, Step(r)
      PROVE  NamesMessages'
  <2>1. ASSUME NEW q \in Requests, q # r, req'[q].pc \in Naming
        PROVE  ~NoMessage(req[q].id)'
    <3>1. req'[q] = req[q]
      BY <1>2, <2>1, OtherCalls DEF Walking
    <3>. QED
      BY <1>1, <2>1, <3>1
  <2>2. ASSUME req'[r].pc \in Naming
        PROVE  ~NoMessage(req[r].id)'
    <3>1. PICK call \in Call : call = req'[r] /\ Effects(r, call)
      BY <1>2, MovedCall
    <3>2. PICK m \in Ids : m = call.id
      BY <2>2, <3>1, CallFields
    <3>3. CASE call.pc = "send_list"
      <4>1. message' = [message EXCEPT ![m] =
              [state |-> "sent", at |-> req[r].at, sender |-> req[r].user]]
        BY <3>1, <3>2, <3>3 DEF Effects
      <4>2. message'[m].state = "sent"
        BY <4>1 DEF TypeOK
      <4>. QED
        BY <3>1, <3>2, <4>2 DEF NoMessage
    <3>4. CASE call.pc # "send_list"
      <4>1. ~NoMessage(m)
        BY <2>2, <3>1, <3>2, <3>4 DEF Effects, NamesMessages, At
      <4>. QED
        BY <3>1, <3>2, <4>1, RowsStay DEF NoMessage
    <3>. QED
      BY <3>3, <3>4
  <2>. QED
    BY <2>1, <2>2 DEF NamesMessages
<1>3. CASE (\E u \in Users : Join(u) \/ Leave(u)) \/ Tick
  <2>1. req' = req
    BY <1>3 DEF Join, Leave, Tick
  <2>. QED
    BY <1>1, <2>1 DEF NamesMessages
<1>. QED
  BY <1>2, <1>3 DEF Next

(* Settled is settled: only an INSERT makes a send of a message, and only  *)
(* of a new one.                                                           *)
LEMMA SettledStays ==
  ASSUME TypeOK, NamesMessages, Next, NEW m \in Ids, Settled(m)
  PROVE  Settled(m)'
<1>1. ~NoMessage(m)'
  BY RowsStay DEF Settled
<1>2. ASSUME NEW r \in Requests, Step(r)
      PROVE  SendOver(m)'
  <2>1. ASSUME NEW q \in Requests, req'[q].pc \in {"send_list", "send_status"}
        PROVE  req'[q].id # m
    <3>1. CASE q # r
      <4>1. req'[q] = req[q]
        BY <1>2, <2>1, <3>1, OtherCalls DEF Walking
      <4>. QED
        BY <2>1, <4>1 DEF Settled, SendOver
    <3>2. CASE q = r
      BY <1>2, <2>1, <3>2, MovedCall DEF Effects, Settled, SendOver, At
    <3>. QED
      BY <3>1, <3>2
  <2>. QED
    BY <2>1 DEF SendOver
<1>3. CASE (\E u \in Users : Join(u) \/ Leave(u)) \/ Tick
  <2>1. req' = req
    BY <1>3 DEF Join, Leave, Tick
  <2>2. ASSUME NEW q \in Requests, req'[q].pc \in {"send_list", "send_status"}
        PROVE  req'[q].id # m
    BY <2>1, <2>2 DEF Settled, SendOver
  <2>. QED
    BY <1>1, <2>2 DEF SendOver, Settled
<1>. QED
  BY <1>1, <1>2, <1>3 DEF Next, Settled

(* A status of a settled message that was not unread does not become so.   *)
LEMMA StatusStays ==
  ASSUME TypeOK, Next, NEW m \in Ids, NEW u \in Users, Settled(m), status[m][u] # "SENT"
  PROVE  status'[m][u] # "SENT"
<1>1. ASSUME NEW r \in Requests, SendStatuses(r)
      PROVE  status'[m][u] # "SENT"
  <2>1. req[r].id # m
    BY <1>1 DEF Settled, SendOver, SendStatuses, At
  <2>. QED
    BY <1>1, <2>1 DEF SendStatuses, TypeOK
<1>2. ASSUME NEW r \in Requests, MarkUpdate(r)
      PROVE  status'[m][u] # "SENT"
  <2>1. status'[m] = IF m \in req[r].ids /\ status[m][req[r].user] = "SENT"
                     THEN [status[m] EXCEPT ![req[r].user] = "READ"] ELSE status[m]
    BY <1>2 DEF MarkUpdate
  <2>2. status[m] \in [Users -> {"none", "SENT", "READ"}]
    BY DEF TypeOK
  <2>. QED
    BY <2>1, <2>2
<1>3. CASE UNCHANGED status
  BY <1>3
<1>. QED
  BY <1>1, <1>2, <1>3 DEF Next, Step, SendCheck, SendCreate, SendInsert, SendGivenUp, SendList,
     DeleteFind, DeleteFindMember, DeleteUpdate, MarkCheck, MarkSelect, WalkStart,
     WalkFindMember, WalkPage, WalkEnd, Fail, Join, Leave, Tick

LEMMA MarksStep ==
  ASSUME TypeOK, NamesMessages, MarksSettled, Next
  PROVE  MarksSettled'
<1>1. ASSUME NEW q \in Requests, req'[q] = req[q]
      PROVE  /\ At(q, "mark_select") => \A m \in req[q].due :
                  Settled(m)' /\ message'[m].at <= message'[req[q].id].at
             /\ At(q, "mark_update") => \A m \in req[q].due : Settled(m)' /\ m \in req[q].ids
  <2>1. CASE At(q, "mark_select")
    <3>1. req[q].id \in Ids /\ req[q].due \in SUBSET Ids /\ ~NoMessage(req[q].id)
      BY <2>1, CallFields DEF TypeOK, At, NamesMessages
    <3>2. message'[req[q].id].at = message[req[q].id].at
      BY <3>1, RowsStay
    <3>3. ASSUME NEW m \in req[q].due
          PROVE  Settled(m)' /\ message'[m].at <= message'[req[q].id].at
      <4>1. m \in Ids /\ Settled(m) /\ message[m].at <= message[req[q].id].at
        BY <2>1, <3>1 DEF MarksSettled
      <4>2. message'[m].at = message[m].at
        BY <4>1, RowsStay DEF Settled
      <4>. QED
        BY <3>2, <4>1, <4>2, SettledStays
    <3>. QED
      BY <2>1, <3>3 DEF At
  <2>2. CASE At(q, "mark_update")
    <3>1. req[q].due \in SUBSET Ids
      BY <2>2, CallFields DEF TypeOK, At
    <3>. QED
      BY <2>2, <3>1, SettledStays DEF MarksSettled, At
  <2>. QED
    BY <2>1, <2>2
<1>2. ASSUME NEW r \in Requests, Step(r)
      PROVE  /\ At(r, "mark_select")' => \A m \in req'[r].due :
                  Settled(m)' /\ message'[m].at <= message'[req'[r].id].at
             /\ At(r, "mark_update")' => \A m \in req'[r].due : Settled(m)' /\ m \in req'[r].ids
  <2>1. PICK call \in Call : call = req'[r] /\ Effects(r, call)
    BY <1>2, MovedCall
  <2>2. CASE call.pc = "mark_select"
    <3>1. PICK i \in Ids : i = call.id /\ call.due \in SUBSET Ids
      BY <2>2, CallFields
    <3>2. ~NoMessage(i) /\ \A k \in call.due : Settled(k) /\ message[k].at <= message[i].at
      BY <2>1, <2>2, <3>1 DEF Effects
    <3>3. message'[i].at = message[i].at
      BY <3>2, RowsStay
    <3>4. ASSUME NEW k \in call.due
          PROVE  Settled(k)' /\ message'[k].at <= message'[i].at
      <4>1. k \in Ids /\ Settled(k) /\ message[k].at <= message[i].at
        BY <3>1, <3>2
      <4>2. message'[k].at = message[k].at
        BY <4>1, RowsStay DEF Settled
      <4>. QED
        BY <3>3, <4>1, <4>2, SettledStays
    <3>. QED
      BY <2>1, <2>2, <3>1, <3>4 DEF At
  <2>3. CASE call.pc = "mark_update"
    <3>1. /\ At(r, "mark_select") /\ call.due = req[r].due
          /\ call.ids = {m \in Ids : UpToCursor(m, req[r].id)}
      BY <2>1, <2>3 DEF Effects
    <3>2. call.due \in SUBSET Ids
      BY <2>3, CallFields
    <3>3. ASSUME NEW k \in call.due
          PROVE  Settled(k)' /\ k \in call.ids
      <4>1. k \in Ids /\ Settled(k) /\ message[k].at <= message[req[r].id].at
        BY <3>1, <3>2 DEF MarksSettled
      <4>. QED
        BY <3>1, <4>1, SettledStays DEF UpToCursor, Settled
    <3>. QED
      BY <2>1, <2>3, <3>3 DEF At
  <2>. QED
    BY <2>1, <2>2, <2>3 DEF At
<1>3. \A q \in Requests :
        /\ At(q, "mark_select")' => \A m \in req'[q].due :
             Settled(m)' /\ message'[m].at <= message'[req'[q].id].at
        /\ At(q, "mark_update")' => \A m \in req'[q].due : Settled(m)' /\ m \in req'[q].ids
  <2>1. ASSUME NEW r \in Requests, Step(r), NEW q \in Requests, q # r,
               At(q, "mark_select")' \/ At(q, "mark_update")'
        PROVE  req'[q] = req[q]
    BY <2>1, OtherCalls DEF Walking, At
  <2>2. CASE \E r \in Requests : Step(r)
    <3>1. PICK r \in Requests : Step(r)
      BY <2>2
    <3>. SUFFICES ASSUME NEW q \in Requests, q # r
                  PROVE  /\ At(q, "mark_select")' => \A m \in req'[q].due :
                              Settled(m)' /\ message'[m].at <= message'[req'[q].id].at
                         /\ At(q, "mark_update")' => \A m \in req'[q].due :
                              Settled(m)' /\ m \in req'[q].ids
      BY <1>2, <3>1
    <3>2. At(q, "mark_select")' \/ At(q, "mark_update")' => req'[q] = req[q]
      BY <2>1, <3>1
    <3>. QED
      BY <1>1, <3>2 DEF At
  <2>3. CASE (\E u \in Users : Join(u) \/ Leave(u)) \/ Tick
    <3>1. req' = req
      BY <2>3 DEF Join, Leave, Tick
    <3>. QED
      BY <1>1, <3>1 DEF At
  <2>. QED
    BY <2>2, <2>3 DEF Next
<1>4. ASSUME NEW m \in Ids, NEW u \in Users, <<m, u>> \in marked'
      PROVE  Settled(m)' /\ status'[m][u] # "SENT"
  <2>1. CASE <<m, u>> \in marked
    BY <2>1, SettledStays, StatusStays DEF MarksSettled
  <2>2. CASE <<m, u>> \notin marked
    <3>1. PICK r \in Requests : MarkUpdate(r)
      BY <1>4, <2>2 DEF Next, Step, SendCheck, SendCreate, SendInsert, SendGivenUp, SendList,
         SendStatuses, DeleteFind, DeleteFindMember, DeleteUpdate, MarkCheck, MarkSelect,
         WalkStart, WalkFindMember, WalkPage, WalkEnd, Fail, Join, Leave, Tick
    <3>2. m \in req[r].due /\ u = req[r].user
      BY <1>4, <2>2, <3>1 DEF MarkUpdate
    <3>3. Settled(m) /\ m \in req[r].ids
      BY <3>1, <3>2 DEF MarkUpdate, MarksSettled
    <3>4. status'[m] = IF status[m][u] = "SENT"
                       THEN [status[m] EXCEPT ![u] = "READ"] ELSE status[m]
      BY <3>1, <3>2, <3>3 DEF MarkUpdate
    <3>5. status[m] \in [Users -> {"none", "SENT", "READ"}]
      BY DEF TypeOK
    <3>. QED
      BY <3>3, <3>4, <3>5, SettledStays
  <2>. QED
    BY <2>1, <2>2
<1>. QED
  BY <1>3, <1>4 DEF MarksSettled

-----------------------------------------------------------------------------
(* Paging back.                                                            *)

(* The page a client is sent, and the cursor it is sent: what was owed and *)
(* is not in the page is older than the cursor, or as old, or there is no  *)
(* next page because nothing is left out.                                  *)
LEMMA NewestAll ==
  ASSUME NEW ms \in SUBSET Ids, NEW n \in Nat, NEW rows \in Newest(ms, n + 1), rows \in Newest(rows, n)
  PROVE  rows = ms
<1>1. IsFiniteSet(ms) /\ rows \subseteq ms /\ IsFiniteSet(rows)
  BY MessageConstants, FS_Subset DEF Newest
<1>2. Cardinality(ms) \in Nat /\ Cardinality(rows) \in Nat
  BY <1>1, FS_CardinalityType
<1>3. Cardinality(rows) = (IF Cardinality(ms) < n + 1 THEN Cardinality(ms) ELSE n + 1)
  BY DEF Newest
<1>4. Cardinality(rows) = (IF Cardinality(rows) < n THEN Cardinality(rows) ELSE n)
  BY DEF Newest
<1>5. Cardinality(rows) = Cardinality(ms)
  BY <1>2, <1>3, <1>4
<1>. QED
  BY <1>1, <1>5, FS_Subset

LEMMA NewestCut ==
  ASSUME TypeOK, NEW ms \in SUBSET Ids, NEW k \in Nat, NEW n \in Nat,
         NEW rows \in Newest(ms, k), NEW page \in Newest(rows, n), NEW last \in Oldest(page),
         NEW m \in ms \ page
  PROVE  message[m].at < message[last].at \/ message[m].at = message[last].at
<1>1. rows \subseteq ms /\ page \subseteq rows /\ last \in page
  BY DEF Newest, Oldest
<1>2. message[m].at \in Nat /\ message[last].at \in Nat
  BY <1>1, MessageConstants DEF TypeOK, Row, Times
<1>3. message[last].at >= message[m].at
  BY <1>1 DEF Newest
<1>. QED
  BY <1>2, <1>3

(* What WalksOwe says of one walk.                                         *)
Owes(user, before, due, cut, ended) ==
  /\ \E l \in lists : user \in l
  /\ \A c \in before \cup cut : ~NoMessage(c)
  /\ \A m \in due : /\ m \in Readable(user)
                    /\ \/ \E c \in cut : message[c].at = message[m].at
                       \/ ~ended /\ \A c \in before : message[m].at < message[c].at

LEMMA WalksOweEach ==
  WalksOwe <=> \A r \in Requests : Walking(r) =>
    Owes(req[r].user, req[r].before, req[r].due, req[r].cut, At(r, "walk_end"))
BY DEF WalksOwe, Owes

(* The member lists only grow, and who was listed keeps what he may read:  *)
(* nobody comes back.                                                      *)
LEMMA ListedStays ==
  ASSUME TypeOK, ListsGrow, Next, NEW user \in Users, \E l \in lists : user \in l
  PROVE  (\E l \in lists' : user \in l) /\ from'[user] = from[user]
<1>1. ASSUME NEW u \in Users, Join(u)
      PROVE  lists \subseteq lists' /\ from'[user] = from[user]
  BY <1>1 DEF Join, TypeOK
<1>2. CASE lists \subseteq lists' /\ UNCHANGED from
  BY <1>2
<1>3. CASE \E u \in Users : Leave(u)
  BY <1>2, <1>3 DEF Leave
<1>4. CASE UNCHANGED members
  BY <1>2, <1>4 DEF members
<1>. QED
  BY <1>1, <1>3, <1>4 DEF Next, Step, SendCheck, SendCreate, SendInsert, SendGivenUp, SendList,
     SendStatuses, DeleteFind, DeleteFindMember, DeleteUpdate, MarkCheck, MarkSelect, MarkUpdate,
     WalkStart, WalkFindMember, WalkPage, WalkEnd, Fail, Tick

(* What a walk is owed stays owed, unless it is deleted.                   *)
LEMMA OwesStays ==
  ASSUME TypeOK, NamesMessages, ListsGrow, Next,
         NEW user \in Users, NEW before \in SUBSET Ids, NEW due \in SUBSET Ids, NEW cut \in SUBSET Ids,
         NEW ended \in BOOLEAN, Owes(user, before, due, cut, ended),
         \A r \in Requests : DeleteUpdate(r) => req[r].id \notin due
  PROVE  Owes(user, before, due, cut, ended)'
<1>1. (\E l \in lists' : user \in l) /\ from'[user] = from[user]
  BY ListedStays DEF Owes
<1>2. \A c \in before \cup cut : ~NoMessage(c)' /\ message'[c].at = message[c].at
  BY RowsStay DEF Owes
<1>3. \A m \in due : message'[m] = message[m]
  BY RowsStay DEF Owes, Readable, Visible, NoMessage
<1>4. \A m \in due : /\ m \in Readable(user)'
                     /\ \/ \E c \in cut : message'[c].at = message'[m].at
                        \/ ~ended /\ \A c \in before : message'[m].at < message'[c].at
  BY <1>1, <1>2, <1>3 DEF Owes, Readable, Visible
<1>. QED
  BY <1>1, <1>2, <1>4 DEF Owes

(* A page: of what was owed and is not in it, everything is as old as a    *)
(* cursor that was used, or before the next one; after the last page there *)
(* is only the former.                                                     *)
LEMMA PageOwes ==
  ASSUME TypeOK, NEW r \in Requests, At(r, "walk_page"), req[r] \in WalkCall,
         Owes(req[r].user, req[r].before, req[r].due, req[r].cut, FALSE),
         NEW rows \in Newest(Selectable(r), PageSize + 1), NEW page \in Newest(rows, PageSize)
  PROVE  /\ rows = page => Owes(req[r].user, req[r].before, req[r].due \ page, req[r].cut, TRUE)
         /\ \A last \in Oldest(page) :
              Owes(req[r].user, {last}, req[r].due \ page, req[r].cut \cup {last}, FALSE)
<1>1. Selectable(r) \in SUBSET Ids /\ PageSize \in Nat /\ PageSize + 1 \in Nat
  BY MessageConstants DEF Selectable, Readable
<1>2. \A m \in req[r].due :
        \/ \E c \in req[r].cut : message[c].at = message[m].at
        \/ m \in Selectable(r)
  BY DEF Owes, Selectable
<1>3. ASSUME rows = page
      PROVE  Owes(req[r].user, req[r].before, req[r].due \ page, req[r].cut, TRUE)
  <2>1. rows = Selectable(r)
    BY <1>1, <1>3, NewestAll
  <2>. QED
    BY <1>2, <1>3, <2>1 DEF Owes
<1>4. ASSUME NEW last \in Oldest(page)
      PROVE  Owes(req[r].user, {last}, req[r].due \ page, req[r].cut \cup {last}, FALSE)
  <2>1. last \in page /\ page \subseteq rows /\ rows \subseteq Selectable(r)
    BY DEF Newest, Oldest
  <2>2. ~NoMessage(last)
    BY <2>1 DEF Selectable, Readable, Visible, NoMessage
  <2>3. ASSUME NEW m \in req[r].due \ page
        PROVE  \/ \E c \in req[r].cut \cup {last} : message[c].at = message[m].at
               \/ message[m].at < message[last].at
    <3>1. CASE m \in Selectable(r)
      BY <1>1, <2>3, <3>1, NewestCut
    <3>2. CASE m \notin Selectable(r)
      BY <1>2, <2>3, <3>2
    <3>. QED
      BY <3>1, <3>2
  <2>. QED
    BY <2>2, <2>3 DEF Owes
<1>. QED
  BY <1>3, <1>4

LEMMA OneDeletion ==
  ASSUME TypeOK, NEW x \in Requests, DeleteUpdate(x)
  PROVE  /\ \A r \in Requests : Step(r) => x = r
         /\ ~((\E u \in Users : Join(u) \/ Leave(u)) \/ Tick)
<1>1. req[x].pc = "delete_update" /\ req'[x] = Idle
  BY DeleteUpdateFacts DEF DeleteUpdate, At
<1>2. req'[x] # req[x] /\ ~Walking(x)
  BY <1>1 DEF Idle, Walking
<1>3. ASSUME NEW r \in Requests, Step(r), x # r
      PROVE  FALSE
  BY <1>2, <1>3, OtherCalls
<1>. QED
  BY <1>2, <1>3 DEF Join, Leave, Tick

LEMMA CallOver ==
  ASSUME TypeOK, NEW r \in Requests, DeleteUpdate(r) \/ Fail(r) \/ WalkEnd(r)
  PROVE  ~Walking(r)'
<1>1. CASE DeleteUpdate(r)
  <2>1. req'[r] = Idle
    BY <1>1, DeleteUpdateFacts
  <2>. QED
    BY <2>1 DEF Idle, Walking
<1>2. CASE Become(r, Idle)
  BY <1>2, BecomeFacts DEF Idle, Walking, Call
<1>. QED
  BY <1>1, <1>2 DEF Fail, WalkEnd, Return

LEMMA WalksStep ==
  ASSUME TypeOK, NamesMessages, ListsGrow, WalksOwe, Next
  PROVE  WalksOwe'
<1>. DEFINE Fine(c) == Owes(c.user, c.before, c.due, c.cut, c.pc = "walk_end")
<1>0. /\ \A q \in Requests : Walking(q) => Fine(req[q]) /\ req[q] \in WalkCall
      /\ \A c \in WalkCall : /\ c.user \in Users /\ c.before \in SUBSET Ids
                             /\ c.due \in SUBSET Ids /\ c.cut \in SUBSET Ids
  <2>1. \A q \in Requests : Walking(q) => req[q] \in WalkCall
    BY CallFields DEF TypeOK, Walking
  <2>2. \A q \in Requests : Walking(q) => Fine(req[q])
    BY WalksOweEach DEF At
  <2>. QED
    BY <2>1, <2>2 DEF WalkCall
<1>1. ASSUME NEW c \in WalkCall, Fine(c),
             \A r \in Requests : DeleteUpdate(r) => req[r].id \notin c.due
      PROVE  Fine(c)'
  BY <1>0, <1>1, OwesStays
<1>2. SUFFICES ASSUME NEW q \in Requests, Walking(q)'
               PROVE  Owes(req[q].user, req[q].before, req[q].due, req[q].cut, At(q, "walk_end"))'
  BY DEF WalksOwe, Owes
<1>3. ASSUME NEW c \in WalkCall, req'[q] = c, Fine(c)'
      PROVE  Owes(req[q].user, req[q].before, req[q].due, req[q].cut, At(q, "walk_end"))'
  BY <1>3 DEF At
<1>4. CASE (\E u \in Users : Join(u) \/ Leave(u)) \/ Tick
  <2>1. req' = req
    BY <1>4 DEF Join, Leave, Tick
  <2>2. Walking(q)
    BY <1>2, <2>1 DEF Walking
  <2>. QED
    BY <1>0, <1>1, <1>3, <1>4, <2>1, <2>2, OneDeletion
<1>5. ASSUME NEW r \in Requests, Step(r), q # r
      PROVE  Owes(req[q].user, req[q].before, req[q].due, req[q].cut, At(q, "walk_end"))'
  <2>1. CASE ~(DeleteUpdate(r) /\ Walking(q))
    <3>1. req'[q] = req[q]
      BY <1>5, <2>1, OtherCalls
    <3>2. Walking(q)
      BY <1>2, <3>1 DEF Walking
    <3>3. \A x \in Requests : ~DeleteUpdate(x)
      BY <1>5, <2>1, <3>2, OneDeletion
    <3>. QED
      BY <1>0, <1>1, <1>3, <3>1, <3>2, <3>3
  <2>2. CASE DeleteUpdate(r) /\ Walking(q)
    <3>1. req[q] \in WalkCall /\ Fine(req[q])
      BY <1>0, <2>2
    <3>2. PICK c \in WalkCall :
            c = WalkRecord(req[q].pc, req[q].user, req[q].before,
                           req[q].due \ {req[r].id}, req[q].cut)
      <4>1. req[q].due \ {req[r].id} \in SUBSET Ids
        BY <1>0, <3>1
      <4>. QED
        BY <3>1, <4>1 DEF WalkRecord, WalkCall
    <3>3. req'[q] = c
      BY <1>5, <2>2, <3>2, DeleteUpdateFacts
    <3>4. Fine(c)
      BY <3>1, <3>2 DEF WalkRecord, Owes
    <3>5. \A x \in Requests : DeleteUpdate(x) => req[x].id \notin c.due
      BY <1>5, <3>2, OneDeletion DEF WalkRecord
    <3>. QED
      BY <1>1, <1>3, <3>3, <3>4, <3>5
  <2>. QED
    BY <2>1, <2>2
<1>6. ASSUME Step(q)
      PROVE  Owes(req[q].user, req[q].before, req[q].due, req[q].cut, At(q, "walk_end"))'
  <2>1. WalkStart(q) \/ WalkFindMember(q) \/ WalkPage(q)
    <3>1. ~WalkEnd(q) /\ ~Fail(q) /\ ~DeleteUpdate(q)
      BY <1>2, CallOver
    <3>2. ~(SendCheck(q) \/ SendCreate(q) \/ SendInsert(q) \/ SendGivenUp(q) \/ SendList(q)
              \/ SendStatuses(q))
      BY <1>2, SendFacts, BecomeFacts DEF Walking
    <3>3. ~(DeleteFind(q) \/ DeleteFindMember(q))
      BY <1>2, DeleteFacts, BecomeFacts DEF Walking
    <3>4. ~(MarkCheck(q) \/ MarkSelect(q) \/ MarkUpdate(q))
      BY <1>2, MarkFacts, BecomeFacts DEF Walking
    <3>. QED
      BY <1>6, <3>1, <3>2, <3>3, <3>4 DEF Step
  <2>2. \A x \in Requests : ~DeleteUpdate(x)
    <3>1. ~DeleteUpdate(q)
      BY <1>2, CallOver
    <3>. QED
      BY <1>6, <3>1, OneDeletion
  <2>3. PICK c \in WalkCall : req'[q] = c /\ WalksTo(q, c)
    <3>1. PICK call \in Call : Become(q, call) /\ (call.pc = "idle" \/ WalksTo(q, call))
      BY <2>1, WalkFacts
    <3>2. req'[q] = call /\ call \in WalkCall
      BY <1>2, <3>1, BecomeFacts, CallFields DEF Walking
    <3>. QED
      BY <1>2, <3>1, <3>2 DEF Walking
  <2>4. Fine(c)
    <3>1. CASE WalkStart(q) /\ \E u \in active : c = WalkRecord("walk_member", u, {}, Readable(u), {})
      BY <3>1 DEF WalkRecord, Owes, ListsGrow
    <3>2. CASE /\ At(q, "walk_member")
               /\ c = WalkRecord("walk_page", req[q].user, req[q].before, req[q].due, req[q].cut)
      BY <1>0, <3>2 DEF WalkRecord, Owes, At, Walking
    <3>3. ASSUME At(q, "walk_page"), NEW rows \in Newest(Selectable(q), PageSize + 1),
                 NEW page \in Newest(rows, PageSize),
                 \/ /\ rows = page
                    /\ c = WalkRecord("walk_end", req[q].user, req[q].before,
                                      req[q].due \ page, req[q].cut)
                 \/ \E last \in Oldest(page) :
                      c = WalkRecord("walk_member", req[q].user, {last},
                                     req[q].due \ page, req[q].cut \cup {last})
          PROVE  Fine(c)
      <4>1. /\ req[q] \in WalkCall
            /\ Owes(req[q].user, req[q].before, req[q].due, req[q].cut, FALSE)
        BY <1>0, <3>3 DEF At, Walking
      <4>2. /\ rows = page => Owes(req[q].user, req[q].before, req[q].due \ page, req[q].cut, TRUE)
            /\ \A last \in Oldest(page) :
                 Owes(req[q].user, {last}, req[q].due \ page, req[q].cut \cup {last}, FALSE)
        BY <3>3, <4>1, PageOwes
      <4>3. CASE /\ rows = page
                 /\ c = WalkRecord("walk_end", req[q].user, req[q].before,
                                   req[q].due \ page, req[q].cut)
        BY <4>2, <4>3 DEF WalkRecord, Owes
      <4>4. CASE \E last \in Oldest(page) :
                   c = WalkRecord("walk_member", req[q].user, {last},
                                  req[q].due \ page, req[q].cut \cup {last})
        <5>1. PICK last \in Oldest(page) :
                c = WalkRecord("walk_member", req[q].user, {last},
                               req[q].due \ page, req[q].cut \cup {last})
          BY <4>4
        <5>2. Owes(c.user, c.before, c.due, c.cut, FALSE) /\ c.pc # "walk_end"
          BY <4>2, <5>1 DEF WalkRecord
        <5>. QED
          BY <5>2 DEF Owes
      <4>. QED
        BY <3>3, <4>3, <4>4
    <3>. QED
      BY <2>3, <3>1, <3>2, <3>3 DEF WalksTo
  <2>. QED
    BY <1>1, <1>3, <2>2, <2>3, <2>4
<1>. QED
  BY <1>4, <1>5, <1>6 DEF Next

LEMMA ListsStep ==
  ASSUME ListsGrow, Next
  PROVE  ListsGrow'
<1>1. CASE UNCHANGED members
  BY <1>1 DEF members, ListsGrow
<1>2. ASSUME NEW u \in Users, Join(u) \/ Leave(u)
      PROVE  ListsGrow'
  BY <1>2 DEF Join, Leave, ListsGrow
<1>. QED
  BY <1>1, <1>2 DEF Next, Step, SendCheck, SendCreate, SendInsert, SendGivenUp, SendList,
     SendStatuses, DeleteFind, DeleteFindMember, DeleteUpdate, MarkCheck, MarkSelect, MarkUpdate,
     WalkStart, WalkFindMember, WalkPage, WalkEnd, Fail, Tick

LEMMA InitInv == Init => MessagesInv
<1>. SUFFICES ASSUME Init PROVE MessagesInv
  OBVIOUS
<1>1. TypeOK
  BY MessageConstants DEF Init, TypeOK, Row, Times, Call
<1>2. \A r \in Requests : req[r].pc = "idle"
  BY DEF Init, Idle
<1>. QED
  BY <1>1, <1>2 DEF Init, MessagesInv, NamesMessages, MarksSettled, ListsGrow, WalksOwe, Walking, At

(* Whatever sends, deletions, marks and walks overlap, and whoever comes   *)
(* and goes meanwhile: a walk still owes its client only messages before   *)
(* its cursor or with the createdAt of one, and what a markAsRead is to    *)
(* answer for has no statuses under way.                                   *)
THEOREM MessagesInvariant == Spec => []MessagesInv
<1>1. MessagesInv /\ [Next]_vars => MessagesInv'
  <2>. SUFFICES ASSUME MessagesInv, [Next]_vars PROVE MessagesInv'
    OBVIOUS
  <2>1. CASE Next
    <3>1. TypeOK'
      BY <2>1, StepTyped, MembersTyped DEF Next, MessagesInv
    <3>2. NamesMessages' /\ MarksSettled'
      BY <2>1, NamesStep, MarksStep DEF MessagesInv
    <3>3. ListsGrow' /\ WalksOwe'
      BY <2>1, ListsStep, WalksStep DEF MessagesInv
    <3>. QED
      BY <3>1, <3>2, <3>3 DEF MessagesInv
  <2>2. CASE UNCHANGED vars
    <3>1. TypeOK' /\ NamesMessages'
      BY <2>2 DEF vars, MessagesInv, TypeOK, NamesMessages, NoMessage
    <3>2. MarksSettled'
      BY <2>2 DEF vars, MessagesInv, MarksSettled, Settled, SendOver, NoMessage, At
    <3>3. ListsGrow' /\ WalksOwe'
      BY <2>2 DEF vars, MessagesInv, ListsGrow, WalksOwe, Walking, Readable, Visible, NoMessage, At
    <3>. QED
      BY <3>1, <3>2, <3>3 DEF MessagesInv
  <2>. QED
    BY <2>1, <2>2
<1>. QED
  BY <1>1, InitInv, PTL DEF Spec

(* A client that pages to the end misses only messages that share the      *)
(* createdAt of one of its cursors, for any page size and any messages     *)
(* sent, deleted and becoming visible between its pages.                   *)
THEOREM WalksAreComplete == Spec => []WalkComplete
<1>1. MessagesInv => WalkComplete
  BY DEF MessagesInv, WalksOwe, WalkComplete, Walking, At
<1>. QED
  BY <1>1, MessagesInvariant, PTL

(* What a markAsRead answered for is never unread again, whichever sends   *)
(* with whichever createdAt overlap it.                                    *)
THEOREM MarkedIsRead == Spec => []MarkedStaysRead
<1>1. MessagesInv => MarkedStaysRead
  BY DEF MessagesInv, MarksSettled, MarkedStaysRead
<1>. QED
  BY <1>1, MessagesInvariant, PTL
=============================================================================
