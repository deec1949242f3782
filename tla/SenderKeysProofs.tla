--------------------------- MODULE SenderKeysProofs ---------------------------
(* Proofs about SenderKeys, for every value of its constants.              *)
EXTENDS SenderKeys, FiniteSetTheorems, TLAPS

Nexts == {"create", "send", "share"}
Collecting == [pc : {"collect"}, client : Clients, key : Keys, next : Nexts,
               todo : SUBSET Users, got : SUBSET Users]
Distributing == [pc : {"await", "stored"}, client : Clients, key : Keys, next : Nexts, body : Body]
Uploading == [pc : {"upload"}, client : Clients, key : Keys, iter : Nat, session : Nat]

-----------------------------------------------------------------------------
(* Typing.                                                                 *)

(* The fields of a task at each of its statements.                         *)
LEMMA TaskShapes ==
  /\ \A x \in Task : /\ x.pc = "collect" => x \in Collecting
                     /\ x.pc \in {"await", "stored"} => x \in Distributing
                     /\ x.pc = "upload" => x \in Uploading
  /\ Idle \in Task /\ Idle.pc = "idle"
  /\ Collecting \subseteq Task /\ Distributing \subseteq Task /\ Uploading \subseteq Task
BY DEF Task, Idle, Collecting, Distributing, Uploading, Nexts

LEMMA BecomeTyped ==
  ASSUME TypeOK, NEW t \in Tasks, NEW x \in Task, Become(t, x)
  PROVE  /\ task' \in [Tasks -> Task]
         /\ task'[t] = x
         /\ \A s \in Tasks \ {t} : task'[s] = task[s]
BY DEF TypeOK, Become

(* The key in the memory of a page.                                        *)
LEMMA OwnTyped ==
  ASSUME TypeOK, NEW c \in Clients
  PROVE  /\ UserOf[c] \in Users
         /\ Own(c) \in {None} \cup Keys
BY SenderKeyConstants DEF TypeOK, Own, Fetched

LEMMA WorkloadClients == TypeOK => mix.clients \subseteq Clients
BY SenderKeyConstants DEF TypeOK

(* Fetched keys, less one of them.                                         *)
LEMMA LoadTyped ==
  ASSUME NEW f \in Fetched, NEW s \in Users, NEW c \in Clients
  PROVE  /\ Rest(f, s) \in Fetched
         /\ Loading(c, f) \in Load
BY DEF Fetched, Load, Rest, Loading, NoLoad

(* The fields of a load at each of its statements.                         *)
Picking == [pc : {"next"}, client : Clients, keys : Fetched]
Storing == [pc : {"ask", "set"}, client : Clients, keys : Fetched, from : Users]
LEMMA LoadShapes ==
  \A x \in Load : /\ x.pc = "next" => x \in Picking
                  /\ x.pc \in {"ask", "set"} => x \in Storing
                  /\ x.pc = "none" <=> x = NoLoad
BY DEF Load, NoLoad, Picking, Storing

LEMMA NoKeysTyped == NoKeys \in Fetched
BY DEF NoKeys, Fetched

LEMMA EncryptTyped ==
  ASSUME TypeOK, NEW t \in Tasks, NEW c \in Clients, NEW k \in Keys, Encrypt(t, c, k)
  PROVE  /\ task' \in [Tasks -> Task]
         /\ iter' \in [Clients -> Nat]
<1> DEFINE x == [pc |-> "upload", client |-> c, key |-> k, iter |-> iter[c], session |-> session[c]]
<1>1. x \in Uploading
  BY DEF Uploading, TypeOK
<1>2. x \in Task
  BY <1>1, TaskShapes
<1>3. task' \in [Tasks -> Task]
  BY <1>2, BecomeTyped DEF Encrypt
<1>4. iter' \in [Clients -> Nat]
  BY DEF Encrypt, Counted, TypeOK
<1> QED BY <1>3, <1>4

(* What follows a distribution.                                            *)
LEMMA ProceedTyped ==
  ASSUME TypeOK, NEW t \in Tasks, task[t] \in Collecting \cup Distributing, Proceed(t)
  PROVE  /\ task' \in [Tasks -> Task]
         /\ iter' \in [Clients -> Nat]
<1>1. task[t].client \in Clients /\ task[t].key \in Keys
  BY DEF Collecting, Distributing
<1>2. CASE task[t].next = "send"
  BY <1>1, <1>2, EncryptTyped DEF Proceed
<1>3. CASE task[t].next # "send"
  <2>1. Become(t, Idle) /\ UNCHANGED iter
    BY <1>3 DEF Proceed
  <2> QED BY <2>1, BecomeTyped, TaskShapes DEF TypeOK
<1> QED BY <1>2, <1>3

LEMMA InitTyped == Init => TypeOK
<1> SUFFICES ASSUME Init PROVE TypeOK
  OBVIOUS
<1>1. PICK t \in Tasks : task = [[q \in Tasks |-> Idle] EXCEPT ![t] =
        [pc |-> "collect", client |-> Home, key |-> 1, next |-> "create",
         todo |-> Founders, got |-> {}]]
  BY DEF Init
<1>2. 1 \in Keys
  BY SenderKeyConstants DEF Keys
<1>3. [pc |-> "collect", client |-> Home, key |-> 1, next |-> "create",
       todo |-> Founders, got |-> {}] \in Collecting
  BY <1>2, SenderKeyConstants DEF Collecting, Nexts
<1>4. task \in [Tasks -> Task]
  BY <1>1, <1>3, TaskShapes
<1>5. chain \in [Clients -> Fetched]
  BY <1>2, NoKeysTyped, SenderKeyConstants DEF Init, Fetched
<1>6. members \subseteq Users /\ gone \subseteq Users \ members
  BY SenderKeyConstants DEF Init
<1>7. stored \in [Users -> Fetched]
  BY NoKeysTyped DEF Init
<1>8. msgs \in Seq(Message) /\ wire \subseteq Body
  BY DEF Init
<1>9. made \in Seq(Users) /\ Len(made) <= MaxKeys
  BY SenderKeyConstants DEF Init
<1>10. /\ iter \in [Clients -> Nat] /\ known \in [Clients -> SUBSET Users]
       /\ session \in [Clients -> 0..MaxReloads] /\ load \in [Loads -> Load]
       /\ missed \subseteq Users \X Users /\ mix \in Workloads
  BY SenderKeyConstants DEF Init, Load
<1> QED BY <1>4, <1>5, <1>6, <1>7, <1>8, <1>9, <1>10 DEF TypeOK

LEMMA TaskStepsTyped ==
  ASSUME TypeOK, NEW t \in Tasks, Run(t)
  PROVE  TypeOK'
<1> USE TaskShapes
<1>1. ASSUME NEW c \in mix.clients, SendAgain(t, c) PROVE TypeOK'
  <2>1. c \in Clients /\ Own(c) \in Keys
    BY <1>1, WorkloadClients, OwnTyped DEF SendAgain
  <2> QED BY <1>1, <2>1, EncryptTyped DEF SendAgain, server, TypeOK
<1>2. ASSUME NEW c \in mix.clients, SendFirst(t, c) PROVE TypeOK'
  <2> DEFINE k == Len(made) + 1
             x == [pc |-> "collect", client |-> c, key |-> k, next |-> "send",
                   todo |-> Recipients(c), got |-> {}]
  <2>1. c \in Clients /\ UserOf[c] \in Users /\ k \in Keys
    BY <1>2, WorkloadClients, OwnTyped DEF SendFirst
  <2>2. x \in Collecting
    BY <2>1 DEF Collecting, Nexts, Recipients, TypeOK
  <2>3. task' \in [Tasks -> Task]
    BY <1>2, <2>2, BecomeTyped DEF SendFirst
  <2>4. made' \in Seq(Users) /\ Len(made') <= MaxKeys
    BY <1>2, <2>1, SenderKeyConstants DEF SendFirst, TypeOK, Keys
  <2>5. chain' \in [Clients -> Fetched]
    BY <1>2, <2>1 DEF SendFirst, TypeOK, Fetched
  <2>6. missed' \subseteq Users \X Users
    BY <1>2, <2>1 DEF SendFirst, TypeOK
  <2> QED BY <1>2, <2>3, <2>4, <2>5, <2>6 DEF SendFirst, server, TypeOK
<1>3. ASSUME NEW c \in mix.clients, NEW v \in Users, AddMember(t, c, v) PROVE TypeOK'
  <2> DEFINE x == [pc |-> "collect", client |-> c, key |-> Own(c), next |-> "share",
                   todo |-> {v}, got |-> {}]
  <2>1. c \in Clients /\ UserOf[c] \in Users /\ Own(c) \in {None} \cup Keys
    BY WorkloadClients, OwnTyped
  <2>2. task' \in [Tasks -> Task]
    <3>1. CASE Own(c) = None
      BY <1>3, <3>1 DEF AddMember, TypeOK
    <3>2. CASE Own(c) # None
      <4>1. x \in Collecting
        BY <2>1, <3>2 DEF Collecting, Nexts
      <4> QED BY <1>3, <3>2, <4>1, BecomeTyped DEF AddMember
    <3> QED BY <3>1, <3>2
  <2>3. members' \subseteq Users /\ gone' \subseteq Users \ members'
    BY <1>3 DEF AddMember, Addable, TypeOK
  <2>4. missed' \subseteq Users \X Users
    BY <1>3 DEF AddMember, TypeOK
  <2> QED BY <1>3, <2>2, <2>3, <2>4 DEF AddMember, memory, TypeOK
<1>4. CASE Collect(t)
  <2>1. task[t] \in Collecting
    BY <1>4 DEF Collect, At, TypeOK
  <2>2. PICK r \in task[t].todo :
          \/ /\ Become(t, [task[t] EXCEPT !.todo = @ \ {r}, !.got = @ \cup {r}])
             /\ UNCHANGED missed
          \/ /\ Become(t, [task[t] EXCEPT !.todo = @ \ {r}])
             /\ missed' = missed \cup {<<UserOf[task[t].client], r>>}
    BY <1>4 DEF Collect
  <2>3. r \in Users /\ UserOf[task[t].client] \in Users
    BY <2>1, <2>2, SenderKeyConstants DEF Collecting
  <2>4. /\ [task[t] EXCEPT !.todo = @ \ {r}, !.got = @ \cup {r}] \in Collecting
        /\ [task[t] EXCEPT !.todo = @ \ {r}] \in Collecting
    BY <2>1, <2>3 DEF Collecting
  <2>5. task' \in [Tasks -> Task]
    BY <2>2, <2>4, BecomeTyped
  <2>6. missed' \subseteq Users \X Users
    BY <2>2, <2>3 DEF TypeOK
  <2> QED BY <1>4, <2>5, <2>6 DEF Collect, server, memory, TypeOK
<1>5. CASE Distribute(t)
  <2>1. task[t] \in Collecting
    BY <1>5 DEF Distribute, Collected, At, TypeOK
  <2>2. BodyOf(task[t]) \in Body
    BY <2>1, SenderKeyConstants DEF BodyOf, Body, Collecting
  <2>3. [pc |-> "await", client |-> task[t].client, key |-> task[t].key,
         next |-> task[t].next, body |-> BodyOf(task[t])] \in Distributing
    BY <2>1, <2>2 DEF Distributing, Collecting
  <2>4. task' \in [Tasks -> Task]
    BY <1>5, <2>3, BecomeTyped DEF Distribute
  <2> QED BY <1>5, <2>2, <2>4 DEF Distribute, server, memory, TypeOK
<1>6. CASE DistributeNone(t)
  <2>1. task[t] \in Collecting
    BY <1>6 DEF DistributeNone, Collected, At, TypeOK
  <2> QED BY <1>6, <2>1, ProceedTyped DEF DistributeNone, server, TypeOK
<1>7. CASE Distributed(t)
  <2>1. task[t] \in Distributing
    BY <1>7 DEF Distributed, At, TypeOK
  <2> QED BY <1>7, <2>1, ProceedTyped DEF Distributed, server, TypeOK
<1>8. CASE AnswerLost(t)
  BY <1>8, BecomeTyped DEF AnswerLost, server, memory, TypeOK
<1>9. CASE Upload(t)
  <2>1. task[t] \in Uploading
    BY <1>9 DEF Upload, At, TypeOK
  <2>2. msgs' \in Seq(Message)
    BY <1>9, <2>1, SenderKeyConstants DEF Upload, Message, Uploading, TypeOK
  <2>3. task' \in [Tasks -> Task]
    BY <1>9, BecomeTyped DEF Upload
  <2> QED BY <1>9, <2>2, <2>3 DEF Upload, memory, TypeOK
<1>10. CASE UploadFails(t)
  BY <1>10, BecomeTyped DEF UploadFails, server, memory, TypeOK
<1> QED BY <1>1, <1>2, <1>3, <1>4, <1>5, <1>6, <1>7, <1>8, <1>9, <1>10 DEF Run

LEMMA PageStepsTyped ==
  ASSUME TypeOK, NEW c \in mix.clients, Page(c)
  PROVE  TypeOK'
<1>0. c \in Clients /\ UserOf[c] \in Users
  BY WorkloadClients, OwnTyped
<1>1. CASE LoadChat(c)
  BY <1>0, <1>1 DEF LoadChat, server, TypeOK
<1>2. ASSUME NEW l \in Loads, LoadKeys(c, l) PROVE TypeOK'
  <2>1. [s \in Users |-> stored[s][UserOf[c]]] \in Fetched
    BY <1>0 DEF TypeOK, Fetched
  <2>2. load' \in [Loads -> Load]
    BY <1>0, <1>2, <2>1 DEF LoadKeys, Load, TypeOK
  <2> QED BY <1>2, <2>2 DEF LoadKeys, server, memory, TypeOK
<1>5. CASE Reload(c)
  <2>1. task' \in [Tasks -> Task]
    BY <1>5, TaskShapes DEF Reload, TypeOK
  <2>2. session' \in [Clients -> 0..MaxReloads]
    BY <1>0, <1>5, SenderKeyConstants DEF Reload, TypeOK
  <2>3. /\ chain' \in [Clients -> Fetched] /\ iter' \in [Clients -> Nat]
        /\ known' \in [Clients -> SUBSET Users] /\ load' \in [Loads -> Load]
    BY <1>0, <1>5, NoKeysTyped DEF Reload, TypeOK, Load
  <2>4. missed' \subseteq Users \X Users
    <3>1. \A t \in Tasks : At(t, "collect") => task[t].todo \cup task[t].got \subseteq Users
      BY TaskShapes DEF TypeOK, At, Collecting
    <3> QED BY <1>0, <1>5, <3>1 DEF Reload, TypeOK
  <2> QED BY <1>5, <2>1, <2>2, <2>3, <2>4 DEF Reload, server, TypeOK
<1>6. ASSUME NEW s \in Users, NEW l \in Loads, LookUp(c, s, l) PROVE TypeOK'
  <2>1. load' \in [Loads -> Load]
    BY <1>0, <1>6, NoKeysTyped DEF LookUp, Load, TypeOK
  <2> QED BY <1>6, <2>1 DEF LookUp, server, memory, TypeOK
<1> QED BY <1>1, <1>2, <1>5, <1>6 DEF Page

LEMMA FetchStepsTyped ==
  ASSUME TypeOK, NEW l \in Loads, Fetch(l)
  PROVE  TypeOK'
<1>1. CASE LoadNext(l)
  <2> DEFINE c == load[l].client
             keys == load[l].keys
  <2>1. load[l] \in Picking /\ c \in Clients /\ keys \in Fetched
    BY <1>1, LoadShapes DEF LoadNext, TypeOK, Picking
  <2>2. PICK s \in Users :
          load' = [load EXCEPT ![l] =
            IF chain[c][s] # None THEN Loading(c, Rest(keys, s))
            ELSE [pc |-> "set", client |-> c, keys |-> keys, from |-> s]]
    BY <1>1 DEF LoadNext
  <2>3. Loading(c, Rest(keys, s)) \in Load
    BY <2>1, LoadTyped
  <2>4. [pc |-> "set", client |-> c, keys |-> keys, from |-> s] \in Load
    BY <2>1 DEF Load
  <2>5. load' \in [Loads -> Load]
    BY <2>2, <2>3, <2>4 DEF TypeOK
  <2> QED BY <1>1, <2>5 DEF LoadNext, server, memory, TypeOK
<1>2. CASE LookUpAnswer(l)
  <2> DEFINE c == load[l].client
             s == load[l].from
             k == stored[s][UserOf[c]]
  <2>1. load[l] \in Storing /\ c \in Clients /\ s \in Users /\ UserOf[c] \in Users
    BY <1>2, LoadShapes, SenderKeyConstants DEF LookUpAnswer, TypeOK, Storing
  <2>2. k \in {None} \cup Keys
    BY <2>1 DEF TypeOK, Fetched
  <2>3. [NoKeys EXCEPT ![s] = k] \in Fetched
    BY <2>2, NoKeysTyped DEF Fetched
  <2>4. [pc |-> "set", client |-> c, keys |-> [NoKeys EXCEPT ![s] = k], from |-> s] \in Load /\ NoLoad \in Load
    BY <2>1, <2>3 DEF Load
  <2>5. load' \in [Loads -> Load]
    BY <1>2, <2>4 DEF LookUpAnswer, TypeOK
  <2> QED BY <1>2, <2>5 DEF LookUpAnswer, server, memory, TypeOK
<1>3. CASE LoadSet(l)
  <2> DEFINE c == load[l].client
             s == load[l].from
  <2>1. load[l] \in Storing /\ c \in Clients /\ s \in Users /\ load[l].keys \in Fetched
    BY <1>3, LoadShapes DEF LoadSet, TypeOK, Storing
  <2>2. chain' \in [Clients -> Fetched]
    BY <1>3, <2>1 DEF LoadSet, TypeOK, Fetched
  <2>3. Loading(c, Rest(load[l].keys, s)) \in Load
    BY <2>1, LoadTyped
  <2>4. load' \in [Loads -> Load]
    BY <1>3, <2>3 DEF LoadSet, TypeOK
  <2> QED BY <1>3, <2>2, <2>4 DEF LoadSet, server, TypeOK
<1> QED BY <1>1, <1>2, <1>3 DEF Fetch

LEMMA WireStepsTyped ==
  ASSUME TypeOK, NEW b \in wire, Upsert(b) \/ UpsertFails(b)
  PROVE  TypeOK'
<1>0. b \in Body
  BY DEF TypeOK
<1>1. CASE Upsert(b)
  <2>1. stored' \in [Users -> Fetched]
    BY <1>0, <1>1 DEF Upsert, UpsertMany, Body, Fetched, TypeOK
  <2>2. \A t \in Waiting(b) : [task[t] EXCEPT !.pc = "stored"] \in Distributing
    <3> SUFFICES ASSUME NEW t \in Waiting(b) PROVE [task[t] EXCEPT !.pc = "stored"] \in Distributing
      OBVIOUS
    <3>1. task[t] \in Distributing
      BY TaskShapes DEF Waiting, At, TypeOK
    <3> QED BY <3>1 DEF Distributing
  <2>3. task' \in [Tasks -> Task]
    BY <1>1, <2>2, TaskShapes DEF Upsert, TypeOK
  <2> QED BY <1>1, <2>1, <2>3 DEF Upsert, memory, TypeOK
<1>2. CASE UpsertFails(b)
  <2>1. task' \in [Tasks -> Task]
    BY <1>2, TaskShapes DEF UpsertFails, TypeOK
  <2>2. missed' \subseteq Users \X Users
    BY <1>0, <1>2 DEF UpsertFails, Body, TypeOK
  <2> QED BY <1>2, <2>1, <2>2 DEF UpsertFails, server, memory, TypeOK
<1> QED BY <1>1, <1>2

LEMMA NextTyped == TypeOK /\ [Next]_vars => TypeOK'
<1> SUFFICES ASSUME TypeOK, [Next]_vars PROVE TypeOK'
  OBVIOUS
<1>1. ASSUME NEW v \in Users, Leave(v) PROVE TypeOK'
  BY <1>1 DEF Leave, memory, TypeOK
<1>2. CASE UNCHANGED vars
  BY <1>2 DEF vars, server, memory, TypeOK
<1> QED BY <1>1, <1>2, TaskStepsTyped, PageStepsTyped, FetchStepsTyped, WireStepsTyped DEF Next

(* Every reachable state is well typed, for any users, pages and slots:    *)
(* what is generated, distributed, loaded and sent stays within its kind.  *)
THEOREM SenderKeysTyped == Spec => []TypeOK
BY InitTyped, NextTyped, PTL DEF Spec

-----------------------------------------------------------------------------
(* No message key is used twice.                                           *)

KeysInv == EverythingSpent /\ Unlike

LEMMA UnlikeMeansNoReuse == KeysInv => NoKeyReuse
BY DEF KeysInv, Unlike, Alike, NoKeyReuse

LEMMA InitSpent == Init => KeysInv
BY DEF Init, KeysInv, EverythingSpent, Unlike, Sealed, At, Idle

(* A step that seals nothing and stores nothing.                           *)
Quiet ==
  /\ \A t \in Tasks : Sealed(t)' => Sealed(t) /\ task'[t] = task[t]
  /\ UNCHANGED <<msgs, iter, session>>

LEMMA QuietSteps == KeysInv /\ Quiet => KeysInv'
BY DEF KeysInv, EverythingSpent, Unlike, Spent, Alike, Quiet

(* handleSend takes the iteration and counts it: what was spent before is  *)
(* before it.                                                              *)
LEMMA EncryptSteps ==
  ASSUME TypeOK, KeysInv, NEW t \in Tasks, NEW c \in Clients, NEW k \in Keys,
         Encrypt(t, c, k), UNCHANGED <<msgs, session>>
  PROVE  KeysInv'
<1> DEFINE x == [pc |-> "upload", client |-> c, key |-> k, iter |-> iter[c], session |-> session[c]]
<1>1. /\ task'[t] = x
      /\ \A s \in Tasks \ {t} : task'[s] = task[s]
  BY DEF Encrypt, Become, TypeOK
<1>2. /\ iter'[c] = iter[c] + 1 /\ iter[c] \in Nat /\ session[c] \in Nat
      /\ \A d \in Clients \ {c} : iter'[d] = iter[d]
  BY SenderKeyConstants DEF Encrypt, Counted, TypeOK
<1>3. \A y : Spent(y) => Spent(y)' /\ ~Alike(x, y) /\ ~Alike(y, x)
  BY <1>2 DEF Spent, Alike, TypeOK
<1>4. \A y : y = x => Spent(y)'
  BY <1>2 DEF Spent
<1>5. EverythingSpent'
  BY <1>1, <1>3, <1>4 DEF KeysInv, EverythingSpent, Sealed, At
<1>6. Unlike'
  BY <1>1, <1>3 DEF KeysInv, EverythingSpent, Unlike, Sealed, At
<1> QED BY <1>5, <1>6 DEF KeysInv

LEMMA ProceedSteps ==
  ASSUME TypeOK, KeysInv, NEW t \in Tasks, task[t] \in Collecting \cup Distributing,
         Proceed(t), UNCHANGED <<msgs, session>>
  PROVE  KeysInv'
<1>1. CASE task[t].next = "send"
  BY <1>1, EncryptSteps DEF Proceed, Collecting, Distributing
<1>2. CASE task[t].next # "send"
  <2>1. Quiet
    BY <1>2 DEF Proceed, Quiet, Become, Sealed, At, Idle, TypeOK
  <2> QED BY <2>1, QuietSteps
<1> QED BY <1>1, <1>2

(* The stored message is the one that was sealed, which is so no more.     *)
LEMMA UploadSteps ==
  ASSUME TypeOK, KeysInv, NEW t \in Tasks, Upload(t)
  PROVE  KeysInv'
<1> DEFINE x == task[t]
           m == [from |-> UserOf[x.client], key |-> x.key, iter |-> x.iter, client |-> x.client,
                 session |-> x.session, to |-> members]
<1>1. /\ msgs' = Append(msgs, m) /\ UNCHANGED <<iter, session>> /\ msgs \in Seq(Message)
      /\ Sealed(t) /\ Spent(x)
  BY DEF Upload, memory, TypeOK, KeysInv, EverythingSpent, Sealed
<1>2. /\ DOMAIN msgs' = DOMAIN msgs \cup {Len(msgs) + 1}
      /\ \A i \in DOMAIN msgs : msgs'[i] = msgs[i] /\ i # Len(msgs) + 1
      /\ msgs'[Len(msgs) + 1] = m
  BY <1>1
<1>3. \A s \in Tasks : Sealed(s)' => s # t /\ Sealed(s) /\ task'[s] = task[s]
  BY DEF Upload, Become, Sealed, At, Idle, TypeOK
<1>4. \A y : Spent(y) \/ y = m => Spent(y)'
  BY <1>1 DEF Spent
<1>5. \A y : (Alike(m, y) <=> Alike(x, y)) /\ (Alike(y, m) <=> Alike(x, y))
  BY DEF Alike
<1>6. EverythingSpent'
  BY <1>2, <1>3, <1>4 DEF KeysInv, EverythingSpent
<1>7. Unlike'
  BY <1>1, <1>2, <1>3, <1>5 DEF KeysInv, Unlike
<1> QED BY <1>6, <1>7 DEF KeysInv

(* A reloaded page begins a session: what was spent is of an earlier one.  *)
LEMMA ReloadSteps ==
  ASSUME TypeOK, KeysInv, NEW c \in Clients, Reload(c)
  PROVE  KeysInv'
<1>1. /\ session[c] \in Nat /\ session'[c] = session[c] + 1
      /\ \A d \in Clients \ {c} : session'[d] = session[d] /\ iter'[d] = iter[d]
  BY SenderKeyConstants DEF Reload, TypeOK
<1>2. \A t \in Tasks : Sealed(t)' => Sealed(t) /\ task'[t] = task[t]
  BY DEF Reload, Sealed, At, Idle, TypeOK
<1>3. \A y : Spent(y) => Spent(y)'
  BY <1>1 DEF Spent
<1>4. UNCHANGED msgs
  BY DEF Reload, server
<1> QED BY <1>2, <1>3, <1>4 DEF KeysInv, EverythingSpent, Unlike

LEMMA TaskStepsSpent ==
  ASSUME TypeOK, KeysInv, NEW t \in Tasks, Run(t)
  PROVE  KeysInv'
<1>1. ASSUME NEW c \in mix.clients, SendAgain(t, c) PROVE KeysInv'
  <2>1. c \in Clients /\ Own(c) \in Keys
    BY <1>1, WorkloadClients, OwnTyped DEF SendAgain
  <2> QED BY <1>1, <2>1, EncryptSteps DEF SendAgain, server
<1>2. ASSUME NEW c \in mix.clients, SendFirst(t, c) PROVE KeysInv'
  <2>1. Quiet
    BY <1>2 DEF SendFirst, Quiet, Become, Sealed, At, server, TypeOK
  <2> QED BY <2>1, QuietSteps
<1>3. ASSUME NEW c \in mix.clients, NEW v \in Users, AddMember(t, c, v) PROVE KeysInv'
  <2>1. Quiet
    <3>1. CASE Own(c) = None
      BY <1>3, <3>1 DEF AddMember, Quiet, Sealed, At, memory
    <3>2. CASE Own(c) # None
      BY <1>3, <3>2 DEF AddMember, Quiet, Become, Sealed, At, memory, TypeOK
    <3> QED BY <3>1, <3>2
  <2> QED BY <2>1, QuietSteps
<1>4. CASE Collect(t)
  <2>1. task[t] \in Collecting
    BY <1>4, TaskShapes DEF Collect, At, TypeOK
  <2>2. \A s \in Tasks : Sealed(s)' => Sealed(s) /\ task'[s] = task[s]
    <3>1. PICK x : x.pc = "collect" /\ Become(t, x)
      BY <1>4, <2>1 DEF Collect, Collecting
    <3>2. task'[t] = x /\ \A s \in Tasks \ {t} : task'[s] = task[s]
      BY <3>1 DEF Become, TypeOK
    <3>. QED
      BY <3>1, <3>2 DEF Sealed, At
  <2>3. Quiet
    BY <1>4, <2>2 DEF Collect, Quiet, server, memory
  <2> QED BY <2>3, QuietSteps
<1>5. CASE Distribute(t)
  <2>1. Quiet
    BY <1>5 DEF Distribute, Quiet, Become, Sealed, At, server, memory, TypeOK
  <2> QED BY <2>1, QuietSteps
<1>6. CASE DistributeNone(t)
  <2>1. task[t] \in Collecting
    BY <1>6, TaskShapes DEF DistributeNone, Collected, At, TypeOK
  <2> QED BY <1>6, <2>1, ProceedSteps DEF DistributeNone, server
<1>7. CASE Distributed(t)
  <2>1. task[t] \in Distributing
    BY <1>7, TaskShapes DEF Distributed, At, TypeOK
  <2> QED BY <1>7, <2>1, ProceedSteps DEF Distributed, server
<1>8. CASE AnswerLost(t)
  <2>1. Quiet
    BY <1>8 DEF AnswerLost, Quiet, Become, Sealed, At, Idle, server, memory, TypeOK
  <2> QED BY <2>1, QuietSteps
<1>9. CASE Upload(t)
  BY <1>9, UploadSteps
<1>10. CASE UploadFails(t)
  <2>1. Quiet
    BY <1>10 DEF UploadFails, Quiet, Become, Sealed, At, Idle, server, memory, TypeOK
  <2> QED BY <2>1, QuietSteps
<1> QED BY <1>1, <1>2, <1>3, <1>4, <1>5, <1>6, <1>7, <1>8, <1>9, <1>10 DEF Run

(* The other steps of a page, of the network and of a member seal nothing. *)
LEMMA OtherStepsSpent ==
  ASSUME TypeOK, KeysInv,
         \/ \E c \in mix.clients : Page(c)
         \/ \E l \in Loads : Fetch(l)
         \/ \E b \in wire : Upsert(b) \/ UpsertFails(b)
         \/ \E v \in Users : Leave(v)
         \/ UNCHANGED vars
  PROVE  KeysInv'
<1>1. ASSUME NEW c \in mix.clients, Reload(c) PROVE KeysInv'
  BY <1>1, WorkloadClients, ReloadSteps
<1>2. ASSUME NEW c \in mix.clients, Page(c), ~Reload(c) PROVE KeysInv'
  <2>1. Quiet
    BY <1>2 DEF Page, LoadChat, LoadKeys, LookUp, Quiet, Sealed, At, server, memory
  <2> QED BY <2>1, QuietSteps
<1>3. ASSUME NEW b \in wire, Upsert(b) \/ UpsertFails(b) PROVE KeysInv'
  <2>1. \A t \in Tasks : Sealed(t)' => Sealed(t) /\ task'[t] = task[t]
    <3>1. CASE Upsert(b)
      <4>1. \A t \in Waiting(b) : task[t] \in Distributing
        BY TaskShapes DEF Waiting, At, TypeOK
      <4>2. \A t \in Waiting(b) : [task[t] EXCEPT !.pc = "stored"].pc = "stored"
        BY <4>1 DEF Distributing
      <4> QED BY <3>1, <4>2 DEF Upsert, Sealed, At
    <3>2. CASE UpsertFails(b)
      BY <3>2 DEF UpsertFails, Sealed, At, Idle
    <3> QED BY <1>3, <3>1, <3>2
  <2>2. Quiet
    BY <1>3, <2>1 DEF Upsert, UpsertFails, Quiet, server, memory
  <2> QED BY <2>2, QuietSteps
<1>4. ASSUME NEW v \in Users, Leave(v) PROVE KeysInv'
  <2>1. Quiet
    BY <1>4 DEF Leave, Quiet, Sealed, At, memory
  <2> QED BY <2>1, QuietSteps
<1>5. CASE UNCHANGED vars
  <2>1. Quiet
    BY <1>5 DEF vars, Quiet, Sealed, At, server, memory
  <2> QED BY <2>1, QuietSteps
<1>6. ASSUME NEW l \in Loads, Fetch(l) PROVE KeysInv'
  <2>1. Quiet
    BY <1>6 DEF Fetch, LoadNext, LookUpAnswer, LoadSet, Quiet, Sealed, At, server, memory
  <2> QED BY <2>1, QuietSteps
<1> QED BY <1>1, <1>2, <1>3, <1>4, <1>5, <1>6

LEMMA NextSpent == TypeOK /\ KeysInv /\ [Next]_vars => KeysInv'
BY TaskStepsSpent, OtherStepsSpent DEF Next

(* Two messages of a page never share a message key between two reloads,   *)
(* for any number of sends, keys, pages and reloads.                       *)
THEOREM NoMessageKeyReused == Spec => []NoKeyReuse
<1>1. Spec => []KeysInv
  BY InitSpent, NextSpent, SenderKeysTyped, PTL DEF Spec
<1> QED BY <1>1, UnlikeMeansNoReuse, PTL

-----------------------------------------------------------------------------
(* Every key is of the user who made it.                                   *)

ChainTheirs == \A c \in Clients : Theirs(chain[c])
LoadTheirs == \A l \in Loads : load[l] # NoLoad => Theirs(load[l].keys)
StoredTheirs == \A s, r \in Users : stored[s][r] # None => stored[s][r] \in MadeBy(s)
TaskTheirs == \A t \in Tasks : task[t] # Idle => task[t].key \in MadeBy(UserOf[task[t].client])
WireTheirs == \A b \in wire : b.key \in MadeBy(b.from)
MsgsTheirs == \A i \in DOMAIN msgs : msgs[i].key \in MadeBy(msgs[i].from)

(* What is generated is not forgotten.                                     *)
LEMMA MadeGrows ==
  ASSUME TypeOK, NEW u \in Users, made' = Append(made, u)
  PROVE  /\ \A s : MadeBy(s) \subseteq MadeBy(s)'
         /\ \A s : s # u => MadeBy(s)' = MadeBy(s)
         /\ MadeBy(u)' = MadeBy(u) \cup {Len(made) + 1}
         /\ \A s : Len(made) + 1 \notin MadeBy(s)
<1>1. made \in Seq(Users)
  BY DEF TypeOK
<1>2. /\ DOMAIN made' = DOMAIN made \cup {Len(made) + 1}
      /\ Len(made) + 1 \notin DOMAIN made
      /\ \A k \in DOMAIN made : made'[k] = made[k]
      /\ made'[Len(made) + 1] = u
  BY <1>1
<1>. QED
  BY <1>2 DEF MadeBy

LEMMA MadeStays ==
  ASSUME UNCHANGED made
  PROVE  \A s : MadeBy(s)' = MadeBy(s)
BY DEF MadeBy

(* Where nothing is generated, what does not change is theirs as before.   *)
LEMMA MakerKept ==
  ASSUME KeysOfTheirMaker, UNCHANGED made,
         UNCHANGED chain \/ ChainTheirs', UNCHANGED load \/ LoadTheirs',
         UNCHANGED stored \/ StoredTheirs', UNCHANGED task \/ TaskTheirs',
         UNCHANGED wire \/ WireTheirs', UNCHANGED msgs \/ MsgsTheirs'
  PROVE  KeysOfTheirMaker'
<1>1. \A keys : Theirs(keys)' <=> Theirs(keys)
  BY MadeStays DEF Theirs
<1>2. ChainTheirs' /\ LoadTheirs'
  BY <1>1 DEF KeysOfTheirMaker, ChainTheirs, LoadTheirs
<1>3. StoredTheirs'
  BY MadeStays DEF KeysOfTheirMaker, StoredTheirs
<1>4. TaskTheirs'
  BY MadeStays DEF KeysOfTheirMaker, TaskTheirs
<1>5. WireTheirs' /\ MsgsTheirs'
  BY MadeStays DEF KeysOfTheirMaker, WireTheirs, MsgsTheirs
<1>. QED
  BY <1>2, <1>3, <1>4, <1>5
     DEF KeysOfTheirMaker, ChainTheirs, LoadTheirs, StoredTheirs, TaskTheirs, WireTheirs, MsgsTheirs

LEMMA InitTheirs == Init => KeysOfTheirMaker
<1>. SUFFICES ASSUME Init PROVE KeysOfTheirMaker
  OBVIOUS
<1>1. MadeBy(Creator) = {1}
  BY DEF Init, MadeBy
<1>2. ChainTheirs
  BY <1>1, SenderKeyConstants DEF Init, ChainTheirs, Theirs, NoKeys
<1>3. TaskTheirs
  BY <1>1, SenderKeyConstants DEF Init, TaskTheirs
<1>4. LoadTheirs /\ StoredTheirs /\ WireTheirs /\ MsgsTheirs
  BY DEF Init, LoadTheirs, StoredTheirs, WireTheirs, MsgsTheirs, NoKeys
<1>. QED
  BY <1>2, <1>3, <1>4
     DEF KeysOfTheirMaker, ChainTheirs, LoadTheirs, StoredTheirs, TaskTheirs, WireTheirs, MsgsTheirs

(* A slot goes on with the key and for the client it had, or with one of   *)
(* the client's user; the others are as they were, or idle.                *)
LEMMA BecomeTheirs ==
  ASSUME TypeOK, KeysOfTheirMaker, UNCHANGED made, NEW t \in Tasks, NEW x \in Task, Become(t, x),
         x = Idle \/ x.key \in MadeBy(UserOf[x.client])
  PROVE  TaskTheirs'
<1>1. task'[t] = x /\ \A q \in Tasks \ {t} : task'[q] = task[q]
  BY BecomeTyped
<1>. QED
  BY <1>1, MadeStays DEF KeysOfTheirMaker, TaskTheirs

LEMMA OwnTheirs ==
  ASSUME TypeOK, KeysOfTheirMaker, NEW c \in Clients, Own(c) # None
  PROVE  Own(c) \in MadeBy(UserOf[c])
BY OwnTyped DEF KeysOfTheirMaker, Theirs, Own

LEMMA EncryptTheirs ==
  ASSUME TypeOK, KeysOfTheirMaker, UNCHANGED made, NEW t \in Tasks, NEW c \in Clients, NEW k \in Keys,
         Encrypt(t, c, k), k \in MadeBy(UserOf[c])
  PROVE  TaskTheirs'
<1> DEFINE x == [pc |-> "upload", client |-> c, key |-> k, iter |-> iter[c], session |-> session[c]]
<1>1. x \in Uploading
  BY DEF Uploading, TypeOK
<1>2. x \in Task
  BY <1>1, TaskShapes
<1>. QED
  BY <1>2, BecomeTheirs DEF Encrypt

LEMMA ProceedTheirs ==
  ASSUME TypeOK, KeysOfTheirMaker, UNCHANGED made, NEW t \in Tasks,
         task[t] \in Collecting \cup Distributing, Proceed(t)
  PROVE  TaskTheirs'
<1>1. task[t].client \in Clients /\ task[t].key \in Keys /\ task[t] # Idle
  BY DEF Collecting, Distributing, Idle
<1>2. task[t].key \in MadeBy(UserOf[task[t].client])
  BY <1>1 DEF KeysOfTheirMaker
<1>3. CASE task[t].next = "send"
  BY <1>1, <1>2, <1>3, EncryptTheirs DEF Proceed
<1>4. CASE task[t].next # "send"
  BY <1>4, BecomeTheirs, TaskShapes DEF Proceed
<1>. QED
  BY <1>3, <1>4

LEMMA SendFirstTheirs ==
  ASSUME TypeOK, KeysOfTheirMaker, NEW t \in Tasks, NEW c \in Clients, SendFirst(t, c)
  PROVE  KeysOfTheirMaker'
<1> DEFINE u == UserOf[c]
           k == Len(made) + 1
           x == [pc |-> "collect", client |-> c, key |-> k, next |-> "send",
                 todo |-> Recipients(c), got |-> {}]
<1>0. u \in Users
  BY OwnTyped
<1>1. /\ \A s : MadeBy(s) \subseteq MadeBy(s)'
      /\ MadeBy(u)' = MadeBy(u) \cup {k}
  BY <1>0, MadeGrows DEF SendFirst
<1>2. \A keys : Theirs(keys) => Theirs(keys)'
  BY <1>1 DEF Theirs
<1>3. ChainTheirs'
  <2>1. /\ \A d \in Clients, s \in Users : <<d, s>> # <<c, u>> => chain'[d][s] = chain[d][s]
        /\ chain'[c][u] = k
    BY <1>0 DEF SendFirst, TypeOK, Fetched
  <2>. QED
    BY <1>1, <2>1 DEF ChainTheirs, Theirs, KeysOfTheirMaker
<1>4. LoadTheirs'
  BY <1>2 DEF SendFirst, KeysOfTheirMaker, LoadTheirs
<1>5. StoredTheirs' /\ WireTheirs' /\ MsgsTheirs'
  BY <1>1 DEF SendFirst, server, KeysOfTheirMaker, StoredTheirs, WireTheirs, MsgsTheirs
<1>6. TaskTheirs'
  <2>1. /\ task'[t] = x
        /\ \A q \in Tasks \ {t} : task'[q] = task[q]
    BY DEF SendFirst, Become, TypeOK
  <2>2. x.key = k /\ x.client = c
    OBVIOUS
  <2>. QED
    BY <1>1, <2>1, <2>2 DEF KeysOfTheirMaker, TaskTheirs
<1>. QED
  BY <1>3, <1>4, <1>5, <1>6
     DEF KeysOfTheirMaker, ChainTheirs, LoadTheirs, StoredTheirs, TaskTheirs, WireTheirs, MsgsTheirs

LEMMA TaskStepsTheirs ==
  ASSUME TypeOK, KeysOfTheirMaker, NEW t \in Tasks, Run(t)
  PROVE  KeysOfTheirMaker'
<1>1. ASSUME NEW c \in mix.clients, SendAgain(t, c) PROVE KeysOfTheirMaker'
  <2>1. c \in Clients /\ Own(c) \in Keys /\ Own(c) \in MadeBy(UserOf[c])
    BY <1>1, WorkloadClients, OwnTyped, OwnTheirs DEF SendAgain
  <2>2. TaskTheirs'
    BY <1>1, <2>1, EncryptTheirs DEF SendAgain
  <2>. QED
    BY <1>1, <2>2, MakerKept DEF SendAgain, server
<1>2. ASSUME NEW c \in mix.clients, SendFirst(t, c) PROVE KeysOfTheirMaker'
  BY <1>2, WorkloadClients, SendFirstTheirs
<1>3. ASSUME NEW c \in mix.clients, NEW v \in Users, AddMember(t, c, v) PROVE KeysOfTheirMaker'
  <2> DEFINE x == [pc |-> "collect", client |-> c, key |-> Own(c), next |-> "share",
                   todo |-> {v}, got |-> {}]
  <2>1. c \in Clients /\ Own(c) \in {None} \cup Keys
    BY WorkloadClients, OwnTyped
  <2>2. UNCHANGED task \/ TaskTheirs'
    <3>1. CASE Own(c) # None
      <4>1. x \in Task
        <5>1. x \in Collecting
          BY <2>1, <3>1 DEF Collecting, Nexts
        <5>. QED
          BY <5>1, TaskShapes
      <4>2. Own(c) \in MadeBy(UserOf[c])
        BY <2>1, <3>1, OwnTheirs
      <4>3. Become(t, x) /\ UNCHANGED made
        BY <1>3, <3>1 DEF AddMember
      <4>4. x.key \in MadeBy(UserOf[x.client])
        BY <4>2
      <4>. QED
        BY <4>1, <4>3, <4>4, BecomeTheirs
    <3>. QED
      BY <1>3, <3>1 DEF AddMember
  <2>. QED
    BY <1>3, <2>2, MakerKept DEF AddMember, memory
<1>4. CASE Collect(t)
  <2>1. task[t] \in Collecting /\ task[t] # Idle
    BY <1>4, TaskShapes DEF Collect, At, TypeOK
  <2>2. PICK r \in task[t].todo :
          \/ Become(t, [task[t] EXCEPT !.todo = @ \ {r}, !.got = @ \cup {r}])
          \/ Become(t, [task[t] EXCEPT !.todo = @ \ {r}])
    BY <1>4 DEF Collect
  <2>3. r \in Users
    BY <2>1 DEF Collecting
  <2>4. TaskTheirs'
    <3> DEFINE x == [task[t] EXCEPT !.todo = @ \ {r}, !.got = @ \cup {r}]
               y == [task[t] EXCEPT !.todo = @ \ {r}]
    <3>1. x \in Collecting /\ y \in Collecting
      BY <2>1, <2>3 DEF Collecting
    <3>2. x.key = task[t].key /\ y.key = task[t].key
      BY <2>1 DEF Collecting
    <3>3. x.client = task[t].client /\ y.client = task[t].client
      BY <2>1 DEF Collecting
    <3>4. x.key \in MadeBy(UserOf[x.client]) /\ y.key \in MadeBy(UserOf[y.client])
      BY <2>1, <3>2, <3>3 DEF KeysOfTheirMaker
    <3>5. Become(t, x) \/ Become(t, y)
      BY <2>2
    <3> HIDE DEF x, y
    <3>6. UNCHANGED made /\ x \in Task /\ y \in Task
      BY <1>4, <3>1, TaskShapes DEF Collect
    <3>7. CASE Become(t, x)
      BY <3>4, <3>6, <3>7, BecomeTheirs
    <3>8. CASE Become(t, y)
      BY <3>4, <3>6, <3>8, BecomeTheirs
    <3>. QED
      BY <3>5, <3>7, <3>8
  <2>. QED
    BY <1>4, <2>4, MakerKept DEF Collect, server, memory
<1>5. CASE Distribute(t)
  <2> DEFINE x == [pc |-> "await", client |-> task[t].client, key |-> task[t].key,
                   next |-> task[t].next, body |-> BodyOf(task[t])]
  <2>1. task[t] \in Collecting /\ task[t] # Idle
    BY <1>5, TaskShapes DEF Distribute, Collected, At, TypeOK
  <2>2. task[t].key \in MadeBy(UserOf[task[t].client])
    BY <2>1 DEF KeysOfTheirMaker
  <2>3. x \in Task
    <3>1. BodyOf(task[t]) \in Body
      BY <2>1, SenderKeyConstants DEF BodyOf, Body, Collecting
    <3>2. x \in Distributing
      BY <2>1, <3>1 DEF Distributing, Collecting
    <3>. QED
      BY <3>2, TaskShapes
  <2>4. TaskTheirs'
    BY <1>5, <2>2, <2>3, BecomeTheirs DEF Distribute
  <2>5. WireTheirs'
    BY <1>5, <2>2, MadeStays DEF Distribute, BodyOf, KeysOfTheirMaker, WireTheirs
  <2>. QED
    BY <1>5, <2>4, <2>5, MakerKept DEF Distribute, server, memory
<1>6. CASE DistributeNone(t)
  <2>1. task[t] \in Collecting
    BY <1>6, TaskShapes DEF DistributeNone, Collected, At, TypeOK
  <2>2. TaskTheirs'
    BY <1>6, <2>1, ProceedTheirs DEF DistributeNone
  <2>. QED
    BY <1>6, <2>2, MakerKept DEF DistributeNone, server
<1>7. CASE Distributed(t)
  <2>1. task[t] \in Distributing
    BY <1>7, TaskShapes DEF Distributed, At, TypeOK
  <2>2. TaskTheirs'
    BY <1>7, <2>1, ProceedTheirs DEF Distributed
  <2>. QED
    BY <1>7, <2>2, MakerKept DEF Distributed, server
<1>8. CASE AnswerLost(t)
  <2>1. TaskTheirs'
    BY <1>8, BecomeTheirs, TaskShapes DEF AnswerLost
  <2>. QED
    BY <1>8, <2>1, MakerKept DEF AnswerLost, server, memory
<1>9. CASE Upload(t)
  <2> DEFINE x == task[t]
             m == [from |-> UserOf[x.client], key |-> x.key, iter |-> x.iter, client |-> x.client,
                   session |-> x.session, to |-> members]
  <2>1. x \in Uploading /\ x # Idle
    BY <1>9, TaskShapes DEF Upload, At, TypeOK
  <2>2. m.key \in MadeBy(m.from)
    BY <2>1 DEF KeysOfTheirMaker
  <2>3. msgs' = Append(msgs, m) /\ msgs \in Seq(Message)
    BY <1>9 DEF Upload, TypeOK
  <2>4. /\ DOMAIN msgs' = DOMAIN msgs \cup {Len(msgs) + 1}
        /\ \A i \in DOMAIN msgs : msgs'[i] = msgs[i]
        /\ msgs'[Len(msgs) + 1] = m
    BY <2>3
  <2>5. MsgsTheirs'
    BY <1>9, <2>2, <2>4, MadeStays DEF Upload, KeysOfTheirMaker, MsgsTheirs
  <2>6. TaskTheirs'
    BY <1>9, BecomeTheirs, TaskShapes DEF Upload
  <2>. QED
    BY <1>9, <2>5, <2>6, MakerKept DEF Upload, memory
<1>10. CASE UploadFails(t)
  <2>1. TaskTheirs'
    BY <1>10, BecomeTheirs, TaskShapes DEF UploadFails
  <2>. QED
    BY <1>10, <2>1, MakerKept DEF UploadFails, server, memory
<1>. QED
  BY <1>1, <1>2, <1>3, <1>4, <1>5, <1>6, <1>7, <1>8, <1>9, <1>10 DEF Run

(* Fetched keys, and the ones of them that are still to be stored.         *)
LEMMA LoadingTheirs ==
  ASSUME NEW f \in Fetched, Theirs(f), NEW s \in Users, NEW c
  PROVE  /\ Theirs(Rest(f, s))
         /\ Loading(c, Rest(f, s)) # NoLoad => Theirs(Loading(c, Rest(f, s)).keys)
<1>1. Theirs(Rest(f, s))
  BY DEF Theirs, Rest, Fetched
<1>2. Loading(c, Rest(f, s)) # NoLoad => Loading(c, Rest(f, s)).keys = Rest(f, s)
  BY DEF Loading
<1>. QED
  BY <1>1, <1>2

LEMMA LoadBecomesTheirs ==
  ASSUME TypeOK, KeysOfTheirMaker, UNCHANGED made, NEW l \in Loads, NEW x,
         load' = [load EXCEPT ![l] = x], x # NoLoad => Theirs(x.keys)
  PROVE  LoadTheirs'
<1>1. load'[l] = x /\ \A k \in Loads \ {l} : load'[k] = load[k]
  BY DEF TypeOK
<1>2. \A keys : Theirs(keys) => Theirs(keys)'
  BY MadeStays DEF Theirs
<1>. QED
  BY <1>1, <1>2 DEF KeysOfTheirMaker, LoadTheirs

LEMMA PageStepsTheirs ==
  ASSUME TypeOK, KeysOfTheirMaker, NEW c \in mix.clients, Page(c)
  PROVE  KeysOfTheirMaker'
<1>0. c \in Clients /\ UserOf[c] \in Users
  BY WorkloadClients, OwnTyped
<1>1. CASE LoadChat(c)
  BY <1>1, MakerKept DEF LoadChat, server
<1>2. ASSUME NEW l \in Loads, LoadKeys(c, l) PROVE KeysOfTheirMaker'
  <2> DEFINE x == [pc |-> "next", client |-> c, keys |-> [s \in Users |-> stored[s][UserOf[c]]]]
  <2>1. Theirs(x.keys)
    BY <1>0 DEF KeysOfTheirMaker, Theirs
  <2>2. load' = [load EXCEPT ![l] = x] /\ UNCHANGED made
    BY <1>2 DEF LoadKeys
  <2>3. LoadTheirs'
    BY <2>1, <2>2, LoadBecomesTheirs
  <2>. QED
    BY <1>2, <2>3, MakerKept DEF LoadKeys, server, memory
<1>3. CASE Reload(c)
  <2>1. ChainTheirs'
    <3>1. \A d \in Clients, s \in Users : chain'[d][s] \in {None, chain[d][s]}
      BY <1>3 DEF Reload, TypeOK, Fetched, NoKeys
    <3>. QED
      BY <1>3, <3>1, MadeStays DEF Reload, KeysOfTheirMaker, ChainTheirs, Theirs
  <2>2. LoadTheirs'
    BY <1>3, MadeStays DEF Reload, KeysOfTheirMaker, LoadTheirs, Theirs
  <2>3. TaskTheirs'
    BY <1>3, MadeStays DEF Reload, KeysOfTheirMaker, TaskTheirs
  <2>. QED
    BY <1>3, <2>1, <2>2, <2>3, MakerKept DEF Reload, server
<1>4. ASSUME NEW s \in Users, NEW l \in Loads, LookUp(c, s, l) PROVE KeysOfTheirMaker'
  <2> DEFINE x == [pc |-> "ask", client |-> c, keys |-> NoKeys, from |-> s]
  <2>1. load' = [load EXCEPT ![l] = x] /\ Theirs(x.keys) /\ UNCHANGED made
    BY <1>4 DEF LookUp, Theirs, NoKeys
  <2>2. LoadTheirs'
    BY <2>1, LoadBecomesTheirs
  <2>. QED
    BY <1>4, <2>2, MakerKept DEF LookUp, server, memory
<1>. QED
  BY <1>1, <1>2, <1>3, <1>4 DEF Page

(* A load keeps what is theirs, and takes from the rows or to the memory   *)
(* what is.                                                                *)
LEMMA FetchStepsTheirs ==
  ASSUME TypeOK, KeysOfTheirMaker, NEW l \in Loads, Fetch(l)
  PROVE  KeysOfTheirMaker'
<1> DEFINE c == load[l].client
           keys == load[l].keys
<1>1. CASE LoadNext(l)
  <2>1. load[l] \in Picking /\ keys \in Fetched
    BY <1>1, LoadShapes DEF LoadNext, TypeOK, Picking
  <2>2. Theirs(keys)
    BY <2>1 DEF KeysOfTheirMaker, NoLoad, Picking
  <2>3. PICK s \in Users :
          load' = [load EXCEPT ![l] =
            IF chain[c][s] # None THEN Loading(c, Rest(keys, s))
            ELSE [pc |-> "set", client |-> c, keys |-> keys, from |-> s]]
    BY <1>1 DEF LoadNext
  <2>4. LoadTheirs'
    <3>1. CASE chain[c][s] # None
      <4>1. load' = [load EXCEPT ![l] = Loading(c, Rest(keys, s))]
        BY <2>3, <3>1
      <4>. QED
        BY <1>1, <2>1, <2>2, <4>1, LoadingTheirs, LoadBecomesTheirs DEF LoadNext
    <3>2. CASE chain[c][s] = None
      <4> DEFINE x == [pc |-> "set", client |-> c, keys |-> keys, from |-> s]
      <4>1. load' = [load EXCEPT ![l] = x] /\ Theirs(x.keys)
        BY <2>2, <2>3, <3>2
      <4>. QED
        BY <1>1, <4>1, LoadBecomesTheirs DEF LoadNext
    <3>. QED
      BY <3>1, <3>2
  <2>. QED
    BY <1>1, <2>4, MakerKept DEF LoadNext, server, memory
<1> DEFINE s == load[l].from
<1>2. CASE LookUpAnswer(l)
  <2> DEFINE k == stored[s][UserOf[c]]
             f == [NoKeys EXCEPT ![s] = k]
             x == IF k = None THEN NoLoad
                  ELSE [pc |-> "set", client |-> c, keys |-> f, from |-> s]
  <2>1. s \in Users /\ UserOf[c] \in Users
    BY <1>2, LoadShapes, SenderKeyConstants DEF LookUpAnswer, TypeOK, Storing
  <2>2. Theirs(f)
    BY <2>1 DEF KeysOfTheirMaker, Theirs, NoKeys
  <2>3. x # NoLoad => Theirs(x.keys)
    BY <2>2
  <2>4. load' = [load EXCEPT ![l] = x] /\ UNCHANGED made
    BY <1>2 DEF LookUpAnswer
  <2>5. LoadTheirs'
    <3> HIDE DEF x
    <3> QED BY <2>3, <2>4, LoadBecomesTheirs
  <2>. QED
    BY <1>2, <2>5, MakerKept DEF LookUpAnswer, server, memory
<1>3. CASE LoadSet(l)
  <2>1. load[l] \in Storing /\ c \in Clients /\ s \in Users /\ keys \in Fetched
    BY <1>3, LoadShapes DEF LoadSet, TypeOK, Storing
  <2>2. Theirs(keys)
    BY <2>1 DEF KeysOfTheirMaker, NoLoad, Storing
  <2>3. /\ chain' = [chain EXCEPT ![c][s] = keys[s]]
        /\ load' = [load EXCEPT ![l] = Loading(c, Rest(keys, s))]
        /\ UNCHANGED <<made, stored, task, wire, msgs>>
    BY <1>3 DEF LoadSet, server
  <2>4. LoadTheirs'
    BY <2>1, <2>2, <2>3, LoadingTheirs, LoadBecomesTheirs
  <2>5. ChainTheirs'
    <3>1. \A d \in Clients, u \in Users :
            chain'[d][u] = chain[d][u] \/ (d = c /\ chain'[d][u] = keys[u])
      BY <2>1, <2>3 DEF TypeOK, Fetched
    <3>2. \A d \in Clients, u \in Users : chain'[d][u] # None => chain'[d][u] \in MadeBy(u)
      BY <2>2, <3>1 DEF KeysOfTheirMaker, Theirs
    <3>. QED
      BY <2>3, <3>2, MadeStays DEF ChainTheirs, Theirs
  <2>. QED
    BY <2>3, <2>4, <2>5, MakerKept
<1>. QED
  BY <1>1, <1>2, <1>3 DEF Fetch

LEMMA WireStepsTheirs ==
  ASSUME TypeOK, KeysOfTheirMaker, NEW b \in wire, Upsert(b) \/ UpsertFails(b)
  PROVE  KeysOfTheirMaker'
<1>0. b \in Body /\ b.key \in MadeBy(b.from) /\ UNCHANGED made
  BY DEF TypeOK, KeysOfTheirMaker, Upsert, UpsertFails
<1>1. WireTheirs'
  BY <1>0, MadeStays DEF Upsert, UpsertFails, KeysOfTheirMaker, WireTheirs
<1>2. CASE Upsert(b)
  <2>1. StoredTheirs'
    <3>1. \A s, r \in Users : stored'[s][r] = stored[s][r] \/ (s = b.from /\ stored'[s][r] = b.key)
      BY <1>0, <1>2 DEF Upsert, UpsertMany, Body, TypeOK
    <3>. QED
      BY <1>0, <3>1, MadeStays DEF KeysOfTheirMaker, StoredTheirs
  <2>2. TaskTheirs'
    <3>1. \A t \in Waiting(b) : task[t] \in Distributing /\ task[t] # Idle
      BY TaskShapes DEF Waiting, At, TypeOK
    <3>2. \A t \in Waiting(b) : LET x == [task[t] EXCEPT !.pc = "stored"] IN
            x.key = task[t].key /\ x.client = task[t].client
      BY <3>1 DEF Distributing
    <3>3. \A t \in Tasks : task'[t] = task[t] \/ (t \in Waiting(b) /\ task'[t] = [task[t] EXCEPT !.pc = "stored"])
      BY <1>2 DEF Upsert
    <3>4. \A t \in Tasks : task'[t] # Idle => /\ task[t] # Idle
                                             /\ task'[t].key = task[t].key
                                             /\ task'[t].client = task[t].client
      BY <3>1, <3>2, <3>3
    <3>. QED
      BY <1>0, <3>4, MadeStays DEF KeysOfTheirMaker, TaskTheirs
  <2>. QED
    BY <1>1, <1>2, <2>1, <2>2, MakerKept DEF Upsert, memory
<1>3. CASE UpsertFails(b)
  <2>1. TaskTheirs'
    BY <1>3, MadeStays DEF UpsertFails, KeysOfTheirMaker, TaskTheirs
  <2>. QED
    BY <1>1, <1>3, <2>1, MakerKept DEF UpsertFails, server, memory
<1>. QED
  BY <1>2, <1>3

LEMMA NextTheirs == TypeOK /\ KeysOfTheirMaker /\ [Next]_vars => KeysOfTheirMaker'
<1>. SUFFICES ASSUME TypeOK, KeysOfTheirMaker, [Next]_vars PROVE KeysOfTheirMaker'
  OBVIOUS
<1>1. ASSUME NEW v \in Users, Leave(v) PROVE KeysOfTheirMaker'
  BY <1>1, MakerKept DEF Leave, memory
<1>2. CASE UNCHANGED vars
  BY <1>2, MakerKept DEF vars, server, memory
<1>. QED
  BY <1>1, <1>2, TaskStepsTheirs, PageStepsTheirs, FetchStepsTheirs, WireStepsTheirs DEF Next

-----------------------------------------------------------------------------
(* Whose only key it is, it reaches.                                       *)

ReachInv == ReachesMembers /\ ReachesReaders

LEMMA InitReaches == Init => ReachInv
<1>. SUFFICES ASSUME Init PROVE ReachInv
  OBVIOUS
<1>1. PICK t \in Tasks : task = [[q \in Tasks |-> Idle] EXCEPT ![t] =
        [pc |-> "collect", client |-> Home, key |-> 1, next |-> "create",
         todo |-> Founders, got |-> {}]]
  BY DEF Init
<1>2. /\ At(t, "collect") /\ task[t].key = 1 /\ UserOf[task[t].client] = Creator
      /\ Founders \subseteq task[t].todo \cup task[t].got
  BY <1>1, SenderKeyConstants DEF At
<1>3. \A s, k : MadeBy(s) = {k} => s = Creator /\ k = 1
  BY DEF Init, MadeBy
<1>4. ReachesMembers
  BY <1>2, <1>3 DEF Init, ReachesMembers, Reaches
<1>5. ReachesReaders
  BY DEF Init, ReachesReaders
<1>. QED
  BY <1>4, <1>5 DEF ReachInv

(* A step that takes a recipient from nobody.                              *)
Keeps ==
  \A s, r \in Users, k \in Keys : MadeBy(s) = {k} /\ Reaches(s, k, r) => Reaches(s, k, r)'

LEMMA KeptReaches ==
  ASSUME TypeOK, ReachInv, KeysOfTheirMaker, UNCHANGED <<made, msgs>>, members' \subseteq members, Keeps
  PROVE  ReachInv'
<1>1. ReachesMembers'
  BY MadeStays DEF TypeOK, ReachInv, ReachesMembers, Keeps
<1>2. ReachesReaders'
  <2>1. \A i \in DOMAIN msgs : /\ msgs[i].from \in Users /\ msgs[i].key \in Keys
                               /\ msgs[i].to \subseteq Users
    <3>1. \A i \in DOMAIN msgs : msgs[i] \in Message
      BY DEF TypeOK
    <3>. QED
      BY <3>1 DEF Message
  <2>. QED
    BY <2>1, MadeStays DEF ReachInv, ReachesReaders, Keeps
<1>. QED
  BY <1>1, <1>2 DEF ReachInv

(* A step that touches no distribution, but where nobody is left in it.    *)
Leaves(x) == x.pc = "collect" /\ x.todo \cup x.got # {}
Plain ==
  /\ stored' = stored /\ missed \subseteq missed' /\ wire \subseteq wire'
  /\ \A t \in Tasks : Leaves(task[t]) => task'[t] = task[t]

LEMMA PlainReaches ==
  ASSUME Plain, NEW s, NEW k, NEW r, Reaches(s, k, r)
  PROVE  Reaches(s, k, r)'
<1>1. CASE stored[s][r] = k \/ <<s, r>> \in missed
  BY <1>1 DEF Plain, Reaches
<1>2. CASE \E t \in Tasks : /\ At(t, "collect") /\ task[t].key = k /\ UserOf[task[t].client] = s
                            /\ r \in task[t].todo \cup task[t].got
  BY <1>2 DEF Plain, Leaves, Reaches, At
<1>3. CASE \E b \in wire : b.from = s /\ b.key = k /\ r \in b.to
  BY <1>3 DEF Plain, Reaches
<1>. QED
  BY <1>1, <1>2, <1>3 DEF Reaches

LEMMA PlainKeeps ==
  ASSUME Plain
  PROVE  Keeps
BY PlainReaches DEF Keeps

LEMMA BecomePlain ==
  ASSUME TypeOK, NEW t \in Tasks, NEW x, Become(t, x), ~Leaves(task[t]),
         stored' = stored, missed \subseteq missed', wire \subseteq wire'
  PROVE  Plain
BY DEF TypeOK, Become, Plain

LEMMA IdleLeaves == ~Leaves(Idle)
BY DEF Leaves, Idle

LEMMA ProceedPlain ==
  ASSUME TypeOK, NEW t \in Tasks, Proceed(t), ~Leaves(task[t]),
         stored' = stored, missed \subseteq missed', wire \subseteq wire'
  PROVE  Plain
<1>1. \E x : Become(t, x)
  BY DEF Proceed, Encrypt
<1>. QED
  BY <1>1, BecomePlain

(* The first key of a user: whoever it is not collected for was missed. A  *)
(* second one, and there is no only key of his.                            *)
LEMMA SendFirstReaches ==
  ASSUME TypeOK, KeysOfTheirMaker, ReachInv, NEW t \in Tasks, NEW c \in Clients, SendFirst(t, c)
  PROVE  ReachInv'
<1> DEFINE u == UserOf[c]
<1> PICK n : n = Len(made) + 1
  OBVIOUS
<1> DEFINE x == [pc |-> "collect", client |-> c, key |-> n, next |-> "send",
                 todo |-> Recipients(c), got |-> {}]
<1>0. u \in Users
  BY OwnTyped
<1>1. /\ \A s : s # u => MadeBy(s)' = MadeBy(s)
      /\ MadeBy(u)' = MadeBy(u) \cup {n}
      /\ n \notin MadeBy(u)
  BY <1>0, MadeGrows DEF SendFirst
<1>2. Plain
  BY BecomePlain, IdleLeaves DEF SendFirst, Sending, server
<1>3. UNCHANGED <<members, msgs>>
  BY DEF SendFirst, server
<1>4. ReachesMembers'
  <2>1. ASSUME NEW s \in Users, NEW r \in members, NEW k \in Keys, s # u, MadeBy(s)' = {k}
        PROVE  Reaches(s, k, r)'
    BY <1>1, <1>2, <2>1, PlainReaches DEF ReachInv, ReachesMembers
  <2>2. ASSUME NEW r \in members
        PROVE  Reaches(u, n, r)'
    <3>1. CASE r \in known[c]
      <4>1. task'[t] = x
        BY DEF SendFirst, Become, TypeOK
      <4>2. r \in x.todo /\ x.pc = "collect" /\ x.key = n /\ x.client = c
        BY <3>1 DEF Recipients
      <4>. QED
        BY <4>1, <4>2 DEF Reaches, At
    <3>2. CASE r \notin known[c]
      BY <3>2 DEF SendFirst, Reaches
    <3>. QED
      BY <3>1, <3>2
  <2>3. \A k : MadeBy(u)' = {k} => k = n
    BY <1>1
  <2>. QED
    BY <1>3, <2>1, <2>2, <2>3 DEF ReachesMembers
<1>5. ReachesReaders'
  <2>1. \A i \in DOMAIN msgs : \A k : msgs[i].from = u /\ k = msgs[i].key => MadeBy(u)' # {k}
    BY <1>1 DEF KeysOfTheirMaker
  <2>2. ASSUME NEW i \in DOMAIN msgs, NEW r \in msgs[i].to, NEW s, NEW k,
               s = msgs[i].from, k = msgs[i].key, MadeBy(s)' = {k}
        PROVE  Reaches(s, k, r)'
    <3>1. s # u
      BY <2>1, <2>2
    <3>2. MadeBy(s) = {k}
      BY <1>1, <2>2, <3>1
    <3>3. Reaches(s, k, r)
      BY <2>2, <3>2 DEF ReachInv, ReachesReaders
    <3>. QED
      BY <1>2, <3>3, PlainReaches
  <2>. QED
    BY <1>3, <2>2 DEF ReachesReaders
<1>. QED
  BY <1>4, <1>5 DEF ReachInv

(* A new member is sent the key of the page, if it is its user's only one; *)
(* the keys of the others he misses.                                       *)
LEMMA AddMemberReaches ==
  ASSUME TypeOK, KeysOfTheirMaker, ReachInv,
         NEW t \in Tasks, NEW c \in Clients, NEW v \in Users, AddMember(t, c, v)
  PROVE  ReachInv'
<1> DEFINE u == UserOf[c]
           x == [pc |-> "collect", client |-> c, key |-> Own(c), next |-> "share",
                 todo |-> {v}, got |-> {}]
<1>1. UNCHANGED <<made, msgs>> /\ members' = members \cup {v}
  BY DEF AddMember
<1>2. Plain
  <2>1. CASE Own(c) = None
    BY <2>1 DEF AddMember, Plain
  <2>2. CASE Own(c) # None
    BY <2>2, BecomePlain, IdleLeaves DEF AddMember
  <2>. QED
    BY <2>1, <2>2
<1>3. \A s \in Users, k \in Keys : MadeBy(s) = {k} => Reaches(s, k, v)'
  <2>1. ASSUME NEW s \in Users, NEW k \in Keys, MadeBy(s) = {k}, s # u \/ Own(c) = None
        PROVE  Reaches(s, k, v)'
    <3>1. <<s, v>> \in missed'
      BY <2>1 DEF AddMember
    <3>. QED
      BY <3>1 DEF Reaches
  <2>2. ASSUME NEW k \in Keys, MadeBy(u) = {k}, Own(c) # None
        PROVE  Reaches(u, k, v)'
    <3>1. Own(c) = k
      BY <2>2, OwnTheirs
    <3>2. task'[t] = x
      BY <2>2 DEF AddMember, Become, TypeOK
    <3>3. x.pc = "collect" /\ x.key = k /\ x.client = c /\ v \in x.todo
      BY <3>1
    <3>. QED
      BY <3>2, <3>3 DEF Reaches, At
  <2>. QED
    BY <2>1, <2>2
<1>4. ReachesMembers'
  <2>1. \A s \in Users, r \in members, k \in Keys : MadeBy(s) = {k} => Reaches(s, k, r)'
    BY <1>2, PlainReaches DEF ReachInv, ReachesMembers
  <2>. QED
    BY <1>1, <1>3, <2>1, MadeStays DEF ReachesMembers
<1>5. ReachesReaders'
  <2>1. \A s, k, r : Reaches(s, k, r) => Reaches(s, k, r)'
    BY <1>2, PlainReaches
  <2>. QED
    BY <1>1, <2>1, MadeStays DEF ReachInv, ReachesReaders
<1>. QED
  BY <1>4, <1>5 DEF ReachInv

(* A message is sent to the members, whom the key reaches.                 *)
LEMMA UploadReaches ==
  ASSUME TypeOK, KeysOfTheirMaker, ReachInv, NEW t \in Tasks, Upload(t)
  PROVE  ReachInv'
<1> DEFINE x == task[t]
           m == [from |-> UserOf[x.client], key |-> x.key, iter |-> x.iter, client |-> x.client,
                 session |-> x.session, to |-> members]
<1>1. x \in Uploading /\ ~Leaves(x)
  BY TaskShapes DEF Upload, At, TypeOK, Leaves
<1>2. Plain
  BY <1>1, BecomePlain DEF Upload
<1>3. UNCHANGED <<made, members>> /\ msgs' = Append(msgs, m) /\ msgs \in Seq(Message)
  BY DEF Upload, TypeOK
<1>4. /\ DOMAIN msgs' = DOMAIN msgs \cup {Len(msgs) + 1}
      /\ \A i \in DOMAIN msgs : msgs'[i] = msgs[i]
      /\ msgs'[Len(msgs) + 1] = m
  BY <1>3
<1>5. \A s, k, r : Reaches(s, k, r) => Reaches(s, k, r)'
  BY <1>2, PlainReaches
<1>6. ReachesMembers'
  BY <1>3, <1>5, MadeStays DEF ReachInv, ReachesMembers
<1>7. \A r \in m.to : MadeBy(m.from) = {m.key} => Reaches(m.from, m.key, r)
  <2>1. m.from \in Users /\ m.key \in Keys
    BY <1>1, SenderKeyConstants DEF Uploading
  <2>2. m.to = members
    OBVIOUS
  <2>. QED
    BY <2>1, <2>2 DEF ReachInv, ReachesMembers
<1>8. ReachesReaders'
  <2>1. \A i \in DOMAIN msgs : \A r \in msgs[i].to :
          MadeBy(msgs[i].from) = {msgs[i].key} => Reaches(msgs[i].from, msgs[i].key, r)
    BY DEF ReachInv, ReachesReaders
  <2>2. \A i \in DOMAIN msgs' : \A r \in msgs'[i].to :
          MadeBy(msgs'[i].from) = {msgs'[i].key} => Reaches(msgs'[i].from, msgs'[i].key, r)
    BY <1>4, <1>7, <2>1
  <2>3. \A i \in DOMAIN msgs' : \A s, k : \A r \in msgs'[i].to :
          s = msgs'[i].from /\ k = msgs'[i].key /\ MadeBy(s)' = {k} => Reaches(s, k, r)'
    BY <1>3, <1>5, <2>2, MadeStays
  <2>. QED
    BY <2>3 DEF ReachesReaders
<1>. QED
  BY <1>6, <1>8 DEF ReachInv

(* A recipient collected, or missed.                                       *)
LEMMA CollectKeeps ==
  ASSUME TypeOK, NEW t \in Tasks, Collect(t)
  PROVE  Keeps
<1>1. task[t] \in Collecting
  BY TaskShapes DEF Collect, At, TypeOK
<1>2. PICK q \in task[t].todo :
        \/ /\ Become(t, [task[t] EXCEPT !.todo = @ \ {q}, !.got = @ \cup {q}])
           /\ UNCHANGED missed
        \/ /\ Become(t, [task[t] EXCEPT !.todo = @ \ {q}])
           /\ missed' = missed \cup {<<UserOf[task[t].client], q>>}
  BY DEF Collect
<1> DEFINE x == [task[t] EXCEPT !.todo = @ \ {q}, !.got = @ \cup {q}]
           y == [task[t] EXCEPT !.todo = @ \ {q}]
<1>3. /\ x.pc = "collect" /\ x.key = task[t].key /\ x.client = task[t].client
      /\ x.todo = task[t].todo \ {q} /\ x.got = task[t].got \cup {q}
  BY <1>1 DEF Collecting
<1>4. /\ y.pc = "collect" /\ y.key = task[t].key /\ y.client = task[t].client
      /\ y.todo = task[t].todo \ {q} /\ y.got = task[t].got
  BY <1>1 DEF Collecting
<1>5. UNCHANGED <<stored, wire>> /\ missed \subseteq missed'
  BY <1>2 DEF Collect, server
<1>6. \A z \in Tasks \ {t} : task'[z] = task[z]
  BY <1>2 DEF Become, TypeOK
<1>7. /\ task'[t].pc = "collect" /\ task'[t].key = task[t].key /\ task'[t].client = task[t].client
      /\ \A r : \/ r \notin task[t].todo \cup task[t].got
                \/ r \in task'[t].todo \cup task'[t].got
                \/ <<UserOf[task[t].client], r>> \in missed'
  <2>1. CASE Become(t, x)
    <3>1. task'[t] = x
      BY <2>1 DEF Become, TypeOK
    <3>. QED
      BY <1>3, <3>1
  <2>2. CASE Become(t, y) /\ missed' = missed \cup {<<UserOf[task[t].client], q>>}
    <3>1. task'[t] = y
      BY <2>2 DEF Become, TypeOK
    <3>. QED
      BY <1>4, <2>2, <3>1
  <2>. QED
    BY <1>2, <2>1, <2>2
<1>8. ASSUME NEW s, NEW k, NEW r, Reaches(s, k, r)
      PROVE  Reaches(s, k, r)'
  <2>1. CASE stored[s][r] = k \/ <<s, r>> \in missed \/ \E b \in wire : b.from = s /\ b.key = k /\ r \in b.to
    BY <1>5, <2>1 DEF Reaches
  <2>2. ASSUME NEW z \in Tasks, At(z, "collect"), task[z].key = k, UserOf[task[z].client] = s,
               r \in task[z].todo \cup task[z].got
        PROVE  Reaches(s, k, r)'
    BY <1>6, <1>7, <2>2 DEF Reaches, At
  <2>. QED
    BY <1>8, <2>1, <2>2 DEF Reaches
<1>. QED
  BY <1>8 DEF Keeps

(* What was collected is on its way.                                       *)
LEMMA DistributeKeeps ==
  ASSUME TypeOK, NEW t \in Tasks, Distribute(t)
  PROVE  Keeps
<1>1. UNCHANGED <<stored, missed>> /\ wire' = wire \cup {BodyOf(task[t])} /\ task[t].todo = {}
  BY DEF Distribute, Collected, server
<1>2. \A z \in Tasks \ {t} : task'[z] = task[z]
  BY DEF Distribute, Become, TypeOK
<1>3. BodyOf(task[t]) \in wire'
  BY <1>1
<1>4. ASSUME NEW s, NEW k, NEW r, Reaches(s, k, r)
      PROVE  Reaches(s, k, r)'
  <2>1. CASE stored[s][r] = k \/ <<s, r>> \in missed \/ \E b \in wire : b.from = s /\ b.key = k /\ r \in b.to
    BY <1>1, <2>1 DEF Reaches
  <2>2. ASSUME NEW z \in Tasks, At(z, "collect"), task[z].key = k, UserOf[task[z].client] = s,
               r \in task[z].todo \cup task[z].got
        PROVE  Reaches(s, k, r)'
    <3>1. CASE z # t
      BY <1>2, <2>2, <3>1 DEF Reaches, At
    <3>2. CASE z = t
      <4>1. LET b == BodyOf(task[t]) IN b.from = s /\ b.key = k /\ r \in b.to
        BY <1>1, <2>2, <3>2 DEF BodyOf
      <4>. QED
        BY <1>3, <4>1 DEF Reaches
    <3>. QED
      BY <3>1, <3>2
  <2>. QED
    BY <1>4, <2>1, <2>2 DEF Reaches
<1>. QED
  BY <1>4 DEF Keeps

LEMMA TaskStepsReach ==
  ASSUME TypeOK, KeysOfTheirMaker, ReachInv, NEW t \in Tasks, Run(t)
  PROVE  ReachInv'
<1>1. ASSUME NEW c \in mix.clients, SendAgain(t, c) PROVE ReachInv'
  <2>1. Plain
    BY <1>1, BecomePlain, IdleLeaves DEF SendAgain, Sending, Encrypt, server
  <2>. QED
    BY <1>1, <2>1, PlainKeeps, KeptReaches DEF SendAgain, server
<1>2. ASSUME NEW c \in mix.clients, SendFirst(t, c) PROVE ReachInv'
  BY <1>2, WorkloadClients, SendFirstReaches
<1>3. ASSUME NEW c \in mix.clients, NEW v \in Users, AddMember(t, c, v) PROVE ReachInv'
  BY <1>3, WorkloadClients, AddMemberReaches
<1>4. CASE Collect(t)
  BY <1>4, CollectKeeps, KeptReaches DEF Collect, server
<1>5. CASE Distribute(t)
  BY <1>5, DistributeKeeps, KeptReaches DEF Distribute, server
<1>6. CASE DistributeNone(t)
  <2>1. ~Leaves(task[t])
    BY <1>6 DEF DistributeNone, Collected, Leaves
  <2>2. Plain
    BY <1>6, <2>1, ProceedPlain DEF DistributeNone, server
  <2>. QED
    BY <1>6, <2>2, PlainKeeps, KeptReaches DEF DistributeNone, server
<1>7. CASE Distributed(t)
  <2>1. Plain
    BY <1>7, ProceedPlain DEF Distributed, At, Leaves, server
  <2>. QED
    BY <1>7, <2>1, PlainKeeps, KeptReaches DEF Distributed, server
<1>8. CASE AnswerLost(t)
  <2>1. Plain
    BY <1>8, BecomePlain DEF AnswerLost, At, Leaves, server
  <2>. QED
    BY <1>8, <2>1, PlainKeeps, KeptReaches DEF AnswerLost, server
<1>9. CASE Upload(t)
  BY <1>9, UploadReaches
<1>10. CASE UploadFails(t)
  <2>1. Plain
    BY <1>10, BecomePlain DEF UploadFails, At, Leaves, server
  <2>. QED
    BY <1>10, <2>1, PlainKeeps, KeptReaches DEF UploadFails, server
<1>. QED
  BY <1>1, <1>2, <1>3, <1>4, <1>5, <1>6, <1>7, <1>8, <1>9, <1>10 DEF Run

(* The recipients of a distribution have the key when it is stored, and    *)
(* were missed when it fails.                                              *)
LEMMA WireKeeps ==
  ASSUME TypeOK, KeysOfTheirMaker, NEW b \in wire, Upsert(b) \/ UpsertFails(b)
  PROVE  Keeps
<1>1. b \in Body /\ b.key \in MadeBy(b.from)
  BY DEF TypeOK, KeysOfTheirMaker
<1>2. \A t \in Tasks : At(t, "collect") => task'[t] = task[t]
  BY DEF Upsert, UpsertFails, Waiting, At
<1>3. wire' = wire \ {b} /\ missed \subseteq missed'
  BY DEF Upsert, UpsertFails
<1>4. \A s, r \in Users :
        \/ stored'[s][r] = stored[s][r]
        \/ s = b.from /\ stored'[s][r] = b.key
  BY <1>1 DEF Upsert, UpsertFails, UpsertMany, Body, server, TypeOK
<1>5. \A r \in b.to : stored'[b.from][r] = b.key \/ <<b.from, r>> \in missed'
  <2>1. CASE Upsert(b)
    BY <1>1, <2>1 DEF Upsert, UpsertMany, Body, TypeOK
  <2>2. CASE UpsertFails(b)
    BY <2>2 DEF UpsertFails
  <2>. QED
    BY <2>1, <2>2
<1>6. ASSUME NEW s \in Users, NEW r \in Users, NEW k \in Keys, MadeBy(s) = {k}, Reaches(s, k, r)
      PROVE  Reaches(s, k, r)'
  <2>1. CASE stored[s][r] = k
    <3>1. stored'[s][r] = k
      BY <1>1, <1>4, <1>6, <2>1
    <3>. QED
      BY <3>1 DEF Reaches
  <2>2. CASE <<s, r>> \in missed
    BY <1>3, <2>2 DEF Reaches
  <2>3. CASE \E t \in Tasks : /\ At(t, "collect") /\ task[t].key = k /\ UserOf[task[t].client] = s
                              /\ r \in task[t].todo \cup task[t].got
    BY <1>2, <2>3 DEF Reaches, At
  <2>4. ASSUME NEW d \in wire, d.from = s, d.key = k, r \in d.to
        PROVE  Reaches(s, k, r)'
    <3>1. CASE d = b
      BY <1>5, <2>4, <3>1 DEF Reaches
    <3>2. CASE d # b
      BY <1>3, <2>4, <3>2 DEF Reaches
    <3>. QED
      BY <3>1, <3>2
  <2>. QED
    BY <1>6, <2>1, <2>2, <2>3, <2>4 DEF Reaches
<1>. QED
  BY <1>6 DEF Keeps

(* A reloaded page misses whom it was collecting the key for.              *)
LEMMA ReloadKeeps ==
  ASSUME TypeOK, NEW c \in Clients, Reload(c)
  PROVE  Keeps
<1>1. UNCHANGED <<stored, wire>> /\ missed \subseteq missed'
  BY DEF Reload, server
<1>2. \A t \in Tasks : At(t, "collect") /\ task[t].client # c => task'[t] = task[t]
  BY DEF Reload
<1>3. \A t \in Tasks : At(t, "collect") /\ task[t].client = c =>
        {UserOf[c]} \X (task[t].todo \cup task[t].got) \subseteq missed'
  BY DEF Reload
<1>4. ASSUME NEW s, NEW k, NEW r, Reaches(s, k, r)
      PROVE  Reaches(s, k, r)'
  <2>1. CASE stored[s][r] = k \/ <<s, r>> \in missed \/ \E b \in wire : b.from = s /\ b.key = k /\ r \in b.to
    BY <1>1, <2>1 DEF Reaches
  <2>2. ASSUME NEW t \in Tasks, At(t, "collect"), task[t].key = k, UserOf[task[t].client] = s,
               r \in task[t].todo \cup task[t].got
        PROVE  Reaches(s, k, r)'
    <3>1. CASE task[t].client = c
      BY <1>3, <2>2, <3>1 DEF Reaches
    <3>2. CASE task[t].client # c
      BY <1>2, <2>2, <3>2 DEF Reaches, At
    <3>. QED
      BY <3>1, <3>2
  <2>. QED
    BY <1>4, <2>1, <2>2 DEF Reaches
<1>. QED
  BY <1>4 DEF Keeps

LEMMA PageStepsReach ==
  ASSUME TypeOK, KeysOfTheirMaker, ReachInv, NEW c \in mix.clients, Page(c)
  PROVE  ReachInv'
<1>1. CASE Reload(c)
  BY <1>1, WorkloadClients, ReloadKeeps, KeptReaches DEF Reload, server
<1>2. CASE ~Reload(c)
  <2>1. UNCHANGED <<members, msgs, stored, made, task, wire, missed>>
    BY <1>2 DEF Page, LoadChat, LoadKeys, LookUp, server
  <2>2. Plain
    BY <2>1 DEF Plain
  <2>. QED
    BY <2>1, <2>2, PlainKeeps, KeptReaches
<1>. QED
  BY <1>1, <1>2

LEMMA FetchStepsReach ==
  ASSUME TypeOK, KeysOfTheirMaker, ReachInv, NEW l \in Loads, Fetch(l)
  PROVE  ReachInv'
<1>1. UNCHANGED <<members, msgs, stored, made, task, wire, missed>>
  BY DEF Fetch, LoadNext, LookUpAnswer, LoadSet, server
<1>2. Plain
  BY <1>1 DEF Plain
<1>. QED
  BY <1>1, <1>2, PlainKeeps, KeptReaches

LEMMA NextReaches == TypeOK /\ KeysOfTheirMaker /\ ReachInv /\ [Next]_vars => ReachInv'
<1>. SUFFICES ASSUME TypeOK, KeysOfTheirMaker, ReachInv, [Next]_vars PROVE ReachInv'
  OBVIOUS
<1>1. ASSUME NEW b \in wire, Upsert(b) \/ UpsertFails(b) PROVE ReachInv'
  BY <1>1, WireKeeps, KeptReaches DEF Upsert, UpsertFails, server
<1>2. ASSUME NEW v \in Users, Leave(v) PROVE ReachInv'
  <2>1. Plain
    BY <1>2 DEF Leave, Plain
  <2>. QED
    BY <1>2, <2>1, PlainKeeps, KeptReaches DEF Leave
<1>3. CASE UNCHANGED vars
  <2>1. Plain
    BY <1>3 DEF vars, server, Plain
  <2>. QED
    BY <1>3, <2>1, PlainKeeps, KeptReaches DEF vars, server
<1>. QED
  BY <1>1, <1>2, <1>3, TaskStepsReach, PageStepsReach, FetchStepsReach DEF Next

(* What holds a key, or was encrypted, does so for the user and the        *)
(* session it was made in, and the only key of a user reaches every member *)
(* it is not known to have missed: for any users, pages, slots and keys.   *)
THEOREM SenderKeysInvariant == Spec => []SenderKeysInv
<1>1. Spec => []KeysInv
  BY InitSpent, NextSpent, SenderKeysTyped, PTL DEF Spec
<1>2. Spec => []KeysOfTheirMaker
  BY InitTheirs, NextTheirs, SenderKeysTyped, PTL DEF Spec
<1>3. Spec => []ReachInv
  BY InitReaches, NextReaches, SenderKeysTyped, <1>2, PTL DEF Spec
<1>4. TypeOK /\ KeysInv /\ KeysOfTheirMaker /\ ReachInv => SenderKeysInv
  BY DEF SenderKeysInv, KeysInv, ReachInv
<1>. QED
  BY <1>1, <1>2, <1>3, <1>4, SenderKeysTyped, PTL

(* One key or none: the set of a user's keys has one element if it has no  *)
(* more than one and the key is in it.                                     *)
LEMMA OnlyKey ==
  ASSUME TypeOK, NEW s, NEW k \in MadeBy(s), ~(Cardinality(MadeBy(s)) > 1)
  PROVE  MadeBy(s) = {k}
<1>1. IsFiniteSet(MadeBy(s))
  <2>1. DOMAIN made = 1..Len(made) /\ Len(made) \in Nat
    BY DEF TypeOK
  <2>2. IsFiniteSet(1..Len(made)) /\ MadeBy(s) \subseteq 1..Len(made)
    BY <2>1, FS_Interval DEF MadeBy
  <2>. QED
    BY <2>2, FS_Subset
<1>2. SUFFICES ASSUME NEW j \in MadeBy(s), j # k
               PROVE  FALSE
  OBVIOUS
<1>3. IsFiniteSet({k}) /\ Cardinality({k}) = 1
  BY FS_Singleton
<1>4. Cardinality({k} \cup {j}) = 2
  BY <1>2, <1>3, FS_AddElement
<1>5. {k} \cup {j} \subseteq MadeBy(s)
  BY <1>2
<1>6. Cardinality({k} \cup {j}) <= Cardinality(MadeBy(s)) /\ Cardinality(MadeBy(s)) \in Nat
  BY <1>1, <1>5, FS_Subset, FS_CardinalityType
<1>. QED
  BY <1>4, <1>6

(* A message can be read by whoever was a member when it was stored, once  *)
(* its chain key is distributed, but for the misses and the second keys    *)
(* the property names.                                                     *)
THEOREM MembersCanRead == Spec => []ReadableUnlessMissed
<1>1. SenderKeysInv => ReadableUnlessMissed
  <2>. SUFFICES ASSUME SenderKeysInv, NEW i \in DOMAIN msgs, NEW r \in msgs[i].to,
                       ~Pending(msgs[i].key), ~(Cardinality(MadeBy(msgs[i].from)) > 1),
                       <<msgs[i].from, r>> \notin missed
                PROVE  Readable(msgs[i], r)
    BY DEF ReadableUnlessMissed
  <2>1. TypeOK /\ KeysOfTheirMaker /\ ReachesReaders
    BY DEF SenderKeysInv
  <2>2. msgs[i].key \in MadeBy(msgs[i].from)
    BY <2>1 DEF KeysOfTheirMaker
  <2>3. MadeBy(msgs[i].from) = {msgs[i].key}
    BY <2>1, <2>2, OnlyKey
  <2>4. Reaches(msgs[i].from, msgs[i].key, r)
    BY <2>1, <2>3 DEF ReachesReaders
  <2>. QED
    BY <2>4 DEF Reaches, Pending, Readable
<1>. QED
  BY <1>1, SenderKeysInvariant, PTL
=============================================================================
