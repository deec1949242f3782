------------------------------ MODULE SenderKeys ------------------------------
(***************************************************************************)
(* The sender keys of one chat: the chain keys the web clients generate,   *)
(* keep in memory and distribute, the rows of sender_keys in the           *)
(* communication-service, and the messages encrypted under them.           *)
(*                                                                         *)
(* A chain key is a number, given in the order of generation; encrypting   *)
(* it for a recipient is addressing it to him, since his key pair does not *)
(* change.  A message is the chain key and the iteration its key is        *)
(* derived from.  An edit is encrypted and sent like a message.            *)
(***************************************************************************)
EXTENDS Naturals, Sequences, FiniteSets

CONSTANTS
  Users,       \* the members, now or later
  Creator,     \* the user who creates the chat
  Founders,    \* the members it is created with
  Clients,     \* pages open at the chat
  UserOf,      \* UserOf[c]: the user of client c
  Home,        \* the client the chat is created in
  Tasks,       \* slots for handleSend, handleAddMember and handleCreate
  Loads,       \* slots for loadAndDecryptSenderKeys and tryDecrypt
  MaxKeys,     \* bound on the chain keys generated
  MaxMessages, \* bound on the messages sent and on the iterations
  MaxReloads,  \* bound on the reloads of a client
  Workloads    \* what happens in a behaviour: the clients open, the kinds of steps, how
               \* many loads at a time

ASSUME SenderKeyConstants ==
  /\ Creator \in Founders /\ Founders \subseteq Users
  /\ UserOf \in [Clients -> Users] /\ Home \in Clients /\ UserOf[Home] = Creator
  /\ \A w \in Workloads : w.clients \subseteq Clients /\ Home \in w.clients
  /\ MaxKeys \in Nat \ {0} /\ MaxMessages \in Nat /\ MaxReloads \in Nat

VARIABLES
  members,  \* the members of the chat
  gone,     \* those who left; they do not come back (ChatMembership)
  stored,   \* stored[s][r]: the key in the row (s, r) of sender_keys, or None
  msgs,     \* the messages stored, in the order of arrival
  wire,     \* the distributions on their way to the server
  made,     \* made[k]: the user who generated chain key k
  chain,    \* chain[c][s]: the chain key of s in the memory of c, or None
  iter,     \* iter[c]: chainIterations of c
  known,    \* known[c]: the members in the chat metadata c has loaded
  session,  \* session[c]: how often c was reloaded
  load,     \* load[l]: the load in slot l, with the keys fetched and not yet stored
  task,     \* task[t]: the operation in slot t
  missed,   \* history: the pairs (s, r) a distribution left out
  mix       \* the workload of the behaviour

server == <<members, gone, stored, msgs>>
memory == <<chain, iter, known, session>>
vars == <<server, wire, made, memory, load, task, missed, mix>>

-----------------------------------------------------------------------------
None == 0
Keys == 1..MaxKeys
Body == [from : Users, key : Keys, to : SUBSET Users]
Message == [from : Users, key : Keys, iter : Nat, client : Clients, session : Nat, to : SUBSET Users]

(* todo: the members whose public key is still to be fetched; got: those   *)
(* for whom the key is encrypted; next: what follows the distribution.     *)
Idle == [pc |-> "idle"]
Task == {Idle}
  \cup [pc : {"collect"}, client : Clients, key : Keys, next : {"create", "send", "share"},
        todo : SUBSET Users, got : SUBSET Users]
  \cup [pc : {"await", "stored"}, client : Clients, key : Keys,
        next : {"create", "send", "share"}, body : Body]
  \cup [pc : {"upload"}, client : Clients, key : Keys, iter : Nat, session : Nat]

(* A load looks which key is next, asks for the key of a sender, or has    *)
(* decrypted the one it sets.                                              *)
NoLoad == [pc |-> "none"]
Fetched == [Users -> {None} \cup Keys]
Load == {NoLoad}
  \cup [pc : {"next"}, client : Clients, keys : Fetched]
  \cup [pc : {"ask", "set"}, client : Clients, keys : Fetched, from : Users]

TypeOK ==
  /\ members \subseteq Users /\ gone \subseteq Users \ members
  /\ stored \in [Users -> Fetched]
  /\ msgs \in Seq(Message)
  /\ wire \subseteq Body
  /\ made \in Seq(Users) /\ Len(made) <= MaxKeys
  /\ chain \in [Clients -> Fetched]
  /\ iter \in [Clients -> Nat]
  /\ known \in [Clients -> SUBSET Users]
  /\ session \in [Clients -> 0..MaxReloads]
  /\ load \in [Loads -> Load]
  /\ task \in [Tasks -> Task]
  /\ missed \subseteq Users \X Users
  /\ mix \in Workloads

NoKeys == [s \in Users |-> None]
MadeBy(s) == {k \in DOMAIN made : made[k] = s}

(* handleCreate (ChatsPage) has created the chat and generated a key, to   *)
(* be distributed to the members it was answered and to its own user.      *)
Init ==
  /\ members = Founders /\ gone = {}
  /\ stored = [s \in Users |-> NoKeys]
  /\ msgs = <<>> /\ wire = {}
  /\ made = <<Creator>>
  /\ chain = [c \in Clients |-> IF c = Home THEN [NoKeys EXCEPT ![Creator] = 1] ELSE NoKeys]
  /\ iter = [c \in Clients |-> 0]
  /\ known = [c \in Clients |-> {}]
  /\ session = [c \in Clients |-> 0]
  /\ load = [l \in Loads |-> NoLoad]
  /\ \E t \in Tasks : task = [[q \in Tasks |-> Idle] EXCEPT ![t] =
       [pc |-> "collect", client |-> Home, key |-> 1, next |-> "create",
        todo |-> Founders, got |-> {}]]
  /\ missed = {}
  /\ mix \in Workloads

Become(t, to) == task' = [task EXCEPT ![t] = to]
At(t, pc) == task[t].pc = pc
Own(c) == chain[c][UserOf[c]]

-----------------------------------------------------------------------------
(* handleSend.                                                             *)

(* The iteration is taken and counted in one go, then the message key is   *)
(* derived.  Seeded fault: the count is lost.                              *)
Repeated(c) == iter' = iter
Counted(c) == iter' = [iter EXCEPT ![c] = @ + 1]

Encrypt(t, c, k) ==
  /\ Become(t, [pc |-> "upload", client |-> c, key |-> k, iter |-> iter[c], session |-> session[c]])
  /\ Counted(c)

(* The members of the chat as the page has them, its own user with them.   *)
(* Seeded fault: the others only.                                              *)
OtherRecipients(c) == known[c] \ {UserOf[c]}
Recipients(c) == known[c]

Sent == Len(msgs) + Cardinality({t \in Tasks : At(t, "upload")})
Sending(t, c) ==
  "send" \in mix.kinds /\ task[t] = Idle /\ Sent < MaxMessages /\ iter[c] < MaxMessages

(* There is a chain key; Enter sends also while another send is under way. *)
SendAgain(t, c) ==
  /\ Sending(t, c) /\ Own(c) # None
  /\ Encrypt(t, c, Own(c))
  /\ UNCHANGED <<server, wire, made, chain, known, session, load, missed, mix>>

(* There is none: it is generated and stored before it is distributed.     *)
SendFirst(t, c) ==
  LET u == UserOf[c]  k == Len(made) + 1 IN
  /\ Sending(t, c) /\ Own(c) = None /\ k \in Keys
  /\ made' = Append(made, u)
  /\ chain' = [chain EXCEPT ![c][u] = k]
  /\ Become(t, [pc |-> "collect", client |-> c, key |-> k, next |-> "send",
                todo |-> Recipients(c), got |-> {}])
  /\ missed' = missed \cup ({u} \X (members \ known[c]))
  /\ UNCHANGED <<server, wire, iter, known, session, load, mix>>

(* The public key of the next member, or the member is skipped.            *)
Collect(t) ==
  /\ At(t, "collect")
  /\ \E r \in task[t].todo :
       \/ /\ Become(t, [task[t] EXCEPT !.todo = @ \ {r}, !.got = @ \cup {r}])
          /\ UNCHANGED missed
       \/ /\ "fail" \in mix.kinds
          /\ Become(t, [task[t] EXCEPT !.todo = @ \ {r}])
          /\ missed' = missed \cup {<<UserOf[task[t].client], r>>}
  /\ UNCHANGED <<server, wire, made, memory, load, mix>>

BodyOf(x) == [from |-> UserOf[x.client], key |-> x.key, to |-> x.got]
Collected(t) == At(t, "collect") /\ task[t].todo = {}

Distribute(t) ==
  /\ Collected(t) /\ task[t].got # {}
  /\ wire' = wire \cup {BodyOf(task[t])}
  /\ Become(t, [pc |-> "await", client |-> task[t].client, key |-> task[t].key,
                next |-> task[t].next, body |-> BodyOf(task[t])])
  /\ UNCHANGED <<server, made, memory, load, missed, mix>>

(* What follows: a send goes on, anything else is over.                    *)
Proceed(t) ==
  IF task[t].next = "send" THEN Encrypt(t, task[t].client, task[t].key)
  ELSE Become(t, Idle) /\ UNCHANGED iter

DistributeNone(t) ==
  /\ Collected(t) /\ task[t].got = {}
  /\ Proceed(t)
  /\ UNCHANGED <<server, wire, made, chain, known, session, load, missed, mix>>

Distributed(t) ==
  /\ At(t, "stored")
  /\ Proceed(t)
  /\ UNCHANGED <<server, wire, made, chain, known, session, load, missed, mix>>

(* storeSenderKeys: upsertMany, whoever is a member.                       *)
Waiting(b) == {t \in Tasks : At(t, "await") /\ task[t].body = b}

UpsertMany(b) ==
  stored' = [stored EXCEPT ![b.from] = [r \in Users |-> IF r \in b.to THEN b.key ELSE @[r]]]

Upsert(b) ==
  /\ wire' = wire \ {b}
  /\ UpsertMany(b)
  /\ task' = [t \in Tasks |-> IF t \in Waiting(b) THEN [task[t] EXCEPT !.pc = "stored"] ELSE task[t]]
  /\ UNCHANGED <<members, gone, msgs, made, memory, load, missed, mix>>

(* The request fails, or its answer: the page shows an error, the chain    *)
(* key stays where it is, and nothing distributes it again.                *)
UpsertFails(b) ==
  /\ "fail" \in mix.kinds
  /\ wire' = wire \ {b}
  /\ task' = [t \in Tasks |-> IF t \in Waiting(b) THEN Idle ELSE task[t]]
  /\ missed' = missed \cup ({b.from} \X b.to)
  /\ UNCHANGED <<server, made, memory, load, mix>>

AnswerLost(t) ==
  /\ "fail" \in mix.kinds /\ At(t, "stored")
  /\ Become(t, Idle)
  /\ UNCHANGED <<server, wire, made, memory, load, missed, mix>>

(* sendMessage: isMember, the INSERT; or an error.                         *)
Upload(t) ==
  /\ At(t, "upload")
  /\ LET x == task[t]  u == UserOf[x.client] IN
     /\ u \in members
     /\ msgs' = Append(msgs, [from |-> u, key |-> x.key, iter |-> x.iter, client |-> x.client,
                              session |-> x.session, to |-> members])
  /\ Become(t, Idle)
  /\ UNCHANGED <<members, gone, stored, wire, made, memory, load, missed, mix>>

UploadFails(t) ==
  /\ At(t, "upload")
  /\ "fail" \in mix.kinds \/ UserOf[task[t].client] \notin members
  /\ Become(t, Idle)
  /\ UNCHANGED <<server, wire, made, memory, load, missed, mix>>

-----------------------------------------------------------------------------
(* handleAddMember: the member is added, then sent the key of the page, if *)
(* it has one.  The keys of the others he is not sent.                     *)
(* addMember finds no row of a member who left.  Seeded fault: it revives. *)
Absent(v) == v \notin members
Addable(v) == v \notin members \cup gone

AddMember(t, c, v) ==
  LET u == UserOf[c] IN
  /\ "join" \in mix.kinds /\ task[t] = Idle
  /\ u \in members /\ Addable(v)
  /\ members' = members \cup {v}
  /\ IF Own(c) = None
     THEN UNCHANGED task
     ELSE Become(t, [pc |-> "collect", client |-> c, key |-> Own(c), next |-> "share",
                     todo |-> {v}, got |-> {}])
  /\ missed' = missed \cup
       {<<s, v>> : s \in {w \in Users : MadeBy(w) # {} /\ (w # u \/ Own(c) = None)}}
  /\ UNCHANGED <<gone, stored, msgs, wire, made, memory, load, mix>>

Leave(v) ==
  /\ "leave" \in mix.kinds
  /\ v \in members \ {Creator}
  /\ members' = members \ {v} /\ gone' = gone \cup {v}
  /\ UNCHANGED <<stored, msgs, wire, made, memory, load, task, missed, mix>>

(* The query of the chat's metadata.                                       *)
LoadChat(c) ==
  /\ UserOf[c] \in members
  /\ known' = [known EXCEPT ![c] = members]
  /\ UNCHANGED <<server, wire, made, chain, iter, session, load, task, missed, mix>>

-----------------------------------------------------------------------------
(* Several loads of a page overlap: fetchMessages runs whenever the store  *)
(* of the keys changes, tryDecrypt for each message that arrives.          *)
Loadable(l) == load[l] = NoLoad /\ Cardinality({k \in Loads : load[k] # NoLoad}) < mix.loads

(* loadAndDecryptSenderKeys: the rows of the user; then, for one after the *)
(* other, whether the memory has a key of the sender, the decryption, and  *)
(* setChainKey, which does not look again.                                 *)
LoadKeys(c, l) ==
  LET u == UserOf[c]  found == [s \in Users |-> stored[s][u]] IN
  /\ Loadable(l) /\ u \in members /\ found # NoKeys
  /\ load' = [load EXCEPT ![l] = [pc |-> "next", client |-> c, keys |-> found]]
  /\ UNCHANGED <<server, wire, made, memory, task, missed, mix>>

Rest(keys, s) == [keys EXCEPT ![s] = None]
Loading(c, keys) ==
  IF keys = NoKeys THEN NoLoad ELSE [pc |-> "next", client |-> c, keys |-> keys]

LoadNext(l) ==
  LET c == load[l].client  keys == load[l].keys IN
  /\ load[l].pc = "next"
  /\ \E s \in {w \in Users : keys[w] # None} :
       load' = [load EXCEPT ![l] =
         IF chain[c][s] # None THEN Loading(c, Rest(keys, s))
         ELSE [pc |-> "set", client |-> c, keys |-> keys, from |-> s]]
  /\ UNCHANGED <<server, wire, made, memory, task, missed, mix>>

(* tryDecrypt: a message of a sender without a key in memory; the row, or  *)
(* there is none.                                                          *)
LookUp(c, s, l) ==
  /\ Loadable(l) /\ chain[c][s] = None
  /\ \E i \in DOMAIN msgs : msgs[i].from = s
  /\ load' = [load EXCEPT ![l] = [pc |-> "ask", client |-> c, keys |-> NoKeys, from |-> s]]
  /\ UNCHANGED <<server, wire, made, memory, task, missed, mix>>

LookUpAnswer(l) ==
  /\ load[l].pc = "ask"
  /\ LET s == load[l].from  k == stored[s][UserOf[load[l].client]] IN
     load' = [load EXCEPT ![l] =
       IF k = None THEN NoLoad
       ELSE [pc |-> "set", client |-> @.client, keys |-> [NoKeys EXCEPT ![s] = k], from |-> s]]
  /\ UNCHANGED <<server, wire, made, memory, task, missed, mix>>

LoadSet(l) ==
  LET c == load[l].client  s == load[l].from IN
  /\ load[l].pc = "set"
  /\ chain' = [chain EXCEPT ![c][s] = load[l].keys[s]]
  /\ load' = [load EXCEPT ![l] = Loading(c, Rest(@.keys, s))]
  /\ UNCHANGED <<server, wire, made, iter, known, session, task, missed, mix>>

(* The page is reloaded: its memory is lost, and with it what it had not   *)
(* yet handed to the network.                                              *)
Reload(c) ==
  LET lost == {t \in Tasks : At(t, "collect") /\ task[t].client = c} IN
  /\ "reload" \in mix.kinds /\ session[c] < MaxReloads
  /\ session' = [session EXCEPT ![c] = @ + 1]
  /\ chain' = [chain EXCEPT ![c] = NoKeys]
  /\ iter' = [iter EXCEPT ![c] = 0]
  /\ known' = [known EXCEPT ![c] = {}]
  /\ load' = [l \in Loads |-> IF load[l] # NoLoad /\ load[l].client = c THEN NoLoad ELSE load[l]]
  /\ task' = [t \in Tasks |->
       IF At(t, "idle") \/ task[t].client # c \/ At(t, "upload") THEN task[t] ELSE Idle]
  /\ missed' = missed \cup
       UNION {{UserOf[c]} \X (task[t].todo \cup task[t].got) : t \in lost}
  /\ UNCHANGED <<server, wire, made, mix>>

-----------------------------------------------------------------------------
Run(t) ==
  \/ \E c \in mix.clients : SendAgain(t, c) \/ SendFirst(t, c)
  \/ \E c \in mix.clients, v \in Users : AddMember(t, c, v)
  \/ Collect(t) \/ Distribute(t) \/ DistributeNone(t) \/ Distributed(t)
  \/ AnswerLost(t) \/ Upload(t) \/ UploadFails(t)

Page(c) ==
  \/ LoadChat(c) \/ Reload(c)
  \/ \E l \in Loads : LoadKeys(c, l) \/ \E s \in Users : LookUp(c, s, l)

Fetch(l) == LoadNext(l) \/ LookUpAnswer(l) \/ LoadSet(l)

Next ==
  \/ \E t \in Tasks : Run(t)
  \/ \E c \in mix.clients : Page(c)
  \/ \E l \in Loads : Fetch(l)
  \/ \E b \in wire : Upsert(b) \/ UpsertFails(b)
  \/ \E v \in Users : Leave(v)

Spec == Init /\ [][Next]_vars

-----------------------------------------------------------------------------
(* Properties.                                                             *)

(* Two messages of one page never share a message key: whatever sends      *)
(* overlap, and however a chain key is replaced under them, the pair of    *)
(* chain key and iteration is used once between two reloads.               *)
NoKeyReuse ==
  \A i, j \in DOMAIN msgs :
    (/\ msgs[i].key = msgs[j].key /\ msgs[i].iter = msgs[j].iter
     /\ msgs[i].client = msgs[j].client /\ msgs[i].session = msgs[j].session) => i = j

(* Once its chain key is distributed, a message can be read by a page that *)
(* any member at the time of sending opens: his row holds the key, unless  *)
(* he was missed (his public key or the request failed, the sender's page  *)
(* had not loaded the members or did not know him yet, was reloaded first, *)
(* or somebody else added him), or the sender has made another key (after  *)
(* a reload that had not loaded the first, or in a second page).           *)
Pending(k) ==
  \/ \E t \in Tasks : At(t, "collect") /\ task[t].key = k
  \/ \E b \in wire : b.key = k
Readable(m, r) == stored[m.from][r] = m.key
ReadableUnlessMissed ==
  \A i \in DOMAIN msgs : \A r \in msgs[i].to :
    LET m == msgs[i] IN
    Pending(m.key) \/ Cardinality(MadeBy(m.from)) > 1 \/ <<m.from, r>> \in missed \/ Readable(m, r)

-----------------------------------------------------------------------------
(* The inductive invariant the proofs rest on.                             *)

(* What was encrypted by a page took an iteration before the next one, in  *)
(* the session the page is in or an earlier one.                           *)
Sealed(t) == At(t, "upload")
Spent(x) ==
  /\ x.client \in Clients /\ x.iter \in Nat /\ x.session \in Nat
  /\ x.session <= session[x.client]
  /\ x.session = session[x.client] => x.iter < iter[x.client]
EverythingSpent ==
  /\ \A t \in Tasks : Sealed(t) => Spent(task[t])
  /\ \A i \in DOMAIN msgs : Spent(msgs[i])

(* Whatever is encrypted, stored or not, is unlike anything else that is:  *)
(* no two are of one page, one session and one iteration.                  *)
Alike(x, y) == x.client = y.client /\ x.session = y.session /\ x.iter = y.iter
Unlike ==
  /\ \A t, s \in Tasks : Sealed(t) /\ Sealed(s) /\ Alike(task[t], task[s]) => t = s
  /\ \A t \in Tasks, i \in DOMAIN msgs : Sealed(t) => ~Alike(task[t], msgs[i])
  /\ \A i, j \in DOMAIN msgs : Alike(msgs[i], msgs[j]) => i = j

(* A key is the one of the user who made it, wherever it is kept, fetched, *)
(* distributed or used: nobody's key stands in for another's.              *)
Theirs(keys) == \A s \in Users : keys[s] # None => keys[s] \in MadeBy(s)
KeysOfTheirMaker ==
  /\ \A c \in Clients : Theirs(chain[c])
  /\ \A l \in Loads : load[l] # NoLoad => Theirs(load[l].keys)
  /\ \A s, r \in Users : stored[s][r] # None => stored[s][r] \in MadeBy(s)
  /\ \A t \in Tasks : task[t] # Idle => task[t].key \in MadeBy(UserOf[task[t].client])
  /\ \A b \in wire : b.key \in MadeBy(b.from)
  /\ \A i \in DOMAIN msgs : msgs[i].key \in MadeBy(msgs[i].from)

(* The only key of s has reached r, or a distribution to him is under way, *)
(* or he was missed.                                                       *)
Reaches(s, k, r) ==
  \/ stored[s][r] = k \/ <<s, r>> \in missed
  \/ \E t \in Tasks : /\ At(t, "collect") /\ task[t].key = k /\ UserOf[task[t].client] = s
                      /\ r \in task[t].todo \cup task[t].got
  \/ \E b \in wire : b.from = s /\ b.key = k /\ r \in b.to
ReachesMembers ==
  \A s \in Users, r \in members, k \in Keys : MadeBy(s) = {k} => Reaches(s, k, r)
ReachesReaders ==
  \A i \in DOMAIN msgs : \A r \in msgs[i].to :
    MadeBy(msgs[i].from) = {msgs[i].key} => Reaches(msgs[i].from, msgs[i].key, r)

SenderKeysInv ==
  /\ TypeOK /\ EverythingSpent /\ Unlike
  /\ KeysOfTheirMaker /\ ReachesMembers /\ ReachesReaders
=============================================================================
