---------------------------- MODULE ServiceIdentity ----------------------------
(***************************************************************************)
(* The service tokens behind every gRPC call of the api-gateway:           *)
(* MicroserviceIdentityAuthService fetches them from the replicas of the   *)
(* auth service, LocalIdentityGuard (auth) and MicroserviceIdentityGuard   *)
(* (communication-service) verify them, while the signing keys of the auth *)
(* service are replaced, replica by replica.                               *)
(*                                                                         *)
(* One gateway process and one process of the communication-service; an    *)
(* action is the code between two awaits.  Time passes in ticks of a       *)
(* number of milliseconds; the clocks of the processes agree.              *)
(***************************************************************************)
EXTENDS Naturals, Sequences, FiniteSets, SequencesExt

CONSTANTS
  Replicas,     \* processes of the auth service
  Keys,         \* ids of signing keys
  Rollouts,     \* the values JWT_SIGNING_KEYS takes, each a sequence of keys
  Calls,        \* slots for gRPC calls of the gateway
  None,
  TTL,          \* TOKEN_EXPIRATION_SECONDS in ticks
  MsPerTick,    \* milliseconds of a tick
  BufferMs,     \* TOKEN_BUFFER_MS
  MaxCall,      \* ticks a call takes at most (an assumption)
  MaxTime,      \* bound on the clock
  MaxFailures   \* bound on failing calls and restarts

(* The keys are replaced by overlap: what is signed with is known to the   *)
(* replicas of the rollout before and of the one after.                    *)
ASSUME RolloutsByOverlap ==
  /\ Rollouts \in Seq(Seq(Keys) \ {<<>>}) \ {<<>>}
  /\ \A v, w \in DOMAIN Rollouts : v + 1 = w \/ w + 1 = v =>
       Last(Rollouts[v]) \in ToSet(Rollouts[w])

ASSUME IdentityConstants ==
  /\ {TTL, MsPerTick, BufferMs, MaxCall, MaxTime, MaxFailures} \subseteq Nat
  /\ TTL >= 2 * MaxCall
  /\ MaxTime > 0 /\ MsPerTick > 0 /\ BufferMs >= MaxCall * MsPerTick
  /\ Replicas # {} /\ None \notin Calls \cup Keys

VARIABLES
  clock,     \* seconds since the epoch, in ticks
  target,    \* the value of JWT_SIGNING_KEYS processes are started with
  version,   \* version[p]: the value replica p of auth was started with
  settled,   \* when the last replica was started with target
  store,     \* MicroserviceIdentityStore.authTokenCache of the gateway
  inflight,  \* inflightAuthenticate: the call whose getAccessToken made it
  flight,    \* flight[r]: the authentication call r has started
  call,      \* call[r]: the gRPC call in slot r
  age,       \* age[r]: ticks passed since it began
  known,     \* MicroserviceIdentityStore.publicKeyCache of communication
  refused,   \* history: why guards have refused calls
  failures

gatewayVars == <<store, inflight, flight>>
rolloutVars == <<target, version, settled>>
vars == <<clock, rolloutVars, gatewayVars, call, age, known, refused, failures>>

-----------------------------------------------------------------------------
(* Seeded fault: the first key signs.                                      *)
FirstKey(v) == Head(Rollouts[v])
ActiveKey(v) == Last(Rollouts[v])
Published(v) == ToSet(Rollouts[v])

Times == 0..(MaxTime + TTL)
Token == [key : Keys, exp : Times]
NoToken == [key |-> None, exp |-> 0]
Services == {"auth", "communication"}
Reasons == {"missing token", "unknown key", "expired"}

Idle == [pc |-> "idle"]
NoFlight == [pc |-> "none"]
Asked == [pc |-> "asked"]
Answered(token) == [pc |-> "answered", token |-> token]

Call ==
  {Idle}
    \cup [pc : {"await"}, to : Services, on : Calls]
    \cup [pc : {"sent"}, to : Services, token : Token \cup {NoToken}]
    \cup [pc : {"refresh"}, token : Token]
    \cup [pc : {"keys"}, token : Token, keys : SUBSET Keys]

TypeOK ==
  /\ clock \in 1..MaxTime
  /\ target \in DOMAIN Rollouts
  /\ version \in [Replicas -> 1..target]
  /\ settled \in 0..MaxTime
  /\ store \in Token \cup {NoToken}
  /\ inflight \in Calls \cup {None}
  /\ flight \in [Calls -> {NoFlight, Asked} \cup {Answered(token) : token \in Token}]
  /\ call \in [Calls -> Call]
  /\ age \in [Calls -> 0..MaxCall]
  /\ known \subseteq Keys
  /\ refused \subseteq Reasons
  /\ failures \in 0..MaxFailures

Init ==
  /\ clock = 1
  /\ target = 1 /\ version = [p \in Replicas |-> 1] /\ settled = 0
  /\ store = NoToken /\ inflight = None
  /\ flight = [r \in Calls |-> NoFlight]
  /\ call = [r \in Calls |-> Idle]
  /\ age = [r \in Calls |-> 0]
  /\ known = {} /\ refused = {} /\ failures = 0

At(r, pc) == call[r].pc = pc
Become(r, next) ==
  /\ call' = [call EXCEPT ![r] = next]
  /\ age' = [age EXCEPT ![r] = IF next = Idle THEN 0 ELSE @]

-----------------------------------------------------------------------------
(* getAccessToken.  expiresAt is in seconds, Date.now() in milliseconds.   *)
Now == clock * MsPerTick
TokenValid == store # NoToken /\ store.exp > Now + BufferMs

(* Seeded fault: every call authenticates for itself.                      *)
OwnFlight(r) == r
Joined(r) == IF inflight = None THEN r ELSE inflight

GetAccessToken(r) ==
  \E to \in Services :
    /\ At(r, "idle")
    /\ IF TokenValid
       THEN /\ Become(r, [pc |-> "sent", to |-> to, token |-> store])
            /\ UNCHANGED <<inflight, flight>>
       ELSE /\ Become(r, [pc |-> "await", to |-> to, on |-> Joined(r)])
            /\ inflight' = Joined(r)
            /\ flight' = IF Joined(r) = r THEN [flight EXCEPT ![r] = Asked] ELSE flight
    /\ UNCHANGED <<clock, rolloutVars, store, known, refused, failures>>

(* A replica answers authenticateServiceIdentity.  Seeded fault: the       *)
(* expiry is computed from milliseconds.                                   *)
ExpiryOfMs(t) == t * MsPerTick + TTL
ExpiryOf(t) == t + TTL

IssueServiceToken(r, p) ==
  /\ flight[r] = Asked
  /\ flight' = [flight EXCEPT ![r] =
       Answered([key |-> ActiveKey(version[p]), exp |-> ExpiryOf(clock)])]
  /\ UNCHANGED <<clock, rolloutVars, store, inflight, call, age, known, refused, failures>>

(* The promise is settled: all who await it go on, finally() clears it.    *)
(* Seeded fault: it is cleared only when a token came.                     *)
ClearedByToken(token) == IF token = NoToken THEN inflight ELSE None
Cleared(token) == None

Settle(r, token) ==
  /\ flight' = [flight EXCEPT ![r] = NoFlight]
  /\ inflight' = Cleared(token)
  /\ call' = [q \in Calls |->
       IF At(q, "await") /\ call[q].on = r
       THEN [pc |-> "sent", to |-> call[q].to, token |-> token] ELSE call[q]]
  /\ UNCHANGED age

Authenticated(r) ==
  /\ flight[r].pc = "answered"
  /\ store' = flight[r].token
  /\ Settle(r, flight[r].token)
  /\ UNCHANGED <<clock, rolloutVars, known, refused, failures>>

(* It fails, or its answer is lost: null, and the calls go without token.  *)
AuthenticationFails(r) ==
  /\ flight[r] # NoFlight
  /\ failures < MaxFailures /\ failures' = failures + 1
  /\ Settle(r, NoToken)
  /\ UNCHANGED <<clock, rolloutVars, store, known, refused>>

-----------------------------------------------------------------------------
(* The guards.                                                             *)
Refuse(r, reason) == Become(r, Idle) /\ refused' = refused \cup {reason}
Accept(r) == Become(r, Idle) /\ UNCHANGED refused

Judge(r, keys) ==
  LET token == call[r].token IN
  IF token.key \notin keys THEN Refuse(r, "unknown key")
  ELSE IF token.exp < clock THEN Refuse(r, "expired")
  ELSE Accept(r)

GuardFindsNoToken(r) ==
  /\ At(r, "sent") /\ call[r].token = NoToken
  /\ Refuse(r, "missing token")
  /\ UNCHANGED <<clock, rolloutVars, gatewayVars, known, failures>>

LocalGuard(r, p) ==
  /\ At(r, "sent") /\ call[r].token # NoToken /\ call[r].to = "auth"
  /\ Judge(r, Published(version[p]))
  /\ UNCHANGED <<clock, rolloutVars, gatewayVars, known, failures>>

ToCommunication(r) ==
  At(r, "sent") /\ call[r].token # NoToken /\ call[r].to = "communication"

GuardKnowsKey(r) ==
  /\ ToCommunication(r) /\ call[r].token.key \in known
  /\ Judge(r, known)
  /\ UNCHANGED <<clock, rolloutVars, gatewayVars, known, failures>>

RefreshPublicKeys(r) ==
  /\ ToCommunication(r) /\ call[r].token.key \notin known
  /\ Become(r, [pc |-> "refresh", token |-> call[r].token])
  /\ UNCHANGED <<clock, rolloutVars, gatewayVars, known, refused, failures>>

GetPublicKeys(r, p) ==
  /\ At(r, "refresh")
  /\ Become(r, [pc |-> "keys", token |-> call[r].token, keys |-> Published(version[p])])
  /\ UNCHANGED <<clock, rolloutVars, gatewayVars, known, refused, failures>>

(* Keys are added and never dropped.                                       *)
GuardRefreshed(r) ==
  /\ At(r, "keys")
  /\ known' = known \cup call[r].keys
  /\ Judge(r, known')
  /\ UNCHANGED <<clock, rolloutVars, gatewayVars, failures>>

RefreshFails(r) ==
  /\ call[r].pc \in {"refresh", "keys"}
  /\ failures < MaxFailures /\ failures' = failures + 1
  /\ Become(r, Idle)
  /\ UNCHANGED <<clock, rolloutVars, gatewayVars, known, refused>>

-----------------------------------------------------------------------------
(* Restarts: what a process keeps is in its memory only.                   *)
GatewayRestarts ==
  /\ failures < MaxFailures /\ failures' = failures + 1
  /\ store' = NoToken /\ inflight' = None
  /\ flight' = [r \in Calls |-> NoFlight]
  /\ call' = [r \in Calls |-> Idle] /\ age' = [r \in Calls |-> 0]
  /\ UNCHANGED <<clock, rolloutVars, known, refused>>

CommunicationRestarts ==
  /\ failures < MaxFailures /\ failures' = failures + 1
  /\ known' = {}
  /\ call' = [r \in Calls |-> IF call[r].pc \in {"refresh", "keys"} THEN Idle ELSE call[r]]
  /\ age' = [r \in Calls |-> IF call'[r] = Idle THEN 0 ELSE age[r]]
  /\ UNCHANGED <<clock, rolloutVars, gatewayVars, refused>>

(* JWT_SIGNING_KEYS is changed, and the replicas are restarted one by one. *)
(* The next change waits until tokens of the replicas of the last but one  *)
(* value are over.                                                         *)
ChangeKeys ==
  /\ target < Len(Rollouts)
  /\ \A p \in Replicas : version[p] = target
  /\ clock > settled + TTL
  /\ target' = target + 1
  /\ UNCHANGED <<clock, version, settled, gatewayVars, call, age, known, refused, failures>>

RestartReplica(p) ==
  /\ version[p] # target
  /\ version' = [version EXCEPT ![p] = target]
  /\ settled' = clock
  /\ UNCHANGED <<clock, target, gatewayVars, call, age, known, refused, failures>>

Tick ==
  /\ clock < MaxTime
  /\ \A r \in Calls : call[r] # Idle => age[r] < MaxCall
  /\ clock' = clock + 1
  /\ age' = [r \in Calls |-> IF call[r] = Idle THEN 0 ELSE age[r] + 1]
  /\ UNCHANGED <<rolloutVars, gatewayVars, call, known, refused, failures>>

Step(r) ==
  \/ GetAccessToken(r)
  \/ Authenticated(r)
  \/ AuthenticationFails(r)
  \/ GuardFindsNoToken(r)
  \/ GuardKnowsKey(r)
  \/ RefreshPublicKeys(r)
  \/ GuardRefreshed(r)
  \/ RefreshFails(r)
  \/ \E p \in Replicas : IssueServiceToken(r, p) \/ LocalGuard(r, p) \/ GetPublicKeys(r, p)

Next ==
  \/ \E r \in Calls : Step(r)
  \/ \E p \in Replicas : RestartReplica(p)
  \/ GatewayRestarts
  \/ CommunicationRestarts
  \/ ChangeKeys
  \/ Tick

Spec == Init /\ [][Next]_vars

-----------------------------------------------------------------------------
(* Properties.                                                             *)

(* No guard refuses a call that carries a token, whichever replica issued  *)
(* it, whichever replica or cache of keys meets it, and however far the    *)
(* replacement of the keys has got: a rollout by overlap is not noticed    *)
(* (activeKey is the last of JWT_SIGNING_KEYS, and all of them verify).    *)
NoTokenRefused == refused \subseteq {"missing token"}

(* No call awaits a promise that will not settle: those who joined an      *)
(* authentication are let go with it, also when it fails.                  *)
NobodyStranded ==
  \A r \in Calls : At(r, "await") => flight[call[r].on] # NoFlight

(* A token is replaced by one that lasts longer or as long: concurrent     *)
(* calls share one authentication, so no answer overtakes another.         *)
StoreNeverGoesBack ==
  [][store # NoToken /\ store' # NoToken => store'.exp >= store.exp]_vars

-----------------------------------------------------------------------------
(* The inductive invariant of the proofs.                                  *)

(* There is one authentication at most, of the call that started it.       *)
OneFlight ==
  /\ NobodyStranded
  /\ inflight # None => flight[inflight] # NoFlight
  /\ \A r \in Calls : flight[r] # NoFlight =>
       At(r, "await") /\ call[r].on = r /\ inflight = r

Carries(r) == call[r].pc \in {"sent", "refresh", "keys"} /\ call[r].token # NoToken

(* No token outlasts one that is issued now, or one that was asked for     *)
(* later.                                                                  *)
TokensIssued ==
  /\ store.exp <= clock + TTL
  /\ \A r \in Calls : flight[r].pc = "answered" =>
       flight[r].token.exp <= clock + TTL /\ store.exp <= flight[r].token.exp
  /\ \A r \in Calls : Carries(r) => call[r].token.exp <= clock + TTL

(* A token on its way lasts as long as the call may still take.            *)
TokensLast ==
  /\ \A r \in Calls : flight[r].pc = "answered" => clock + TTL <= flight[r].token.exp + age[r]
  /\ \A r \in Calls : Carries(r) => clock + MaxCall <= call[r].token.exp + age[r]

(* What signed it is the active key, or was until the last rollout.        *)
Verifiable(token) ==
  \/ token.key = ActiveKey(target)
  \/ /\ target > 1 /\ token.key = ActiveKey(target - 1)
     /\ token.exp <= settled + TTL \/ \E p \in Replicas : version[p] # target

TokensVerifiable ==
  /\ store # NoToken /\ store.exp >= clock => Verifiable(store)
  /\ \A r \in Calls : flight[r].pc = "answered" => Verifiable(flight[r].token)
  /\ \A r \in Calls : Carries(r) =>
       IF At(r, "keys") THEN call[r].token.key \in call[r].keys ELSE Verifiable(call[r].token)

OneRolloutAtATime == \A p \in Replicas : version[p] + 1 >= target

IdentityInv ==
  /\ TypeOK /\ OneFlight /\ TokensIssued /\ TokensLast /\ TokensVerifiable
  /\ OneRolloutAtATime /\ NoTokenRefused
=============================================================================
