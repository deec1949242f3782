----------------------------- MODULE AuthProofs -----------------------------
(* Proofs about the two parts of authentication, which share nothing:      *)
(* ServiceIdentity, for any replicas, calls and sequence of rollouts by    *)
(* overlap and any durations its assumptions allow; and, after it,         *)
(* Sessions, for every value of its constants.                             *)
EXTENDS ServiceIdentity, Sessions, TLAPS

(* ActiveKey and Published are keys, and overlap from one rollout to the   *)
(* next.                                                                   *)
LEMMA Overlapping ==
  ASSUME NEW v \in DOMAIN Rollouts, NEW w \in DOMAIN Rollouts, v = w \/ v + 1 = w \/ w + 1 = v
  PROVE  /\ ActiveKey(v) \in Keys
         /\ Published(w) \subseteq Keys
         /\ ActiveKey(v) \in Published(w)
<1>1. Rollouts[v] \in Seq(Keys) \ {<<>>} /\ Rollouts[w] \in Seq(Keys) \ {<<>>}
  BY RolloutsByOverlap
<1>2. ActiveKey(v) \in Keys /\ ActiveKey(v) \in Published(v)
  BY <1>1 DEF ActiveKey, Published, Last, ToSet
<1>3. Published(w) \subseteq Keys
  BY <1>1 DEF Published, ToSet
<1>4. v # w => ActiveKey(v) \in Published(w)
  BY RolloutsByOverlap DEF ActiveKey, Published
<1> QED BY <1>2, <1>3, <1>4

LEMMA RolloutsDomain == DOMAIN Rollouts = 1..Len(Rollouts) /\ Len(Rollouts) \in Nat /\ 1 \in DOMAIN Rollouts
  BY RolloutsByOverlap, IdentityConstants

LEMMA Bounds ==
  /\ TTL \in Nat /\ MsPerTick \in Nat /\ BufferMs \in Nat /\ MaxCall \in Nat
  /\ MaxTime \in Nat /\ MaxFailures \in Nat /\ TTL >= 2 * MaxCall
  BY IdentityConstants

LEMMA ZeroAge == 0 \in 0..MaxCall
  BY IdentityConstants

LEMMA CallShapes ==
  ASSUME TypeOK, NEW r \in Calls
  PROVE  /\ call[r] \in Call
         /\ At(r, "await") => call[r].to \in Services /\ call[r].on \in Calls
         /\ At(r, "sent") => call[r].to \in Services /\ call[r].token \in Token \cup {NoToken}
         /\ At(r, "refresh") => call[r].token \in Token
         /\ At(r, "keys") => call[r].token \in Token /\ call[r].keys \subseteq Keys
         /\ call[r] = Idle <=> At(r, "idle")
  BY DEF TypeOK, Call, At, Idle

LEMMA FlightShapes ==
  ASSUME TypeOK, NEW r \in Calls
  PROVE  /\ flight[r] = NoFlight \/ flight[r] = Asked \/ flight[r].pc = "answered"
         /\ flight[r].pc = "answered" =>
              flight[r].token \in Token /\ flight[r] = Answered(flight[r].token)
         /\ flight[r].pc = "answered" => flight[r] # NoFlight
  BY DEF TypeOK, NoFlight, Asked, Answered

LEMMA TokenShapes ==
  /\ NoToken \notin Token
  /\ NoToken.exp = 0
  /\ \A token \in Token : token.exp \in Nat /\ token.key \in Keys
  BY IdentityConstants DEF Token, NoToken, Times

LEMMA InitInv == Init => IdentityInv
<1> SUFFICES ASSUME Init PROVE IdentityInv
  OBVIOUS
<1>1. TypeOK
  <2>1. target \in DOMAIN Rollouts /\ version \in [Replicas -> 1..target] /\ settled \in 0..MaxTime
    BY RolloutsDomain, IdentityConstants DEF Init
  <2>2. clock \in 1..MaxTime
    BY IdentityConstants DEF Init
  <2>3. call \in [Calls -> Call] /\ flight \in [Calls -> {NoFlight, Asked} \cup {Answered(token) : token \in Token}]
    BY DEF Init, Call
  <2>4. age \in [Calls -> 0..MaxCall] /\ failures \in 0..MaxFailures
    BY IdentityConstants DEF Init
  <2> QED BY <2>1, <2>2, <2>3, <2>4 DEF Init, TypeOK
<1>2. OneFlight
  BY DEF Init, OneFlight, NobodyStranded, At, Idle
<1>3. TokensIssued /\ TokensLast /\ TokensVerifiable
  BY IdentityConstants, TokenShapes DEF Init, TokensIssued, TokensLast, TokensVerifiable, Carries, Idle, NoFlight
<1>4. OneRolloutAtATime /\ NoTokenRefused
  BY DEF Init, OneRolloutAtATime, NoTokenRefused
<1> QED BY <1>1, <1>2, <1>3, <1>4 DEF IdentityInv

-----------------------------------------------------------------------------
(* A call goes on by itself: what it carries it carried before.            *)
LEMMA CallMoves ==
  ASSUME IdentityInv, NEW r \in Calls, NEW next \in Call,
         Become(r, next), UNCHANGED <<clock, rolloutVars, gatewayVars>>,
         ~At(r, "await"), next.pc # "await",
         next.pc \in {"sent", "refresh", "keys"} /\ next.token # NoToken =>
           /\ Carries(r) /\ next.token = call[r].token
           /\ IF next.pc = "keys" THEN next.token.key \in next.keys ELSE Verifiable(next.token),
         known' \subseteq Keys, refused' \subseteq {"missing token"}, failures' \in 0..MaxFailures
  PROVE  IdentityInv'
<1>0. 0 \in 0..MaxCall
  BY ZeroAge
<1> USE DEF IdentityInv
<1>1. /\ call' \in [Calls -> Call] /\ call'[r] = next
      /\ \A q \in Calls \ {r} : call'[q] = call[q] /\ age'[q] = age[q]
      /\ age' \in [Calls -> 0..MaxCall]
      /\ next # Idle => age'[r] = age[r]
  <2>1. call \in [Calls -> Call] /\ age \in [Calls -> 0..MaxCall]
    BY DEF TypeOK
  <2> QED BY <1>0, <2>1 DEF Become
<1>2. TypeOK'
  BY <1>1 DEF TypeOK, rolloutVars, gatewayVars, Reasons
<1>3. OneFlight'
  <2>1. inflight' = inflight /\ flight' = flight
    BY DEF gatewayVars
  <2>2. NobodyStranded'
    <3>1. NobodyStranded
      BY DEF OneFlight
    <3>2. \A q \in Calls : At(q, "await")' => At(q, "await") /\ call'[q].on = call[q].on
      BY <1>1 DEF At
    <3>. QED
      BY <2>1, <3>1, <3>2 DEF NobodyStranded
  <2>3. \A q \in Calls : flight[q] # NoFlight =>
          q # r /\ At(q, "await") /\ call[q].on = q /\ inflight = q
    BY DEF OneFlight
  <2>. QED
    BY <1>1, <2>1, <2>2, <2>3 DEF OneFlight, At
<1>4. next.pc \in {"sent", "refresh", "keys"} => age'[r] = age[r]
  <2>1. next.pc \in {"sent", "refresh", "keys"} => next # Idle
    <3>1. Idle.pc = "idle"
      BY DEF Idle
    <3> QED BY <3>1
  <2> QED BY <1>1, <2>1
<1>5. TokensIssued'
  BY <1>1, <1>4 DEF TokensIssued, Carries, gatewayVars
<1>6. \A q \in Calls : flight[q].pc = "answered" => q # r
  BY FlightShapes DEF OneFlight
<1>7. TokensLast'
  BY <1>1, <1>4, <1>6 DEF TokensLast, Carries, gatewayVars
<1>8. ASSUME NEW token PROVE Verifiable(token)' = Verifiable(token)
  BY DEF Verifiable, rolloutVars
<1>9. TokensVerifiable'
  <2>1. (store # NoToken /\ store.exp >= clock => Verifiable(store))'
    BY <1>8 DEF TokensVerifiable, gatewayVars
  <2>2. (\A q \in Calls : flight[q].pc = "answered" => Verifiable(flight[q].token))'
    BY DEF TokensVerifiable, gatewayVars, rolloutVars, Verifiable
  <2>3. ASSUME NEW q \in Calls, Carries(q)'
        PROVE  (IF At(q, "keys") THEN call[q].token.key \in call[q].keys ELSE Verifiable(call[q].token))'
    BY <1>1, <2>3 DEF TokensVerifiable, Carries, At, rolloutVars, Verifiable
  <2> QED BY <2>1, <2>2, <2>3 DEF TokensVerifiable
<1> QED BY <1>2, <1>3, <1>5, <1>7, <1>9 DEF OneRolloutAtATime, NoTokenRefused, rolloutVars

(* The key of a token on its way verifies at every replica.                *)
LEMMA VerifiedByReplicas ==
  ASSUME IdentityInv, NEW token, Verifiable(token), NEW p \in Replicas
  PROVE  token.key \in Published(version[p]) /\ Published(version[p]) \subseteq Keys
<1>1. version[p] \in 1..target /\ version[p] + 1 >= target /\ target \in DOMAIN Rollouts /\ target \in Nat
  BY RolloutsDomain DEF IdentityInv, TypeOK, OneRolloutAtATime
<1>2. version[p] \in DOMAIN Rollouts /\ (version[p] = target \/ version[p] + 1 = target)
  BY <1>1, RolloutsDomain
<1>3. token.key = ActiveKey(target) \/ (target - 1 \in DOMAIN Rollouts /\ token.key = ActiveKey(target - 1))
  BY <1>1, RolloutsDomain DEF Verifiable
<1>4. CASE token.key = ActiveKey(target)
  BY <1>1, <1>2, <1>4, Overlapping
<1>5. CASE target - 1 \in DOMAIN Rollouts /\ token.key = ActiveKey(target - 1)
  <2>1. version[p] = (target - 1) + 1 \/ version[p] = target - 1
    BY <1>1, <1>2
  <2> QED BY <1>1, <1>2, <1>5, <2>1, Overlapping
<1> QED BY <1>3, <1>4, <1>5

LEMMA NotExpired ==
  ASSUME IdentityInv, NEW r \in Calls, Carries(r)
  PROVE  /\ ~(call[r].token.exp < clock)
         /\ call[r].token \in Token
         /\ ~At(r, "await")
<1>1. call[r].token \in Token /\ ~At(r, "await")
  BY CallShapes DEF Carries, At, IdentityInv
<1>2. clock + MaxCall <= call[r].token.exp + age[r] /\ age[r] \in 0..MaxCall /\ clock \in Nat
  BY DEF IdentityInv, TokensLast, TypeOK
<1> QED BY <1>1, <1>2, IdentityConstants, TokenShapes

LEMMA Accepted ==
  ASSUME IdentityInv, NEW r \in Calls, Carries(r), NEW keys, call[r].token.key \in keys, Judge(r, keys)
  PROVE  Become(r, Idle) /\ refused' = refused
  BY NotExpired DEF Judge, Accept

LEMMA GuardsKeep ==
  ASSUME IdentityInv, NEW r \in Calls,
         \/ GuardFindsNoToken(r) \/ GuardKnowsKey(r) \/ RefreshPublicKeys(r)
         \/ GuardRefreshed(r) \/ RefreshFails(r)
         \/ \E p \in Replicas : LocalGuard(r, p) \/ GetPublicKeys(r, p)
  PROVE  IdentityInv'
<1>0. /\ Idle \in Call /\ Idle.pc = "idle"
      /\ known \subseteq Keys /\ refused \subseteq {"missing token"} /\ failures \in 0..MaxFailures
  BY DEF Call, Idle, IdentityInv, TypeOK, NoTokenRefused
<1>1. CASE GuardFindsNoToken(r)
  BY <1>0, <1>1, CallMoves DEF GuardFindsNoToken, Refuse, At
<1>2. CASE GuardKnowsKey(r)
  <2>1. Carries(r) /\ ~At(r, "await")
    BY <1>2 DEF GuardKnowsKey, ToCommunication, Carries, At
  <2>2. Become(r, Idle) /\ refused' = refused
    BY <1>2, <2>1, Accepted DEF GuardKnowsKey
  <2> QED BY <1>0, <1>2, <2>1, <2>2, CallMoves DEF GuardKnowsKey
<1>3. CASE RefreshPublicKeys(r)
  <2> DEFINE next == [pc |-> "refresh", token |-> call[r].token]
  <2>1. Carries(r) /\ ~At(r, "await") /\ ~At(r, "keys")
    BY <1>3 DEF RefreshPublicKeys, ToCommunication, Carries, At
  <2>2. next \in Call
    BY <2>1, NotExpired DEF Call
  <2>3. Verifiable(call[r].token)
    BY <2>1 DEF IdentityInv, TokensVerifiable
  <2> QED BY <1>0, <1>3, <2>1, <2>2, <2>3, CallMoves DEF RefreshPublicKeys
<1>4. CASE GuardRefreshed(r)
  <2>1. Carries(r) /\ ~At(r, "await")
    BY <1>4, CallShapes, TokenShapes DEF GuardRefreshed, Carries, At, IdentityInv
  <2>2. call[r].token.key \in known' /\ known' \subseteq Keys
    BY <1>0, <1>4, <2>1, CallShapes DEF GuardRefreshed, IdentityInv, TokensVerifiable
  <2>3. Become(r, Idle) /\ refused' = refused
    BY <1>4, <2>1, <2>2, Accepted DEF GuardRefreshed
  <2> QED BY <1>0, <1>4, <2>1, <2>2, <2>3, CallMoves DEF GuardRefreshed
<1>5. CASE RefreshFails(r)
  <2>1. failures' \in 0..MaxFailures
    <3>1. failures < MaxFailures /\ failures' = failures + 1
      BY <1>5 DEF RefreshFails
    <3>2. failures \in 0..MaxFailures
      BY <1>0
    <3>3. MaxFailures \in Nat
      BY IdentityConstants
    <3> QED BY <3>1, <3>2, <3>3
  <2> QED BY <1>0, <1>5, <2>1, CallMoves DEF RefreshFails, At
<1>6. ASSUME NEW p \in Replicas, LocalGuard(r, p) PROVE IdentityInv'
  <2>1. Carries(r) /\ ~At(r, "await") /\ ~At(r, "keys")
    BY <1>6 DEF LocalGuard, Carries, At
  <2>2. call[r].token.key \in Published(version[p])
    BY <2>1, VerifiedByReplicas DEF IdentityInv, TokensVerifiable
  <2>3. Become(r, Idle) /\ refused' = refused
    BY <1>6, <2>1, <2>2, Accepted DEF LocalGuard
  <2> QED BY <1>0, <1>6, <2>1, <2>3, CallMoves DEF LocalGuard
<1>7. ASSUME NEW p \in Replicas, GetPublicKeys(r, p) PROVE IdentityInv'
  <2> DEFINE next == [pc |-> "keys", token |-> call[r].token, keys |-> Published(version[p])]
  <2>1. Carries(r) /\ ~At(r, "await") /\ ~At(r, "keys")
    BY <1>7, CallShapes, TokenShapes DEF GetPublicKeys, Carries, At, IdentityInv
  <2>2. call[r].token.key \in Published(version[p]) /\ Published(version[p]) \subseteq Keys
    BY <2>1, VerifiedByReplicas DEF IdentityInv, TokensVerifiable
  <2>3. next \in Call
    BY <2>1, <2>2, NotExpired DEF Call
  <2> QED BY <1>0, <1>7, <2>1, <2>2, <2>3, CallMoves DEF GetPublicKeys
<1> QED BY <1>1, <1>2, <1>3, <1>4, <1>5, <1>6, <1>7

-----------------------------------------------------------------------------
(* Milliseconds and seconds: a token that TokenValid finds lasts.          *)
LEMMA Stretched ==
  ASSUME NEW m \in Nat, m > 0, NEW c \in Nat
  PROVE  c * m \in Nat /\ c * m >= c
<1>1. PICK k \in Nat : m = k + 1
  <2>1. m - 1 \in Nat /\ m = (m - 1) + 1
    OBVIOUS
  <2> QED BY <2>1
<1>2. c * m = c * k + c /\ c * k \in Nat
  BY <1>1
<1> QED BY <1>2

LEMMA ValidLasts ==
  ASSUME IdentityInv, TokenValid
  PROVE  store \in Token /\ clock + MaxCall <= store.exp /\ Verifiable(store)
<1>1. store \in Token /\ store # NoToken /\ clock \in Nat /\ store.exp > clock * MsPerTick + BufferMs
  BY TokenShapes DEF IdentityInv, TypeOK, TokenValid, Now
<1>2. MaxCall \in Nat /\ MsPerTick \in Nat /\ MsPerTick > 0 /\ BufferMs \in Nat
      /\ BufferMs >= MaxCall * MsPerTick
  BY IdentityConstants
<1>3. clock * MsPerTick \in Nat /\ clock * MsPerTick >= clock
  BY <1>1, <1>2, Stretched
<1>4. MaxCall * MsPerTick \in Nat /\ MaxCall * MsPerTick >= MaxCall
  BY <1>2, Stretched
<1>5. store.exp \in Nat
  BY <1>1, TokenShapes
<1>6. \A a, b \in Nat : a >= clock /\ b >= MaxCall /\ BufferMs >= b /\ store.exp > a + BufferMs
        => clock + MaxCall <= store.exp /\ store.exp >= clock
  BY <1>1, <1>2, <1>5
<1>7. clock + MaxCall <= store.exp /\ store.exp >= clock
  BY <1>1, <1>2, <1>3, <1>4, <1>6
<1> QED BY <1>1, <1>7 DEF IdentityInv, TokensVerifiable

(* A call that takes the stored token, or awaits one.                      *)
LEMMA GetAccessTokenKeeps ==
  ASSUME IdentityInv, NEW r \in Calls, GetAccessToken(r)
  PROVE  IdentityInv'
<1> USE DEF IdentityInv
<1>1. PICK to \in Services : GetAccessToken(r)!(to)
  BY DEF GetAccessToken
<1>2. At(r, "idle") /\ UNCHANGED <<clock, rolloutVars, store, known, refused, failures>>
  BY <1>1
<1>3. call \in [Calls -> Call] /\ age \in [Calls -> 0..MaxCall]
      /\ flight \in [Calls -> {NoFlight, Asked} \cup {Answered(token) : token \in Token}]
  BY DEF TypeOK
<1>4. flight[r] = NoFlight
  BY <1>2 DEF OneFlight, At
<1>5. \A token : Verifiable(token)' = Verifiable(token)
  BY <1>2 DEF Verifiable, rolloutVars
<1>6. CASE TokenValid
  <2> DEFINE next == [pc |-> "sent", to |-> to, token |-> store]
  <2>1. store \in Token /\ clock + MaxCall <= store.exp /\ Verifiable(store)
    BY <1>6, ValidLasts
  <2>2. next \in Call /\ next # Idle
    BY <2>1 DEF Call, Idle
  <2>3. /\ call' \in [Calls -> Call] /\ call'[r] = next /\ age' = age
        /\ \A q \in Calls \ {r} : call'[q] = call[q]
    BY <1>1, <1>3, <1>6, <2>2 DEF Become
  <2>4. UNCHANGED <<inflight, flight>>
    BY <1>1, <1>6
  <2>5. TypeOK' /\ OneRolloutAtATime' /\ NoTokenRefused'
    BY <1>2, <2>3, <2>4 DEF TypeOK, OneRolloutAtATime, NoTokenRefused, rolloutVars
  <2>6. OneFlight'
    BY <1>2, <2>3, <2>4 DEF OneFlight, NobodyStranded, At
  <2>7. TokensIssued'
    BY <1>2, <2>3, <2>4 DEF TokensIssued, Carries
  <2>8. TokensLast'
    <3>1. age[r] \in Nat /\ store.exp \in Nat /\ clock \in Nat /\ MaxCall \in Nat
      BY <1>3, <2>1, TokenShapes, Bounds DEF TypeOK
    <3>2. clock + MaxCall <= store.exp + age[r]
      BY <2>1, <3>1
    <3> QED BY <1>2, <2>3, <2>4, <3>2 DEF TokensLast, Carries
  <2>9. TokensVerifiable'
    BY <1>2, <1>5, <2>1, <2>3, <2>4 DEF TokensVerifiable, Carries, At
  <2> QED BY <2>5, <2>6, <2>7, <2>8, <2>9
<1>7. CASE ~TokenValid
  <2> DEFINE next == [pc |-> "await", to |-> to, on |-> Joined(r)]
  <2>1. Joined(r) \in Calls
    BY DEF Joined, TypeOK
  <2>2. next \in Call /\ next # Idle
    BY <2>1 DEF Call, Idle
  <2>3. /\ call' \in [Calls -> Call] /\ call'[r] = next /\ age' = age
        /\ \A q \in Calls \ {r} : call'[q] = call[q]
    BY <1>1, <1>3, <1>7, <2>2 DEF Become
  <2>4. inflight' = Joined(r)
        /\ flight' = IF Joined(r) = r THEN [flight EXCEPT ![r] = Asked] ELSE flight
    BY <1>1, <1>7
  <2>5. flight' \in [Calls -> {NoFlight, Asked} \cup {Answered(token) : token \in Token}]
    BY <1>3, <2>4
  <2>6. TypeOK' /\ OneRolloutAtATime' /\ NoTokenRefused'
    BY <1>2, <2>1, <2>3, <2>4, <2>5 DEF TypeOK, OneRolloutAtATime, NoTokenRefused, rolloutVars
  <2>7. \A q \in Calls : flight'[q] = flight[q] \/ (q = r /\ flight'[q] = Asked)
    BY <1>3, <2>4
  <2>8. OneFlight'
    <3>1. CASE inflight = None
      <4>1. Joined(r) = r /\ flight' = [flight EXCEPT ![r] = Asked]
        BY <2>4, <3>1 DEF Joined
      <4>2. \A q \in Calls : flight[q] = NoFlight
        BY <3>1, IdentityConstants DEF OneFlight
      <4>3. flight'[r] = Asked /\ \A q \in Calls \ {r} : flight'[q] = NoFlight
        BY <1>3, <4>1, <4>2
      <4>4. \A q \in Calls : ~At(q, "await")
        BY <4>2, CallShapes DEF OneFlight, NobodyStranded
      <4> QED BY <2>3, <2>4, <4>1, <4>3, <4>4 DEF OneFlight, NobodyStranded, At, Asked, NoFlight
    <3>2. CASE inflight # None
      <4>1. inflight \in Calls /\ flight[inflight] # NoFlight
        BY <3>2 DEF OneFlight, TypeOK
      <4>2. Joined(r) = inflight /\ inflight # r
        BY <1>4, <3>2, <4>1 DEF Joined
      <4>3. flight' = flight /\ inflight' = inflight
        BY <2>4, <4>2
      <4> QED BY <1>4, <2>3, <4>1, <4>2, <4>3 DEF OneFlight, NobodyStranded, At
    <3> QED BY <3>1, <3>2
  <2>9. \A q \in Calls : flight'[q].pc = "answered" => flight'[q] = flight[q]
    BY <2>7 DEF Asked
  <2>10. \A q \in Calls : Carries(q)' => q # r /\ Carries(q)
    BY <2>3 DEF Carries
  <2>11. TokensIssued' /\ TokensLast'
    BY <1>2, <2>3, <2>9, <2>10 DEF TokensIssued, TokensLast
  <2>12. TokensVerifiable'
    BY <1>2, <1>5, <2>3, <2>9, <2>10 DEF TokensVerifiable, At
  <2> QED BY <2>6, <2>8, <2>11, <2>12
<1> QED BY <1>6, <1>7

-----------------------------------------------------------------------------
(* A replica signs with its own active key, whichever value it has.        *)
LEMMA IssueServiceTokenKeeps ==
  ASSUME IdentityInv, NEW r \in Calls, NEW p \in Replicas, IssueServiceToken(r, p)
  PROVE  IdentityInv'
<1> USE DEF IdentityInv
<1> DEFINE token == [key |-> ActiveKey(version[p]), exp |-> clock + TTL]
<1>1. /\ flight[r] = Asked /\ flight' = [flight EXCEPT ![r] = Answered(token)]
      /\ UNCHANGED <<clock, rolloutVars, store, inflight, call, age, known, refused, failures>>
  BY DEF IssueServiceToken, ExpiryOf
<1>2. clock \in 1..MaxTime /\ MaxTime \in Nat /\ TTL \in Nat /\ age[r] \in Nat
  BY Bounds DEF TypeOK
<1>3. version[p] \in 1..target /\ version[p] + 1 >= target /\ target \in DOMAIN Rollouts
  BY DEF TypeOK, OneRolloutAtATime
<1>4. version[p] \in DOMAIN Rollouts
  BY <1>3, RolloutsDomain
<1>5. token.key \in Keys
  BY <1>4, Overlapping
<1>6. token.exp \in Times
  BY <1>2 DEF Times
<1>7. token \in Token
  BY <1>5, <1>6 DEF Token
<1>8. Verifiable(token)
  <2>1. target \in Nat /\ version[p] \in Nat
    BY <1>3, RolloutsDomain
  <2>2. CASE version[p] = target
    BY <2>2 DEF Verifiable
  <2>3. CASE version[p] # target
    <3>1. version[p] = target - 1 /\ target > 1
      BY <1>3, <2>1, <2>3
    <3>2. token.key = ActiveKey(target - 1)
      BY <3>1
    <3> QED BY <2>3, <3>1, <3>2 DEF Verifiable
  <2> QED BY <2>2, <2>3
<1>9. flight \in [Calls -> {NoFlight, Asked} \cup {Answered(t) : t \in Token}]
  BY DEF TypeOK
<1>10. /\ flight' \in [Calls -> {NoFlight, Asked} \cup {Answered(t) : t \in Token}]
       /\ flight'[r] = Answered(token)
       /\ \A q \in Calls \ {r} : flight'[q] = flight[q]
  BY <1>1, <1>7, <1>9
<1>11. TypeOK' /\ OneRolloutAtATime' /\ NoTokenRefused'
  BY <1>1, <1>10 DEF TypeOK, OneRolloutAtATime, NoTokenRefused, rolloutVars
<1>12. OneFlight'
  BY <1>1, <1>10 DEF OneFlight, NobodyStranded, At, Asked, NoFlight, Answered
<1>13. TokensIssued'
  <2>1. store.exp <= token.exp /\ token.exp <= clock + TTL
    BY <1>2 DEF TokensIssued
  <2> QED BY <1>1, <1>10, <2>1 DEF TokensIssued, Carries, Answered
<1>14. TokensLast'
  <2>1. clock + TTL <= token.exp + age[r]
    BY <1>2
  <2> QED BY <1>1, <1>10, <2>1 DEF TokensLast, Carries, Answered
<1>15. ASSUME NEW t, Verifiable(t) PROVE Verifiable(t)'
  BY <1>1, <1>15 DEF Verifiable, rolloutVars
<1>16. TokensVerifiable'
  <2>1. (store # NoToken /\ store.exp >= clock => Verifiable(store))'
    BY <1>1, <1>15 DEF TokensVerifiable
  <2>2. ASSUME NEW q \in Calls, flight'[q].pc = "answered"
        PROVE  Verifiable(flight[q].token)'
    BY <1>1, <1>8, <1>10, <2>2 DEF TokensVerifiable, Verifiable, rolloutVars, Answered
  <2>3. ASSUME NEW q \in Calls, Carries(q)'
        PROVE  (IF At(q, "keys") THEN call[q].token.key \in call[q].keys ELSE Verifiable(call[q].token))'
    BY <1>1, <2>3 DEF TokensVerifiable, Carries, At, Verifiable, rolloutVars
  <2> QED BY <2>1, <2>2, <2>3 DEF TokensVerifiable
<1> QED BY <1>11, <1>12, <1>13, <1>14, <1>16

(* Those who await an authentication go on with its token, or with none.   *)
LEMMA SettleKeeps ==
  ASSUME IdentityInv, NEW r \in Calls, flight[r] # NoFlight, NEW token \in Token \cup {NoToken},
         Settle(r, token), store' = (IF token = NoToken THEN store ELSE token),
         token # NoToken => flight[r].pc = "answered" /\ token = flight[r].token,
         UNCHANGED <<clock, rolloutVars, known, refused>>, failures' \in 0..MaxFailures
  PROVE  IdentityInv'
<1> USE DEF IdentityInv
<1>1. /\ flight' = [flight EXCEPT ![r] = NoFlight] /\ inflight' = None /\ age' = age
      /\ call' = [q \in Calls |->
           IF At(q, "await") /\ call[q].on = r
           THEN [pc |-> "sent", to |-> call[q].to, token |-> token] ELSE call[q]]
  BY DEF Settle, Cleared
<1>2. call \in [Calls -> Call] /\ age \in [Calls -> 0..MaxCall]
      /\ flight \in [Calls -> {NoFlight, Asked} \cup {Answered(t) : t \in Token}]
  BY DEF TypeOK
<1>3. \A q \in Calls : flight'[q] = NoFlight
  BY <1>1, <1>2 DEF OneFlight
<1>4. \A q \in Calls : At(q, "await") => call[q].on = r
  BY CallShapes DEF OneFlight, NobodyStranded
<1>5. ASSUME NEW q \in Calls
      PROVE  \/ At(q, "await") /\ call'[q] = [pc |-> "sent", to |-> call[q].to, token |-> token]
             \/ ~At(q, "await") /\ call'[q] = call[q]
  BY <1>1, <1>4
<1>6. ASSUME NEW q \in Calls PROVE call'[q] \in Call
  <2>1. CASE At(q, "await")
    <3>1. call[q].to \in Services
      BY <2>1, CallShapes
    <3>2. call'[q] = [pc |-> "sent", to |-> call[q].to, token |-> token]
      BY <1>5, <2>1
    <3>3. call'[q] \in [pc : {"sent"}, to : Services, token : Token \cup {NoToken}]
      BY <3>1, <3>2
    <3> QED BY <3>3 DEF Call
  <2>2. CASE ~At(q, "await")
    BY <1>2, <1>5, <2>2
  <2> QED BY <2>1, <2>2
<1>7. call' \in [Calls -> Call]
  BY <1>1, <1>6
<1>8. flight' \in [Calls -> {NoFlight, Asked} \cup {Answered(t) : t \in Token}]
  BY <1>1, <1>2
<1>9. store' \in Token \cup {NoToken}
  BY DEF TypeOK
<1>10. TypeOK' /\ OneRolloutAtATime' /\ NoTokenRefused'
  BY <1>1, <1>7, <1>8, <1>9 DEF TypeOK, OneRolloutAtATime, NoTokenRefused, rolloutVars
<1>11. OneFlight'
  BY <1>1, <1>3, <1>5 DEF OneFlight, NobodyStranded, At
<1>12. ASSUME NEW q \in Calls, Carries(q)'
       PROVE  \/ At(q, "await") /\ call'[q].token = token /\ token # NoToken /\ ~At(q, "keys")'
              \/ Carries(q) /\ call'[q] = call[q]
  <2>1. CASE At(q, "await")
    <3>1. call'[q] = [pc |-> "sent", to |-> call[q].to, token |-> token]
      BY <1>5, <2>1
    <3>2. call'[q].pc = "sent" /\ call'[q].token = token
      BY <3>1
    <3>3. call'[q].token # NoToken
      BY <1>12 DEF Carries
    <3> QED BY <2>1, <3>2, <3>3 DEF At
  <2>2. CASE ~At(q, "await")
    <3>1. call'[q] = call[q]
      BY <1>5, <2>2
    <3> QED BY <1>12, <3>1 DEF Carries
  <2> QED BY <2>1, <2>2
<1>13. NoFlight.pc = "none"
  BY DEF NoFlight
<1>14. token # NoToken =>
         /\ token.exp <= clock + TTL /\ clock + MaxCall <= token.exp /\ Verifiable(token)
         /\ token.exp \in Nat
  <2> SUFFICES ASSUME token # NoToken
               PROVE  /\ token.exp <= clock + TTL /\ clock + MaxCall <= token.exp /\ Verifiable(token)
                      /\ token.exp \in Nat
    OBVIOUS
  <2>1. flight[r].pc = "answered" /\ token = flight[r].token /\ token.exp \in Nat
    BY TokenShapes
  <2>2. token.exp <= clock + TTL /\ clock + TTL <= token.exp + age[r] /\ Verifiable(token)
    BY <2>1 DEF TokensIssued, TokensLast, TokensVerifiable
  <2>3. clock \in Nat /\ age[r] \in 0..MaxCall /\ TTL \in Nat /\ MaxCall \in Nat /\ TTL >= 2 * MaxCall
    BY <1>2, Bounds DEF TypeOK
  <2>4. clock + MaxCall <= token.exp
    BY <2>1, <2>2, <2>3
  <2> QED BY <2>1, <2>2, <2>4
<1>15. TokensIssued'
  <2>1. store'.exp <= clock + TTL
    BY <1>14 DEF TokensIssued
  <2>2. ASSUME NEW q \in Calls, Carries(q)' PROVE call'[q].token.exp <= clock + TTL
    BY <1>12, <1>14, <2>2 DEF TokensIssued
  <2> QED BY <1>3, <1>13, <2>1, <2>2 DEF TokensIssued
<1>16. TokensLast'
  <2>1. ASSUME NEW q \in Calls, Carries(q)' PROVE clock + MaxCall <= call'[q].token.exp + age[q]
    <3>1. CASE Carries(q) /\ call'[q] = call[q]
      BY <3>1 DEF TokensLast
    <3>2. CASE call'[q].token = token /\ token # NoToken
      <4>1. age[q] \in Nat /\ clock \in Nat /\ MaxCall \in Nat
        BY <1>2, Bounds DEF TypeOK
      <4> QED BY <1>14, <3>2, <4>1
    <3> QED BY <1>12, <2>1, <3>1, <3>2
  <2> QED BY <1>1, <1>3, <1>13, <2>1 DEF TokensLast
<1>17. \A t : Verifiable(t)' = Verifiable(t)
  BY DEF Verifiable, rolloutVars
<1>18. TokensVerifiable'
  <2>1. (store # NoToken /\ store.exp >= clock => Verifiable(store))'
    BY <1>14, <1>17 DEF TokensVerifiable
  <2>2. ASSUME NEW q \in Calls, Carries(q)'
        PROVE  (IF At(q, "keys") THEN call[q].token.key \in call[q].keys ELSE Verifiable(call[q].token))'
    BY <1>12, <1>14, <1>17, <2>2 DEF TokensVerifiable, At
  <2> QED BY <1>3, <1>13, <2>1, <2>2 DEF TokensVerifiable
<1> QED BY <1>10, <1>11, <1>15, <1>16, <1>18

LEMMA AuthenticationKeeps ==
  ASSUME IdentityInv, NEW r \in Calls, Authenticated(r) \/ AuthenticationFails(r)
  PROVE  IdentityInv'
<1>1. CASE Authenticated(r)
  <2>1. flight[r] # NoFlight /\ flight[r].token \in Token /\ flight[r].token # NoToken
    BY <1>1, FlightShapes, TokenShapes DEF Authenticated, IdentityInv
  <2>2. failures' \in 0..MaxFailures
    BY <1>1 DEF Authenticated, IdentityInv, TypeOK
  <2> QED BY <1>1, <2>1, <2>2, SettleKeeps DEF Authenticated
<1>2. CASE AuthenticationFails(r)
  <2>1. failures' \in 0..MaxFailures
    <3>1. failures \in 0..MaxFailures
      BY DEF IdentityInv, TypeOK
    <3>2. failures < MaxFailures /\ failures' = failures + 1
      BY <1>2 DEF AuthenticationFails
    <3>3. MaxFailures \in Nat
      BY IdentityConstants
    <3> QED BY <3>1, <3>2, <3>3
  <2> QED BY <1>2, <2>1, SettleKeeps DEF AuthenticationFails
<1> QED BY <1>1, <1>2

-----------------------------------------------------------------------------
(* Restarts of the two clients of the auth service.                        *)
LEMMA OneMoreFailure ==
  ASSUME TypeOK, failures < MaxFailures, failures' = failures + 1
  PROVE  failures' \in 0..MaxFailures
<1>1. failures \in 0..MaxFailures
  BY DEF TypeOK
<1>2. MaxFailures \in Nat
  BY IdentityConstants
<1> QED BY <1>1, <1>2

LEMMA GatewayRestartsKeeps ==
  ASSUME IdentityInv, GatewayRestarts
  PROVE  IdentityInv'
<1> USE DEF IdentityInv
<1>1. /\ store' = NoToken /\ inflight' = None
      /\ flight' = [r \in Calls |-> NoFlight] /\ call' = [r \in Calls |-> Idle]
      /\ age' = [r \in Calls |-> 0] /\ UNCHANGED <<clock, rolloutVars, known, refused>>
  BY DEF GatewayRestarts
<1>2. failures' \in 0..MaxFailures
  BY OneMoreFailure DEF GatewayRestarts
<1>3. call' \in [Calls -> Call] /\ age' \in [Calls -> 0..MaxCall]
  BY <1>1, ZeroAge DEF Call
<1>4. TypeOK' /\ OneRolloutAtATime' /\ NoTokenRefused'
  BY <1>1, <1>2, <1>3 DEF TypeOK, OneRolloutAtATime, NoTokenRefused, rolloutVars
<1>5. \A r \in Calls : call'[r].pc = "idle" /\ flight'[r] = NoFlight /\ flight'[r].pc = "none"
  BY <1>1 DEF Idle, NoFlight
<1>6. OneFlight'
  BY <1>1, <1>5 DEF OneFlight, NobodyStranded, At
<1>7. store'.exp <= clock' + TTL
  <2>1. clock' \in Nat /\ TTL \in Nat
    BY <1>1, Bounds DEF TypeOK
  <2> QED BY <1>1, <2>1, TokenShapes
<1>8. TokensIssued' /\ TokensLast' /\ TokensVerifiable'
  BY <1>1, <1>5, <1>7 DEF TokensIssued, TokensLast, TokensVerifiable, Carries
<1> QED BY <1>4, <1>6, <1>8

LEMMA CommunicationRestartsKeeps ==
  ASSUME IdentityInv, CommunicationRestarts
  PROVE  IdentityInv'
<1> USE DEF IdentityInv
<1>1. /\ known' = {} /\ UNCHANGED <<clock, rolloutVars, gatewayVars, refused>>
      /\ call' = [r \in Calls |-> IF call[r].pc \in {"refresh", "keys"} THEN Idle ELSE call[r]]
      /\ age' = [r \in Calls |-> IF call'[r] = Idle THEN 0 ELSE age[r]]
  BY DEF CommunicationRestarts
<1>2. failures' \in 0..MaxFailures
  BY OneMoreFailure DEF CommunicationRestarts
<1>3. call \in [Calls -> Call] /\ age \in [Calls -> 0..MaxCall] /\ Idle \in Call /\ Idle.pc = "idle"
  BY DEF TypeOK, Call, Idle
<1>4. call' \in [Calls -> Call] /\ age' \in [Calls -> 0..MaxCall]
  BY <1>1, <1>3, ZeroAge
<1>5. ASSUME NEW r \in Calls
      PROVE  \/ call'[r] = call[r] /\ (call'[r].pc # "idle" => age'[r] = age[r])
             \/ call[r].pc \in {"refresh", "keys"} /\ call'[r].pc = "idle"
  BY <1>1, <1>3
<1>6. TypeOK' /\ OneRolloutAtATime' /\ NoTokenRefused'
  BY <1>1, <1>2, <1>4 DEF TypeOK, OneRolloutAtATime, NoTokenRefused, rolloutVars, gatewayVars
<1>7. \A r \in Calls : At(r, "await") => call'[r] = call[r] /\ age'[r] = age[r]
  BY <1>5 DEF At
<1>8. \A r \in Calls : call'[r].pc # "idle" => call'[r] = call[r] /\ age'[r] = age[r]
  BY <1>5
<1>9. OneFlight'
  BY <1>1, <1>7, <1>8 DEF OneFlight, NobodyStranded, At, gatewayVars
<1>10. TokensIssued'
  BY <1>1, <1>8 DEF TokensIssued, Carries, gatewayVars
<1>11. TokensLast'
  <2>1. \A r \in Calls : flight[r].pc = "answered" => At(r, "await")
    BY FlightShapes DEF OneFlight
  <2> QED BY <1>1, <1>7, <1>8, <2>1 DEF TokensLast, Carries, gatewayVars
<1>12. \A t : Verifiable(t)' = Verifiable(t)
  BY <1>1 DEF Verifiable, rolloutVars
<1>13. TokensVerifiable'
  BY <1>1, <1>8, <1>12 DEF TokensVerifiable, Carries, At, gatewayVars
<1> QED BY <1>6, <1>9, <1>10, <1>11, <1>13

(* The rollout of a value of JWT_SIGNING_KEYS begins, and goes on.  What   *)
(* is not expired stays verifiable.                                        *)
LEMMA RolloutKeeps ==
  ASSUME IdentityInv, TypeOK', OneRolloutAtATime',
         UNCHANGED <<clock, gatewayVars, call, age, known, refused, failures>>,
         \A t \in Token : Verifiable(t) /\ clock <= t.exp /\ t.exp <= clock + TTL => Verifiable(t)'
  PROVE  IdentityInv'
<1> USE DEF IdentityInv
<1>1. OneFlight' /\ NoTokenRefused' /\ TokensIssued' /\ TokensLast'
  BY DEF OneFlight, NobodyStranded, NoTokenRefused, TokensIssued, TokensLast, Carries, At, gatewayVars
<1>2. (store # NoToken /\ store.exp >= clock => Verifiable(store))'
  <2>1. store # NoToken => store \in Token
    BY DEF TypeOK
  <2>2. store.exp \in Nat /\ clock \in Nat
    BY <2>1, TokenShapes DEF TypeOK
  <2> QED BY <2>1, <2>2 DEF TokensVerifiable, TokensIssued, gatewayVars
<1>3. ASSUME NEW q \in Calls, flight[q].pc = "answered" PROVE Verifiable(flight[q].token)'
  <2>1. flight[q].token \in Token /\ flight[q].token.exp \in Nat
    BY <1>3, FlightShapes, TokenShapes
  <2>2. clock + TTL <= flight[q].token.exp + age[q] /\ flight[q].token.exp <= clock + TTL
        /\ Verifiable(flight[q].token)
    BY <1>3 DEF TokensLast, TokensIssued, TokensVerifiable
  <2>3. clock \in Nat /\ TTL \in Nat /\ MaxCall \in Nat /\ age[q] \in 0..MaxCall /\ TTL >= 2 * MaxCall
    BY Bounds DEF TypeOK
  <2>4. clock <= flight[q].token.exp
    BY <2>1, <2>2, <2>3
  <2>5. flight' = flight
    BY DEF gatewayVars
  <2> QED BY <2>1, <2>2, <2>4, <2>5
<1>4. ASSUME NEW q \in Calls, Carries(q), ~At(q, "keys") PROVE Verifiable(call[q].token)'
  <2>1. call[q].token \in Token /\ call[q].token.exp \in Nat /\ clock \in Nat
    BY <1>4, NotExpired, TokenShapes DEF TypeOK
  <2>2. clock <= call[q].token.exp
    BY <1>4, <2>1, NotExpired
  <2>3. call[q].token.exp <= clock + TTL /\ Verifiable(call[q].token)
    BY <1>4 DEF TokensIssued, TokensVerifiable
  <2> QED BY <2>1, <2>2, <2>3
<1>5. flight' = flight /\ store' = store
  BY DEF gatewayVars
<1>6. TokensVerifiable'
  BY <1>2, <1>3, <1>4, <1>5 DEF TokensVerifiable, Carries, At
<1> QED BY <1>1, <1>6

LEMMA ChangeKeysKeeps ==
  ASSUME IdentityInv, ChangeKeys
  PROVE  IdentityInv'
<1> USE DEF IdentityInv
<1>1. /\ target < Len(Rollouts) /\ (\A p \in Replicas : version[p] = target) /\ clock > settled + TTL
      /\ target' = target + 1
      /\ UNCHANGED <<clock, version, settled, gatewayVars, call, age, known, refused, failures>>
  BY DEF ChangeKeys
<1>2. target \in Nat /\ target >= 1 /\ target' \in DOMAIN Rollouts
  BY <1>1, RolloutsDomain DEF TypeOK
<1>3. version' \in [Replicas -> 1..target']
  BY <1>1, <1>2 DEF TypeOK
<1>4. TypeOK' /\ OneRolloutAtATime'
  BY <1>1, <1>2, <1>3 DEF TypeOK, OneRolloutAtATime, gatewayVars
<1>5. ASSUME NEW t \in Token, Verifiable(t), clock <= t.exp PROVE Verifiable(t)'
  <2>1. clock \in Nat /\ settled \in Nat /\ TTL \in Nat /\ t.exp \in Nat
    BY Bounds, TokenShapes DEF TypeOK
  <2>2. ~(t.exp <= settled + TTL)
    BY <1>1, <1>5, <2>1
  <2>3. t.key = ActiveKey(target)
    BY <1>1, <1>5, <2>2 DEF Verifiable
  <2>4. PICK p \in Replicas : version'[p] # target'
    BY <1>1, <1>2, IdentityConstants
  <2>5. target' > 1 /\ target' - 1 = target
    BY <1>1, <1>2
  <2>6. t.key = ActiveKey(target' - 1)
    BY <2>3, <2>5
  <2> QED BY <2>4, <2>5, <2>6 DEF Verifiable, ActiveKey
<1> QED BY <1>1, <1>4, <1>5, RolloutKeeps

LEMMA RestartReplicaKeeps ==
  ASSUME IdentityInv, NEW p \in Replicas, RestartReplica(p)
  PROVE  IdentityInv'
<1> USE DEF IdentityInv
<1>1. /\ version[p] # target /\ version' = [version EXCEPT ![p] = target] /\ settled' = clock
      /\ UNCHANGED <<clock, target, gatewayVars, call, age, known, refused, failures>>
  BY DEF RestartReplica
<1>2. target \in Nat /\ target >= 1 /\ version \in [Replicas -> 1..target]
  BY RolloutsDomain DEF TypeOK
<1>3. version' \in [Replicas -> 1..target]
  BY <1>1, <1>2
<1>4. settled' \in 0..MaxTime
  <2>1. clock \in 1..MaxTime /\ MaxTime \in Nat
    BY Bounds DEF TypeOK
  <2> QED BY <1>1, <2>1
<1>5. TypeOK'
  BY <1>1, <1>3, <1>4 DEF TypeOK, gatewayVars
<1>6. OneRolloutAtATime'
  BY <1>1, <1>2 DEF OneRolloutAtATime
<1>7. ASSUME NEW t \in Token, Verifiable(t), t.exp <= clock + TTL PROVE Verifiable(t)'
  BY <1>1, <1>7 DEF Verifiable
<1> QED BY <1>1, <1>5, <1>6, <1>7, RolloutKeeps

LEMMA TickKeeps ==
  ASSUME IdentityInv, Tick
  PROVE  IdentityInv'
<1> USE DEF IdentityInv
<1>1. /\ clock < MaxTime /\ clock' = clock + 1
      /\ \A r \in Calls : call[r] # Idle => age[r] < MaxCall
      /\ age' = [r \in Calls |-> IF call[r] = Idle THEN 0 ELSE age[r] + 1]
      /\ UNCHANGED <<rolloutVars, gatewayVars, call, known, refused, failures>>
  BY DEF Tick
<1>2. clock \in Nat /\ clock \in 1..MaxTime /\ MaxTime \in Nat /\ MaxCall \in Nat /\ TTL \in Nat
      /\ age \in [Calls -> 0..MaxCall]
  BY Bounds DEF TypeOK
<1>3. clock' \in 1..MaxTime
  BY <1>1, <1>2
<1>4. age' \in [Calls -> 0..MaxCall]
  BY <1>1, <1>2
<1>5. TypeOK' /\ OneRolloutAtATime' /\ NoTokenRefused'
  BY <1>1, <1>3, <1>4 DEF TypeOK, OneRolloutAtATime, NoTokenRefused, rolloutVars, gatewayVars
<1>6. OneFlight'
  BY <1>1 DEF OneFlight, NobodyStranded, At, gatewayVars
<1>7. flight' = flight /\ store' = store /\ call' = call
  BY <1>1 DEF gatewayVars
<1>8. ASSUME NEW q \in Calls, Carries(q) \/ flight[q].pc = "answered"
      PROVE  age'[q] = age[q] + 1 /\ age[q] \in Nat
  <2>1. call[q] # Idle
    BY <1>8, FlightShapes, CallShapes DEF Carries, OneFlight, At
  <2> QED BY <1>1, <1>2, <2>1
<1>9. \A t \in Token \cup {NoToken} : t.exp \in Nat
  BY TokenShapes
<1>10. store \in Token \cup {NoToken}
  BY DEF TypeOK
<1>11. TokensIssued'
  <2>1. \A e \in Nat : e <= clock + TTL => e <= clock' + TTL
    BY <1>1, <1>2
  <2>2. store'.exp <= clock' + TTL
    BY <1>7, <1>9, <1>10, <2>1 DEF TokensIssued
  <2>3. ASSUME NEW q \in Calls, flight[q].pc = "answered"
        PROVE  flight[q].token.exp <= clock' + TTL /\ store.exp <= flight[q].token.exp
    BY <1>9, <2>1, <2>3, FlightShapes DEF TokensIssued
  <2>4. ASSUME NEW q \in Calls, Carries(q) PROVE call[q].token.exp <= clock' + TTL
    BY <1>9, <2>1, <2>4, NotExpired DEF TokensIssued
  <2> QED BY <1>7, <2>2, <2>3, <2>4 DEF TokensIssued, Carries
<1>12. TokensLast'
  <2>1. \A e, a, d \in Nat : clock + d <= e + a => clock' + d <= e + (a + 1)
    BY <1>1, <1>2
  <2>2. ASSUME NEW q \in Calls, flight[q].pc = "answered"
        PROVE  clock' + TTL <= flight[q].token.exp + age'[q]
    <3>1. flight[q].token.exp \in Nat /\ clock + TTL <= flight[q].token.exp + age[q]
      BY <1>9, <2>2, FlightShapes DEF TokensLast
    <3> QED BY <1>2, <1>8, <2>1, <2>2, <3>1
  <2>3. ASSUME NEW q \in Calls, Carries(q)
        PROVE  clock' + MaxCall <= call[q].token.exp + age'[q]
    <3>1. call[q].token.exp \in Nat /\ clock + MaxCall <= call[q].token.exp + age[q]
      BY <1>9, <2>3, NotExpired DEF TokensLast
    <3> QED BY <1>2, <1>8, <2>1, <2>3, <3>1
  <2> QED BY <1>7, <2>2, <2>3 DEF TokensLast, Carries
<1>13. \A t : Verifiable(t)' = Verifiable(t)
  BY <1>1 DEF Verifiable, rolloutVars
<1>14. TokensVerifiable'
  <2>1. store'.exp >= clock' => store.exp >= clock
    BY <1>1, <1>2, <1>7, <1>9, <1>10
  <2> QED BY <1>7, <1>13, <2>1 DEF TokensVerifiable, Carries, At
<1> QED BY <1>5, <1>6, <1>11, <1>12, <1>14

-----------------------------------------------------------------------------
LEMMA NextKeeps == IdentityInv /\ [Next]_vars => IdentityInv'
<1> SUFFICES ASSUME IdentityInv, [Next]_vars PROVE IdentityInv'
  OBVIOUS
<1>1. ASSUME NEW r \in Calls, Step(r) PROVE IdentityInv'
  <2>1. CASE GetAccessToken(r)
    BY <2>1, GetAccessTokenKeeps
  <2>2. CASE Authenticated(r) \/ AuthenticationFails(r)
    BY <2>2, AuthenticationKeeps
  <2>3. CASE \/ GuardFindsNoToken(r) \/ GuardKnowsKey(r) \/ RefreshPublicKeys(r)
             \/ GuardRefreshed(r) \/ RefreshFails(r)
    BY <2>3, GuardsKeep
  <2>4. ASSUME NEW p \in Replicas, IssueServiceToken(r, p) PROVE IdentityInv'
    BY <2>4, IssueServiceTokenKeeps
  <2>5. ASSUME NEW p \in Replicas, LocalGuard(r, p) \/ GetPublicKeys(r, p) PROVE IdentityInv'
    BY <2>5, GuardsKeep
  <2> QED BY <1>1, <2>1, <2>2, <2>3, <2>4, <2>5 DEF Step
<1>2. ASSUME NEW p \in Replicas, RestartReplica(p) PROVE IdentityInv'
  BY <1>2, RestartReplicaKeeps
<1>3. CASE GatewayRestarts
  BY <1>3, GatewayRestartsKeeps
<1>4. CASE CommunicationRestarts
  BY <1>4, CommunicationRestartsKeeps
<1>5. CASE ChangeKeys
  BY <1>5, ChangeKeysKeeps
<1>6. CASE Tick
  BY <1>6, TickKeeps
<1>7. CASE UNCHANGED vars
  BY <1>7 DEF IdentityInv, TypeOK, OneFlight, NobodyStranded, TokensIssued, TokensLast, TokensVerifiable,
              Verifiable, Carries, At, OneRolloutAtATime, NoTokenRefused, vars, rolloutVars, gatewayVars
<1> QED BY <1>1, <1>2, <1>3, <1>4, <1>5, <1>6, <1>7 DEF Next

(* The invariant of the token service: one authentication at a time, no    *)
(* token that outlasts a newer one, and every token on its way known to    *)
(* every replica and long enough for its call, throughout every rollout    *)
(* of JWT_SIGNING_KEYS by overlap.                                         *)
THEOREM IdentityInvariant == Spec => []IdentityInv
<1>1. Init => IdentityInv
  BY InitInv
<1>2. IdentityInv /\ [Next]_vars => IdentityInv'
  BY NextKeeps
<1> QED BY <1>1, <1>2, PTL DEF Spec

(* No guard, of the auth service or of communication-service, ever refuses *)
(* a call that carries a token.                                            *)
THEOREM NoTokenIsRefused == Spec => []NoTokenRefused
<1>1. IdentityInv => NoTokenRefused
  BY DEF IdentityInv
<1> QED BY <1>1, IdentityInvariant, PTL

(* Whoever awaits getAccessToken awaits an authentication that is running. *)
THEOREM NobodyIsStranded == Spec => []NobodyStranded
<1>1. IdentityInv => NobodyStranded
  BY DEF IdentityInv, OneFlight
<1> QED BY <1>1, IdentityInvariant, PTL

(* setAuthToken never replaces a token by one that ends sooner.            *)
THEOREM TokensNeverGoBack == Spec => StoreNeverGoesBack
<1>1. IdentityInv /\ [Next]_vars
        => [store # NoToken /\ store' # NoToken => store'.exp >= store.exp]_vars
  <2>0. IdentityInv => store.exp \in Nat
    BY TokenShapes DEF IdentityInv, TypeOK
  <2> SUFFICES ASSUME IdentityInv, Next PROVE store' = store \/ store' = NoToken \/ store'.exp >= store.exp
    BY <2>0
  <2>1. ASSUME NEW r \in Calls, Authenticated(r) PROVE store'.exp >= store.exp
    <3>1. flight[r].token.exp \in Nat /\ store.exp \in Nat
      BY <2>1, FlightShapes, TokenShapes DEF Authenticated, IdentityInv, TypeOK
    <3>2. store.exp <= flight[r].token.exp /\ store' = flight[r].token
      BY <2>1 DEF Authenticated, IdentityInv, TokensIssued
    <3> QED BY <3>1, <3>2
  <2>2. ASSUME NEW r \in Calls, Step(r) PROVE store' = store \/ Authenticated(r)
    BY <2>2 DEF Step, GetAccessToken, AuthenticationFails, GuardFindsNoToken, GuardKnowsKey, RefreshPublicKeys,
                GuardRefreshed, RefreshFails, IssueServiceToken, LocalGuard, GetPublicKeys, gatewayVars
  <2>3. CASE GatewayRestarts
    BY <2>3 DEF GatewayRestarts
  <2>4. CASE CommunicationRestarts \/ ChangeKeys \/ Tick \/ \E p \in Replicas : RestartReplica(p)
    BY <2>4 DEF CommunicationRestarts, ChangeKeys, Tick, RestartReplica, gatewayVars
  <2> QED BY <2>1, <2>2, <2>3, <2>4 DEF Next
<1> QED BY <1>1, IdentityInvariant, PTL DEF Spec, StoreNeverGoesBack

-----------------------------------------------------------------------------
(* Sessions.                                                               *)

SessionCalls == {NoCall} \cup LoginCall \cup SessionCall

-----------------------------------------------------------------------------
(* Typing.                                                                 *)

(* The locals of a call at each of its statements.                         *)
LEMMA SessionCallShapes ==
  ASSUME NEW q \in SessionCalls
  PROVE  /\ q.pc \in {"login_find", "login_insert"} =>
              q \in [pc : {"login_find", "login_insert"}, device : Owners]
         /\ q.pc = "login_extend" =>
              q \in [pc : {"login_extend"}, device : Owners, found : Tokens]
         /\ q.pc \notin {"idle", "login_find", "login_insert", "login_extend"} =>
              q \in SessionCall
BY DEF SessionCalls, NoCall, LoginCall, SessionCall, GuardPcs, ServicePcs

LEMMA BecomeTyped ==
  ASSUME SessionsTypeOK, NEW r \in Requests, NEW q \in SessionCalls, Proceed(r, q)
  PROVE  /\ req' \in [Requests -> SessionCalls]
         /\ lasted' \in [Requests -> 0..CallTicks]
         /\ req'[r] = q
         /\ \A s \in Requests \ {r} : req'[s] = req[s] /\ lasted'[s] = lasted[s]
         /\ q # NoCall => lasted'[r] = lasted[r]
BY SessionConstants DEF SessionsTypeOK, Proceed, SessionCalls

LEMMA IdleIsCall == NoCall \in SessionCalls
BY DEF SessionCalls

LEMMA MovedIsCall ==
  ASSUME NEW q \in SessionCall, NEW pc \in GuardPcs \cup ServicePcs,
         q.phase = "guard" => pc \in GuardPcs, q.phase = "service" => pc \in ServicePcs
  PROVE  /\ [q EXCEPT !.pc = pc] \in SessionCalls
         /\ [q EXCEPT !.pc = pc] # NoCall
         /\ [q EXCEPT !.pc = pc].pc = pc
         /\ [q EXCEPT !.pc = pc].token = q.token
BY DEF SessionCall, SessionCalls, NoCall, GuardPcs, ServicePcs

-----------------------------------------------------------------------------
(* What a step does to a slot: it leaves the caches alone unless it fills  *)
(* or drops an entry, and it is at a fill only when it got there.          *)

(* Every call that runs is at a fill only if its slot was there already.   *)
NoNewFill ==
  \A s \in Requests :
    /\ FillsAuth(s)' => FillsAuth(s) /\ req'[s] = req[s] /\ lasted'[s] = lasted[s]
    /\ FillsGateway(s)' => FillsGateway(s) /\ req'[s] = req[s] /\ lasted'[s] = lasted[s]

(* A session that has ended afterwards had ended already or ends now.      *)
EndsNow ==
  \A t \in Tokens :
    /\ Issued(t) => Issued(t)'
    /\ Ended(t)' => since'[t] = 0 \/ (Ended(t) /\ since'[t] = since[t])

CachesShrink == \A t \in Tokens : auth'[t] <= auth[t] /\ gateway'[t] <= gateway[t]

(* A step that starts no fill and fills nothing keeps the bounds.          *)
LEMMA BoundsKept ==
  ASSUME SessionsInv, SessionsTypeOK', NoNewFill, EndsNow, CachesShrink
  PROVE  SessionsInv'
<1> USE SessionConstants
<1>1. OnlyIssued'
  <2>1. ASSUME NEW t \in Tokens, auth'[t] > 0 \/ gateway'[t] > 0
        PROVE  Issued(t)'
    BY <2>1 DEF SessionsInv, OnlyIssued, EndsNow, CachesShrink, SessionsTypeOK
  <2>2. ASSUME NEW s \in Requests, FillsAuth(s)' \/ FillsGateway(s)'
        PROVE  Issued(req[s].token)'
    <3>1. req'[s] = req[s] /\ (FillsAuth(s) \/ FillsGateway(s))
      BY <2>2 DEF NoNewFill
    <3>2. req[s].token \in Tokens
      BY <3>1, SessionCallShapes DEF SessionsInv, SessionsTypeOK, SessionCalls, FillsAuth, FillsGateway, AtStatement, SessionCall
    <3>3. Issued(req[s].token)
      BY <3>1 DEF SessionsInv, OnlyIssued
    <3> QED BY <3>1, <3>2, <3>3 DEF EndsNow, Issued
  <2> QED BY <2>1, <2>2 DEF OnlyIssued
<1>2. AuthBound'
  BY DEF SessionsInv, AuthBound, EndsNow, CachesShrink, SessionsTypeOK, AuthLimit, StaleLimit
<1>3. GatewayBound'
  BY DEF SessionsInv, GatewayBound, EndsNow, CachesShrink, SessionsTypeOK, AuthLimit, StaleLimit
<1>4. FillBound'
  <2> SUFFICES ASSUME NEW s \in Requests
               PROVE  /\ (FillsAuth(s) /\ Ended(req[s].token) =>
                            since[req[s].token] <= lasted[s])'
                      /\ (FillsGateway(s) /\ Ended(req[s].token) =>
                            since[req[s].token] <= AuthLimit + lasted[s])'
    BY DEF FillBound
  <2>1. CASE FillsAuth(s)' \/ FillsGateway(s)'
    <3>1. req'[s] = req[s] /\ lasted'[s] = lasted[s] /\ lasted[s] \in 0..CallTicks
      BY <2>1 DEF NoNewFill, SessionsInv, SessionsTypeOK
    <3>2. req[s].token \in Tokens
      BY <2>1, <3>1, SessionCallShapes DEF SessionsInv, SessionsTypeOK, SessionCalls, FillsAuth, FillsGateway, AtStatement, SessionCall
    <3>3. Ended(req[s].token)' =>
            \/ since'[req[s].token] = 0
            \/ Ended(req[s].token) /\ since'[req[s].token] = since[req[s].token]
      BY <3>1, <3>2 DEF EndsNow, Ended, Issued, Valid
    <3> QED
      BY <2>1, <3>1, <3>2, <3>3
      DEF SessionsInv, FillBound, NoNewFill, AuthLimit, Ended, Issued, Valid, FillsAuth, FillsGateway, AtStatement, SessionsTypeOK
  <2> QED BY <2>1
<1> QED BY <1>1, <1>2, <1>3, <1>4 DEF SessionsInv

-----------------------------------------------------------------------------
(* The steps of a call that move no session and fill no cache.             *)

(* A slot that takes a call which is at no fill.                           *)
LEMMA NoFillByBecoming ==
  ASSUME SessionsTypeOK, NEW r \in Requests, NEW q \in SessionCalls, Proceed(r, q),
         q.pc \notin {"set", "gateway_set"}
  PROVE  NoNewFill
BY BecomeTyped DEF NoNewFill, FillsAuth, FillsGateway, AtStatement

LEMMA RowsUntouched ==
  ASSUME SessionsTypeOK, UNCHANGED <<row, since>>
  PROVE  EndsNow
BY DEF EndsNow, Ended, Issued, Valid

LEMMA CachesUntouched ==
  ASSUME SessionsTypeOK, UNCHANGED <<auth, gateway>>
  PROVE  CachesShrink
BY SessionConstants DEF CachesShrink, SessionsTypeOK

(* A step that only moves a slot on, to no fill.                           *)
LEMMA OnlyMoves ==
  ASSUME SessionsInv, NEW r \in Requests, NEW q \in SessionCalls, Proceed(r, q),
         q.pc \notin {"set", "gateway_set"}, UNCHANGED <<row, auth, gateway, since>>
  PROVE  SessionsInv'
<1>1. SessionsTypeOK /\ SessionsTypeOK'
  BY BecomeTyped DEF SessionsInv, SessionsTypeOK, SessionCalls
<1> QED BY <1>1, NoFillByBecoming, RowsUntouched, CachesUntouched, BoundsKept

LEMMA LoginStarts ==
  ASSUME SessionsInv, NEW r \in Requests, LoginVerified(r) \/ LoginFindDevice(r) \/ LoginGivenUp(r)
  PROVE  SessionsInv'
<1>1. CASE LoginVerified(r)
  <2> PICK d \in Owners, pc \in {"login_find", "login_insert"} :
        Proceed(r, [pc |-> pc, device |-> d])
    BY <1>1 DEF LoginVerified, Start
  <2>1. [pc |-> pc, device |-> d] \in SessionCalls
    BY DEF SessionCalls, LoginCall
  <2> QED BY <1>1, <2>1, OnlyMoves DEF LoginVerified
<1>2. CASE LoginFindDevice(r)
  <2>1. req[r] \in [pc : {"login_find", "login_insert"}, device : Owners]
    BY <1>2, SessionCallShapes DEF LoginFindDevice, AtStatement, SessionsInv, SessionsTypeOK, SessionCalls
  <2>2. CASE \E t \in Tokens :
               Proceed(r, [pc |-> "login_extend", device |-> req[r].device, found |-> t])
    <3> PICK t \in Tokens :
          Proceed(r, [pc |-> "login_extend", device |-> req[r].device, found |-> t])
      BY <2>2
    <3>1. [pc |-> "login_extend", device |-> req[r].device, found |-> t] \in SessionCalls
      BY <2>1 DEF SessionCalls, LoginCall
    <3> QED BY <1>2, <3>1, OnlyMoves DEF LoginFindDevice
  <2>3. CASE GoTo(r, "login_insert")
    <3>1. [req[r] EXCEPT !.pc = "login_insert"] \in SessionCalls
      BY <2>1 DEF SessionCalls, LoginCall
    <3> QED BY <1>2, <2>1, <2>3, <3>1, OnlyMoves DEF LoginFindDevice, GoTo
  <2> QED BY <1>2, <2>2, <2>3 DEF LoginFindDevice
<1>3. CASE LoginGivenUp(r)
  BY <1>3, IdleIsCall, OnlyMoves DEF LoginGivenUp, Return, NoCall
<1> QED BY <1>1, <1>2, <1>3

LEMMA ArriveKeeps ==
  ASSUME SessionsInv, NEW r \in Requests, Arrive(r)
  PROVE  SessionsInv'
<1> PICK t \in Tokens, op \in AllowedOps, goal \in Tokens :
      Proceed(r, [pc |-> "guard", op |-> op, phase |-> "guard", token |-> t, targets |-> {goal}])
  BY DEF Arrive, Start
<1>1. [pc |-> "guard", op |-> op, phase |-> "guard", token |-> t, targets |-> {goal}] \in SessionCalls
  BY SomeOps DEF SessionCalls, SessionCall, GuardPcs
<1> QED BY <1>1, OnlyMoves DEF Arrive

-----------------------------------------------------------------------------
(* Past the guard, a call is over or looks its session up again.           *)
LEMMA AdmittedShape ==
  ASSUME NEW q \in SessionCall
  PROVE  Admitted(q) \in SessionCalls /\ Admitted(q).pc \in {"idle", "get"}
BY DEF Admitted, SessionCalls, SessionCall, NoCall, GuardPcs, ServicePcs

(* Where a call goes once its session was found.                           *)
LEMMA FoundShape ==
  ASSUME NEW r \in Requests, req[r] \in SessionCall, Found(r)
  PROVE  \E q \in SessionCalls :
           /\ Proceed(r, q) /\ q.token = req[r].token /\ q # NoCall
           /\ q.pc \in {"gateway_set", "revoke", "list", "others"}
<1>1. CASE req[r].phase = "guard"
  BY <1>1, MovedIsCall DEF Found, GoTo, GuardPcs
<1>2. CASE req[r].phase # "guard"
  <2>1. FirstStatement(req[r].op) \in {"revoke", "list", "others"}
    BY <1>2 DEF FirstStatement, SessionCall, Ops
  <2> QED BY <1>2, <2>1, MovedIsCall DEF Found, GoTo, ServicePcs
<1> QED BY <1>1, <1>2

(* The slot of a call at one of these statements holds its token.          *)
LEMMA AtSession ==
  ASSUME SessionsTypeOK, NEW r \in Requests,
         req[r].pc \notin {"idle", "login_find", "login_insert", "login_extend"}
  PROVE  req[r] \in SessionCall /\ req[r].token \in Tokens
BY SessionCallShapes DEF SessionsTypeOK, SessionCalls, SessionCall

(* A call with a session that only goes on to another statement.           *)
LEMMA OnlyGoesTo ==
  ASSUME SessionsInv, NEW r \in Requests, req[r] \in SessionCall,
         NEW pc \in (GuardPcs \cup ServicePcs) \ {"set", "gateway_set"},
         req[r].phase = "guard" => pc \in GuardPcs, req[r].phase = "service" => pc \in ServicePcs,
         GoTo(r, pc), UNCHANGED <<row, auth, gateway, since>>
  PROVE  SessionsInv'
<1> DEFINE q == [req[r] EXCEPT !.pc = pc]
<1>1. q \in SessionCalls /\ q.pc = pc
  BY MovedIsCall
<1>2. Proceed(r, q)
  BY DEF GoTo
<1> HIDE DEF q
<1> QED BY <1>1, <1>2, OnlyMoves

-----------------------------------------------------------------------------
(* The lookup of a session, in the gateway and in the auth service.        *)

LEMMA GuardGetKeeps ==
  ASSUME SessionsInv, NEW r \in Requests, GuardGet(r)
  PROVE  SessionsInv'
<1>1. req[r] \in SessionCall /\ req[r].phase = "guard"
  BY AtSession DEF GuardGet, AtStatement, SessionsInv, SessionCall, ServicePcs
<1>2. CASE Proceed(r, Admitted(req[r]))
  BY <1>1, <1>2, AdmittedShape, OnlyMoves DEF GuardGet
<1>3. CASE GoTo(r, "get")
  BY <1>1, <1>3, OnlyGoesTo DEF GuardGet, GuardPcs
<1> QED BY <1>2, <1>3 DEF GuardGet

(* A hit: what was cached is not too old to be cached again.               *)
LEMMA FindGetKeeps ==
  ASSUME SessionsInv, NEW r \in Requests, FindGet(r)
  PROVE  SessionsInv'
<1> DEFINE t == req[r].token
<1>1. SessionsTypeOK /\ req[r] \in SessionCall /\ t \in Tokens /\ req[r].pc = "get"
  BY AtSession DEF FindGet, AtStatement, SessionsInv
<1>2. CASE auth[t] > 0
  <2> PICK q \in SessionCalls : /\ Proceed(r, q) /\ q.token = t /\ q # NoCall
                         /\ q.pc \in {"gateway_set", "revoke", "list", "others"}
    BY <1>1, <1>2, FoundShape DEF FindGet
  <2>1. /\ req' \in [Requests -> SessionCalls] /\ lasted' \in [Requests -> 0..CallTicks]
        /\ req'[r] = q /\ lasted'[r] = lasted[r]
        /\ \A s \in Requests \ {r} : req'[s] = req[s] /\ lasted'[s] = lasted[s]
    BY <1>1, BecomeTyped
  <2>2. UNCHANGED <<row, auth, gateway, since>>
    BY DEF FindGet
  <2>3. SessionsTypeOK'
    BY <1>1, <2>1, <2>2 DEF SessionsTypeOK, SessionCalls
  <2>4. Issued(t) /\ (Ended(t) => since[t] <= AuthLimit + lasted[r])
    BY <1>1, <1>2, SessionConstants DEF SessionsInv, OnlyIssued, AuthBound, SessionsTypeOK, AuthLimit, StaleLimit
  <2>5. OnlyIssued'
    BY <2>1, <2>2, <2>4 DEF SessionsInv, OnlyIssued, FillsAuth, FillsGateway, AtStatement, Issued
  <2>6. FillBound'
    BY <2>1, <2>2, <2>4 DEF SessionsInv, FillBound, FillsAuth, FillsGateway, AtStatement, Ended, Issued, Valid
  <2>7. AuthBound' /\ GatewayBound'
    BY <2>2 DEF SessionsInv, AuthBound, GatewayBound, Ended, Issued, Valid
  <2> QED BY <2>3, <2>5, <2>6, <2>7 DEF SessionsInv
<1>3. CASE ~(auth[t] > 0)
  <2>1. GoTo(r, "select") BY <1>3 DEF FindGet
  <2> QED BY <1>1, <2>1, OnlyGoesTo DEF FindGet, GuardPcs, ServicePcs
<1> QED BY <1>2, <1>3

(* A miss: the row that is to be cached is valid when it is read.          *)
LEMMA FindSelectKeeps ==
  ASSUME SessionsInv, NEW r \in Requests, FindSelect(r)
  PROVE  SessionsInv'
<1> DEFINE t == req[r].token
<1>1. SessionsTypeOK /\ req[r] \in SessionCall /\ t \in Tokens
  BY AtSession DEF FindSelect, AtStatement, SessionsInv
<1>2. CASE Valid(t)
  <2> DEFINE q == [req[r] EXCEPT !.pc = "set"]
  <2>0. Proceed(r, q) /\ q \in SessionCalls /\ q.token = t /\ q.pc = "set" /\ q # NoCall
    BY <1>1, <1>2, MovedIsCall DEF FindSelect, Check, GoTo, GuardPcs, ServicePcs
  <2> HIDE DEF q
  <2>1. /\ req' \in [Requests -> SessionCalls] /\ lasted' \in [Requests -> 0..CallTicks]
        /\ req'[r] = q
        /\ \A s \in Requests \ {r} : req'[s] = req[s] /\ lasted'[s] = lasted[s]
    BY <1>1, <2>0, BecomeTyped
  <2>2. UNCHANGED <<row, auth, gateway, since>>
    BY DEF FindSelect
  <2>3. SessionsTypeOK'
    BY <1>1, <2>1, <2>2 DEF SessionsTypeOK, SessionCalls
  <2>4. Issued(t) /\ ~Ended(t)
    BY <1>2 DEF Issued, Valid, Ended
  <2>5. OnlyIssued'
    BY <2>0, <2>1, <2>2, <2>4 DEF SessionsInv, OnlyIssued, FillsAuth, FillsGateway, AtStatement, Issued
  <2>6. FillBound'
    BY <2>0, <2>1, <2>2, <2>4 DEF SessionsInv, FillBound, FillsAuth, FillsGateway, AtStatement, Ended, Issued, Valid
  <2>7. AuthBound' /\ GatewayBound'
    BY <2>2 DEF SessionsInv, AuthBound, GatewayBound, Ended, Issued, Valid
  <2> QED BY <2>3, <2>5, <2>6, <2>7 DEF SessionsInv
<1>3. CASE ~Valid(t)
  BY <1>3, IdleIsCall, OnlyMoves DEF FindSelect, Check, Return, NoCall
<1> QED BY <1>2, <1>3

-----------------------------------------------------------------------------
(* The fills.                                                              *)

(* What is cached now was valid at most age[r] ticks ago.                  *)
LEMMA FindSetKeeps ==
  ASSUME SessionsInv, NEW r \in Requests, FindSet(r)
  PROVE  SessionsInv'
<1> DEFINE t == req[r].token
<1>1. /\ SessionsTypeOK /\ req[r] \in SessionCall /\ t \in Tokens /\ FillsAuth(r)
      /\ auth' = [auth EXCEPT ![t] = AuthTTL] /\ UNCHANGED <<row, gateway, since>>
  BY AtSession DEF FindSet, AtStatement, SessionsInv, FillsAuth, SetFor
<1> PICK q \in SessionCalls : /\ Proceed(r, q) /\ q.token = t /\ q # NoCall
                       /\ q.pc \in {"gateway_set", "revoke", "list", "others"}
  BY <1>1, FoundShape DEF FindSet
<1>2. /\ req' \in [Requests -> SessionCalls] /\ lasted' \in [Requests -> 0..CallTicks]
      /\ req'[r] = q /\ lasted'[r] = lasted[r]
      /\ \A s \in Requests \ {r} : req'[s] = req[s] /\ lasted'[s] = lasted[s]
  BY <1>1, BecomeTyped
<1>3. SessionsTypeOK'
  BY <1>1, <1>2, SessionConstants DEF SessionsTypeOK, SessionCalls
<1>4. Issued(t) /\ (Ended(t) => since[t] <= lasted[r])
  BY <1>1 DEF SessionsInv, OnlyIssued, FillBound
<1>5. /\ \A u \in Tokens : since[u] \in Nat /\ auth[u] \in Nat
      /\ lasted[r] \in 0..CallTicks /\ AuthTTL \in Nat /\ AuthLimit = AuthTTL + CallTicks /\ CallTicks \in Nat
  BY <1>1, SessionConstants DEF SessionsTypeOK, AuthLimit, StaleLimit
<1>6. OnlyIssued'
  BY <1>1, <1>2, <1>4, <1>5 DEF SessionsInv, OnlyIssued, FillsAuth, FillsGateway, AtStatement, Issued, SessionsTypeOK
<1>7. FillBound'
  <2>1. Ended(t) => since[t] <= AuthLimit + lasted[r]
    BY <1>1, <1>4, <1>5
  <2> QED BY <1>1, <1>2, <2>1
          DEF SessionsInv, FillBound, FillsAuth, FillsGateway, AtStatement, Ended, Issued, Valid
<1>8. AuthBound'
  BY <1>1, <1>4, <1>5 DEF SessionsInv, AuthBound, Ended, Issued, Valid, SessionsTypeOK
<1>9. GatewayBound'
  BY <1>1 DEF SessionsInv, GatewayBound, Ended, Issued, Valid
<1> QED BY <1>3, <1>6, <1>7, <1>8, <1>9 DEF SessionsInv

LEMMA GuardSetKeeps ==
  ASSUME SessionsInv, NEW r \in Requests, GuardSet(r)
  PROVE  SessionsInv'
<1> DEFINE t == req[r].token
           q == Admitted(req[r])
<1>1. /\ SessionsTypeOK /\ req[r] \in SessionCall /\ t \in Tokens /\ FillsGateway(r)
      /\ gateway' = [gateway EXCEPT ![t] = GatewayTTL] /\ UNCHANGED <<row, auth, since>>
      /\ Proceed(r, q)
  BY AtSession DEF GuardSet, AtStatement, SessionsInv, FillsGateway, SetFor
<1>2. q \in SessionCalls /\ q.pc \notin {"set", "gateway_set"}
  BY <1>1, AdmittedShape
<1> HIDE DEF q
<1>3. /\ req' \in [Requests -> SessionCalls] /\ lasted' \in [Requests -> 0..CallTicks]
      /\ req'[r] = q
      /\ \A s \in Requests \ {r} : req'[s] = req[s] /\ lasted'[s] = lasted[s]
  BY <1>1, <1>2, BecomeTyped
<1>4. SessionsTypeOK'
  BY <1>1, <1>3, SessionConstants DEF SessionsTypeOK, SessionCalls
<1>5. Issued(t) /\ (Ended(t) => since[t] <= AuthLimit + lasted[r])
  BY <1>1 DEF SessionsInv, OnlyIssued, FillBound
<1>6. /\ \A u \in Tokens : since[u] \in Nat /\ gateway[u] \in Nat
      /\ lasted[r] \in 0..CallTicks /\ GatewayTTL \in Nat /\ CallTicks \in Nat
      /\ AuthLimit \in Nat /\ StaleLimit = AuthLimit + GatewayTTL + CallTicks
  BY <1>1, SessionConstants DEF SessionsTypeOK, AuthLimit, StaleLimit
<1>7. OnlyIssued'
  BY <1>1, <1>2, <1>3, <1>5, <1>6 DEF SessionsInv, OnlyIssued, FillsAuth, FillsGateway, AtStatement, Issued, SessionsTypeOK
<1>8. FillBound'
  BY <1>1, <1>2, <1>3 DEF SessionsInv, FillBound, FillsAuth, FillsGateway, AtStatement, Ended, Issued, Valid
<1>9. AuthBound'
  BY <1>1 DEF SessionsInv, AuthBound, Ended, Issued, Valid
<1>10. GatewayBound'
  BY <1>1, <1>5, <1>6 DEF SessionsInv, GatewayBound, Ended, Issued, Valid, SessionsTypeOK
<1> QED BY <1>4, <1>7, <1>8, <1>9, <1>10 DEF SessionsInv

-----------------------------------------------------------------------------
(* Time.                                                                   *)
LEMMA TimeKeeps ==
  ASSUME SessionsInv, TimePasses
  PROVE  SessionsInv'
<1>1. SessionsTypeOK /\ AuthTTL \in Nat /\ GatewayTTL \in Nat /\ CallTicks \in Nat
      /\ AuthLimit \in Nat /\ StaleLimit \in Nat
  BY SessionConstants DEF SessionsInv, AuthLimit, StaleLimit
<1>2. /\ row' = row /\ req' = req
      /\ \A t \in Tokens : /\ auth'[t] = IF auth[t] > 0 THEN auth[t] - 1 ELSE 0
                           /\ gateway'[t] = IF gateway[t] > 0 THEN gateway[t] - 1 ELSE 0
                           /\ since'[t] \in {since[t], since[t] + 1}
      /\ \A r \in Requests : req[r] # NoCall => lasted'[r] = lasted[r] + 1
  <2>1. row' = row /\ req' = req
    BY DEF TimePasses
  <2>2. \A t \in Tokens : auth'[t] = (IF auth[t] > 0 THEN auth[t] - 1 ELSE 0)
    BY DEF TimePasses
  <2>3. \A t \in Tokens : gateway'[t] = (IF gateway[t] > 0 THEN gateway[t] - 1 ELSE 0)
    BY DEF TimePasses
  <2>4. \A t \in Tokens : since'[t] \in {since[t], since[t] + 1}
    BY DEF TimePasses
  <2>5. \A r \in Requests : req[r] # NoCall => lasted'[r] = lasted[r] + 1
    BY DEF TimePasses
  <2> QED BY <2>1, <2>2, <2>3, <2>4, <2>5
<1>3. SessionsTypeOK'
  BY <1>1 DEF SessionsTypeOK, TimePasses
<1>4. OnlyIssued'
  BY <1>1, <1>2 DEF SessionsInv, OnlyIssued, SessionsTypeOK, Issued, FillsAuth, FillsGateway, AtStatement
<1>5. AuthBound'
  BY <1>1, <1>2 DEF SessionsInv, AuthBound, SessionsTypeOK, Ended, Issued, Valid
<1>6. GatewayBound'
  BY <1>1, <1>2 DEF SessionsInv, GatewayBound, SessionsTypeOK, Ended, Issued, Valid
<1>7. FillBound'
  <2> SUFFICES ASSUME NEW r \in Requests
               PROVE  /\ (FillsAuth(r) /\ Ended(req[r].token) =>
                            since[req[r].token] <= lasted[r])'
                      /\ (FillsGateway(r) /\ Ended(req[r].token) =>
                            since[req[r].token] <= AuthLimit + lasted[r])'
    BY DEF FillBound
  <2>1. CASE FillsAuth(r) \/ FillsGateway(r)
    <3>1. req[r].token \in Tokens /\ req[r] # NoCall
      BY <1>1, <2>1, AtSession DEF FillsAuth, FillsGateway, AtStatement, NoCall
    <3>2. /\ since[req[r].token] \in Nat /\ lasted[r] \in Nat /\ lasted'[r] = lasted[r] + 1
          /\ since'[req[r].token] <= since[req[r].token] + 1 /\ since'[req[r].token] \in Nat
      BY <1>1, <1>2, <1>3, <3>1 DEF SessionsTypeOK
    <3> QED BY <1>1, <1>2, <3>2
            DEF SessionsInv, FillBound, FillsAuth, FillsGateway, AtStatement, Ended, Issued, Valid
  <2> QED BY <1>2, <2>1 DEF FillsAuth, FillsGateway, AtStatement
<1> QED BY <1>3, <1>4, <1>5, <1>6, <1>7 DEF SessionsInv

-----------------------------------------------------------------------------
(* The steps that write rows.                                              *)

(* A slot moves on to no fill while rows are written or entries dropped.   *)
LEMMA MovesAndWrites ==
  ASSUME SessionsInv, NEW r \in Requests, NEW q \in SessionCalls, Proceed(r, q),
         q.pc \notin {"set", "gateway_set"},
         row' \in [Tokens -> Row], since' \in [Tokens -> 0..StaleLimit], EndsNow,
         auth' \in [Tokens -> 0..AuthTTL], gateway' = gateway,
         \A t \in Tokens : auth'[t] <= auth[t]
  PROVE  SessionsInv'
<1>1. SessionsTypeOK /\ SessionsTypeOK'
  BY BecomeTyped DEF SessionsInv, SessionsTypeOK, SessionCalls
<1>2. CachesShrink
  BY <1>1, SessionConstants DEF CachesShrink, SessionsTypeOK
<1> QED BY <1>1, <1>2, NoFillByBecoming, BoundsKept

LEMMA LoginExtendKeeps ==
  ASSUME SessionsInv, NEW r \in Requests, LoginExtend(r)
  PROVE  SessionsInv'
<1> DEFINE t == req[r].found
           q == [pc |-> "login_insert", device |-> req[r].device]
<1>1. SessionsTypeOK /\ req[r] \in [pc : {"login_extend"}, device : Owners, found : Tokens]
  BY SessionCallShapes DEF LoginExtend, AtStatement, SessionsInv, SessionsTypeOK, SessionCalls
<1>2. t \in Tokens /\ q \in SessionCalls /\ q.pc = "login_insert" /\ Extended(row[t]) \in Row
  BY <1>1 DEF SessionCalls, LoginCall, SessionsTypeOK, Row, Extended
<1>3. /\ row' = [row EXCEPT ![t] = Extended(@)] /\ UNCHANGED <<auth, gateway>>
      /\ since' = IF IsActive(t) THEN [since EXCEPT ![t] = 0] ELSE since
      /\ Return(r) \/ Proceed(r, q)
  BY DEF LoginExtend
<1>4. IsActive(t) => Extended(row[t]).state = "active"
  BY <1>1, <1>2 DEF IsActive, Extended, SessionsTypeOK, Row
<1>5. ~IsActive(t) => Extended(row[t]) = row[t]
  BY DEF IsActive, Extended
<1>6. EndsNow
  BY <1>1, <1>2, <1>3, <1>4, <1>5 DEF EndsNow, Ended, Issued, Valid, SessionsTypeOK
<1>7. /\ row' \in [Tokens -> Row] /\ since' \in [Tokens -> 0..StaleLimit]
      /\ auth' \in [Tokens -> 0..AuthTTL] /\ \A u \in Tokens : auth'[u] <= auth[u]
  BY <1>1, <1>2, <1>3, SessionConstants DEF SessionsTypeOK, StaleLimit, AuthLimit
<1> HIDE DEF q
<1>8. NoCall \in SessionCalls /\ NoCall.pc = "idle"
  BY IdleIsCall DEF NoCall
<1> QED BY <1>2, <1>3, <1>6, <1>7, <1>8, MovesAndWrites DEF Return

LEMMA LoginInsertKeeps ==
  ASSUME SessionsInv, NEW r \in Requests, LoginInsert(r)
  PROVE  SessionsInv'
<1>1. SessionsTypeOK /\ req[r].device \in Owners
  BY SessionCallShapes DEF LoginInsert, AtStatement, SessionsInv, SessionsTypeOK, SessionCalls
<1> PICK t \in Tokens :
      /\ ~Issued(t)
      /\ row' = [row EXCEPT ![t] = [state |-> "active", device |-> req[r].device]]
  BY DEF LoginInsert
<1>2. EndsNow
  BY <1>1 DEF EndsNow, Ended, Issued, Valid, SessionsTypeOK, LoginInsert
<1>3. /\ row' \in [Tokens -> Row] /\ since' \in [Tokens -> 0..StaleLimit]
      /\ auth' \in [Tokens -> 0..AuthTTL] /\ \A u \in Tokens : auth'[u] <= auth[u]
  BY <1>1, SessionConstants DEF SessionsTypeOK, LoginInsert, Row
<1>4. Proceed(r, NoCall) /\ NoCall \in SessionCalls /\ NoCall.pc = "idle" /\ gateway' = gateway
  BY IdleIsCall DEF LoginInsert, Return, NoCall
<1> QED BY <1>2, <1>3, <1>4, MovesAndWrites

LEMMA RevokeEnds ==
  ASSUME SessionsTypeOK, NEW ts \in SUBSET Tokens, Revoke(ts)
  PROVE  /\ row' \in [Tokens -> Row] /\ since' \in [Tokens -> 0..StaleLimit]
         /\ EndsNow
<1>1. row' \in [Tokens -> Row]
  BY DEF Revoke, SessionsTypeOK, Row
<1>2. since' \in [Tokens -> 0..StaleLimit]
  BY SessionConstants DEF Revoke, SessionsTypeOK, StaleLimit, AuthLimit
<1>3. EndsNow
  <2> SUFFICES ASSUME NEW t \in Tokens
               PROVE  /\ Issued(t) => Issued(t)'
                      /\ Ended(t)' => since'[t] = 0 \/ (Ended(t) /\ since'[t] = since[t])
    BY DEF EndsNow
  <2>1. since'[t] = IF t \in ts /\ Valid(t) THEN 0 ELSE since[t]
    BY DEF Revoke
  <2>2. row'[t].state = IF t \in ts /\ Issued(t) THEN "revoked" ELSE row[t].state
    BY DEF Revoke, SessionsTypeOK, Row
  <2> QED BY <2>1, <2>2 DEF Ended, Issued, Valid
<1> QED BY <1>1, <1>2, <1>3

(* Every statement of a revocation runs in the auth service.               *)
LEMMA AtService ==
  ASSUME SessionsTypeOK, NEW r \in Requests,
         req[r].pc \in {"list", "revoke", "others", "others_update", "del", "update_user"}
  PROVE  /\ req[r] \in SessionCall /\ req[r].token \in Tokens
         /\ req[r].targets \in SUBSET Tokens /\ req[r].phase = "service"
BY AtSession DEF SessionCall, GuardPcs

LEMMA RevocationReads ==
  ASSUME SessionsInv, NEW r \in Requests,
         TerminateList(r) \/ OthersSelect(r) \/ UpdateUser(r)
  PROVE  SessionsInv'
<1>1. /\ req[r] \in SessionCall /\ req[r].phase = "service" /\ req[r].token \in Tokens
      /\ UNCHANGED <<row, auth, gateway, since>>
  BY AtService DEF TerminateList, OthersSelect, UpdateUser, AtStatement, SessionsInv
<1>2. CASE Return(r)
  BY <1>1, <1>2, IdleIsCall, OnlyMoves DEF Return, NoCall
<1>3. CASE GoTo(r, "revoke")
  BY <1>1, <1>3, OnlyGoesTo DEF ServicePcs
<1>4. CASE Proceed(r, [req[r] EXCEPT !.pc = "others_update", !.targets = OthersActive(req[r].token)])
  <2> DEFINE q == [req[r] EXCEPT !.pc = "others_update", !.targets = OthersActive(req[r].token)]
  <2>1. q \in SessionCalls /\ q.pc = "others_update"
    BY <1>1 DEF SessionCalls, SessionCall, ServicePcs, OthersActive
  <2> HIDE DEF q
  <2> QED BY <1>1, <1>4, <2>1, OnlyMoves DEF q
<1> QED BY <1>2, <1>3, <1>4 DEF TerminateList, OthersSelect, UpdateUser

(* The slot of a revocation that goes on.                                  *)
LEMMA ServiceGoesOn ==
  ASSUME NEW r \in Requests, req[r] \in SessionCall, req[r].phase = "service",
         GoTo(r, "del") \/ GoTo(r, "update_user") \/ Return(r)
  PROVE  \E q \in SessionCalls : Proceed(r, q) /\ q.pc \notin {"set", "gateway_set"}
BY MovedIsCall, IdleIsCall DEF GoTo, Return, NoCall, ServicePcs

LEMMA RevocationWrites ==
  ASSUME SessionsInv, NEW r \in Requests, RevokeByToken(r) \/ OthersUpdate(r)
  PROVE  SessionsInv'
<1>1. /\ req[r] \in SessionCall /\ req[r].phase = "service" /\ req[r].token \in Tokens
      /\ req[r].targets \in SUBSET Tokens /\ UNCHANGED <<auth, gateway>> /\ SessionsTypeOK
  BY AtService DEF RevokeByToken, OthersUpdate, AtStatement, SessionsInv
<1>2. PICK q \in SessionCalls : Proceed(r, q) /\ q.pc \notin {"set", "gateway_set"}
  <2>1. GoTo(r, "del") \/ GoTo(r, "update_user") \/ Return(r)
    BY DEF RevokeByToken, OthersUpdate, Purged, Check
  <2> QED BY <1>1, <2>1, ServiceGoesOn
<1>3. OthersActive(req[r].token) \in SUBSET Tokens
  BY DEF OthersActive
<1>4. row' \in [Tokens -> Row] /\ since' \in [Tokens -> 0..StaleLimit] /\ EndsNow
  <2>1. CASE UNCHANGED <<row, since>>
    BY <1>1, <2>1, RowsUntouched DEF SessionsTypeOK
  <2>2. CASE \E ts \in SUBSET Tokens : Revoke(ts)
    BY <1>1, <2>2, RevokeEnds
  <2> QED BY <1>1, <1>3, <2>1, <2>2 DEF RevokeByToken, OthersUpdate
<1>5. auth' \in [Tokens -> 0..AuthTTL] /\ \A t \in Tokens : auth'[t] <= auth[t]
  BY <1>1, SessionConstants DEF SessionsTypeOK
<1> QED BY <1>1, <1>2, <1>4, <1>5, MovesAndWrites

LEMMA PurgeKeeps ==
  ASSUME SessionsInv, NEW r \in Requests, PurgeCached(r)
  PROVE  SessionsInv'
<1>1. /\ req[r] \in SessionCall /\ req[r].phase = "service" /\ req[r].pc = "del"
      /\ req[r].targets \in SUBSET Tokens /\ UNCHANGED <<row, gateway, since>> /\ SessionsTypeOK
  BY AtService DEF PurgeCached, AtStatement, SessionsInv
<1> PICK t \in req[r].targets :
      /\ auth' = [auth EXCEPT ![t] = 0]
      /\ IF req[r].targets = {t} THEN Purged(r)
         ELSE Proceed(r, [req[r] EXCEPT !.targets = @ \ {t}])
  BY DEF PurgeCached
<1>2. PICK q \in SessionCalls : Proceed(r, q) /\ q.pc \notin {"set", "gateway_set"}
  <2>1. CASE Purged(r)
    BY <1>1, <2>1, ServiceGoesOn DEF Purged, Check
  <2>2. CASE Proceed(r, [req[r] EXCEPT !.targets = @ \ {t}])
    <3>1. /\ [req[r] EXCEPT !.targets = @ \ {t}] \in SessionCalls
          /\ [req[r] EXCEPT !.targets = @ \ {t}].pc = "del"
      BY <1>1 DEF SessionCall, SessionCalls
    <3> QED BY <2>2, <3>1
  <2> QED BY <2>1, <2>2
<1>3. auth' \in [Tokens -> 0..AuthTTL] /\ \A u \in Tokens : auth'[u] <= auth[u]
  BY <1>1, SessionConstants DEF SessionsTypeOK
<1>4. row' \in [Tokens -> Row] /\ since' \in [Tokens -> 0..StaleLimit] /\ EndsNow
  BY <1>1, RowsUntouched DEF SessionsTypeOK
<1> QED BY <1>1, <1>2, <1>3, <1>4, MovesAndWrites

LEMMA ExpiryKeeps ==
  ASSUME SessionsInv, NEW t \in Tokens, SessionExpires(t)
  PROVE  SessionsInv'
<1>1. SessionsTypeOK /\ SessionsTypeOK'
  BY SessionConstants DEF SessionsInv, SessionsTypeOK, SessionExpires, Row, StaleLimit, AuthLimit
<1>2. EndsNow
  BY <1>1 DEF EndsNow, Ended, Issued, Valid, SessionsTypeOK, Row, SessionExpires
<1>3. NoNewFill
  BY DEF NoNewFill, SessionExpires, FillsAuth, FillsGateway, AtStatement
<1>4. CachesShrink
  BY <1>1, CachesUntouched DEF SessionExpires
<1> QED BY <1>1, <1>2, <1>3, <1>4, BoundsKept

-----------------------------------------------------------------------------
LEMMA SessionsHoldAtFirst == SessionsInit => SessionsInv
<1> SUFFICES ASSUME SessionsInit PROVE SessionsInv
  OBVIOUS
<1>1. SessionsTypeOK
  BY SessionConstants DEF SessionsInit, SessionsTypeOK, Row, NoSession, Owners, StaleLimit, AuthLimit
<1>2. OnlyIssued /\ AuthBound /\ GatewayBound /\ FillBound
  BY DEF SessionsInit, OnlyIssued, AuthBound, GatewayBound, FillBound, FillsAuth, FillsGateway, AtStatement, NoCall
<1> QED BY <1>1, <1>2 DEF SessionsInv

LEMMA SessionsStep == SessionsInv /\ [SessionsNext]_sessionVars => SessionsInv'
<1> SUFFICES ASSUME SessionsInv, [SessionsNext]_sessionVars PROVE SessionsInv'
  OBVIOUS
<1>1. ASSUME NEW r \in Requests, SessionStep(r) PROVE SessionsInv'
  BY <1>1, LoginStarts, LoginExtendKeeps, LoginInsertKeeps, ArriveKeeps, GuardGetKeeps,
     FindGetKeeps, FindSelectKeeps, FindSetKeeps, GuardSetKeeps, RevocationReads,
     RevocationWrites, PurgeKeeps DEF SessionStep
<1>2. ASSUME NEW t \in Tokens, SessionExpires(t) PROVE SessionsInv'
  BY <1>2, ExpiryKeeps
<1>3. CASE TimePasses
  BY <1>3, TimeKeeps
<1>4. CASE UNCHANGED sessionVars
  BY <1>4 DEF sessionVars, SessionsInv, SessionsTypeOK, OnlyIssued, AuthBound, GatewayBound, FillBound,
              FillsAuth, FillsGateway, AtStatement, Ended, Issued, Valid
<1> QED BY <1>1, <1>2, <1>3, <1>4 DEF SessionsNext

(* The inductive invariant: what a cache holds of an ended session, and    *)
(* what a fill under way will put there, is young enough.                  *)
THEOREM SessionsInvariant == SessionsSpec => []SessionsInv
BY SessionsHoldAtFirst, SessionsStep, PTL DEF SessionsSpec

(* A session that was revoked or has expired is accepted nowhere once      *)
(* StaleLimit ticks have passed, whatever the two TTLs and however calls   *)
(* of at most CallTicks ticks race (resolveSession and                     *)
(* getActiveSessionByToken).                                               *)
THEOREM StalenessIsBounded == SessionsSpec => []StalenessBounded
<1>1. SessionsInv => StalenessBounded
  BY SessionConstants DEF SessionsInv, StalenessBounded, AuthBound, GatewayBound, SessionsTypeOK,
     StaleLimit, AuthLimit
<1> QED BY <1>1, SessionsInvariant, PTL

(* No step brings a revoked session back.                                  *)
THEOREM RevocationIsFinal == SessionsSpec => RevokedIsFinal
<1>1. ASSUME SessionsTypeOK, [SessionsNext]_sessionVars, NEW t \in Tokens, row[t].state = "revoked"
      PROVE  row'[t].state = "revoked"
  <2>1. ASSUME NEW r \in Requests, SessionStep(r) PROVE row'[t].state = "revoked"
    <3>1. CASE LoginExtend(r)
      <4>1. Extended(row[t]).state = "revoked" BY <1>1 DEF Extended
      <4> QED BY <1>1, <3>1, <4>1 DEF LoginExtend, SessionsTypeOK
    <3>2. CASE LoginInsert(r)
      BY <1>1, <3>2 DEF LoginInsert, Issued, SessionsTypeOK
    <3>3. CASE RevokeByToken(r) \/ OthersUpdate(r)
      BY <1>1, <3>3 DEF RevokeByToken, OthersUpdate, Revoke, SessionsTypeOK, Row
    <3>4. CASE UNCHANGED row
      BY <1>1, <3>4
    <3> QED BY <2>1, <3>1, <3>2, <3>3, <3>4
            DEF SessionStep, LoginVerified, LoginFindDevice, LoginGivenUp, Arrive, GuardGet, FindGet,
                FindSelect, FindSet, GuardSet, TerminateList, OthersSelect, PurgeCached, UpdateUser
  <2>2. ASSUME NEW u \in Tokens, SessionExpires(u) PROVE row'[t].state = "revoked"
    BY <1>1, <2>2 DEF SessionExpires, Valid, SessionsTypeOK
  <2>3. CASE TimePasses \/ UNCHANGED sessionVars
    BY <1>1, <2>3 DEF TimePasses, sessionVars
  <2> QED BY <1>1, <2>1, <2>2, <2>3 DEF SessionsNext
<1>2. SessionsTypeOK /\ [SessionsNext]_sessionVars =>
        [\A t \in Tokens : row[t].state = "revoked" => row'[t].state = "revoked"]_sessionVars
  BY <1>1
<1>3. SessionsInv => SessionsTypeOK
  BY DEF SessionsInv
<1> QED BY <1>2, <1>3, SessionsInvariant, PTL DEF SessionsSpec, RevokedIsFinal
=============================================================================
