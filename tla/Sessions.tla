------------------------------- MODULE Sessions -------------------------------
(***************************************************************************)
(* The sessions of one user: the UserSessions rows of the auth service,    *)
(* the cache UserSessionRepository keeps of them, and the second cache     *)
(* SessionGuard keeps in the api-gateway.  Nothing ties the sessions of    *)
(* different users together.                                               *)
(*                                                                         *)
(* A call runs one step per awaited statement.  Time passes in ticks, and  *)
(* the TTLs are counted in them.  The code puts no deadline on its calls;  *)
(* CallTicks is the number of ticks a call is taken to last at most.       *)
(***************************************************************************)
EXTENDS Naturals, FiniteSets

CONSTANTS
  Tokens,       \* session tokens, each issued at most once
  Devices,      \* device ids
  NoDevice,     \* a login without a device id
  Requests,     \* slots for calls in flight, over all replicas
  AuthTTL,      \* SESSION_TTL_SECONDS in ticks (60 s)
  GatewayTTL,   \* SESSION_CACHE_TTL in ticks (300 s)
  CallTicks,    \* ticks a call takes at most (an assumption)
  AllowedOps    \* the operations a configuration exercises

ASSUME SessionConstants ==
  /\ AuthTTL \in Nat \ {0}
  /\ GatewayTTL \in Nat \ {0}
  /\ CallTicks \in Nat
  /\ NoDevice \notin Devices

VARIABLES
  row,     \* row[t]: the row of UserSessions with sessionToken t
  auth,    \* auth[t]: ticks Redis still holds auth:session:<t> (0: not there)
  gateway, \* gateway[t]: ticks Redis still holds api-gateway:session:<t>
  since,   \* since[t]: ticks passed since row t stopped being valid
  req,     \* req[r]: the call in slot r
  lasted   \* lasted[r]: ticks passed since the call in slot r began

sessionVars == <<row, auth, gateway, since, req, lasted>>

-----------------------------------------------------------------------------
Owners == Devices \cup {NoDevice}
(* "expired": isActive still, but expiresAt has passed.                    *)
Row == [state : {"unused", "active", "expired", "revoked"}, device : Owners]
NoSession == [state |-> "unused", device |-> NoDevice]

NoCall == [pc |-> "idle"]
LoginCall == [pc : {"login_find", "login_insert"}, device : Owners]
               \cup [pc : {"login_extend"}, device : Owners, found : Tokens]

(* A call with a session token: in SessionGuard, then in the auth service; *)
(* targets are the sessions it is to revoke.                               *)
Ops == {"use", "logout", "terminate", "terminateOthers", "changePassword"}
ASSUME SomeOps == AllowedOps \subseteq Ops

GuardPcs == {"guard", "get", "select", "set", "gateway_set"}
ServicePcs == {"get", "select", "set", "list", "revoke", "others", "others_update", "del",
               "update_user"}
SessionCall ==
  [pc : GuardPcs, op : Ops, phase : {"guard"}, token : Tokens, targets : SUBSET Tokens]
    \cup [pc : ServicePcs, op : Ops \ {"use"}, phase : {"service"}, token : Tokens,
          targets : SUBSET Tokens]

(* The longest a session that has ended is still taken for valid: a fill   *)
(* of each cache by a call as old as it can be, and the two TTLs.          *)
AuthLimit == AuthTTL + CallTicks
StaleLimit == AuthLimit + GatewayTTL + CallTicks

SessionsTypeOK ==
  /\ row \in [Tokens -> Row]
  /\ auth \in [Tokens -> 0..AuthTTL]
  /\ gateway \in [Tokens -> 0..GatewayTTL]
  /\ since \in [Tokens -> 0..StaleLimit]
  /\ req \in [Requests -> {NoCall} \cup LoginCall \cup SessionCall]
  /\ lasted \in [Requests -> 0..CallTicks]

SessionsInit ==
  /\ row = [t \in Tokens |-> NoSession]
  /\ auth = [t \in Tokens |-> 0]
  /\ gateway = [t \in Tokens |-> 0]
  /\ since = [t \in Tokens |-> 0]
  /\ req = [r \in Requests |-> NoCall]
  /\ lasted = [r \in Requests |-> 0]

-----------------------------------------------------------------------------
Issued(t) == row[t].state # "unused"
Valid(t) == row[t].state = "active"
IsActive(t) == row[t].state \in {"active", "expired"}   \* whatever expiresAt says
OthersActive(t) == {u \in Tokens \ {t} : IsActive(u)}

AtStatement(r, pc) == req[r].pc = pc
Proceed(r, call) ==
  /\ req' = [req EXCEPT ![r] = call]
  /\ lasted' = [lasted EXCEPT ![r] = IF call = NoCall THEN 0 ELSE @]
Start(r, call) == req[r] = NoCall /\ Proceed(r, call)
GoTo(r, pc) == Proceed(r, [req[r] EXCEPT !.pc = pc])
Return(r) == Proceed(r, NoCall)
Check(r, ok, pc) == IF ok THEN GoTo(r, pc) ELSE Return(r)

-----------------------------------------------------------------------------
(* login, and register (which goes straight to createNewSession).          *)

LoginVerified(r) ==
  \E d \in Owners, pc \in {"login_find", "login_insert"} :
    /\ d = NoDevice => pc = "login_insert"
    /\ Start(r, [pc |-> pc, device |-> d])
    /\ UNCHANGED <<row, auth, gateway, since>>

LoginFindDevice(r) ==
  /\ AtStatement(r, "login_find")
  /\ LET d == req[r].device
         known == {t \in Tokens : Valid(t) /\ row[t].device = d}
     IN \/ \E t \in known :
             Proceed(r, [pc |-> "login_extend", device |-> d, found |-> t])
        \/ known = {} /\ GoTo(r, "login_insert")
  /\ UNCHANGED <<row, auth, gateway, since>>

(* UPDATE ... WHERE isActive.  Seeded fault: an upsert that also sets it.  *)
Reactivated(session) == [session EXCEPT !.state = "active"]
Extended(session) ==
  IF session.state = "expired" THEN [session EXCEPT !.state = "active"] ELSE session

LoginExtend(r) ==
  /\ AtStatement(r, "login_extend")
  /\ LET t == req[r].found IN
     /\ row' = [row EXCEPT ![t] = Extended(@)]
     /\ since' = IF IsActive(t) THEN [since EXCEPT ![t] = 0] ELSE since
     /\ IF IsActive(t) THEN Return(r)
        ELSE Proceed(r, [pc |-> "login_insert", device |-> req[r].device])
  /\ UNCHANGED <<auth, gateway>>

LoginInsert(r) ==
  /\ AtStatement(r, "login_insert")
  /\ \E t \in Tokens :
       /\ ~Issued(t)
       /\ row' = [row EXCEPT ![t] = [state |-> "active", device |-> req[r].device]]
  /\ Return(r)
  /\ UNCHANGED <<auth, gateway, since>>

(* No token is left: the bound of the model.                               *)
LoginGivenUp(r) ==
  /\ AtStatement(r, "login_insert")
  /\ \A t \in Tokens : Issued(t)
  /\ Return(r)
  /\ UNCHANGED <<row, auth, gateway, since>>

-----------------------------------------------------------------------------
(* A call with a session token t: SessionGuard.resolveSession first.       *)
Arrive(r) ==
  \E t \in Tokens, op \in AllowedOps, target \in Tokens :
    /\ Issued(t) /\ Issued(target)
    /\ op # "terminate" => target = t
    /\ Start(r, [pc |-> "guard", op |-> op, phase |-> "guard", token |-> t, targets |-> {target}])
    /\ UNCHANGED <<row, auth, gateway, since>>

(* Past the guard the gateway calls the auth service, which looks the      *)
(* session up again.  "use" stands for every call that needs no more.      *)
Admitted(call) == IF call.op = "use" THEN NoCall ELSE [call EXCEPT !.phase = "service", !.pc = "get"]

GuardGet(r) ==
  /\ AtStatement(r, "guard")
  /\ IF gateway[req[r].token] > 0 THEN Proceed(r, Admitted(req[r])) ELSE GoTo(r, "get")
  /\ UNCHANGED <<row, auth, gateway, since>>

(* UserSessionRepository.getActiveSessionByToken, called by validateSession*)
(* for the guard and by every operation of the service.  A cached session  *)
(* is taken as it is, its expiresAt included.                              *)
FirstStatement(op) ==
  CASE op = "logout" -> "revoke"
    [] op = "terminate" -> "list"
    [] op \in {"terminateOthers", "changePassword"} -> "others"

Found(r) ==
  IF req[r].phase = "guard" THEN GoTo(r, "gateway_set")
  ELSE GoTo(r, FirstStatement(req[r].op))

(* Seeded fault: a hit that starts the TTL of the entry anew.              *)
FindGetSliding(r) ==
  /\ AtStatement(r, "get")
  /\ IF auth[req[r].token] > 0 THEN Found(r) ELSE GoTo(r, "select")
  /\ auth' = [auth EXCEPT ![req[r].token] = IF @ > 0 THEN AuthTTL ELSE 0]
  /\ UNCHANGED <<row, gateway, since>>

FindGet(r) ==
  /\ AtStatement(r, "get")
  /\ IF auth[req[r].token] > 0 THEN Found(r) ELSE GoTo(r, "select")
  /\ UNCHANGED <<row, auth, gateway, since>>

FindSelect(r) ==
  /\ AtStatement(r, "select")
  /\ Check(r, Valid(req[r].token), "set")
  /\ UNCHANGED <<row, auth, gateway, since>>

(* SET with EX starts the TTL anew.  Seeded fault: it adds to what is left.*)
SetOnTop(left, ttl) == left + ttl
SetFor(left, ttl) == ttl

FindSet(r) ==
  /\ AtStatement(r, "set")
  /\ auth' = [auth EXCEPT ![req[r].token] = SetFor(@, AuthTTL)]
  /\ Found(r)
  /\ UNCHANGED <<row, gateway, since>>

GuardSet(r) ==
  /\ AtStatement(r, "gateway_set")
  /\ gateway' = [gateway EXCEPT ![req[r].token] = SetFor(@, GatewayTTL)]
  /\ Proceed(r, Admitted(req[r]))
  /\ UNCHANGED <<row, auth, since>>

-----------------------------------------------------------------------------
(* Revocation.                                                             *)
Revoke(ts) ==
  /\ row' = [t \in Tokens |->
       IF t \in ts /\ Issued(t) THEN [row[t] EXCEPT !.state = "revoked"] ELSE row[t]]
  /\ since' = [t \in Tokens |-> IF t \in ts /\ Valid(t) THEN 0 ELSE since[t]]

(* terminateSession: the password is wrong, or the target is not active.   *)
TerminateList(r) ==
  /\ AtStatement(r, "list")
  /\ \/ (\A t \in req[r].targets : Valid(t)) /\ GoTo(r, "revoke")
     \/ Return(r)
  /\ UNCHANGED <<row, auth, gateway, since>>

RevokeByToken(r) ==
  /\ AtStatement(r, "revoke")
  /\ Revoke(req[r].targets)
  /\ GoTo(r, "del")
  /\ UNCHANGED <<auth, gateway>>

(* revokeOtherSessionsByToken: SELECT, UPDATE, one DEL per selected token. *)
OthersSelect(r) ==
  /\ AtStatement(r, "others")
  /\ \/ Proceed(r, [req[r] EXCEPT !.pc = "others_update", !.targets = OthersActive(req[r].token)])
     \/ Return(r)                                     \* the password is wrong
  /\ UNCHANGED <<row, auth, gateway, since>>

(* What follows the last DEL: changePassword goes on to updateUser.        *)
Purged(r) == Check(r, req[r].op = "changePassword", "update_user")

(* The CHECK constraint of revokeReason knows no USER_PASSWORD_CHANGED: an *)
(* UPDATE that meets a row fails.                                          *)
ReasonStorable(op) == op # "changePassword"

OthersUpdate(r) ==
  /\ AtStatement(r, "others_update")
  /\ LET met == OthersActive(req[r].token) IN
     IF met # {} /\ ~ReasonStorable(req[r].op)
     THEN Return(r) /\ UNCHANGED <<row, since>>
     ELSE /\ Revoke(met)
          /\ IF req[r].targets # {} THEN GoTo(r, "del") ELSE Purged(r)
  /\ UNCHANGED <<auth, gateway>>

(* The DELs of a Promise.all, in any order.                                *)
PurgeCached(r) ==
  /\ AtStatement(r, "del")
  /\ \E t \in req[r].targets :
       /\ auth' = [auth EXCEPT ![t] = 0]
       /\ IF req[r].targets = {t} THEN Purged(r)
          ELSE Proceed(r, [req[r] EXCEPT !.targets = @ \ {t}])
  /\ UNCHANGED <<row, gateway, since>>

(* updateUser: the new password and keys are stored.                       *)
UpdateUser(r) ==
  /\ AtStatement(r, "update_user")
  /\ Return(r)
  /\ UNCHANGED <<row, auth, gateway, since>>

-----------------------------------------------------------------------------
(* Thirty days after its last login a session is over.                     *)
SessionExpires(t) ==
  /\ Valid(t)
  /\ row' = [row EXCEPT ![t].state = "expired"]
  /\ since' = [since EXCEPT ![t] = 0]
  /\ UNCHANGED <<auth, gateway, req, lasted>>

TimePasses ==
  /\ \A r \in Requests : req[r] = NoCall \/ lasted[r] < CallTicks
  /\ auth' = [t \in Tokens |-> IF auth[t] > 0 THEN auth[t] - 1 ELSE 0]
  /\ gateway' = [t \in Tokens |-> IF gateway[t] > 0 THEN gateway[t] - 1 ELSE 0]
  /\ since' = [t \in Tokens |->
       IF Issued(t) /\ ~Valid(t) /\ since[t] < StaleLimit THEN since[t] + 1 ELSE since[t]]
  /\ lasted' = [r \in Requests |-> IF req[r] = NoCall THEN lasted[r] ELSE lasted[r] + 1]
  /\ UNCHANGED <<row, req>>

SessionStep(r) ==
  \/ LoginVerified(r) \/ LoginFindDevice(r) \/ LoginExtend(r) \/ LoginInsert(r) \/ LoginGivenUp(r)
  \/ Arrive(r) \/ GuardGet(r) \/ FindGet(r) \/ FindSelect(r) \/ FindSet(r) \/ GuardSet(r)
  \/ TerminateList(r) \/ RevokeByToken(r)
  \/ OthersSelect(r) \/ OthersUpdate(r) \/ PurgeCached(r) \/ UpdateUser(r)

SessionsNext ==
  \/ \E r \in Requests : SessionStep(r)
  \/ \E t \in Tokens : SessionExpires(t)
  \/ TimePasses

SessionsSpec == SessionsInit /\ [][SessionsNext]_sessionVars

-----------------------------------------------------------------------------
(* What ties the caches to the rows.                                       *)

Ended(t) == Issued(t) /\ ~Valid(t)

(* A call that is to fill a cache with t read t from the row while it was  *)
(* valid, or from the auth cache while that held it.                       *)
FillsAuth(r) == AtStatement(r, "set")
FillsGateway(r) == AtStatement(r, "gateway_set")

(* What the auth cache holds of an ended session runs out in AuthLimit     *)
(* ticks.                                                                  *)
AuthBound == \A t \in Tokens : Ended(t) /\ auth[t] > 0 => since[t] + auth[t] <= AuthLimit

(* What the gateway cache holds runs out in StaleLimit ticks.              *)
GatewayBound ==
  \A t \in Tokens : Ended(t) /\ gateway[t] > 0 => since[t] + gateway[t] <= StaleLimit

(* A fill under way is no older than what it read.                         *)
FillBound ==
  \A r \in Requests :
    /\ FillsAuth(r) /\ Ended(req[r].token) => since[req[r].token] <= lasted[r]
    /\ FillsGateway(r) /\ Ended(req[r].token) => since[req[r].token] <= AuthLimit + lasted[r]

(* Only sessions that were issued are cached or asked for.                 *)
OnlyIssued ==
  /\ \A t \in Tokens : auth[t] > 0 \/ gateway[t] > 0 => Issued(t)
  /\ \A r \in Requests : FillsAuth(r) \/ FillsGateway(r) => Issued(req[r].token)

(* The inductive invariant of the proofs.                                  *)
SessionsInv == SessionsTypeOK /\ OnlyIssued /\ AuthBound /\ GatewayBound /\ FillBound

(* SAFETY: a session that was revoked or has expired is taken for valid by *)
(* neither the gateway (resolveSession) nor the auth service               *)
(* (getActiveSessionByToken) once StaleLimit ticks have passed, although   *)
(* nothing ever tells the gateway's cache and fills race revocations.      *)
StalenessBounded ==
  \A t \in Tokens : Ended(t) /\ since[t] >= StaleLimit => gateway[t] = 0 /\ auth[t] = 0

(* ACTION: no step brings a revoked session back, not even the login that  *)
(* found it active on its device and extends it                            *)
(* (updateSessionDeviceInfoAndExtendValidity).                             *)
RevokedIsFinal ==
  [][\A t \in Tokens : row[t].state = "revoked" => row'[t].state = "revoked"]_sessionVars
=============================================================================
