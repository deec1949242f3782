------------------------------ MODULE ChatRoster ------------------------------
(***************************************************************************)
(* What ChatService promises of a chat, without statements, calls, roles   *)
(* and caches: a chat is created, gets its first members at once, others   *)
(* join, each of them departs at most once and for good, and every         *)
(* departure is paid for by one new key epoch, unless a failure forgets it.*)
(***************************************************************************)
EXTENDS Naturals, FiniteSets

CONSTANTS
  Chats,
  Users,
  Calls      \* what tells one departure that is not paid for from another

VARIABLES
  phase,     \* phase[c]: where chat c is in its life
  standing,  \* standing[c][u]: what u is to c
  epoch,     \* epoch[c]: the key version of c
  owed,      \* owed[c]: departures whose epoch is still to come
  failed     \* calls that failed

vars == <<phase, standing, epoch, owed, failed>>

TypeOK ==
  /\ phase \in [Chats -> {"unused", "live", "deleted"}]
  /\ standing \in [Chats -> [Users -> {"absent", "active", "left"}]]
  /\ epoch \in [Chats -> Nat]
  /\ owed \in [Chats -> SUBSET Calls]
  /\ failed \in Nat

Nobody == [u \in Users |-> "absent"]

Init ==
  /\ phase = [c \in Chats |-> "unused"]
  /\ standing = [c \in Chats |-> Nobody]
  /\ epoch = [c \in Chats |-> 0]
  /\ owed = [c \in Chats |-> {}]
  /\ failed = 0

Create(c) ==
  /\ phase[c] = "unused"
  /\ phase' = [phase EXCEPT ![c] = "live"]
  /\ epoch' = [epoch EXCEPT ![c] = 1]
  /\ UNCHANGED <<standing, owed, failed>>

Found(c) ==
  /\ phase[c] = "live" /\ standing[c] = Nobody
  /\ \E founders \in (SUBSET Users) \ {{}} :
       standing' = [standing EXCEPT ![c] =
         [u \in Users |-> IF u \in founders THEN "active" ELSE "absent"]]
  /\ UNCHANGED <<phase, epoch, owed, failed>>

Join(c, u) ==
  /\ phase[c] = "live" /\ standing[c] # Nobody
  /\ standing[c][u] = "absent"
  /\ standing' = [standing EXCEPT ![c][u] = "active"]
  /\ UNCHANGED <<phase, epoch, owed, failed>>

Depart(c, u) ==
  /\ standing[c][u] = "active"
  /\ standing' = [standing EXCEPT ![c][u] = "left"]
  /\ \E k \in Calls \ owed[c] : owed' = [owed EXCEPT ![c] = @ \cup {k}]
  /\ UNCHANGED <<phase, epoch, failed>>

NewEpoch(c) ==
  /\ \E k \in owed[c] : owed' = [owed EXCEPT ![c] = @ \ {k}]
  /\ epoch' = [epoch EXCEPT ![c] = @ + 1]
  /\ UNCHANGED <<phase, standing, failed>>

Delete(c) ==
  /\ phase[c] = "live" /\ standing[c] # Nobody
  /\ phase' = [phase EXCEPT ![c] = "deleted"]
  /\ standing' = [standing EXCEPT ![c] = Nobody]
  /\ epoch' = [epoch EXCEPT ![c] = 0]
  /\ owed' = [owed EXCEPT ![c] = {}]
  /\ UNCHANGED failed

(* A call fails, and may have owed an epoch.                               *)
Failure ==
  /\ failed' = failed + 1
  /\ \/ UNCHANGED owed
     \/ \E c \in Chats : \E k \in owed[c] : owed' = [owed EXCEPT ![c] = @ \ {k}]
  /\ UNCHANGED <<phase, standing, epoch>>

Next ==
  \/ \E c \in Chats : Create(c) \/ Found(c) \/ NewEpoch(c) \/ Delete(c)
  \/ \E c \in Chats, u \in Users : Join(c, u) \/ Depart(c, u)
  \/ Failure

Spec == Init /\ [][Next]_vars
=============================================================================
