-------------------------- MODULE MCServiceIdentity --------------------------
(* Instances of ServiceIdentity for TLC.                                   *)
EXTENDS ServiceIdentity, TLC

CONSTANTS k1, k2

(* A key is published, then signed with; the one before goes last.         *)
Overlap == << <<k1>>, <<k2, k1>>, <<k1, k2>>, <<k2>> >>

Symmetry == Permutations(Replicas) \cup Permutations(Calls)
=============================================================================
