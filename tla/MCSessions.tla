------------------------------ MODULE MCSessions ------------------------------
(* Instances of Sessions for TLC: tokens and request slots are model       *)
(* values and interchangeable.                                             *)
EXTENDS Sessions, TLC

Symmetry == Permutations(Tokens) \cup Permutations(Requests)

AllOps == Ops
=============================================================================
