----------------------------- MODULE MCSenderKeys -----------------------------
(* Instances of SenderKeys for TLC.                                        *)
EXTENDS SenderKeys, TLC

CONSTANTS a, b, c1, c2

Owners == [c \in Clients |-> IF c = c1 THEN a ELSE b]
Symmetry == {f @@ g : f \in Permutations(Tasks), g \in Permutations(Loads)}

(* One page that is reloaded, or two pages of two users that are not;      *)
(* requests fail or a member leaves.  If two pages fail, one load is under *)
(* way at a time.                                                          *)
OnePage(kinds) == [clients |-> {c1}, loads |-> 2, kinds |-> {"send", "join", "reload"} \cup kinds]
TwoPages(kinds, loads) == [clients |-> {c1, c2}, loads |-> loads, kinds |-> {"send", "join"} \cup kinds]
OneOrTwoPages ==
  {OnePage({"fail"}), OnePage({"leave"}), TwoPages({"leave"}, 2), TwoPages({"fail"}, 1)}
=============================================================================
