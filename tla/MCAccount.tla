------------------------------- MODULE MCAccount -------------------------------
(* Instances of Account for TLC.                                           *)
EXTENDS Account, TLC

CONSTANTS p1, p2, b1, b2

(* Two tabs of a browser, in which answers are lost and pages reloaded, or *)
(* pages left by a logout and sessions expire; or a page in each of two    *)
(* browsers (in either order, which keeps the pages interchangeable), with *)
(* changes of the password and logouts, or sessions that are ended by the  *)
(* other browser or by time.                                               *)
Tabs(kinds) == [browserOf |-> [p \in Pages |-> b1], tokens |-> 1, kinds |-> kinds]
Lost == {"register", "change", "lookUp", "fail", "reload"}
Left == {"register", "login", "logout", "change", "expire", "fail"}

Devices(first, kinds) ==
  [browserOf |-> [p \in Pages |-> IF p = first THEN b1 ELSE b2], tokens |-> 2, kinds |-> kinds]
Moved == {"register", "login", "logout", "change"}
Ended == {"register", "login", "logout", "terminate", "expire"}

TabsOrDevices ==
  {Tabs(kinds) : kinds \in {Lost, Left}}
  \cup {Devices(p, kinds) : p \in Pages, kinds \in {Moved, Ended}}

Symmetry == {f @@ g @@ h @@ k : f \in Permutations(Pages), g \in Permutations(Keys),
                                h \in Permutations(Calls), k \in Permutations(Passwords)}
=============================================================================
