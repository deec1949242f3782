------------------------------ MODULE MCMessages ------------------------------
(* Instances of Messages for TLC.                                          *)
EXTENDS Messages, TLC

Symmetry == Permutations(Ids) \cup Permutations(Requests)

(* What a member who pages back meets, what one who joined pages back to,  *)
(* and what one who reads meets.                                           *)
Paging == [kinds |-> {"send", "walk", "delete"}, sends |-> 3]
PagingAfterJoin == [kinds |-> {"send", "walk", "delete", "join"}, sends |-> 2]
Reading == [kinds |-> {"send", "mark", "leave", "join", "fail"}, sends |-> 2]
PagingOrReading == {Paging, PagingAfterJoin, Reading}
=============================================================================
