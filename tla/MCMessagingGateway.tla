------------------------- MODULE MCMessagingGateway -------------------------
(* Instances of MessagingGateway for TLC: the sockets are tabs and devices *)
(* of one user, the worst case for the channel they share.                 *)
EXTENDS MessagingGateway, TLC

OneUser == [s \in Sockets |-> CHOOSE u \in Users : TRUE]

Subscriptions == {"subscribe", "unsubscribe"}
Arrivals == {"subscribe"}

Symmetry == Permutations(Sockets)
=============================================================================
