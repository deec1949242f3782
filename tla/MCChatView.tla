------------------------------ MODULE MCChatView ------------------------------
(* Instances of ChatView for TLC: two chats, one of them with a message.   *)
EXTENDS ChatView

OneChat == [m \in Ids |-> Home]
Everything == {"send", "edit", "delete", "react", "lose", "switch"}
Symmetry == Permutations(Requests) \cup Permutations(Fetches) \cup Permutations(Users)
=============================================================================
