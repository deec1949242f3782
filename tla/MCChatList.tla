------------------------------ MODULE MCChatList ------------------------------
(* Instances of ChatList for TLC.                                          *)
EXTENDS ChatList

CONSTANTS c1, c2

(* One chat and everything that can happen to it and to the page; or two   *)
(* chats with one piece of news each, the page opening and creating them.  *)
Alone(max) == [news |-> [c \in Chats |-> IF c = c1 THEN max ELSE 0],
               kinds |-> {"end", "read", "open", "fail", "create"}]
Pair == [news |-> [c \in Chats |-> 1], kinds |-> {"open", "create"}]
AloneOrPair == {Alone(MaxNews), Pair}
=============================================================================
