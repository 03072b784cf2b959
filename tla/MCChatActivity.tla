--------------------------- MODULE MCChatActivity ---------------------------
(* ChatActivity on one chat with two runs, one after the other, and two prompts: *)
(* the entries of different chats do not depend on each other.                   *)
EXTENDS ChatActivity
=============================================================================
