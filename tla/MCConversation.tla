--------------------------- MODULE MCConversation ---------------------------
(* Small instances of Conversation for TLC.                                 *)
EXTENDS Conversation, TLC

One   == {1}
Two   == {1, 2}
=============================================================================
