---------------------------- MODULE MCConversation ----------------------------
(* Conversation with limits small enough to be reached.                      *)
EXTENDS Conversation
=============================================================================
