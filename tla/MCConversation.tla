---------------------------- MODULE MCConversation ----------------------------
(* Small instances of the conversation for TLC. *)
EXTENDS ConversationProperties
==============================================================================
