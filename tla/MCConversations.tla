-------------------------- MODULE MCConversations --------------------------
(* Instances of Conversations for TLC: one conversation of each kind.      *)
EXTENDS Conversations
CONSTANTS r1, g1, d1
============================================================================
