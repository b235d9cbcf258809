-------------------------- MODULE MCMessageHistory --------------------------
(* A conversation of a few messages, scrolled by pages of one or two.      *)
EXTENDS MessageHistory
=============================================================================
