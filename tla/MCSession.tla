----------------------------- MODULE MCSession -----------------------------
(* Instances of Session for TLC: a server whose key has a passphrase and   *)
(* one whose key has none.                                                 *)
EXTENDS Session
CONSTANTS s1, s2

MCConfigured == <<s1, s2>>
============================================================================
