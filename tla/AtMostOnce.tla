----------------------------- MODULE AtMostOnce -----------------------------
(***************************************************************************)
(* What the send queue promises the code that calls it: a submitted        *)
(* request is accepted by the server at most once; it is acknowledged only *)
(* if it was accepted, and reported as failed only if it was not and never *)
(* will be.  The queue may also close a request (time-out, cancel,         *)
(* reconnect) without an answer, and then says nothing about it.           *)
(***************************************************************************)
EXTENDS Naturals

CONSTANT Requests

VARIABLES
  status,     \* what the caller knows of each request
  applied     \* how often the server has accepted it

vars == <<status, applied>>

Init ==
  /\ status  = [r \in Requests |-> "new"]
  /\ applied = [r \in Requests |-> 0]

Submit(r) ==
  /\ status[r] = "new"
  /\ status' = [status EXCEPT ![r] = "open"]
  /\ UNCHANGED applied

(* A closed request may still be on its way.                               *)
Accept(r) ==
  /\ status[r] \in {"open", "closed"}
  /\ applied[r] = 0
  /\ applied' = [applied EXCEPT ![r] = 1]
  /\ UNCHANGED status

Acknowledge(r) ==
  /\ status[r] = "open"
  /\ applied[r] = 1
  /\ status' = [status EXCEPT ![r] = "acked"]
  /\ UNCHANGED applied

Fail(r) ==
  /\ status[r] = "open"
  /\ applied[r] = 0
  /\ status' = [status EXCEPT ![r] = "failed"]
  /\ UNCHANGED applied

(* A reconnect closes every open request at once.                          *)
Close(S) ==
  /\ \A r \in S : status[r] = "open"
  /\ status' = [r \in Requests |-> IF r \in S THEN "closed" ELSE status[r]]
  /\ UNCHANGED applied

Next ==
  \/ \E r \in Requests : Submit(r) \/ Accept(r) \/ Acknowledge(r) \/ Fail(r)
  \/ \E S \in SUBSET Requests : Close(S)

Spec == Init /\ [][Next]_vars

=============================================================================
