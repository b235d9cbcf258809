---------------------------- MODULE MCSendQueue ----------------------------
(* Small instances of SendQueue: which verbs and rooms the requests have.  *)
EXTENDS SendQueue, TLC

CONSTANTS r1, r2, roomA

MCRooms     == {roomA}
TwoRequests == {r1, r2}

(* A room message and an upload.                                           *)
SendTransferVerbs == [r \in Requests |-> IF r = r1 THEN "send" ELSE "transfer"]
SendTransferRooms == [r \in Requests |-> roomA]

(* A room message and a scroll-back.                                       *)
SendHistoryVerbs == [r \in Requests |-> IF r = r1 THEN "send" ELSE "history"]
SendHistoryRooms == [r \in Requests |-> roomA]

=============================================================================
