----------------------------- MODULE SendQueue -----------------------------
(***************************************************************************)
(* The ack-tracked send queue of one client (internal/client/sendqueue*.go)*)
(* with every thread that touches it:                                      *)
(*   - a sender per request (Send*, Edit*, Request*: enqueue, mark, encode)*)
(*   - the queue driver (a 200 ms tick: sweep time-outs, re-send entries   *)
(*     that failed with a transient error);                                *)
(*   - the readLoop (acks, transfer errors, re-send on a fresh epoch_key); *)
(*   - the TUI, which alone handles "error" frames, later than the         *)
(*     readLoop, behind the buffered channel msgCh.                        *)
(* Each takes the queue's mutex once per operation, so one operation is    *)
(* one action, and everything between two operations is interleaved.       *)
(*                                                                         *)
(* The server and the SSH link are external.  A frame the server receives  *)
(* is either accepted, with one ack, or rejected, with one error; the link *)
(* keeps order until it breaks, and then loses what was in flight.         *)
(*                                                                         *)
(* A request is a corr_id, so it is enqueued once.  Wall-clock time is the *)
(* age of an entry: "fresh" since its last send, then "due" (its backoff   *)
(* has elapsed), then "stale" (older than ackTimeout, 30 s > 5 s).         *)
(***************************************************************************)
EXTENDS Naturals, Sequences

CONSTANTS
  Requests,     \* the corr_ids
  Rooms,        \* the rooms
  NoRoom,       \* what roomFromKnownPayload gives a request without a room
  NoRequest,    \* "no entry" in a thread's local variable
  VerbOf,       \* the Verb of each request
  RoomOf,       \* roomFromKnownPayload(entry.Payload) of each request
  MaxBudget,    \* Queue.maxBudget (5 in NewQueue)
  ServerCodes,  \* the error categories the server answers with
  MaxSessions,  \* bound: connections made
  MaxPushes     \* bound: unsolicited epoch_key pushes

Verbs == {"send", "history", "refresh", "transfer"}
Categories == {"A", "B", "C", "unknown"}
Retriable  == {"A", "B"}
Retriers   == {"driver", "reader"}

ASSUME SendQueueAssumption ==
  /\ NoRoom \notin Rooms
  /\ NoRequest \notin Requests
  /\ VerbOf \in [Requests -> Verbs]
  /\ RoomOf \in [Requests -> Rooms \cup {NoRoom}]
  /\ MaxBudget \in Nat \ {0}
  /\ ServerCodes \subseteq Categories
  /\ MaxSessions \in Nat \ {0}
  /\ MaxPushes \in Nat

VARIABLES
  connected,    \* Client.IsConnected()
  state,        \* Entry.State, "absent" when Queue.entries has no such key
  attempts,     \* Entry.Attempts
  lastError,    \* the category of Entry.LastError
  age,          \* the time since Entry.LastSentAt
  sender,       \* the progress of the goroutine that issues each request
  tick,         \* the driver's place in driverTick
  timedOut,     \* what SweepTimeouts returned and is not dropped yet
  retry,        \* the retry snapshot each re-sender still has to walk
  encoding,     \* the entry each re-sender has marked and not yet encoded
  uiDrop,       \* the history request the TUI's error case will drop
  linkUp,       \* the SSH connection
  toServer,     \* frames on the wire to the server
  toClient,     \* frames on the wire to the client
  msgCh,        \* error frames the readLoop has forwarded to the TUI
  applied,      \* how often the server has accepted each request
  outcome,      \* how each request left the queue (history variable)
  sessions,     \* connections made so far
  pushes        \* unsolicited epoch_key pushes so far

queue      == <<state, attempts, lastError, age>>
clientVars == <<connected, queue, sender, tick, timedOut, retry, encoding, uiDrop>>
chanVars   == <<linkUp, toServer, toClient, msgCh>>
boundVars  == <<sessions, pushes>>
vars == <<clientVars, chanVars, applied, outcome, boundVars>>

-----------------------------------------------------------------------------
(* The entry and the operations of Queue, each under the queue's mutex.    *)

States   == {"absent", "pending", "sending", "timedout"}
Ages     == {"fresh", "due", "stale"}
Outcomes == {"none", "acked", "error", "swept", "dropped", "lost"}

InQueue(r) == state[r] # "absent"

EnqueueWithID(r) ==
  /\ state' = [state EXCEPT ![r] = "pending"]
  /\ UNCHANGED <<attempts, lastError, age>>

(* Mutant: LastSentAt is left at the zero time.                            *)
MarkSendingUntimed(r) ==
  /\ state'    = [state EXCEPT ![r] = "sending"]
  /\ attempts' = [attempts EXCEPT ![r] = attempts[r] + 1]
  /\ age'      = [age EXCEPT ![r] = "never"]
  /\ UNCHANGED lastError

(* A no-op on an entry that is gone.                                       *)
MarkSending(r) ==
  IF InQueue(r)
  THEN /\ state'    = [state EXCEPT ![r] = "sending"]
       /\ attempts' = [attempts EXCEPT ![r] = attempts[r] + 1]
       /\ age'      = [age EXCEPT ![r] = "fresh"]
       /\ UNCHANGED lastError
  ELSE UNCHANGED queue

(* delete(q.entries, corrID), in whichever of the ways an entry goes.      *)
Leave(r, how) ==
  /\ state'     = [state EXCEPT ![r] = "absent"]
  /\ attempts'  = [attempts EXCEPT ![r] = 0]
  /\ lastError' = [lastError EXCEPT ![r] = "none"]
  /\ age'       = [age EXCEPT ![r] = "fresh"]
  /\ outcome'   = [outcome EXCEPT ![r] = IF InQueue(r) THEN how ELSE outcome[r]]

Ack(r)  == Leave(r, "acked")
Drop(r) == Leave(r, "dropped")

(* Mutant: one attempt more than the budget.                               *)
ErrorOneMore(r, code) ==
  IF InQueue(r) /\ code \in Retriable /\ attempts[r] <= MaxBudget
  THEN /\ state'     = [state EXCEPT ![r] = "pending"]
       /\ lastError' = [lastError EXCEPT ![r] = code]
       /\ UNCHANGED <<attempts, age, outcome>>
  ELSE Leave(r, "error")

(* Mutant: OnError fires for every rejection, retried or not.              *)
ErrorSurfacesEarly(r, code) ==
  IF InQueue(r) /\ code \in Retriable /\ attempts[r] < MaxBudget
  THEN /\ state'     = [state EXCEPT ![r] = "pending"]
       /\ lastError' = [lastError EXCEPT ![r] = code]
       /\ outcome'   = [outcome EXCEPT ![r] = "error"]
       /\ UNCHANGED <<attempts, age>>
  ELSE Leave(r, "error")

(* Queue.Error: a retriable category returns the entry to pending while    *)
(* the budget lasts; anything else removes it and fires OnError.           *)
Error(r, code) ==
  IF InQueue(r) /\ code \in Retriable /\ attempts[r] < MaxBudget
  THEN /\ state'     = [state EXCEPT ![r] = "pending"]
       /\ lastError' = [lastError EXCEPT ![r] = code]
       /\ UNCHANGED <<attempts, age, outcome>>
  ELSE Leave(r, "error")

(* Mutant: the entry's state is not looked at.                             *)
AnyForCategoryARetry ==
  {r \in Requests : lastError[r] = "A" /\ age[r] # "fresh"}

PendingForCategoryARetry ==
  {r \in Requests : /\ state[r] = "pending"
                    /\ lastError[r] = "A"
                    /\ age[r] # "fresh"}

(* Mutant: every entry of the room is re-sent on a fresh key.              *)
AnyForRoomRetry(room) == {r \in Requests : InQueue(r) /\ RoomOf[r] = room}

PendingForCategoryBRoomRetry(room) ==
  {r \in Requests : /\ state[r] = "pending"
                    /\ lastError[r] = "B"
                    /\ RoomOf[r] = room}

-----------------------------------------------------------------------------
(* Frames.  One record shape: the fields a kind does not use are fixed.    *)

AckFrame(r)       == [kind |-> "ack",   req |-> r, code |-> "none", room |-> NoRoom]
ErrorFrame(r, c)  == [kind |-> "error", req |-> r, code |-> c, room |-> NoRoom]
KeyFrame(room)    == [kind |-> "epoch_key", req |-> NoRequest,
                      code |-> "none", room |-> room]

Frame == [kind : {"ack", "error", "epoch_key"}, req : Requests \cup {NoRequest},
          code : Categories \cup {"none"}, room : Rooms \cup {NoRoom}]

(* Encoder.Encode: the frame reaches the wire, or the write fails.         *)
Encode(r) ==
  /\ toServer' = IF linkUp THEN Append(toServer, r) ELSE toServer
  /\ UNCHANGED <<linkUp, toClient, msgCh>>

-----------------------------------------------------------------------------
Init ==
  /\ connected = TRUE
  /\ state     = [r \in Requests |-> "absent"]
  /\ attempts  = [r \in Requests |-> 0]
  /\ lastError = [r \in Requests |-> "none"]
  /\ age       = [r \in Requests |-> "fresh"]
  /\ sender   = [r \in Requests |-> "idle"]
  /\ tick     = "wait"
  /\ timedOut = {}
  /\ retry    = [t \in Retriers |-> {}]
  /\ encoding = [t \in Retriers |-> NoRequest]
  /\ uiDrop   = NoRequest
  /\ linkUp   = TRUE
  /\ toServer = << >>
  /\ toClient = << >>
  /\ msgCh    = << >>
  /\ applied  = [r \in Requests |-> 0]
  /\ outcome  = [r \in Requests |-> "none"]
  /\ sessions = 1
  /\ pushes   = 0

(* The three steps of every sender, e.g. SendRoomMessageFull.  The offline *)
(* gate is read once, before the entry exists.                             *)
SenderEnqueue(r) ==
  /\ sender[r] = "idle"
  /\ connected
  /\ EnqueueWithID(r)
  /\ sender' = [sender EXCEPT ![r] = "queued"]
  /\ UNCHANGED <<connected, tick, timedOut, retry, encoding, uiDrop>>
  /\ UNCHANGED <<chanVars, applied, outcome, boundVars>>

SenderMark(r) ==
  /\ sender[r] = "queued"
  /\ MarkSending(r)
  /\ sender' = [sender EXCEPT ![r] = "marked"]
  /\ UNCHANGED <<connected, tick, timedOut, retry, encoding, uiDrop>>
  /\ UNCHANGED <<chanVars, applied, outcome, boundVars>>

(* Only RequestHistoryWithID drops its entry when the write fails.         *)
SenderEncode(r) ==
  /\ sender[r] = "marked"
  /\ Encode(r)
  /\ sender' = [sender EXCEPT ![r] = "done"]
  /\ IF ~linkUp /\ VerbOf[r] = "history"
     THEN Drop(r)
     ELSE UNCHANGED <<queue, outcome>>
  /\ UNCHANGED <<connected, tick, timedOut, retry, encoding, uiDrop>>
  /\ UNCHANGED <<applied, boundVars>>

-----------------------------------------------------------------------------
(* The driver: one driverTick.  IsConnected is read at the top only.       *)

(* Mutant: only entries that were re-sent time out.                        *)
SweepableRetried ==
  {r \in Requests : state[r] = "sending" /\ age[r] = "stale" /\ attempts[r] > 1}

Sweepable == {r \in Requests : state[r] = "sending" /\ age[r] = "stale"}

DriverSweep ==
  /\ tick = "wait"
  /\ connected
  /\ tick' = "sweep"
  /\ timedOut' = Sweepable
  /\ state' = [r \in Requests |-> IF r \in Sweepable THEN "timedout" ELSE state[r]]
  /\ UNCHANGED <<attempts, lastError, age>>
  /\ UNCHANGED <<connected, sender, retry, encoding, uiDrop>>
  /\ UNCHANGED <<chanVars, applied, outcome, boundVars>>

(* Mutant: a timed-out entry is queued again.                              *)
DriverRequeue(r) ==
  /\ tick = "sweep"
  /\ r \in timedOut
  /\ timedOut' = timedOut \ {r}
  /\ state' = [state EXCEPT ![r] = IF InQueue(r) THEN "pending" ELSE "absent"]
  /\ lastError' = [lastError EXCEPT ![r] = "A"]
  /\ UNCHANGED <<connected, sender, tick, retry, encoding, uiDrop>>
  /\ UNCHANGED <<attempts, age, chanVars, applied, outcome, boundVars>>

(* Mutant: a time-out is reported to the caller as a failure.              *)
DriverSurface(r) ==
  /\ tick = "sweep"
  /\ r \in timedOut
  /\ timedOut' = timedOut \ {r}
  /\ Leave(r, "error")
  /\ UNCHANGED <<connected, sender, tick, retry, encoding, uiDrop>>
  /\ UNCHANGED <<chanVars, applied, boundVars>>

DriverDrop(r) ==
  /\ tick = "sweep"
  /\ r \in timedOut
  /\ timedOut' = timedOut \ {r}
  /\ Leave(r, "swept")
  /\ UNCHANGED <<connected, sender, tick, retry, encoding, uiDrop>>
  /\ UNCHANGED <<chanVars, applied, boundVars>>

DriverScan ==
  /\ tick = "sweep"
  /\ timedOut = {}
  /\ tick'  = "retry"
  /\ retry' = [retry EXCEPT !["driver"] = PendingForCategoryARetry]
  /\ UNCHANGED <<connected, queue, sender, timedOut, encoding, uiDrop>>
  /\ UNCHANGED <<chanVars, applied, outcome, boundVars>>

DriverDone ==
  /\ tick = "retry"
  /\ retry["driver"] = {}
  /\ encoding["driver"] = NoRequest
  /\ tick' = "wait"
  /\ UNCHANGED <<connected, queue, sender, timedOut, retry, encoding, uiDrop>>
  /\ UNCHANGED <<chanVars, applied, outcome, boundVars>>

(* The loop body shared by driverTick and TriggerEpochRetry: mark, then    *)
(* encode, whatever has happened to the entry since the snapshot.          *)
RetryMark(t, r) ==
  /\ encoding[t] = NoRequest
  /\ r \in retry[t]
  /\ MarkSending(r)
  /\ retry'    = [retry EXCEPT ![t] = @ \ {r}]
  /\ encoding' = [encoding EXCEPT ![t] = r]
  /\ UNCHANGED <<connected, sender, tick, timedOut, uiDrop>>
  /\ UNCHANGED <<chanVars, applied, outcome, boundVars>>

RetryEncode(t) ==
  /\ encoding[t] \in Requests
  /\ Encode(encoding[t])
  /\ encoding' = [encoding EXCEPT ![t] = NoRequest]
  /\ UNCHANGED <<connected, queue, sender, tick, timedOut, retry, uiDrop>>
  /\ UNCHANGED <<applied, outcome, boundVars>>

-----------------------------------------------------------------------------
(* The readLoop takes one frame at a time, and is busy while it re-sends.  *)

ReaderFree ==
  /\ retry["reader"] = {}
  /\ encoding["reader"] = NoRequest

Receive(kind) ==
  /\ connected
  /\ ReaderFree
  /\ toClient # << >>
  /\ Head(toClient).kind = kind
  /\ toClient' = Tail(toClient)

(* dispatchCorrID acks any frame with a corr_id that is not an error.  The *)
(* TUI's second Ack of the same frame finds the entry gone.                *)
ReadAck ==
  /\ Receive("ack")
  /\ Ack(Head(toClient).req)
  /\ UNCHANGED <<connected, sender, tick, timedOut, retry, encoding, uiDrop>>
  /\ UNCHANGED <<linkUp, toServer, msgCh, applied, boundVars>>

(* Mutant: dispatchCorrID does not skip error frames.                      *)
ReadErrorAsAck ==
  /\ Receive("error")
  /\ Ack(Head(toClient).req)
  /\ msgCh' = Append(msgCh, Head(toClient))
  /\ UNCHANGED <<connected, sender, tick, timedOut, retry, encoding, uiDrop>>
  /\ UNCHANGED <<linkUp, toServer, applied, boundVars>>

(* upload_error and download_error go to Queue.Error here; "error" is      *)
(* skipped and forwarded, for the TUI to look the verb up first.           *)
ReadError ==
  /\ Receive("error")
  /\ LET f == Head(toClient) IN
       IF VerbOf[f.req] = "transfer"
       THEN Error(f.req, f.code) /\ UNCHANGED msgCh
       ELSE /\ msgCh' = Append(msgCh, f)
            /\ UNCHANGED <<queue, outcome>>
  /\ UNCHANGED <<connected, sender, tick, timedOut, retry, encoding, uiDrop>>
  /\ UNCHANGED <<linkUp, toServer, applied, boundVars>>

(* An epoch_key that verifies is adopted, and TriggerEpochRetry snapshots  *)
(* the room's pending category B entries.                                  *)
ReadEpochKey ==
  /\ Receive("epoch_key")
  /\ retry' = [retry EXCEPT !["reader"] =
                 PendingForCategoryBRoomRetry(Head(toClient).room)]
  /\ UNCHANGED <<connected, queue, sender, tick, timedOut, encoding, uiDrop>>
  /\ UNCHANGED <<linkUp, toServer, msgCh, applied, outcome, boundVars>>

(* A read error ends the readLoop, whose defer clears connected.           *)
ReadFails ==
  /\ connected
  /\ ~linkUp
  /\ ReaderFree
  /\ connected' = FALSE
  /\ UNCHANGED <<queue, sender, tick, timedOut, retry, encoding, uiDrop>>
  /\ UNCHANGED <<chanVars, applied, outcome, boundVars>>

-----------------------------------------------------------------------------
(* The TUI goroutine.  It runs RequestHistoryWithID itself, so it does     *)
(* nothing else between the steps of a history sender.                     *)

UiFree ==
  /\ uiDrop = NoRequest
  /\ \A r \in Requests :
        VerbOf[r] = "history" => sender[r] \notin {"queued", "marked"}

(* The "error" case: look the verb up (only an entry still queued has one),*)
(* then Queue.Error; a history entry is dropped right after.               *)
UiError ==
  /\ UiFree
  /\ msgCh # << >>
  /\ LET f == Head(msgCh) IN
       /\ Error(f.req, f.code)
       /\ uiDrop' = IF InQueue(f.req) /\ VerbOf[f.req] = "history"
                    THEN f.req ELSE NoRequest
  /\ msgCh' = Tail(msgCh)
  /\ UNCHANGED <<connected, sender, tick, timedOut, retry, encoding>>
  /\ UNCHANGED <<linkUp, toServer, toClient, applied, boundVars>>

UiDropHistory ==
  /\ uiDrop \in Requests
  /\ Drop(uiDrop)
  /\ uiDrop' = NoRequest
  /\ UNCHANGED <<connected, sender, tick, timedOut, retry, encoding>>
  /\ UNCHANGED <<chanVars, applied, boundVars>>

(* abandonActiveHistoryRequest, on every context switch.                   *)
UiAbandon(r) ==
  /\ UiFree
  /\ VerbOf[r] = "history"
  /\ InQueue(r)
  /\ Drop(r)
  /\ UNCHANGED <<connected, sender, tick, timedOut, retry, encoding, uiDrop>>
  /\ UNCHANGED <<chanVars, applied, boundVars>>

(* /offline: Client.Disconnect closes the connection and keeps the queue.  *)
(* The generation moves on, so events still in msgCh will be ignored.      *)
GoOffline ==
  /\ connected
  /\ UiFree
  /\ connected' = FALSE
  /\ linkUp'    = FALSE
  /\ toServer'  = << >>
  /\ toClient'  = << >>
  /\ msgCh'     = << >>
  /\ UNCHANGED <<queue, sender, tick, timedOut, retry, encoding, uiDrop>>
  /\ UNCHANGED <<applied, outcome, boundVars>>

(* The reconnect timer and /online both build a new Client, with a new     *)
(* Queue; events of the old one are dropped by their generation.           *)
Reconnect ==
  /\ ~connected
  /\ UiFree
  /\ sessions < MaxSessions
  /\ sessions'  = sessions + 1
  /\ connected' = TRUE
  /\ linkUp'    = TRUE
  /\ state'     = [r \in Requests |-> "absent"]
  /\ attempts'  = [r \in Requests |-> 0]
  /\ lastError' = [r \in Requests |-> "none"]
  /\ age'       = [r \in Requests |-> "fresh"]
  /\ outcome'   = [r \in Requests |-> IF InQueue(r) THEN "lost" ELSE outcome[r]]
  /\ sender'    = [r \in Requests |-> IF sender[r] = "idle" THEN "idle" ELSE "done"]
  /\ tick'      = "wait"
  /\ timedOut'  = {}
  /\ retry'     = [t \in Retriers |-> {}]
  /\ encoding'  = [t \in Retriers |-> NoRequest]
  /\ toServer'  = << >>
  /\ toClient'  = << >>
  /\ msgCh'     = << >>
  /\ UNCHANGED <<uiDrop, applied, pushes>>

-----------------------------------------------------------------------------
(* The environment: time, the link and the server.                         *)

Elapse(r) ==
  /\ state[r] \in {"pending", "sending"}
  /\ attempts[r] > 0
  /\ \/ age[r] = "fresh" /\ age' = [age EXCEPT ![r] = "due"]
     \/ age[r] = "due"   /\ age' = [age EXCEPT ![r] = "stale"]
  /\ UNCHANGED <<state, attempts, lastError>>
  /\ UNCHANGED <<connected, sender, tick, timedOut, retry, encoding, uiDrop>>
  /\ UNCHANGED <<chanVars, applied, outcome, boundVars>>

LinkBreak ==
  /\ linkUp
  /\ sessions < MaxSessions
  /\ linkUp'   = FALSE
  /\ toServer' = << >>
  /\ toClient' = << >>
  /\ UNCHANGED <<clientVars, msgCh, applied, outcome, boundVars>>

ServerAccept ==
  /\ toServer # << >>
  /\ toServer' = Tail(toServer)
  /\ toClient' = Append(toClient, AckFrame(Head(toServer)))
  /\ applied'  = [applied EXCEPT ![Head(toServer)] = @ + 1]
  /\ UNCHANGED <<clientVars, linkUp, msgCh, outcome, boundVars>>

(* A state-fix rejection of a room request is followed by the push.        *)
ServerReject(code) ==
  /\ toServer # << >>
  /\ toServer' = Tail(toServer)
  /\ LET r == Head(toServer)
         e == Append(toClient, ErrorFrame(r, code))
     IN toClient' = IF code = "B" /\ RoomOf[r] # NoRoom
                    THEN Append(e, KeyFrame(RoomOf[r])) ELSE e
  /\ UNCHANGED <<clientVars, linkUp, msgCh, applied, outcome, boundVars>>

ServerPushKey(room) ==
  /\ linkUp
  /\ pushes < MaxPushes
  /\ pushes'   = pushes + 1
  /\ toClient' = Append(toClient, KeyFrame(room))
  /\ UNCHANGED <<clientVars, linkUp, toServer, msgCh, applied, outcome, sessions>>

-----------------------------------------------------------------------------
Sender == \E r \in Requests : SenderEnqueue(r) \/ SenderMark(r) \/ SenderEncode(r)

Driver == \/ DriverSweep \/ DriverScan \/ DriverDone
          \/ \E r \in Requests : DriverDrop(r) \/ RetryMark("driver", r)
          \/ RetryEncode("driver")

Reader == \/ ReadAck \/ ReadError \/ ReadEpochKey \/ ReadFails
          \/ \E r \in Requests : RetryMark("reader", r)
          \/ RetryEncode("reader")

Ui == \/ UiError \/ UiDropHistory \/ GoOffline \/ Reconnect
      \/ \E r \in Requests : UiAbandon(r)

Environment == \/ \E r \in Requests : Elapse(r)
               \/ LinkBreak \/ ServerAccept
               \/ \E code \in ServerCodes : ServerReject(code)
               \/ \E room \in Rooms : ServerPushKey(room)

Next == Sender \/ Driver \/ Reader \/ Ui \/ Environment

Spec == Init /\ [][Next]_vars

(* Goroutines keep running and clocks keep moving; the user, the link and  *)
(* the server owe nothing.                                                 *)
Fairness ==
  /\ \A r \in Requests : /\ WF_vars(SenderMark(r))
                         /\ WF_vars(SenderEncode(r))
                         /\ WF_vars(Elapse(r))
  /\ WF_vars(Driver)
  /\ WF_vars(Reader)
  /\ WF_vars(UiError)
  /\ WF_vars(UiDropHistory)

FairSpec == Spec /\ Fairness

-----------------------------------------------------------------------------
(* Where a request is on its way to the server and back.  A request has at *)
(* most one holder: this is why a retry can never duplicate a message.     *)

Holders == {"sender", "driver", "reader", "wire", "reply", "ui"}

Retrying(t, r) == r \in retry[t] \/ encoding[t] = r

Holds(h, r) ==
  CASE h = "sender" -> sender[r] \in {"queued", "marked"}
    [] h = "driver" -> Retrying("driver", r)
    [] h = "reader" -> Retrying("reader", r)
    [] h = "wire"   -> \E i \in DOMAIN toServer : toServer[i] = r
    [] h = "reply"  -> \E i \in DOMAIN toClient : toClient[i].req = r
    [] h = "ui"     -> \E i \in DOMAIN msgCh : msgCh[i].req = r

(* Every variable holds a value of its kind.                               *)
TypeOK ==
  /\ connected \in BOOLEAN
  /\ state \in [Requests -> States]
  /\ attempts \in [Requests -> Nat]
  /\ lastError \in [Requests -> Categories \cup {"none"}]
  /\ age \in [Requests -> Ages]
  /\ sender \in [Requests -> {"idle", "queued", "marked", "done"}]
  /\ tick \in {"wait", "sweep", "retry"}
  /\ timedOut \in SUBSET Requests
  /\ retry \in [Retriers -> SUBSET Requests]
  /\ encoding \in [Retriers -> Requests \cup {NoRequest}]
  /\ uiDrop \in Requests \cup {NoRequest}
  /\ linkUp \in BOOLEAN
  /\ toServer \in Seq(Requests)
  /\ toClient \in Seq(Frame)
  /\ msgCh \in Seq(Frame)
  /\ applied \in [Requests -> Nat]
  /\ outcome \in [Requests -> Outcomes]
  /\ sessions \in Nat
  /\ pushes \in Nat

(* A request is in one place at a time and once there: the senders, the    *)
(* two re-senders, the wire, the replies and the TUI's backlog exclude one *)
(* another, whatever the timing (sendqueue_driver.go:102-146).             *)
OneOutstanding ==
  /\ \A r \in Requests : \A g, h \in Holders : Holds(g, r) /\ Holds(h, r) => g = h
  /\ \A i, j \in DOMAIN toServer : toServer[i] = toServer[j] => i = j
  /\ \A i, j \in DOMAIN toClient :
        toClient[i].req = toClient[j].req /\ toClient[i].req # NoRequest => i = j
  /\ \A i, j \in DOMAIN msgCh : msgCh[i].req = msgCh[j].req => i = j

(* The retry machinery never makes the server accept a request twice:      *)
(* re-sending follows a rejection, and a time-out never re-sends.          *)
AppliedAtMostOnce == \A r \in Requests : applied[r] <= 1

(* A request reported as failed (OnError) was not accepted and never will  *)
(* be: no copy of it is left anywhere when the failure is surfaced.        *)
SurfacedNeverApplied ==
  \A r \in Requests : outcome[r] = "error" => applied[r] = 0

(* OnAcked fires only for a request the server accepted, exactly once.     *)
AckedWasApplied ==
  \A r \in Requests : outcome[r] = "acked" => applied[r] = 1

(* An entry is sent at most maxBudget times, whichever of the two          *)
(* re-senders picks it up, and one that waits for a retry has budget left. *)
BudgetRespected ==
  \A r \in Requests :
    /\ attempts[r] <= MaxBudget
    /\ state[r] = "pending" => attempts[r] < MaxBudget

(* MarkSending puts an entry back on the wire only from pending, after a   *)
(* retriable rejection: never one that is awaiting its ack, and never one  *)
(* that timed out, since "assume-success is safer" (sendqueue_driver.go:   *)
(* 14-19,109-112).  Other comments want a time-out retried or told; that   *)
(* is TimedOutIsRetriedOrTold, below.                                      *)
ResendOnlyRejected ==
  [][\A r \in Requests :
       attempts[r] > 0 /\ attempts'[r] > attempts[r]
         => state[r] = "pending" /\ lastError[r] \in Retriable]_vars

(* Every queued request eventually leaves the queue while the connection   *)
(* lasts, even if the server never answers: acked, surfaced or swept.  It  *)
(* holds when the server gives no state-fix (category B) error.            *)
EventuallyResolved ==
  \A r \in Requests : InQueue(r) ~> (~InQueue(r) \/ ~connected)

(* What the queue promises its callers.                                    *)
StatusOf(r) ==
  CASE outcome[r] = "acked" -> "acked"
    [] outcome[r] = "error" -> "failed"
    [] outcome[r] \in {"swept", "dropped", "lost"} -> "closed"
    [] outcome[r] = "none"  -> IF sender[r] = "idle" THEN "new" ELSE "open"

Status == [r \in Requests |-> StatusOf(r)]

Promise == INSTANCE AtMostOnce WITH status <- Status

DeliversAtMostOnce == Promise!Spec

-----------------------------------------------------------------------------
(* What comments in the code say of the queue and the code does not do.    *)

(* sendqueue.go:19: "timeout -- no ack arrived within ackTimeout; retry or *)
(* surface", and 73-75: "Category A timeouts route through the retry path; *)
(* other categories surface."  So no entry is closed by a time-out alone.  *)
(* The driver does neither: what it sweeps it drops, and no callback runs  *)
(* (sendqueue_driver.go:109-112), whether the server has accepted the      *)
(* request, has refused it or never got it.                                *)
TimedOutIsRetriedOrTold == \A r \in Requests : outcome[r] # "swept"

(* sendqueue_driver.go:104-105: "Entries simply wait for the next          *)
(* connect."  The next connect builds another Client and another Queue.    *)
EntriesWaitForNextConnect ==
  [][sessions' > sessions =>
       \A r \in Requests : state[r] = "pending" /\ lastError[r] = "A"
                              => state'[r] = "pending"]_vars

(* protocol/categories.go:14-16: for category B "Client applies pushed     *)
(* state and resends."  It does only if the TUI handles the error before   *)
(* the readLoop handles the epoch_key that follows it on the wire.         *)
RoomStateFixResent ==
  \A r \in Requests :
    state[r] = "pending" /\ lastError[r] = "B" /\ RoomOf[r] # NoRoom
      ~> (state[r] # "pending" \/ ~connected)

=============================================================================
