-------------------------- MODULE SendQueueProofs --------------------------
(***************************************************************************)
(* Proofs about SendQueue, for any set of requests, rooms and verbs and    *)
(* any budget.  The safety invariants of the module are not inductive: the *)
(* next step of a request depends on where its one copy is.  IInv says     *)
(* where, and what the entry, the counter of acceptances and the outcome   *)
(* can be meanwhile.                                                       *)
(***************************************************************************)
EXTENDS SendQueue, SequenceTheorems, TLAPS

-----------------------------------------------------------------------------
(* Sequences used as channels.                                             *)

(* What is in a channel after a frame is appended.                         *)
LEMMA AppendChannel ==
  ASSUME NEW S, NEW s \in Seq(S), NEW x \in S
  PROVE  /\ Append(s, x) \in Seq(S)
         /\ Len(Append(s, x)) = Len(s) + 1
         /\ DOMAIN Append(s, x) = 1 .. (Len(s) + 1)
         /\ \A i \in 1 .. Len(s) : Append(s, x)[i] = s[i]
         /\ Append(s, x)[Len(s) + 1] = x
  OBVIOUS

(* The empty channel.                                                      *)
LEMMA EmptyChannel == ASSUME NEW S PROVE << >> \in Seq(S)
  OBVIOUS

(* What is in a channel after its first frame is taken.                    *)
LEMMA TailChannel ==
  ASSUME NEW S, NEW s \in Seq(S), s # << >>
  PROVE  /\ Head(s) \in S
         /\ Head(s) = s[1]
         /\ Len(s) \in Nat \ {0}
         /\ Tail(s) \in Seq(S)
         /\ DOMAIN Tail(s) = 1 .. (Len(s) - 1)
         /\ \A i \in 1 .. (Len(s) - 1) : Tail(s)[i] = s[i + 1]
  OBVIOUS

-----------------------------------------------------------------------------
(* The inductive invariant.                                                *)

Sending(r)  == sender[r] \in {"queued", "marked"}
OnWire(r)   == \E i \in DOMAIN toServer : toServer[i] = r
Replied(r)  == \E i \in DOMAIN toClient : toClient[i].req = r   \* RepliedIn(toClient, r)
AtUi(r)     == \E i \in DOMAIN msgCh : msgCh[i].req = r
InFlight(r) == OnWire(r) \/ Replied(r) \/ AtUi(r)

(* The entry waits for a re-sender.                                        *)
Waiting(r) == state[r] = "pending" /\ lastError[r] # "none"

Exclusive(r) ==
  /\ Sending(r) => ~InFlight(r) /\ ~Retrying("driver", r) /\ ~Retrying("reader", r)
  /\ Retrying("driver", r) => ~InFlight(r) /\ ~Retrying("reader", r)
  /\ Retrying("reader", r) => ~InFlight(r)
  /\ OnWire(r) => ~Replied(r) /\ ~AtUi(r)
  /\ Replied(r) => ~AtUi(r)

EntryInv(r) ==
  /\ ~InQueue(r) => lastError[r] = "none" /\ attempts[r] = 0
  /\ attempts[r] <= MaxBudget
  /\ state[r] = "pending" => attempts[r] < MaxBudget
  /\ state[r] = "pending" /\ lastError[r] = "none" => sender[r] = "queued"
  /\ sender[r] = "queued" /\ InQueue(r) =>
       state[r] = "pending" /\ lastError[r] = "none" /\ attempts[r] = 0
  /\ Waiting(r) =>
       /\ ~Sending(r) /\ ~InFlight(r)
       /\ \A t \in Retriers : encoding[t] # r
       /\ lastError[r] \in Retriable
  /\ encoding["driver"] = r => r \notin retry["driver"]
  /\ encoding["reader"] = r => r \notin retry["reader"]
  /\ r \in retry["driver"] /\ InQueue(r) => Waiting(r) /\ lastError[r] = "A"
  /\ r \in retry["reader"] /\ InQueue(r) => Waiting(r) /\ lastError[r] = "B"
  /\ InQueue(r) => outcome[r] = "none" /\ sender[r] # "idle"
  /\ sender[r] = "idle" =>
       /\ applied[r] = 0 /\ outcome[r] = "none" /\ ~InFlight(r)
       /\ ~Retrying("driver", r) /\ ~Retrying("reader", r)

AnswerInv(r) ==
  /\ applied[r] <= 1
  /\ applied[r] = 1 =>
       /\ ~Sending(r) /\ ~Waiting(r) /\ ~OnWire(r) /\ ~AtUi(r)
       /\ ~Retrying("driver", r) /\ ~Retrying("reader", r)
  /\ outcome[r] = "acked" => applied[r] = 1
  /\ outcome[r] = "error" =>
       /\ applied[r] = 0 /\ ~Sending(r) /\ ~InFlight(r)
       /\ ~Retrying("driver", r) /\ ~Retrying("reader", r)

WireInv  == \A i, j \in DOMAIN toServer : toServer[i] = toServer[j] => i = j

RepliedIn(s, r) == \E i \in DOMAIN s : s[i].req = r

RepliesOK(s, acc) ==
  /\ \A i, j \in DOMAIN s : s[i].req = s[j].req /\ s[i].req # NoRequest => i = j
  /\ \A i \in DOMAIN s :
        /\ s[i].kind = "ack" => s[i].req \in Requests /\ acc[s[i].req] = 1
        /\ s[i].kind = "error" =>
             s[i].req \in Requests /\ acc[s[i].req] = 0 /\ s[i].code \in Categories
        /\ s[i].kind = "epoch_key" => s[i].req = NoRequest

ReplyInv == RepliesOK(toClient, applied)

BacklogInv ==
  /\ \A i, j \in DOMAIN msgCh : msgCh[i].req = msgCh[j].req => i = j
  /\ \A i \in DOMAIN msgCh : msgCh[i].req \in Requests /\ msgCh[i].code \in Categories

DriverInv ==
  tick # "retry" => retry["driver"] = {} /\ encoding["driver"] = NoRequest

RequestInv(r) == Exclusive(r) /\ EntryInv(r) /\ AnswerInv(r)

IInv ==
  /\ TypeOK
  /\ DriverInv
  /\ WireInv
  /\ ReplyInv
  /\ BacklogInv
  /\ \A r \in Requests : RequestInv(r)

-----------------------------------------------------------------------------
(* Type correctness.                                                       *)

(* The initial state is well typed.                                        *)
LEMMA TypeInit == ASSUME Init PROVE TypeOK
  BY SendQueueAssumption
  DEF Init, TypeOK, States, Ages, Categories, Outcomes, Retriers

QueueTypeOK ==
  /\ state \in [Requests -> States]
  /\ attempts \in [Requests -> Nat]
  /\ lastError \in [Requests -> Categories \cup {"none"}]
  /\ age \in [Requests -> Ages]

(* The three operations of Queue that change an entry keep its type.       *)
LEMMA MarkType ==
  ASSUME NEW r \in Requests, QueueTypeOK, MarkSending(r)
  PROVE  QueueTypeOK'
<1> USE DEF QueueTypeOK, States, Ages
<1>1. CASE InQueue(r)
  <2>1. attempts[r] + 1 \in Nat
    OBVIOUS
  <2>2. attempts' = [attempts EXCEPT ![r] = attempts[r] + 1]
    BY <1>1 DEF MarkSending
  <2>3. attempts' \in [Requests -> Nat]
    BY <2>1, <2>2, Zenon
  <2>. QED BY <1>1, <2>3 DEF MarkSending
<1>2. CASE ~InQueue(r)
  BY <1>2 DEF MarkSending, queue
<1>. QED BY <1>1, <1>2

(* See MarkType.                                                           *)
LEMMA LeaveType ==
  ASSUME NEW r, NEW how \in Outcomes,
         QueueTypeOK, outcome \in [Requests -> Outcomes], Leave(r, how)
  PROVE  QueueTypeOK' /\ outcome' \in [Requests -> Outcomes]
  BY DEF QueueTypeOK, Leave, States, Ages, Outcomes

(* See MarkType.                                                           *)
LEMMA ErrorType ==
  ASSUME NEW r, NEW code,
         QueueTypeOK, outcome \in [Requests -> Outcomes], Error(r, code)
  PROVE  QueueTypeOK' /\ outcome' \in [Requests -> Outcomes]
<1>1. CASE InQueue(r) /\ code \in Retriable /\ attempts[r] < MaxBudget
  BY <1>1 DEF Error, QueueTypeOK, States, Retriable, Categories
<1>2. CASE ~(InQueue(r) /\ code \in Retriable /\ attempts[r] < MaxBudget)
  <2>1. Leave(r, "error")
    BY <1>2 DEF Error
  <2>. QED BY <2>1, LeaveType DEF Outcomes
<1>. QED BY <1>1, <1>2

(* Every step keeps every variable in its type.                            *)
LEMMA TypeStep == ASSUME TypeOK, [Next]_vars PROVE TypeOK'
<1> USE SendQueueAssumption
    DEF TypeOK, States, Ages, Categories, Outcomes, Retriers, Frame
<1> USE DEF queue, clientVars, chanVars, boundVars
<1>q. QueueTypeOK
  BY DEF QueueTypeOK
<1>1. ASSUME NEW r \in Requests, SenderEnqueue(r) PROVE TypeOK'
  BY <1>1 DEF SenderEnqueue, EnqueueWithID
<1>2. ASSUME NEW r \in Requests, SenderMark(r) PROVE TypeOK'
  <2>1. QueueTypeOK'
    BY <1>2, <1>q, MarkType DEF SenderMark
  <2>. QED BY <1>2, <2>1 DEF SenderMark, QueueTypeOK
<1>3. ASSUME NEW r \in Requests, SenderEncode(r) PROVE TypeOK'
  <2>1. QueueTypeOK' /\ outcome' \in [Requests -> Outcomes]
    BY <1>3, <1>q, LeaveType, ZenonT(40) DEF SenderEncode, Drop, QueueTypeOK
  <2>2. toServer' \in Seq(Requests)
    BY <1>3, AppendChannel DEF SenderEncode, Encode
  <2>. QED BY <1>3, <2>1, <2>2 DEF SenderEncode, Encode, QueueTypeOK
<1>4. ASSUME DriverSweep PROVE TypeOK'
  BY <1>4 DEF DriverSweep, Sweepable
<1>5. ASSUME NEW r \in Requests, DriverDrop(r) PROVE TypeOK'
  BY <1>5 DEF DriverDrop, Leave
<1>6. ASSUME DriverScan PROVE TypeOK'
  BY <1>6 DEF DriverScan, PendingForCategoryARetry
<1>7. ASSUME DriverDone PROVE TypeOK'
  BY <1>7 DEF DriverDone
<1>8. ASSUME NEW t \in Retriers, NEW r \in Requests, RetryMark(t, r) PROVE TypeOK'
  <2>1. QueueTypeOK'
    BY <1>8, <1>q, MarkType DEF RetryMark
  <2>. QED BY <1>8, <2>1 DEF RetryMark, QueueTypeOK
<1>9. ASSUME NEW t \in Retriers, RetryEncode(t) PROVE TypeOK'
  BY <1>9, SMTT(30) DEF RetryEncode, Encode
<1>10. ASSUME ReadAck PROVE TypeOK'
  BY <1>10, TailChannel DEF ReadAck, Receive, Ack, Leave
<1>11. ASSUME ReadError PROVE TypeOK'
  <2> DEFINE f == Head(toClient)
  <2>1. f \in Frame /\ toClient' \in Seq(Frame)
    BY <1>11, TailChannel DEF ReadError, Receive
  <2>2. CASE VerbOf[f.req] = "transfer"
    <3>1. Error(f.req, f.code) /\ UNCHANGED msgCh
      BY <1>11, <2>2 DEF ReadError
    <3>2. QueueTypeOK' /\ outcome' \in [Requests -> Outcomes]
      BY <1>q, <3>1, ErrorType
    <3>. QED BY <1>11, <2>1, <3>1, <3>2 DEF ReadError, QueueTypeOK
  <2>3. CASE VerbOf[f.req] # "transfer"
    <3>1. msgCh' = Append(msgCh, f) /\ UNCHANGED <<queue, outcome>>
      BY <1>11, <2>3 DEF ReadError
    <3>2. msgCh' \in Seq(Frame)
      BY <2>1, <3>1, AppendChannel
    <3>. QED BY <1>11, <2>1, <3>1, <3>2 DEF ReadError
  <2>. QED BY <2>2, <2>3
<1>12. ASSUME ReadEpochKey PROVE TypeOK'
  BY <1>12, TailChannel DEF ReadEpochKey, Receive, PendingForCategoryBRoomRetry
<1>13. ASSUME ReadFails PROVE TypeOK'
  BY <1>13 DEF ReadFails
<1>14. ASSUME UiError PROVE TypeOK'
  <2> DEFINE f == Head(msgCh)
  <2>1. f \in Frame /\ msgCh' \in Seq(Frame)
    BY <1>14, TailChannel DEF UiError
  <2>2. QueueTypeOK' /\ outcome' \in [Requests -> Outcomes]
    BY <1>14, <1>q, ErrorType DEF UiError
  <2>3. uiDrop' \in Requests \cup {NoRequest}
    BY <1>14, <2>1 DEF UiError
  <2>. QED BY <1>14, <2>1, <2>2, <2>3 DEF UiError, QueueTypeOK
<1>15. ASSUME UiDropHistory PROVE TypeOK'
  BY <1>15 DEF UiDropHistory, Drop, Leave
<1>16. ASSUME NEW r \in Requests, UiAbandon(r) PROVE TypeOK'
  BY <1>16 DEF UiAbandon, Drop, Leave
<1>17. ASSUME GoOffline PROVE TypeOK'
  BY <1>17, EmptyChannel DEF GoOffline
<1>18. ASSUME Reconnect PROVE TypeOK'
  BY <1>18, EmptyChannel DEF Reconnect
<1>19. ASSUME NEW r \in Requests, Elapse(r) PROVE TypeOK'
  <2>1. \E new \in Ages : age' = [age EXCEPT ![r] = new]
    BY <1>19 DEF Elapse
  <2>2. age' \in [Requests -> Ages]
    BY <2>1, Zenon
  <2>. QED BY <1>19, <2>2 DEF Elapse
<1>20. ASSUME LinkBreak PROVE TypeOK'
  BY <1>20, EmptyChannel DEF LinkBreak
<1>21. ASSUME ServerAccept PROVE TypeOK'
  <2> DEFINE h == Head(toServer)
  <2>1. h \in Requests /\ toServer' \in Seq(Requests)
    BY <1>21, TailChannel DEF ServerAccept
  <2>2. toClient' \in Seq(Frame)
    BY <1>21, <2>1, AppendChannel DEF ServerAccept, AckFrame
  <2>3. applied' = [applied EXCEPT ![h] = applied[h] + 1]
    BY <1>21 DEF ServerAccept
  <2>4. applied[h] + 1 \in Nat
    BY <2>1, SMTT(30)
  <2>5. applied' \in [Requests -> Nat]
    BY <2>3, <2>4, Zenon
  <2>. QED BY <1>21, <2>1, <2>2, <2>5 DEF ServerAccept
<1>22. ASSUME NEW code \in ServerCodes, ServerReject(code) PROVE TypeOK'
  <2>1. Head(toServer) \in Requests /\ toServer' \in Seq(Requests)
    BY <1>22, TailChannel DEF ServerReject
  <2>2. Append(toClient, ErrorFrame(Head(toServer), code)) \in Seq(Frame)
    BY <2>1, AppendChannel DEF ErrorFrame
  <2>3. ASSUME NEW room \in Rooms PROVE KeyFrame(room) \in Frame
    BY DEF KeyFrame
  <2>4. toClient' \in Seq(Frame)
    <3> DEFINE e == Append(toClient, ErrorFrame(Head(toServer), code))
    <3>1. CASE code = "B" /\ RoomOf[Head(toServer)] # NoRoom
      <4>1. toClient' = Append(e, KeyFrame(RoomOf[Head(toServer)]))
        BY <1>22, <3>1 DEF ServerReject
      <4>2. KeyFrame(RoomOf[Head(toServer)]) \in Frame
        <5>1. RoomOf[Head(toServer)] \in Rooms
          BY <2>1, <3>1
        <5>. QED BY <5>1, <2>3
      <4>3. e \in Seq(Frame)
        BY <2>2
      <4> HIDE DEF e
      <4>. QED BY <4>1, <4>2, <4>3, AppendChannel
    <3>2. CASE ~(code = "B" /\ RoomOf[Head(toServer)] # NoRoom)
      BY <1>22, <2>2, <3>2 DEF ServerReject
    <3>. QED BY <3>1, <3>2
  <2>. QED BY <1>22, <2>1, <2>4 DEF ServerReject
<1>23. ASSUME NEW room \in Rooms, ServerPushKey(room) PROVE TypeOK'
  <2>1. toClient' \in Seq(Frame)
    BY <1>23, AppendChannel DEF ServerPushKey, KeyFrame
  <2>. QED BY <1>23, <2>1, SMTT(30) DEF ServerPushKey
<1>24. CASE UNCHANGED vars
  BY <1>24 DEF vars
<1>. QED
  BY <1>1, <1>2, <1>3, <1>4, <1>5, <1>6, <1>7, <1>8, <1>9, <1>10, <1>11, <1>12,
     <1>13, <1>14, <1>15, <1>16, <1>17, <1>18, <1>19, <1>20, <1>21, <1>22, <1>23, <1>24
  DEF Next, Sender, Driver, Reader, Ui, Environment

(* Every variable of the send queue keeps its type, for any requests.      *)
THEOREM Typing == Spec => []TypeOK
  BY TypeInit, TypeStep, PTL DEF Spec

-----------------------------------------------------------------------------
(* What the three channels hold before and after a step.                   *)

(* h names the frame taken: a primed Head(toServer) would be another one.  *)
LEMMA WireTake ==
  ASSUME NEW h, TypeOK, WireInv,
         toServer # << >>, h = Head(toServer), toServer' = Tail(toServer)
  PROVE  /\ h \in Requests /\ OnWire(h) /\ ~OnWire(h)'
         /\ \A x \in Requests : OnWire(x)' => OnWire(x)
         /\ WireInv'
<1>1. toServer \in Seq(Requests)
  BY DEF TypeOK
<1>2. /\ h = toServer[1]
      /\ 1 \in DOMAIN toServer
      /\ DOMAIN toServer' = 1 .. (Len(toServer) - 1)
      /\ \A i \in DOMAIN toServer' :
           toServer'[i] = toServer[i + 1] /\ i + 1 \in DOMAIN toServer /\ i + 1 # 1
      /\ h \in Requests
  BY <1>1, TailChannel
<1>3. WireInv'
  BY <1>2 DEF WireInv
<1>. QED BY <1>2, <1>3 DEF OnWire, WireInv

(* The wire after a frame for r, which was not on it, is sent.             *)
LEMMA WirePut ==
  ASSUME NEW r \in Requests, TypeOK, WireInv, ~OnWire(r),
         toServer' = Append(toServer, r)
  PROVE  /\ \A x \in Requests : OnWire(x)' <=> OnWire(x) \/ x = r
         /\ WireInv'
<1>1. toServer \in Seq(Requests)
  BY DEF TypeOK
<1>. QED BY <1>1, AppendChannel DEF OnWire, WireInv

(* The replies after the readLoop has taken the frame f.                   *)
LEMMA ReplyTake ==
  ASSUME NEW f, TypeOK, ReplyInv, applied' = applied,
         toClient # << >>, f = Head(toClient), toClient' = Tail(toClient)
  PROVE  /\ \A x \in Requests : Replied(x)' => Replied(x)
         /\ ReplyInv'
         /\ f \in Frame
         /\ f.kind = "epoch_key" => f.req = NoRequest
         /\ f.kind = "ack" => f.req \in Requests /\ applied[f.req] = 1
         /\ f.kind = "error" =>
              f.req \in Requests /\ applied[f.req] = 0 /\ f.code \in Categories
         /\ f.req \in Requests => Replied(f.req) /\ ~Replied(f.req)'
<1>1. toClient \in Seq(Frame)
  BY DEF TypeOK
<1>2. /\ f = toClient[1]
      /\ 1 \in DOMAIN toClient
      /\ DOMAIN toClient' = 1 .. (Len(toClient) - 1)
      /\ \A i \in DOMAIN toClient' :
           toClient'[i] = toClient[i + 1] /\ i + 1 \in DOMAIN toClient /\ i + 1 # 1
      /\ f \in Frame
  BY <1>1, TailChannel
<1>3. ReplyInv'
  BY <1>2 DEF ReplyInv, RepliesOK
<1>4. \A x \in Requests : Replied(x)' => Replied(x)
  BY <1>2 DEF Replied
<1>5. ASSUME f.req \in Requests PROVE Replied(f.req) /\ ~Replied(f.req)'
  <2>1. f.req # NoRequest
    BY <1>5, SendQueueAssumption
  <2>. QED BY <1>2, <2>1 DEF Replied, ReplyInv, RepliesOK
<1>. QED BY <1>2, <1>3, <1>4, <1>5 DEF ReplyInv, RepliesOK

(* A frame f follows the replies s: one for a request without an answer    *)
(* on its way, or an epoch_key.  acc2 counts the acceptance it reports.    *)
LEMMA ReplyPut ==
  ASSUME NEW s \in Seq(Frame), NEW acc, NEW acc2, NEW f \in Frame,
         RepliesOK(s, acc),
         \A x \in Requests : RepliedIn(s, x) => acc2[x] = acc[x],
         f.kind = "epoch_key" => f.req = NoRequest,
         f.kind # "epoch_key" => f.req \in Requests /\ ~RepliedIn(s, f.req),
         f.kind = "ack" => acc2[f.req] = 1,
         f.kind = "error" => acc2[f.req] = 0 /\ f.code \in Categories
  PROVE  /\ \A x \in Requests : RepliedIn(Append(s, f), x) <=> RepliedIn(s, x) \/ x = f.req
         /\ RepliesOK(Append(s, f), acc2)
<1> DEFINE s2 == Append(s, f)
<1>1. /\ DOMAIN s2 = 1 .. (Len(s) + 1)
      /\ DOMAIN s = 1 .. Len(s)
      /\ Len(s) \in Nat
      /\ \A i \in DOMAIN s : s2[i] = s[i]
      /\ s2[Len(s) + 1] = f
  BY AppendChannel
<1> HIDE DEF s2
<1>2. \A x \in Requests : RepliedIn(s2, x) <=> RepliedIn(s, x) \/ x = f.req
  <2>1. Len(s) + 1 \in DOMAIN s2 /\ \A i \in DOMAIN s : i \in DOMAIN s2
    BY <1>1
  <2>2. \A i \in DOMAIN s2 : i \in DOMAIN s \/ i = Len(s) + 1
    BY <1>1
  <2>3. ASSUME NEW x PROVE RepliedIn(s2, x) <=> RepliedIn(s, x) \/ x = f.req
    BY <1>1, <2>1, <2>2, Zenon DEF RepliedIn
  <2>. QED BY <2>3
<1>3. \A i, j \in DOMAIN s2 : s2[i].req = s2[j].req /\ s2[i].req # NoRequest => i = j
  BY <1>1, SendQueueAssumption DEF RepliesOK, RepliedIn, Frame
<1>4. \A i \in DOMAIN s : s[i].req \in Requests => acc2[s[i].req] = acc[s[i].req]
  BY DEF RepliedIn
<1>5. \A i \in DOMAIN s2 :
        /\ s2[i].kind = "ack" => s2[i].req \in Requests /\ acc2[s2[i].req] = 1
        /\ s2[i].kind = "error" =>
             s2[i].req \in Requests /\ acc2[s2[i].req] = 0 /\ s2[i].code \in Categories
        /\ s2[i].kind = "epoch_key" => s2[i].req = NoRequest
  BY <1>1, <1>4 DEF RepliesOK, Frame
<1>. QED BY <1>2, <1>3, <1>5 DEF s2, RepliesOK

(* The TUI takes an error frame; the readLoop forwards one.                *)
LEMMA BacklogTake ==
  ASSUME NEW f, TypeOK, BacklogInv,
         msgCh # << >>, f = Head(msgCh), msgCh' = Tail(msgCh)
  PROVE  /\ f.req \in Requests /\ AtUi(f.req) /\ ~AtUi(f.req)'
         /\ \A x \in Requests : AtUi(x)' => AtUi(x)
         /\ BacklogInv'
<1>1. msgCh \in Seq(Frame)
  BY DEF TypeOK
<1>2. /\ f = msgCh[1]
      /\ 1 \in DOMAIN msgCh
      /\ DOMAIN msgCh' = 1 .. (Len(msgCh) - 1)
      /\ \A i \in DOMAIN msgCh' :
           msgCh'[i] = msgCh[i + 1] /\ i + 1 \in DOMAIN msgCh /\ i + 1 # 1
  BY <1>1, TailChannel
<1>3. BacklogInv'
  BY <1>2 DEF BacklogInv
<1>. QED BY <1>2, <1>3 DEF AtUi, BacklogInv

(* The TUI backlog after the readLoop has forwarded the error frame f.     *)
LEMMA BacklogPut ==
  ASSUME NEW f \in Frame, TypeOK, BacklogInv,
         f.req \in Requests, f.code \in Categories, ~AtUi(f.req),
         msgCh' = Append(msgCh, f)
  PROVE  /\ \A x \in Requests : AtUi(x)' <=> AtUi(x) \/ x = f.req
         /\ BacklogInv'
<1>1. msgCh \in Seq(Frame)
  BY DEF TypeOK
<1>2. /\ DOMAIN msgCh' = 1 .. (Len(msgCh) + 1)
      /\ DOMAIN msgCh = 1 .. Len(msgCh)
      /\ Len(msgCh) \in Nat
      /\ \A i \in DOMAIN msgCh : msgCh'[i] = msgCh[i]
      /\ msgCh'[Len(msgCh) + 1] = f
  BY <1>1, AppendChannel
<1>. QED BY <1>2 DEF AtUi, BacklogInv

(* Channels a step leaves alone, or empties.                               *)
LEMMA WireSame ==
  ASSUME WireInv, toServer' = toServer \/ toServer' = << >>
  PROVE  WireInv' /\ \A x \in Requests : OnWire(x)' => OnWire(x)
  BY DEF WireInv, OnWire

(* Replies a step leaves alone, or loses.                                  *)
LEMMA ReplySame ==
  ASSUME ReplyInv, applied' = applied, toClient' = toClient \/ toClient' = << >>
  PROVE  ReplyInv' /\ \A x \in Requests : Replied(x)' => Replied(x)
  BY DEF ReplyInv, RepliesOK, Replied

(* A backlog a step leaves alone, or empties.                              *)
LEMMA BacklogSame ==
  ASSUME BacklogInv, msgCh' = msgCh \/ msgCh' = << >>
  PROVE  BacklogInv' /\ \A x \in Requests : AtUi(x)' => AtUi(x)
  BY DEF BacklogInv, AtUi

(* A request a step does not touch, though some of its copies may be lost. *)
Fewer(x) ==
  (OnWire(x)' => OnWire(x)) /\ (Replied(x)' => Replied(x)) /\ (AtUi(x)' => AtUi(x))

Kept(x) ==
  /\ state'[x] = state[x] /\ attempts'[x] = attempts[x] /\ lastError'[x] = lastError[x]
  /\ sender'[x] = sender[x] /\ applied'[x] = applied[x] /\ outcome'[x] = outcome[x]
  /\ x \in retry'["driver"] => x \in retry["driver"]
  /\ x \in retry'["reader"] => x \in retry["reader"]
  /\ encoding'["driver"] = x => encoding["driver"] = x
  /\ encoding'["reader"] = x => encoding["reader"] = x
  /\ \A t \in Retriers : encoding'[t] = x => encoding[t] = x

(* A request a step does not touch keeps its invariant.                    *)
LEMMA Untouched ==
  ASSUME NEW x \in Requests, RequestInv(x), Kept(x), Fewer(x)
  PROVE  RequestInv(x)'
<1> USE DEF Kept, Fewer
<1>1. /\ Retrying("driver", x)' => Retrying("driver", x)
      /\ Retrying("reader", x)' => Retrying("reader", x)
      /\ x \in retry'["driver"] => x \in retry["driver"]
      /\ x \in retry'["reader"] => x \in retry["reader"]
  <2>1. "driver" \in Retriers /\ "reader" \in Retriers
    BY DEF Retriers
  <2>. QED BY <2>1, Zenon DEF Retrying
<1>2. /\ InFlight(x)' => InFlight(x)
      /\ Sending(x)' <=> Sending(x)
      /\ Waiting(x)' <=> Waiting(x)
      /\ InQueue(x)' <=> InQueue(x)
  BY DEF InFlight, Sending, Waiting, InQueue
<1>3. Exclusive(x)'
  BY <1>1, <1>2, Zenon DEF RequestInv, Exclusive
<1>4. EntryInv(x)'
  BY <1>1, <1>2, Zenon DEF RequestInv, EntryInv
<1>5. AnswerInv(x)'
  BY <1>1, <1>2 DEF RequestInv, AnswerInv
<1>. QED BY <1>3, <1>4, <1>5 DEF RequestInv

(* An entry leaves the queue for a reason its request allows.              *)
LEMMA LeaveInv ==
  ASSUME NEW x \in Requests, NEW how \in {"acked", "error", "swept", "dropped"},
         TypeOK, RequestInv(x), Leave(x, how),
         how = "acked" => applied[x] = 1,
         how = "error" => /\ applied[x] = 0 /\ ~Sending(x)' /\ ~InFlight(x)'
                          /\ ~Retrying("driver", x) /\ ~Retrying("reader", x),
         applied'[x] = applied[x],
         sender'[x] \in {sender[x], "done"},
         Fewer(x),
         retry' = retry, encoding' = encoding
  PROVE  RequestInv(x)'
<1> USE SendQueueAssumption
<1>1. /\ ~InQueue(x)' /\ ~Waiting(x)'
      /\ lastError'[x] = "none" /\ attempts'[x] = 0 /\ state'[x] = "absent"
      /\ outcome'[x] = IF InQueue(x) THEN how ELSE outcome[x]
  BY DEF Leave, TypeOK, Waiting, InQueue
<1>2. /\ InFlight(x)' => InFlight(x)
      /\ OnWire(x)' => OnWire(x)
      /\ Replied(x)' => Replied(x)
      /\ AtUi(x)' => AtUi(x)
      /\ Sending(x)' => Sending(x)
      /\ sender'[x] = "queued" => sender[x] = "queued"
      /\ sender'[x] = "idle" => sender[x] = "idle"
      /\ Retrying("driver", x)' <=> Retrying("driver", x)
      /\ Retrying("reader", x)' <=> Retrying("reader", x)
  BY DEF Fewer, InFlight, Sending, Retrying
<1>3. Exclusive(x)'
  BY <1>2, Zenon DEF RequestInv, Exclusive
<1>4. EntryInv(x)'
  <2>1. 0 <= MaxBudget
    OBVIOUS
  <2>2. sender'[x] = "idle" => outcome'[x] = "none"
    BY <1>1, <1>2 DEF RequestInv, EntryInv
  <2>. QED BY <1>1, <1>2, <2>1, <2>2 DEF RequestInv, EntryInv
<1>5. AnswerInv(x)'
  <2>1. ~InQueue(x) => outcome'[x] = outcome[x]
    BY <1>1
  <2>2. InQueue(x) => outcome'[x] = how
    BY <1>1
  <2>3. CASE InQueue(x)
    BY <1>1, <1>2, <2>2, <2>3 DEF RequestInv, AnswerInv
  <2>4. CASE ~InQueue(x)
    BY <1>1, <1>2, <2>1, <2>4 DEF RequestInv, AnswerInv
  <2>. QED BY <2>3, <2>4
<1>. QED BY <1>3, <1>4, <1>5 DEF RequestInv

(* Queue.Error for a request whose rejection was its only copy.            *)
LEMMA ErrorInv ==
  ASSUME NEW x \in Requests, NEW code \in Categories,
         TypeOK, RequestInv(x), Error(x, code),
         applied[x] = 0, ~Sending(x), ~InFlight(x)',
         ~Retrying("driver", x), ~Retrying("reader", x), sender[x] # "idle",
         applied'[x] = applied[x], sender'[x] = sender[x],
         Fewer(x),
         retry' = retry, encoding' = encoding
  PROVE  RequestInv(x)'
<1>1. CASE InQueue(x) /\ code \in Retriable /\ attempts[x] < MaxBudget
  <2>1. /\ state'[x] = "pending" /\ lastError'[x] = code /\ attempts'[x] = attempts[x]
        /\ outcome'[x] = outcome[x] /\ InQueue(x)'
        /\ code # "none"
    BY <1>1 DEF Error, TypeOK, InQueue, Retriable
  <2>2. /\ ~Sending(x)'
        /\ ~Retrying("driver", x)' /\ ~Retrying("reader", x)'
        /\ x \notin retry'["driver"] /\ x \notin retry'["reader"]
        /\ \A t \in Retriers : encoding'[t] # x
    BY DEF Sending, Retrying, Retriers
  <2>3. Exclusive(x)'
    BY <2>2 DEF Exclusive, InFlight, RequestInv
  <2>4. EntryInv(x)'
    BY <1>1, <2>1, <2>2 DEF EntryInv, RequestInv, Sending, Waiting
  <2>5. AnswerInv(x)'
    BY <1>1, <2>1, <2>2 DEF AnswerInv, EntryInv, RequestInv
  <2>. QED BY <2>3, <2>4, <2>5 DEF RequestInv
<1>2. CASE ~(InQueue(x) /\ code \in Retriable /\ attempts[x] < MaxBudget)
  <2>1. Leave(x, "error")
    BY <1>2 DEF Error
  <2>2. ~Sending(x)'
    BY DEF Sending
  <2>3. "error" \in {"acked", "error", "swept", "dropped"} /\ "error" # "acked"
    OBVIOUS
  <2>. QED BY <2>1, <2>2, <2>3, LeaveInv, Zenon
<1>. QED BY <1>1, <1>2

(* WireSame, ReplySame and BacklogSame at once.                            *)
LEMMA ChannelsSame ==
  ASSUME IInv, applied' = applied, toServer' \in {toServer, << >>},
         toClient' \in {toClient, << >>}, msgCh' \in {msgCh, << >>}
  PROVE  WireInv' /\ ReplyInv' /\ BacklogInv' /\ \A x \in Requests : Fewer(x)
  BY WireSame, ReplySame, BacklogSame DEF IInv, Fewer

(* The types a step's effect on one request needs.                         *)
LEMMA Types ==
  ASSUME IInv
  PROVE  /\ state \in [Requests -> States]
         /\ attempts \in [Requests -> Nat]
         /\ lastError \in [Requests -> Categories \cup {"none"}]
         /\ sender \in [Requests -> {"idle", "queued", "marked", "done"}]
         /\ applied \in [Requests -> Nat]
         /\ outcome \in [Requests -> Outcomes]
         /\ retry \in [Retriers -> SUBSET Requests]
         /\ encoding \in [Retriers -> Requests \cup {NoRequest}]
         /\ "driver" \in Retriers /\ "reader" \in Retriers
  BY DEF IInv, TypeOK, Retriers

-----------------------------------------------------------------------------
(* Every step keeps IInv: one lemma per action, or per few alike.          *)

StepInv == DriverInv' /\ WireInv' /\ ReplyInv' /\ BacklogInv'
             /\ \A x \in Requests : RequestInv(x)'

(* A step that touches the request r alone.                                *)
LEMMA OneRequest ==
  ASSUME IInv, NEW r \in Requests,
         DriverInv', WireInv', ReplyInv', BacklogInv',
         \A x \in Requests : x # r => Kept(x) /\ Fewer(x),
         RequestInv(r)'
  PROVE  StepInv
  BY Untouched DEF IInv, StepInv

(* A step that touches none.                                               *)
LEMMA NoneTouched ==
  ASSUME IInv, DriverInv', WireInv', ReplyInv', BacklogInv',
         \A x \in Requests : Kept(x) /\ Fewer(x)
  PROVE  StepInv
  BY Untouched DEF IInv, StepInv

(* The inductive invariant holds initially.                                *)
LEMMA InvInit == ASSUME Init PROVE IInv
<1>1. TypeOK
  BY TypeInit
<1>2. DriverInv /\ WireInv /\ ReplyInv /\ BacklogInv
  BY DEF Init, DriverInv, WireInv, ReplyInv, RepliesOK, BacklogInv, Retriers
<1>3. ASSUME NEW r \in Requests PROVE RequestInv(r)
  <2>1. /\ state[r] = "absent" /\ sender[r] = "idle" /\ attempts[r] = 0
        /\ lastError[r] = "none" /\ applied[r] = 0 /\ outcome[r] = "none"
        /\ retry["driver"] = {} /\ retry["reader"] = {}
        /\ encoding["driver"] = NoRequest /\ encoding["reader"] = NoRequest
        /\ r # NoRequest
    BY SendQueueAssumption DEF Init, Retriers
  <2>2. ~OnWire(r) /\ ~Replied(r) /\ ~AtUi(r)
    BY DEF Init, OnWire, Replied, AtUi
  <2>3. /\ ~InFlight(r) /\ ~Sending(r) /\ ~InQueue(r) /\ ~Waiting(r)
        /\ ~Retrying("driver", r) /\ ~Retrying("reader", r)
    BY <2>1, <2>2 DEF InFlight, Sending, InQueue, Retrying, Waiting
  <2>. QED
    BY <2>1, <2>2, <2>3, SendQueueAssumption DEF RequestInv, Exclusive, EntryInv, AnswerInv
<1>. QED BY <1>1, <1>2, <1>3 DEF IInv

(* SenderEnqueue: a new entry, of which no copy exists yet.                *)
LEMMA SenderEnqueueInv ==
  ASSUME IInv, NEW r \in Requests, SenderEnqueue(r) PROVE StepInv
<1> USE DEF queue, chanVars, boundVars
<1>1. /\ DriverInv' /\ WireInv' /\ ReplyInv' /\ BacklogInv'
      /\ \A x \in Requests : Fewer(x)
  BY ChannelsSame DEF SenderEnqueue, IInv, DriverInv
<1>2. \A x \in Requests : x # r => Kept(x)
  BY Types DEF SenderEnqueue, EnqueueWithID, Kept
<1>3. sender[r] = "idle" /\ RequestInv(r)
  BY DEF SenderEnqueue, IInv
<1>4. /\ attempts[r] = 0 /\ lastError[r] = "none" /\ applied[r] = 0
      /\ outcome[r] = "none" /\ ~InFlight(r)
      /\ ~Retrying("driver", r) /\ ~Retrying("reader", r)
  BY <1>3 DEF RequestInv, EntryInv
<1>5. /\ state'[r] = "pending" /\ sender'[r] = "queued"
      /\ attempts'[r] = 0 /\ lastError'[r] = "none"
      /\ applied'[r] = 0 /\ outcome'[r] = "none"
  BY <1>4, Types DEF SenderEnqueue, EnqueueWithID
<1>6. ~Retrying("driver", r)' /\ ~Retrying("reader", r)' /\ ~InFlight(r)'
  BY <1>1, <1>4 DEF SenderEnqueue, Retrying, Fewer, InFlight
<1>7. RequestInv(r)'
  BY <1>5, <1>6, SendQueueAssumption
  DEF RequestInv, Exclusive, EntryInv, AnswerInv, Retrying, Waiting, InFlight, InQueue
<1>. QED BY <1>1, <1>2, <1>7, OneRequest

(* SenderMark: the first attempt of the request its sender owns.           *)
LEMMA SenderMarkInv ==
  ASSUME IInv, NEW r \in Requests, SenderMark(r) PROVE StepInv
<1> USE DEF queue, chanVars, boundVars
<1>1. /\ DriverInv' /\ WireInv' /\ ReplyInv' /\ BacklogInv'
      /\ \A x \in Requests : Fewer(x)
  BY ChannelsSame DEF SenderMark, IInv, DriverInv
<1>2. \A x \in Requests : x # r => Kept(x)
  BY Types DEF SenderMark, MarkSending, Kept
<1>3. sender[r] = "queued" /\ Sending(r) /\ RequestInv(r)
  BY DEF SenderMark, Sending, IInv
<1>4. /\ ~InFlight(r) /\ ~Retrying("driver", r) /\ ~Retrying("reader", r)
      /\ applied[r] <= 1 /\ applied[r] # 1 /\ outcome[r] \notin {"acked", "error"}
  BY <1>3 DEF RequestInv, Exclusive, AnswerInv
<1>5. /\ sender'[r] = "marked" /\ lastError'[r] = lastError[r]
      /\ applied'[r] = applied[r] /\ outcome'[r] = outcome[r]
  BY Types DEF SenderMark, MarkSending
<1>6. ~Retrying("driver", r)' /\ ~Retrying("reader", r)' /\ ~InFlight(r)'
  BY <1>1, <1>4 DEF SenderMark, Retrying, Fewer, InFlight
<1>7. Exclusive(r)'
  BY <1>6 DEF Exclusive, InFlight
<1>8. AnswerInv(r)'
  BY <1>4, <1>5 DEF AnswerInv
<1>9. EntryInv(r)'
  <2>1. CASE InQueue(r)
    <3>1. attempts[r] = 0 /\ outcome[r] = "none"
      BY <1>3, <2>1 DEF RequestInv, EntryInv
    <3>2. state'[r] = "sending" /\ attempts'[r] = 1
      BY <2>1, <3>1, Types DEF SenderMark, MarkSending
    <3>3. /\ InQueue(r)' /\ ~Waiting(r)' /\ attempts'[r] <= MaxBudget
          /\ state'[r] # "pending" /\ sender'[r] # "queued" /\ sender'[r] # "idle"
      BY <1>5, <3>2, SendQueueAssumption DEF InQueue, Waiting
    <3>4. /\ encoding'["driver"] # r /\ encoding'["reader"] # r
          /\ r \notin retry'["driver"] /\ r \notin retry'["reader"]
      BY <1>6 DEF Retrying
    <3>. QED BY <1>5, <3>1, <3>3, <3>4, Zenon DEF EntryInv
  <2>2. CASE ~InQueue(r)
    <3>1. state'[r] = "absent" /\ attempts'[r] = attempts[r]
      BY <2>2 DEF SenderMark, MarkSending, InQueue
    <3>2. /\ ~InQueue(r)' /\ ~Waiting(r)' /\ state'[r] # "pending"
          /\ sender'[r] # "queued" /\ sender'[r] # "idle"
          /\ lastError'[r] = "none" /\ attempts'[r] = 0
          /\ attempts'[r] <= MaxBudget
      BY <1>3, <1>5, <2>2, <3>1 DEF InQueue, Waiting, RequestInv, EntryInv
    <3>3. /\ encoding'["driver"] # r /\ encoding'["reader"] # r
      BY <1>6 DEF Retrying
    <3>. QED BY <3>2, <3>3, Zenon DEF EntryInv
  <2>. QED BY <2>1, <2>2
<1>10. RequestInv(r)'
  BY <1>7, <1>8, <1>9 DEF RequestInv
<1>. QED BY <1>1, <1>2, <1>10, OneRequest

(* A request on its way moves from one channel to the next.                *)
LEMMA Moved ==
  ASSUME NEW x \in Requests, IInv,
         state'[x] = state[x], attempts'[x] = attempts[x], lastError'[x] = lastError[x],
         applied'[x] = applied[x], outcome'[x] = outcome[x],
         sender[x] \in {"marked", "done"}, sender'[x] = "done",
         ~Waiting(x), applied[x] # 1, outcome[x] # "error",
         ~Retrying("driver", x)', ~Retrying("reader", x)',
         OnWire(x)' => ~Replied(x)' /\ ~AtUi(x)', Replied(x)' => ~AtUi(x)'
  PROVE  RequestInv(x)'
<1>1. RequestInv(x)
  BY DEF IInv
<1>2. ~Sending(x)' /\ ~Waiting(x)'
  BY DEF Sending, Waiting
<1>3. /\ x \notin retry'["driver"] /\ x \notin retry'["reader"]
      /\ InQueue(x)' <=> InQueue(x)
  BY DEF Retrying, InQueue
<1>4. Exclusive(x)'
  BY <1>2 DEF Exclusive
<1>5. EntryInv(x)'
  BY <1>1, <1>2, <1>3 DEF RequestInv, EntryInv, Waiting
<1>6. AnswerInv(x)'
  BY <1>1, <1>2 DEF RequestInv, AnswerInv
<1>. QED BY <1>4, <1>5, <1>6 DEF RequestInv

(* SenderEncode: the copy goes to the wire, or is lost with the link.      *)
LEMMA SenderEncodeInv ==
  ASSUME IInv, NEW r \in Requests, SenderEncode(r) PROVE StepInv
<1> USE DEF queue, boundVars
<1>1. sender[r] = "marked" /\ Sending(r) /\ RequestInv(r)
  BY DEF SenderEncode, Sending, IInv
<1>2. /\ ~InFlight(r) /\ ~Retrying("driver", r) /\ ~Retrying("reader", r) /\ ~Waiting(r)
      /\ ~OnWire(r) /\ ~Replied(r) /\ ~AtUi(r)
      /\ applied[r] # 1 /\ outcome[r] # "error"
  BY <1>1 DEF RequestInv, Exclusive, EntryInv, AnswerInv, InFlight
<1>3. ~Retrying("driver", r)' /\ ~Retrying("reader", r)' /\ sender'[r] = "done"
  BY <1>2, Types DEF SenderEncode, Retrying
<1>4. DriverInv'
  BY DEF SenderEncode, IInv, DriverInv
<1>5. \A x \in Requests : x # r => Kept(x)
  BY Types DEF SenderEncode, Drop, Leave, Kept
<1>6. CASE linkUp
  <2>1. /\ toServer' = Append(toServer, r) /\ toClient' = toClient /\ msgCh' = msgCh
        /\ applied' = applied /\ state' = state /\ attempts' = attempts
        /\ lastError' = lastError /\ outcome' = outcome
    BY <1>6 DEF SenderEncode, Encode
  <2>2. /\ \A x \in Requests : OnWire(x)' <=> OnWire(x) \/ x = r
        /\ WireInv'
    BY <1>2, <2>1, WirePut DEF IInv
  <2>3. /\ ReplyInv' /\ BacklogInv'
        /\ \A x \in Requests : (Replied(x)' => Replied(x)) /\ (AtUi(x)' => AtUi(x))
    BY <2>1, ReplySame, BacklogSame DEF IInv
  <2>4. RequestInv(r)'
    BY <1>1, <1>2, <1>3, <2>1, <2>3, Moved
  <2>5. \A x \in Requests : x # r => Fewer(x)
    BY <2>2, <2>3 DEF Fewer
  <2>. QED BY <1>4, <1>5, <2>2, <2>3, <2>4, <2>5, OneRequest
<1>7. CASE ~linkUp
  <2>1. /\ WireInv' /\ ReplyInv' /\ BacklogInv' /\ \A x \in Requests : Fewer(x)
    BY <1>7, ChannelsSame DEF SenderEncode, Encode
  <2>2. CASE VerbOf[r] = "history"
    <3>1. /\ Leave(r, "dropped") /\ applied' = applied
          /\ retry' = retry /\ encoding' = encoding
      BY <1>7, <2>2 DEF SenderEncode, Drop
    <3>2. RequestInv(r)'
      <4>1. "dropped" \in {"acked", "error", "swept", "dropped"}
            /\ "dropped" # "acked" /\ "dropped" # "error"
        OBVIOUS
      <4>2. TypeOK
        BY DEF IInv
      <4>3. Fewer(r) /\ applied'[r] = applied[r] /\ sender'[r] \in {sender[r], "done"}
        BY <1>3, <2>1, <3>1
      <4>. QED BY <1>1, <3>1, <4>1, <4>2, <4>3, LeaveInv
    <3>. QED BY <1>4, <1>5, <2>1, <3>2, OneRequest
  <2>3. CASE VerbOf[r] # "history"
    <3>1. /\ applied' = applied /\ state' = state /\ attempts' = attempts
          /\ lastError' = lastError /\ outcome' = outcome
      BY <2>3 DEF SenderEncode
    <3>2. ~OnWire(r)' /\ ~Replied(r)' /\ ~AtUi(r)'
      BY <1>2, <2>1 DEF Fewer
    <3>3. RequestInv(r)'
      BY <1>1, <1>2, <1>3, <3>1, <3>2, Moved
    <3>. QED BY <1>4, <1>5, <2>1, <3>3, OneRequest
  <2>. QED BY <2>2, <2>3
<1>. QED BY <1>6, <1>7

(* Dropping an entry, whoever does it, disturbs no copy of the request.    *)
LEMMA LeaveStep ==
  ASSUME IInv, NEW r \in Requests, NEW how \in {"swept", "dropped"}, Leave(r, how),
         DriverInv', toServer' = toServer, toClient' = toClient, msgCh' = msgCh,
         applied' = applied, sender' = sender, retry' = retry, encoding' = encoding
  PROVE  StepInv
<1>1. /\ WireInv' /\ ReplyInv' /\ BacklogInv' /\ \A x \in Requests : Fewer(x)
  BY ChannelsSame
<1>2. \A x \in Requests : x # r => Kept(x)
  BY Types DEF Leave, Kept
<1>3. RequestInv(r)'
  <2>1. how \in {"acked", "error", "swept", "dropped"} /\ how # "acked" /\ how # "error"
    OBVIOUS
  <2>2. TypeOK /\ RequestInv(r) /\ Fewer(r) /\ applied'[r] = applied[r]
        /\ sender'[r] \in {sender[r], "done"}
    BY <1>1 DEF IInv
  <2>. QED BY <2>1, <2>2, LeaveInv
<1>. QED BY <1>1, <1>2, <1>3, OneRequest

(* DriverDrop, UiAbandon and UiDropHistory are all Leave.                  *)
LEMMA DropInv ==
  ASSUME IInv, NEW r \in Requests,
         DriverDrop(r) \/ UiAbandon(r) \/ (uiDrop = r /\ UiDropHistory)
  PROVE  StepInv
<1>1. DriverInv'
  BY DEF DriverDrop, UiAbandon, UiDropHistory, IInv, DriverInv
<1>2. \E how \in {"swept", "dropped"} : Leave(r, how)
  BY DEF DriverDrop, UiAbandon, UiDropHistory, Drop
<1>3. /\ toServer' = toServer /\ toClient' = toClient /\ msgCh' = msgCh
      /\ applied' = applied /\ sender' = sender /\ retry' = retry /\ encoding' = encoding
  BY DEF DriverDrop, UiAbandon, UiDropHistory, chanVars
<1>. QED BY <1>1, <1>2, <1>3, LeaveStep

(* DriverSweep: an entry that times out is not pending, before or after.   *)
LEMMA DriverSweepInv ==
  ASSUME IInv, DriverSweep PROVE StepInv
<1>1. DriverInv'
  BY DEF DriverSweep, IInv, DriverInv
<1>2. /\ WireInv' /\ ReplyInv' /\ BacklogInv' /\ \A x \in Requests : Fewer(x)
  BY ChannelsSame DEF DriverSweep, chanVars
<1>3. ASSUME NEW x \in Requests, x \notin Sweepable PROVE RequestInv(x)'
  <2>1. Kept(x)
    BY <1>3 DEF DriverSweep, Kept
  <2>. QED BY <1>2, <2>1, Untouched DEF IInv
<1>4. ASSUME NEW x \in Requests, x \in Sweepable PROVE RequestInv(x)'
  <2>1. state[x] = "sending" /\ state'[x] = "timedout"
    BY <1>4 DEF Sweepable, DriverSweep
  <2>2. /\ attempts' = attempts /\ lastError' = lastError /\ sender' = sender
        /\ applied' = applied /\ outcome' = outcome
        /\ retry' = retry /\ encoding' = encoding
    BY DEF DriverSweep
  <2>3. InQueue(x) /\ InQueue(x)' /\ ~Waiting(x) /\ ~Waiting(x)' /\ RequestInv(x)
    BY <2>1 DEF InQueue, Waiting, IInv
  <2>4. /\ OnWire(x)' => OnWire(x)
        /\ Replied(x)' => Replied(x)
        /\ AtUi(x)' => AtUi(x)
        /\ InFlight(x)' => InFlight(x)
        /\ Sending(x)' <=> Sending(x)
        /\ Retrying("driver", x)' <=> Retrying("driver", x)
        /\ Retrying("reader", x)' <=> Retrying("reader", x)
    BY <1>2, <2>2 DEF Fewer, InFlight, Sending, Retrying
  <2>5. Exclusive(x)'
    BY <2>3, <2>4, Zenon DEF RequestInv, Exclusive
  <2>6. EntryInv(x)'
    BY <2>1, <2>2, <2>3, <2>4 DEF RequestInv, EntryInv
  <2>7. AnswerInv(x)'
    BY <2>2, <2>3, <2>4 DEF RequestInv, AnswerInv
  <2>. QED BY <2>5, <2>6, <2>7 DEF RequestInv
<1>. QED BY <1>1, <1>2, <1>3, <1>4 DEF StepInv

(* Steps that touch no request: bookkeeping, time, and losing the link.    *)
LEMMA QuietInv ==
  ASSUME IInv,
         DriverDone \/ ReadFails \/ GoOffline \/ LinkBreak
           \/ (\E r \in Requests : Elapse(r)) \/ UNCHANGED vars
  PROVE  StepInv
<1> USE DEF queue, clientVars, chanVars, boundVars, vars
<1>1. /\ applied' = applied /\ state' = state /\ attempts' = attempts
      /\ lastError' = lastError /\ outcome' = outcome /\ sender' = sender
      /\ retry' = retry /\ encoding' = encoding
  BY DEF DriverDone, ReadFails, GoOffline, LinkBreak, Elapse
<1>2. /\ toServer' \in {toServer, << >>}
      /\ toClient' \in {toClient, << >>}
      /\ msgCh' \in {msgCh, << >>}
  BY DEF DriverDone, ReadFails, GoOffline, LinkBreak, Elapse
<1>3. DriverInv'
  BY DEF DriverDone, ReadFails, GoOffline, LinkBreak, Elapse, IInv, DriverInv
<1>4. /\ WireInv' /\ ReplyInv' /\ BacklogInv' /\ \A x \in Requests : Fewer(x)
  BY <1>1, <1>2, ChannelsSame
<1>5. \A x \in Requests : Kept(x)
  BY <1>1 DEF Kept
<1>. QED BY <1>3, <1>4, <1>5, NoneTouched

(* A re-sender snapshots entries that wait for it.                         *)
LEMMA SnapshotInv ==
  ASSUME IInv, NEW t \in Retriers, NEW S,
         t = "driver" =>
           S \subseteq {x \in Requests : Waiting(x) /\ lastError[x] = "A"},
         t = "reader" =>
           S \subseteq {x \in Requests : Waiting(x) /\ lastError[x] = "B"},
         retry' = [retry EXCEPT ![t] = S], encoding' = encoding,
         state' = state, attempts' = attempts, lastError' = lastError,
         sender' = sender, applied' = applied, outcome' = outcome,
         DriverInv', WireInv', ReplyInv', BacklogInv',
         \A x \in Requests : Fewer(x)
  PROVE  StepInv
<1>1. ASSUME NEW x \in Requests, x \notin S PROVE RequestInv(x)'
  <2>1. Kept(x)
    BY <1>1, Types DEF Kept
  <2>. QED BY <2>1, Untouched DEF IInv
<1>2. ASSUME NEW x \in Requests, x \in S PROVE RequestInv(x)'
  <2>1. Waiting(x) /\ RequestInv(x) /\ state[x] = "pending"
    BY <1>2 DEF IInv, Retriers, Waiting
  <2>2. /\ ~Sending(x) /\ ~InFlight(x) /\ InQueue(x)
        /\ encoding["driver"] # x /\ encoding["reader"] # x
        /\ applied[x] # 1 /\ outcome[x] = "none" /\ sender[x] # "idle"
    BY <2>1, Types DEF RequestInv, EntryInv, AnswerInv, InQueue
  <2>3. /\ ~Sending(x)' /\ ~InFlight(x)'
        /\ ~OnWire(x)' /\ ~Replied(x)' /\ ~AtUi(x)'
        /\ Waiting(x)' /\ InQueue(x)'
    BY <2>1, <2>2 DEF Sending, InFlight, Fewer, Waiting, InQueue
  <2>4. x \in retry["driver"] => lastError[x] = "A"
    BY <2>1, <2>2 DEF RequestInv, EntryInv
  <2>5. x \in retry["reader"] => lastError[x] = "B"
    BY <2>1, <2>2 DEF RequestInv, EntryInv
  <2>6. x \in retry'["driver"] => lastError[x] = "A"
    <3>1. CASE t = "driver"
      BY <1>2, <3>1
    <3>2. CASE t # "driver"
      BY <2>4, <3>2, Types
    <3>. QED BY <3>1, <3>2
  <2>7. x \in retry'["reader"] => lastError[x] = "B"
    <3>1. CASE t = "reader"
      BY <1>2, <3>1
    <3>2. CASE t # "reader"
      BY <2>5, <3>2, Types
    <3>. QED BY <3>1, <3>2
  <2>8. Retrying("driver", x)' => ~Retrying("reader", x)'
    BY <2>2, <2>6, <2>7 DEF Retrying
  <2>9. Exclusive(x)'
    BY <2>3, <2>8 DEF Exclusive
  <2>10. EntryInv(x)'
    BY <2>1, <2>2, <2>3, <2>6, <2>7 DEF RequestInv, EntryInv
  <2>11. AnswerInv(x)'
    BY <2>1, <2>2 DEF RequestInv, AnswerInv
  <2>. QED BY <2>9, <2>10, <2>11 DEF RequestInv
<1>. QED BY <1>1, <1>2 DEF StepInv

(* DriverScan: the snapshot holds entries that wait with category A.       *)
LEMMA DriverScanInv == ASSUME IInv, DriverScan PROVE StepInv
<1> USE DEF queue, chanVars, boundVars
<1> DEFINE S == PendingForCategoryARetry
<1>1. /\ WireInv' /\ ReplyInv' /\ BacklogInv' /\ \A x \in Requests : Fewer(x)
  BY ChannelsSame DEF DriverScan
<1>2. DriverInv'
  BY DEF DriverScan, DriverInv
<1>3. S \subseteq {x \in Requests : Waiting(x) /\ lastError[x] = "A"}
  BY DEF PendingForCategoryARetry, Waiting
<1>4. /\ retry' = [retry EXCEPT !["driver"] = S] /\ encoding' = encoding
      /\ state' = state /\ attempts' = attempts /\ lastError' = lastError
      /\ sender' = sender /\ applied' = applied /\ outcome' = outcome
  BY DEF DriverScan
<1> HIDE DEF S
<1>5. "driver" \in Retriers /\ "driver" # "reader"
  BY DEF Retriers
<1>. QED BY <1>1, <1>2, <1>3, <1>4, <1>5, SnapshotInv

(* ReadEpochKey: the snapshot holds entries that wait with category B.     *)
LEMMA ReadEpochKeyInv == ASSUME IInv, ReadEpochKey PROVE StepInv
<1> USE DEF queue, chanVars, boundVars
<1> DEFINE S == PendingForCategoryBRoomRetry(Head(toClient).room)
<1>1. /\ WireInv' /\ BacklogInv' /\ DriverInv'
      /\ \A x \in Requests : (OnWire(x)' => OnWire(x)) /\ (AtUi(x)' => AtUi(x))
  BY WireSame, BacklogSame DEF ReadEpochKey, IInv, DriverInv
<1>2. ReplyInv' /\ \A x \in Requests : Replied(x)' => Replied(x)
  <2>1. PICK f : f = Head(toClient)
    OBVIOUS
  <2>2. toClient # << >> /\ toClient' = Tail(toClient) /\ applied' = applied
    BY DEF ReadEpochKey, Receive
  <2>. QED BY <2>1, <2>2, ReplyTake DEF IInv
<1>3. S \subseteq {x \in Requests : Waiting(x) /\ lastError[x] = "B"}
  BY DEF PendingForCategoryBRoomRetry, Waiting
<1>4. /\ retry' = [retry EXCEPT !["reader"] = S] /\ encoding' = encoding
      /\ state' = state /\ attempts' = attempts /\ lastError' = lastError
      /\ sender' = sender /\ applied' = applied /\ outcome' = outcome
  BY DEF ReadEpochKey
<1> HIDE DEF S
<1>5. "reader" \in Retriers /\ "driver" # "reader"
  BY DEF Retriers
<1>6. \A x \in Requests : Fewer(x)
  BY <1>1, <1>2 DEF Fewer
<1>. QED BY <1>1, <1>2, <1>3, <1>4, <1>5, <1>6, SnapshotInv

(* RetryMark: an entry still queued is waiting, so it has budget left.     *)
LEMMA RetryMarkInv ==
  ASSUME IInv, NEW t \in Retriers, NEW r \in Requests, RetryMark(t, r),
         t = "driver" => tick = "retry"
  PROVE  StepInv
<1> USE DEF queue, chanVars, boundVars
<1>1. /\ WireInv' /\ ReplyInv' /\ BacklogInv' /\ \A x \in Requests : Fewer(x)
  BY ChannelsSame DEF RetryMark
<1>2. DriverInv'
  BY Types DEF RetryMark, DriverInv, IInv, Retriers
<1>3. \A x \in Requests : x # r => Kept(x)
  <2>1. ASSUME NEW x \in Requests, x # r PROVE Kept(x)
    <3>1. state'[x] = state[x] /\ attempts'[x] = attempts[x] /\ lastError'[x] = lastError[x]
      BY <2>1, Types DEF RetryMark, MarkSending
    <3>2. \A u \in Retriers : /\ x \in retry'[u] => x \in retry[u]
                            /\ encoding'[u] = x => encoding[u] = x
      BY <2>1, Types DEF RetryMark
    <3>. QED BY <3>1, <3>2, Types DEF RetryMark, Kept
  <2>. QED BY <2>1
<1>4. r \in retry[t] /\ encoding[t] = NoRequest /\ RequestInv(r) /\ Retrying(t, r)
  BY DEF RetryMark, IInv, Retrying
<1>5. /\ Retrying("driver", r)' <=> Retrying("driver", r)
      /\ Retrying("reader", r)' <=> Retrying("reader", r)
      /\ r \notin retry'["driver"] /\ r \notin retry'["reader"]
  <2>1. CASE t = "driver"
    BY <1>4, <2>1, Types DEF RetryMark, Retrying, RequestInv, Exclusive
  <2>2. CASE t = "reader"
    BY <1>4, <2>2, Types DEF RetryMark, Retrying, RequestInv, Exclusive
  <2>. QED BY <2>1, <2>2 DEF Retriers
<1>6. /\ sender' = sender /\ applied' = applied /\ outcome' = outcome
      /\ lastError' = lastError
  BY DEF RetryMark, MarkSending
<1>7. /\ ~InFlight(r) /\ ~Sending(r) /\ applied[r] # 1 /\ outcome[r] # "error"
      /\ sender[r] # "idle"
  BY <1>4 DEF RequestInv, Exclusive, EntryInv, AnswerInv, Retriers
<1>8. /\ ~OnWire(r)' /\ ~Replied(r)' /\ ~AtUi(r)' /\ ~InFlight(r)' /\ ~Sending(r)'
  BY <1>1, <1>6, <1>7 DEF Fewer, InFlight, Sending
<1>9. Exclusive(r)'
  BY <1>4, <1>5, <1>8 DEF RequestInv, Exclusive
<1>10. AnswerInv(r)'
  BY <1>4, <1>6, <1>7 DEF RequestInv, AnswerInv
<1>11. EntryInv(r)'
  <2>1. CASE InQueue(r)
    <3>1. state[r] = "pending" /\ attempts[r] < MaxBudget /\ outcome[r] = "none"
      BY <1>4, <2>1 DEF RequestInv, EntryInv, Waiting, Retriers
    <3>2. state'[r] = "sending" /\ attempts'[r] = attempts[r] + 1 /\ attempts[r] \in Nat
      BY <2>1, Types DEF RetryMark, MarkSending
    <3>3. attempts'[r] <= MaxBudget
      BY <3>1, <3>2, SendQueueAssumption
    <3>4. InQueue(r)' /\ ~Waiting(r)' /\ sender[r] # "queued"
      BY <1>7, <3>2 DEF InQueue, Waiting, Sending
    <3>. QED BY <1>5, <1>6, <1>7, <3>1, <3>2, <3>3, <3>4 DEF EntryInv
  <2>2. CASE ~InQueue(r)
    <3>1. state'[r] = "absent" /\ attempts'[r] = attempts[r]
      BY <2>2 DEF RetryMark, MarkSending, InQueue
    <3>2. ~InQueue(r)' /\ ~Waiting(r)'
      BY <3>1 DEF InQueue, Waiting
    <3>. QED BY <1>4, <1>5, <1>6, <1>7, <2>2, <3>1, <3>2 DEF RequestInv, EntryInv
  <2>. QED BY <2>1, <2>2
<1>12. RequestInv(r)'
  BY <1>9, <1>10, <1>11 DEF RequestInv
<1>. QED BY <1>1, <1>2, <1>3, <1>12, OneRequest

(* RetryEncode: the copy moves from the re-sender to the wire.             *)
LEMMA RetryEncodeInv ==
  ASSUME IInv, NEW t \in Retriers, RetryEncode(t), t = "driver" => tick = "retry"
  PROVE  StepInv
<1> USE DEF queue, boundVars
<1> PICK r \in Requests : r = encoding[t]
  BY DEF RetryEncode
<1>1. /\ encoding' = [encoding EXCEPT ![t] = NoRequest] /\ retry' = retry
      /\ state' = state /\ attempts' = attempts /\ lastError' = lastError
      /\ sender' = sender /\ applied' = applied /\ outcome' = outcome /\ tick' = tick
      /\ toClient' = toClient /\ msgCh' = msgCh
      /\ toServer' = IF linkUp THEN Append(toServer, r) ELSE toServer
  BY DEF RetryEncode, Encode
<1>2. Retrying(t, r) /\ RequestInv(r) /\ r # NoRequest
  BY SendQueueAssumption DEF Retrying, IInv
<1>3. /\ ~InFlight(r) /\ ~Sending(r) /\ ~Waiting(r) /\ sender[r] # "idle"
      /\ applied[r] # 1 /\ outcome[r] # "error"
  BY <1>2 DEF RequestInv, Exclusive, EntryInv, AnswerInv, Retriers
<1>4. ~OnWire(r) /\ ~Replied(r) /\ ~AtUi(r) /\ sender[r] = "done"
  BY <1>3, Types DEF InFlight, Sending
<1>5. r \notin retry[t]
  BY <1>2 DEF RequestInv, EntryInv, Retriers
<1>6. ~Retrying("driver", r)' /\ ~Retrying("reader", r)'
  <2>1. CASE t = "driver"
    BY <1>1, <1>2, <1>5, <2>1, Types DEF Retrying, RequestInv, Exclusive
  <2>2. CASE t = "reader"
    BY <1>1, <1>2, <1>5, <2>2, Types DEF Retrying, RequestInv, Exclusive
  <2>. QED BY <2>1, <2>2 DEF Retriers
<1>7. DriverInv'
  BY <1>1, Types DEF DriverInv, IInv
<1>8. \A x \in Requests : x # r => Kept(x)
  BY <1>1, SendQueueAssumption, Types DEF Kept
<1>9. /\ ReplyInv' /\ BacklogInv'
      /\ \A x \in Requests : (Replied(x)' => Replied(x)) /\ (AtUi(x)' => AtUi(x))
  BY <1>1, ReplySame, BacklogSame DEF IInv
<1>10. /\ WireInv' /\ \A x \in Requests : x # r => (OnWire(x)' => OnWire(x))
  BY <1>1, <1>4, WirePut, WireSame DEF IInv
<1>11. RequestInv(r)'
  BY <1>1, <1>3, <1>4, <1>6, <1>9, Moved
<1>12. \A x \in Requests : x # r => Fewer(x)
  BY <1>9, <1>10 DEF Fewer
<1>. QED BY <1>7, <1>8, <1>9, <1>10, <1>11, <1>12, OneRequest

(* ReadAck: the ack was for an accepted request.                           *)
LEMMA ReadAckInv == ASSUME IInv, ReadAck PROVE StepInv
<1> PICK f : f = Head(toClient)
  OBVIOUS
<1>1. /\ toClient # << >> /\ toClient' = Tail(toClient) /\ f.kind = "ack"
      /\ Leave(f.req, "acked") /\ applied' = applied /\ sender' = sender
      /\ retry' = retry /\ encoding' = encoding
      /\ toServer' = toServer /\ msgCh' = msgCh
  BY DEF ReadAck, Receive, Ack
<1>2. /\ f.req \in Requests /\ applied[f.req] = 1
      /\ ReplyInv' /\ \A x \in Requests : Replied(x)' => Replied(x)
  BY <1>1, ReplyTake DEF IInv
<1>3. /\ WireInv' /\ BacklogInv' /\ DriverInv'
      /\ \A x \in Requests : (OnWire(x)' => OnWire(x)) /\ (AtUi(x)' => AtUi(x))
  BY <1>1, WireSame, BacklogSame DEF ReadAck, IInv, DriverInv
<1>4. \A x \in Requests : Fewer(x)
  BY <1>2, <1>3 DEF Fewer
<1>5. PICK r \in Requests : r = f.req
  BY <1>2
<1>6. \A x \in Requests : x # r => Kept(x)
  BY <1>1, <1>5, Types DEF Leave, Kept
<1>7. RequestInv(r)'
  <2>1. "acked" \in {"acked", "error", "swept", "dropped"} /\ "acked" # "error"
    OBVIOUS
  <2>2. /\ TypeOK /\ RequestInv(r) /\ Fewer(r) /\ Leave(r, "acked")
        /\ applied'[r] = applied[r] /\ applied[r] = 1 /\ sender'[r] \in {sender[r], "done"}
    BY <1>1, <1>2, <1>4, <1>5 DEF IInv
  <2>. QED BY <1>1, <2>1, <2>2, LeaveInv
<1>. QED BY <1>2, <1>3, <1>4, <1>6, <1>7, OneRequest

(* A request whose rejection r is being handled has no other copy.         *)
LEMMA Rejected ==
  ASSUME IInv, NEW r \in Requests, Replied(r) \/ AtUi(r)
  PROVE  /\ RequestInv(r) /\ ~Sending(r) /\ ~OnWire(r) /\ ~Waiting(r)
         /\ ~Retrying("driver", r) /\ ~Retrying("reader", r)
         /\ sender[r] = "done" /\ outcome[r] # "error"
         /\ Replied(r) => ~AtUi(r)
         /\ AtUi(r) => applied[r] = 0
<1>1. RequestInv(r) /\ InFlight(r)
  BY DEF IInv, InFlight
<1>2. ~Sending(r) /\ ~OnWire(r) /\ ~Waiting(r) /\ sender[r] # "idle"
  BY <1>1 DEF RequestInv, Exclusive, EntryInv
<1>3. ~Retrying("driver", r) /\ ~Retrying("reader", r)
  BY <1>1 DEF RequestInv, Exclusive
<1>4. outcome[r] # "error" /\ (Replied(r) => ~AtUi(r))
  BY <1>1 DEF RequestInv, Exclusive, AnswerInv
<1>5. sender[r] = "done"
  BY <1>2, Types DEF Sending
<1>6. AtUi(r) => applied[r] = 0
  <2>1. AtUi(r) => applied[r] # 1
    BY <1>1 DEF RequestInv, AnswerInv
  <2>2. applied[r] <= 1 /\ applied[r] \in Nat
    BY <1>1, Types DEF RequestInv, AnswerInv
  <2>. QED BY <2>1, <2>2
<1>. QED BY <1>1, <1>2, <1>3, <1>4, <1>5, <1>6

(* ReadError: handled here for a transfer, forwarded to the TUI otherwise. *)
LEMMA ReadErrorInv == ASSUME IInv, ReadError PROVE StepInv
<1> PICK f : f = Head(toClient)
  OBVIOUS
<1>1. /\ toClient # << >> /\ toClient' = Tail(toClient) /\ f.kind = "error"
      /\ applied' = applied /\ sender' = sender /\ retry' = retry /\ encoding' = encoding
      /\ toServer' = toServer /\ tick' = tick
  BY DEF ReadError, Receive
<1>2. /\ f.req \in Requests /\ applied[f.req] = 0 /\ f.code \in Categories /\ f \in Frame
      /\ Replied(f.req) /\ ~Replied(f.req)'
      /\ ReplyInv' /\ \A x \in Requests : Replied(x)' => Replied(x)
  BY <1>1, ReplyTake DEF IInv
<1>3. /\ WireInv' /\ DriverInv'
      /\ \A x \in Requests : OnWire(x)' => OnWire(x)
  BY <1>1, WireSame DEF IInv, DriverInv
<1>4. PICK r \in Requests : r = f.req
  BY <1>2
<1>5. /\ RequestInv(r) /\ ~Sending(r) /\ ~OnWire(r) /\ ~Waiting(r)
      /\ ~Retrying("driver", r) /\ ~Retrying("reader", r)
      /\ sender[r] = "done" /\ outcome[r] # "error" /\ ~AtUi(r)
  BY <1>2, <1>4, Rejected
<1>6. CASE VerbOf[r] = "transfer"
  <2>1. Error(r, f.code) /\ msgCh' = msgCh
    BY <1>4, <1>6 DEF ReadError
  <2>2. BacklogInv' /\ \A x \in Requests : AtUi(x)' => AtUi(x)
    BY <2>1, BacklogSame DEF IInv
  <2>3. \A x \in Requests : Fewer(x)
    BY <1>2, <1>3, <2>2 DEF Fewer
  <2>4. \A x \in Requests : x # r => Kept(x)
    BY <1>1, <2>1, Types DEF Error, Leave, Kept
  <2>5. ~InFlight(r)'
    BY <1>2, <1>3, <1>4, <1>5, <2>2 DEF InFlight
  <2>6. /\ TypeOK /\ Fewer(r) /\ applied'[r] = applied[r] /\ applied[r] = 0
        /\ sender'[r] = sender[r] /\ sender[r] # "idle" /\ f.code \in Categories
    BY <1>1, <1>2, <1>4, <1>5, <2>3 DEF IInv
  <2>7. RequestInv(r)'
    BY <1>1, <1>5, <2>1, <2>5, <2>6, ErrorInv
  <2>. QED BY <1>2, <1>3, <2>2, <2>3, <2>4, <2>7, OneRequest
<1>7. CASE VerbOf[r] # "transfer"
  <2>1. /\ msgCh' = Append(msgCh, f) /\ outcome' = outcome
        /\ state' = state /\ attempts' = attempts /\ lastError' = lastError
    BY <1>4, <1>7 DEF ReadError, queue
  <2>2. BacklogInv' /\ \A x \in Requests : AtUi(x)' <=> AtUi(x) \/ x = r
    BY <1>2, <1>4, <1>5, <2>1, BacklogPut DEF IInv
  <2>3. \A x \in Requests : x # r => Kept(x) /\ Fewer(x)
    BY <1>1, <1>2, <1>3, <2>1, <2>2 DEF Kept, Fewer
  <2>4. /\ ~OnWire(r)' /\ ~Replied(r)'
        /\ ~Retrying("driver", r)' /\ ~Retrying("reader", r)'
    BY <1>1, <1>2, <1>3, <1>4, <1>5 DEF Retrying
  <2>5. RequestInv(r)'
    BY <1>1, <1>2, <1>4, <1>5, <2>1, <2>4, Moved
  <2>. QED BY <1>2, <1>3, <2>2, <2>3, <2>5, OneRequest
<1>. QED BY <1>6, <1>7

(* UiError: the rejection was the only copy of its request.                *)
LEMMA UiErrorInv == ASSUME IInv, UiError PROVE StepInv
<1> PICK f : f = Head(msgCh)
  OBVIOUS
<1>1. /\ msgCh # << >> /\ msgCh' = Tail(msgCh) /\ Error(f.req, f.code)
      /\ applied' = applied /\ sender' = sender /\ retry' = retry /\ encoding' = encoding
      /\ toServer' = toServer /\ toClient' = toClient /\ tick' = tick
  BY DEF UiError
<1>2. /\ f.req \in Requests /\ AtUi(f.req) /\ ~AtUi(f.req)' /\ BacklogInv'
      /\ \A x \in Requests : AtUi(x)' => AtUi(x)
  BY <1>1, BacklogTake DEF IInv
<1>3. f.code \in Categories
  <2>1. msgCh \in Seq(Frame)
    BY DEF IInv, TypeOK
  <2>2. f = msgCh[1] /\ 1 \in DOMAIN msgCh
    BY <1>1, <2>1, TailChannel
  <2>. QED BY <2>2 DEF IInv, BacklogInv
<1>4. /\ WireInv' /\ ReplyInv' /\ DriverInv'
      /\ \A x \in Requests : (OnWire(x)' => OnWire(x)) /\ (Replied(x)' => Replied(x))
  BY <1>1, WireSame, ReplySame DEF IInv, DriverInv
<1>5. PICK r \in Requests : r = f.req
  BY <1>2
<1>6. /\ RequestInv(r) /\ ~Sending(r) /\ ~OnWire(r) /\ ~Replied(r)
      /\ ~Retrying("driver", r) /\ ~Retrying("reader", r)
      /\ sender[r] # "idle" /\ applied[r] = 0
  BY <1>2, <1>5, Rejected
<1>7. \A x \in Requests : Fewer(x)
  BY <1>2, <1>4 DEF Fewer
<1>8. \A x \in Requests : x # r => Kept(x)
  BY <1>1, <1>5, Types DEF Error, Leave, Kept
<1>9. RequestInv(r)'
  <2>1. ~InFlight(r)'
    BY <1>2, <1>4, <1>5, <1>6 DEF InFlight
  <2>2. /\ TypeOK /\ Fewer(r) /\ applied'[r] = applied[r] /\ sender'[r] = sender[r]
        /\ Error(r, f.code)
    BY <1>1, <1>5, <1>7 DEF IInv
  <2>. QED BY <1>1, <1>3, <1>6, <2>1, <2>2, ErrorInv
<1>. QED BY <1>2, <1>4, <1>7, <1>8, <1>9, OneRequest

(* Reconnect: nothing is left of the requests of the old client.           *)
LEMMA ReconnectInv == ASSUME IInv, Reconnect PROVE StepInv
<1>1. DriverInv' /\ WireInv' /\ ReplyInv' /\ BacklogInv'
  BY DEF Reconnect, DriverInv, WireInv, ReplyInv, RepliesOK, BacklogInv, Retriers
<1>2. ASSUME NEW x \in Requests PROVE RequestInv(x)'
  <2>1. /\ state'[x] = "absent" /\ attempts'[x] = 0 /\ lastError'[x] = "none"
        /\ outcome'[x] = (IF InQueue(x) THEN "lost" ELSE outcome[x])
        /\ sender'[x] = (IF sender[x] = "idle" THEN "idle" ELSE "done")
        /\ retry'["driver"] = {} /\ retry'["reader"] = {}
        /\ encoding'["driver"] = NoRequest /\ encoding'["reader"] = NoRequest
        /\ x # NoRequest /\ applied' = applied /\ RequestInv(x)
    BY SendQueueAssumption DEF Reconnect, Retriers, IInv
  <2>2. ~OnWire(x)' /\ ~Replied(x)' /\ ~AtUi(x)'
    BY DEF Reconnect, OnWire, Replied, AtUi
  <2>3. /\ ~InFlight(x)' /\ ~Sending(x)' /\ ~InQueue(x)' /\ ~Waiting(x)'
        /\ ~Retrying("driver", x)' /\ ~Retrying("reader", x)'
    BY <2>1, <2>2 DEF InFlight, Sending, InQueue, Retrying, Waiting
  <2>4. Exclusive(x)'
    BY <2>2, <2>3 DEF Exclusive
  <2>5. sender'[x] = "idle" => outcome'[x] = "none" /\ applied[x] = 0
    BY <2>1 DEF RequestInv, EntryInv
  <2>6. EntryInv(x)'
    BY <2>1, <2>3, <2>5, SendQueueAssumption DEF EntryInv
  <2>7. AnswerInv(x)'
    BY <2>1, <2>2, <2>3 DEF RequestInv, AnswerInv
  <2>. QED BY <2>4, <2>6, <2>7 DEF RequestInv
<1>. QED BY <1>1, <1>2 DEF StepInv

(* The frame h the server takes is the only copy of an open request.       *)
LEMMA Received ==
  ASSUME IInv, NEW h \in Requests, OnWire(h)
  PROVE  /\ RequestInv(h) /\ ~Sending(h) /\ ~Replied(h) /\ ~AtUi(h) /\ ~Waiting(h)
         /\ ~Retrying("driver", h) /\ ~Retrying("reader", h)
         /\ sender[h] = "done" /\ applied[h] = 0 /\ outcome[h] # "error"
         /\ outcome[h] # "acked"
<1>1. RequestInv(h) /\ InFlight(h)
  BY DEF IInv, InFlight
<1>2. /\ ~Sending(h) /\ ~Replied(h) /\ ~AtUi(h) /\ ~Waiting(h)
      /\ ~Retrying("driver", h) /\ ~Retrying("reader", h) /\ sender[h] # "idle"
  BY <1>1 DEF RequestInv, Exclusive, EntryInv
<1>3. applied[h] # 1 /\ outcome[h] # "error" /\ outcome[h] # "acked" /\ applied[h] <= 1
  BY <1>1 DEF RequestInv, AnswerInv
<1>4. applied[h] = 0 /\ sender[h] = "done"
  BY <1>2, <1>3, Types DEF Sending
<1>. QED BY <1>1, <1>2, <1>3, <1>4

(* ServerAccept: the copy on the wire becomes an ack.                      *)
LEMMA ServerAcceptInv == ASSUME IInv, ServerAccept PROVE StepInv
<1> USE DEF clientVars, queue, boundVars
<1> PICK h : h = Head(toServer)
  OBVIOUS
<1>1. /\ toServer # << >> /\ toServer' = Tail(toServer) /\ msgCh' = msgCh
      /\ toClient' = Append(toClient, AckFrame(h))
      /\ applied' = [applied EXCEPT ![h] = applied[h] + 1]
      /\ state' = state /\ attempts' = attempts /\ lastError' = lastError
      /\ sender' = sender /\ outcome' = outcome /\ retry' = retry /\ encoding' = encoding
  BY DEF ServerAccept
<1>2. /\ h \in Requests /\ OnWire(h) /\ ~OnWire(h)'
      /\ WireInv' /\ \A x \in Requests : OnWire(x)' => OnWire(x)
  BY <1>1, WireTake DEF IInv
<1>3. /\ RequestInv(h) /\ ~Sending(h) /\ ~Replied(h) /\ ~AtUi(h) /\ ~Waiting(h)
      /\ ~Retrying("driver", h) /\ ~Retrying("reader", h)
      /\ sender[h] = "done" /\ applied[h] = 0 /\ outcome[h] # "error"
  BY <1>2, Received
<1>4. applied'[h] = 1 /\ \A x \in Requests : x # h => applied'[x] = applied[x]
  BY <1>1, <1>2, <1>3, Types
<1>5. /\ ReplyInv' /\ \A x \in Requests : Replied(x)' <=> Replied(x) \/ x = h
  <2>1. AckFrame(h) \in Frame /\ toClient \in Seq(Frame)
        /\ AckFrame(h).kind = "ack" /\ AckFrame(h).req = h
    BY <1>2 DEF AckFrame, Frame, IInv, TypeOK
  <2>2. \A x \in Requests : RepliedIn(toClient, x) => applied'[x] = applied[x]
    BY <1>3, <1>4 DEF RepliedIn, Replied
  <2>3. ~RepliedIn(toClient, h)
    BY <1>3 DEF RepliedIn, Replied
  <2>4. RepliesOK(toClient, applied)
    BY DEF IInv, ReplyInv
  <2>5. /\ \A x \in Requests : RepliedIn(Append(toClient, AckFrame(h)), x)
                                <=> RepliedIn(toClient, x) \/ x = AckFrame(h).req
        /\ RepliesOK(Append(toClient, AckFrame(h)), applied')
    BY <1>2, <1>4, <2>1, <2>2, <2>3, <2>4, ReplyPut
  <2>. QED BY <1>1, <2>1, <2>5 DEF ReplyInv, Replied, RepliedIn
<1>6. BacklogInv' /\ \A x \in Requests : AtUi(x)' => AtUi(x)
  BY <1>1, BacklogSame DEF IInv
<1>7. DriverInv'
  BY DEF ServerAccept, IInv, DriverInv
<1>8. \A x \in Requests : x # h => Kept(x) /\ Fewer(x)
  BY <1>1, <1>2, <1>4, <1>5, <1>6 DEF Kept, Fewer
<1>9. RequestInv(h)'
  <2>1. /\ ~OnWire(h)' /\ ~AtUi(h)' /\ ~Sending(h)' /\ ~Waiting(h)'
        /\ ~Retrying("driver", h)' /\ ~Retrying("reader", h)'
        /\ InQueue(h)' <=> InQueue(h)
    BY <1>1, <1>2, <1>3, <1>6 DEF Sending, Waiting, Retrying, InQueue
  <2>2. Exclusive(h)'
    BY <2>1 DEF Exclusive
  <2>3. EntryInv(h)'
    BY <1>1, <1>3, <2>1 DEF RequestInv, EntryInv, Waiting, InFlight
  <2>4. AnswerInv(h)'
    BY <1>1, <1>3, <1>4, <2>1 DEF RequestInv, AnswerInv
  <2>. QED BY <2>2, <2>3, <2>4 DEF RequestInv
<1>. QED BY <1>2, <1>5, <1>6, <1>7, <1>8, <1>9, OneRequest

(* An epoch_key behind the replies s changes nothing for any request.      *)
LEMMA KeyPut ==
  ASSUME NEW s \in Seq(Frame), NEW acc, NEW room \in Rooms, RepliesOK(s, acc)
  PROVE  /\ \A x \in Requests : RepliedIn(Append(s, KeyFrame(room)), x) <=> RepliedIn(s, x)
         /\ RepliesOK(Append(s, KeyFrame(room)), acc)
<1>1. KeyFrame(room) \in Frame /\ KeyFrame(room).kind = "epoch_key"
      /\ KeyFrame(room).req = NoRequest /\ "epoch_key" # "ack" /\ "epoch_key" # "error"
  BY DEF KeyFrame, Frame
<1>2. \A x \in Requests : x # NoRequest
  BY SendQueueAssumption
<1>. QED BY <1>1, <1>2, ReplyPut

(* ServerReject: the copy on the wire becomes an error, and maybe a push.  *)
LEMMA ServerRejectInv ==
  ASSUME IInv, NEW code \in ServerCodes, ServerReject(code) PROVE StepInv
<1> USE DEF clientVars, queue, boundVars
<1> PICK h : h = Head(toServer)
  OBVIOUS
<1> DEFINE f == ErrorFrame(h, code)
           e == Append(toClient, f)
<1>1. /\ toServer # << >> /\ toServer' = Tail(toServer) /\ msgCh' = msgCh
      /\ toClient' = (IF code = "B" /\ RoomOf[h] # NoRoom
                       THEN Append(e, KeyFrame(RoomOf[h])) ELSE e)
      /\ applied' = applied /\ state' = state /\ attempts' = attempts
      /\ lastError' = lastError
      /\ sender' = sender /\ outcome' = outcome /\ retry' = retry /\ encoding' = encoding
  BY DEF ServerReject
<1>2. /\ h \in Requests /\ OnWire(h) /\ ~OnWire(h)'
      /\ WireInv' /\ \A x \in Requests : OnWire(x)' => OnWire(x)
  BY <1>1, WireTake DEF IInv
<1>3. /\ RequestInv(h) /\ ~Sending(h) /\ ~Replied(h) /\ ~AtUi(h) /\ ~Waiting(h)
      /\ ~Retrying("driver", h) /\ ~Retrying("reader", h)
      /\ sender[h] = "done" /\ applied[h] = 0 /\ outcome[h] # "error"
  BY <1>2, Received
<1>4. /\ f \in Frame /\ f.kind = "error" /\ f.req = h /\ f.code \in Categories
      /\ toClient \in Seq(Frame)
  BY <1>2, SendQueueAssumption DEF ErrorFrame, Frame, IInv, TypeOK
<1>5. /\ \A x \in Requests : RepliedIn(e, x) <=> RepliedIn(toClient, x) \/ x = h
      /\ RepliesOK(e, applied)
  <2>1. ~RepliedIn(toClient, h) /\ RepliesOK(toClient, applied)
        /\ "error" # "ack" /\ "error" # "epoch_key"
    BY <1>3 DEF RepliedIn, Replied, IInv, ReplyInv
  <2> HIDE DEF f
  <2>. QED BY <1>2, <1>3, <1>4, <2>1, ReplyPut, ZenonT(40)
<1>6. e \in Seq(Frame)
  BY <1>4, AppendChannel
<1>7. /\ ReplyInv' /\ \A x \in Requests : Replied(x)' <=> Replied(x) \/ x = h
  <2> HIDE DEF e
  <2>1. CASE code = "B" /\ RoomOf[h] # NoRoom
    <3>1. RoomOf[h] \in Rooms /\ toClient' = Append(e, KeyFrame(RoomOf[h]))
      BY <1>1, <1>2, <2>1, SendQueueAssumption
    <3>2. /\ \A x \in Requests : RepliedIn(toClient', x) <=> RepliedIn(e, x)
          /\ RepliesOK(toClient', applied)
      BY <1>5, <1>6, <3>1, KeyPut
    <3>. QED BY <1>1, <1>5, <3>2 DEF ReplyInv, Replied, RepliedIn
  <2>2. CASE ~(code = "B" /\ RoomOf[h] # NoRoom)
    <3>1. toClient' = e
      BY <1>1, <2>2
    <3>. QED BY <1>1, <1>5, <3>1 DEF ReplyInv, Replied, RepliedIn
  <2>. QED BY <2>1, <2>2
<1>8. BacklogInv' /\ \A x \in Requests : AtUi(x)' => AtUi(x)
  BY <1>1, BacklogSame DEF IInv
<1>9. DriverInv'
  BY DEF ServerReject, IInv, DriverInv
<1>10. \A x \in Requests : x # h => Kept(x) /\ Fewer(x)
  BY <1>1, <1>2, <1>7, <1>8 DEF Kept, Fewer
<1>11. RequestInv(h)'
  <2>1. /\ ~OnWire(h)' /\ ~AtUi(h)' /\ ~Retrying("driver", h)' /\ ~Retrying("reader", h)'
    BY <1>1, <1>2, <1>3, <1>8 DEF Retrying
  <2>. QED BY <1>1, <1>2, <1>3, <2>1, Moved
<1>. QED BY <1>2, <1>7, <1>8, <1>9, <1>10, <1>11, OneRequest

(* ServerPushKey: an epoch_key answers no request.                         *)
LEMMA ServerPushKeyInv ==
  ASSUME IInv, NEW room \in Rooms, ServerPushKey(room) PROVE StepInv
<1> USE DEF clientVars, queue
<1>1. /\ toServer' = toServer /\ msgCh' = msgCh
      /\ toClient' = Append(toClient, KeyFrame(room))
      /\ applied' = applied /\ state' = state /\ attempts' = attempts
      /\ lastError' = lastError
      /\ sender' = sender /\ outcome' = outcome /\ retry' = retry /\ encoding' = encoding
  BY DEF ServerPushKey
<1>2. /\ ReplyInv' /\ \A x \in Requests : Replied(x)' => Replied(x)
  <2>1. toClient \in Seq(Frame) /\ RepliesOK(toClient, applied)
    BY DEF IInv, TypeOK, ReplyInv
  <2>2. /\ \A x \in Requests : RepliedIn(toClient', x) <=> RepliedIn(toClient, x)
        /\ RepliesOK(toClient', applied)
    BY <1>1, <2>1, KeyPut
  <2>. QED BY <1>1, <2>2 DEF ReplyInv, Replied, RepliedIn
<1>3. /\ WireInv' /\ BacklogInv'
      /\ \A x \in Requests : (OnWire(x)' => OnWire(x)) /\ (AtUi(x)' => AtUi(x))
  BY <1>1, WireSame, BacklogSame DEF IInv
<1>4. DriverInv'
  BY DEF ServerPushKey, IInv, DriverInv
<1>5. \A x \in Requests : Kept(x) /\ Fewer(x)
  BY <1>1, <1>2, <1>3 DEF Kept, Fewer
<1>. QED BY <1>2, <1>3, <1>4, <1>5, NoneTouched

(* Every step of the specification keeps the inductive invariant.          *)
LEMMA InvStep == ASSUME IInv, [Next]_vars PROVE IInv'
<1>1. TypeOK'
  BY TypeStep DEF IInv
<1>2. ASSUME NEW t \in Retriers PROVE t = "driver" =>
        /\ \A r \in Requests : RetryMark(t, r) => tick = "retry"
        /\ RetryEncode(t) => tick = "retry"
  BY SendQueueAssumption DEF IInv, DriverInv, RetryMark, RetryEncode
<1>3. StepInv
  <2>1. CASE Sender
    BY <2>1, SenderEnqueueInv, SenderMarkInv, SenderEncodeInv DEF Sender
  <2>2. CASE Driver
    <3>1. "driver" \in Retriers
      BY DEF Retriers
    <3>. QED
      BY <1>2, <2>2, <3>1, DriverSweepInv, DriverScanInv, QuietInv, DropInv,
         RetryMarkInv, RetryEncodeInv DEF Driver
  <2>3. CASE Reader
    <3>1. "reader" \in Retriers /\ "reader" # "driver"
      BY DEF Retriers
    <3>. QED
      BY <2>3, <3>1, ReadAckInv, ReadErrorInv, ReadEpochKeyInv, QuietInv,
         RetryMarkInv, RetryEncodeInv DEF Reader
  <2>4. CASE Ui
    <3>1. UiDropHistory => \E r \in Requests : uiDrop = r /\ UiDropHistory
      BY DEF UiDropHistory
    <3>. QED BY <2>4, <3>1, UiErrorInv, DropInv, QuietInv, ReconnectInv DEF Ui
  <2>5. CASE Environment
    BY <2>5, QuietInv, ServerAcceptInv, ServerRejectInv, ServerPushKeyInv DEF Environment
  <2>6. CASE UNCHANGED vars
    BY <2>6, QuietInv
  <2>. QED BY <2>1, <2>2, <2>3, <2>4, <2>5, <2>6 DEF Next
<1>. QED BY <1>1, <1>3 DEF IInv, StepInv

-----------------------------------------------------------------------------
(* The theorems.                                                           *)

(* IInv holds in every reachable state.                                    *)
THEOREM Inductive == Spec => []IInv
  BY InvInit, InvStep, PTL DEF Spec

(* The server accepts no request twice, however the driver, the readLoop   *)
(* and the TUI interleave their retries (sendqueue_driver.go:102-146).     *)
THEOREM NeverAppliedTwice == Spec => []AppliedAtMostOnce
<1>1. IInv => AppliedAtMostOnce
  BY DEF IInv, RequestInv, AnswerInv, AppliedAtMostOnce
<1>. QED BY <1>1, Inductive, PTL

(* A request the client has reported as failed was not accepted, and never *)
(* will be (Queue.Error, sendqueue.go:178-215).                            *)
THEOREM FailureIsFinal == Spec => []SurfacedNeverApplied
<1>1. IInv => SurfacedNeverApplied
  BY DEF IInv, RequestInv, AnswerInv, SurfacedNeverApplied
<1>. QED BY <1>1, Inductive, PTL

(* A request the client has reported as delivered was accepted (Queue.Ack, *)
(* sendqueue.go:152-167).                                                  *)
THEOREM AckIsTrue == Spec => []AckedWasApplied
<1>1. IInv => AckedWasApplied
  BY DEF IInv, RequestInv, AnswerInv, AckedWasApplied
<1>. QED BY <1>1, Inductive, PTL

(* No entry is sent more often than its budget allows (sendqueue.go:195).  *)
THEOREM BudgetHolds == Spec => []BudgetRespected
<1>1. IInv => BudgetRespected
  BY DEF IInv, RequestInv, EntryInv, BudgetRespected
<1>. QED BY <1>1, Inductive, PTL

(* There is never more than one copy of a request between the sender, the  *)
(* two re-senders, the wire, the replies and the TUI's backlog.            *)
THEOREM SingleCopy == Spec => []OneOutstanding
<1>1. IInv => OneOutstanding
  <2> SUFFICES ASSUME IInv PROVE OneOutstanding
    OBVIOUS
  <2>1. ASSUME NEW r \in Requests, NEW g \in Holders, NEW h \in Holders,
               Holds(g, r), Holds(h, r)
        PROVE  g = h
    <3>1. Exclusive(r)
      BY DEF IInv, RequestInv
    <3>2. /\ Holds("sender", r) <=> Sending(r)
          /\ Holds("driver", r) <=> Retrying("driver", r)
          /\ Holds("reader", r) <=> Retrying("reader", r)
          /\ Holds("wire", r) <=> OnWire(r)
          /\ Holds("reply", r) <=> Replied(r)
          /\ Holds("ui", r) <=> AtUi(r)
      BY DEF Holds, Sending, OnWire, Replied, AtUi
    <3>3. /\ Sending(r) => /\ ~OnWire(r) /\ ~Replied(r) /\ ~AtUi(r)
                           /\ ~Retrying("driver", r) /\ ~Retrying("reader", r)
          /\ Retrying("driver", r) => /\ ~OnWire(r) /\ ~Replied(r) /\ ~AtUi(r)
                                      /\ ~Retrying("reader", r)
          /\ Retrying("reader", r) => ~OnWire(r) /\ ~Replied(r) /\ ~AtUi(r)
          /\ OnWire(r) => ~Replied(r) /\ ~AtUi(r)
          /\ Replied(r) => ~AtUi(r)
      BY <3>1 DEF Exclusive, InFlight
    <3>4. CASE g = "sender"
      BY <2>1, <3>2, <3>3, <3>4 DEF Holders
    <3>5. CASE g = "driver"
      BY <2>1, <3>2, <3>3, <3>5 DEF Holders
    <3>6. CASE g = "reader"
      BY <2>1, <3>2, <3>3, <3>6 DEF Holders
    <3>7. CASE g = "wire"
      BY <2>1, <3>2, <3>3, <3>7 DEF Holders
    <3>8. CASE g = "reply"
      BY <2>1, <3>2, <3>3, <3>8 DEF Holders
    <3>9. CASE g = "ui"
      BY <2>1, <3>2, <3>3, <3>9 DEF Holders
    <3>. QED BY <3>4, <3>5, <3>6, <3>7, <3>8, <3>9 DEF Holders
  <2>. QED BY <2>1 DEF OneOutstanding, IInv, WireInv, ReplyInv, RepliesOK, BacklogInv
<1>. QED BY <1>1, Inductive, PTL

(* An entry goes back on the wire only from pending, after a retriable     *)
(* rejection (MarkSending from driverTick and TriggerEpochRetry).          *)
THEOREM ResendsFollowRejections == Spec => ResendOnlyRejected
<1> DEFINE A == \A r \in Requests :
                  attempts[r] > 0 /\ attempts'[r] > attempts[r]
                    => state[r] = "pending" /\ lastError[r] \in Retriable
<1>1. ASSUME IInv, [Next]_vars, NEW r \in Requests,
             attempts[r] > 0, attempts'[r] > attempts[r]
      PROVE  state[r] = "pending" /\ lastError[r] \in Retriable
  <2>1. attempts[r] \in Nat /\ attempts'[r] # attempts[r] /\ attempts'[r] # 0
        /\ attempts[r] # 0
    BY <1>1, Types
  <2>2. ASSUME NEW x, NEW how, Leave(x, how) PROVE attempts'[r] \in {0, attempts[r]}
    BY <1>1, <2>2, Types DEF Leave
  <2>3. ASSUME NEW x, NEW code, Error(x, code) PROVE attempts'[r] \in {0, attempts[r]}
    BY <2>2, <2>3 DEF Error
  <2>4. \E x \in Requests : SenderMark(x) \/ \E t \in Retriers : RetryMark(t, x)
    <3>1. ASSUME attempts' = attempts PROVE FALSE
      BY <2>1, <3>1
    <3>2. ASSUME Reconnect PROVE FALSE
      BY <2>1, <3>2 DEF Reconnect
    <3>3. ASSUME NEW x \in Requests, SenderEncode(x) PROVE FALSE
      BY <2>1, <2>2, <3>3 DEF SenderEncode, Drop, queue
    <3>. USE DEF queue, clientVars, vars
    <3>4. CASE Sender
      BY <3>1, <3>3, <3>4 DEF Sender, SenderEnqueue, EnqueueWithID
    <3>5. CASE Driver
      BY <2>1, <2>2, <3>1, <3>5
      DEF Driver, DriverSweep, DriverScan, DriverDone, DriverDrop, RetryEncode, Retriers
    <3>6. CASE Reader
      BY <2>1, <2>2, <2>3, <3>1, <3>6
      DEF Reader, ReadAck, Ack, ReadError, ReadEpochKey, ReadFails, RetryEncode, Retriers
    <3>7. CASE Ui
      BY <2>1, <2>2, <2>3, <3>1, <3>2, <3>7
      DEF Ui, UiError, UiDropHistory, GoOffline, UiAbandon, Drop
    <3>8. CASE Environment
      BY <3>1, <3>8 DEF Environment, Elapse, LinkBreak, ServerAccept, ServerReject, ServerPushKey
    <3>9. CASE UNCHANGED vars
      BY <3>1, <3>9
    <3>. QED BY <1>1, <3>4, <3>5, <3>6, <3>7, <3>8, <3>9 DEF Next
  <2>5. PICK x \in Requests : SenderMark(x) \/ \E t \in Retriers : RetryMark(t, x)
    BY <2>4
  <2>6. MarkSending(x)
    BY <2>5 DEF SenderMark, RetryMark
  <2>7. x = r /\ InQueue(r)
    BY <2>1, <2>6, <1>1, Types DEF MarkSending, queue
  <2>8. RequestInv(r)
    BY <1>1 DEF IInv
  <2>9. ~SenderMark(r)
    BY <2>1, <2>7, <2>8 DEF SenderMark, RequestInv, EntryInv
  <2>10. Waiting(r)
    BY <2>5, <2>7, <2>8, <2>9 DEF RetryMark, RequestInv, EntryInv, Retriers
  <2>. QED BY <2>8, <2>10 DEF Waiting, RequestInv, EntryInv
<1>2. IInv /\ [Next]_vars => A
  BY <1>1
<1>3. IInv /\ [Next]_vars => [A]_vars
  BY <1>2
<1>. QED BY <1>3, Inductive, PTL DEF Spec, ResendOnlyRejected

-----------------------------------------------------------------------------
(* The refinement: what the callers know is a behaviour of AtMostOnce.     *)

(* What the caller knows of a request, case by case.                       *)
LEMMA StatusNow ==
  ASSUME NEW x \in Requests
  PROVE  /\ outcome[x] = "acked" => StatusOf(x) = "acked"
         /\ outcome[x] = "error" => StatusOf(x) = "failed"
         /\ outcome[x] \in {"swept", "dropped", "lost"} => StatusOf(x) = "closed"
         /\ outcome[x] = "none" /\ sender[x] # "idle" => StatusOf(x) = "open"
         /\ outcome[x] = "none" /\ sender[x] = "idle" => StatusOf(x) = "new"
  BY DEF StatusOf

(* See StatusNow: the same for the next state.                             *)
LEMMA StatusNext ==
  ASSUME NEW x \in Requests
  PROVE  /\ outcome'[x] = "acked" => StatusOf(x)' = "acked"
         /\ outcome'[x] = "error" => StatusOf(x)' = "failed"
         /\ outcome'[x] \in {"swept", "dropped", "lost"} => StatusOf(x)' = "closed"
         /\ outcome'[x] = "none" /\ sender'[x] # "idle" => StatusOf(x)' = "open"
         /\ outcome'[x] = "none" /\ sender'[x] = "idle" => StatusOf(x)' = "new"
  BY DEF StatusOf

(* A request whose outcome is kept keeps its status.                       *)
LEMMA StatusSame ==
  ASSUME NEW x \in Requests, outcome[x] \in Outcomes, outcome'[x] = outcome[x],
         (sender'[x] = "idle") <=> (sender[x] = "idle")
  PROVE  StatusOf(x)' = StatusOf(x)
  BY StatusNow, StatusNext DEF Outcomes

(* A step that changes what is known of the requests in S, to v.           *)
LEMMA StatusStep ==
  ASSUME NEW S, NEW v,
         \A x \in Requests : x \notin S => StatusOf(x)' = StatusOf(x),
         \A x \in Requests : x \in S => StatusOf(x)' = v
  PROVE  Status' = [x \in Requests |-> IF x \in S THEN v ELSE Status[x]]
  BY DEF Status

(* A step that changes what is known of the request r alone, to v.         *)
LEMMA StatusOne ==
  ASSUME NEW r \in Requests, NEW v,
         \A x \in Requests : x # r => StatusOf(x)' = StatusOf(x),
         StatusOf(r)' = v
  PROVE  /\ Status' = [Status EXCEPT ![r] = v]
         /\ Status' = [x \in Requests |-> IF x \in {r} THEN v ELSE Status[x]]
  BY DEF Status

(* A step that decides nothing is a stutter of the promise.                *)
LEMMA PromiseQuiet ==
  ASSUME IInv, outcome' = outcome, applied' = applied,
         \A x \in Requests : (sender'[x] = "idle") <=> (sender[x] = "idle")
  PROVE  UNCHANGED Promise!vars
<1>1. \A x \in Requests : StatusOf(x)' = StatusOf(x)
  BY StatusSame, Types
<1>2. Status' = Status
  BY <1>1 DEF Status
<1>. QED BY <1>2 DEF Promise!vars

(* Leave closes, acknowledges or fails the request, as how says.           *)
LEMMA PromiseLeave ==
  ASSUME IInv, NEW r \in Requests,
         NEW how \in {"acked", "error", "swept", "dropped"}, Leave(r, how),
         applied' = applied,
         \A x \in Requests : (sender'[x] = "idle") <=> (sender[x] = "idle"),
         how = "acked" => applied[r] = 1,
         how = "error" => applied[r] = 0
  PROVE  Promise!Next \/ UNCHANGED Promise!vars
<1>1. CASE ~InQueue(r)
  <2>1. outcome' = outcome
    BY <1>1, Types DEF Leave
  <2>. QED BY <2>1, PromiseQuiet
<1>2. CASE InQueue(r)
  <2>1. outcome[r] = "none" /\ sender[r] # "idle"
    BY <1>2 DEF IInv, RequestInv, EntryInv
  <2>2. Status[r] = "open"
    BY <2>1, StatusNow DEF Status
  <2>3. outcome'[r] = how /\ \A x \in Requests : x # r => outcome'[x] = outcome[x]
    BY <1>2, Types DEF Leave
  <2>4. \A x \in Requests : x # r => StatusOf(x)' = StatusOf(x)
    BY <2>3, StatusSame, Types
  <2>6. CASE how = "acked"
    <3>1. StatusOf(r)' = "acked"
      BY <2>3, <2>6, StatusNext
    <3>2. Status' = [Status EXCEPT ![r] = "acked"]
      BY <2>4, <3>1, StatusOne
    <3>. QED BY <2>2, <2>6, <3>2 DEF Promise!Next, Promise!Acknowledge
  <2>7. CASE how = "error"
    <3>1. StatusOf(r)' = "failed"
      BY <2>3, <2>7, StatusNext
    <3>2. Status' = [Status EXCEPT ![r] = "failed"]
      BY <2>4, <3>1, StatusOne
    <3>. QED BY <2>2, <2>7, <3>2 DEF Promise!Next, Promise!Fail
  <2>8. CASE how \in {"swept", "dropped"}
    <3>1. StatusOf(r)' = "closed"
      BY <2>3, <2>8, StatusNext
    <3>2. Status' = [x \in Requests |-> IF x \in {r} THEN "closed" ELSE Status[x]]
      BY <2>4, <3>1, StatusOne
    <3>3. Promise!Close({r})
      BY <2>2, <3>2 DEF Promise!Close
    <3>. QED BY <3>3 DEF Promise!Next
  <2>. QED BY <2>6, <2>7, <2>8
<1>. QED BY <1>1, <1>2

(* The initial state is an initial state of the promise.                   *)
LEMMA PromiseInit == ASSUME Init PROVE Promise!Init
<1>1. \A x \in Requests : outcome[x] = "none" /\ sender[x] = "idle"
  BY DEF Init
<1>2. Status = [x \in Requests |-> "new"]
  BY <1>1, StatusNow DEF Status
<1>. QED BY <1>2 DEF Init, Promise!Init

(* Every step is a step of the promise, or a stutter.                      *)
LEMMA PromiseStep ==
  ASSUME IInv, [Next]_vars PROVE Promise!Next \/ UNCHANGED Promise!vars
<1> USE DEF queue, clientVars, chanVars, boundVars
<1>1. ASSUME NEW r \in Requests, SenderEnqueue(r) PROVE Promise!Next
  <2>1. sender[r] = "idle" /\ outcome[r] = "none"
    BY <1>1 DEF SenderEnqueue, IInv, RequestInv, EntryInv
  <2>2. Status[r] = "new"
    BY <2>1, StatusNow DEF Status
  <2>3. outcome' = outcome /\ applied' = applied /\ sender' = [sender EXCEPT ![r] = "queued"]
    BY <1>1 DEF SenderEnqueue
  <2>4. ASSUME NEW x \in Requests, x # r PROVE StatusOf(x)' = StatusOf(x)
    <3>1. outcome'[x] = outcome[x] /\ sender'[x] = sender[x] /\ outcome[x] \in Outcomes
      BY <2>3, <2>4, Types
    <3>. QED BY <3>1, StatusSame
  <2>5. StatusOf(r)' = "open"
    BY <2>1, <2>3, StatusNext, Types
  <2>7. Status' = [Status EXCEPT ![r] = "open"]
    BY <2>4, <2>5, StatusOne
  <2>. QED BY <2>2, <2>3, <2>7 DEF Promise!Next, Promise!Submit
<1>2. ASSUME NEW r \in Requests, SenderMark(r) PROVE UNCHANGED Promise!vars
  <2>1. outcome' = outcome /\ applied' = applied
    BY <1>2 DEF SenderMark
  <2>2. \A x \in Requests : (sender'[x] = "idle") <=> (sender[x] = "idle")
    BY <1>2, Types DEF SenderMark
  <2>. QED BY <2>1, <2>2, PromiseQuiet
<1>3. ASSUME NEW r \in Requests, SenderEncode(r)
      PROVE  Promise!Next \/ UNCHANGED Promise!vars
  <2>1. applied' = applied /\ \A x \in Requests : (sender'[x] = "idle") <=> (sender[x] = "idle")
    BY <1>3, Types DEF SenderEncode
  <2>2. Leave(r, "dropped") \/ outcome' = outcome
    BY <1>3 DEF SenderEncode, Drop
  <2>3. "dropped" \in {"acked", "error", "swept", "dropped"}
        /\ "dropped" # "acked" /\ "dropped" # "error"
    OBVIOUS
  <2>. QED BY <2>1, <2>2, <2>3, PromiseLeave, PromiseQuiet
<1>4. ASSUME applied' = applied, sender' = sender, outcome' = outcome
      PROVE  UNCHANGED Promise!vars
  BY <1>4, PromiseQuiet
<1>5. ASSUME NEW r \in Requests, NEW how \in {"swept", "dropped"}, Leave(r, how),
             applied' = applied, sender' = sender
      PROVE  Promise!Next \/ UNCHANGED Promise!vars
  <2>1. how \in {"acked", "error", "swept", "dropped"} /\ how # "acked" /\ how # "error"
    OBVIOUS
  <2>2. \A x \in Requests : (sender'[x] = "idle") <=> (sender[x] = "idle")
    BY <1>5
  <2>. QED BY <1>5, <2>1, <2>2, PromiseLeave
<1>6. ASSUME NEW r \in Requests, NEW code, Error(r, code),
             applied' = applied, sender' = sender, applied[r] = 0
      PROVE  Promise!Next \/ UNCHANGED Promise!vars
  <2>1. outcome' = outcome \/ Leave(r, "error")
    BY <1>6 DEF Error
  <2>2. "error" \in {"acked", "error", "swept", "dropped"} /\ "error" # "acked"
    OBVIOUS
  <2>3. \A x \in Requests : (sender'[x] = "idle") <=> (sender[x] = "idle")
    BY <1>6
  <2>. QED BY <1>4, <1>6, <2>1, <2>2, <2>3, PromiseLeave
<1>7. ASSUME ReadAck PROVE Promise!Next \/ UNCHANGED Promise!vars
  <2> PICK f : f = Head(toClient)
    OBVIOUS
  <2>1. /\ toClient # << >> /\ toClient' = Tail(toClient) /\ f.kind = "ack"
        /\ Leave(f.req, "acked") /\ applied' = applied /\ sender' = sender
    BY <1>7 DEF ReadAck, Receive, Ack
  <2>2. f.req \in Requests /\ applied[f.req] = 1
    BY <2>1, ReplyTake DEF IInv
  <2>3. "acked" \in {"acked", "error", "swept", "dropped"} /\ "acked" # "error"
    OBVIOUS
  <2>4. \A x \in Requests : (sender'[x] = "idle") <=> (sender[x] = "idle")
    BY <2>1
  <2>. QED BY <2>1, <2>2, <2>3, <2>4, PromiseLeave
<1>8. ASSUME ReadError PROVE Promise!Next \/ UNCHANGED Promise!vars
  <2> PICK f : f = Head(toClient)
    OBVIOUS
  <2>1. /\ toClient # << >> /\ toClient' = Tail(toClient) /\ f.kind = "error"
        /\ applied' = applied /\ sender' = sender
        /\ Error(f.req, f.code) \/ outcome' = outcome
    BY <1>8 DEF ReadError, Receive
  <2>2. f.req \in Requests /\ applied[f.req] = 0
    BY <2>1, ReplyTake DEF IInv
  <2>. QED BY <1>4, <1>6, <2>1, <2>2
<1>9. ASSUME UiError PROVE Promise!Next \/ UNCHANGED Promise!vars
  <2> PICK f : f = Head(msgCh)
    OBVIOUS
  <2>1. /\ msgCh # << >> /\ msgCh' = Tail(msgCh) /\ Error(f.req, f.code)
        /\ applied' = applied /\ sender' = sender
    BY <1>9 DEF UiError
  <2>2. f.req \in Requests /\ AtUi(f.req)
    BY <2>1, BacklogTake DEF IInv
  <2>3. applied[f.req] = 0
    BY <2>2, Rejected
  <2>. QED BY <1>6, <2>1, <2>2, <2>3
<1>10. ASSUME Reconnect PROVE Promise!Next
  <2> DEFINE S == {x \in Requests : InQueue(x)}
  <2>1. \A x \in Requests : x \in S => outcome[x] = "none" /\ sender[x] # "idle"
    BY DEF IInv, RequestInv, EntryInv
  <2>2. \A x \in S : Status[x] = "open"
    BY <2>1, StatusNow DEF Status
  <2>3. \A x \in Requests : x \in S => StatusOf(x)' = "closed"
    BY <1>10, StatusNext DEF Reconnect
  <2>4. \A x \in Requests : x \notin S => StatusOf(x)' = StatusOf(x)
    BY <1>10, StatusSame, Types DEF Reconnect
  <2>5. Status' = [x \in Requests |-> IF x \in S THEN "closed" ELSE Status[x]]
    BY <2>3, <2>4, StatusStep, ZenonT(40)
  <2>6. applied' = applied /\ S \in SUBSET Requests
    BY <1>10 DEF Reconnect
  <2>7. Promise!Close(S)
    BY <2>2, <2>5, <2>6 DEF Promise!Close
  <2>. QED BY <2>6, <2>7 DEF Promise!Next
<1>11. ASSUME ServerAccept PROVE Promise!Next
  <2> PICK h : h = Head(toServer)
    OBVIOUS
  <2>1. /\ toServer # << >> /\ toServer' = Tail(toServer)
        /\ applied' = [applied EXCEPT ![h] = applied[h] + 1]
        /\ sender' = sender /\ outcome' = outcome
    BY <1>11 DEF ServerAccept
  <2>2. h \in Requests /\ OnWire(h)
    BY <2>1, WireTake DEF IInv
  <2>3. applied[h] = 0 /\ sender[h] = "done" /\ outcome[h] \notin {"acked", "error"}
    BY <2>2, Received
  <2>4. Status[h] \in {"open", "closed"}
    BY <2>2, <2>3, StatusNow, Types DEF Status, Outcomes
  <2>5. applied' = [applied EXCEPT ![h] = 1]
    BY <2>1, <2>3
  <2>6. Status' = Status
    BY <2>1, StatusSame, Types DEF Status
  <2>. QED BY <2>2, <2>3, <2>4, <2>5, <2>6 DEF Promise!Next, Promise!Accept
<1>12. CASE Sender
  BY <1>1, <1>2, <1>3, <1>12 DEF Sender
<1>13. CASE Driver
  BY <1>4, <1>5, <1>13
  DEF Driver, DriverSweep, DriverScan, DriverDone, DriverDrop, RetryMark, RetryEncode
<1>14. CASE Reader
  BY <1>4, <1>7, <1>8, <1>14 DEF Reader, ReadEpochKey, ReadFails, RetryMark, RetryEncode
<1>15. CASE Ui
  BY <1>4, <1>5, <1>9, <1>10, <1>15 DEF Ui, UiDropHistory, UiAbandon, Drop, GoOffline
<1>16. CASE Environment
  BY <1>4, <1>11, <1>16 DEF Environment, Elapse, LinkBreak, ServerReject, ServerPushKey
<1>17. CASE UNCHANGED vars
  BY <1>4, <1>17 DEF vars
<1>. QED BY <1>12, <1>13, <1>14, <1>15, <1>16, <1>17 DEF Next

(* The queue keeps its promise: a request is accepted at most once, an     *)
(* acknowledgement and a failure both tell the truth, for good.            *)
THEOREM KeepsPromise == Spec => DeliversAtMostOnce
<1>1. IInv /\ [Next]_vars => [Promise!Next]_(Promise!vars)
  BY PromiseStep
<1>. QED BY <1>1, PromiseInit, Inductive, PTL DEF Spec, DeliversAtMostOnce, Promise!Spec

=============================================================================
