------------------------- MODULE FileTransferProofs -------------------------
(***************************************************************************)
(* Theorems of FileTransfer, for any threads, uploads, files, bounds and   *)
(* connections, from FileTransferAssumption. The argument follows one      *)
(* download through the connection: while its thread holds downloadChanMu, *)
(* the request, its answer and the signal are one thing in one place, and  *)
(* its frame is the only one on channel 2 (Stage); a new holder finds      *)
(* nothing left unless a thread slipped away. For uploads: the server      *)
(* expects whoever writes, the mutex keeps the two parts of a frame        *)
(* together, and an answer on its way says what is so (AnswerOK).          *)
(***************************************************************************)
EXTENDS FileTransfer, FiniteSetTheorems, SequenceTheorems, TLAPS

(* The records of the variables: a download thread, an upload thread and   *)
(* half a frame of channel 3.                                              *)
Thread == [pc : {"idle", "enter", "lock", "wait", "read"},
           file : Files \cup {None}, gen : 0..MaxSessions,
           started : BOOLEAN, failed : {"no", "again", "final"}]

Shipment == [pc : {"idle", "start", "lock", "write", "sent", "done"},
             gen : 0..MaxSessions, ready : BOOLEAN,
             file : Files \cup {None}, result : Files \cup {None}]

Part == [id : Uploads, part : {"head", "data"}]

(* The kinds of the variables, in groups: what the argument needs of       *)
(* TypeOK.                                                                 *)
DownKinds ==
  /\ up \in BOOLEAN /\ session \in 1..MaxSessions
  /\ task \in [Tasks -> Thread]
  /\ registered \in [Files -> Tasks \cup {None}]
  /\ holder \in [1..MaxSessions -> Tasks \cup {None}]
  /\ slipped \in BOOLEAN

UpKinds ==
  /\ upload \in [Uploads -> Shipment]
  /\ ulHolder \in [1..MaxSessions -> Uploads \cup {None}]
  /\ expected \subseteq Uploads

WireKinds ==
  /\ retry \in [Requests -> Nat]
  /\ toServer \in Seq(Requests)
  /\ ch1 \in Seq(Answers)
  /\ ch2 \in Seq(Contents \cup {None})
  /\ ch3 \in Seq(Part)

StoreKinds ==
  /\ cache \in [Files -> Contents \cup {None}]
  /\ blob \in [Files -> Contents \cup {None}]

(* A thread under way works for a connection that has been made, on a file *)
(* the server stores; it reads only once it was woken.                     *)
TaskInv ==
  \A d \in Tasks :
    /\ task[d].gen <= session
    /\ task[d].pc = "idle" => task[d].gen = 0
    /\ task[d].pc # "idle" => /\ task[d].file \in Files
                              /\ blob[task[d].file] # None
                              /\ task[d].gen # 0
    /\ task[d].pc = "read" => task[d].started

(* The thread between the request and its frame holds downloadChanMu of    *)
(* its Client, and no other thread does.                                   *)
MutexInv ==
  /\ \A d \in Tasks :
       task[d].pc \in {"wait", "read"} => holder[task[d].gen] = d
  /\ \A s \in 1..MaxSessions, d \in Tasks :
       holder[s] = d => task[d].gen = s /\ task[d].pc \in {"wait", "read"}

(* What an answer on channel 1 says is so when it is read: it names the    *)
(* file or upload of its kind, upload_ready that the server expects the    *)
(* bytes, upload_complete what it stored.                                  *)
AnswerOK(a) ==
  /\ a.kind \in {"start", "download_error"} => a.id \in Files
  /\ a.kind = "start" => ~a.again
  /\ a.kind \in {"ready", "complete"} => a.id \in Uploads
  /\ a.kind = "complete" => a.file \in Files /\ blob[a.file] = a.id
  /\ a.kind = "ready" /\ upload[a.id].pc \notin {"sent", "done"} =>
       a.id \in expected

AnswerInv == \A i \in 1..Len(ch1) : AnswerOK(ch1[i])

(* The server stores what was posted and what was uploaded; the cache      *)
(* holds nothing else.                                                     *)
StoreInv ==
  /\ \A f \in Posted : blob[f] = f
  /\ \A u \in Uploads : /\ upload[u].file # None => blob[upload[u].file] = u
                        /\ upload[u].result # None => blob[upload[u].result] = u
  /\ \A f \in Files : cache[f] \in {None, blob[f]}

(* The answers that will wake a thread, and the threads of this connection *)
(* that were woken: each has a frame of its own on channel 2.              *)
StartsOf(s) == {i \in 1..Len(s) : s[i].kind = "start"}
Woken == {d \in Tasks : task[d].gen = session /\ task[d].started}
CountInv == /\ IsFiniteSet(Woken)
            /\ Cardinality(StartsOf(ch1)) + Cardinality(Woken) <= Len(ch2)

(* What is under way for a download, wherever it is: the request on        *)
(* channel 1, the rejected request in the send queue, the answer on        *)
(* channel 1 and the signal in a thread. There is none of it, or one for   *)
(* the file f and no other.                                                *)
NoGet(s) == \A i \in 1..Len(s) : s[i].kind # "download"
OneGet(s, f) ==
  \E i \in 1..Len(s) :
    /\ s[i] = Get(f)
    /\ \A j \in 1..Len(s) : j # i => s[j].kind # "download"

NoRetry == \A f \in Files : retry[Get(f)] = 0
OneRetry(f) == \A g \in Files : retry[Get(g)] = IF g = f THEN 1 ELSE 0

NoAnswer(s) == \A i \in 1..Len(s) : s[i].id \notin Files
OneAnswer(s, f, served) ==
  \E i \in 1..Len(s) :
    /\ s[i].id = f /\ (s[i].kind = "start" <=> served)
    /\ \A j \in 1..Len(s) : j # i => s[j].id \notin Files

Signal(d) ==
  task[d].gen = session /\ (task[d].started \/ task[d].failed = "final")
NoSignal == \A d \in Tasks : ~Signal(d)
OneSignal(f) ==
  \E d \in Tasks :
    /\ task[d].gen = session
    /\ \/ task[d].started /\ task[d].failed # "final" /\ ch2 = <<blob[f]>>
       \/ ~task[d].started /\ task[d].failed = "final" /\ ch2 = <<>>
    /\ \A e \in Tasks : Signal(e) => e = d

NoReply == NoAnswer(ch1) /\ NoSignal

(* Where the download of f stands while its thread holds the mutex. The    *)
(* frame of f, and no other, is on channel 2 from the answer on; Over: the *)
(* thread that was signalled is not the one that holds the mutex, and its  *)
(* frame may be left.                                                      *)
Sent(f)     == OneGet(toServer, f) /\ NoRetry /\ NoReply /\ ch2 = <<>>
Queued(f)   == NoGet(toServer) /\ OneRetry(f) /\ NoReply /\ ch2 = <<>>
Answered(f) == /\ NoGet(toServer) /\ NoRetry /\ NoSignal
               /\ \/ OneAnswer(ch1, f, TRUE) /\ ch2 = <<blob[f]>>
                  \/ OneAnswer(ch1, f, FALSE) /\ ch2 = <<>>
Told(f)     == NoGet(toServer) /\ NoRetry /\ NoAnswer(ch1) /\ OneSignal(f)
Over(f)     == /\ NoGet(toServer) /\ NoRetry /\ NoReply
               /\ ch2 = <<>> \/ ch2 = <<blob[f]>>
Nothing     == NoGet(toServer) /\ NoRetry /\ NoReply /\ ch2 = <<>>

Stage(f) == Sent(f) \/ Queued(f) \/ Answered(f) \/ Told(f) \/ Over(f)

(* Until a download of the connection slips, nothing is under way but the  *)
(* download that holds the mutex.                                          *)
PipeInv ==
  up /\ ~slipped =>
    /\ holder[session] = None => Nothing
    /\ \A d \in Tasks, f \in Files :
         holder[session] = d /\ task[d].file = f => Stage(f)

(* An upload goes on to write when the server has said it is ready, so     *)
(* that the server expects it until its bytes are taken; the one that      *)
(* writes holds uploadChanMu.                                              *)
UploadInv ==
  /\ \A u \in Uploads :
       /\ upload[u].gen <= session
       /\ upload[u].pc = "idle" => upload[u].gen = 0
       /\ upload[u].pc # "idle" => upload[u].gen # 0
       /\ upload[u].pc \in {"lock", "write"} => upload[u].ready
       /\ upload[u].pc \notin {"sent", "done"} /\ upload[u].ready
            /\ upload[u].gen = session => u \in expected
       /\ upload[u].pc = "write" => ulHolder[upload[u].gen] = u
  /\ \A s \in 1..MaxSessions, u \in Uploads :
       ulHolder[s] = u => upload[u].gen = s /\ upload[u].pc = "write"

(* What is on channel 3 is of uploads the server expects, each part of it  *)
(* once.                                                                   *)
BytesInv ==
  /\ \A i \in 1..Len(ch3) :
       /\ ch3[i].id \in expected
       /\ upload[ch3[i].id].pc \in {"write", "sent", "done"}
       /\ ch3[i].part = "data" => upload[ch3[i].id].pc # "write"
  /\ \A i, j \in 1..Len(ch3) : ch3[i] = ch3[j] => i = j

(* A frame begun on channel 3 is its holder's: nothing else goes in        *)
(* between.                                                                *)
TurnInv ==
  up => /\ Len(ch3) % 2 = 1 => ulHolder[session] = ch3[Len(ch3)].id
        /\ Len(ch3) % 2 = 0 => ulHolder[session] = None

(* The inductive invariant, in four parts that most steps leave alone.     *)
DownPart  == DownKinds /\ TaskInv /\ MutexInv /\ CountInv /\ PipeInv
UpPart    == UpKinds /\ UploadInv /\ BytesInv /\ FramesWhole /\ TurnInv
StorePart == StoreKinds /\ StoreInv
WirePart  == WireKinds /\ AnswerInv

IInv == DownPart /\ UpPart /\ StorePart /\ WirePart

-----------------------------------------------------------------------------
(* What each step makes of the record of a thread, field by field.         *)
Pcs == {"idle", "enter", "lock", "wait", "read"}

(* See Pcs.                                                                *)
LEMMA Moved ==
  ASSUME NEW t \in Thread, NEW p \in Pcs
  PROVE  LET n == [t EXCEPT !.pc = p]
         IN  /\ n \in Thread /\ n.pc = p /\ n.file = t.file /\ n.gen = t.gen
             /\ n.started = t.started /\ n.failed = t.failed
<1>1. [t EXCEPT !.pc = p] \in Thread
  BY Zenon DEF Thread, Pcs
<1> QED BY <1>1 DEF Thread

(* See Pcs.                                                                *)
LEMMA Woke ==
  ASSUME NEW t \in Thread
  PROVE  LET n == [t EXCEPT !.started = TRUE]
         IN  /\ n \in Thread /\ n.pc = t.pc /\ n.file = t.file /\ n.gen = t.gen
             /\ n.started = TRUE /\ n.failed = t.failed
<1>1. [t EXCEPT !.started = TRUE] \in Thread
  BY Zenon DEF Thread
<1> QED BY <1>1 DEF Thread

(* See Pcs.                                                                *)
LEMMA Refusal ==
  ASSUME NEW t \in Thread, NEW w \in {"again", "final"}
  PROVE  LET n == [t EXCEPT !.failed = w]
         IN  /\ n \in Thread /\ n.pc = t.pc /\ n.file = t.file /\ n.gen = t.gen
             /\ n.started = t.started /\ n.failed = w
<1>1. [t EXCEPT !.failed = w] \in Thread
  BY Zenon DEF Thread
<1> QED BY <1>1 DEF Thread

(* See Pcs.                                                                *)
LEMMA IdleThread ==
  /\ Idle \in Thread
  /\ Idle.pc = "idle" /\ Idle.gen = 0 /\ Idle.started = FALSE /\ Idle.failed = "no"
<1>1. 0 \in 0..MaxSessions
  BY FileTransferAssumption
<1>2. Idle \in Thread
  BY <1>1, Zenon DEF Thread, Idle
<1> QED BY <1>2 DEF Idle

(* See Pcs.                                                                *)
LEMMA NewThread ==
  ASSUME NEW f \in Files, NEW g \in 0..MaxSessions
  PROVE  LET n == [Idle EXCEPT !.pc = "enter", !.file = f, !.gen = g]
         IN  /\ n \in Thread /\ n.pc = "enter" /\ n.file = f /\ n.gen = g
             /\ n.started = FALSE /\ n.failed = "no"
<1> DEFINE a == [Idle EXCEPT !.pc = "enter"]
           b == [a EXCEPT !.file = f]
           c == [b EXCEPT !.gen = g]
<1>1. a \in Thread /\ a.pc = "enter" /\ a.started = FALSE /\ a.failed = "no"
  BY Moved, IdleThread DEF Pcs
<1>2. [Idle EXCEPT !.pc = "enter", !.file = f, !.gen = g] = c
  OBVIOUS
<1> HIDE DEF a
<1>3. b \in Thread
  BY <1>1, Zenon DEF Thread
<1>4. b.pc = "enter" /\ b.file = f /\ b.started = FALSE /\ b.failed = "no"
  BY <1>1 DEF Thread
<1> HIDE DEF b
<1>5. c \in Thread
  BY <1>3, Zenon DEF Thread
<1>6. c.pc = "enter" /\ c.file = f /\ c.gen = g /\ c.started = FALSE /\ c.failed = "no"
  BY <1>3, <1>4 DEF Thread
<1> QED BY <1>2, <1>5, <1>6, Zenon

(* The same, of the record of an upload.                                   *)
LEMMA Shipped ==
  ASSUME NEW t \in Shipment, NEW p \in {"idle", "start", "lock", "write", "sent", "done"}
  PROVE  LET n == [t EXCEPT !.pc = p]
         IN  /\ n \in Shipment /\ n.pc = p /\ n.gen = t.gen /\ n.ready = t.ready
             /\ n.file = t.file /\ n.result = t.result
<1>1. [t EXCEPT !.pc = p] \in Shipment
  BY Zenon DEF Shipment
<1> QED BY <1>1 DEF Shipment

(* See Shipped.                                                            *)
LEMMA UnsentShipment ==
  /\ Unsent \in Shipment
  /\ Unsent.pc = "idle" /\ Unsent.gen = 0 /\ Unsent.ready = FALSE
  /\ Unsent.file = None /\ Unsent.result = None
<1>1. 0 \in 0..MaxSessions
  BY FileTransferAssumption
<1>2. Unsent \in Shipment
  BY <1>1, Zenon DEF Shipment, Unsent
<1> QED BY <1>2 DEF Unsent

(* See Shipped.                                                            *)
LEMMA Begun ==
  ASSUME NEW t \in Shipment, NEW g \in 1..MaxSessions
  PROVE  LET n == [t EXCEPT !.pc = "start", !.gen = g]
         IN  /\ n \in Shipment /\ n.pc = "start" /\ n.gen = g /\ n.ready = t.ready
             /\ n.file = t.file /\ n.result = t.result
<1> DEFINE a == [t EXCEPT !.pc = "start"]
           b == [a EXCEPT !.gen = g]
<1>1. /\ a \in Shipment /\ a.pc = "start" /\ a.ready = t.ready
      /\ a.file = t.file /\ a.result = t.result
  BY Shipped
<1>2. [t EXCEPT !.pc = "start", !.gen = g] = b
  OBVIOUS
<1>3. g \in 0..MaxSessions
  BY FileTransferAssumption
<1> HIDE DEF a
<1>4. b \in Shipment
  BY <1>1, <1>3, Zenon DEF Shipment
<1>5. /\ b.pc = "start" /\ b.gen = g /\ b.ready = t.ready
      /\ b.file = t.file /\ b.result = t.result
  BY <1>1 DEF Shipment
<1> QED BY <1>2, <1>4, <1>5, Zenon

(* See Shipped.                                                            *)
LEMMA Finished ==
  ASSUME NEW t \in Shipment
  PROVE  LET n == [t EXCEPT !.pc = "done", !.result = t.file]
         IN  /\ n \in Shipment /\ n.pc = "done" /\ n.gen = t.gen /\ n.ready = t.ready
             /\ n.file = t.file /\ n.result = t.file
<1>1. /\ [t EXCEPT !.pc = "done"] \in Shipment
      /\ t.file \in Files \cup {None}
  BY Shipped DEF Shipment
<1>2. \A s \in Shipment, f \in Files \cup {None} : [s EXCEPT !.result = f] \in Shipment
  BY Zenon DEF Shipment
<1>3. [t EXCEPT !.pc = "done", !.result = t.file]
        = [[t EXCEPT !.pc = "done"] EXCEPT !.result = t.file]
  OBVIOUS
<1>4. [t EXCEPT !.pc = "done", !.result = t.file] \in Shipment
  BY <1>1, <1>2, <1>3
<1> QED BY <1>4 DEF Shipment

(* See Shipped.                                                            *)
LEMMA ReadyHeard ==
  ASSUME NEW t \in Shipment
  PROVE  LET n == [t EXCEPT !["ready"] = TRUE]
         IN  /\ n \in Shipment /\ n.pc = t.pc /\ n.gen = t.gen /\ n.ready = TRUE
             /\ n.file = t.file /\ n.result = t.result
<1>1. [t EXCEPT !["ready"] = TRUE] \in Shipment
  BY Zenon DEF Shipment
<1> QED BY <1>1 DEF Shipment

(* See Shipped.                                                            *)
LEMMA FileHeard ==
  ASSUME NEW t \in Shipment, NEW f \in Files \cup {None}
  PROVE  LET n == [t EXCEPT !["file"] = f]
         IN  /\ n \in Shipment /\ n.pc = t.pc /\ n.gen = t.gen /\ n.ready = t.ready
             /\ n.file = f /\ n.result = t.result
<1>1. [t EXCEPT !["file"] = f] \in Shipment
  BY Zenon DEF Shipment
<1> QED BY <1>1 DEF Shipment

-----------------------------------------------------------------------------
(* The ways a step changes one thread: it goes on, it is over, or it       *)
(* begins.                                                                 *)
Others(d) == \A e \in Tasks : e # d => task'[e] = task[e]

Advance(d, p) ==
  /\ task' \in [Tasks -> Thread] /\ Others(d)
  /\ task'[d].pc = p /\ task'[d].file = task[d].file /\ task'[d].gen = task[d].gen
  /\ task'[d].started = task[d].started /\ task'[d].failed = task[d].failed

Leaves(d) ==
  /\ task' \in [Tasks -> Thread] /\ Others(d)
  /\ task'[d].pc = "idle" /\ task'[d].gen = 0
  /\ ~task'[d].started /\ task'[d].failed = "no"

Enters(d, f) ==
  /\ task' \in [Tasks -> Thread] /\ Others(d)
  /\ task'[d].pc = "enter" /\ task'[d].file = f /\ task'[d].gen = session
  /\ ~task'[d].started /\ task'[d].failed = "no"

(* The deferred unlock.                                                    *)
Released(d) ==
  /\ holder' \in [1..MaxSessions -> Tasks \cup {None}]
  /\ \A s \in 1..MaxSessions :
       holder'[s] = IF s = task[d].gen THEN None ELSE holder[s]

(* The assignments of the model are such changes.                          *)
LEMMA Advances ==
  ASSUME task \in [Tasks -> Thread], NEW d \in Tasks, NEW p \in Pcs,
         task' = [task EXCEPT ![d].pc = p]
  PROVE  Advance(d, p)
<1>1. PICK n : n = [task[d] EXCEPT !.pc = p]
  OBVIOUS
<1>2. task' = [task EXCEPT ![d] = n]
  BY <1>1
<1>3. /\ n \in Thread /\ n.pc = p /\ n.file = task[d].file /\ n.gen = task[d].gen
      /\ n.started = task[d].started /\ n.failed = task[d].failed
  <2>1. PICK t \in Thread : t = task[d]
    OBVIOUS
  <2> QED BY <1>1, <2>1, Moved
<1> HIDE <1>1
<1> QED BY <1>2, <1>3 DEF Advance, Others

(* See Advances.                                                           *)
LEMMA Leaving ==
  ASSUME task \in [Tasks -> Thread], NEW d \in Tasks,
         task' = [task EXCEPT ![d] = Idle]
  PROVE  Leaves(d)
BY IdleThread DEF Leaves, Others

(* See Advances.                                                           *)
LEMMA Returning ==
  ASSUME DownKinds, NEW d \in Tasks, Return(d)
  PROVE  /\ Leaves(d) /\ Released(d)
         /\ registered' \in [Files -> Tasks \cup {None}]
<1>1. Leaves(d)
  BY Leaving DEF DownKinds, Return
<1>2. Released(d)
  BY DEF DownKinds, Return, Released
<1>3. registered' \in [Files -> Tasks \cup {None}]
  BY DEF DownKinds, Return
<1> QED BY <1>1, <1>2, <1>3

(* See Advances.                                                           *)
LEMMA Entering ==
  ASSUME task \in [Tasks -> Thread], session \in 1..MaxSessions,
         NEW d \in Tasks, NEW f \in Files,
         task' = [task EXCEPT ![d] = [Idle EXCEPT !.pc = "enter", !.file = f,
                                                  !.gen = session]]
  PROVE  Enters(d, f)
<1>1. PICK n : n = [Idle EXCEPT !.pc = "enter", !.file = f, !.gen = session]
  OBVIOUS
<1>2. task' = [task EXCEPT ![d] = n]
  BY <1>1
<1>3. PICK g : g = session
  OBVIOUS
<1>4. g \in 0..MaxSessions
  BY <1>3, FileTransferAssumption
<1>5. /\ n \in Thread /\ n.pc = "enter" /\ n.file = f /\ n.gen = g
      /\ n.started = FALSE /\ n.failed = "no"
  <2>1. n = [Idle EXCEPT !.pc = "enter", !.file = f, !.gen = g]
    BY <1>1, <1>3
  <2> DEFINE m == [Idle EXCEPT !.pc = "enter", !.file = f, !.gen = g]
  <2>2. /\ m \in Thread /\ m.pc = "enter" /\ m.file = f /\ m.gen = g
        /\ m.started = FALSE /\ m.failed = "no"
    <3>1. \A h \in 0..MaxSessions :
            LET n1 == [Idle EXCEPT !.pc = "enter", !.file = f, !.gen = h]
            IN  /\ n1 \in Thread /\ n1.pc = "enter" /\ n1.file = f /\ n1.gen = h
                /\ n1.started = FALSE /\ n1.failed = "no"
      BY NewThread, Zenon
    <3> QED BY <3>1, <1>4, Zenon
  <2> QED BY <2>1, <2>2
<1> HIDE <1>1
<1> QED BY <1>2, <1>3, <1>5 DEF Enters, Others

-----------------------------------------------------------------------------
(* What the threads rely on.                                               *)

(* The steps that neither begin a connection nor store a file.             *)
Stays == UNCHANGED <<session, blob>>

(* TaskInv, by the way the thread changes.                                 *)
LEMMA TaskAdvance ==
  ASSUME TaskInv, Stays, NEW d \in Tasks, NEW p \in Pcs \ {"idle"}, Advance(d, p),
         task[d].pc # "idle", p = "read" => task[d].started
  PROVE  TaskInv'
BY DEF TaskInv, Stays, Advance, Others

(* See TaskAdvance.                                                        *)
LEMMA TaskLeave ==
  ASSUME TaskInv, DownKinds, Stays, NEW d \in Tasks, Leaves(d)
  PROVE  TaskInv'
<1>1. 0 <= session
  BY FileTransferAssumption DEF DownKinds
<1> QED BY <1>1 DEF TaskInv, Stays, Leaves, Others

(* See TaskAdvance.                                                        *)
LEMMA TaskEnter ==
  ASSUME TaskInv, DownKinds, Stays, NEW d \in Tasks, NEW f \in Files,
         Enters(d, f), blob[f] # None
  PROVE  TaskInv'
<1>1. session <= session /\ session # 0
  BY FileTransferAssumption DEF DownKinds
<1> QED BY <1>1 DEF TaskInv, Stays, Enters, Others

(* MutexInv, when the thread goes on without the mutex or keeps it.        *)
LEMMA MutexAdvance ==
  ASSUME MutexInv, NEW d \in Tasks, NEW p \in Pcs, Advance(d, p), UNCHANGED holder,
         \/ p = "lock" /\ task[d].pc = "enter"
         \/ p = "read" /\ task[d].pc = "wait"
  PROVE  MutexInv'
BY DEF MutexInv, Advance, Others

(* The thread finds the mutex free and takes it.                           *)
LEMMA MutexTake ==
  ASSUME MutexInv, DownKinds, NEW d \in Tasks, Advance(d, "wait"), task[d].pc = "lock",
         task[d].gen \in 1..MaxSessions,
         holder[task[d].gen] = None, holder' = [holder EXCEPT ![task[d].gen] = d]
  PROVE  MutexInv'
<1>1. None \notin Tasks
  BY FileTransferAssumption
<1> QED BY <1>1 DEF MutexInv, DownKinds, Advance, Others

(* A thread under way works for one of the connections.                    *)
LEMMA InRange ==
  ASSUME TaskInv, DownKinds, NEW d \in Tasks, task[d].pc # "idle"
  PROVE  task[d].gen \in 1..MaxSessions
<1>1. PICK g : g = task[d].gen
  OBVIOUS
<1>2. g \in 0..MaxSessions /\ g # 0
  BY <1>1 DEF DownKinds, Thread, TaskInv
<1>3. g \in 1..MaxSessions
  BY <1>2, FileTransferAssumption
<1> QED BY <1>1, <1>3

(* The unlock on the way out is of a mutex the thread holds, or that       *)
(* nobody does.                                                            *)
LEMMA MutexLeave ==
  ASSUME MutexInv, TaskInv, DownKinds, NEW d \in Tasks, Leaves(d), Released(d),
         \/ task[d].pc \in {"wait", "read"}
         \/ holder[task[d].gen] = None
  PROVE  MutexInv'
<1>1. None \notin Tasks
  BY FileTransferAssumption
<1>2. ASSUME NEW e \in Tasks, task'[e].pc \in {"wait", "read"}
      PROVE  holder'[task'[e].gen] = e
  <2>1. e # d /\ task'[e] = task[e] /\ holder[task[e].gen] = e
    BY <1>2 DEF Leaves, Others, MutexInv
  <2>2. task[e].gen # task[d].gen
    BY <1>1, <2>1 DEF MutexInv
  <2>3. task[e].gen \in 1..MaxSessions
    BY <2>1, <1>2, InRange
  <2> QED BY <2>1, <2>2, <2>3 DEF Released
<1>3. ASSUME NEW s \in 1..MaxSessions, NEW e \in Tasks, holder'[s] = e
      PROVE  task'[e].gen = s /\ task'[e].pc \in {"wait", "read"}
  <2>1. s # task[d].gen /\ holder[s] = e
    BY <1>1, <1>3 DEF Released
  <2>2. e # d
    BY <2>1 DEF MutexInv
  <2> QED BY <2>1, <2>2 DEF Leaves, Others, MutexInv
<1> QED BY <1>2, <1>3 DEF MutexInv

(* A thread that never had the mutex.                                      *)
LEMMA MutexIdle ==
  ASSUME MutexInv, NEW d \in Tasks, UNCHANGED holder, task[d].pc \in {"idle", "enter"},
         \/ Leaves(d)
         \/ \E f \in Files : Enters(d, f)
  PROVE  MutexInv'
BY DEF MutexInv, Leaves, Enters, Others

-----------------------------------------------------------------------------
(* Counting the answers that wake a thread: they are finitely many, and    *)
(* one more or one less as the channel gains or loses one.                 *)
LEMMA StartsFinite ==
  ASSUME NEW s \in Seq(Answers)
  PROVE  IsFiniteSet(StartsOf(s)) /\ Cardinality(StartsOf(s)) \in Nat
<1>1. IsFiniteSet(1..Len(s))
  BY FS_Interval
<1>2. StartsOf(s) \in SUBSET (1..Len(s))
  BY DEF StartsOf
<1>3. IsFiniteSet(StartsOf(s))
  BY <1>1, <1>2, FS_Subset
<1> QED BY <1>3, FS_CardinalityType

(* See StartsFinite.                                                       *)
LEMMA StartsAppend ==
  ASSUME NEW s \in Seq(Answers), NEW a \in Answers
  PROVE  Cardinality(StartsOf(Append(s, a)))
           = Cardinality(StartsOf(s)) + (IF a.kind = "start" THEN 1 ELSE 0)
<1>1. CASE a.kind = "start"
  <2>1. StartsOf(Append(s, a)) = StartsOf(s) \cup {Len(s) + 1}
    BY <1>1 DEF StartsOf
  <2>2. Len(s) + 1 \notin StartsOf(s)
    BY DEF StartsOf
  <2> QED BY <1>1, <2>1, <2>2, StartsFinite, FS_AddElement
<1>2. CASE a.kind # "start"
  <2>1. StartsOf(Append(s, a)) = StartsOf(s)
    BY <1>2 DEF StartsOf
  <2>2. Cardinality(StartsOf(s)) \in Nat
    BY StartsFinite
  <2> QED BY <1>2, <2>1, <2>2
<1> QED BY <1>1, <1>2

(* See StartsFinite.                                                       *)
LEMMA StartsTail ==
  ASSUME NEW s \in Seq(Answers), s # <<>>
  PROVE  Cardinality(StartsOf(s))
           = Cardinality(StartsOf(Tail(s))) + (IF Head(s).kind = "start" THEN 1 ELSE 0)
<1> DEFINE T == StartsOf(Tail(s))
           U == StartsOf(s) \ {1}
           f == [i \in T |-> i + 1]
<1>0. Tail(s) \in Seq(Answers) /\ Len(Tail(s)) = Len(s) - 1 /\ Len(s) \in Nat /\ Len(s) > 0
  OBVIOUS
<1>1. \A i \in 1..Len(Tail(s)) : Tail(s)[i] = s[i + 1]
  OBVIOUS
<1>2. f \in [T -> U]
  BY <1>0, <1>1 DEF StartsOf
<1>3. \A i, j \in T : f[i] = f[j] => i = j
  BY DEF StartsOf
<1>4. \A k \in U : \E i \in T : f[i] = k
  <2> TAKE k \in U
  <2>1. k - 1 \in T /\ k \in Nat
    BY <1>0, <1>1 DEF StartsOf
  <2>2. f[k - 1] = k
    BY <2>1
  <2> QED BY <2>1, <2>2
<1>5. ExistsBijection(T, U)
  <2> HIDE DEF f, T, U
  <2> QED BY <1>2, <1>3, <1>4 DEF ExistsBijection, Bijection, Injection, Surjection, IsInjective
<1>6. IsFiniteSet(T) /\ Cardinality(U) = Cardinality(T) /\ Cardinality(T) \in Nat
  BY <1>0, <1>5, StartsFinite, FS_Bijection
<1>7. IsFiniteSet(StartsOf(s)) /\ Cardinality(StartsOf(s)) \in Nat
  BY StartsFinite
<1>8. 1 \in StartsOf(s) <=> Head(s).kind = "start"
  BY <1>0 DEF StartsOf
<1>9. Cardinality(U) = IF 1 \in StartsOf(s) THEN Cardinality(StartsOf(s)) - 1
                                             ELSE Cardinality(StartsOf(s))
  BY <1>7, FS_RemoveElement
<1> HIDE DEF U
<1> QED BY <1>6, <1>7, <1>8, <1>9

(* The count still holds with fewer threads or answers and as many frames. *)
LEMMA Fewer ==
  ASSUME CountInv, WireKinds, NEW W \in SUBSET Woken,
         NEW c \in Seq(Answers), NEW n \in Nat,
         Cardinality(StartsOf(c)) <= Cardinality(StartsOf(ch1)), Len(ch2) <= n
  PROVE  IsFiniteSet(W) /\ Cardinality(StartsOf(c)) + Cardinality(W) <= n
<1>1. IsFiniteSet(W) /\ Cardinality(W) <= Cardinality(Woken)
  BY FS_Subset DEF CountInv
<1>2. Cardinality(W) \in Nat /\ Cardinality(Woken) \in Nat
  BY <1>1, FS_CardinalityType DEF CountInv
<1>3. Cardinality(StartsOf(c)) \in Nat /\ Cardinality(StartsOf(ch1)) \in Nat
  BY StartsFinite DEF WireKinds
<1>4. Len(ch2) \in Nat
  BY DEF WireKinds
<1> QED BY <1>1, <1>2, <1>3, <1>4 DEF CountInv

(* No thread is woken by its own step.                                     *)
LEMMA CountTask ==
  ASSUME CountInv, WireKinds, UNCHANGED <<session, ch1, ch2>>, NEW d \in Tasks,
         \/ \E p \in Pcs : Advance(d, p)
         \/ Leaves(d)
         \/ \E f \in Files : Enters(d, f)
  PROVE  CountInv'
<1>1. Woken' \subseteq Woken
  BY DEF Woken, Advance, Leaves, Enters, Others
<1>2. PICK W \in SUBSET Woken : W = Woken'
  BY <1>1
<1>3. ch1 \in Seq(Answers) /\ Len(ch2) \in Nat
  BY DEF WireKinds
<1>4. Cardinality(StartsOf(ch1)) <= Cardinality(StartsOf(ch1)) /\ Len(ch2) <= Len(ch2)
  BY <1>3, StartsFinite
<1>5. IsFiniteSet(W) /\ Cardinality(StartsOf(ch1)) + Cardinality(W) <= Len(ch2)
  BY <1>3, <1>4, Fewer
<1> QED BY <1>2, <1>5 DEF CountInv

(* The thread that reads takes its frame with it.                          *)
LEMMA CountRead ==
  ASSUME CountInv, WireKinds, UNCHANGED <<session, ch1>>, NEW d \in Tasks,
         Leaves(d), task[d].gen = session, task[d].started,
         ch2 # <<>>, ch2' = Tail(ch2)
  PROVE  CountInv'
<1>1. Woken' = Woken \ {d} /\ d \in Woken
  BY DEF Woken, Leaves, Others
<1>2. /\ IsFiniteSet(Woken \ {d}) /\ Cardinality(Woken \ {d}) = Cardinality(Woken) - 1
      /\ Cardinality(Woken) \in Nat
  BY <1>1, FS_RemoveElement, FS_CardinalityType DEF CountInv
<1>3. Len(ch2') = Len(ch2) - 1 /\ Len(ch2) \in Nat
  BY DEF WireKinds
<1>4. Cardinality(StartsOf(ch1)) \in Nat
  BY StartsFinite DEF WireKinds
<1>5. Cardinality(StartsOf(ch1)) + Cardinality(Woken \ {d}) <= Len(ch2')
  BY <1>2, <1>3, <1>4 DEF CountInv
<1> QED BY <1>1, <1>2, <1>5 DEF CountInv

-----------------------------------------------------------------------------
(* A step that leaves the wires and the signals alone leaves the pipeline  *)
(* where it was.                                                           *)
LEMMA PipeTask ==
  ASSUME PipeInv, DownKinds,
         UNCHANGED <<up, session, toServer, retry, ch1, ch2, blob>>,
         slipped => slipped', holder'[session] = holder[session],
         \A e \in Tasks : Signal(e)' <=> Signal(e),
         \A e \in Tasks : Signal(e) => /\ task'[e].started = task[e].started
                                       /\ task'[e].failed = task[e].failed,
         \A e \in Tasks : holder[session] = e => task'[e].file = task[e].file
  PROVE  PipeInv'
<1>1. NoRetry' <=> NoRetry
  BY DEF NoRetry
<1>2. NoSignal' <=> NoSignal
  BY DEF NoSignal
<1>3. ASSUME NEW f PROVE OneRetry(f)' <=> OneRetry(f)
  BY DEF OneRetry
<1>4. ASSUME NEW f, OneSignal(f) PROVE OneSignal(f)'
  <2>1. PICK d \in Tasks :
          /\ task[d].gen = session
          /\ \/ task[d].started /\ task[d].failed # "final" /\ ch2 = <<blob[f]>>
             \/ ~task[d].started /\ task[d].failed = "final" /\ ch2 = <<>>
          /\ \A e \in Tasks : Signal(e) => e = d
    BY <1>4 DEF OneSignal
  <2>2. Signal(d) /\ task'[d].gen = session
    BY <2>1 DEF Signal
  <2> QED BY <2>1, <2>2 DEF OneSignal
<1>5. ASSUME NEW f, Stage(f) PROVE Stage(f)'
  BY <1>1, <1>2, <1>3, <1>4, <1>5 DEF Stage, Sent, Queued, Answered, Told, Over, NoReply
<1>6. ASSUME up', ~slipped', holder'[session'] = None PROVE Nothing'
  BY <1>1, <1>2, <1>6 DEF PipeInv, Nothing, NoReply
<1>7. ASSUME up', ~slipped', NEW d \in Tasks, NEW f \in Files,
             holder'[session'] = d, task'[d].file = f
      PROVE  Stage(f)'
  <2>1. Stage(f)
    BY <1>7 DEF PipeInv
  <2> QED BY <2>1, <1>5
<1> QED BY <1>6, <1>7 DEF PipeInv

(* What a channel that gains or loses a request or an answer holds.        *)
LEMMA GetAppend ==
  ASSUME NEW s \in Seq(Requests), NEW r \in Requests
  PROVE  /\ r.kind # "download" /\ NoGet(s) => NoGet(Append(s, r))
         /\ \A f : r.kind # "download" /\ OneGet(s, f) => OneGet(Append(s, r), f)
         /\ \A f : r = Get(f) /\ NoGet(s) => OneGet(Append(s, r), f)
<1>1. /\ Len(Append(s, r)) = Len(s) + 1 /\ Len(s) \in Nat /\ Append(s, r)[Len(s) + 1] = r
      /\ \A i \in 1..Len(s) : Append(s, r)[i] = s[i]
  OBVIOUS
<1>2. PICK t : t = Append(s, r)
  OBVIOUS
<1>3. /\ Len(t) = Len(s) + 1 /\ t[Len(s) + 1] = r
      /\ \A i \in 1..Len(t) : i = Len(s) + 1 \/ (i \in 1..Len(s) /\ t[i] = s[i])
      /\ \A i \in 1..Len(s) : i \in 1..Len(t) /\ i # Len(s) + 1
  BY <1>1, <1>2
<1>4. r.kind # "download" /\ NoGet(s) => NoGet(t)
  BY <1>3 DEF NoGet
<1>5. ASSUME NEW f, r.kind # "download", OneGet(s, f) PROVE OneGet(t, f)
  BY <1>3, <1>5 DEF OneGet
<1>6. ASSUME NEW f, r = Get(f), NoGet(s) PROVE OneGet(t, f)
  <2>1. Len(s) + 1 \in 1..Len(t)
    BY <1>1, <1>3
  <2> QED BY <1>3, <1>6, <2>1 DEF OneGet, NoGet
<1> QED BY <1>2, <1>4, <1>5, <1>6

(* See GetAppend.                                                          *)
LEMMA GetTail ==
  ASSUME NEW s \in Seq(Requests), s # <<>>
  PROVE  /\ NoGet(s) => NoGet(Tail(s)) /\ Head(s).kind # "download"
         /\ \A f : OneGet(s, f) /\ Head(s).kind = "download" =>
                     Head(s) = Get(f) /\ NoGet(Tail(s))
         /\ \A f : OneGet(s, f) /\ Head(s).kind # "download" => OneGet(Tail(s), f)
<1>1. PICK t \in Seq(Requests) : t = Tail(s)
  BY HeadTailProperties
<1>2. /\ Len(s) \in Nat /\ Len(t) = Len(s) - 1 /\ Head(s) = s[1]
      /\ 1 \in 1..Len(s)
      /\ \A i \in 1..Len(t) : i + 1 \in 1..Len(s) /\ i + 1 # 1 /\ t[i] = s[i + 1]
      /\ \A i \in 1..Len(s) : i # 1 => i - 1 \in 1..Len(t) /\ t[i - 1] = s[i]
  BY <1>1
<1>3. NoGet(s) => NoGet(t) /\ Head(s).kind # "download"
  BY <1>2 DEF NoGet
<1>4. ASSUME NEW f, OneGet(s, f), Head(s).kind = "download"
      PROVE  Head(s) = Get(f) /\ NoGet(t)
  BY <1>2, <1>4 DEF OneGet, NoGet
<1>5. ASSUME NEW f, OneGet(s, f), Head(s).kind # "download" PROVE OneGet(t, f)
  <2>1. PICK i \in 1..Len(s) : /\ s[i] = Get(f)
                               /\ \A j \in 1..Len(s) : j # i => s[j].kind # "download"
    BY <1>5 DEF OneGet
  <2>2. i # 1
    BY <1>2, <1>5, <2>1 DEF Get
  <2>3. i - 1 \in 1..Len(t) /\ t[i - 1] = Get(f)
    BY <1>2, <2>1, <2>2
  <2>4. ASSUME NEW j \in 1..Len(t), j # i - 1 PROVE t[j].kind # "download"
    <3>1. j + 1 # i
      BY <2>4
    <3> QED BY <1>2, <2>1, <3>1
  <2> QED BY <2>3, <2>4 DEF OneGet
<1> QED BY <1>1, <1>3, <1>4, <1>5

(* See GetAppend.                                                          *)
LEMMA AnswerAppend ==
  ASSUME NEW s \in Seq(Answers), NEW a \in Answers
  PROVE  /\ a.id \notin Files /\ NoAnswer(s) => NoAnswer(Append(s, a))
         /\ \A f, b : a.id \notin Files /\ OneAnswer(s, f, b) => OneAnswer(Append(s, a), f, b)
         /\ NoAnswer(s) => OneAnswer(Append(s, a), a.id, a.kind = "start")
<1>1. /\ Len(Append(s, a)) = Len(s) + 1 /\ Len(s) \in Nat /\ Append(s, a)[Len(s) + 1] = a
      /\ \A i \in 1..Len(s) : Append(s, a)[i] = s[i]
  OBVIOUS
<1>2. PICK t : t = Append(s, a)
  OBVIOUS
<1>3. /\ Len(t) = Len(s) + 1 /\ t[Len(s) + 1] = a
      /\ \A i \in 1..Len(t) : i = Len(s) + 1 \/ (i \in 1..Len(s) /\ t[i] = s[i])
      /\ \A i \in 1..Len(s) : i \in 1..Len(t) /\ i # Len(s) + 1
  BY <1>1, <1>2
<1>4. a.id \notin Files /\ NoAnswer(s) => NoAnswer(t)
  BY <1>3 DEF NoAnswer
<1>5. ASSUME NEW f, NEW b, a.id \notin Files, OneAnswer(s, f, b) PROVE OneAnswer(t, f, b)
  BY <1>3, <1>5 DEF OneAnswer
<1>6. ASSUME NoAnswer(s) PROVE OneAnswer(t, a.id, a.kind = "start")
  <2>1. Len(s) + 1 \in 1..Len(t)
    BY <1>1, <1>3
  <2> QED BY <1>3, <1>6, <2>1 DEF OneAnswer, NoAnswer
<1> QED BY <1>2, <1>4, <1>5, <1>6

(* See GetAppend.                                                          *)
LEMMA AnswerTail ==
  ASSUME NEW s \in Seq(Answers), s # <<>>
  PROVE  /\ NoAnswer(s) => NoAnswer(Tail(s)) /\ Head(s).id \notin Files
         /\ \A f, b : OneAnswer(s, f, b) /\ Head(s).id \in Files =>
              /\ Head(s).id = f /\ (Head(s).kind = "start" <=> b)
              /\ NoAnswer(Tail(s))
         /\ \A f, b : OneAnswer(s, f, b) /\ f \in Files /\ Head(s).id \notin Files =>
              OneAnswer(Tail(s), f, b)
<1>1. PICK t \in Seq(Answers) : t = Tail(s)
  BY HeadTailProperties
<1>2. /\ Len(s) \in Nat /\ Len(t) = Len(s) - 1 /\ Head(s) = s[1]
      /\ 1 \in 1..Len(s)
      /\ \A i \in 1..Len(t) : i + 1 \in 1..Len(s) /\ i + 1 # 1 /\ t[i] = s[i + 1]
      /\ \A i \in 1..Len(s) : i # 1 => i - 1 \in 1..Len(t) /\ t[i - 1] = s[i]
  BY <1>1
<1>3. NoAnswer(s) => NoAnswer(t) /\ Head(s).id \notin Files
  BY <1>2 DEF NoAnswer
<1>4. ASSUME NEW f, NEW b, OneAnswer(s, f, b), Head(s).id \in Files
      PROVE  Head(s).id = f /\ (Head(s).kind = "start" <=> b) /\ NoAnswer(t)
  BY <1>2, <1>4 DEF OneAnswer, NoAnswer
<1>5. ASSUME NEW f \in Files, NEW b, OneAnswer(s, f, b), Head(s).id \notin Files
      PROVE  OneAnswer(t, f, b)
  <2>1. PICK i \in 1..Len(s) : /\ s[i].id = f /\ (s[i].kind = "start" <=> b)
                               /\ \A j \in 1..Len(s) : j # i => s[j].id \notin Files
    BY <1>5 DEF OneAnswer
  <2>2. i # 1
    BY <1>2, <1>5, <2>1
  <2>3. i - 1 \in 1..Len(t) /\ t[i - 1] = s[i]
    BY <1>2, <2>1, <2>2
  <2>4. ASSUME NEW j \in 1..Len(t), j # i - 1 PROVE t[j].id \notin Files
    <3>1. j + 1 # i
      BY <2>4
    <3> QED BY <1>2, <2>1, <3>1
  <2> QED BY <2>1, <2>3, <2>4 DEF OneAnswer
<1> QED BY <1>1, <1>3, <1>4, <1>5

(* A step that changes no mutex moves the pipeline from stage to stage.    *)
LEMMA PipeStep ==
  ASSUME PipeInv, UNCHANGED <<up, slipped, session, holder>>,
         \A d \in Tasks : task'[d].file = task[d].file,
         Nothing => Nothing',
         \A f \in Files : \A d \in Tasks :
           holder[session] = d /\ task[d].file = f /\ Stage(f) => Stage(f)'
  PROVE  PipeInv'
BY DEF PipeInv

(* The signals are where the threads are.                                  *)
LEMMA SameThreads ==
  ASSUME UNCHANGED <<session, task>>
  PROVE  /\ NoSignal' <=> NoSignal
         /\ \A f : UNCHANGED <<ch2, blob>> => (OneSignal(f)' <=> OneSignal(f))
BY DEF NoSignal, OneSignal, Signal

(* The thread that takes the mutex finds nothing under way, and sends its  *)
(* request.                                                                *)
LEMMA PipeSend ==
  ASSUME PipeInv, DownKinds, WireKinds, NEW d \in Tasks, task[d].file \in Files,
         task[d].gen = session, holder[session] = None, Advance(d, "wait"),
         holder' = [holder EXCEPT ![session] = d],
         toServer' = Append(toServer, Get(task[d].file)),
         UNCHANGED <<up, slipped, session, retry, ch1, ch2, blob>>
  PROVE  PipeInv'
<1>1. holder'[session] = d /\ d # None
  BY FileTransferAssumption DEF DownKinds
<1>2. ASSUME up, ~slipped, NEW f \in Files, task'[d].file = f PROVE Stage(f)'
  <2>1. Nothing
    BY <1>2 DEF PipeInv
  <2>2. PICK r \in Requests : r = Get(f)
    BY DEF Requests
  <2>3. toServer' = Append(toServer, r)
    BY <1>2, <2>2 DEF Advance
  <2>4. OneGet(toServer, f)'
    BY <2>1, <2>2, <2>3, GetAppend DEF Nothing, WireKinds
  <2>5. NoRetry' /\ NoAnswer(ch1)' /\ ch2' = <<>>
    BY <2>1 DEF Nothing, NoReply, NoRetry
  <2>6. NoSignal'
    BY <2>1 DEF Nothing, NoReply, NoSignal, Signal, Advance, Others
  <2> QED BY <2>4, <2>5, <2>6 DEF Stage, Sent, NoReply
<1>3. PipeInv' <=> (up /\ ~slipped => \A f \in Files : task'[d].file = f => Stage(f)')
  BY <1>1 DEF PipeInv
<1> QED BY <1>2, <1>3

(* The thread that reads was told, and the frame is the only one; nothing  *)
(* is left.                                                                *)
LEMMA PipeRead ==
  ASSUME PipeInv, DownKinds, WireKinds, MutexInv, NEW d \in Tasks, task[d].file \in Files,
         task[d].gen = session, task[d].pc = "read", task[d].started,
         Leaves(d), Released(d), ch2 # <<>>, ch2' = Tail(ch2),
         UNCHANGED <<up, slipped, session, toServer, retry, ch1, blob>>
  PROVE  PipeInv'
<1>1. holder[session] = d /\ holder'[session] = None
  BY DEF MutexInv, Released, DownKinds
<1>2. None \notin Tasks
  BY FileTransferAssumption
<1>3. ASSUME up, ~slipped PROVE Nothing'
  <2>1. PICK f \in Files : f = task[d].file
    OBVIOUS
  <2>2. Stage(f)
    BY <1>1, <1>3, <2>1 DEF PipeInv
  <2>3. Signal(d)
    BY DEF Signal
  <2>4. Told(f)
    BY <2>2, <2>3 DEF Stage, Sent, Queued, Answered, Over, NoReply, NoSignal
  <2>5. /\ ch2 = <<blob[f]>>
        /\ \A e \in Tasks : Signal(e) => e = d
    BY <2>3, <2>4 DEF Told, OneSignal
  <2>6. ch2' = <<>>
    BY <2>5
  <2>7. NoSignal'
    BY <2>5 DEF NoSignal, Signal, Leaves, Others
  <2>8. NoGet(toServer)' /\ NoRetry' /\ NoAnswer(ch1)'
    BY <2>4 DEF Told, NoRetry
  <2> QED BY <2>6, <2>7, <2>8 DEF Nothing, NoReply
<1> QED BY <1>1, <1>2, <1>3 DEF PipeInv

(* The thread that got a final error leaves nothing behind.                *)
LEMMA PipeFail ==
  ASSUME PipeInv, DownKinds, MutexInv, NEW d \in Tasks, task[d].file \in Files,
         task[d].gen = session, task[d].pc = "wait", task[d].failed = "final",
         Leaves(d), Released(d),
         UNCHANGED <<up, slipped, session, toServer, retry, ch1, ch2, blob>>
  PROVE  PipeInv'
<1>1. holder[session] = d /\ holder'[session] = None
  BY DEF MutexInv, Released, DownKinds
<1>2. None \notin Tasks
  BY FileTransferAssumption
<1>3. ASSUME up, ~slipped PROVE Nothing'
  <2>1. PICK f \in Files : f = task[d].file
    OBVIOUS
  <2>2. Stage(f)
    BY <1>1, <1>3, <2>1 DEF PipeInv
  <2>3. Signal(d)
    BY DEF Signal
  <2>4. Told(f)
    BY <2>2, <2>3 DEF Stage, Sent, Queued, Answered, Over, NoReply, NoSignal
  <2>5. /\ ch2 = <<>>
        /\ \A e \in Tasks : Signal(e) => e = d
    BY <2>3, <2>4 DEF Told, OneSignal
  <2>7. NoSignal'
    BY <2>5 DEF NoSignal, Signal, Leaves, Others
  <2>8. NoGet(toServer)' /\ NoRetry' /\ NoAnswer(ch1)'
    BY <2>4 DEF Told, NoRetry
  <2> QED BY <2>5, <2>7, <2>8 DEF Nothing, NoReply
<1> QED BY <1>1, <1>2, <1>3 DEF PipeInv

(* A thread of another connection, or one that has nothing under way.      *)
LEMMA PipeAside ==
  ASSUME PipeInv, DownKinds, MutexInv, NEW d \in Tasks,
         \/ Leaves(d) /\ task[d].gen # session
         \/ \E p \in Pcs : Advance(d, p)
         \/ task[d].pc = "idle" /\ task[d].gen = 0 /\ \E f \in Files : Enters(d, f),
         holder'[session] = holder[session],
         UNCHANGED <<up, slipped, session, toServer, retry, ch1, ch2, blob>>
  PROVE  PipeInv'
<1>1. 0 # session
  BY FileTransferAssumption DEF DownKinds
<1>2. \A e \in Tasks : Signal(e)' <=> Signal(e)
  BY <1>1 DEF Signal, Leaves, Advance, Enters, Others
<1>3. \A e \in Tasks : Signal(e) => /\ task'[e].started = task[e].started
                                    /\ task'[e].failed = task[e].failed
  BY <1>1 DEF Signal, Leaves, Advance, Enters, Others
<1>4. \A e \in Tasks : holder[session] = e => task'[e].file = task[e].file
  <2> SUFFICES ASSUME NEW e \in Tasks, holder[session] = e PROVE task'[e].file = task[e].file
    OBVIOUS
  <2>1. task[e].gen = session
    BY DEF MutexInv, DownKinds
  <2> QED BY <1>1, <2>1 DEF Leaves, Advance, Enters, Others
<1> QED BY <1>2, <1>3, <1>4, PipeTask

(* Files and uploads, and the requests for them, are told apart.           *)
LEMMA Apart ==
  /\ \A u \in Uploads : u \notin Files
  /\ \A u \in Uploads, f \in Files : Put(u) # Get(f)
  /\ \A r \in Requests : \/ r.kind = "download" /\ r.id \in Files /\ r = Get(r.id)
                         \/ r.kind = "upload_start" /\ r.id \in Uploads /\ r = Put(r.id)
<1>1. \A u \in Uploads : u \notin Files
  BY FileTransferAssumption
<1> QED BY <1>1 DEF Requests, Get, Put

(* The request of an upload is none of a download.                         *)
LEMMA PipeAsk ==
  ASSUME PipeInv, WireKinds, NEW u \in Uploads, toServer' = Append(toServer, Put(u)),
         UNCHANGED <<up, slipped, session, holder, task, retry, ch1, ch2, blob>>
  PROVE  PipeInv'
<1>1. PICK r \in Requests : r = Put(u)
  BY DEF Requests
<1>2. r.kind # "download" /\ toServer' = Append(toServer, r)
  BY <1>1 DEF Put
<1>3. /\ NoGet(toServer) => NoGet(toServer)'
      /\ \A f : OneGet(toServer, f) => OneGet(toServer, f)'
  BY <1>2, GetAppend DEF WireKinds
<1>4. /\ NoRetry' <=> NoRetry
      /\ \A f : OneRetry(f)' <=> OneRetry(f)
  BY DEF NoRetry, OneRetry
<1>5. Nothing => Nothing'
  BY <1>3, <1>4, SameThreads DEF Nothing, NoReply
<1>6. ASSUME NEW f \in Files, Stage(f) PROVE Stage(f)'
  BY <1>3, <1>4, <1>6, SameThreads DEF Stage, Sent, Queued, Answered, Told, Over, NoReply
<1> QED BY <1>5, <1>6, PipeStep

(* The server answers the one request, and the frame goes with it.         *)
LEMMA PipeServe ==
  ASSUME PipeInv, WireKinds, StoreKinds, Serve
  PROVE  PipeInv'
<1> DEFINE r == Head(toServer)
<1>1. r \in Requests /\ toServer # <<>> /\ toServer' = Tail(toServer)
  BY DEF Serve, WireKinds
<1>2. UNCHANGED <<up, slipped, session, holder, task, retry, blob>>
  BY DEF Serve, downloads
<1>3. /\ NoRetry' <=> NoRetry
      /\ \A f : OneRetry(f)' <=> OneRetry(f)
  BY <1>2 DEF NoRetry, OneRetry
<1>4. CASE r.kind = "download"
  <2>1. PICK a \in Answers : a = Answer("start", r.id, FALSE, None)
    BY <1>1, <1>4, Apart DEF Answers, Answer
  <2>2. a.kind = "start" /\ a.id = r.id
    BY <2>1 DEF Answer
  <2>3. ch1' = Append(ch1, a) /\ ch2' = Append(ch2, blob[r.id])
    BY <1>4, <2>1 DEF Serve
  <2>4. ~Nothing
    BY <1>1, <1>4, GetTail DEF Nothing, WireKinds
  <2>5. ASSUME NEW f \in Files, Stage(f) PROVE Stage(f)'
    <3>1. Sent(f)
      BY <1>1, <1>4, <2>5, GetTail DEF Stage, Queued, Answered, Told, Over, WireKinds
    <3>2. r = Get(f) /\ NoGet(toServer)'
      BY <1>1, <1>4, <3>1, GetTail DEF Sent, WireKinds
    <3>3. r.id = f
      BY <3>2 DEF Get
    <3>4. OneAnswer(ch1, f, TRUE)'
      <4>1. OneAnswer(Append(ch1, a), a.id, a.kind = "start")
        BY <3>1, AnswerAppend DEF Sent, NoReply, WireKinds
      <4>2. (a.kind = "start") = TRUE
        BY <2>2
      <4> QED BY <4>1, <4>2, <2>2, <2>3, <3>3
    <3>5. ch2' = <<blob[f]>>
      BY <3>1, <2>3, <3>3 DEF Sent
    <3> QED BY <1>2, <1>3, <3>1, <3>2, <3>4, <3>5, SameThreads
            DEF Stage, Sent, Answered, NoReply
  <2> QED BY <1>2, <2>4, <2>5, PipeStep
<1>5. CASE r.kind # "download"
  <2>1. PICK a \in Answers : a = Answer("ready", r.id, FALSE, None)
    BY <1>1, <1>5, Apart DEF Answers, Answer
  <2>2. a.id \notin Files
    BY <1>1, <1>5, <2>1, Apart DEF Answer
  <2>3. ch1' = Append(ch1, a) /\ ch2' = ch2
    BY <1>5, <2>1 DEF Serve
  <2>4. /\ NoGet(toServer) => NoGet(toServer)'
        /\ \A f : OneGet(toServer, f) => OneGet(toServer, f)'
    BY <1>1, <1>5, GetTail DEF WireKinds
  <2>5. /\ NoAnswer(ch1) => NoAnswer(ch1)'
        /\ \A f, b : OneAnswer(ch1, f, b) => OneAnswer(ch1, f, b)'
    BY <2>2, <2>3, AnswerAppend DEF WireKinds
  <2>6. Nothing => Nothing'
    BY <1>2, <1>3, <2>3, <2>4, <2>5, SameThreads DEF Nothing, NoReply
  <2>7. ASSUME NEW f \in Files, Stage(f) PROVE Stage(f)'
    BY <1>2, <1>3, <2>3, <2>4, <2>5, <2>7, SameThreads
       DEF Stage, Sent, Queued, Answered, Told, Over, NoReply
  <2> QED BY <1>2, <2>6, <2>7, PipeStep
<1> QED BY <1>4, <1>5

(* The server answers the one request with an error, and no frame.         *)
LEMMA PipeReject ==
  ASSUME PipeInv, WireKinds, Reject
  PROVE  PipeInv'
<1> DEFINE r == Head(toServer)
<1>1. r \in Requests /\ toServer # <<>> /\ toServer' = Tail(toServer)
  BY DEF Reject, WireKinds
<1>2. UNCHANGED <<up, slipped, session, holder, task, retry, blob, ch2>>
  BY DEF Reject, downloads
<1>3. /\ NoRetry' <=> NoRetry
      /\ \A f : OneRetry(f)' <=> OneRetry(f)
  BY <1>2 DEF NoRetry, OneRetry
<1>4. PICK again \in BOOLEAN, k \in {"error", "download_error", "upload_error"} :
        ch1' = Append(ch1, Answer(k, r.id, again, None))
  BY DEF Reject
<1>5. PICK a \in Answers : a = Answer(k, r.id, again, None)
  <2>1. r.id \in Files \cup Uploads
    BY <1>1, Apart
  <2> QED BY <2>1, Zenon DEF Answers, Answer
<1>6. a.kind # "start" /\ a.id = r.id /\ ch1' = Append(ch1, a)
  BY <1>4, <1>5 DEF Answer
<1>7. CASE r.kind = "download"
  <2>4. ~Nothing
    BY <1>1, <1>7, GetTail DEF Nothing, WireKinds
  <2>5. ASSUME NEW f \in Files, Stage(f) PROVE Stage(f)'
    <3>1. Sent(f)
      BY <1>1, <1>7, <2>5, GetTail DEF Stage, Queued, Answered, Told, Over, WireKinds
    <3>2. r = Get(f) /\ NoGet(toServer)'
      BY <1>1, <1>7, <3>1, GetTail DEF Sent, WireKinds
    <3>3. r.id = f
      BY <3>2 DEF Get
    <3>4. OneAnswer(ch1, f, FALSE)'
      <4>1. OneAnswer(Append(ch1, a), a.id, a.kind = "start")
        BY <3>1, AnswerAppend DEF Sent, NoReply, WireKinds
      <4>2. (a.kind = "start") = FALSE
        BY <1>6
      <4> QED BY <4>1, <4>2, <1>6, <3>3
    <3>5. ch2' = <<>>
      BY <1>2, <3>1 DEF Sent
    <3> QED BY <1>2, <1>3, <3>1, <3>2, <3>4, <3>5, SameThreads
            DEF Stage, Sent, Answered, NoReply
  <2> QED BY <1>2, <2>4, <2>5, PipeStep
<1>8. CASE r.kind # "download"
  <2>2. a.id \notin Files
    BY <1>1, <1>6, <1>8, Apart
  <2>4. /\ NoGet(toServer) => NoGet(toServer)'
        /\ \A f : OneGet(toServer, f) => OneGet(toServer, f)'
    BY <1>1, <1>8, GetTail DEF WireKinds
  <2>5. /\ NoAnswer(ch1) => NoAnswer(ch1)'
        /\ \A f, b : OneAnswer(ch1, f, b) => OneAnswer(ch1, f, b)'
    BY <1>6, <2>2, AnswerAppend DEF WireKinds
  <2>6. Nothing => Nothing'
    BY <1>2, <1>3, <2>4, <2>5, SameThreads DEF Nothing, NoReply
  <2>7. ASSUME NEW f \in Files, Stage(f) PROVE Stage(f)'
    BY <1>2, <1>3, <2>4, <2>5, <2>7, SameThreads
       DEF Stage, Sent, Queued, Answered, Told, Over, NoReply
  <2> QED BY <1>2, <2>6, <2>7, PipeStep
<1> QED BY <1>7, <1>8

(* The queue sends the one request again, or drops it.                     *)
LEMMA PipeResend ==
  ASSUME PipeInv, WireKinds, NEW r \in Requests, QueueResend(r)
  PROVE  PipeInv'
<1>1. /\ UNCHANGED <<up, slipped, session, holder, task, ch1, ch2, blob>>
      /\ retry[r] > 0 /\ retry' = [retry EXCEPT ![r] = @ - 1]
      /\ toServer' = Append(toServer, r) \/ toServer' = toServer
  BY DEF QueueResend, downloads
<1>2. CASE r.kind = "download"
  <2>1. r = Get(r.id) /\ r.id \in Files
    BY <1>2, Apart
  <2>0. ~NoRetry
    BY <1>1, <2>1 DEF NoRetry
  <2>2. ~Nothing
    BY <2>0 DEF Nothing
  <2>3. ASSUME NEW f \in Files, Stage(f) PROVE Stage(f)'
    <3>1. Queued(f)
      BY <2>0, <2>3 DEF Stage, Sent, Answered, Told, Over
    <3>2. f = r.id /\ retry[r] = 1
      BY <1>1, <2>1, <3>1 DEF Queued, OneRetry
    <3>3. NoRetry'
      <4>1. \A g \in Files : Get(g) \in Requests /\ (g # f => Get(g) # r)
        BY <2>1, <3>2 DEF Requests, Get
      <4>2. ASSUME NEW g \in Files PROVE retry'[Get(g)] = 0
        BY <1>1, <2>1, <3>1, <3>2, <4>1 DEF WireKinds, Queued, OneRetry
      <4> QED BY <4>2 DEF NoRetry
    <3>4. NoReply' /\ ch2' = <<>>
      BY <1>1, <3>1, SameThreads DEF NoReply, Queued
    <3>5. CASE toServer' = toServer
      BY <3>1, <3>3, <3>4, <3>5 DEF Stage, Over, Queued
    <3>6. CASE toServer' = Append(toServer, r)
      <4>1. OneGet(toServer, f)'
        BY <2>1, <3>1, <3>2, <3>6, GetAppend DEF WireKinds, Queued
      <4> QED BY <3>3, <3>4, <4>1 DEF Stage, Sent
    <3> QED BY <1>1, <3>5, <3>6
  <2> QED BY <1>1, <2>2, <2>3, PipeStep
<1>3. CASE r.kind # "download"
  <2>1. \A f \in Files : Get(f) # r /\ Get(f) \in Requests
    BY <1>3 DEF Get, Requests
  <2>2. \A f \in Files : retry'[Get(f)] = retry[Get(f)]
    BY <1>1, <2>1 DEF WireKinds
  <2>3. /\ NoRetry => NoRetry'
        /\ \A f \in Files : OneRetry(f) => OneRetry(f)'
    BY <2>2 DEF NoRetry, OneRetry
  <2>4. /\ NoGet(toServer) => NoGet(toServer)'
        /\ \A f : OneGet(toServer, f) => OneGet(toServer, f)'
    BY <1>1, <1>3, GetAppend DEF WireKinds
  <2>5. Nothing => Nothing'
    BY <1>1, <2>3, <2>4, SameThreads DEF Nothing, NoReply
  <2>6. ASSUME NEW f \in Files, Stage(f) PROVE Stage(f)'
    BY <1>1, <2>3, <2>4, <2>6, SameThreads
       DEF Stage, Sent, Queued, Answered, Told, Over, NoReply
  <2> QED BY <1>1, <2>5, <2>6, PipeStep
<1> QED BY <1>2, <1>3

(* The answer to an upload is none to a download.                          *)
LEMMA PipeTake ==
  ASSUME PipeInv, WireKinds, TaskInv, MutexInv, DownKinds, NEW a \in Answers, a.id \in Uploads,
         ch1' = Append(ch1, a), \A f \in Files : blob[f] # None => blob'[f] = blob[f],
         UNCHANGED <<up, slipped, session, holder, task, toServer, retry, ch2>>
  PROVE  PipeInv'
<1>1. a.id \notin Files
  BY Apart
<1>2. /\ NoAnswer(ch1) => NoAnswer(ch1)'
      /\ \A f, b : OneAnswer(ch1, f, b) => OneAnswer(ch1, f, b)'
  BY <1>1, AnswerAppend DEF WireKinds
<1>3. /\ NoRetry' <=> NoRetry
      /\ \A f : OneRetry(f)' <=> OneRetry(f)
      /\ NoSignal' <=> NoSignal
  BY DEF NoRetry, OneRetry, NoSignal, Signal
<1>4. Nothing => Nothing'
  BY <1>2, <1>3 DEF Nothing, NoReply
<1>5. ASSUME NEW f \in Files, NEW d \in Tasks,
             holder[session] = d, task[d].file = f, Stage(f)
      PROVE  Stage(f)'
  <2>1. blob'[f] = blob[f]
    <3>1. task[d].pc \in {"wait", "read"}
      BY <1>5 DEF MutexInv, DownKinds
    <3> QED BY <1>5, <3>1 DEF TaskInv
  <2>2. OneSignal(f) => OneSignal(f)'
    BY <2>1 DEF OneSignal, Signal
  <2> QED BY <1>2, <1>3, <1>5, <2>1, <2>2
          DEF Stage, Sent, Queued, Answered, Told, Over, NoReply
<1> QED BY <1>4, <1>5, PipeStep

-----------------------------------------------------------------------------
(* What the readLoop does to the download threads.                         *)
LEMMA TaskHeard ==
  ASSUME DownKinds, WireKinds, NEW a \in Answers, a = Head(ch1), ReadLoop
  PROVE  /\ task' \in [Tasks -> Thread]
         /\ \A d \in Tasks :
              /\ task'[d].pc = task[d].pc /\ task'[d].file = task[d].file
              /\ task'[d].gen = task[d].gen
              /\ task'[d].started <=>
                   task[d].started \/ (a.kind = "start" /\ registered[a.id] = d)
              /\ task'[d].failed =
                   IF a.kind = "download_error" /\ registered[a.id] = d
                        /\ task[d].failed = "no"
                     THEN IF a.again THEN "again" ELSE "final"
                     ELSE task[d].failed
<1>1. CASE a.kind = "start"
  <2>1. HandleDownloadStart(a.id)
    BY <1>1 DEF ReadLoop
  <2>2. ASSUME NEW d \in Tasks
        PROVE  /\ task'[d] \in Thread
               /\ task'[d].pc = task[d].pc /\ task'[d].file = task[d].file
               /\ task'[d].gen = task[d].gen /\ task'[d].failed = task[d].failed
               /\ task'[d].started <=> task[d].started \/ registered[a.id] = d
    <3>1. PICK t \in Thread : t = task[d]
      BY DEF DownKinds
    <3>2. task'[d] = IF registered[a.id] = d THEN [t EXCEPT !.started = TRUE] ELSE t
      BY <2>1, <3>1 DEF HandleDownloadStart
    <3> QED BY <3>1, <3>2, Woke
  <2>3. task' \in [Tasks -> Thread]
    <3>1. task' = [d \in Tasks |-> task'[d]]
      BY <2>1 DEF HandleDownloadStart
    <3> QED BY <2>2, <3>1
  <2> QED BY <1>1, <2>2, <2>3
<1>2. CASE a.kind = "download_error"
  <2>1. HandleDownloadError(a.id, a.again)
    BY <1>2 DEF ReadLoop
  <2>2. PICK w \in {"again", "final"} : w = IF a.again THEN "again" ELSE "final"
    OBVIOUS
  <2>3. ASSUME NEW d \in Tasks
        PROVE  /\ task'[d] \in Thread
               /\ task'[d].pc = task[d].pc /\ task'[d].file = task[d].file
               /\ task'[d].gen = task[d].gen /\ task'[d].started = task[d].started
               /\ task'[d].failed = IF registered[a.id] = d /\ task[d].failed = "no"
                                      THEN w ELSE task[d].failed
    <3>1. PICK t \in Thread : t = task[d]
      BY DEF DownKinds
    <3>2. task'[d] = IF registered[a.id] = d /\ t.failed = "no"
                       THEN [t EXCEPT !.failed = w] ELSE t
      BY <2>1, <2>2, <3>1 DEF HandleDownloadError
    <3>3. CASE registered[a.id] = d /\ t.failed = "no"
      <4>1. PICK n : n = [t EXCEPT !.failed = w]
        OBVIOUS
      <4>2. /\ n \in Thread /\ n.pc = t.pc /\ n.file = t.file /\ n.gen = t.gen
            /\ n.started = t.started /\ n.failed = w
        BY <4>1, Refusal
      <4>3. task'[d] = n
        BY <3>2, <3>3, <4>1
      <4> HIDE <4>1
      <4> QED BY <3>1, <3>3, <4>2, <4>3
    <3>4. CASE ~(registered[a.id] = d /\ t.failed = "no")
      BY <3>1, <3>2, <3>4
    <3> QED BY <3>3, <3>4
  <2>4. task' \in [Tasks -> Thread]
    <3>1. task' = [d \in Tasks |-> task'[d]]
      BY <2>1 DEF HandleDownloadError
    <3> QED BY <2>3, <3>1
  <2> QED BY <1>2, <2>2, <2>3, <2>4
<1>3. CASE a.kind \notin {"start", "download_error"}
  <2>1. task' = task
    BY <1>3 DEF ReadLoop, HandleUpload
  <2> QED BY <1>3, <2>1 DEF DownKinds
<1> QED BY <1>1, <1>2, <1>3

(* The one answer becomes a signal, a retry, or nothing when no thread is  *)
(* under the id any more.                                                  *)
LEMMA PipeHear ==
  ASSUME PipeInv, DownKinds, WireKinds, AnswerInv, ReadLoop
  PROVE  PipeInv'
<1>1. PICK a \in Answers : a = Head(ch1)
  BY DEF ReadLoop, WireKinds
<1>2. /\ ch1 # <<>> /\ ch1' = Tail(ch1) /\ retry' = Requeued(a)
      /\ UNCHANGED <<up, slipped, session, holder, toServer, ch2, blob>>
  BY <1>1 DEF ReadLoop
<1>3. AnswerOK(a)
  BY <1>1, <1>2 DEF AnswerInv, WireKinds
<1>4. /\ \A d \in Tasks : /\ task'[d].gen = task[d].gen
                          /\ task'[d].file = task[d].file
      /\ a.kind # "start" => \A d \in Tasks : task'[d].started <=> task[d].started
      /\ \A d \in Tasks : task'[d].started =>
           task[d].started \/ (a.kind = "start" /\ registered[a.id] = d)
      /\ \A d \in Tasks : a.kind = "start" => task'[d].failed = task[d].failed
      /\ \A d \in Tasks : task'[d].failed = "final" =>
           \/ task[d].failed = "final"
           \/ a.kind = "download_error" /\ ~a.again /\ registered[a.id] = d
      /\ a.kind # "download_error" => \A d \in Tasks : task'[d].failed = task[d].failed
      /\ \A d \in Tasks : task[d].failed = "final" => task'[d].failed = "final"
  BY <1>1, TaskHeard
<1>5. CASE a.id \notin Files
  <2>1. a.kind # "start" /\ a.kind # "download_error"
    BY <1>3, <1>5 DEF AnswerOK
  <2>2. \A d \in Tasks : /\ task'[d].started <=> task[d].started
                         /\ task'[d].failed = task[d].failed /\ task'[d].gen = task[d].gen
    BY <1>4, <2>1
  <2>3. /\ NoSignal' <=> NoSignal
        /\ \A f : OneSignal(f)' <=> OneSignal(f)
    BY <1>2, <2>2 DEF NoSignal, OneSignal, Signal
  <2>4. \A f \in Files : retry'[Get(f)] = retry[Get(f)]
    <3> TAKE f \in Files
    <3>1. Get(f) # Put(a.id) /\ Get(f) \in Requests
      BY DEF Get, Put, Requests
    <3> QED BY <1>2, <1>5, <3>1 DEF Requeued, WireKinds
  <2>5. /\ NoRetry => NoRetry'
        /\ \A f \in Files : OneRetry(f) => OneRetry(f)'
    BY <2>4 DEF NoRetry, OneRetry
  <2>6. /\ NoAnswer(ch1) => NoAnswer(ch1)'
        /\ \A f \in Files : \A b : OneAnswer(ch1, f, b) => OneAnswer(ch1, f, b)'
    BY <1>1, <1>2, <1>5, AnswerTail DEF WireKinds
  <2>7. Nothing => Nothing'
    BY <1>2, <2>3, <2>5, <2>6 DEF Nothing, NoReply
  <2>8. ASSUME NEW f \in Files, Stage(f) PROVE Stage(f)'
    BY <1>2, <2>3, <2>5, <2>6, <2>8
       DEF Stage, Sent, Queued, Answered, Told, Over, NoReply
  <2> QED BY <1>2, <1>4, <2>7, <2>8, PipeStep
<1>6. CASE a.id \in Files
  <2>1. ~NoAnswer(ch1)
    BY <1>1, <1>2, <1>6, AnswerTail DEF WireKinds
  <2>2. ~Nothing
    BY <2>1 DEF Nothing, NoReply
  <2>3. ASSUME NEW f \in Files, Stage(f) PROVE Stage(f)'
    <3>1. Answered(f)
      BY <2>1, <2>3 DEF Stage, Sent, Queued, Told, Over, NoReply
    <3>2. a.id = f /\ NoAnswer(ch1)'
      BY <1>1, <1>2, <1>6, <3>1, AnswerTail DEF Answered, WireKinds
    <3>3. \/ a.kind = "start" /\ ch2 = <<blob[f]>>
          \/ a.kind # "start" /\ ch2 = <<>>
      BY <1>1, <1>2, <1>6, <3>1, AnswerTail DEF Answered, WireKinds
    <3>4. CASE a.again
      <4>1. a.kind # "start" /\ ch2' = <<>>
        BY <1>2, <1>3, <3>3, <3>4 DEF AnswerOK
      <4>2. NoSignal'
        BY <1>2, <1>4, <3>1, <3>4, <4>1 DEF Answered, NoSignal, Signal
      <4>3. OneRetry(f)'
        <5>1. retry' = [retry EXCEPT ![Get(f)] = @ + 1]
          BY <1>2, <1>6, <3>2, <3>4 DEF Requeued
        <5>2. ASSUME NEW g \in Files
              PROVE  retry'[Get(g)] = IF g = f THEN 1 ELSE 0
          <6>1. /\ Get(f) \in Requests /\ Get(g) \in Requests
                /\ (g # f => Get(g) # Get(f))
            BY DEF Get, Requests
          <6>2. retry[Get(f)] = 0 /\ retry[Get(g)] = 0
            BY <3>1 DEF Answered, NoRetry
          <6> QED BY <5>1, <6>1, <6>2 DEF WireKinds
        <5> QED BY <5>2 DEF OneRetry
      <4> QED BY <1>2, <3>1, <3>2, <4>1, <4>2, <4>3 DEF Stage, Queued, Answered, NoReply
    <3>5. CASE ~a.again
      <4>1. NoRetry' /\ NoGet(toServer)'
        BY <1>2, <3>1, <3>5 DEF Requeued, Answered, NoRetry
      <4>2. CASE NoSignal'
        BY <1>2, <3>2, <3>3, <4>1, <4>2 DEF Stage, Over, NoReply
      <4>3. CASE ~NoSignal'
        <5>1. PICK d \in Tasks : Signal(d)'
          BY <4>3 DEF NoSignal
        <5>2. /\ task[d].gen = session /\ task'[d].gen = session
              /\ ~task[d].started /\ task[d].failed # "final"
              /\ task'[d].started \/ task'[d].failed = "final"
          BY <1>2, <1>4, <3>1, <5>1 DEF Signal, Answered, NoSignal
        <5>3. registered[a.id] = d
          BY <1>4, <5>2
        <5>4. \A e \in Tasks : Signal(e)' => e = d
          BY <1>2, <1>4, <3>1, <5>3 DEF Signal, Answered, NoSignal
        <5>5. \/ /\ a.kind = "start" /\ task'[d].started
                 /\ task'[d].failed # "final"
              \/ /\ a.kind # "start" /\ ~task'[d].started
                 /\ task'[d].failed = "final"
          BY <1>4, <5>2
        <5>6. OneSignal(f)'
          BY <1>2, <3>3, <5>2, <5>4, <5>5 DEF OneSignal
        <5> QED BY <3>2, <4>1, <5>6 DEF Stage, Told
      <4> QED BY <4>2, <4>3
    <3> QED BY <3>4, <3>5
  <2> QED BY <1>2, <1>4, <2>2, <2>3, PipeStep
<1> QED BY <1>5, <1>6

(* download_start wakes at most one thread.                                *)
LEMMA CountHear ==
  ASSUME CountInv, DownKinds, WireKinds, ReadLoop
  PROVE  CountInv'
<1>1. PICK a \in Answers : a = Head(ch1)
  BY DEF ReadLoop, WireKinds
<1>2. /\ ch1 # <<>> /\ ch1' = Tail(ch1) /\ UNCHANGED <<session, ch2>>
  BY DEF ReadLoop
<1>3. PICK c \in Seq(Answers) : c = Tail(ch1)
  BY <1>2, HeadTailProperties DEF WireKinds
<1>4. /\ Cardinality(StartsOf(ch1))
           = Cardinality(StartsOf(c)) + (IF a.kind = "start" THEN 1 ELSE 0)
      /\ Cardinality(StartsOf(c)) \in Nat /\ Len(ch2) \in Nat
  <2>1. PICK s \in Seq(Answers) : s = ch1
    BY DEF WireKinds
  <2>2. /\ Cardinality(StartsOf(s))
             = Cardinality(StartsOf(Tail(s))) + (IF Head(s).kind = "start" THEN 1 ELSE 0)
        /\ Cardinality(StartsOf(c)) \in Nat
    BY <1>2, <2>1, StartsTail, StartsFinite
  <2>3. Len(ch2) \in Nat
    BY DEF WireKinds
  <2> QED BY <1>1, <1>3, <2>1, <2>2, <2>3
<1>5. IsFiniteSet(Woken) /\ Cardinality(Woken) \in Nat
  BY FS_CardinalityType DEF CountInv
<1>6. CASE a.kind = "start" /\ registered[a.id] \in Tasks
  <2>1. PICK d \in Tasks : d = registered[a.id]
    BY <1>6
  <2>2. Woken' \subseteq Woken \cup {d}
    BY <1>1, <1>2, <2>1, TaskHeard DEF Woken
  <2>3. PICK W \in SUBSET (Woken \cup {d}) : W = Woken'
    BY <2>2
  <2>4. /\ IsFiniteSet(Woken \cup {d})
        /\ Cardinality(Woken \cup {d}) <= Cardinality(Woken) + 1
    <3>1. PICK V : V = Woken
      OBVIOUS
    <3>2. /\ IsFiniteSet(V \cup {d})
          /\ Cardinality(V \cup {d}) = IF d \in V THEN Cardinality(V) ELSE Cardinality(V) + 1
      BY <1>5, <3>1, FS_AddElement
    <3>3. Cardinality(V) <= Cardinality(V) + 1
      BY <1>5, <3>1
    <3> QED BY <1>5, <3>1, <3>2, <3>3
  <2>5. IsFiniteSet(W) /\ Cardinality(W) <= Cardinality(Woken \cup {d})
    BY <2>4, FS_Subset
  <2>6. Cardinality(W) \in Nat /\ Cardinality(Woken \cup {d}) \in Nat
    BY <2>4, <2>5, FS_CardinalityType
  <2>7. Cardinality(StartsOf(c)) + Cardinality(W) <= Len(ch2)
    BY <1>4, <1>5, <1>6, <2>4, <2>5, <2>6 DEF CountInv
  <2> QED BY <1>2, <1>3, <2>3, <2>5, <2>7 DEF CountInv
<1>7. CASE ~(a.kind = "start" /\ registered[a.id] \in Tasks)
  <2>1. Woken' \subseteq Woken
    BY <1>1, <1>2, <1>7, TaskHeard DEF Woken
  <2>2. PICK W \in SUBSET Woken : W = Woken'
    BY <2>1
  <2>3. Cardinality(StartsOf(c)) <= Cardinality(StartsOf(ch1)) /\ Len(ch2) <= Len(ch2)
    BY <1>4
  <2>4. IsFiniteSet(W) /\ Cardinality(StartsOf(c)) + Cardinality(W) <= Len(ch2)
    BY <1>4, <2>3, Fewer
  <2> QED BY <1>2, <1>3, <2>2, <2>4 DEF CountInv
<1> QED BY <1>6, <1>7

-----------------------------------------------------------------------------
(* The ways a step changes one upload: it goes on, or it begins.           *)
UpOthers(u) == /\ upload' \in [Uploads -> Shipment]
               /\ \A v \in Uploads : v # u => upload'[v] = upload[v]

UpAdvance(u, p) ==
  /\ UpOthers(u)
  /\ upload'[u].pc = p /\ upload'[u].gen = upload[u].gen
  /\ upload'[u].ready = upload[u].ready /\ upload'[u].file = upload[u].file
  /\ upload'[u].result \in {upload[u].result, upload[u].file}

UpBegins(u) ==
  /\ UpOthers(u)
  /\ upload'[u].pc = "start" /\ upload'[u].gen = session /\ ~upload'[u].ready
  /\ upload'[u].file = None /\ upload'[u].result = None

(* The assignments of the model are such changes.                          *)
LEMMA UpAdvances ==
  ASSUME UpKinds, NEW u \in Uploads,
         NEW p \in {"idle", "start", "lock", "write", "sent", "done"},
         upload' = [upload EXCEPT ![u].pc = p]
  PROVE  UpAdvance(u, p)
<1>1. PICK t \in Shipment : t = upload[u]
  BY DEF UpKinds
<1>2. PICK n : n = [t EXCEPT !.pc = p]
  OBVIOUS
<1>3. upload' = [upload EXCEPT ![u] = n]
  BY <1>1, <1>2
<1>4. /\ n \in Shipment /\ n.pc = p /\ n.gen = t.gen /\ n.ready = t.ready
      /\ n.file = t.file /\ n.result = t.result
  BY <1>2, Shipped, ZenonT(40)
<1> HIDE <1>2
<1> QED BY <1>1, <1>3, <1>4 DEF UpAdvance, UpOthers, UpKinds

(* See UpAdvances.                                                         *)
LEMMA UpFinishes ==
  ASSUME UpKinds, NEW u \in Uploads,
         upload' = [upload EXCEPT ![u].pc = "done", ![u].result = upload[u].file]
  PROVE  UpAdvance(u, "done")
<1>1. PICK t \in Shipment : t = upload[u]
  BY DEF UpKinds
<1>2. PICK n : n = [t EXCEPT !.pc = "done", !.result = t.file]
  OBVIOUS
<1>3. upload' = [upload EXCEPT ![u] = n]
  <2>1. [upload EXCEPT ![u].pc = "done", ![u].result = upload[u].file]
         = [[upload EXCEPT ![u].pc = "done"] EXCEPT ![u].result = t.file]
    BY <1>1
  <2>2. PICK m : m = [t EXCEPT !.pc = "done"]
    OBVIOUS
  <2>3. [upload EXCEPT ![u].pc = "done"] = [upload EXCEPT ![u] = m]
    BY <1>1, <2>2
  <2>4. [[upload EXCEPT ![u] = m] EXCEPT ![u].result = t.file]
         = [upload EXCEPT ![u] = [m EXCEPT !.result = t.file]]
    BY DEF UpKinds
  <2>5. n = [m EXCEPT !.result = t.file]
    BY <1>2, <2>2
  <2> QED BY <2>1, <2>3, <2>4, <2>5, Zenon
<1>4. /\ n \in Shipment /\ n.pc = "done" /\ n.gen = t.gen /\ n.ready = t.ready
      /\ n.file = t.file /\ n.result = t.file
  BY <1>2, Finished
<1> HIDE <1>2
<1> QED BY <1>1, <1>3, <1>4 DEF UpAdvance, UpOthers, UpKinds

(* See UpAdvances.                                                         *)
LEMMA UpBeginning ==
  ASSUME UpKinds, DownKinds, NEW u \in Uploads, upload[u] = Unsent,
         upload' = [upload EXCEPT ![u].pc = "start", ![u].gen = session]
  PROVE  UpBegins(u)
<1>1. PICK t \in Shipment : t = upload[u]
  BY DEF UpKinds
<1>2. PICK g \in 1..MaxSessions : g = session
  BY DEF DownKinds
<1>3. PICK n : n = [t EXCEPT !.pc = "start", !.gen = g]
  OBVIOUS
<1>4. upload' = [upload EXCEPT ![u] = n]
  <2>1. [upload EXCEPT ![u].pc = "start", ![u].gen = session]
         = [[upload EXCEPT ![u].pc = "start"] EXCEPT ![u].gen = g]
    BY <1>2
  <2>2. PICK m : m = [t EXCEPT !.pc = "start"]
    OBVIOUS
  <2>3. [upload EXCEPT ![u].pc = "start"] = [upload EXCEPT ![u] = m]
    BY <1>1, <2>2
  <2>4. [[upload EXCEPT ![u] = m] EXCEPT ![u].gen = g]
         = [upload EXCEPT ![u] = [m EXCEPT !.gen = g]]
    BY DEF UpKinds
  <2>5. n = [m EXCEPT !.gen = g]
    BY <1>3, <2>2
  <2> QED BY <2>1, <2>3, <2>4, <2>5, Zenon
<1>5. /\ n \in Shipment /\ n.pc = "start" /\ n.gen = g /\ n.ready = t.ready
      /\ n.file = t.file /\ n.result = t.result
  BY <1>3, Begun
<1>6. t.ready = FALSE /\ t.file = None /\ t.result = None
  BY <1>1, UnsentShipment
<1> HIDE <1>3
<1> QED BY <1>1, <1>2, <1>4, <1>5, <1>6 DEF UpBegins, UpOthers, UpKinds

(* What the readLoop does to the uploads.                                  *)
LEMMA UpHeard ==
  ASSUME UpKinds, WireKinds, NEW a \in Answers, a = Head(ch1), AnswerOK(a), ReadLoop
  PROVE  /\ upload' \in [Uploads -> Shipment]
         /\ \A v \in Uploads :
              /\ upload'[v].pc = upload[v].pc /\ upload'[v].gen = upload[v].gen
              /\ upload'[v].result = upload[v].result
              /\ upload[v].pc = "idle" => upload'[v] = upload[v]
              /\ upload'[v].ready =>
                   upload[v].ready \/ (a.kind = "ready" /\ a.id = v)
              /\ upload[v].ready => upload'[v].ready
              /\ \/ upload'[v].file = upload[v].file
                 \/ a.kind = "complete" /\ a.id = v /\ upload'[v].file = a.file
<1>1. CASE a.kind = "ready"
  <2>1. HandleUpload(a.id, "ready", TRUE) /\ a.id \in Uploads
    BY <1>1 DEF ReadLoop, AnswerOK
  <2>2. PICK u \in Uploads : u = a.id
    BY <2>1
  <2>3. CASE upload[u].pc \in {"idle", "done"}
    BY <2>1, <2>2, <2>3 DEF HandleUpload, UpKinds
  <2>4. CASE upload[u].pc \notin {"idle", "done"}
    <3>1. PICK t \in Shipment : t = upload[u]
      BY DEF UpKinds
    <3>2. PICK n : n = [t EXCEPT !["ready"] = TRUE]
      OBVIOUS
    <3>3. upload' = [upload EXCEPT ![u] = n]
      BY <2>1, <2>2, <2>4, <3>1, <3>2 DEF HandleUpload
    <3>4. /\ n \in Shipment /\ n.pc = t.pc /\ n.gen = t.gen /\ n.ready = TRUE
          /\ n.file = t.file /\ n.result = t.result
      BY <3>2, ReadyHeard
    <3> HIDE <3>2
    <3> QED BY <1>1, <2>2, <2>4, <3>1, <3>3, <3>4 DEF UpKinds
  <2> QED BY <2>3, <2>4
<1>2. CASE a.kind = "complete"
  <2>1. HandleUpload(a.id, "file", a.file) /\ a.id \in Uploads
    BY <1>2 DEF ReadLoop, AnswerOK
  <2>2. PICK u \in Uploads : u = a.id
    BY <2>1
  <2>3. CASE upload[u].pc \in {"idle", "done"}
    BY <2>1, <2>2, <2>3 DEF HandleUpload, UpKinds
  <2>4. CASE upload[u].pc \notin {"idle", "done"}
    <3>1. PICK t \in Shipment : t = upload[u]
      BY DEF UpKinds
    <3>2. PICK f \in Files \cup {None} : f = a.file
      BY DEF Answers
    <3>3. PICK n : n = [t EXCEPT !["file"] = f]
      OBVIOUS
    <3>4. upload' = [upload EXCEPT ![u] = n]
      BY <2>1, <2>2, <2>4, <3>1, <3>2, <3>3 DEF HandleUpload
    <3>5. /\ n \in Shipment /\ n.pc = t.pc /\ n.gen = t.gen /\ n.ready = t.ready
          /\ n.file = f /\ n.result = t.result
      BY <3>3, FileHeard
    <3> HIDE <3>3
    <3> QED BY <1>2, <2>2, <2>4, <3>1, <3>2, <3>4, <3>5 DEF UpKinds
  <2> QED BY <2>3, <2>4
<1>3. CASE a.kind \notin {"ready", "complete"}
  <2>1. upload' = upload
    BY <1>3 DEF ReadLoop, HandleDownloadStart, HandleDownloadError
  <2> QED BY <2>1 DEF UpKinds
<1> QED BY <1>1, <1>2, <1>3

-----------------------------------------------------------------------------
(* UploadInv but for the mutex.                                            *)
Awaits(u) ==
  /\ upload[u].gen <= session
  /\ upload[u].pc = "idle" => upload[u].gen = 0
  /\ upload[u].pc # "idle" => upload[u].gen # 0
  /\ upload[u].pc \in {"lock", "write"} => upload[u].ready
  /\ upload[u].pc \notin {"sent", "done"} /\ upload[u].ready
       /\ upload[u].gen = session => u \in expected

(* See Awaits.                                                             *)
LEMMA AwaitsAdvance ==
  ASSUME UploadInv, UNCHANGED <<session, expected>>, NEW u \in Uploads,
         NEW p \in {"lock", "write", "sent", "done"}, UpAdvance(u, p),
         upload[u].pc # "idle", p \in {"lock", "write"} => upload[u].ready,
         p \in {"lock", "write"} => upload[u].pc \notin {"sent", "done"}
  PROVE  \A v \in Uploads : Awaits(v)'
BY DEF UploadInv, Awaits, UpAdvance, UpOthers

(* A new upload waits for upload_ready.                                    *)
LEMMA UploadBegins ==
  ASSUME UploadInv, DownKinds, UNCHANGED <<session, expected, ulHolder>>,
         NEW u \in Uploads, upload[u].pc = "idle", UpBegins(u)
  PROVE  UploadInv'
<1>1. session <= session /\ session # 0
  BY FileTransferAssumption DEF DownKinds
<1>2. \A v \in Uploads : Awaits(v)'
  BY <1>1 DEF UploadInv, Awaits, UpBegins, UpOthers
<1>3. \A v \in Uploads : upload'[v].pc = "write" => ulHolder'[upload'[v].gen] = v
  BY DEF UploadInv, UpBegins, UpOthers
<1>4. \A s \in 1..MaxSessions, v \in Uploads :
       ulHolder'[s] = v => upload'[v].gen = s /\ upload'[v].pc = "write"
  BY DEF UploadInv, UpBegins, UpOthers
<1> QED BY <1>2, <1>3, <1>4 DEF UploadInv, Awaits

(* The steps that leave uploadChanMu as it was.                            *)
LEMMA UploadMoves ==
  ASSUME UploadInv, UNCHANGED <<session, expected, ulHolder>>, NEW u \in Uploads,
         NEW p \in {"lock", "done"}, UpAdvance(u, p), upload[u].pc # "idle",
         upload[u].pc # "write", p = "lock" => upload[u].ready,
         p = "lock" => upload[u].pc = "start"
  PROVE  UploadInv'
<1>1. \A v \in Uploads : Awaits(v)'
  BY AwaitsAdvance
<1>2. \A v \in Uploads : upload'[v].pc = "write" => ulHolder'[upload'[v].gen] = v
  BY DEF UploadInv, UpAdvance, UpOthers
<1>3. \A s \in 1..MaxSessions, v \in Uploads :
       ulHolder'[s] = v => upload'[v].gen = s /\ upload'[v].pc = "write"
  BY DEF UploadInv, UpAdvance, UpOthers
<1> QED BY <1>1, <1>2, <1>3 DEF UploadInv, Awaits

(* The upload finds uploadChanMu free and takes it.                        *)
LEMMA UploadLocks ==
  ASSUME UploadInv, UpKinds, UNCHANGED <<session, expected>>, NEW u \in Uploads,
         UpAdvance(u, "write"), upload[u].pc = "lock",
         upload[u].gen \in 1..MaxSessions, ulHolder[upload[u].gen] = None,
         ulHolder' = [ulHolder EXCEPT ![upload[u].gen] = u]
  PROVE  UploadInv'
<1>0. None \notin Uploads
  BY FileTransferAssumption
<1>1. \A v \in Uploads : Awaits(v)'
  BY AwaitsAdvance DEF UploadInv
<1>2. \A v \in Uploads : upload'[v].pc = "write" => ulHolder'[upload'[v].gen] = v
  BY <1>0 DEF UploadInv, UpAdvance, UpOthers, UpKinds
<1>3. \A s \in 1..MaxSessions, v \in Uploads :
       ulHolder'[s] = v => upload'[v].gen = s /\ upload'[v].pc = "write"
  BY <1>0 DEF UploadInv, UpAdvance, UpOthers, UpKinds
<1> QED BY <1>1, <1>2, <1>3 DEF UploadInv, Awaits

(* The frame is written, or breaks off: the mutex is let go, if this       *)
(* upload had it.                                                          *)
LEMMA UploadUnlocks ==
  ASSUME UploadInv, UpKinds, UNCHANGED <<session, expected>>, NEW u \in Uploads,
         NEW p \in {"sent", "done"}, UpAdvance(u, p), upload[u].pc # "idle",
         ulHolder' \in [1..MaxSessions -> Uploads \cup {None}],
         \A s \in 1..MaxSessions :
           ulHolder'[s] = IF ulHolder[s] = u THEN None ELSE ulHolder[s]
  PROVE  UploadInv'
<1>0. None \notin Uploads
  BY FileTransferAssumption
<1>1. \A v \in Uploads : Awaits(v)'
  BY AwaitsAdvance
<1>2. ASSUME NEW v \in Uploads, upload'[v].pc = "write" PROVE ulHolder'[upload'[v].gen] = v
  <2>1. v # u /\ upload'[v] = upload[v] /\ ulHolder[upload[v].gen] = v
    BY <1>2 DEF UploadInv, UpAdvance, UpOthers
  <2>2. PICK g : g = upload[v].gen
    OBVIOUS
  <2>3. g \in 0..MaxSessions /\ g # 0
    BY <1>2, <2>1, <2>2 DEF UploadInv, UpKinds, Shipment
  <2>4. g \in 1..MaxSessions
    BY <2>3, FileTransferAssumption
  <2> QED BY <2>1, <2>2, <2>4
<1>3. \A s \in 1..MaxSessions, v \in Uploads :
       ulHolder'[s] = v => upload'[v].gen = s /\ upload'[v].pc = "write"
  BY <1>0 DEF UploadInv, UpAdvance, UpOthers
<1> QED BY <1>1, <1>2, <1>3 DEF UploadInv, Awaits

(* The steps of the readLoop and of the server.                            *)
LEMMA UploadHears ==
  ASSUME UploadInv, AnswerInv, UpKinds, WireKinds, ReadLoop
  PROVE  UploadInv'
<1>1. PICK a \in Answers : a = Head(ch1)
  BY DEF ReadLoop, WireKinds
<1>2. AnswerOK(a) /\ UNCHANGED <<session, ulHolder, expected>>
  <2>1. ch1 \in Seq(Answers) /\ ch1 # <<>> /\ UNCHANGED <<session, ulHolder, expected>>
    BY DEF ReadLoop, WireKinds
  <2>2. 1 \in 1..Len(ch1) /\ a = ch1[1]
    BY <1>1, <2>1
  <2> QED BY <2>1, <2>2 DEF AnswerInv
<1>3. \A v \in Uploads :
        /\ upload'[v].pc = upload[v].pc /\ upload'[v].gen = upload[v].gen
        /\ upload[v].ready => upload'[v].ready
        /\ upload'[v].ready => upload[v].ready \/ (a.kind = "ready" /\ a.id = v)
  BY <1>1, <1>2, UpHeard
<1>4. \A v \in Uploads : Awaits(v)'
  BY <1>2, <1>3 DEF UploadInv, AnswerOK, Awaits
<1>5. \A v \in Uploads : upload'[v].pc = "write" => ulHolder'[upload'[v].gen] = v
  BY <1>2, <1>3 DEF UploadInv
<1>6. \A s \in 1..MaxSessions, v \in Uploads :
       ulHolder'[s] = v => upload'[v].gen = s /\ upload'[v].pc = "write"
  BY <1>2, <1>3 DEF UploadInv
<1> QED BY <1>4, <1>5, <1>6 DEF UploadInv, Awaits

(* See UploadHears.                                                        *)
LEMMA UploadServed ==
  ASSUME UploadInv, UNCHANGED <<session, ulHolder, upload>>,
         \A u \in Uploads : u \in expected /\ upload[u].pc \notin {"sent", "done"} =>
                             u \in expected'
  PROVE  UploadInv'
<1>4. \A v \in Uploads : Awaits(v)'
  BY DEF UploadInv, Awaits
<1> QED BY <1>4 DEF UploadInv, Awaits

(* On a new connection no upload is under way.                             *)
LEMMA UploadAfresh ==
  ASSUME UploadInv, UpKinds, DownKinds, session' = session + 1,
         UNCHANGED <<ulHolder, upload>>
  PROVE  UploadInv'
<1>1. session \in Nat
  BY FileTransferAssumption DEF DownKinds
<1>2. \A v \in Uploads : upload[v].gen \in Nat /\ upload[v].gen <= session
  BY FileTransferAssumption DEF UploadInv, UpKinds, Shipment
<1>3. \A v \in Uploads : upload[v].gen <= session + 1 /\ upload[v].gen # session + 1
  BY <1>1, <1>2
<1>4. \A v \in Uploads : Awaits(v)'
  BY <1>3 DEF UploadInv, Awaits
<1> QED BY <1>4 DEF UploadInv, Awaits

-----------------------------------------------------------------------------
(* What is on channel 3.                                                   *)
LEMMA PartAt ==
  ASSUME WireKinds
  PROVE  /\ Len(ch3) \in Nat
         /\ \A i \in 1..Len(ch3) : /\ ch3[i] \in Part
                                   /\ ch3[i].id \in Uploads
                                   /\ ch3[i].part \in {"head", "data"}
                                   /\ ch3[i] = [id |-> ch3[i].id, part |-> ch3[i].part]
<1>1. PICK s \in Seq(Part) : s = ch3
  BY DEF WireKinds
<1>2. Len(s) \in Nat /\ \A i \in 1..Len(s) : s[i] \in Part
  BY ElementOfSeq
<1>3. \A p \in Part : /\ p.id \in Uploads /\ p.part \in {"head", "data"}
                      /\ p = [id |-> p.id, part |-> p.part]
  BY DEF Part
<1> QED BY <1>1, <1>2, <1>3

(* Parts stay those of expected uploads while channel 3 is as it was.      *)
LEMMA BytesKept ==
  ASSUME BytesInv, WireKinds, UNCHANGED ch3,
         \A u \in Uploads : u \in expected => u \in expected',
         \A u \in Uploads : /\ upload[u].pc \in {"write", "sent", "done"} =>
                                 upload'[u].pc \in {"write", "sent", "done"}
                            /\ upload[u].pc \in {"sent", "done"} => upload'[u].pc # "write"
  PROVE  BytesInv'
<1>1. \A i \in 1..Len(ch3) : ch3[i].id \in Uploads
  BY PartAt
<1> QED BY <1>1 DEF BytesInv

(* Channel 3 with one part more.                                           *)
LEMMA PartAppend ==
  ASSUME WireKinds, NEW p \in Part, ch3' = Append(ch3, p)
  PROVE  /\ ch3' \in Seq(Part) /\ Len(ch3) \in Nat /\ Len(ch3') = Len(ch3) + 1
         /\ ch3'[Len(ch3) + 1] = p
         /\ \A i \in 1..Len(ch3) : ch3'[i] = ch3[i]
         /\ \A i \in 1..Len(ch3') : i = Len(ch3) + 1 \/ i \in 1..Len(ch3)
BY AppendProperties DEF WireKinds

(* The head of a frame is the first part of its upload; the data is the    *)
(* second, and closes the frame.                                           *)
LEMMA BytesHead ==
  ASSUME BytesInv, WireKinds, UNCHANGED expected, NEW u \in Uploads, u \in expected,
         UpAdvance(u, "write"), upload[u].pc = "lock",
         ch3' = Append(ch3, [id |-> u, part |-> "head"])
  PROVE  BytesInv'
<1>1. PICK p \in Part : p = [id |-> u, part |-> "head"]
  BY DEF Part
<1>2. p.id = u /\ p.part = "head"
  BY <1>1
<1>3. /\ ch3' \in Seq(Part) /\ Len(ch3) \in Nat /\ Len(ch3') = Len(ch3) + 1
      /\ ch3'[Len(ch3) + 1] = p
      /\ \A i \in 1..Len(ch3) : ch3'[i] = ch3[i]
      /\ \A i \in 1..Len(ch3') : i = Len(ch3) + 1 \/ i \in 1..Len(ch3)
  BY <1>1, PartAppend
<1>4. \A i \in 1..Len(ch3) : ch3[i].id \in Uploads /\ ch3[i].id # u
  BY PartAt DEF BytesInv
<1>5. ASSUME NEW i \in 1..Len(ch3')
      PROVE  /\ ch3'[i].id \in expected'
             /\ upload'[ch3'[i].id].pc \in {"write", "sent", "done"}
             /\ ch3'[i].part = "data" => upload'[ch3'[i].id].pc # "write"
  <2>1. CASE i = Len(ch3) + 1
    BY <1>2, <1>3, <2>1 DEF UpAdvance
  <2>2. CASE i \in 1..Len(ch3)
    <3>1. PICK v \in Uploads : v = ch3[i].id /\ v # u
      BY <1>4, <2>2
    <3> QED BY <1>3, <2>2, <3>1 DEF BytesInv, UpAdvance, UpOthers
  <2> QED BY <1>3, <2>1, <2>2
<1>6. ASSUME NEW i \in 1..Len(ch3'), NEW j \in 1..Len(ch3'), ch3'[i] = ch3'[j]
      PROVE  i = j
  <2>1. CASE i \in 1..Len(ch3) /\ j \in 1..Len(ch3)
    BY <1>3, <1>6, <2>1 DEF BytesInv
  <2>2. CASE i = Len(ch3) + 1
    BY <1>2, <1>3, <1>4, <1>6, <2>2
  <2>3. CASE j = Len(ch3) + 1
    BY <1>2, <1>3, <1>4, <1>6, <2>3
  <2> QED BY <1>3, <2>1, <2>2, <2>3
<1> QED BY <1>5, <1>6 DEF BytesInv

(* See BytesHead.                                                          *)
LEMMA BytesData ==
  ASSUME BytesInv, WireKinds, UNCHANGED expected, NEW u \in Uploads,
         UpAdvance(u, "sent"), upload[u].pc = "write",
         Len(ch3) \in 1..Len(ch3), ch3[Len(ch3)].id = u,
         ch3' = Append(ch3, [id |-> u, part |-> "data"])
  PROVE  BytesInv'
<1>1. PICK p \in Part : p = [id |-> u, part |-> "data"]
  BY DEF Part
<1>2. p.id = u /\ p.part = "data"
  BY <1>1
<1>3. /\ ch3' \in Seq(Part) /\ Len(ch3) \in Nat /\ Len(ch3') = Len(ch3) + 1
      /\ ch3'[Len(ch3) + 1] = p
      /\ \A i \in 1..Len(ch3) : ch3'[i] = ch3[i]
      /\ \A i \in 1..Len(ch3') : i = Len(ch3) + 1 \/ i \in 1..Len(ch3)
  BY <1>1, PartAppend
<1>4. /\ \A i \in 1..Len(ch3) : ch3[i].id \in Uploads /\ ch3[i] # p
      /\ u \in expected
  <2>1. Len(ch3) \in Nat
    BY <1>3
  <2>2. u \in expected
    BY DEF BytesInv
  <2>3. ASSUME NEW i \in 1..Len(ch3) PROVE ch3[i].id \in Uploads /\ ch3[i] # p
    <3>1. ch3[i].id \in Uploads
      BY PartAt
    <3>2. ch3[i].part = "data" => ch3[i].id # u
      BY DEF BytesInv
    <3> QED BY <1>2, <3>1, <3>2
  <2> QED BY <2>2, <2>3
<1>5. ASSUME NEW i \in 1..Len(ch3')
      PROVE  /\ ch3'[i].id \in expected'
             /\ upload'[ch3'[i].id].pc \in {"write", "sent", "done"}
             /\ ch3'[i].part = "data" => upload'[ch3'[i].id].pc # "write"
  <2>1. CASE i = Len(ch3) + 1
    BY <1>2, <1>3, <1>4, <2>1 DEF UpAdvance
  <2>2. CASE i \in 1..Len(ch3)
    <3>1. PICK v \in Uploads : v = ch3[i].id
      BY <1>4, <2>2
    <3> QED BY <1>3, <1>4, <2>2, <3>1 DEF BytesInv, UpAdvance, UpOthers
  <2> QED BY <1>3, <2>1, <2>2
<1>6. ASSUME NEW i \in 1..Len(ch3'), NEW j \in 1..Len(ch3'), ch3'[i] = ch3'[j]
      PROVE  i = j
  <2>1. CASE i \in 1..Len(ch3) /\ j \in 1..Len(ch3)
    BY <1>3, <1>6, <2>1 DEF BytesInv
  <2>2. CASE i = Len(ch3) + 1
    BY <1>2, <1>3, <1>4, <1>6, <2>2
  <2>3. CASE j = Len(ch3) + 1
    BY <1>2, <1>3, <1>4, <1>6, <2>3
  <2> QED BY <1>3, <2>1, <2>2, <2>3
<1> QED BY <1>5, <1>6 DEF BytesInv

(* See BytesHead.                                                          *)
LEMMA FramesHead ==
  ASSUME FramesWhole, WireKinds, Len(ch3) % 2 = 0, NEW u \in Uploads,
         ch3' = Append(ch3, [id |-> u, part |-> "head"])
  PROVE  FramesWhole' /\ Len(ch3') % 2 = 1 /\ ch3'[Len(ch3')].id = u
<1>1. PICK p \in Part : p = [id |-> u, part |-> "head"]
  BY DEF Part
<1>2. p.id = u /\ p.part = "head"
  BY <1>1
<1>3. /\ Len(ch3) \in Nat /\ Len(ch3') = Len(ch3) + 1 /\ ch3'[Len(ch3) + 1] = p
      /\ \A i \in 1..Len(ch3) : ch3'[i] = ch3[i]
      /\ \A i \in 1..Len(ch3') : i = Len(ch3) + 1 \/ i \in 1..Len(ch3)
  BY <1>1, PartAppend
<1>4. (Len(ch3) + 1) % 2 = 1
  BY <1>3
<1>5. ASSUME NEW i \in 1..Len(ch3')
      PROVE  IF i % 2 = 1 THEN ch3'[i].part = "head"
                          ELSE ch3'[i] = [id |-> ch3'[i - 1].id, part |-> "data"]
  <2>1. CASE i = Len(ch3) + 1
    BY <1>2, <1>3, <1>4, <2>1
  <2>2. CASE i \in 1..Len(ch3)
    <3>1. CASE i % 2 = 1
      BY <1>3, <2>2, <3>1 DEF FramesWhole
    <3>2. CASE i % 2 # 1
      <4>1. i # 1
        BY <3>2
      <4>2. i - 1 \in 1..Len(ch3)
        BY <1>3, <2>2, <4>1
      <4> QED BY <1>3, <2>2, <3>2, <4>2 DEF FramesWhole
    <3> QED BY <3>1, <3>2
  <2> QED BY <1>3, <2>1, <2>2
<1> QED BY <1>2, <1>3, <1>4, <1>5 DEF FramesWhole

(* See BytesHead.                                                          *)
LEMMA FramesData ==
  ASSUME FramesWhole, WireKinds, Len(ch3) % 2 = 1, NEW u \in Uploads,
         ch3[Len(ch3)].id = u, ch3' = Append(ch3, [id |-> u, part |-> "data"])
  PROVE  FramesWhole' /\ Len(ch3') % 2 = 0
<1>1. PICK p \in Part : p = [id |-> u, part |-> "data"]
  BY DEF Part
<1>3. /\ Len(ch3) \in Nat /\ Len(ch3') = Len(ch3) + 1 /\ ch3'[Len(ch3) + 1] = p
      /\ \A i \in 1..Len(ch3) : ch3'[i] = ch3[i]
      /\ \A i \in 1..Len(ch3') : i = Len(ch3) + 1 \/ i \in 1..Len(ch3)
  BY <1>1, PartAppend
<1>4. (Len(ch3) + 1) % 2 = 0
  BY <1>3
<1>5. ASSUME NEW i \in 1..Len(ch3')
      PROVE  IF i % 2 = 1 THEN ch3'[i].part = "head"
                          ELSE ch3'[i] = [id |-> ch3'[i - 1].id, part |-> "data"]
  <2>1. CASE i = Len(ch3) + 1
    <3>1. i - 1 = Len(ch3) /\ Len(ch3) \in 1..Len(ch3) /\ i % 2 # 1
      BY <1>3, <1>4, <2>1
    <3> QED BY <1>1, <1>3, <2>1, <3>1
  <2>2. CASE i \in 1..Len(ch3)
    <3>1. CASE i % 2 = 1
      BY <1>3, <2>2, <3>1 DEF FramesWhole
    <3>2. CASE i % 2 # 1
      <4>1. i # 1
        BY <3>2
      <4>2. i - 1 \in 1..Len(ch3)
        BY <1>3, <2>2, <4>1
      <4> QED BY <1>3, <2>2, <3>2, <4>2 DEF FramesWhole
    <3> QED BY <3>1, <3>2
  <2> QED BY <1>3, <2>1, <2>2
<1> QED BY <1>3, <1>4, <1>5 DEF FramesWhole

(* Channel 3 with its first frame taken.                                   *)
LEMMA Rest ==
  ASSUME WireKinds, Len(ch3) >= 2, ch3' = SubSeq(ch3, 3, Len(ch3))
  PROVE  /\ ch3' \in Seq(Part) /\ Len(ch3) \in Nat /\ Len(ch3') = Len(ch3) - 2
         /\ \A i \in 1..Len(ch3') : i + 2 \in 1..Len(ch3) /\ ch3'[i] = ch3[i + 2]
<1>1. PICK s \in Seq(Part) : s = ch3
  BY DEF WireKinds
<1>2. /\ SubSeq(s, 3, Len(s)) \in Seq(Part)
      /\ Len(s) \in Nat /\ Len(SubSeq(s, 3, Len(s))) = Len(s) - 2
      /\ \A i \in 1..(Len(s) - 2) : SubSeq(s, 3, Len(s))[i] = s[3 + i - 1]
  <2>1. Len(s) \in Nat /\ Len(s) >= 2
    BY <1>1
  <2>2. /\ 3 \in 1..Len(s)+1 /\ Len(s) \in 3-1..Len(s) /\ Len(s) - 3 + 1 = Len(s) - 2
    BY <2>1
  <2> QED BY <2>1, <2>2, SubSeqProperties
<1>3. \A i \in 1..Len(ch3') : 3 + i - 1 = i + 2 /\ i + 2 \in 1..Len(ch3)
  BY <1>1, <1>2
<1> QED BY <1>1, <1>2, <1>3

(* Taking a frame keeps the parity of the parts.                           *)
LEMMA TwoLess ==
  ASSUME NEW n \in Nat, n >= 2
  PROVE  (n - 2) % 2 = n % 2
<1>1. PICK m \in Nat : n = m + 2
  BY n - 2 \in Nat, n = (n - 2) + 2
<1>2. (m + 2) % 2 = m % 2
  OBVIOUS
<1> QED BY <1>1, <1>2

(* The frame the server takes is whole, of an upload that is sent, and the *)
(* only one of that upload.                                                *)
LEMMA TakenBytes ==
  ASSUME BytesInv, FramesWhole, WireKinds, UNCHANGED upload, Len(ch3) >= 2,
         ch3' = SubSeq(ch3, 3, Len(ch3)), expected' = expected \ {ch3[1].id}
  PROVE  /\ BytesInv' /\ FramesWhole'
         /\ upload[ch3[1].id].pc \in {"sent", "done"}
         /\ Len(ch3) % 2 = 1 => Len(ch3') % 2 = 1 /\ ch3'[Len(ch3')] = ch3[Len(ch3)]
         /\ Len(ch3) % 2 = 0 => Len(ch3') % 2 = 0
<1>1. /\ ch3' \in Seq(Part) /\ Len(ch3) \in Nat /\ Len(ch3') = Len(ch3) - 2
      /\ \A i \in 1..Len(ch3') : i + 2 \in 1..Len(ch3) /\ ch3'[i] = ch3[i + 2]
  BY Rest
<1>2. /\ 1 \in 1..Len(ch3) /\ 2 \in 1..Len(ch3) /\ 1 % 2 = 1 /\ 2 % 2 = 0 /\ 2 - 1 = 1
  BY <1>1
<1>3. PICK u \in Uploads : u = ch3[1].id
  BY <1>2, PartAt
<1>4. ch3[1].part = "head" /\ ch3[2] = [id |-> u, part |-> "data"]
  <2>1. ch3[1].part = "head"
    BY <1>2 DEF FramesWhole
  <2>2. ch3[2] = [id |-> ch3[2 - 1].id, part |-> "data"]
    BY <1>2 DEF FramesWhole
  <2> QED BY <1>2, <1>3, <2>1, <2>2
<1>5. ch3[1] = [id |-> u, part |-> "head"]
  BY <1>2, <1>3, <1>4, PartAt
<1>6. upload[u].pc \in {"sent", "done"}
  BY <1>2, <1>4 DEF BytesInv
<1>7. ASSUME NEW i \in 1..Len(ch3), i # 1, i # 2 PROVE ch3[i].id # u
  <2>1. SUFFICES ASSUME ch3[i].id = u PROVE FALSE
    OBVIOUS
  <2>2. ch3[i] = ch3[1] \/ ch3[i] = ch3[2]
    BY <1>4, <1>5, <2>1, PartAt
  <2> QED BY <1>2, <1>7, <2>2 DEF BytesInv
<1>8. BytesInv'
  <2>1. \A i \in 1..Len(ch3') : i + 2 # 1 /\ i + 2 # 2
    OBVIOUS
  <2>2. ASSUME NEW i \in 1..Len(ch3')
        PROVE  /\ ch3'[i].id \in expected'
               /\ upload'[ch3'[i].id].pc \in {"write", "sent", "done"}
               /\ ch3'[i].part = "data" => upload'[ch3'[i].id].pc # "write"
    BY <1>1, <1>3, <1>7, <2>1 DEF BytesInv
  <2>3. ASSUME NEW i \in 1..Len(ch3'), NEW j \in 1..Len(ch3'), ch3'[i] = ch3'[j]
        PROVE  i = j
    <3>1. i + 2 = j + 2
      BY <1>1, <2>3 DEF BytesInv
    <3> QED BY <3>1
  <2> QED BY <2>2, <2>3 DEF BytesInv
<1>9. FramesWhole'
  <2> SUFFICES ASSUME NEW i \in 1..Len(ch3')
               PROVE  IF i % 2 = 1 THEN ch3'[i].part = "head"
                          ELSE ch3'[i] = [id |-> ch3'[i - 1].id, part |-> "data"]
    BY DEF FramesWhole
  <2>1. i + 2 \in 1..Len(ch3) /\ ch3'[i] = ch3[i + 2] /\ (i + 2) % 2 = i % 2
    BY <1>1
  <2>2. CASE i % 2 = 1
    BY <2>1, <2>2 DEF FramesWhole
  <2>3. CASE i % 2 # 1
    <3>0. i # 1
      BY <2>3
    <3>1. i - 1 \in 1..Len(ch3') /\ (i - 1) + 2 = (i + 2) - 1
      BY <1>1, <3>0
    <3>2. ch3'[i - 1] = ch3[(i + 2) - 1]
      BY <1>1, <3>1
    <3>3. ch3[i + 2] = [id |-> ch3[(i + 2) - 1].id, part |-> "data"]
      BY <2>1, <2>3 DEF FramesWhole
    <3> QED BY <2>1, <2>3, <3>2, <3>3
  <2> QED BY <2>2, <2>3
<1>10. Len(ch3) % 2 = 1 => Len(ch3') % 2 = 1 /\ ch3'[Len(ch3')] = ch3[Len(ch3)]
  <2> SUFFICES ASSUME Len(ch3) % 2 = 1
               PROVE  Len(ch3') % 2 = 1 /\ ch3'[Len(ch3')] = ch3[Len(ch3)]
    OBVIOUS
  <2>1. Len(ch3') % 2 = 1
    BY <1>1, TwoLess
  <2>2. Len(ch3') # 0 /\ Len(ch3') \in Nat
    BY <1>1, <2>1
  <2>3. Len(ch3') \in 1..Len(ch3') /\ Len(ch3') + 2 = Len(ch3)
    BY <1>1, <2>2
  <2> QED BY <1>1, <2>1, <2>3
<1>11. Len(ch3) % 2 = 0 => Len(ch3') % 2 = 0
  BY <1>1, TwoLess
<1> QED BY <1>3, <1>6, <1>8, <1>9, <1>10, <1>11

-----------------------------------------------------------------------------
(* What a step may do so that the answers on their way stay true.          *)
Forward ==
  /\ \A f \in Files : blob[f] \in Uploads => blob'[f] = blob[f]
  /\ \A u \in Uploads : upload'[u].pc \notin {"sent", "done"} =>
                          /\ upload[u].pc \notin {"sent", "done"}
                          /\ u \in expected => u \in expected'

(* See Forward.                                                            *)
LEMMA AnswerKept ==
  ASSUME Forward, NEW a \in Answers, AnswerOK(a)
  PROVE  AnswerOK(a)'
<1>1. a.kind = "complete" => a.file \in Files /\ blob'[a.file] = a.id
  BY DEF AnswerOK, Forward
<1>2. a.kind = "ready" /\ upload'[a.id].pc \notin {"sent", "done"} => a.id \in expected'
  BY DEF AnswerOK, Forward
<1> QED BY <1>1, <1>2 DEF AnswerOK

(* See Forward.                                                            *)
LEMMA AnswersKept ==
  ASSUME AnswerInv, WireKinds, Forward,
         \/ ch1' = ch1
         \/ ch1' = <<>>
         \/ ch1 # <<>> /\ ch1' = Tail(ch1)
  PROVE  AnswerInv' /\ ch1' \in Seq(Answers)
<1>1. PICK s \in Seq(Answers) : s = ch1
  BY DEF WireKinds
<1>2. \A i \in 1..Len(s) : s[i] \in Answers /\ AnswerOK(s[i])
  BY <1>1, ElementOfSeq DEF AnswerInv
<1>3. \A i \in 1..Len(s) : AnswerOK(s[i])'
  <2> TAKE i \in 1..Len(s)
  <2>1. PICK a \in Answers : a = s[i]
    BY <1>2
  <2>2. AnswerOK(a)'
    BY <1>2, <2>1, AnswerKept
  <2> QED BY <2>1, <2>2
<1>4. PICK t \in Seq(Answers) : t = ch1'
  <2>1. s # <<>> => Tail(s) \in Seq(Answers)
    BY HeadTailProperties
  <2>2. <<>> \in Seq(Answers)
    BY EmptySeq
  <2> QED BY <1>1, <2>1, <2>2, Zenon
<1>5. \A i \in 1..Len(t) : \E j \in 1..Len(s) : t[i] = s[j]
  <2>1. CASE t = s
    BY <2>1
  <2>2. CASE t = <<>>
    BY <2>2
  <2>3. CASE s # <<>> /\ t = Tail(s)
    <3> TAKE i \in 1..Len(t)
    <3>1. i + 1 \in 1..Len(s) /\ t[i] = s[i + 1]
      BY <2>3
    <3> QED BY <3>1
  <2> QED BY <1>1, <1>4, <2>1, <2>2, <2>3
<1>6. ASSUME NEW i \in 1..Len(t) PROVE AnswerOK(t[i])'
  <2>1. PICK j \in 1..Len(s) : t[i] = s[j]
    BY <1>5
  <2> QED BY <1>3, <2>1
<1> QED BY <1>4, <1>6 DEF AnswerInv

(* See Forward; the new answer is true when it is sent.                    *)
LEMMA AnswersMore ==
  ASSUME AnswerInv, WireKinds, Forward, NEW a \in Answers, AnswerOK(a)',
         ch1' = Append(ch1, a)
  PROVE  AnswerInv' /\ ch1' \in Seq(Answers)
<1>1. PICK s \in Seq(Answers) : s = ch1
  BY DEF WireKinds
<1>2. \A i \in 1..Len(s) : s[i] \in Answers /\ AnswerOK(s[i])
  BY <1>1, ElementOfSeq DEF AnswerInv
<1>3. \A i \in 1..Len(s) : AnswerOK(s[i])'
  <2> TAKE i \in 1..Len(s)
  <2>1. PICK b \in Answers : b = s[i]
    BY <1>2
  <2>2. AnswerOK(b)'
    BY <1>2, <2>1, AnswerKept
  <2> QED BY <2>1, <2>2
<1>4. PICK t \in Seq(Answers) : t = ch1'
  BY <1>1, AppendProperties
<1>5. \A i \in 1..Len(t) : t[i] = a \/ \E j \in 1..Len(s) : t[i] = s[j]
  <2>1. /\ Len(t) = Len(s) + 1 /\ t[Len(s) + 1] = a /\ Len(s) \in Nat
        /\ \A i \in 1..Len(s) : t[i] = s[i]
    BY <1>1, <1>4, AppendProperties
  <2> TAKE i \in 1..Len(t)
  <2>2. i = Len(s) + 1 \/ i \in 1..Len(s)
    BY <2>1
  <2> QED BY <2>1, <2>2
<1>6. ASSUME NEW i \in 1..Len(t) PROVE AnswerOK(t[i])'
  BY <1>3, <1>5
<1> QED BY <1>4, <1>6 DEF AnswerInv

-----------------------------------------------------------------------------
(* StoreInv, when uploads move on, when the cache changes, when an upload  *)
(* is reported done, when its file id is heard and when the server stores  *)
(* one.                                                                    *)
LEMMA StoreUploads ==
  ASSUME StoreInv, UNCHANGED <<blob, cache>>,
         \A v \in Uploads : /\ upload'[v].file \in {None, upload[v].file}
                            /\ upload'[v].result \in {None, upload[v].result, upload[v].file}
  PROVE  StoreInv'
BY DEF StoreInv

(* See StoreUploads.                                                       *)
LEMMA StoreCache ==
  ASSUME StoreInv, StoreKinds, UNCHANGED <<blob, upload>>, NEW f \in Files,
         NEW x \in {None, blob[f]}, cache' = [cache EXCEPT ![f] = x]
  PROVE  StoreInv' /\ StoreKinds'
<1>1. x \in Contents \cup {None}
  BY DEF StoreKinds
<1> QED BY <1>1 DEF StoreInv, StoreKinds

(* See StoreUploads.                                                       *)
LEMMA StoreComplete ==
  ASSUME StoreInv, StoreKinds, UpKinds, UNCHANGED blob, NEW u \in Uploads,
         upload[u].file # None, UpAdvance(u, "done"),
         cache' = [cache EXCEPT ![upload[u].file] = u] \/ cache' = cache
  PROVE  StoreInv' /\ StoreKinds'
<1>1. PICK f \in Files : f = upload[u].file
  BY DEF UpKinds, Shipment
<1>2. blob[f] = u /\ u \in Contents
  BY <1>1 DEF StoreInv, Contents
<1>3. \A v \in Uploads : /\ upload'[v].file # None => blob'[upload'[v].file] = v
                         /\ upload'[v].result # None => blob'[upload'[v].result] = v
  BY DEF StoreInv, UpAdvance, UpOthers
<1>4. \A g \in Files : cache'[g] \in {None, blob'[g]}
  BY <1>1, <1>2 DEF StoreInv, StoreKinds
<1>5. cache' \in [Files -> Contents \cup {None}]
  BY <1>1, <1>2 DEF StoreKinds
<1>6. \A g \in Posted : blob'[g] = g
  BY DEF StoreInv
<1>8. StoreInv'
  BY <1>3, <1>4, <1>6, Zenon DEF StoreInv
<1> QED BY <1>5, <1>8 DEF StoreKinds

(* See StoreUploads.                                                       *)
LEMMA StoreHeard ==
  ASSUME StoreInv, UpKinds, WireKinds, AnswerInv, ReadLoop
  PROVE  StoreInv'
<1>1. PICK a \in Answers : a = Head(ch1)
  BY DEF ReadLoop, WireKinds
<1>2. AnswerOK(a) /\ UNCHANGED <<blob, cache>>
  BY <1>1, SMTT(30) DEF ReadLoop, AnswerInv, WireKinds
<1>3. \A v \in Uploads :
        /\ upload'[v].result = upload[v].result
        /\ \/ upload'[v].file = upload[v].file
           \/ a.kind = "complete" /\ a.id = v /\ upload'[v].file = a.file
  BY <1>1, <1>2, UpHeard
<1> QED BY <1>2, <1>3 DEF StoreInv, AnswerOK

(* See StoreUploads.                                                       *)
LEMMA StoreTaken ==
  ASSUME StoreInv, StoreKinds, UpKinds, UNCHANGED <<cache, upload>>, NEW f \in Fresh,
         NEW u \in Uploads, blob[f] = None, blob' = [blob EXCEPT ![f] = u]
  PROVE  /\ StoreInv' /\ StoreKinds'
         /\ \A g \in Files : blob[g] # None => blob'[g] = blob[g]
<1>1. f \in Files /\ f \notin Posted /\ u \in Contents /\ None \notin Uploads
  BY FileTransferAssumption DEF Files, Contents
<1>2. \A g \in Files : g # f => blob'[g] = blob[g]
  BY DEF StoreKinds
<1>3. blob' \in [Files -> Contents \cup {None}]
  BY <1>1 DEF StoreKinds
<1>4. \A g \in Posted : blob'[g] = g
  BY <1>1, <1>2 DEF StoreInv, Files
<1>5. \A v \in Uploads, g \in Files : blob[g] = v => blob'[g] = v
  BY <1>1, <1>2
<1>6. \A v \in Uploads : /\ upload[v].file # None => blob'[upload[v].file] = v
                         /\ upload[v].result # None => blob'[upload[v].result] = v
  BY <1>5 DEF StoreInv, UpKinds, Shipment
<1>7. \A g \in Files : cache[g] \in {None, blob'[g]}
  BY <1>2 DEF StoreInv
<1> QED BY <1>1, <1>2, <1>3, <1>4, <1>6, <1>7 DEF StoreInv, StoreKinds

-----------------------------------------------------------------------------
(* What a step leaves alone.                                               *)

(* A part that a step leaves alone.                                        *)
LEMMA UpSame ==
  ASSUME UpPart, UNCHANGED <<up, session, upload, ulHolder, expected, ch3>>
  PROVE  UpPart'
BY DEF UpPart, UpKinds, UploadInv, BytesInv, FramesWhole, TurnInv

(* See UpSame.                                                             *)
LEMMA StoreSame ==
  ASSUME StorePart, UNCHANGED <<cache, blob, upload>>
  PROVE  StorePart'
BY DEF StorePart, StoreKinds, StoreInv

(* See UpSame.                                                             *)
LEMMA WireSame ==
  ASSUME WirePart, UNCHANGED <<retry, toServer, ch1, ch2, ch3, blob, upload, expected>>
  PROVE  WirePart'
BY DEF WirePart, WireKinds, AnswerInv, AnswerOK

(* See UpSame.                                                             *)
LEMMA DownSame ==
  ASSUME DownPart,
         UNCHANGED <<up, session, task, registered, holder, slipped, toServer, retry,
                     ch1, ch2, blob>>
  PROVE  DownPart'
<1>1. DownKinds' /\ TaskInv' /\ MutexInv'
  BY DEF DownPart, DownKinds, TaskInv, MutexInv
<1>2. CountInv'
  <2>1. Woken' = Woken
    BY DEF Woken
  <2> QED BY <2>1 DEF DownPart, CountInv
<1>3. PipeInv'
  <2>1. \A e \in Tasks : Signal(e)' <=> Signal(e)
    BY DEF Signal
  <2> QED BY <2>1, PipeTask DEF DownPart
<1> QED BY <1>1, <1>2, <1>3 DEF DownPart

-----------------------------------------------------------------------------
(* Downloads.                                                              *)

(* The message is known, so the server stores the file.                    *)
LEMMA StepCheck ==
  ASSUME IInv, NEW d \in Tasks, NEW f \in Files, Check(d, f)
  PROVE  IInv'
<1> USE DEF IInv, DownPart, StorePart, WirePart
<1>1. /\ task[d].pc = "idle" /\ Known(f)
      /\ task' = [task EXCEPT ![d] = [Idle EXCEPT !.pc = "enter", !.file = f,
                                                  !.gen = session]]
      /\ UNCHANGED <<up, session, registered, holder, slipped, toServer, retry, ch1, ch2,
                     ch3, blob, cache, upload, ulHolder, expected>>
  BY DEF Check, uploads, wires
<1>2. Enters(d, f)
  BY <1>1, Entering DEF DownKinds
<1>3. blob[f] # None
  <2>1. f \in Posted => blob[f] = f
    BY DEF StoreInv
  <2>2. \A u \in Uploads : upload[u].result = f => blob[f] = u
    BY FileTransferAssumption DEF StoreInv
  <2> QED BY <1>1, <2>1, <2>2, FileTransferAssumption DEF Known
<1>4. task[d].gen = 0
  BY <1>1 DEF TaskInv
<1>5. DownKinds'
  BY <1>1, <1>2 DEF DownKinds, Enters
<1>6. TaskInv' /\ MutexInv' /\ CountInv' /\ PipeInv'
  <2>1. TaskInv'
    BY <1>1, <1>2, <1>3, TaskEnter DEF Stays
  <2>2. MutexInv'
    BY <1>1, <1>2, MutexIdle
  <2>3. CountInv'
    BY <1>1, <1>2, CountTask
  <2>4. PipeInv'
    BY <1>1, <1>2, <1>4, PipeAside
  <2> QED BY <2>1, <2>2, <2>3, <2>4
<1> QED BY <1>1, <1>5, <1>6, UpSame, StoreSame, WireSame

(* The registration is no concern of the pipeline.                         *)
LEMMA StepRegister ==
  ASSUME IInv, NEW d \in Tasks, Register(d)
  PROVE  IInv'
<1> USE DEF IInv, DownPart, StorePart, WirePart
<1>1. /\ task[d].pc = "enter" /\ task' = [task EXCEPT ![d].pc = "lock"]
      /\ registered' = [registered EXCEPT ![task[d].file] = d]
      /\ UNCHANGED <<up, session, holder, slipped, toServer, retry, ch1, ch2, ch3, blob,
                     cache, upload, ulHolder, expected>>
  BY DEF Register, uploads, wires
<1>2. Advance(d, "lock") /\ "lock" \in Pcs
  BY <1>1, Advances DEF DownKinds, Pcs
<1>3. DownKinds'
  BY <1>1, <1>2 DEF DownKinds, Advance
<1>4. TaskInv' /\ MutexInv' /\ CountInv' /\ PipeInv'
  <2>1. TaskInv'
    BY <1>1, <1>2, TaskAdvance DEF Stays
  <2>2. MutexInv'
    BY <1>1, <1>2, MutexAdvance
  <2>3. CountInv'
    BY <1>1, <1>2, CountTask
  <2>4. PipeInv'
    BY <1>1, <1>2, PipeAside
  <2> QED BY <2>1, <2>2, <2>3, <2>4
<1> QED BY <1>1, <1>3, <1>4, UpSame, StoreSame, WireSame

(* The thread was woken before it reads.                                   *)
LEMMA StepStarted ==
  ASSUME IInv, NEW d \in Tasks, Started(d)
  PROVE  IInv'
<1> USE DEF IInv, DownPart, StorePart, WirePart
<1>1. /\ task[d].pc = "wait" /\ task[d].started /\ task' = [task EXCEPT ![d].pc = "read"]
      /\ UNCHANGED <<up, session, registered, holder, slipped, toServer, retry, ch1, ch2,
                     ch3, blob, cache, upload, ulHolder, expected>>
  BY DEF Started, uploads, wires
<1>2. Advance(d, "read") /\ "read" \in Pcs
  BY <1>1, Advances DEF DownKinds, Pcs
<1>3. DownKinds'
  BY <1>1, <1>2 DEF DownKinds, Advance
<1>4. TaskInv' /\ MutexInv' /\ CountInv' /\ PipeInv'
  <2>1. TaskInv'
    BY <1>1, <1>2, TaskAdvance DEF Stays
  <2>2. MutexInv'
    BY <1>1, <1>2, MutexAdvance
  <2>3. CountInv'
    BY <1>1, <1>2, CountTask
  <2>4. PipeInv'
    BY <1>1, <1>2, PipeAside
  <2> QED BY <2>1, <2>2, <2>3, <2>4
<1> QED BY <1>1, <1>3, <1>4, UpSame, StoreSame, WireSame

(* Nothing is registered or locked yet.                                    *)
LEMMA StepRefused ==
  ASSUME IInv, NEW d \in Tasks, Refused(d)
  PROVE  IInv'
<1> USE DEF IInv, DownPart, StorePart, WirePart
<1>1. /\ task[d].pc = "enter" /\ ~Live(task[d].gen) /\ task' = [task EXCEPT ![d] = Idle]
      /\ UNCHANGED <<up, session, registered, holder, slipped, toServer, retry, ch1, ch2,
                     ch3, blob, cache, upload, ulHolder, expected>>
  BY DEF Refused, uploads, wires
<1>2. Leaves(d)
  BY <1>1, Leaving DEF DownKinds
<1>3. DownKinds'
  BY <1>1, <1>2 DEF DownKinds, Leaves
<1>4. TaskInv' /\ MutexInv' /\ CountInv' /\ PipeInv'
  <2>1. TaskInv'
    BY <1>1, <1>2, TaskLeave DEF Stays
  <2>2. MutexInv'
    BY <1>1, <1>2, MutexIdle
  <2>3. CountInv'
    BY <1>1, <1>2, CountTask
  <2>4. CASE up
    BY <1>1, <1>2, <2>1, <2>2, <2>3, <2>4, PipeAside DEF Live
  <2>5. CASE ~up
    BY <1>1, <2>1, <2>2, <2>3, <2>5 DEF PipeInv
  <2> QED BY <2>4, <2>5
<1> QED BY <1>1, <1>3, <1>4, UpSame, StoreSame, WireSame

(* The thread takes the free mutex and sends, or leaves it free.           *)
LEMMA StepSendDownload ==
  ASSUME IInv, NEW d \in Tasks, SendDownload(d)
  PROVE  IInv'
<1> USE DEF IInv, DownPart, StorePart, WirePart
<1>1. /\ task[d].pc = "lock" /\ holder[task[d].gen] = None
      /\ UNCHANGED <<up, session, slipped, retry, ch1, ch2, ch3, blob, cache, upload,
                     ulHolder, expected>>
  BY DEF SendDownload, Free, uploads
<1>2. task[d].gen \in 1..MaxSessions /\ task[d].file \in Files
  BY <1>1, InRange DEF TaskInv
<1>3. CASE Live(task[d].gen)
  <2>1. /\ up /\ task[d].gen = session /\ task' = [task EXCEPT ![d].pc = "wait"]
        /\ holder' = [holder EXCEPT ![task[d].gen] = d] /\ UNCHANGED registered
        /\ toServer' = Append(toServer, Get(task[d].file))
    BY <1>3 DEF SendDownload, Live
  <2>2. Advance(d, "wait") /\ "wait" \in Pcs
    BY <2>1, Advances DEF DownKinds, Pcs
  <2>3. DownKinds'
    BY <1>1, <1>2, <2>1, <2>2 DEF DownKinds, Advance
  <2>4. TaskInv'
    BY <1>1, <2>2, TaskAdvance DEF Stays
  <2>5. MutexInv'
    BY <1>1, <1>2, <2>1, <2>2, MutexTake
  <2>6. CountInv'
    BY <1>1, <2>2, CountTask
  <2>7. PipeInv'
    BY <1>1, <1>2, <2>1, <2>2, PipeSend
  <2>8. WireKinds'
    <3>1. PICK r \in Requests : r = Get(task[d].file)
      BY <1>2 DEF Requests
    <3>2. toServer' \in Seq(Requests)
      BY <2>1, <3>1, AppendProperties DEF WireKinds
    <3> QED BY <1>1, <3>2 DEF WireKinds
  <2>9. AnswerInv'
    BY <1>1 DEF AnswerInv, AnswerOK
  <2> QED BY <1>1, <2>3, <2>4, <2>5, <2>6, <2>7, <2>8, <2>9, UpSame, StoreSame
<1>4. CASE ~Live(task[d].gen)
  <2>1. Return(d) /\ UNCHANGED toServer
    BY <1>4 DEF SendDownload
  <2>2. /\ Leaves(d) /\ Released(d) /\ registered' \in [Files -> Tasks \cup {None}]
    BY <2>1, Returning
  <2>3. DownKinds'
    BY <1>1, <2>2 DEF DownKinds, Leaves, Released
  <2>4. TaskInv'
    BY <1>1, <2>2, TaskLeave DEF Stays
  <2>5. MutexInv'
    BY <1>1, <2>2, MutexLeave
  <2>6. CountInv'
    BY <1>1, <2>2, CountTask
  <2>7. PipeInv'
    <3>1. CASE up
      <4>1. task[d].gen # session /\ holder'[session] = holder[session]
        BY <1>4, <2>2, <3>1 DEF Live, Released, DownKinds
      <4> QED BY <1>1, <2>1, <2>2, <4>1, PipeAside
    <3>2. CASE ~up
      BY <1>1, <3>2 DEF PipeInv
    <3> QED BY <3>1, <3>2
  <2> QED BY <1>1, <2>1, <2>3, <2>4, <2>5, <2>6, <2>7, UpSame, StoreSame, WireSame
<1> QED BY <1>3, <1>4

(* A thread that waits or reads leaves before it has its frame: after a    *)
(* final answer, on a dead connection, or by a slip.                       *)
LEMMA StepLeave ==
  ASSUME IInv, NEW d \in Tasks, task[d].pc \in {"wait", "read"}, Return(d),
         slipped => slipped',
         slipped' \in BOOLEAN,
         ~slipped' => ~Live(task[d].gen) \/ (task[d].failed = "final" /\ task[d].pc = "wait"),
         UNCHANGED <<up, session, retry, toServer, ch1, ch2, ch3, blob, cache, upload,
                     ulHolder, expected>>
  PROVE  IInv'
<1> USE DEF IInv, DownPart, StorePart, WirePart
<1>1. /\ Leaves(d) /\ Released(d) /\ registered' \in [Files -> Tasks \cup {None}]
  BY Returning
<1>2. task[d].gen \in 1..MaxSessions /\ task[d].file \in Files
  BY InRange DEF TaskInv
<1>3. DownKinds'
  BY <1>1 DEF DownKinds, Leaves, Released
<1>4. TaskInv'
  BY <1>1, TaskLeave DEF Stays
<1>5. MutexInv'
  BY <1>1, MutexLeave
<1>6. CountInv'
  BY <1>1, CountTask
<1>7. PipeInv'
  <2>1. CASE ~up \/ slipped'
    BY <2>1 DEF PipeInv
  <2>2. CASE up /\ ~slipped' /\ ~Live(task[d].gen)
    <3>1. slipped' = slipped
      BY <2>2 DEF DownKinds
    <3>2. task[d].gen # session /\ holder'[session] = holder[session]
      BY <1>1, <2>2 DEF Live, Released, DownKinds
    <3> QED BY <1>1, <3>1, <3>2, PipeAside
  <2>3. CASE up /\ ~slipped' /\ Live(task[d].gen)
    <3>1. slipped' = slipped
      BY <2>3 DEF DownKinds
    <3>2. task[d].gen = session /\ task[d].failed = "final" /\ task[d].pc = "wait"
      BY <2>3 DEF Live
    <3> QED BY <1>1, <1>2, <3>1, <3>2, PipeFail
  <2> QED BY <2>1, <2>2, <2>3
<1> QED BY <1>3, <1>4, <1>5, <1>6, <1>7, UpSame, StoreSame, WireSame

(* An error that is final is the end of the request; a transient one is a  *)
(* slip.                                                                   *)
LEMMA StepFailed ==
  ASSUME IInv, NEW d \in Tasks, Failed(d)
  PROVE  IInv'
<1>1. /\ task[d].pc = "wait" /\ task[d].failed # "no" /\ Return(d)
      /\ slipped' = (slipped \/ (Live(task[d].gen) /\ task[d].failed = "again"))
      /\ UNCHANGED <<up, session, retry, toServer, ch1, ch2, ch3, blob, cache, upload,
                     ulHolder, expected>>
  BY DEF Failed, uploads, wires
<1>2. task[d].failed \in {"no", "again", "final"}
  BY DEF IInv, DownPart, DownKinds, Thread
<1>3. slipped' \in BOOLEAN /\ (slipped => slipped')
  BY <1>1
<1>4. ~slipped' => ~Live(task[d].gen) \/ task[d].failed = "final"
  BY <1>1, <1>2
<1> QED BY <1>1, <1>3, <1>4, StepLeave

(* A timeout on a connection that stands is a slip.                        *)
LEMMA StepGiveUp ==
  ASSUME IInv, NEW d \in Tasks, GiveUp(d)
  PROVE  IInv'
<1>1. /\ task[d].pc = "wait" /\ Return(d) /\ slipped' = (slipped \/ Live(task[d].gen))
      /\ UNCHANGED <<up, session, retry, toServer, ch1, ch2, ch3, blob, cache, upload,
                     ulHolder, expected>>
  BY DEF GiveUp, uploads, wires
<1>2. slipped' \in BOOLEAN /\ (slipped => slipped') /\ (~slipped' => ~Live(task[d].gen))
  BY <1>1
<1> QED BY <1>1, <1>2, StepLeave

(* The connection of the thread is gone.                                   *)
LEMMA StepReadBreaks ==
  ASSUME IInv, NEW d \in Tasks, ReadBreaks(d)
  PROVE  IInv'
<1>1. /\ task[d].pc = "read" /\ Return(d) /\ ~Live(task[d].gen) /\ slipped' = slipped
      /\ UNCHANGED <<up, session, retry, toServer, ch1, ch2, ch3, blob, cache, upload,
                     ulHolder, expected>>
  BY DEF ReadBreaks, uploads, wires
<1>2. slipped' \in BOOLEAN
  BY <1>1 DEF IInv, DownPart, DownKinds
<1> QED BY <1>1, <1>2, StepLeave

(* The frame goes, kept only when it is what the server stores.            *)
LEMMA StepReadFrame ==
  ASSUME IInv, NEW d \in Tasks, ReadFrame(d)
  PROVE  IInv'
<1> USE DEF IInv, DownPart, StorePart, WirePart
<1>1. /\ task[d].pc = "read" /\ task[d].gen = session /\ ch2 # <<>> /\ ch2' = Tail(ch2)
      /\ Return(d)
      /\ \/ Head(ch2) = blob[task[d].file]
            /\ cache' = [cache EXCEPT ![task[d].file] = Head(ch2)]
         \/ cache' = cache
      /\ UNCHANGED <<up, session, slipped, retry, toServer, ch1, ch3, blob, upload,
                     ulHolder, expected>>
  BY DEF ReadFrame, uploads, Verified
<1>2. /\ Leaves(d) /\ Released(d) /\ registered' \in [Files -> Tasks \cup {None}]
  BY <1>1, Returning
<1>3. task[d].file \in Files /\ task[d].started
  BY <1>1 DEF TaskInv
<1>4. DownKinds'
  BY <1>1, <1>2 DEF DownKinds, Leaves, Released
<1>5. TaskInv'
  BY <1>1, <1>2, TaskLeave DEF Stays
<1>6. MutexInv'
  BY <1>1, <1>2, MutexLeave
<1>7. CountInv'
  BY <1>1, <1>2, <1>3, CountRead
<1>8. PipeInv'
  BY <1>1, <1>2, <1>3, PipeRead
<1>9. StorePart'
  <2>1. CASE cache' = cache
    BY <1>1, <2>1, StoreSame
  <2>2. CASE /\ Head(ch2) = blob[task[d].file]
             /\ cache' = [cache EXCEPT ![task[d].file] = Head(ch2)]
    <3>1. PICK f \in Files : f = task[d].file
      BY <1>3
    <3>2. cache' = [cache EXCEPT ![f] = blob[f]]
      BY <2>2, <3>1
    <3> QED BY <1>1, <3>2, StoreCache
  <2> QED BY <1>1, <2>1, <2>2
<1>10. WirePart'
  <2>1. ch2' \in Seq(Contents \cup {None})
    BY <1>1, HeadTailProperties DEF WireKinds
  <2>2. AnswerInv'
    BY <1>1 DEF AnswerInv, AnswerOK
  <2> QED BY <1>1, <2>1, <2>2 DEF WireKinds
<1> QED BY <1>1, <1>4, <1>5, <1>6, <1>7, <1>8, <1>9, <1>10, UpSame

-----------------------------------------------------------------------------
(* Uploads.                                                                *)

(* No upload goes back.                                                    *)
LEMMA ForwardStep ==
  ASSUME UNCHANGED <<blob, expected>>, NEW u \in Uploads, UpOthers(u),
         \/ upload'[u].pc \in {"sent", "done"}
         \/ upload[u].pc \notin {"sent", "done"}
  PROVE  Forward
BY DEF Forward, UpOthers

(* The upload is registered and its request sent.                          *)
LEMMA StepUploadStart ==
  ASSUME IInv, NEW u \in Uploads, UploadStart(u)
  PROVE  IInv'
<1> USE DEF IInv, DownPart, UpPart, StorePart, WirePart
<1>1. /\ upload[u] = Unsent
      /\ upload' = [upload EXCEPT ![u].pc = "start", ![u].gen = session]
      /\ toServer' = Append(toServer, Put(u))
      /\ UNCHANGED <<up, session, task, registered, holder, slipped, retry, ch1, ch2, ch3,
                     blob, cache, ulHolder, expected>>
  BY DEF UploadStart, downloads
<1>2. UpBegins(u) /\ upload[u].pc = "idle"
  BY <1>1, UpBeginning, UnsentShipment
<1>3. UpKinds' /\ UploadInv'
  BY <1>1, <1>2, UploadBegins DEF UpKinds, UpBegins, UpOthers
<1>4. BytesInv' /\ FramesWhole' /\ TurnInv'
  <2>1. \A v \in Uploads :
          /\ upload[v].pc \in {"write", "sent", "done"} =>
               upload'[v].pc \in {"write", "sent", "done"}
          /\ upload[v].pc \in {"sent", "done"} => upload'[v].pc # "write"
    BY <1>2 DEF UpBegins, UpOthers
  <2>2. BytesInv'
    BY <1>1, <2>1, BytesKept
  <2> QED BY <1>1, <2>2 DEF FramesWhole, TurnInv
<1>5. StorePart'
  <2>1. StoreInv'
    BY <1>1, <1>2, StoreUploads DEF UpBegins, UpOthers
  <2> QED BY <1>1, <2>1 DEF StoreKinds
<1>6. WirePart'
  <2>1. Forward
    BY <1>1, <1>2, ForwardStep DEF UpBegins
  <2>2. AnswerInv'
    BY <1>1, <2>1, AnswersKept
  <2>3. PICK r \in Requests : r = Put(u)
    BY DEF Requests
  <2>4. toServer' \in Seq(Requests)
    BY <1>1, <2>3, AppendProperties DEF WireKinds
  <2> QED BY <1>1, <2>2, <2>4 DEF WireKinds
<1>7. DownPart'
  <2>1. PipeInv'
    BY <1>1, PipeAsk
  <2>2. DownKinds' /\ TaskInv' /\ MutexInv'
    BY <1>1 DEF DownKinds, TaskInv, MutexInv
  <2>3. Woken' = Woken
    BY <1>1 DEF Woken
  <2>4. CountInv'
    BY <1>1, <2>3 DEF CountInv
  <2> QED BY <2>1, <2>2, <2>4
<1> QED BY <1>3, <1>4, <1>5, <1>6, <1>7

(* The server expects the upload that goes on to write.                    *)
LEMMA StepUploadReady ==
  ASSUME IInv, NEW u \in Uploads, UploadReady(u)
  PROVE  IInv'
<1> USE DEF IInv, UpPart, StorePart, WirePart
<1>1. /\ upload[u].pc = "start" /\ upload[u].ready
      /\ upload' = [upload EXCEPT ![u].pc = "lock"]
      /\ UNCHANGED <<up, session, task, registered, holder, slipped, toServer, retry, ch1,
                     ch2, ch3, blob, cache, ulHolder, expected>>
  BY DEF UploadReady, Heard, downloads, wires
<1>2. UpAdvance(u, "lock")
  BY <1>1, UpAdvances
<1>3. UpKinds' /\ UploadInv'
  BY <1>1, <1>2, UploadMoves DEF UpKinds, UpAdvance, UpOthers
<1>4. BytesInv' /\ FramesWhole' /\ TurnInv'
  <2>1. \A v \in Uploads :
          /\ upload[v].pc \in {"write", "sent", "done"} =>
               upload'[v].pc \in {"write", "sent", "done"}
          /\ upload[v].pc \in {"sent", "done"} => upload'[v].pc # "write"
    BY <1>1, <1>2 DEF UpAdvance, UpOthers
  <2>2. BytesInv'
    BY <1>1, <2>1, BytesKept
  <2> QED BY <1>1, <2>2 DEF FramesWhole, TurnInv
<1>5. StorePart'
  <2>1. StoreInv'
    BY <1>1, <1>2, StoreUploads DEF UpAdvance, UpOthers
  <2> QED BY <1>1, <2>1 DEF StoreKinds
<1>6. WirePart'
  <2>1. Forward
    BY <1>1, <1>2, ForwardStep DEF UpAdvance
  <2>2. AnswerInv'
    BY <1>1, <2>1, AnswersKept
  <2> QED BY <1>1, <2>2 DEF WireKinds
<1> QED BY <1>1, <1>3, <1>4, <1>5, <1>6, DownSame

(* The upload takes the mutex between two frames.                          *)
LEMMA StepWriteHead ==
  ASSUME IInv, NEW u \in Uploads, WriteHead(u)
  PROVE  IInv'
<1> USE DEF IInv, UpPart, StorePart, WirePart
<1>1. /\ upload[u].pc = "lock" /\ up /\ upload[u].gen = session
      /\ ulHolder[session] = None /\ ulHolder' = [ulHolder EXCEPT ![session] = u]
      /\ ch3' = Append(ch3, [id |-> u, part |-> "head"])
      /\ upload' = [upload EXCEPT ![u].pc = "write"]
      /\ UNCHANGED <<up, session, task, registered, holder, slipped, toServer, retry, ch1,
                     ch2, blob, cache, expected>>
  BY DEF WriteHead, Live, Free, downloads
<1>2. UpAdvance(u, "write")
  BY <1>1, UpAdvances
<1>3. session \in 1..MaxSessions
  BY DEF DownPart, DownKinds
<1>4. UpKinds' /\ UploadInv'
  BY <1>1, <1>2, <1>3, UploadLocks DEF UpKinds, UpAdvance, UpOthers
<1>5. u \in expected
  BY <1>1 DEF UploadInv
<1>6. Len(ch3) % 2 = 0
  <2>1. Len(ch3) % 2 # 1
    <3>1. SUFFICES ASSUME Len(ch3) % 2 = 1 PROVE FALSE
      OBVIOUS
    <3>2. Len(ch3) \in 1..Len(ch3)
      <4>1. Len(ch3) \in Nat /\ Len(ch3) # 0
        BY <3>1, PartAt
      <4> QED BY <4>1
    <3>3. ch3[Len(ch3)].id \in Uploads
      BY <3>2, PartAt
    <3> QED BY <1>1, <3>1, <3>3, FileTransferAssumption DEF TurnInv
  <2>2. Len(ch3) % 2 = 0 \/ Len(ch3) % 2 = 1
    BY PartAt
  <2> QED BY <2>1, <2>2
<1>7. BytesInv'
  BY <1>1, <1>2, <1>5, BytesHead
<1>8. FramesWhole' /\ Len(ch3') % 2 = 1 /\ ch3'[Len(ch3')].id = u
  BY <1>1, <1>6, FramesHead
<1>9. TurnInv'
  <2>1. ulHolder'[session] = u
    BY <1>1, <1>3 DEF UpKinds
  <2> QED BY <1>1, <1>8, <2>1 DEF TurnInv
<1>10. StorePart'
  <2>1. StoreInv'
    BY <1>1, <1>2, StoreUploads DEF UpAdvance, UpOthers
  <2> QED BY <1>1, <2>1 DEF StoreKinds
<1>11. WirePart'
  <2>1. Forward
    BY <1>1, <1>2, ForwardStep DEF UpAdvance
  <2>2. AnswerInv'
    BY <1>1, <2>1, AnswersKept
  <2>3. PICK p \in Part : p = [id |-> u, part |-> "head"]
    BY DEF Part
  <2>4. ch3' \in Seq(Part)
    BY <1>1, <2>3, PartAppend
  <2> QED BY <1>1, <2>2, <2>4 DEF WireKinds
<1> QED BY <1>1, <1>4, <1>7, <1>8, <1>9, <1>10, <1>11, DownSame

(* The upload that has the mutex closes its frame.                         *)
LEMMA StepWriteData ==
  ASSUME IInv, NEW u \in Uploads, WriteData(u)
  PROVE  IInv'
<1> USE DEF IInv, UpPart, StorePart, WirePart
<1>1. /\ upload[u].pc = "write" /\ up /\ upload[u].gen = session
      /\ ulHolder' = [ulHolder EXCEPT ![session] = None]
      /\ ch3' = Append(ch3, [id |-> u, part |-> "data"])
      /\ upload' = [upload EXCEPT ![u].pc = "sent"]
      /\ UNCHANGED <<up, session, task, registered, holder, slipped, toServer, retry, ch1,
                     ch2, blob, cache, expected>>
  BY DEF WriteData, Live, downloads
<1>2. UpAdvance(u, "sent")
  BY <1>1, UpAdvances
<1>3. session \in 1..MaxSessions /\ ulHolder[session] = u /\ None \notin Uploads
  BY <1>1, FileTransferAssumption DEF DownPart, DownKinds, UploadInv
<1>4. UpKinds' /\ UploadInv'
  <2>1. ulHolder' \in [1..MaxSessions -> Uploads \cup {None}]
    BY <1>1, <1>3 DEF UpKinds
  <2>2. \A s \in 1..MaxSessions :
          ulHolder'[s] = IF ulHolder[s] = u THEN None ELSE ulHolder[s]
    BY <1>1, <1>3 DEF UpKinds, UploadInv
  <2>3. UploadInv'
    BY <1>1, <1>2, <2>1, <2>2, UploadUnlocks
  <2> QED BY <1>1, <1>2, <2>1, <2>3 DEF UpKinds, UpAdvance, UpOthers
<1>5. Len(ch3) % 2 = 1 /\ ch3[Len(ch3)].id = u
  <2>1. Len(ch3) % 2 = 0 \/ Len(ch3) % 2 = 1
    BY PartAt
  <2> QED BY <1>1, <1>3, <2>1 DEF TurnInv
<1>6. Len(ch3) \in 1..Len(ch3)
  <2>1. Len(ch3) \in Nat /\ Len(ch3) # 0
    BY <1>5, PartAt
  <2> QED BY <2>1
<1>7. BytesInv'
  BY <1>1, <1>2, <1>5, <1>6, BytesData
<1>8. FramesWhole' /\ Len(ch3') % 2 = 0
  BY <1>1, <1>5, FramesData
<1>9. TurnInv'
  <2>1. ulHolder'[session] = None
    BY <1>1, <1>3 DEF UpKinds
  <2> QED BY <1>1, <1>8, <2>1 DEF TurnInv
<1>10. StorePart'
  <2>1. StoreInv'
    BY <1>1, <1>2, StoreUploads DEF UpAdvance, UpOthers
  <2> QED BY <1>1, <2>1 DEF StoreKinds
<1>11. WirePart'
  <2>1. Forward
    BY <1>1, <1>2, ForwardStep DEF UpAdvance
  <2>2. AnswerInv'
    BY <1>1, <2>1, AnswersKept
  <2>3. PICK p \in Part : p = [id |-> u, part |-> "data"]
    BY DEF Part
  <2>4. ch3' \in Seq(Part)
    BY <1>1, <2>3, PartAppend
  <2> QED BY <1>1, <2>2, <2>4 DEF WireKinds
<1> QED BY <1>1, <1>4, <1>7, <1>8, <1>9, <1>10, <1>11, DownSame

(* The file id that was heard is that of the upload's own bytes.           *)
LEMMA StepUploadComplete ==
  ASSUME IInv, NEW u \in Uploads, UploadComplete(u)
  PROVE  IInv'
<1> USE DEF IInv, UpPart, StorePart, WirePart
<1>1. /\ upload[u].pc = "sent" /\ upload[u].file # None
      /\ upload' = [upload EXCEPT ![u].pc = "done", ![u].result = upload[u].file]
      /\ cache' = [cache EXCEPT ![upload[u].file] = u] \/ cache' = cache
      /\ UNCHANGED <<up, session, task, registered, holder, slipped, toServer, retry, ch1,
                     ch2, ch3, blob, ulHolder, expected>>
  BY DEF UploadComplete, downloads, wires
<1>2. UpAdvance(u, "done")
  BY <1>1, UpFinishes
<1>3. UpKinds' /\ UploadInv'
  BY <1>1, <1>2, UploadMoves DEF UpKinds, UpAdvance, UpOthers
<1>4. BytesInv' /\ FramesWhole' /\ TurnInv'
  <2>1. \A v \in Uploads :
          /\ upload[v].pc \in {"write", "sent", "done"} =>
               upload'[v].pc \in {"write", "sent", "done"}
          /\ upload[v].pc \in {"sent", "done"} => upload'[v].pc # "write"
    BY <1>1, <1>2 DEF UpAdvance, UpOthers
  <2>2. BytesInv'
    BY <1>1, <2>1, BytesKept
  <2> QED BY <1>1, <2>2 DEF FramesWhole, TurnInv
<1>5. StoreInv' /\ StoreKinds'
  BY <1>1, <1>2, StoreComplete
<1>6. WirePart'
  <2>1. Forward
    BY <1>1, <1>2, ForwardStep DEF UpAdvance
  <2>2. AnswerInv'
    BY <1>1, <2>1, AnswersKept
  <2> QED BY <1>1, <2>2 DEF WireKinds
<1> QED BY <1>1, <1>3, <1>4, <1>5, <1>6, DownSame

(* The upload is over; on a connection that stands it had no frame begun.  *)
LEMMA StepUploadFails ==
  ASSUME IInv, NEW u \in Uploads, UploadFails(u)
  PROVE  IInv'
<1> USE DEF IInv, UpPart, StorePart, WirePart
<1>1. /\ upload[u].pc # "idle"
      /\ upload[u].pc = "write" => ~Live(upload[u].gen)
      /\ upload' = [upload EXCEPT ![u].pc = "done"]
      /\ ulHolder' = [s \in 1..MaxSessions |->
                        IF ulHolder[s] = u THEN None ELSE ulHolder[s]]
      /\ UNCHANGED <<up, session, task, registered, holder, slipped, toServer, retry, ch1,
                     ch2, ch3, blob, cache, expected>>
  BY DEF UploadFails, downloads, wires
<1>2. UpAdvance(u, "done")
  BY <1>1, UpAdvances
<1>3. session \in 1..MaxSessions
  BY DEF DownPart, DownKinds
<1>4. UpKinds' /\ UploadInv'
  <2>1. ulHolder' \in [1..MaxSessions -> Uploads \cup {None}]
    BY <1>1 DEF UpKinds
  <2>2. \A s \in 1..MaxSessions :
          ulHolder'[s] = IF ulHolder[s] = u THEN None ELSE ulHolder[s]
    BY <1>1
  <2>3. UploadInv'
    BY <1>1, <1>2, <2>1, <2>2, UploadUnlocks
  <2> QED BY <1>1, <1>2, <2>1, <2>3 DEF UpKinds, UpAdvance, UpOthers
<1>5. BytesInv' /\ FramesWhole'
  <2>1. \A v \in Uploads :
          /\ upload[v].pc \in {"write", "sent", "done"} =>
               upload'[v].pc \in {"write", "sent", "done"}
          /\ upload[v].pc \in {"sent", "done"} => upload'[v].pc # "write"
    BY <1>1, <1>2 DEF UpAdvance, UpOthers
  <2>2. BytesInv'
    BY <1>1, <2>1, BytesKept
  <2> QED BY <1>1, <2>2 DEF FramesWhole
<1>6. TurnInv'
  <2>1. up => ulHolder[session] # u
    BY <1>1, <1>3 DEF UploadInv, Live
  <2>2. up => ulHolder'[session] = ulHolder[session]
    BY <1>1, <1>3, <2>1
  <2> QED BY <1>1, <2>2 DEF TurnInv
<1>7. StorePart'
  <2>1. StoreInv'
    BY <1>1, <1>2, StoreUploads DEF UpAdvance, UpOthers
  <2> QED BY <1>1, <2>1 DEF StoreKinds
<1>8. WirePart'
  <2>1. Forward
    BY <1>1, <1>2, ForwardStep DEF UpAdvance
  <2>2. AnswerInv'
    BY <1>1, <2>1, AnswersKept
  <2> QED BY <1>1, <2>2 DEF WireKinds
<1> QED BY <1>1, <1>4, <1>5, <1>6, <1>7, <1>8, DownSame

-----------------------------------------------------------------------------
(* The readLoop, the deletions and the send queue.                         *)

(* One answer is handled.                                                  *)
LEMMA StepReadLoop ==
  ASSUME IInv, ReadLoop
  PROVE  IInv'
<1> USE DEF IInv, DownPart, UpPart, StorePart, WirePart
<1>1. PICK a \in Answers : a = Head(ch1)
  BY DEF ReadLoop, WireKinds
<1>2. /\ ch1 # <<>> /\ ch1' = Tail(ch1) /\ retry' = Requeued(a)
      /\ UNCHANGED <<up, session, registered, holder, slipped, toServer, ch2, ch3, blob,
                     cache, ulHolder, expected>>
  BY <1>1 DEF ReadLoop
<1>3. AnswerOK(a)
  BY <1>1, <1>2 DEF AnswerInv, WireKinds
<1>4. DownKinds' /\ TaskInv' /\ MutexInv'
  <2>1. /\ task' \in [Tasks -> Thread]
        /\ \A d \in Tasks : /\ task'[d].pc = task[d].pc /\ task'[d].file = task[d].file
                            /\ task'[d].gen = task[d].gen
                            /\ task[d].started => task'[d].started
    BY <1>1, TaskHeard
  <2>2. DownKinds'
    BY <1>2, <2>1 DEF DownKinds
  <2>3. TaskInv'
    BY <1>2, <2>1 DEF TaskInv
  <2>4. MutexInv'
    BY <1>2, <2>1 DEF MutexInv
  <2> QED BY <2>2, <2>3, <2>4
<1>5. CountInv' /\ PipeInv'
  BY CountHear, PipeHear
<1>6. /\ upload' \in [Uploads -> Shipment]
      /\ \A v \in Uploads : upload'[v].pc = upload[v].pc
  BY <1>1, <1>3, UpHeard
<1>7. UpPart'
  <2>1. UpKinds'
    BY <1>2, <1>6 DEF UpKinds
  <2>2. UploadInv'
    BY UploadHears
  <2>3. BytesInv'
    BY <1>2, <1>6, BytesKept
  <2>4. FramesWhole' /\ TurnInv'
    BY <1>2 DEF FramesWhole, TurnInv
  <2> QED BY <2>1, <2>2, <2>3, <2>4
<1>8. StorePart'
  <2>1. StoreInv'
    BY StoreHeard
  <2> QED BY <1>2, <2>1 DEF StoreKinds
<1>9. WirePart'
  <2>1. Forward
    BY <1>2, <1>6 DEF Forward
  <2>2. AnswerInv' /\ ch1' \in Seq(Answers)
    BY <1>2, <2>1, AnswersKept
  <2>3. retry' \in [Requests -> Nat]
    <3>1. a.id \in Files \/ a.id \in Uploads
      BY DEF Answers
    <3>2. PICK r \in Requests : retry' = IF a.again THEN [retry EXCEPT ![r] = @ + 1]
                                         ELSE retry
      BY <1>2, <3>1 DEF Requeued, Requests
    <3> QED BY <3>2 DEF WireKinds
  <2> QED BY <1>2, <2>2, <2>3 DEF WireKinds
<1> QED BY <1>4, <1>5, <1>7, <1>8, <1>9

(* A cached file goes.                                                     *)
LEMMA StepPurge ==
  ASSUME IInv, NEW f \in Files, Purge(f)
  PROVE  IInv'
<1> USE DEF IInv, StorePart
<1>1. /\ cache' = [cache EXCEPT ![f] = None]
      /\ UNCHANGED <<up, session, task, registered, holder, slipped, toServer, retry, ch1,
                     ch2, ch3, blob, upload, ulHolder, expected>>
  BY DEF Purge, downloads, uploads, wires
<1>2. StoreInv' /\ StoreKinds'
  BY <1>1, StoreCache
<1> QED BY <1>1, <1>2, DownSame, UpSame, WireSame

(* A rejected request goes out again, or not.                              *)
LEMMA StepQueueResend ==
  ASSUME IInv, NEW r \in Requests, QueueResend(r)
  PROVE  IInv'
<1> USE DEF IInv, DownPart, WirePart
<1>1. /\ retry[r] > 0 /\ retry' = [retry EXCEPT ![r] = @ - 1]
      /\ toServer' = Append(toServer, r) \/ toServer' = toServer
      /\ UNCHANGED <<up, session, task, registered, holder, slipped, ch1, ch2, ch3, blob,
                     cache, upload, ulHolder, expected>>
  BY DEF QueueResend, downloads, uploads
<1>2. DownKinds' /\ TaskInv' /\ MutexInv'
  BY <1>1 DEF DownKinds, TaskInv, MutexInv
<1>3. CountInv'
  <2>1. Woken' = Woken
    BY <1>1 DEF Woken
  <2> QED BY <1>1, <2>1 DEF CountInv
<1>4. PipeInv'
  BY PipeResend
<1>5. WirePart'
  <2>1. retry' \in [Requests -> Nat]
    BY <1>1 DEF WireKinds
  <2>2. Append(toServer, r) \in Seq(Requests) /\ toServer \in Seq(Requests)
    BY AppendProperties DEF WireKinds
  <2>3. AnswerInv'
    BY <1>1 DEF AnswerInv, AnswerOK
  <2> QED BY <1>1, <2>1, <2>2, <2>3 DEF WireKinds
<1> QED BY <1>1, <1>2, <1>3, <1>4, <1>5, UpSame, StoreSame

-----------------------------------------------------------------------------
(* The connection.                                                         *)

(* Nothing but the link changes.                                           *)
LEMMA StepLinkBreak ==
  ASSUME IInv, LinkBreak
  PROVE  IInv'
<1> USE DEF IInv, DownPart, UpPart
<1>1. /\ ~up'
      /\ up' \in BOOLEAN
      /\ UNCHANGED <<session, task, registered, holder, slipped, toServer, retry, ch1, ch2,
                     ch3, blob, cache, upload, ulHolder, expected>>
  BY DEF LinkBreak, downloads, uploads, wires
<1>2. DownKinds' /\ TaskInv' /\ MutexInv' /\ PipeInv'
  BY <1>1 DEF DownKinds, TaskInv, MutexInv, PipeInv
<1>3. CountInv'
  <2>1. Woken' = Woken
    BY <1>1 DEF Woken
  <2> QED BY <1>1, <2>1 DEF CountInv
<1>4. UpPart'
  BY <1>1 DEF UpKinds, UploadInv, BytesInv, FramesWhole, TurnInv
<1> QED BY <1>1, <1>2, <1>3, <1>4, StoreSame, WireSame

(* The empty channels.                                                     *)
LEMMA Empty ==
  /\ Len(<<>>) = 0 /\ NoGet(<<>>) /\ NoAnswer(<<>>)
  /\ StartsOf(<<>>) = {} /\ Cardinality(StartsOf(<<>>)) = 0
  /\ \A S : <<>> \in Seq(S)
  /\ 0 % 2 = 0
<1>1. StartsOf(<<>>) = {}
  BY DEF StartsOf
<1> QED BY <1>1, FS_EmptySet, EmptySeq DEF NoGet, NoAnswer

(* The new connection finds no thread of its own: all are of older ones.   *)
LEMMA StepReconnect ==
  ASSUME IInv, Reconnect
  PROVE  IInv'
<1> USE DEF IInv, DownPart, UpPart, StorePart, WirePart
<1>1. /\ session < MaxSessions /\ up' /\ up' \in BOOLEAN /\ session' = session + 1
      /\ retry' = [r \in Requests |-> 0]
      /\ toServer' = <<>> /\ ch1' = <<>> /\ ch2' = <<>> /\ ch3' = <<>>
      /\ expected' = {} /\ slipped' = FALSE
      /\ UNCHANGED <<task, registered, holder, blob, cache, upload, ulHolder>>
  BY DEF Reconnect, downloads, uploads
<1>2. session \in Nat /\ session' \in 1..MaxSessions /\ None \notin Tasks /\ None \notin Uploads
  BY <1>1, FileTransferAssumption DEF DownKinds
<1>3. \A d \in Tasks : /\ task[d].gen \in Nat /\ task[d].gen <= session
                       /\ task[d].gen <= session' /\ task[d].gen # session'
  <2>1. \A d \in Tasks : task[d].gen \in Nat /\ task[d].gen <= session
    BY FileTransferAssumption DEF DownKinds, Thread, TaskInv
  <2> QED BY <1>1, <1>2, <2>1
<1>4. DownKinds' /\ TaskInv' /\ MutexInv'
  BY <1>1, <1>2, <1>3 DEF DownKinds, TaskInv, MutexInv
<1>5. holder'[session'] = None
  BY <1>1, <1>2, <1>3 DEF DownKinds, MutexInv
<1>6. Woken' = {}
  BY <1>1, <1>3 DEF Woken
<1>7. CountInv'
  BY <1>1, <1>6, Empty, FS_EmptySet DEF CountInv
<1>8. PipeInv'
  <2>1. NoRetry'
    BY <1>1 DEF NoRetry, Requests
  <2>2. NoSignal'
    BY <1>1, <1>3 DEF NoSignal, Signal
  <2>3. Nothing'
    BY <1>1, <2>1, <2>2, Empty DEF Nothing, NoReply
  <2> QED BY <1>2, <1>5, <2>3 DEF PipeInv
<1>9. UpKinds' /\ UploadInv'
  BY <1>1, UploadAfresh DEF UpKinds
<1>10. BytesInv' /\ FramesWhole'
  BY <1>1, Empty DEF BytesInv, FramesWhole
<1>11. TurnInv'
  <2>1. ulHolder'[session'] = None
    <3>1. \A u \in Uploads : upload[u].gen \in Nat /\ upload[u].gen <= session
      BY FileTransferAssumption DEF UpKinds, Shipment, UploadInv
    <3>2. \A u \in Uploads : upload[u].gen # session'
      BY <1>1, <1>2, <3>1
    <3> QED BY <1>1, <1>2, <3>2 DEF UpKinds, UploadInv
  <2> QED BY <1>1, <2>1, Empty DEF TurnInv
<1>12. WirePart'
  BY <1>1, Empty DEF WireKinds, AnswerInv
<1> QED BY <1>1, <1>4, <1>7, <1>8, <1>9, <1>10, <1>11, <1>12, StoreSame


-----------------------------------------------------------------------------
(* The server.                                                             *)

(* An answer that wakes nobody.                                            *)
LEMMA CountMore ==
  ASSUME CountInv, WireKinds, UNCHANGED <<session, task, ch2>>,
         NEW a \in Answers, a.kind # "start", ch1' = Append(ch1, a)
  PROVE  CountInv'
<1>1. Woken' = Woken
  BY DEF Woken
<1>2. PICK s \in Seq(Answers) : s = ch1
  BY DEF WireKinds
<1>3. Cardinality(StartsOf(Append(s, a))) = Cardinality(StartsOf(s))
  BY StartsAppend, StartsFinite
<1> QED BY <1>1, <1>2, <1>3 DEF CountInv

(* A request is served.                                                    *)
LEMMA StepServe ==
  ASSUME IInv, Serve
  PROVE  IInv'
<1> USE DEF IInv, DownPart, UpPart, StorePart, WirePart
<1> DEFINE r == Head(toServer)
<1>1. /\ r \in Requests /\ toServer # <<>> /\ toServer' = Tail(toServer)
      /\ UNCHANGED <<up, session, task, registered, holder, slipped, retry, ch3, blob,
                     cache, upload, ulHolder>>
  BY DEF Serve, downloads, uploads, WireKinds
<1>2. toServer' \in Seq(Requests)
  BY <1>1, HeadTailProperties DEF WireKinds
<1>3. DownKinds' /\ TaskInv' /\ MutexInv'
  BY <1>1 DEF DownKinds, TaskInv, MutexInv
<1>4. PipeInv'
  BY PipeServe
<1>5. Woken' = Woken
  BY <1>1 DEF Woken
<1>6. PICK c \in Nat : c = Cardinality(StartsOf(ch1))
  BY StartsFinite DEF WireKinds
<1>7. PICK w \in Nat : w = Cardinality(Woken)
  BY FS_CardinalityType DEF CountInv
<1>8. CASE r.kind = "download"
  <2>1. PICK a \in Answers : a = Answer("start", r.id, FALSE, None)
    <3>1. r.id \in Files \cup Uploads
      BY <1>1, Apart
    <3> QED BY <3>1, Zenon DEF Answers, Answer
  <2>2. /\ ch1' = Append(ch1, a) /\ ch2' = Append(ch2, blob[r.id]) /\ UNCHANGED expected
        /\ r.id \in Files /\ a.kind = "start" /\ a.id = r.id /\ ~a.again
    BY <1>1, <1>8, <2>1, Apart DEF Serve, Answer
  <2>3. PICK b \in Contents \cup {None} : b = blob[r.id]
    BY <2>2 DEF StoreKinds
  <2>4. ch2' \in Seq(Contents \cup {None}) /\ Len(ch2') = Len(ch2) + 1 /\ Len(ch2) \in Nat
    BY <2>2, <2>3, AppendProperties DEF WireKinds
  <2>5. CountInv'
    <3>0. PICK s \in Seq(Answers) : s = ch1
      BY DEF WireKinds
    <3>1. Cardinality(StartsOf(Append(ch1, a))) = c + 1
      BY <1>6, <2>2, <3>0, StartsAppend
    <3>2. c + w <= Len(ch2)
      BY <1>6, <1>7 DEF CountInv
    <3>3. c + 1 + w <= Len(ch2')
      BY <2>4, <3>2
    <3> QED BY <1>5, <1>7, <2>2, <3>1, <3>3 DEF CountInv
  <2>6. Forward
    BY <1>1, <2>2 DEF Forward
  <2>7. AnswerOK(a)'
    BY <2>2 DEF AnswerOK
  <2>8. AnswerInv' /\ ch1' \in Seq(Answers)
    BY <2>2, <2>6, <2>7, AnswersMore
  <2>9. WireKinds'
    BY <1>1, <1>2, <2>4, <2>8 DEF WireKinds
  <2> QED BY <1>1, <1>3, <1>4, <2>2, <2>5, <2>8, <2>9, UpSame, StoreSame
<1>9. CASE r.kind # "download"
  <2>1. PICK a \in Answers : a = Answer("ready", r.id, FALSE, None)
    <3>1. r.id \in Files \cup Uploads
      BY <1>1, Apart
    <3> QED BY <3>1, Zenon DEF Answers, Answer
  <2>2. /\ ch1' = Append(ch1, a) /\ UNCHANGED ch2 /\ expected' = expected \cup {r.id}
        /\ r.id \in Uploads /\ a.kind = "ready" /\ a.id = r.id
    BY <1>1, <1>9, <2>1, Apart DEF Serve, Answer
  <2>3. CountInv'
    BY <1>1, <2>2, CountMore
  <2>4. Forward
    BY <1>1, <2>2 DEF Forward
  <2>5. AnswerOK(a)'
    BY <2>2 DEF AnswerOK
  <2>6. AnswerInv' /\ ch1' \in Seq(Answers)
    BY <2>2, <2>4, <2>5, AnswersMore
  <2>7. WireKinds'
    BY <1>1, <1>2, <2>2, <2>6 DEF WireKinds
  <2>8. UpPart'
    <3>1. UpKinds'
      BY <1>1, <2>2 DEF UpKinds
    <3>2. UploadInv'
      BY <1>1, <2>2, UploadServed
    <3>3. BytesInv'
      BY <1>1, <2>2, BytesKept
    <3> QED BY <1>1, <3>1, <3>2, <3>3 DEF FramesWhole, TurnInv
  <2> QED BY <1>1, <1>3, <1>4, <2>3, <2>6, <2>7, <2>8, StoreSame
<1> QED BY <1>8, <1>9

(* A request is rejected, with an answer of either shape.                  *)
LEMMA StepReject ==
  ASSUME IInv, Reject
  PROVE  IInv'
<1> USE DEF IInv, DownPart, WirePart
<1> DEFINE r == Head(toServer)
<1>1. /\ r \in Requests /\ toServer # <<>> /\ toServer' = Tail(toServer)
      /\ UNCHANGED <<up, session, task, registered, holder, slipped, retry, ch2, ch3, blob,
                     cache, upload, ulHolder, expected>>
  BY DEF Reject, downloads, uploads, WireKinds
<1>2. toServer' \in Seq(Requests)
  BY <1>1, HeadTailProperties DEF WireKinds
<1>3. PICK again \in BOOLEAN, k \in {"error", "download_error", "upload_error"} :
        /\ ch1' = Append(ch1, Answer(k, r.id, again, None))
        /\ k = "download_error" => r.kind = "download"
  BY DEF Reject
<1>4. PICK a \in Answers : a = Answer(k, r.id, again, None)
  <2>1. r.id \in Files \cup Uploads
    BY <1>1, Apart
  <2> QED BY <2>1, Zenon DEF Answers, Answer
<1>5. /\ ch1' = Append(ch1, a) /\ a.kind = k
      /\ a.kind = "download_error" => a.id \in Files
  BY <1>1, <1>3, <1>4, Apart DEF Answer
<1>6. DownKinds' /\ TaskInv' /\ MutexInv'
  BY <1>1 DEF DownKinds, TaskInv, MutexInv
<1>7. PipeInv'
  BY PipeReject
<1>8. CountInv'
  <2>1. a.kind # "start"
    BY <1>3, <1>5
  <2> QED BY <1>1, <1>5, <2>1, CountMore
<1>9. WirePart'
  <2>1. Forward
    BY <1>1 DEF Forward
  <2>2. AnswerOK(a)'
    BY <1>5 DEF AnswerOK
  <2>3. AnswerInv' /\ ch1' \in Seq(Answers)
    BY <1>5, <2>1, <2>2, AnswersMore
  <2> QED BY <1>1, <1>2, <2>3 DEF WireKinds
<1> QED BY <1>1, <1>6, <1>7, <1>8, <1>9, UpSame, StoreSame

(* The first frame is whole and expected: the server stores it.            *)
LEMMA StepTakeBytes ==
  ASSUME IInv, TakeBytes
  PROVE  IInv'
<1> USE DEF IInv, DownPart, UpPart, StorePart, WirePart
<1>1. /\ Len(ch3) >= 2 /\ ch3' = SubSeq(ch3, 3, Len(ch3))
      /\ UNCHANGED <<up, session, task, registered, holder, slipped, toServer, retry, ch2,
                     cache, upload, ulHolder>>
  BY DEF TakeBytes, downloads, uploads
<1>2. 1 \in 1..Len(ch3)
  BY <1>1, PartAt
<1>3. PICK u \in Uploads : u = ch3[1].id
  BY <1>2, PartAt
<1>4. u \in expected
  BY <1>2, <1>3 DEF BytesInv
<1>5. PICK f \in Fresh : /\ blob[f] = None /\ blob' = [blob EXCEPT ![f] = u]
                         /\ ch1' = Append(ch1, Answer("complete", u, FALSE, f))
                         /\ expected' = expected \ {u}
  BY <1>3, <1>4 DEF TakeBytes
<1>6. PICK a \in Answers : a = Answer("complete", u, FALSE, f)
  BY <1>5, Zenon DEF Answers, Answer, Files
<1>7. /\ ch1' = Append(ch1, a) /\ a.kind = "complete" /\ a.id = u /\ a.file = f
      /\ f \in Files /\ ~a.again
  BY <1>5, <1>6 DEF Answer, Files
<1>8. /\ BytesInv' /\ FramesWhole'
      /\ upload[u].pc \in {"sent", "done"}
      /\ Len(ch3) % 2 = 1 => Len(ch3') % 2 = 1 /\ ch3'[Len(ch3')] = ch3[Len(ch3)]
      /\ Len(ch3) % 2 = 0 => Len(ch3') % 2 = 0
  BY <1>1, <1>3, <1>5, TakenBytes
<1>9. /\ StoreInv' /\ StoreKinds'
      /\ \A g \in Files : blob[g] # None => blob'[g] = blob[g]
  BY <1>1, <1>5, StoreTaken
<1>10. DownPart'
  <2>1. DownKinds' /\ MutexInv'
    BY <1>1 DEF DownKinds, MutexInv
  <2>2. TaskInv'
    BY <1>1, <1>9 DEF TaskInv
  <2>3. PipeInv'
    BY <1>1, <1>7, <1>9, PipeTake
  <2>4. CountInv'
    BY <1>1, <1>7, CountMore
  <2> QED BY <2>1, <2>2, <2>3, <2>4
<1>11. UpPart'
  <2>1. UpKinds'
    BY <1>1, <1>5 DEF UpKinds
  <2>2. UploadInv'
    BY <1>1, <1>5, <1>8, UploadServed
  <2>3. Len(ch3) \in Nat /\ (Len(ch3) % 2 = 0 \/ Len(ch3) % 2 = 1)
    BY PartAt
  <2>4. TurnInv'
    <3>1. CASE Len(ch3) % 2 = 1
      BY <1>1, <1>8, <3>1 DEF TurnInv
    <3>2. CASE Len(ch3) % 2 = 0
      BY <1>1, <1>8, <3>2 DEF TurnInv
    <3> QED BY <2>3, <3>1, <3>2
  <2> QED BY <1>8, <2>1, <2>2, <2>4
<1>12. WirePart'
  <2>1. Forward
    <3>1. None \notin Uploads
      BY FileTransferAssumption
    <3> QED BY <1>1, <1>5, <1>8, <1>9, <3>1 DEF Forward
  <2>2. AnswerOK(a)'
    <3>1. blob'[f] = u
      BY <1>5, <1>7 DEF StoreKinds
    <3> QED BY <1>7, <3>1 DEF AnswerOK
  <2>3. AnswerInv' /\ ch1' \in Seq(Answers)
    BY <1>7, <2>1, <2>2, AnswersMore
  <2>4. ch3' \in Seq(Part)
    BY <1>1, Rest
  <2> QED BY <1>1, <2>3, <2>4 DEF WireKinds
<1> QED BY <1>9, <1>10, <1>11, <1>12

-----------------------------------------------------------------------------
(* Nothing is under way at first.                                          *)
LEMMA InitInv ==
  ASSUME Init
  PROVE  IInv
<1> USE DEF Init
<1>1. 1 \in 1..MaxSessions /\ 0 <= 1 /\ 0 # 1 /\ None \notin Tasks /\ None \notin Uploads
  BY FileTransferAssumption
<1>2. \A d \in Tasks : task[d] = Idle
  OBVIOUS
<1>3. \A u \in Uploads : upload[u] = Unsent
  OBVIOUS
<1>4. DownPart
  <2>1. DownKinds
    BY <1>1, IdleThread DEF DownKinds
  <2>2. TaskInv
    BY <1>1, <1>2, IdleThread DEF TaskInv
  <2>3. MutexInv
    BY <1>1, <1>2, IdleThread DEF MutexInv
  <2>4. Woken = {}
    BY <1>2, IdleThread DEF Woken
  <2>5. CountInv
    BY <2>4, Empty, FS_EmptySet DEF CountInv
  <2>6. PipeInv
    <3>1. NoRetry
      BY DEF NoRetry, Requests
    <3>2. NoSignal
      BY <1>2, IdleThread DEF NoSignal, Signal
    <3>3. Nothing /\ holder[session] = None
      BY <1>1, <3>1, <3>2, Empty DEF Nothing, NoReply
    <3> QED BY <1>1, <3>3 DEF PipeInv
  <2> QED BY <2>1, <2>2, <2>3, <2>5, <2>6 DEF DownPart
<1>5. UpPart
  <2>1. UpKinds
    BY <1>1, UnsentShipment DEF UpKinds
  <2>2. UploadInv
    BY <1>1, <1>3, UnsentShipment DEF UploadInv
  <2>3. BytesInv /\ FramesWhole
    BY Empty DEF BytesInv, FramesWhole
  <2>4. TurnInv
    BY <1>1, Empty DEF TurnInv
  <2> QED BY <2>1, <2>2, <2>3, <2>4 DEF UpPart
<1>6. StorePart
  <2>1. StoreKinds
    BY DEF StoreKinds, Contents
  <2>2. StoreInv
    BY <1>3, UnsentShipment DEF StoreInv, Files
  <2> QED BY <2>1, <2>2 DEF StorePart
<1>7. WirePart
  BY Empty DEF WirePart, WireKinds, AnswerInv
<1> QED BY <1>4, <1>5, <1>6, <1>7 DEF IInv

(* Every step keeps the invariant.                                         *)
LEMMA StepInv ==
  ASSUME IInv, [Next]_vars
  PROVE  IInv'
<1>1. ASSUME NEW d \in Tasks, DownloadStep(d) PROVE IInv'
  BY <1>1, StepRegister, StepRefused, StepSendDownload, StepStarted, StepFailed, StepGiveUp,
     StepReadFrame, StepReadBreaks DEF DownloadStep
<1>2. ASSUME NEW u \in Uploads, UploadStep(u) PROVE IInv'
  BY <1>2, StepUploadReady, StepWriteHead, StepWriteData, StepUploadComplete,
     StepUploadFails DEF UploadStep
<1>3. CASE UNCHANGED vars
  BY <1>3, DownSame, UpSame, StoreSame, WireSame DEF IInv, vars, downloads, uploads, wires
<1> QED BY <1>1, <1>2, <1>3, StepCheck, StepUploadStart, StepReadLoop, StepPurge,
           StepQueueResend, StepLinkBreak, StepReconnect, StepServe, StepReject,
           StepTakeBytes DEF Next

(* The inductive invariant of the transfers (filetransfer.go): it holds in *)
(* every state of the specification.                                       *)
THEOREM Inductive == Spec => []IInv
BY InitInv, StepInv, PTL DEF Spec

-----------------------------------------------------------------------------
(* DownloadFile writes a file to the cache only with the content the       *)
(* server stores under its id, and an upload caches its own: whatever      *)
(* transfers slipped, crossed or died.                                     *)
THEOREM KeepsGenuineBytes == Spec => []CacheGenuine
<1>1. IInv => CacheGenuine
  BY DEF IInv, StorePart, StoreInv, CacheGenuine
<1> QED BY <1>1, Inductive, PTL

(* The frames of channel 2 are matched to downloads by position alone:     *)
(* while none of the connection has left before its frame, the one that    *)
(* reads finds its own.                                                    *)
THEOREM ReadsItsOwnFrame == Spec => []OwnFrameUnlessSlipped
<1>1. ASSUME IInv PROVE OwnFrameUnlessSlipped
  <2> SUFFICES ASSUME ~slipped, NEW d \in Tasks, Reading(d), ch2 # <<>>
               PROVE  Head(ch2) = blob[task[d].file]
    BY DEF OwnFrameUnlessSlipped
  <2>1. /\ up /\ task[d].gen = session /\ task[d].started /\ holder[session] = d
        /\ task[d].file \in Files
    BY <1>1 DEF Reading, Live, IInv, DownPart, TaskInv, MutexInv
  <2>2. PICK f \in Files : f = task[d].file
    BY <2>1
  <2>3. Stage(f)
    BY <1>1, <2>1, <2>2 DEF IInv, DownPart, PipeInv
  <2>4. Signal(d)
    BY <2>1 DEF Signal
  <2>5. ch2 = <<blob[f]>>
    BY <2>3, <2>4 DEF Stage, Sent, Queued, Answered, Told, Over, NoReply, NoSignal, OneSignal
  <2> QED BY <2>2, <2>5
<1> QED BY <1>1, Inductive, PTL

(* The read of channel 2, which has no timeout and is made under           *)
(* downloadChanMu, finds a frame: as many were sent as threads were woken. *)
THEOREM ReadsOnlyWhatWasSent == Spec => []ReaderHasFrame
<1>1. ASSUME IInv PROVE ReaderHasFrame
  <2> SUFFICES ASSUME NEW d \in Tasks, Reading(d), ch2 = <<>> PROVE FALSE
    BY DEF ReaderHasFrame
  <2>1. d \in Woken
    BY <1>1 DEF Reading, Live, Woken, IInv, DownPart, TaskInv
  <2>2. IsFiniteSet(Woken) /\ Cardinality(StartsOf(ch1)) + Cardinality(Woken) <= 0
    BY <1>1, Empty DEF IInv, DownPart, CountInv
  <2>3. Cardinality(StartsOf(ch1)) \in Nat
    BY <1>1, StartsFinite DEF IInv, WirePart, WireKinds
  <2>4. Cardinality(Woken) \in Nat
    BY <2>2, FS_CardinalityType
  <2>5. Cardinality(Woken) = 0
    BY <2>2, <2>3, <2>4
  <2> QED BY <2>1, <2>2, <2>5, FS_EmptySet
<1> QED BY <1>1, Inductive, PTL

(* writeBinaryFrame under uploadChanMu after upload_ready: frames do not   *)
(* mix, the server discards none, and the file id a thread reports is that *)
(* of its own bytes.                                                       *)
THEOREM UploadsArriveWhole == Spec => []UploadsIntact
<1>1. ASSUME IInv PROVE UploadsIntact
  <2>1. FramesWhole
    BY <1>1 DEF IInv, UpPart
  <2>2. NothingDiscarded
    BY <1>1 DEF IInv, UpPart, BytesInv, NothingDiscarded
  <2>3. UploadedIsStored
    BY <1>1 DEF IInv, StorePart, StoreInv, UploadedIsStored
  <2> QED BY <2>1, <2>2, <2>3 DEF UploadsIntact
<1> QED BY <1>1, Inductive, PTL
=============================================================================
