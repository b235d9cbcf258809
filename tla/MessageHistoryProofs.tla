------------------------ MODULE MessageHistoryProofs ------------------------
(***************************************************************************)
(* Proofs about MessageHistory: the loading state of the pane (Inductive), *)
(* that a deletion reaches the store (DeletionsOwed), and that the pane    *)
(* shows what the store has (PaneInductive).  What a batch of rows makes   *)
(* of the store or of the pane is a fold, described step by step by        *)
(* induction over the natural numbers for a set of them; what a page makes *)
(* of the pane is a selection of rows in order.                            *)
(***************************************************************************)
EXTENDS MessageHistory, FiniteSetTheorems, SequenceTheorems, WellFoundedInduction, TLAPS

(* A finite sequence of frames, whatever a frame is.                       *)
Queue(s) == s \in Seq({s[n] : n \in DOMAIN s})

(* The page that answers the request c is in a queue of frames; its error  *)
(* is; the request itself is in a queue of requests.                       *)
Coming(s, c)  == \E n \in DOMAIN s : s[n].t = "history_result" /\ s[n].corr = c
Refusal(s, c) == \E n \in DOMAIN s : s[n].t = "error" /\ s[n].corr = c
Requested(s, c) == \E n \in DOMAIN s : s[n].corr = c

(* The send queue has the request, and the server has it too or has        *)
(* refused it.                                                             *)
Waiting(c) ==
  /\ Queued(c) # {}
  /\ Requested(asked, c) \/ Refusal(wire, c) \/ Refusal(inbox, c)

(* The page the spinner waits for is on its way, or its request waits for  *)
(* it, or the sweep has dropped the request.                               *)
Answerable ==
  corr # 0 /\ (Waiting(corr) \/ Coming(wire, corr) \/ Coming(inbox, corr) \/ corr \in swept)

(* The command of the current view is yet to be handled.                   *)
Asked == \E r \in reqs : Current(r)

(* The other room's pane never loads.                                      *)
PaneInv ==
  /\ ctx \in {"this", "other"}
  /\ ctx = "other" => pane = <<>> /\ ~loading

(* Corr 0 means no request, and is never given to one.                     *)
ReqInv == asks \in Nat /\ \A r \in reqs : r.n # 0

(* What SpinnerOutlivesOnlySweeps says, kept while the handlers run.       *)
SpinInv == link /\ state = "Online" /\ loading => Asked \/ Answerable

(* The inductive invariant.                                                *)
IInv == /\ Queue(asked) /\ Queue(wire) /\ Queue(inbox)
        /\ PaneInv /\ ReqInv /\ SpinInv

(* Sequences of frames: what appending and taking leave coming.            *)
LEMMA QueueOf ==
  ASSUME NEW S, NEW s \in Seq(S)
  PROVE  Queue(s)
<1>1. Len(s) \in Nat /\ s \in [1..Len(s) -> S] /\ DOMAIN s = 1..Len(s)
  BY LenProperties
<1>2. s \in [1..Len(s) -> {s[n] : n \in DOMAIN s}]
  BY <1>1
<1> QED BY <1>1, <1>2, SeqDef DEF Queue

(* Appending a frame keeps what is coming, and adds the frame.             *)
LEMMA Appended ==
  ASSUME NEW s, Queue(s), NEW x
  PROVE  /\ Queue(Append(s, x))
         /\ \A c : /\ Coming(s, c) => Coming(Append(s, x), c)
                   /\ Refusal(s, c) => Refusal(Append(s, x), c)
                   /\ Requested(s, c) => Requested(Append(s, x), c)
                   /\ x.corr = c => /\ Requested(Append(s, x), c)
                                    /\ x.t = "history_result" => Coming(Append(s, x), c)
                                    /\ x.t = "error" => Refusal(Append(s, x), c)
<1>1. PICK S : S = {s[n] : n \in DOMAIN s} \cup {x}
  OBVIOUS
<1>2. s \in Seq(S) /\ x \in S
  BY <1>1 DEF Queue
<1>3. /\ Append(s, x) \in Seq(S) /\ Len(s) \in Nat /\ DOMAIN s = 1..Len(s)
      /\ DOMAIN Append(s, x) = 1..(Len(s) + 1)
      /\ Append(s, x)[Len(s) + 1] = x
      /\ \A n \in 1..Len(s) : Append(s, x)[n] = s[n]
  BY <1>2, AppendProperties, LenProperties
<1>4. Len(s) + 1 \in DOMAIN Append(s, x) /\ \A n \in DOMAIN s : n \in DOMAIN Append(s, x)
  BY <1>3
<1> QED BY <1>3, <1>4, QueueOf DEF Coming, Refusal, Requested

(* Taking the first frame keeps what is coming behind it.                  *)
LEMMA Taken ==
  ASSUME NEW s, Queue(s), s # <<>>
  PROVE  /\ Queue(Tail(s))
         /\ \A c :
              /\ Coming(s, c) =>
                   Coming(Tail(s), c) \/ (Head(s).t = "history_result" /\ Head(s).corr = c)
              /\ Refusal(s, c) =>
                   Refusal(Tail(s), c) \/ (Head(s).t = "error" /\ Head(s).corr = c)
              /\ Requested(s, c) => Requested(Tail(s), c) \/ Head(s).corr = c
<1>1. PICK S : S = {s[n] : n \in DOMAIN s}
  OBVIOUS
<1>2. s \in Seq(S)
  BY <1>1 DEF Queue
<1>3. /\ Tail(s) \in Seq(S) /\ Len(s) \in Nat /\ DOMAIN s = 1..Len(s) /\ Head(s) = s[1]
      /\ DOMAIN Tail(s) = 1..(Len(s) - 1)
      /\ \A n \in 1..(Len(s) - 1) : Tail(s)[n] = s[n + 1]
  BY <1>2, HeadTailProperties, LenProperties
<1>4. ASSUME NEW n \in DOMAIN s, n # 1 PROVE n - 1 \in DOMAIN Tail(s) /\ Tail(s)[n - 1] = s[n]
  BY <1>3, <1>4
<1> QED BY <1>3, <1>4, QueueOf DEF Coming, Refusal, Requested

(* Nothing is coming in an empty queue.                                    *)
LEMMA Nothing == Queue(<<>>) /\ \A c : ~Coming(<<>>, c)
<1>1. <<>> \in Seq({})
  BY EmptySeq
<1>2. Queue(<<>>)
  BY <1>1, QueueOf
<1>3. DOMAIN <<>> = {}
  OBVIOUS
<1> QED BY <1>2, <1>3 DEF Coming

(* The server sends a frame, and nothing else the invariant reads changes. *)
LEMMA Emits ==
  ASSUME IInv, NEW f, Emit(f),
         UNCHANGED <<asked, link, queueVars, inbox, state, gen, paneVars, reqs>>, asks' \in Nat
  PROVE  IInv'
<1>1. /\ Queue(wire')
      /\ \A c : (Coming(wire, c) => Coming(wire', c)) /\ (Refusal(wire, c) => Refusal(wire', c))
  BY Appended DEF Emit, IInv
<1>2. Queue(asked') /\ Queue(inbox') /\ PaneInv' /\ ReqInv'
  BY DEF IInv, PaneInv, ReqInv, paneVars, loadVars
<1>3. SpinInv'
  BY <1>1 DEF IInv, SpinInv, Asked, Answerable, Waiting, Queued, Current, queueVars, paneVars,
              loadVars
<1> QED BY <1>1, <1>2, <1>3 DEF IInv

(* The server answers a request: its page comes, or its error.             *)
LEMMA AnswerInv ==
  ASSUME IInv, Answer
  PROVE  IInv'
<1> DEFINE q == Head(asked)
<1>1. /\ asked # <<>> /\ asked' = Tail(asked)
      /\ UNCHANGED <<link, pending, swept, inbox, state, gen, ctx, pane, loading, corr, reqs, asks>>
  BY DEF Answer, queueVars, paneVars, loadVars, bounds
<1>2. PICK f : /\ wire' = IF link THEN Append(wire, f) ELSE wire
               /\ f.corr = q.corr /\ f.t \in {"history_result", "error"}
  <2>1. PICK rows, more :
          \/ Emit([t |-> "history_result", corr |-> q.corr, rows |-> rows, more |-> more])
          \/ Emit([t |-> "error", corr |-> q.corr])
    BY DEF Answer
  <2>2. CASE Emit([t |-> "history_result", corr |-> q.corr, rows |-> rows, more |-> more])
    BY <2>2 DEF Emit
  <2>3. CASE Emit([t |-> "error", corr |-> q.corr])
    BY <2>3 DEF Emit
  <2> QED BY <2>1, <2>2, <2>3
<1>3. Queue(asked') /\ \A c : Requested(asked, c) => Requested(asked', c) \/ q.corr = c
  BY <1>1, Taken DEF IInv
<1>4. /\ Queue(wire')
      /\ \A c : (Coming(wire, c) => Coming(wire', c)) /\ (Refusal(wire, c) => Refusal(wire', c))
      /\ link => Coming(wire', q.corr) \/ Refusal(wire', q.corr)
  BY <1>2, Appended DEF IInv
<1>5. SpinInv'
  BY <1>1, <1>3, <1>4 DEF IInv, SpinInv, Asked, Answerable, Waiting, Queued, Current
<1> QED BY <1>1, <1>3, <1>4, <1>5 DEF IInv, PaneInv, ReqInv

(* The other steps of the server only send.                                *)
LEMMA ServerInv ==
  ASSUME IInv, \/ Post \/ PostEdit \/ PostDelete \/ PostReaction \/ PostUnreact \/ Rotate \/ Answer
  PROVE  IInv'
<1>1. asks \in Nat
  BY DEF IInv, ReqInv
<1>2. ASSUME Post \/ PostEdit \/ PostDelete \/ PostReaction \/ PostUnreact PROVE IInv'
  <2>1. UNCHANGED <<asked, link, queueVars, inbox, state, gen, paneVars, reqs, asks>>
    BY <1>2 DEF Post, PostEdit, PostDelete, PostReaction, PostUnreact, ServerOnly
  <2>2. \E f : Emit(f)
    BY <1>2 DEF Post, PostEdit, PostDelete, PostReaction, PostUnreact
  <2> QED BY <1>1, <2>1, <2>2, Emits
<1>3. ASSUME Rotate PROVE IInv'
  <2>1. UNCHANGED <<asked, link, queueVars, inbox, state, gen, paneVars, reqs, asks>>
    BY <1>3 DEF Rotate, bounds
  <2>2. \E f : Emit(f)
    BY <1>3 DEF Rotate
  <2> QED BY <1>1, <2>1, <2>2, Emits
<1> QED BY <1>2, <1>3, AnswerInv

(* readLoop moves the answer from the wire to the inbox; with a page it    *)
(* takes the request out of the queue, with an error it leaves that to the *)
(* TUI.                                                                    *)
LEMMA ReadInv ==
  ASSUME IInv, Read
  PROVE  IInv'
<1> DEFINE f == Head(wire)
<1>1. /\ wire # <<>> /\ wire' = Tail(wire)
      /\ inbox' = IF f.t = "epoch_key" THEN inbox ELSE Append(inbox, f)
      /\ pending' = IF f.t = "history_result" THEN Without(f.corr) ELSE pending
      /\ UNCHANGED <<asked, swept, link, state, gen, ctx, pane, loading, corr, reqs, asks>>
  BY DEF Read, paneVars, loadVars, bounds
<1>2. /\ Queue(wire') /\ Queue(inbox')
      /\ \A c : /\ Coming(inbox, c) => Coming(inbox', c)
                /\ Refusal(inbox, c) => Refusal(inbox', c)
                /\ Coming(wire, c) => Coming(wire', c) \/ Coming(inbox', c)
                /\ Refusal(wire, c) => Refusal(wire', c) \/ Refusal(inbox', c)
                /\ f.t = "history_result" /\ f.corr = c => Coming(inbox', c)
  BY <1>1, Appended, Taken DEF IInv
<1>3. Answerable => Answerable'
  BY <1>1, <1>2 DEF Answerable, Waiting, Without, Queued
<1> QED BY <1>1, <1>2, <1>3 DEF IInv, PaneInv, ReqInv, SpinInv, Asked, Current

(* A page that matches the request ends the spinner, and so does an error  *)
(* while the queue has the request; one that does neither leaves the       *)
(* request where it was.                                                   *)
LEMMA HandleInv ==
  ASSUME IInv, Handle
  PROVE  IInv'
<1> DEFINE f == Head(inbox)
<1>1. /\ inbox # <<>> /\ inbox' = Tail(inbox)
      /\ pending' = IF f.t = "error" THEN Without(f.corr) ELSE pending
      /\ UNCHANGED <<asked, swept, link, state, gen, wire, reqs, asks>>
  BY DEF Handle, ServerError, bounds
<1>2. /\ Queue(asked') /\ Queue(wire') /\ Queue(inbox')
      /\ \A c : /\ Coming(inbox, c) =>
                     Coming(inbox', c) \/ (f.t = "history_result" /\ f.corr = c)
                /\ Refusal(inbox, c) => Refusal(inbox', c) \/ (f.t = "error" /\ f.corr = c)
  BY <1>1, Taken DEF IInv
<1>3. /\ UNCHANGED ctx
      /\ ctx # "this" => UNCHANGED <<pane, loading>> \/ (pane' = pane /\ ~loading')
      /\ \/ ~loading'
         \/ /\ UNCHANGED <<corr, loading>>
            /\ f.t = "history_result" => ~MatchesActive(f.corr)
            /\ f.t = "error" => Queued(f.corr) = {} \/ f.corr # corr
  <2>1. CASE f.t = "history_result"
    BY <2>1 DEF Handle, HistoryResult, MatchesActive, paneVars, loadVars
  <2>2. CASE f.t = "error"
    BY <2>2 DEF Handle, ServerError, AbortHistory, loadVars
  <2>3. CASE f.t \notin {"history_result", "error"}
    BY <2>3 DEF Handle, loadVars
  <2> QED BY <2>1, <2>2, <2>3
<1>4. PaneInv' /\ ReqInv'
  BY <1>1, <1>3 DEF IInv, PaneInv, ReqInv
<1>5. SpinInv'
  <2> SUFFICES ASSUME link, state = "Online", loading'
               PROVE  Asked' \/ Answerable'
    BY <1>1 DEF SpinInv
  <2>1. /\ UNCHANGED <<corr, loading>> /\ ctx = "this"
        /\ f.t = "history_result" => ~MatchesActive(f.corr)
        /\ f.t = "error" => Queued(f.corr) = {} \/ f.corr # corr
    BY <1>3 DEF IInv, PaneInv
  <2>2. CASE Asked
    <3>1. PICK r \in reqs : r.gen = gen /\ ctx = "this"
      BY <2>2 DEF Asked, Current
    <3>2. reqs' = reqs /\ gen' = gen /\ ctx' = "this"
      BY <1>1, <1>3, <2>1
    <3> QED BY <3>1, <3>2 DEF Asked, Current
  <2>3. CASE Answerable
    <3>1. CASE Waiting(corr)
      <4>1. f.t = "error" => f.corr # corr
        BY <2>1, <3>1 DEF Waiting
      <4>2. Queued(corr)' # {}
        BY <1>1, <2>1, <3>1, <4>1 DEF Waiting, Without, Queued
      <4>3. Requested(asked, corr) \/ Refusal(wire, corr) \/ Refusal(inbox', corr)
        BY <1>2, <3>1, <4>1 DEF Waiting
      <4> QED BY <1>1, <2>1, <2>3, <4>2, <4>3 DEF Answerable, Waiting
    <3>2. CASE ~Waiting(corr)
      BY <1>1, <1>2, <2>1, <2>3, <3>2 DEF Answerable, MatchesActive
    <3> QED BY <3>1, <3>2
  <2> QED BY <2>1, <2>2, <2>3 DEF IInv, SpinInv
<1> QED BY <1>2, <1>4, <1>5 DEF IInv

(* The key at the top of the pane issues a command for the view it was     *)
(* pressed in.                                                             *)
LEMMA PressUpInv ==
  ASSUME IInv, PressUp
  PROVE  IInv'
<1>1. /\ UNCHANGED <<asked, wire, inbox, gen, ctx, pane>> /\ pane # <<>> /\ asks' = asks + 1
      /\ reqs' = reqs \cup {[gen |-> gen, n |-> asks + 1, before |-> pane[1].id]}
  BY DEF PressUp, MayRequest
<1>2. ctx = "this"
  BY <1>1 DEF IInv, PaneInv
<1>3. Asked'
  <2>1. PICK r : r = [gen |-> gen, n |-> asks + 1, before |-> pane[1].id]
    OBVIOUS
  <2>2. r \in reqs' /\ r.gen = gen' /\ ctx' = "this"
    BY <1>1, <1>2, <2>1
  <2> QED BY <2>2 DEF Asked, Current
<1>4. ReqInv'
  BY <1>1 DEF IInv, ReqInv
<1> QED BY <1>1, <1>2, <1>3, <1>4 DEF IInv, PaneInv, SpinInv

(* The command either puts a request with the server or stops the spinner; *)
(* the command of an older view does neither, and a newer command is still *)
(* there.                                                                  *)
LEMMA HandleRequestInv ==
  ASSUME IInv, HandleRequest
  PROVE  IInv'
<1>1. PICK r \in reqs :
        /\ reqs' = reqs \ {r}
        /\ UNCHANGED <<wire, link, swept, inbox, state, gen, ctx, asks>>
        /\ IF ~Current(r)
           THEN UNCHANGED <<asked, pending, paneVars>>
           ELSE \/ ~loading' /\ asked' = asked
                \/ /\ corr' = r.n /\ Queued(r.n)' # {}
                   /\ \E q : asked' = Append(asked, q) /\ q.corr = r.n
  <2>1. PICK r \in reqs :
          /\ reqs' = reqs \ {r}
          /\ UNCHANGED <<wire, link, swept, inbox, state, gen, asks>>
          /\ IF ~Current(r)
             THEN UNCHANGED <<asked, pending, paneVars>>
             ELSE /\ UNCHANGED ctx
                  /\ \/ ~loading' /\ asked' = asked
                     \/ \E b : ContinueOnServer(r, b)
    BY DEF HandleRequest, bounds
  <2>2. ASSUME NEW b, ContinueOnServer(r, b)
        PROVE  \/ ~loading' /\ asked' = asked
               \/ /\ corr' = r.n /\ Queued(r.n)' # {}
                  /\ \E q : asked' = Append(asked, q) /\ q.corr = r.n
    <3>1. PICK q : q = [corr |-> r.n, before |-> r.before]
      OBVIOUS
    <3>2. q.corr = r.n
      BY <3>1
    <3>3. \/ ~loading' /\ asked' = asked
          \/ corr' = r.n /\ asked' = Append(asked, q) /\ pending' = pending \cup {q}
      BY <2>2, <3>1 DEF ContinueOnServer
    <3>4. pending' = pending \cup {q} => Queued(r.n)' # {}
      BY <3>2 DEF Queued
    <3> QED BY <3>2, <3>3, <3>4
  <2>3. UNCHANGED ctx
    BY <2>1 DEF paneVars
  <2> QED BY <2>1, <2>2, <2>3
<1>2. Queue(wire') /\ Queue(inbox') /\ ReqInv'
  BY <1>1 DEF IInv, ReqInv
<1>3. CASE Current(r)
  <2>1. ctx' = "this" /\ r.n # 0
    BY <1>1, <1>3 DEF Current, IInv, ReqInv
  <2>2. Queue(asked')
    BY <1>1, <1>3, Appended DEF IInv
  <2>3. SpinInv'
    <3>1. CASE ~loading'
      BY <3>1 DEF SpinInv
    <3>2. CASE loading'
      <4>1. PICK q : asked' = Append(asked, q) /\ q.corr = r.n
        BY <1>1, <1>3, <3>2
      <4>2. Requested(asked', r.n)
        BY <4>1, Appended DEF IInv
      <4>3. corr' = r.n /\ Queued(r.n)' # {}
        BY <1>1, <1>3, <3>2
      <4>4. Queued(corr)' # {}
        BY <4>3 DEF Queued
      <4> QED BY <2>1, <4>2, <4>3, <4>4 DEF SpinInv, Answerable, Waiting
    <3> QED BY <3>1, <3>2 DEF SpinInv
  <2> QED BY <1>2, <2>1, <2>2, <2>3 DEF IInv, PaneInv
<1>4. CASE ~Current(r)
  <2>1. UNCHANGED <<asked, ctx, pane, loading, corr, pending>>
    BY <1>1, <1>4 DEF paneVars, loadVars
  <2>2. Asked => Asked'
    BY <1>1, <1>4, <2>1 DEF Asked, Current
  <2>3. Answerable => Answerable'
    BY <1>1, <2>1 DEF Answerable, Waiting, Queued
  <2> QED BY <1>1, <1>2, <2>1, <2>2, <2>3 DEF IInv, PaneInv, SpinInv
<1> QED BY <1>3, <1>4

(* The driver: the sweep is recorded, and a repetition is one request more.*)
LEMMA DriverInv ==
  ASSUME IInv, Sweep \/ Resend
  PROVE  IInv'
<1>1. UNCHANGED <<wire, link, inbox, state, gen, ctx, pane, loading, corr, reqs, asks>>
  BY DEF Sweep, Resend, paneVars, loadVars, bounds
<1>2. CASE Sweep
  <2>1. PICK q \in pending : pending' = pending \ {q} /\ swept' = swept \cup {q.corr}
    BY <1>2 DEF Sweep
  <2>2. asked' = asked
    BY <1>2 DEF Sweep
  <2>3. Queued(corr)' # {} \/ q.corr = corr \/ Queued(corr) = {}
    BY <1>1, <2>1 DEF Queued
  <2>4. Answerable => Answerable'
    BY <1>1, <2>1, <2>2, <2>3 DEF Answerable, Waiting
  <2> QED BY <1>1, <2>2, <2>4 DEF IInv, PaneInv, ReqInv, SpinInv, Asked, Current
<1>3. CASE Resend
  <2>1. pending' = pending /\ swept' = swept /\ \E q : asked' = Append(asked, q) \/ asked' = asked
    BY <1>3 DEF Resend
  <2>2. Queue(asked') /\ \A c : Requested(asked, c) => Requested(asked', c)
    BY <2>1, Appended DEF IInv
  <2>3. Answerable => Answerable'
    BY <1>1, <2>1, <2>2 DEF Answerable, Waiting, Queued
  <2> QED BY <1>1, <2>2, <2>3 DEF IInv, PaneInv, ReqInv, SpinInv, Asked, Current
<1> QED BY <1>2, <1>3

(* Opening a conversation starts without a spinner.                        *)
LEMMA Opened ==
  ASSUME IInv, NEW c \in {"this", "other"}, SetContext(c),
         UNCHANGED <<asked, wire, link, inbox, reqs, gen, asks>>
  PROVE  IInv'
<1>1. ctx' = c /\ loading' = FALSE
  BY DEF SetContext
<1>2. c = "other" => pane' = <<>>
  BY DEF SetContext, StoreRows
<1> QED BY <1>1, <1>2 DEF IInv, PaneInv, ReqInv, SpinInv

(* When the connection goes, what it owed goes, and so does the premise.   *)
LEMMA LinkInv ==
  ASSUME IInv, Drop \/ Lost \/ GoOffline \/ Connect
  PROVE  IInv'
<1>1. /\ ~link' \/ state' # "Online"
      /\ UNCHANGED <<ctx, pane, loading, reqs, asks>>
      /\ asked' \in {asked, <<>>} /\ (wire' = wire \/ Queue(wire'))
      /\ inbox' \in {inbox, <<>>}
  <2>1. CASE Drop
    BY <2>1, Nothing DEF Drop, Cut, paneVars, loadVars, bounds
  <2>2. CASE Lost
    BY <2>2 DEF Lost, paneVars, loadVars, bounds
  <2>3. CASE GoOffline
    BY <2>3, Nothing DEF GoOffline, Cut, paneVars, loadVars, bounds
  <2>4. CASE Connect
    <3>1. PICK k, b : wire' = (IF kind = "room" THEN <<k>> ELSE <<>>) \o <<b>>
      BY <2>4 DEF Connect
    <3>2. <<k>> \in Seq({k, b}) /\ <<b>> \in Seq({k, b}) /\ <<>> \in Seq({k, b})
      BY EmptySeq
    <3>3. wire' \in Seq({k, b})
      BY <3>1, <3>2, ConcatProperties
    <3>4. Queue(wire')
      BY <3>3, QueueOf
    <3> QED BY <2>4, <3>4 DEF Connect, paneVars, loadVars, bounds
  <2> QED BY <2>1, <2>2, <2>3, <2>4
<1> QED BY <1>1, Nothing DEF IInv, PaneInv, ReqInv, SpinInv

(* Every step keeps the invariant.                                         *)
LEMMA StepInv ==
  ASSUME IInv, [Next]_vars
  PROVE  IInv'
<1>1. CASE AdoptStashed
  BY <1>1 DEF AdoptStashed, IInv, PaneInv, ReqInv, SpinInv, Asked, Answerable, Waiting, Queued,
              Current, queueVars, paneVars, loadVars, bounds
<1>2. CASE Switch
  BY <1>2, Opened DEF Switch
<1>3. CASE Connected
  BY <1>3, Opened DEF Connected, bounds
<1>4. CASE UNCHANGED vars
  BY <1>4 DEF vars, IInv, PaneInv, ReqInv, SpinInv, Asked, Answerable, Waiting, Queued, Current,
              queueVars, paneVars, loadVars, bounds
<1> QED BY <1>1, <1>2, <1>3, <1>4, ServerInv, ReadInv, HandleInv, PressUpInv,
           HandleRequestInv, DriverInv, LinkInv DEF Next

(* It holds when the program starts.                                       *)
LEMMA InitInv ==
  ASSUME Init
  PROVE  IInv
BY Nothing DEF Init, IInv, PaneInv, ReqInv, SpinInv

(* The invariant holds of every behaviour of the specification.            *)
THEOREM Inductive == Spec => []IInv
BY InitInv, StepInv, PTL DEF Spec

(* A pane that says it is loading history while the connection is up waits *)
(* for a command still to be handled, for a request the server has, or for *)
(* an answer on its way, unless the queue's sweep has dropped the request. *)
(* No order of pages, errors, retries, switches and reconnections leaves   *)
(* the spinner with nothing to end it in any other way.                    *)
THEOREM LoadingHasCause == Spec => []SpinnerOutlivesOnlySweeps
<1>1. ASSUME NEW s, NEW c, Coming(s, c) \/ Refusal(s, c)
      PROVE  \E n \in DOMAIN s : Answers(s[n], c)
  BY <1>1 DEF Coming, Refusal, Answers
<1>2. Answerable => UnderWay(corr) \/ corr \in swept
  BY <1>1 DEF Answerable, Waiting, Requested, UnderWay
<1>3. IInv => SpinnerOutlivesOnlySweeps
  BY <1>2 DEF IInv, SpinInv, SpinnerOutlivesOnlySweeps, SpinnerHasCause, Asked
<1> QED BY <1>3, Inductive, PTL

-----------------------------------------------------------------------------
(* Folds.                                                                  *)

(* Induction over the natural numbers, for a set of them.                  *)
LEMMA NatSet ==
  ASSUME NEW S, 0 \in S, \A n \in Nat : n \in S => n + 1 \in S
  PROVE  Nat \subseteq S
<1> DEFINE T == Nat \ S
<1> SUFFICES ASSUME T # {} PROVE FALSE
  OBVIOUS
<1>1. T \subseteq Nat
  OBVIOUS
<1>2. PICK R : R = OpToRel(<, Nat)
  OBVIOUS
<1>3. IsWellFoundedOn(R, Nat)
  BY <1>2, NatLessThanWellFounded
<1> HIDE DEF T
<1>4. PICK x \in T : \A y \in T : <<y, x>> \notin R
  BY <1>1, <1>3, WFMin
<1>5. \A a, b \in Nat : a < b => <<a, b>> \in R
  BY <1>2 DEF OpToRel
<1>6. x \in Nat /\ x \notin S
  BY DEF T
<1>7. x # 0 /\ x - 1 \in Nat /\ x - 1 < x /\ x = (x - 1) + 1
  BY <1>6
<1>8. x - 1 \in S
  <2>1. <<x - 1, x>> \in R
    BY <1>5, <1>6, <1>7
  <2>2. x - 1 \notin T
    BY <1>4, <2>1
  <2> QED BY <1>7, <2>2 DEF T
<1> QED BY <1>6, <1>7, <1>8

(* The greatest element of the first numbers.                              *)
LEMMA MaxOfFirst == \A k \in Nat \ {0} : Seqs!Max(1..k) = k
<1> SUFFICES ASSUME NEW k \in Nat \ {0} PROVE Seqs!Max(1..k) = k
  OBVIOUS
<1>1. k \in 1..k /\ \A y \in 1..k : k >= y
  OBVIOUS
<1>2. \A x \in 1..k : (\A y \in 1..k : x >= y) => x = k
  BY <1>1
<1> QED BY <1>1, <1>2 DEF Seqs!Max

(* A nonempty set of first numbers has a greatest element, which Max is.   *)
LEMMA MaxIsIn ==
  ASSUME NEW k \in Nat, NEW s \in SUBSET (1..k), s # {}
  PROVE  Seqs!Max(s) \in s /\ \A y \in s : Seqs!Max(s) >= y
<1> DEFINE Has(j) == \A t \in SUBSET (1..j) : t # {} => \E x \in t : \A y \in t : x >= y
           S == {j \in Nat : Has(j)}
<1>1. 0 \in S
  <2>1. \A t \in SUBSET (1..0) : t = {}
    OBVIOUS
  <2>2. Has(0)
    BY <2>1
  <2> QED BY <2>2
<1>2. ASSUME NEW j \in Nat, j \in S PROVE j + 1 \in S
  <2> SUFFICES ASSUME NEW t \in SUBSET (1..(j + 1)), t # {}
               PROVE  \E x \in t : \A y \in t : x >= y
    OBVIOUS
  <2>1. CASE j + 1 \in t
    BY <2>1
  <2>2. CASE j + 1 \notin t
    <3>1. t \in SUBSET (1..j)
      BY <2>2
    <3>2. Has(j)
      BY <1>2
    <3> QED BY <3>1, <3>2
  <2> QED BY <2>1, <2>2
<1>3. k \in S
  <2> HIDE DEF S
  <2> QED BY <1>1, <1>2, NatSet
<1>4. \E x \in s : \A y \in s : x >= y
  BY <1>3
<1> QED BY <1>4 DEF Seqs!Max

(* What is folded: from a member of A, with the functions G of its members.*)
Foldable(n, A, base, G) ==
  n \in Nat /\ base \in A /\ \A k \in 1..n : \A x \in A : G[k][x] \in A

(* The results h of a fold over sets of the first n numbers, the greatest  *)
(* last.                                                                   *)
FoldOf(n, A, base, G, h) ==
  /\ h \in [SUBSET (1..n) -> A]
  /\ \A s \in SUBSET (1..n) :
       h[s] = IF s = {} THEN base ELSE G[Seqs!Max(s)][h[s \ {Seqs!Max(s)}]]

(* There are such results.                                                 *)
LEMMA FoldExists ==
  ASSUME NEW n, NEW A, NEW base, NEW G, Foldable(n, A, base, G)
  PROVE  \E h : FoldOf(n, A, base, G, h)
<1> DEFINE Eq(k, h) == FoldOf(k, A, base, G, h)
           S == {k \in Nat : k <= n => \E h : Eq(k, h)}
<1>0. n \in Nat /\ base \in A /\ \A k \in 1..n : \A x \in A : G[k][x] \in A
  BY DEF Foldable
<1>1. 0 \in S
  <2> DEFINE h == [s \in SUBSET (1..0) |-> base]
  <2>1. \A s \in SUBSET (1..0) : s = {}
    OBVIOUS
  <2>2. Eq(0, h)
    BY <1>0, <2>1 DEF FoldOf
  <2> QED BY <2>2
<1>2. ASSUME NEW k \in Nat, k \in S PROVE k + 1 \in S
  <2> SUFFICES ASSUME k + 1 <= n PROVE \E h : Eq(k + 1, h)
    <3> HIDE DEF Eq
    <3> QED OBVIOUS
  <2>1. PICK g : Eq(k, g)
    <3> HIDE DEF Eq
    <3> QED BY <1>0, <1>2
  <2> DEFINE h == [s \in SUBSET (1..(k + 1)) |->
                     IF k + 1 \in s THEN G[k + 1][g[s \ {k + 1}]] ELSE g[s]]
  <2>2. ASSUME NEW s \in SUBSET (1..(k + 1))
        PROVE  /\ h[s] \in A
               /\ h[s] = IF s = {} THEN base ELSE G[Seqs!Max(s)][h[s \ {Seqs!Max(s)}]]
    <3>1. CASE s = {}
      <4>1. s \in SUBSET (1..k) /\ h[s] = g[s]
        BY <3>1
      <4> QED BY <2>1, <3>1, <4>1 DEF FoldOf
    <3>2. CASE k + 1 \in s
      <4>1. Seqs!Max(s) \in s /\ Seqs!Max(s) >= k + 1
        BY <3>2, MaxIsIn, k + 1 \in Nat
      <4>2. Seqs!Max(s) = k + 1
        <5>1. \A x \in 1..(k + 1) : x >= k + 1 => x = k + 1
          OBVIOUS
        <5> QED BY <4>1, <5>1
      <4>3. /\ s \ {k + 1} \in SUBSET (1..(k + 1)) /\ k + 1 \notin s \ {k + 1} /\ s # {}
            /\ s \ {k + 1} \in SUBSET (1..k) /\ k + 1 \in 1..n
        BY <1>0, <3>2
      <4>4. h[s] = G[k + 1][g[s \ {k + 1}]] /\ h[s \ {k + 1}] = g[s \ {k + 1}]
        BY <3>2, <4>3
      <4>5. g[s \ {k + 1}] \in A
        BY <2>1, <4>3 DEF FoldOf
      <4> HIDE DEF h
      <4> QED BY <1>0, <4>2, <4>3, <4>4, <4>5
    <3>3. CASE k + 1 \notin s /\ s # {}
      <4>1. s \in SUBSET (1..k)
        BY <3>3
      <4>2. Seqs!Max(s) \in s
        BY <3>3, <4>1, MaxIsIn
      <4> DEFINE u == s \ {Seqs!Max(s)}
      <4>3. u \in SUBSET (1..k) /\ u \in SUBSET (1..(k + 1)) /\ k + 1 \notin u
        BY <3>3, <4>1
      <4>4. h[s] = g[s] /\ h[u] = g[u]
        BY <3>3, <4>3
      <4>5. g[s] = G[Seqs!Max(s)][g[u]] /\ g[s] \in A
        BY <2>1, <3>3, <4>1 DEF FoldOf
      <4> HIDE DEF h, Eq
      <4> QED BY <3>3, <4>4, <4>5
    <3> QED BY <3>1, <3>2, <3>3
  <2>3. h \in [SUBSET (1..(k + 1)) -> A]
    <3>1. \A s \in SUBSET (1..(k + 1)) : h[s] \in A
      BY <2>2
    <3> QED BY <3>1
  <2>4. Eq(k + 1, h)
    <3> HIDE DEF h
    <3> QED BY <2>2, <2>3 DEF FoldOf
  <2> HIDE DEF h, Eq
  <2> QED BY <2>4
<1>3. n \in S
  <2> HIDE DEF S
  <2> QED BY <1>0, <1>1, <1>2, NatSet
<1>4. \E h : Eq(n, h)
  <2> HIDE DEF Eq
  <2> QED BY <1>0, <1>3
<1> QED BY <1>4

(* The first k of n numbers.                                               *)
LEMMA Firsts ==
  ASSUME NEW n \in Nat, NEW k \in 1..n
  PROVE  /\ Seqs!Max(1..k) = k /\ (1..k) \ {k} = 1..(k - 1)
         /\ 1..k \in SUBSET (1..n) /\ 1..k # {} /\ k - 1 \in 0..n /\ k \in 0..n
<1>1. k \in Nat \ {0}
  OBVIOUS
<1>2. Seqs!Max(1..k) = k
  BY <1>1, MaxOfFirst
<1>3. (1..k) \ {k} = 1..(k - 1)
  OBVIOUS
<1>4. 1..k \in SUBSET (1..n) /\ k \in 1..k /\ k - 1 \in 0..n /\ k \in 0..n
  OBVIOUS
<1> QED BY <1>2, <1>3, <1>4

(* The ids of rows.                                                        *)
RowIds == Nat

(* The tables of messages.                                                 *)
Stores == UNION {[D -> StoreRow] : D \in SUBSET RowIds}

(* The rows of a sync_batch or a history_result.                           *)
BatchRow == [id : RowIds, epoch : Epochs, body : 0..1, deleted : BOOLEAN, liked : 0..2]

(* A table is a function of the ids of its rows.                           *)
LEMMA StoreSet ==
  \A st : st \in Stores <=> DOMAIN st \subseteq RowIds /\ st \in [DOMAIN st -> StoreRow]
<1> SUFFICES ASSUME NEW st
             PROVE  st \in Stores <=> DOMAIN st \subseteq RowIds /\ st \in [DOMAIN st -> StoreRow]
  OBVIOUS
<1>1. ASSUME st \in Stores PROVE DOMAIN st \subseteq RowIds /\ st \in [DOMAIN st -> StoreRow]
  <2>1. PICK D \in SUBSET RowIds : st \in [D -> StoreRow]
    BY <1>1 DEF Stores
  <2> QED BY <2>1
<1>2. ASSUME DOMAIN st \subseteq RowIds /\ st \in [DOMAIN st -> StoreRow] PROVE st \in Stores
  BY <1>2 DEF Stores
<1> QED BY <1>1, <1>2

(* The table x is st with the row id.                                      *)
IsPut(st, id, row, x) ==
  /\ x \in Stores /\ DOMAIN x = DOMAIN st \cup {id}
  /\ x[id] = row /\ \A i \in DOMAIN st \ {id} : x[i] = st[i]

(* What a row that is put in a table becomes.                              *)
LEMMA PutRow ==
  ASSUME NEW st \in Stores, NEW id \in RowIds, NEW row \in StoreRow
  PROVE  IsPut(st, id, row, Put(st, id, row))
<1>1. DOMAIN st \subseteq RowIds /\ st \in [DOMAIN st -> StoreRow]
  BY StoreSet
<1>2. /\ DOMAIN Put(st, id, row) = DOMAIN st \cup {id}
      /\ Put(st, id, row)[id] = row
      /\ \A i \in DOMAIN st \ {id} : Put(st, id, row)[i] = st[i]
      /\ Put(st, id, row) \in [DOMAIN st \cup {id} -> StoreRow]
  BY <1>1 DEF Put
<1> QED BY <1>1, <1>2, StoreSet DEF IsPut

(* A step from the table st to the table x that stores or deletes the row  *)
(* id: nothing leaves the table, only id enters it, only a deletion        *)
(* deletes, and what is deleted is a tombstone or what it was.             *)
Applies(st, x, id, deletes) ==
  /\ x \in Stores
  /\ DOMAIN st \subseteq DOMAIN x /\ DOMAIN x \subseteq DOMAIN st \cup {id}
  /\ \A i \in DOMAIN st : x[i].deleted <=> st[i].deleted \/ (i = id /\ deletes)
  /\ \A i \in DOMAIN x \ DOMAIN st : x[i].deleted <=> deletes
  /\ \A i \in DOMAIN x : x[i].deleted => x[i] = Tombstone \/ (i \in DOMAIN st /\ x[i] = st[i])

(* Fresh rows and tombstones are rows.                                     *)
LEMMA Rows == Tombstone \in StoreRow /\ \A b \in Bodies : Fresh(b) \in StoreRow /\ ~Fresh(b).deleted
BY DEF Tombstone, StoreRow, Fresh, Bodies, NoBody

(* A row that is put is a new one, or a tombstone.                         *)
LEMMA Puts ==
  ASSUME NEW st \in Stores, NEW id \in RowIds, NEW row \in StoreRow, NEW d,
         row.deleted <=> d, d => row = Tombstone, d \/ id \notin DOMAIN st
  PROVE  Applies(st, Put(st, id, row), id, d)
<1> DEFINE x == Put(st, id, row)
<1>1. /\ x \in Stores /\ DOMAIN x = DOMAIN st \cup {id} /\ x[id] = row
      /\ \A i \in DOMAIN st \ {id} : x[i] = st[i]
  BY PutRow DEF IsPut
<1> HIDE DEF x
<1>2. \A i \in DOMAIN st : x[i].deleted <=> st[i].deleted \/ (i = id /\ d)
  BY <1>1
<1>3. \A i \in DOMAIN x \ DOMAIN st : x[i].deleted <=> d
  BY <1>1
<1>4. \A i \in DOMAIN x : x[i].deleted => x[i] = Tombstone \/ (i \in DOMAIN st /\ x[i] = st[i])
  BY <1>1
<1>5. Applies(st, x, id, d)
  BY <1>1, <1>2, <1>3, <1>4 DEF Applies
<1> QED BY <1>5 DEF x

(* InsertMessage adds a row that is not there.                             *)
LEMMA Inserts ==
  ASSUME NEW st \in Stores, NEW id \in RowIds, NEW b \in Bodies
  PROVE  Applies(st, InsertMessage(st, id, b), id, FALSE)
<1>1. CASE id \in DOMAIN st
  BY <1>1, StoreSet DEF Applies, InsertMessage, StoreRow
<1>2. CASE id \notin DOMAIN st
  <2>1. Fresh(b).deleted = FALSE /\ Fresh(b) \in StoreRow
    BY Rows DEF Fresh
  <2>2. PICK row \in StoreRow : row = Fresh(b)
    BY <2>1
  <2>3. Applies(st, Put(st, id, row), id, FALSE)
    BY <1>2, <2>1, <2>2, Puts
  <2> QED BY <1>2, <2>1, <2>2, <2>3 DEF InsertMessage
<1> QED BY <1>1, <1>2

(* A row of a batch as StoreCatchup stores it.                             *)
LEMMA Catchup ==
  ASSUME NEW st \in Stores, NEW r \in BatchRow
  PROVE  /\ Applies(st, StoreCatchup(st, r), r.id, r.deleted)
         /\ r.deleted => r.id \in DOMAIN StoreCatchup(st, r)
<1>1. r.id \in RowIds /\ r.body \in Bodies /\ r.deleted \in BOOLEAN /\ NoBody \in Bodies
  BY DEF BatchRow, Bodies, NoBody
<1>2. CASE r.deleted
  <2>1. StoreCatchup(st, r) = Put(st, r.id, Tombstone)
    BY <1>2 DEF StoreCatchup, UpsertDeletedMessage
  <2>2. Tombstone.deleted = TRUE /\ r.deleted = TRUE
    BY <1>1, <1>2 DEF Tombstone
  <2>3. Applies(st, Put(st, r.id, Tombstone), r.id, TRUE)
    BY <1>1, <2>2, Rows, Puts
  <2>4. r.id \in DOMAIN Put(st, r.id, Tombstone)
    BY DEF Put
  <2> QED BY <2>1, <2>2, <2>3, <2>4
<1>3. CASE ~r.deleted
  <2>1. StoreCatchup(st, r) \in {InsertMessage(st, r.id, r.body), InsertMessage(st, r.id, NoBody), st}
    BY <1>3 DEF StoreCatchup, StoreMessage
  <2>2. Applies(st, st, r.id, FALSE)
    BY StoreSet DEF Applies, StoreRow
  <2>3. r.deleted = FALSE
    BY <1>1, <1>3
  <2> QED BY <1>1, <2>1, <2>2, <2>3, Inserts
<1> QED BY <1>2, <1>3

(* A reaction of a batch is put on a row that is there and not deleted.    *)
LEMMA Reacts ==
  ASSUME NEW st \in Stores, NEW id, NEW b \in BOOLEAN
  PROVE  /\ Applies(st, InsertReaction(st, id, b), id, FALSE)
         /\ DOMAIN InsertReaction(st, id, b) = DOMAIN st
<1>1. DOMAIN st \subseteq RowIds /\ st \in [DOMAIN st -> StoreRow]
  BY StoreSet
<1>2. CASE id \in DOMAIN st /\ ~st[id].deleted
  <2> DEFINE x == [st EXCEPT ![id].liked = b]
  <2>1. InsertReaction(st, id, b) = x
    BY <1>2 DEF InsertReaction
  <2>2. DOMAIN x = DOMAIN st /\ x[id] = [st[id] EXCEPT !.liked = b]
        /\ \A i \in DOMAIN st \ {id} : x[i] = st[i]
    BY <1>1, <1>2
  <2>3. x[id] \in StoreRow /\ x[id].deleted = st[id].deleted
    BY <1>1, <1>2, <2>2 DEF StoreRow
  <2>4. x \in [DOMAIN x -> StoreRow]
    BY <1>1, <2>2, <2>3
  <2>5. x \in Stores
    BY <1>1, <2>2, <2>4, StoreSet
  <2> HIDE DEF x
  <2> QED BY <1>2, <2>1, <2>2, <2>3, <2>5 DEF Applies
<1>3. CASE ~(id \in DOMAIN st /\ ~st[id].deleted)
  BY <1>1, <1>3, StoreSet DEF Applies, InsertReaction, StoreRow
<1> QED BY <1>2, <1>3

(* What the reaction of a batch row makes of the table: at most that row   *)
(* changes, and none is deleted.                                           *)
LEMMA Likes ==
  ASSUME NEW st \in Stores, NEW r
  PROVE  /\ Applies(st, StoreLike(st, r), r.id, FALSE)
         /\ DOMAIN StoreLike(st, r) = DOMAIN st
<1>1. StoreLike(st, r) \in {InsertReaction(st, r.id, TRUE), st}
  BY DEF StoreLike
<1>2. Applies(st, st, r.id, FALSE)
  BY StoreSet DEF Applies, StoreRow
<1> QED BY <1>1, <1>2, Reacts

(* The step from st to x ends the reactions of the row id only, and only   *)
(* if it may; a row that stands has its body, the row id perhaps b.        *)
Fills(st, x, id, ends, b) ==
  /\ \A i \in DOMAIN st : st[i].liked => x[i].liked \/ (i = id /\ ends)
  /\ \A i \in DOMAIN x : ~x[i].deleted =>
       (i \in DOMAIN st /\ x[i].body = st[i].body) \/ (i = id /\ x[i].body = b)

(* A message that is stored fills its row.                                 *)
LEMMA InsertsFill ==
  ASSUME NEW st \in Stores, NEW id \in RowIds, NEW b \in Bodies
  PROVE  /\ Fills(st, InsertMessage(st, id, b), id, FALSE, b)
         /\ id \in DOMAIN InsertMessage(st, id, b)
<1>1. CASE id \in DOMAIN st
  BY <1>1 DEF Fills, InsertMessage
<1>2. CASE id \notin DOMAIN st
  <2>1. PICK row \in StoreRow : row = Fresh(b) /\ row.body = b
    BY Rows DEF Fresh
  <2>2. IsPut(st, id, row, Put(st, id, row))
    BY PutRow
  <2>3. InsertMessage(st, id, b) = Put(st, id, row)
    BY <1>2, <2>1 DEF InsertMessage
  <2> QED BY <1>2, <2>1, <2>2, <2>3 DEF IsPut, Fills
<1> QED BY <1>1, <1>2

(* So does a row of a batch, and of a direct message every one is stored.  *)
LEMMA CatchupFills ==
  ASSUME NEW st \in Stores, NEW r \in BatchRow
  PROVE  /\ Fills(st, StoreCatchup(st, r), r.id, r.deleted, BodyIf(HistoryReads(r.epoch), r))
         /\ kind = "dm" => r.id \in DOMAIN StoreCatchup(st, r)
<1>1. r.id \in RowIds /\ r.body \in Bodies /\ r.deleted \in BOOLEAN /\ NoBody \in Bodies
  BY DEF BatchRow, Bodies, NoBody
<1>2. CASE r.deleted
  <2>1. PICK row \in StoreRow : row = Tombstone /\ row.deleted
    BY Rows DEF Tombstone
  <2>2. IsPut(st, r.id, row, Put(st, r.id, row))
    BY <1>1, PutRow
  <2>3. StoreCatchup(st, r) = Put(st, r.id, row)
    BY <1>2, <2>1 DEF StoreCatchup, UpsertDeletedMessage
  <2> QED BY <1>2, <2>1, <2>2, <2>3 DEF IsPut, Fills
<1>3. CASE ~r.deleted /\ HistoryReads(r.epoch)
  <2>1. StoreCatchup(st, r) = InsertMessage(st, r.id, r.body)
    BY <1>3 DEF StoreCatchup, StoreMessage
  <2> QED BY <1>1, <1>3, <2>1, InsertsFill DEF BodyIf, Fills
<1>4. CASE ~r.deleted /\ ~HistoryReads(r.epoch) /\ kind = "dm"
  <2>1. StoreCatchup(st, r) = InsertMessage(st, r.id, NoBody)
    BY <1>4 DEF StoreCatchup, StoreMessage
  <2> QED BY <1>1, <1>4, <2>1, InsertsFill DEF BodyIf, Fills
<1>5. CASE ~r.deleted /\ ~HistoryReads(r.epoch) /\ kind # "dm"
  <2>1. StoreCatchup(st, r) = st
    BY <1>5 DEF StoreCatchup, StoreMessage
  <2> QED BY <1>5, <2>1 DEF Fills
<1> QED BY <1>2, <1>3, <1>4, <1>5

(* A reaction fills nothing, and ends nothing but itself.                  *)
LEMMA ReactsFills ==
  ASSUME NEW st \in Stores, NEW id, NEW b \in BOOLEAN, NEW y
  PROVE  Fills(st, InsertReaction(st, id, b), id, ~b, y)
<1>1. st \in [DOMAIN st -> StoreRow]
  BY StoreSet
<1>2. CASE id \in DOMAIN st /\ ~st[id].deleted
  <2> DEFINE x == [st EXCEPT ![id].liked = b]
  <2>1. InsertReaction(st, id, b) = x
    BY <1>2 DEF InsertReaction
  <2>2. DOMAIN x = DOMAIN st /\ x[id].body = st[id].body /\ (x[id].liked <=> b)
        /\ \A i \in DOMAIN st \ {id} : x[i] = st[i]
    BY <1>1, <1>2 DEF StoreRow
  <2> HIDE DEF x
  <2> QED BY <2>1, <2>2 DEF Fills
<1>3. CASE ~(id \in DOMAIN st /\ ~st[id].deleted)
  BY <1>3 DEF Fills, InsertReaction
<1> QED BY <1>2, <1>3

(* A reaction of a batch ends none and changes no body.                    *)
LEMMA LikesFill ==
  ASSUME NEW st \in Stores, NEW r, NEW y
  PROVE  Fills(st, StoreLike(st, r), r.id, FALSE, y)
<1>1. StoreLike(st, r) \in {InsertReaction(st, r.id, TRUE), st}
  BY DEF StoreLike
<1>2. Fills(st, st, r.id, FALSE, y)
  BY DEF Fills
<1>3. Fills(st, InsertReaction(st, r.id, TRUE), r.id, FALSE, y)
  BY ReactsFills
<1> QED BY <1>1, <1>2, <1>3

(* A fold from the left, step by step, of StoreCatchup over the rows of a  *)
(* batch.                                                                  *)
LEMMA CatchupSteps ==
  ASSUME NEW st \in Stores, NEW rows \in Seq(BatchRow)
  PROVE  \E f : /\ f \in [0..Len(rows) -> Stores] /\ f[0] = st
                /\ \A k \in 1..Len(rows) : f[k] = StoreCatchup(f[k - 1], rows[k])
                /\ f[Len(rows)] = Seqs!FoldLeft(StoreCatchup, st, rows)
<1>1. PICK n \in Nat : n = Len(rows) /\ DOMAIN rows = 1..n /\ \A k \in 1..n : rows[k] \in BatchRow
  BY LenProperties
<1> DEFINE Eq(h) == h = [s \in SUBSET (1..n) |->
                           IF s = {} THEN st
                           ELSE StoreCatchup(h[s \ {Seqs!Max(s)}], rows[Seqs!Max(s)])]
           G == [k \in 1..n |-> [x \in Stores |-> StoreCatchup(x, rows[k])]]
<1>2. \A x \in Stores : \A k \in 1..n : StoreCatchup(x, rows[k]) \in Stores
  BY <1>1, Catchup DEF Applies
<1>3. \A k \in 1..n : \A x \in Stores : G[k][x] = StoreCatchup(x, rows[k]) /\ G[k][x] \in Stores
  BY <1>2
<1> HIDE DEF G
<1>4. Foldable(n, Stores, st, G)
  BY <1>3 DEF Foldable
<1>5. \E h : Eq(h)
  <2>1. PICK h : FoldOf(n, Stores, st, G, h)
    BY <1>4, FoldExists
  <2>2. \A s \in SUBSET (1..n) : s # {} =>
          Seqs!Max(s) \in 1..n /\ s \ {Seqs!Max(s)} \in SUBSET (1..n)
    BY MaxIsIn
  <2>3. \A s \in SUBSET (1..n) :
          h[s] = IF s = {} THEN st
                 ELSE StoreCatchup(h[s \ {Seqs!Max(s)}], rows[Seqs!Max(s)])
    BY <1>3, <2>1, <2>2 DEF FoldOf
  <2> QED BY <2>1, <2>3 DEF FoldOf
<1>6. PICK h : Eq(h) /\ Seqs!FoldLeft(StoreCatchup, st, rows) = h[1..n]
  <2>1. Seqs!FoldLeft(StoreCatchup, st, rows)
          = LET iter == CHOOSE iter : iter = [s \in SUBSET DOMAIN rows |->
                          IF s = {} THEN st
                          ELSE StoreCatchup(iter[s \ {Seqs!Max(s)}], rows[Seqs!Max(s)])]
            IN  iter[DOMAIN rows]
    BY DEF Seqs!FoldLeft, Seqs!MapThenFoldSet
  <2>2. Seqs!FoldLeft(StoreCatchup, st, rows) = (CHOOSE h : Eq(h))[1..n]
    BY <1>1, <2>1
  <2>3. Eq(CHOOSE h : Eq(h))
    <3> HIDE DEF Eq
    <3> QED BY <1>5
  <2> HIDE DEF Eq
  <2> QED BY <2>2, <2>3
<1>7. h[1..0] = st /\ \A k \in 1..n : h[1..k] = StoreCatchup(h[1..(k - 1)], rows[k])
  <2>1. h[1..0] = st
    BY <1>6
  <2>2. ASSUME NEW k \in 1..n PROVE h[1..k] = StoreCatchup(h[1..(k - 1)], rows[k])
    BY <1>6, Firsts
  <2> QED BY <2>1, <2>2
<1>8. \A k \in 0..n : h[1..k] \in Stores
  <2> DEFINE S == {k \in Nat : k <= n => h[1..k] \in Stores}
  <2>1. 0 \in S
    BY <1>7
  <2>2. ASSUME NEW k \in Nat, k \in S PROVE k + 1 \in S
    <3> SUFFICES ASSUME k + 1 <= n PROVE h[1..(k + 1)] \in Stores
      OBVIOUS
    <3>1. k + 1 \in 1..n /\ (k + 1) - 1 = k /\ h[1..k] \in Stores
      BY <2>2
    <3> QED BY <1>2, <1>7, <3>1
  <2>3. \A k \in 0..n : k \in S
    <3> HIDE DEF S
    <3> QED BY <2>1, <2>2, NatSet
  <2> QED BY <2>3
<1> DEFINE f == [k \in 0..n |-> h[1..k]]
<1>9. /\ f \in [0..n -> Stores] /\ f[0] = st /\ f[n] = h[1..n]
      /\ \A k \in 1..n : f[k] = StoreCatchup(f[k - 1], rows[k])
  BY <1>7, <1>8
<1> HIDE DEF f
<1> QED BY <1>1, <1>6, <1>9

(* The same of StoreLike.                                                  *)
LEMMA LikeSteps ==
  ASSUME NEW st \in Stores, NEW rows \in Seq(BatchRow)
  PROVE  \E f : /\ f \in [0..Len(rows) -> Stores] /\ f[0] = st
                /\ \A k \in 1..Len(rows) : f[k] = StoreLike(f[k - 1], rows[k])
                /\ f[Len(rows)] = Seqs!FoldLeft(StoreLike, st, rows)
<1>1. PICK n \in Nat : n = Len(rows) /\ DOMAIN rows = 1..n /\ \A k \in 1..n : rows[k] \in BatchRow
  BY LenProperties
<1> DEFINE Eq(h) == h = [s \in SUBSET (1..n) |->
                           IF s = {} THEN st
                           ELSE StoreLike(h[s \ {Seqs!Max(s)}], rows[Seqs!Max(s)])]
           G == [k \in 1..n |-> [x \in Stores |-> StoreLike(x, rows[k])]]
<1>2. \A x \in Stores : \A k \in 1..n : StoreLike(x, rows[k]) \in Stores
  BY Likes DEF Applies
<1>3. \A k \in 1..n : \A x \in Stores : G[k][x] = StoreLike(x, rows[k]) /\ G[k][x] \in Stores
  BY <1>2
<1> HIDE DEF G
<1>4. Foldable(n, Stores, st, G)
  BY <1>3 DEF Foldable
<1>5. \E h : Eq(h)
  <2>1. PICK h : FoldOf(n, Stores, st, G, h)
    BY <1>4, FoldExists
  <2>2. \A s \in SUBSET (1..n) : s # {} =>
          Seqs!Max(s) \in 1..n /\ s \ {Seqs!Max(s)} \in SUBSET (1..n)
    BY MaxIsIn
  <2>3. \A s \in SUBSET (1..n) :
          h[s] = IF s = {} THEN st
                 ELSE StoreLike(h[s \ {Seqs!Max(s)}], rows[Seqs!Max(s)])
    BY <1>3, <2>1, <2>2 DEF FoldOf
  <2> QED BY <2>1, <2>3 DEF FoldOf
<1>6. PICK h : Eq(h) /\ Seqs!FoldLeft(StoreLike, st, rows) = h[1..n]
  <2>1. Seqs!FoldLeft(StoreLike, st, rows)
          = LET iter == CHOOSE iter : iter = [s \in SUBSET DOMAIN rows |->
                          IF s = {} THEN st
                          ELSE StoreLike(iter[s \ {Seqs!Max(s)}], rows[Seqs!Max(s)])]
            IN  iter[DOMAIN rows]
    BY DEF Seqs!FoldLeft, Seqs!MapThenFoldSet
  <2>2. Seqs!FoldLeft(StoreLike, st, rows) = (CHOOSE h : Eq(h))[1..n]
    BY <1>1, <2>1
  <2>3. Eq(CHOOSE h : Eq(h))
    <3> HIDE DEF Eq
    <3> QED BY <1>5
  <2> HIDE DEF Eq
  <2> QED BY <2>2, <2>3
<1>7. h[1..0] = st /\ \A k \in 1..n : h[1..k] = StoreLike(h[1..(k - 1)], rows[k])
  <2>1. h[1..0] = st
    BY <1>6
  <2>2. ASSUME NEW k \in 1..n PROVE h[1..k] = StoreLike(h[1..(k - 1)], rows[k])
    BY <1>6, Firsts
  <2> QED BY <2>1, <2>2
<1>8. \A k \in 0..n : h[1..k] \in Stores
  <2> DEFINE S == {k \in Nat : k <= n => h[1..k] \in Stores}
  <2>1. 0 \in S
    BY <1>7
  <2>2. ASSUME NEW k \in Nat, k \in S PROVE k + 1 \in S
    <3> SUFFICES ASSUME k + 1 <= n PROVE h[1..(k + 1)] \in Stores
      OBVIOUS
    <3>1. k + 1 \in 1..n /\ (k + 1) - 1 = k /\ h[1..k] \in Stores
      BY <2>2
    <3> QED BY <1>2, <1>7, <3>1
  <2>3. \A k \in 0..n : k \in S
    <3> HIDE DEF S
    <3> QED BY <2>1, <2>2, NatSet
  <2> QED BY <2>3
<1> DEFINE f == [k \in 0..n |-> h[1..k]]
<1>9. /\ f \in [0..n -> Stores] /\ f[0] = st /\ f[n] = h[1..n]
      /\ \A k \in 1..n : f[k] = StoreLike(f[k - 1], rows[k])
  BY <1>7, <1>8
<1> HIDE DEF f
<1> QED BY <1>1, <1>6, <1>9

(* The row m of the first k deletes i.                                     *)
DeletesBy(rows, k, i) == \E m \in 1..k : rows[m].id = i /\ rows[m].deleted

(* The table x is what the first k rows of a batch make of the table st:   *)
(* nothing leaves it, only their rows enter it, what they delete is        *)
(* deleted and nothing else, and what is deleted is a tombstone.           *)
Kept(st, rows, k, x) ==
  /\ DOMAIN st \subseteq DOMAIN x
  /\ \A i \in DOMAIN x \ DOMAIN st : \E m \in 1..k : rows[m].id = i
  /\ \A i \in DOMAIN x :
       x[i].deleted <=> (i \in DOMAIN st /\ st[i].deleted) \/ DeletesBy(rows, k, i)
  /\ \A m \in 1..k : rows[m].deleted => rows[m].id \in DOMAIN x
  /\ \A i \in DOMAIN x : x[i].deleted => x[i] = Tombstone

(* A table whose deleted rows are tombstones.                              *)
Buried(st) == \A i \in DOMAIN st : st[i].deleted => st[i] = Tombstone

(* One more row.                                                           *)
LEMMA KeptStep ==
  ASSUME NEW st, NEW rows, NEW k \in Nat, NEW x, Kept(st, rows, k, x),
         NEW y, Applies(x, y, rows[k + 1].id, rows[k + 1].deleted),
         rows[k + 1].deleted => rows[k + 1].id \in DOMAIN y
  PROVE  Kept(st, rows, k + 1, y)
<1> DEFINE r == rows[k + 1]
<1>1. 1..(k + 1) = (1..k) \cup {k + 1}
  OBVIOUS
<1>2. \A i : DeletesBy(rows, k + 1, i) <=> DeletesBy(rows, k, i) \/ (r.id = i /\ r.deleted)
  BY <1>1 DEF DeletesBy
<1>3. \A i \in DOMAIN y \ DOMAIN st : \E m \in 1..(k + 1) : rows[m].id = i
  BY <1>1 DEF Kept, Applies
<1>4. DOMAIN st \subseteq DOMAIN y
  BY DEF Kept, Applies
<1>5. ASSUME NEW i \in DOMAIN y
      PROVE  y[i].deleted <=> (i \in DOMAIN st /\ st[i].deleted) \/ DeletesBy(rows, k + 1, i)
  <2>1. CASE i \in DOMAIN x
    BY <1>2, <2>1 DEF Kept, Applies
  <2>2. CASE i \notin DOMAIN x
    <3>1. i \notin DOMAIN st /\ i = r.id /\ (y[i].deleted <=> r.deleted)
      BY <2>2 DEF Kept, Applies
    <3>2. ~DeletesBy(rows, k, i)
      BY <2>2 DEF DeletesBy, Kept
    <3> QED BY <1>2, <3>1, <3>2
  <2> QED BY <2>1, <2>2
<1>6. \A m \in 1..(k + 1) : rows[m].deleted => rows[m].id \in DOMAIN y
  BY <1>1 DEF Kept, Applies
<1>7. \A i \in DOMAIN y : y[i].deleted => y[i] = Tombstone
  BY DEF Kept, Applies
<1> QED BY <1>3, <1>4, <1>5, <1>6, <1>7 DEF Kept

(* Of the table st the first k rows of a batch end the reactions of what   *)
(* they delete only; what stands in the table x they make of it has its    *)
(* body, or that of one of them as it is read; a direct message stores all.*)
Filled(st, rows, k, x) ==
  /\ \A i \in DOMAIN st : st[i].liked => x[i].liked \/ DeletesBy(rows, k, i)
  /\ \A i \in DOMAIN x : ~x[i].deleted =>
       \/ i \in DOMAIN st /\ x[i].body = st[i].body
       \/ \E m \in 1..k :
            rows[m].id = i /\ x[i].body = BodyIf(HistoryReads(rows[m].epoch), rows[m])
  /\ kind = "dm" => \A m \in 1..k : rows[m].id \in DOMAIN x

(* One more row.                                                           *)
LEMMA FilledStep ==
  ASSUME NEW st, NEW rows, NEW k \in Nat, NEW x, Filled(st, rows, k, x), DOMAIN st \subseteq DOMAIN x,
         NEW y, Applies(x, y, rows[k + 1].id, rows[k + 1].deleted),
         Fills(x, y, rows[k + 1].id, rows[k + 1].deleted,
               BodyIf(HistoryReads(rows[k + 1].epoch), rows[k + 1])),
         kind = "dm" => rows[k + 1].id \in DOMAIN y
  PROVE  Filled(st, rows, k + 1, y)
<1>1. 1..(k + 1) = (1..k) \cup {k + 1}
  OBVIOUS
<1>2. \A i : DeletesBy(rows, k, i) => DeletesBy(rows, k + 1, i)
  BY <1>1 DEF DeletesBy
<1>3. rows[k + 1].deleted => DeletesBy(rows, k + 1, rows[k + 1].id)
  BY <1>1 DEF DeletesBy
<1>4. \A i \in DOMAIN st : st[i].liked => y[i].liked \/ DeletesBy(rows, k + 1, i)
  BY <1>2, <1>3 DEF Filled, Fills
<1>5. ASSUME NEW i \in DOMAIN y, ~y[i].deleted
      PROVE  \/ i \in DOMAIN st /\ y[i].body = st[i].body
             \/ \E m \in 1..(k + 1) :
                  rows[m].id = i /\ y[i].body = BodyIf(HistoryReads(rows[m].epoch), rows[m])
  <2>1. CASE i \in DOMAIN x /\ y[i].body = x[i].body
    <3>1. ~x[i].deleted
      BY <1>5, <2>1 DEF Applies
    <3> QED BY <1>1, <2>1, <3>1 DEF Filled
  <2>2. CASE i = rows[k + 1].id /\ y[i].body = BodyIf(HistoryReads(rows[k + 1].epoch), rows[k + 1])
    BY <1>1, <2>2
  <2> QED BY <1>5, <2>1, <2>2 DEF Fills
<1>6. kind = "dm" => \A m \in 1..(k + 1) : rows[m].id \in DOMAIN y
  BY <1>1 DEF Filled, Applies
<1> QED BY <1>4, <1>5, <1>6 DEF Filled

(* What StoreBatch makes of a table.                                       *)
LEMMA BatchStored ==
  ASSUME NEW st \in Stores, Buried(st), NEW rows \in Seq(BatchRow)
  PROVE  /\ StoreBatch(st, rows) \in Stores
         /\ Kept(st, rows, Len(rows), StoreBatch(st, rows))
         /\ Filled(st, rows, Len(rows), StoreBatch(st, rows))
<1> DEFINE kept == Seqs!FoldLeft(StoreCatchup, st, rows)
           all == Seqs!FoldLeft(StoreLike, kept, rows)
<1>1. PICK n \in Nat : n = Len(rows) /\ \A k \in 1..n : rows[k] \in BatchRow
  BY LenProperties
<1>2. kept \in Stores /\ Kept(st, rows, n, kept) /\ Filled(st, rows, n, kept)
  <2>1. PICK f : /\ f \in [0..n -> Stores] /\ f[0] = st
                 /\ \A k \in 1..n : f[k] = StoreCatchup(f[k - 1], rows[k])
                 /\ f[n] = kept
    BY <1>1, CatchupSteps
  <2> HIDE DEF kept, all
  <2> DEFINE S == {k \in Nat : k <= n => Kept(st, rows, k, f[k]) /\ Filled(st, rows, k, f[k])}
  <2>2. 0 \in S
    <3>1. 1..0 = {}
      OBVIOUS
    <3>2. Kept(st, rows, 0, st) /\ Filled(st, rows, 0, st)
      BY <3>1 DEF Kept, DeletesBy, Buried, Filled
    <3> QED BY <2>1, <3>2
  <2>3. ASSUME NEW k \in Nat, k \in S PROVE k + 1 \in S
    <3> SUFFICES ASSUME k + 1 <= n
                 PROVE  Kept(st, rows, k + 1, f[k + 1]) /\ Filled(st, rows, k + 1, f[k + 1])
      OBVIOUS
    <3>1. k + 1 \in 1..n /\ k \in 0..n /\ (k + 1) - 1 = k
      OBVIOUS
    <3>2. f[k + 1] = StoreCatchup(f[k], rows[k + 1]) /\ f[k] \in Stores
      BY <2>1, <3>1
    <3>3. rows[k + 1] \in BatchRow
      BY <1>1, <3>1
    <3>4. Kept(st, rows, k, f[k]) /\ Filled(st, rows, k, f[k]) /\ DOMAIN st \subseteq DOMAIN f[k]
      BY <2>3 DEF Kept
    <3>5. /\ Applies(f[k], f[k + 1], rows[k + 1].id, rows[k + 1].deleted)
          /\ rows[k + 1].deleted => rows[k + 1].id \in DOMAIN f[k + 1]
      BY <3>2, <3>3, Catchup
    <3>6. /\ Fills(f[k], f[k + 1], rows[k + 1].id, rows[k + 1].deleted,
                  BodyIf(HistoryReads(rows[k + 1].epoch), rows[k + 1]))
          /\ kind = "dm" => rows[k + 1].id \in DOMAIN f[k + 1]
      BY <3>2, <3>3, CatchupFills
    <3>7. Kept(st, rows, k + 1, f[k + 1])
      BY <3>4, <3>5, KeptStep
    <3>8. Filled(st, rows, k + 1, f[k + 1])
      BY <3>4, <3>5, <3>6, FilledStep
    <3> QED BY <3>7, <3>8
  <2>4. n \in S
    <3> HIDE DEF S
    <3> QED BY <2>2, <2>3, NatSet
  <2>5. n \in 0..n
    OBVIOUS
  <2> QED BY <2>1, <2>4, <2>5
<1>3. all \in Stores /\ Kept(st, rows, n, all) /\ Filled(st, rows, n, all)
  <2>1. PICK f : /\ f \in [0..n -> Stores] /\ f[0] = kept
                 /\ \A k \in 1..n : f[k] = StoreLike(f[k - 1], rows[k])
                 /\ f[n] = all
    BY <1>1, <1>2, LikeSteps
  <2> HIDE DEF kept, all
  <2> DEFINE S == {k \in Nat : k <= n => Kept(st, rows, n, f[k]) /\ Filled(st, rows, n, f[k])}
  <2>2. 0 \in S
    BY <1>2, <2>1
  <2>3. ASSUME NEW k \in Nat, k \in S PROVE k + 1 \in S
    <3> SUFFICES ASSUME k + 1 <= n
                 PROVE  Kept(st, rows, n, f[k + 1]) /\ Filled(st, rows, n, f[k + 1])
      OBVIOUS
    <3>1. k + 1 \in 1..n /\ k \in 0..n /\ (k + 1) - 1 = k
      OBVIOUS
    <3>2. f[k + 1] = StoreLike(f[k], rows[k + 1]) /\ f[k] \in Stores
      BY <2>1, <3>1
    <3>3. Kept(st, rows, n, f[k]) /\ Filled(st, rows, n, f[k])
      BY <2>3
    <3>4. Applies(f[k], f[k + 1], rows[k + 1].id, FALSE) /\ DOMAIN f[k + 1] = DOMAIN f[k]
      BY <3>2, Likes
    <3>5. \A y : Fills(f[k], f[k + 1], rows[k + 1].id, FALSE, y)
      BY <3>2, LikesFill
    <3>6. Kept(st, rows, n, f[k + 1])
      BY <3>3, <3>4 DEF Kept, Applies
    <3>7. \A i \in DOMAIN st : st[i].liked => f[k + 1][i].liked \/ DeletesBy(rows, n, i)
      <4>1. Fills(f[k], f[k + 1], rows[k + 1].id, FALSE, 0)
        BY <3>5
      <4> QED BY <3>3, <4>1 DEF Fills, Filled, Kept
    <3>8. \A i \in DOMAIN f[k + 1] : ~f[k + 1][i].deleted => f[k + 1][i].body = f[k][i].body
      <4> SUFFICES ASSUME NEW i \in DOMAIN f[k + 1], ~f[k + 1][i].deleted
                   PROVE  f[k + 1][i].body = f[k][i].body
        OBVIOUS
      <4>1. Fills(f[k], f[k + 1], rows[k + 1].id, FALSE, f[k][i].body)
        BY <3>5
      <4> QED BY <4>1 DEF Fills
    <3>9. \A i \in DOMAIN f[k + 1] : ~f[k + 1][i].deleted => ~f[k][i].deleted
      BY <3>4 DEF Applies
    <3>10. Filled(st, rows, n, f[k + 1])
      BY <3>3, <3>4, <3>7, <3>8, <3>9 DEF Filled
    <3> QED BY <3>6, <3>10
  <2>4. n \in S
    <3> HIDE DEF S
    <3> QED BY <2>2, <2>3, NatSet
  <2>5. n \in 0..n
    OBVIOUS
  <2> QED BY <2>1, <2>4, <2>5
<1>4. StoreBatch(st, rows) = all
  BY DEF StoreBatch
<1> QED BY <1>1, <1>3, <1>4

-----------------------------------------------------------------------------
(* Deletions.                                                              *)

(* Frames with rows.                                                       *)
HasRows(f) == f.t \in {"sync_batch", "history_result"}

(* A frame that brings row i as one that stands.                           *)
Brings(f, i) ==
  \/ f.t = "message" /\ f.id = i
  \/ HasRows(f) /\ \E m \in 1..Len(f.rows) : f.rows[m].id = i /\ ~f.rows[m].deleted

(* A frame that deletes row i.                                             *)
Deletes(f, i) ==
  \/ f.t = "deleted" /\ f.id = i
  \/ HasRows(f) /\ DeletesBy(f.rows, Len(f.rows), i)

(* A frame that has the pane mark row i as deleted: the rows of an answer  *)
(* are for the store, and for what the pane has not got.                   *)
Marks(f, i) ==
  \/ f.t = "deleted" /\ f.id = i
  \/ f.t = "sync_batch" /\ DeletesBy(f.rows, Len(f.rows), i)

(* The frames.                                                             *)
FrameTypes == {"message", "edited", "deleted", "reaction", "reaction_removed",
               "epoch_key", "error", "sync_batch", "history_result"}

(* A frame is about messages of the server's rows s, and deletes only what *)
(* is deleted there.                                                       *)
FrameOK(f, s) ==
  /\ f.t \in FrameTypes
  /\ f.t \in {"message", "edited"} => f.id \in DOMAIN s /\ f.body \in Bodies
  /\ HasRows(f) => /\ f.rows \in Seq(BatchRow)
                   /\ \A m \in 1..Len(f.rows) : f.rows[m].id \in DOMAIN s
  /\ \A i : Deletes(f, i) => i \in DOMAIN s /\ s[i].deleted

(* What the client is still to be told of a deleted message i: a row that  *)
(* stands is marked by a frame on the wire, and a frame that brings it     *)
(* back is followed by one that marks it.                                  *)
Owed(i) ==
  /\ i \in DOMAIN store /\ ~store[i].deleted => \E n \in DOMAIN wire : Marks(wire[n], i)
  /\ \A n \in DOMAIN wire : Brings(wire[n], i) =>
       \E m \in DOMAIN wire : n < m /\ Marks(wire[m], i)

(* Only deleted messages are deleted in the table.                         *)
StoreInv ==
  /\ store \in Stores /\ DOMAIN store \subseteq DOMAIN srv /\ Buried(store)
  /\ \A i \in DOMAIN store : store[i].deleted => srv[i].deleted

(* The frames on the wire are about the server's messages, and while there *)
(* is a connection the client is owed every deletion.                      *)
WireInv ==
  /\ \A n \in DOMAIN wire : FrameOK(wire[n], srv)
  /\ link => \A i \in DOMAIN srv : srv[i].deleted => Owed(i)

(* The invariant of deletions.                                             *)
DelInv == srv \in Seq(ServerRow) /\ srvEpoch \in Epochs /\ StoreInv /\ WireInv

(* What a frame says of messages that were never edited is as it is in the *)
(* server's rows s.                                                        *)
Unedited(f, s) == \A i \in DOMAIN s : s[i].body = 0 =>
  /\ f.t = "message" /\ f.id = i => f.epoch = s[i].epoch /\ f.body = 0
  /\ f.t = "edited" => f.id # i
  /\ HasRows(f) => \A m \in 1..Len(f.rows) :
       f.rows[m].id = i => f.rows[m].epoch = s[i].epoch /\ f.rows[m].body = 0

(* The server's rows only grow; deletions and edits stay.                  *)
Grows ==
  /\ DOMAIN srv \subseteq DOMAIN srv'
  /\ \A i \in DOMAIN srv :
       /\ srv[i].deleted => srv'[i].deleted
       /\ srv'[i].body = 0 => srv[i].body = 0 /\ srv'[i].epoch = srv[i].epoch

(* The frame f tells of all that a step of the server deletes, brings      *)
(* nothing that is deleted, and nothing else changes than the server.      *)
Told(f) ==
  /\ srv' \in Seq(ServerRow) /\ srvEpoch' \in Epochs /\ Grows
  /\ UNCHANGED <<kind, link, clientVars, inbox, state, pane>>
  /\ FrameOK(f, srv') /\ Unedited(f, srv')
  /\ f.t = "epoch_key" => kind = "room"
  /\ \A i \in DOMAIN srv' : srv'[i].deleted =>
       /\ ~Brings(f, i)
       /\ (i \in DOMAIN srv /\ srv[i].deleted) \/ Marks(f, i)

(* What is true of a frame stays true as the server goes on.               *)
LEMMA FrameStays ==
  ASSUME NEW f, FrameOK(f, srv), Grows
  PROVE  FrameOK(f, srv') /\ (Unedited(f, srv) => Unedited(f, srv'))
<1>1. FrameOK(f, srv')
  BY DEF FrameOK, Grows
<1>2. ASSUME Unedited(f, srv), NEW i \in DOMAIN srv', srv'[i].body = 0
      PROVE  /\ f.t = "message" /\ f.id = i => f.epoch = srv'[i].epoch /\ f.body = 0
             /\ f.t = "edited" => f.id # i
             /\ HasRows(f) => \A m \in 1..Len(f.rows) :
                  f.rows[m].id = i => f.rows[m].epoch = srv'[i].epoch /\ f.rows[m].body = 0
  <2>1. CASE i \in DOMAIN srv
    BY <1>2, <2>1 DEF Unedited, Grows
  <2>2. CASE i \notin DOMAIN srv
    BY <2>2 DEF FrameOK
  <2> QED BY <2>1, <2>2
<1> QED BY <1>1, <1>2 DEF Unedited

(* The frame is sent, or lost with the connection.                         *)
LEMMA ToldDel ==
  ASSUME DelInv, Queue(wire), NEW f, Emit(f), Told(f)
  PROVE  DelInv'
<1>0. Grows /\ FrameOK(f, srv') /\ UNCHANGED <<store, link>>
  BY DEF Told, clientVars
<1>1. StoreInv'
  BY <1>0 DEF DelInv, StoreInv, Grows, Buried
<1>2. \A n \in DOMAIN wire : FrameOK(wire[n], srv')
  BY <1>0, FrameStays DEF DelInv, WireInv
<1>3. CASE ~link
  <2>1. wire' = wire /\ ~link'
    BY <1>0, <1>3 DEF Emit
  <2>2. \A n \in DOMAIN wire' : FrameOK(wire'[n], srv')
    BY <1>2, <2>1
  <2> QED BY <1>1, <2>1, <2>2 DEF DelInv, WireInv, Told
<1>4. CASE link
  <2>1. PICK S : wire \in Seq(S) /\ f \in S
    <3>1. PICK S : S = {wire[n] : n \in DOMAIN wire} \cup {f}
      OBVIOUS
    <3>2. wire \in Seq(S) /\ f \in S
      BY <3>1 DEF Queue
    <3> QED BY <3>2
  <2>2. PICK l \in Nat : /\ l = Len(wire) /\ DOMAIN wire = 1..l /\ DOMAIN wire' = 1..(l + 1)
                         /\ wire'[l + 1] = f /\ \A n \in 1..l : wire'[n] = wire[n]
    BY <1>4, <2>1, AppendProperties, LenProperties DEF Emit
  <2>3. \A n \in DOMAIN wire' : FrameOK(wire'[n], srv')
    BY <1>0, <1>2, <2>2
  <2>4. ASSUME NEW i \in DOMAIN srv', srv'[i].deleted PROVE Owed(i)'
    <3>0. ~Brings(f, i) /\ ((i \in DOMAIN srv /\ srv[i].deleted) \/ Marks(f, i))
      BY <2>4 DEF Told
    <3>1. CASE i \in DOMAIN srv /\ srv[i].deleted
      <4>1. Owed(i)
        BY <1>4, <3>1 DEF DelInv, WireInv
      <4>3. i \in DOMAIN store' /\ ~store'[i].deleted => \E n \in DOMAIN wire' : Marks(wire'[n], i)
        BY <1>0, <2>2, <4>1 DEF Owed
      <4>4. ASSUME NEW n \in DOMAIN wire', Brings(wire'[n], i)
            PROVE  \E m \in DOMAIN wire' : n < m /\ Marks(wire'[m], i)
        <5>1. n \in 1..l
          BY <2>2, <3>0, <4>4
        <5>2. PICK m \in 1..l : n < m /\ Marks(wire[m], i)
          BY <2>2, <4>1, <4>4, <5>1 DEF Owed
        <5> QED BY <2>2, <5>2
      <4> QED BY <4>3, <4>4 DEF Owed, Brings, Marks, HasRows, DeletesBy
    <3>2. CASE ~(i \in DOMAIN srv /\ srv[i].deleted)
      <4>2. l + 1 \in DOMAIN wire' /\ Marks(wire'[l + 1], i)
        BY <2>2, <3>0, <3>2
      <4>3. ASSUME NEW n \in DOMAIN wire', Brings(wire'[n], i) PROVE n < l + 1
        BY <2>2, <3>0, <4>3
      <4> QED BY <4>2, <4>3 DEF Owed, Brings, Marks, HasRows, DeletesBy
    <3> QED BY <3>1, <3>2
  <2> QED BY <1>1, <2>3, <2>4 DEF DelInv, WireInv, Told
<1> QED BY <1>3, <1>4

(* The server's rows, by their numbers.                                    *)
LEMMA ServerRows ==
  ASSUME srv \in Seq(ServerRow)
  PROVE  /\ Len(srv) \in Nat /\ DOMAIN srv = 1..Len(srv)
         /\ \A i \in DOMAIN srv : srv[i] \in ServerRow
BY LenProperties

(* A row that is changed, and not brought back.                            *)
LEMMA RowChanges ==
  ASSUME srv \in Seq(ServerRow), NEW i \in DOMAIN srv, NEW r \in ServerRow,
         srv' = [srv EXCEPT ![i] = r], srv[i].deleted => r.deleted,
         r.body = 0 => srv[i].body = 0 /\ r.epoch = srv[i].epoch
  PROVE  /\ srv' \in Seq(ServerRow) /\ Grows
         /\ DOMAIN srv' = DOMAIN srv /\ srv'[i] = r
         /\ \A j \in DOMAIN srv \ {i} : srv'[j] = srv[j]
<1>1. PICK n \in Nat : n = Len(srv) /\ DOMAIN srv = 1..n
  BY ServerRows
<1>2. /\ DOMAIN srv' = DOMAIN srv /\ srv'[i] = r
      /\ \A j \in DOMAIN srv \ {i} : srv'[j] = srv[j]
  OBVIOUS
<1>3. \A j \in 1..n : srv'[j] \in ServerRow
  BY <1>1, <1>2, ServerRows
<1>4. srv' = [j \in 1..n |-> srv'[j]]
  BY <1>1
<1>5. srv' \in [1..n -> ServerRow]
  BY <1>3, <1>4
<1>6. srv' \in Seq(ServerRow)
  BY <1>5, SeqDef
<1> QED BY <1>2, <1>6 DEF Grows

(* What the pane marks is deleted in the store.                            *)
LEMMA MarksDelete == \A f, i : Marks(f, i) => Deletes(f, i)
BY DEF Marks, Deletes, HasRows

(* A frame that is not about deletions, and brings no row.                 *)
LEMMA Idle ==
  ASSUME NEW f, f.t \notin {"message", "deleted", "sync_batch", "history_result"}
  PROVE  /\ \A i : ~Brings(f, i) /\ ~Deletes(f, i)
         /\ f.t \in FrameTypes \ {"edited"} => \A s : FrameOK(f, s) /\ Unedited(f, s)
BY DEF Brings, Deletes, HasRows, FrameOK, Unedited

(* A new message.                                                          *)
LEMMA PostTold ==
  ASSUME DelInv, Post
  PROVE  \E f : Emit(f) /\ Told(f)
<1>1. PICK e \in Epochs :
        /\ srv' = Append(srv, [epoch |-> e, body |-> 0, deleted |-> FALSE, liked |-> 0])
        /\ Emit([t |-> "message", id |-> Len(srv) + 1, epoch |-> e, body |-> 0])
        /\ UNCHANGED <<kind, link, clientVars, inbox, state, pane, srvEpoch>>
  BY DEF Post, ServerOnly, paneVars
<1> DEFINE r == [epoch |-> e, body |-> 0, deleted |-> FALSE, liked |-> 0]
           f == [t |-> "message", id |-> Len(srv) + 1, epoch |-> e, body |-> 0]
<1>2. r \in ServerRow /\ r.deleted = FALSE /\ r.epoch = e
  BY DEF ServerRow
<1>3. /\ f.t = "message" /\ f.id = Len(srv) + 1 /\ f.body = 0 /\ f.epoch = e
      /\ \A i : ~Deletes(f, i) /\ (Brings(f, i) => i = f.id)
  BY DEF Deletes, Brings, HasRows
<1>4. srv' = Append(srv, r) /\ Emit(f)
  BY <1>1
<1> HIDE DEF r, f
<1>5. PICK n \in Nat : n = Len(srv) /\ DOMAIN srv = 1..n
  BY ServerRows DEF DelInv
<1>6. /\ srv' \in Seq(ServerRow) /\ DOMAIN srv' = 1..(n + 1) /\ srv'[n + 1] = r
      /\ \A i \in 1..n : srv'[i] = srv[i]
  BY <1>2, <1>4, <1>5, AppendProperties, LenProperties DEF DelInv
<1>7. Grows
  BY <1>5, <1>6 DEF Grows
<1>8. FrameOK(f, srv') /\ Unedited(f, srv')
  BY <1>2, <1>3, <1>5, <1>6 DEF FrameOK, HasRows, Unedited, Bodies, FrameTypes
<1>9. \A i \in DOMAIN srv' : srv'[i].deleted => i \in DOMAIN srv /\ srv[i].deleted /\ ~Brings(f, i)
  BY <1>2, <1>3, <1>5, <1>6
<1>10. Told(f)
  BY <1>1, <1>3, <1>6, <1>7, <1>8, <1>9 DEF Told, DelInv
<1> QED BY <1>4, <1>10

(* An edit, a reaction and its removal leave the deleted alone.            *)
LEMMA ChangeTold ==
  ASSUME DelInv, PostEdit \/ PostReaction \/ PostUnreact
  PROVE  \E f : Emit(f) /\ Told(f)
<1>1. /\ srv \in Seq(ServerRow) /\ srvEpoch \in Epochs
      /\ \A i \in DOMAIN srv : srv[i] \in ServerRow
  BY ServerRows DEF DelInv
<1>2. UNCHANGED <<kind, link, clientVars, inbox, state, pane, srvEpoch>>
  BY DEF PostEdit, PostReaction, PostUnreact, ServerOnly, paneVars
<1> DEFINE Changed(f, i, r) ==
        /\ srv' = [srv EXCEPT ![i] = r] /\ r.deleted = srv[i].deleted /\ Emit(f)
        /\ r.body = 0 => srv[i].body = 0 /\ r.epoch = srv[i].epoch
        /\ f.t \in {"edited", "reaction", "reaction_removed"}
        /\ f.t = "edited" => f.id = i /\ r.body = 1 /\ f.body \in Bodies
<1>3. \E f : \E i \in DOMAIN srv, r \in ServerRow : Changed(f, i, r)
  <2>1. CASE PostEdit
    <3>1. PICK i \in DOMAIN srv, e \in Epochs :
            /\ srv' = [srv EXCEPT ![i] = [@ EXCEPT !.epoch = e, !.body = 1, !.liked = 0]]
            /\ Emit([t |-> "edited", id |-> i, epoch |-> e, body |-> 1])
      BY <1>1, <2>1 DEF PostEdit, ServerRow
    <3> DEFINE r == [srv[i] EXCEPT !.epoch = e, !.body = 1, !.liked = 0]
               f == [t |-> "edited", id |-> i, epoch |-> e, body |-> 1]
    <3>2. r \in ServerRow /\ r.deleted = srv[i].deleted /\ r.body = 1
      <4>1. \A x \in ServerRow : [x EXCEPT !.epoch = e] \in ServerRow
                                  /\ [x EXCEPT !.epoch = e].deleted = x.deleted
        BY DEF ServerRow
      <4>2. \A x \in ServerRow : [x EXCEPT !.body = 1] \in ServerRow
                                  /\ [x EXCEPT !.body = 1].deleted = x.deleted
                                  /\ [x EXCEPT !.body = 1].body = 1
        BY DEF ServerRow
      <4>3. \A x \in ServerRow : [x EXCEPT !.liked = 0] \in ServerRow
                                  /\ [x EXCEPT !.liked = 0].deleted = x.deleted
                                  /\ [x EXCEPT !.liked = 0].body = x.body
        BY DEF ServerRow
      <4>4. r = [[[srv[i] EXCEPT !.epoch = e] EXCEPT !.body = 1] EXCEPT !.liked = 0]
        OBVIOUS
      <4> HIDE DEF r
      <4>5. srv[i] \in ServerRow
        BY <1>1
      <4>6. PICK x \in ServerRow : x = [srv[i] EXCEPT !.epoch = e] /\ x.deleted = srv[i].deleted
        BY <4>1, <4>5
      <4>7. PICK y \in ServerRow : y = [x EXCEPT !.body = 1] /\ y.deleted = x.deleted /\ y.body = 1
        BY <4>2
      <4> QED BY <4>3, <4>4, <4>6, <4>7
    <3>3. f.t = "edited" /\ f.id = i /\ f.body \in Bodies
      BY DEF Bodies
    <3>4. srv' = [srv EXCEPT ![i] = r] /\ Emit(f)
      BY <3>1
    <3> HIDE DEF r, f
    <3>5. Changed(f, i, r)
      BY <3>2, <3>3, <3>4
    <3> HIDE DEF Changed
    <3> QED BY <3>2, <3>5
  <2>2. CASE PostReaction
    <3>1. PICK i \in DOMAIN srv, e \in Epochs :
            /\ srv' = [srv EXCEPT ![i].liked = e]
            /\ Emit([t |-> "reaction", id |-> i, epoch |-> e])
      BY <1>1, <2>2 DEF PostReaction, ServerRow
    <3> DEFINE r == [srv[i] EXCEPT !.liked = e]
               f == [t |-> "reaction", id |-> i, epoch |-> e]
    <3>2. /\ r \in ServerRow /\ r.deleted = srv[i].deleted
          /\ r.body = srv[i].body /\ r.epoch = srv[i].epoch
      BY <1>1 DEF ServerRow, Epochs
    <3>3. f.t = "reaction"
      OBVIOUS
    <3>4. srv' = [srv EXCEPT ![i] = r] /\ Emit(f)
      BY <3>1
    <3> HIDE DEF r, f
    <3> QED BY <3>2, <3>3, <3>4
  <2>3. CASE PostUnreact
    <3>1. PICK i \in DOMAIN srv :
            /\ srv' = [srv EXCEPT ![i].liked = 0]
            /\ Emit([t |-> "reaction_removed", id |-> i])
      BY <2>3 DEF PostUnreact
    <3> DEFINE r == [srv[i] EXCEPT !.liked = 0]
               f == [t |-> "reaction_removed", id |-> i]
    <3>2. /\ r \in ServerRow /\ r.deleted = srv[i].deleted
          /\ r.body = srv[i].body /\ r.epoch = srv[i].epoch
      BY <1>1 DEF ServerRow
    <3>3. f.t = "reaction_removed"
      OBVIOUS
    <3>4. srv' = [srv EXCEPT ![i] = r] /\ Emit(f)
      BY <3>1
    <3> HIDE DEF r, f
    <3> QED BY <3>2, <3>3, <3>4
  <2> QED BY <2>1, <2>2, <2>3
<1>4. PICK f : \E i \in DOMAIN srv, r \in ServerRow : Changed(f, i, r)
  BY <1>3
<1>5. PICK i \in DOMAIN srv, r \in ServerRow : Changed(f, i, r)
  BY <1>4
<1>6. /\ srv' \in Seq(ServerRow) /\ Grows
      /\ DOMAIN srv' = DOMAIN srv /\ srv'[i] = r
      /\ \A j \in DOMAIN srv \ {i} : srv'[j] = srv[j]
  BY <1>1, <1>5, RowChanges
<1>7. \A j : ~Brings(f, j) /\ ~Deletes(f, j)
  BY <1>5, Idle
<1>8. FrameOK(f, srv') /\ Unedited(f, srv')
  BY <1>5, <1>6, <1>7 DEF FrameOK, Unedited, HasRows, FrameTypes
<1>9. \A j \in DOMAIN srv' : srv'[j].deleted => j \in DOMAIN srv /\ srv[j].deleted
  BY <1>5, <1>6
<1>10. Told(f)
  BY <1>1, <1>2, <1>5, <1>6, <1>7, <1>8, <1>9 DEF Told
<1> QED BY <1>5, <1>10

(* A deletion is told.                                                     *)
LEMMA DeleteTold ==
  ASSUME DelInv, PostDelete
  PROVE  \E f : Emit(f) /\ Told(f)
<1>1. /\ srv \in Seq(ServerRow) /\ srvEpoch \in Epochs
      /\ \A i \in DOMAIN srv : srv[i] \in ServerRow
  BY ServerRows DEF DelInv
<1>2. PICK i \in DOMAIN srv :
        /\ srv' = [srv EXCEPT ![i].deleted = TRUE, ![i].liked = 0]
        /\ Emit([t |-> "deleted", id |-> i])
        /\ UNCHANGED <<kind, link, clientVars, inbox, state, pane, srvEpoch>>
  BY DEF PostDelete, ServerOnly, paneVars
<1> DEFINE r == [srv[i] EXCEPT !.deleted = TRUE, !.liked = 0]
           f == [t |-> "deleted", id |-> i]
<1>3. r \in ServerRow /\ r.deleted = TRUE /\ r.body = srv[i].body /\ r.epoch = srv[i].epoch
  <2>1. \A x \in ServerRow : [x EXCEPT !.deleted = TRUE] \in ServerRow
                              /\ [x EXCEPT !.deleted = TRUE].deleted = TRUE
                              /\ [x EXCEPT !.deleted = TRUE].body = x.body
                              /\ [x EXCEPT !.deleted = TRUE].epoch = x.epoch
    BY DEF ServerRow
  <2>2. \A x \in ServerRow : [x EXCEPT !.liked = 0] \in ServerRow
                              /\ [x EXCEPT !.liked = 0].deleted = x.deleted
                              /\ [x EXCEPT !.liked = 0].body = x.body
                              /\ [x EXCEPT !.liked = 0].epoch = x.epoch
    BY DEF ServerRow
  <2>3. r = [[srv[i] EXCEPT !.deleted = TRUE] EXCEPT !.liked = 0]
    OBVIOUS
  <2> HIDE DEF r
  <2>4. PICK x \in ServerRow : /\ x = [srv[i] EXCEPT !.deleted = TRUE] /\ x.deleted = TRUE
                               /\ x.body = srv[i].body /\ x.epoch = srv[i].epoch
    BY <1>1, <2>1
  <2> QED BY <2>2, <2>3, <2>4
<1>4. srv' = [srv EXCEPT ![i] = r] /\ Emit(f)
  BY <1>1, <1>2
<1>5. /\ f.t = "deleted" /\ f.id = i
      /\ \A j : ~Brings(f, j) /\ (Deletes(f, j) <=> j = i) /\ (Marks(f, j) <=> j = i)
  BY DEF Brings, Deletes, HasRows, Marks
<1> HIDE DEF r, f
<1>6. /\ srv' \in Seq(ServerRow) /\ Grows
      /\ DOMAIN srv' = DOMAIN srv /\ srv'[i] = r
      /\ \A j \in DOMAIN srv \ {i} : srv'[j] = srv[j]
  BY <1>1, <1>3, <1>4, RowChanges
<1>7. FrameOK(f, srv') /\ Unedited(f, srv')
  BY <1>3, <1>5, <1>6 DEF FrameOK, HasRows, Unedited, FrameTypes
<1>8. \A j \in DOMAIN srv' : srv'[j].deleted => (j \in DOMAIN srv /\ srv[j].deleted) \/ Marks(f, j)
  BY <1>5, <1>6
<1>9. Told(f)
  BY <1>1, <1>2, <1>5, <1>6, <1>7, <1>8 DEF Told
<1> QED BY <1>4, <1>9

(* The rows of some messages, as the server has them.                      *)
LEMMA FrameOfRows ==
  ASSUME srv \in Seq(ServerRow), NEW ids \in Seq(DOMAIN srv),
         NEW f, HasRows(f), f.rows = RowsOf(ids)
  PROVE  /\ FrameOK(f, srv) /\ Unedited(f, srv)
         /\ \A i : Brings(f, i) => ~srv[i].deleted
         /\ \A n \in 1..Len(ids) : srv[ids[n]].deleted /\ f.t = "sync_batch" => Marks(f, ids[n])
<1>1. PICK n \in Nat : n = Len(ids) /\ DOMAIN ids = 1..n /\ \A m \in 1..n : ids[m] \in DOMAIN srv
  BY LenProperties
<1>2. DOMAIN srv \subseteq RowIds /\ \A i \in DOMAIN srv : srv[i] \in ServerRow
  BY ServerRows DEF RowIds
<1>3. \A i \in DOMAIN srv : /\ RowFrame(i) \in BatchRow /\ RowFrame(i).id = i
                            /\ RowFrame(i).deleted = srv[i].deleted
                            /\ RowFrame(i).epoch = srv[i].epoch /\ RowFrame(i).body = srv[i].body
  BY <1>2 DEF RowFrame, BatchRow, ServerRow
<1>4. f.rows = [m \in 1..n |-> RowFrame(ids[m])]
  BY <1>1 DEF RowsOf
<1>5. f.rows \in [1..n -> BatchRow]
  BY <1>1, <1>3, <1>4
<1>6. f.rows \in Seq(BatchRow) /\ Len(f.rows) = n
  BY <1>5, SeqDef, LenProperties
<1>7. \A m \in 1..n : /\ f.rows[m].id = ids[m] /\ (f.rows[m].deleted <=> srv[ids[m]].deleted)
                      /\ f.rows[m].epoch = srv[ids[m]].epoch /\ f.rows[m].body = srv[ids[m]].body
  BY <1>1, <1>3, <1>4
<1>8. \A i : Brings(f, i) => ~srv[i].deleted
  BY <1>6, <1>7 DEF Brings, HasRows
<1>9. \A i : Deletes(f, i) => i \in DOMAIN srv /\ srv[i].deleted
  BY <1>1, <1>6, <1>7 DEF Deletes, HasRows, DeletesBy
<1>10. \A m \in 1..n : srv[ids[m]].deleted /\ f.t = "sync_batch" => Marks(f, ids[m])
  BY <1>6, <1>7 DEF Marks, DeletesBy
<1>11. FrameOK(f, srv)
  BY <1>1, <1>6, <1>7, <1>9 DEF FrameOK, HasRows, FrameTypes
<1>12. Unedited(f, srv)
  BY <1>6, <1>7 DEF Unedited, HasRows
<1> QED BY <1>1, <1>8, <1>10, <1>11, <1>12

(* A frame that the server composes of its rows as they are.               *)
LEMMA RowsTold ==
  ASSUME DelInv, NEW f, UNCHANGED <<serverVars, link, clientVars, inbox, state, pane>>,
         FrameOK(f, srv), Unedited(f, srv), f.t # "epoch_key",
         \A i \in DOMAIN srv : srv[i].deleted => ~Brings(f, i)
  PROVE  Told(f)
<1>1. Grows
  BY DEF Grows, serverVars
<1> QED BY <1>1 DEF Told, DelInv, serverVars

(* An answer is composed of rows of the server, whatever the cursor.       *)
LEMMA AnswerTold ==
  ASSUME DelInv, Answer
  PROVE  \E f : Emit(f) /\ Told(f)
<1> DEFINE q       == Head(asked)
           older   == Cardinality({i \in DOMAIN srv : i < q.before})
           skipped == IF older > Page THEN older - Page ELSE 0
           ids     == [n \in 1..(older - skipped) |-> skipped + n]
           h       == [t |-> "history_result", corr |-> q.corr, rows |-> RowsOf(ids),
                       more |-> skipped > 0]
           e       == [t |-> "error", corr |-> q.corr]
<1>1. (Emit(h) \/ Emit(e)) /\ UNCHANGED <<serverVars, link, clientVars, inbox, state, pane>>
  BY DEF Answer, paneVars
<1>2. PICK n \in Nat : n = Len(srv) /\ DOMAIN srv = 1..n
  BY ServerRows DEF DelInv
<1>3. older \in 0..n
  <2>1. IsFiniteSet(1..n) /\ Cardinality(1..n) = n
    BY FS_Interval
  <2>2. {i \in DOMAIN srv : i < q.before} \subseteq 1..n
    BY <1>2
  <2> QED BY <2>1, <2>2, FS_Subset, FS_CardinalityType
<1>4. skipped \in 0..older
  BY <1>3, HistoryAssumption
<1>5. ids \in Seq(DOMAIN srv)
  <2> HIDE DEF older, skipped
  <2>1. older - skipped \in Nat /\ \A m \in 1..(older - skipped) : skipped + m \in 1..n
    BY <1>3, <1>4
  <2>2. ids \in [1..(older - skipped) -> DOMAIN srv]
    BY <1>2, <2>1
  <2> QED BY <2>1, <2>2, SeqDef
<1>6. HasRows(h) /\ h.rows = RowsOf(ids) /\ h.t = "history_result"
  BY DEF HasRows
<1>7. e.t = "error"
  OBVIOUS
<1> HIDE DEF ids, h, e
<1>8. FrameOK(h, srv) /\ Unedited(h, srv) /\ \A i : Brings(h, i) => ~srv[i].deleted
  BY <1>5, <1>6, FrameOfRows DEF DelInv
<1>9. FrameOK(e, srv) /\ Unedited(e, srv) /\ \A i : ~Brings(e, i)
  BY <1>7, Idle DEF FrameTypes
<1>10. Told(h) /\ Told(e)
  BY <1>1, <1>6, <1>7, <1>8, <1>9, RowsTold
<1> QED BY <1>1, <1>10

(* A rotation tells of no message.                                         *)
LEMMA RotateTold ==
  ASSUME DelInv, Rotate
  PROVE  \E f : Emit(f) /\ Told(f)
<1> DEFINE f == [t |-> "epoch_key", epoch |-> 2]
<1>1. /\ Emit(f) /\ UNCHANGED <<kind, srv, link, clientVars, inbox, state, pane>>
      /\ srvEpoch' \in Epochs /\ kind = "room"
  BY DEF Rotate, Epochs, paneVars
<1>2. f.t = "epoch_key"
  OBVIOUS
<1> HIDE DEF f
<1>3. FrameOK(f, srv') /\ Unedited(f, srv') /\ \A i : ~Brings(f, i)
  BY <1>2, Idle DEF FrameTypes
<1>4. Grows
  BY <1>1 DEF Grows
<1>5. Told(f)
  BY <1>1, <1>3, <1>4 DEF Told, DelInv
<1> QED BY <1>1, <1>5

(* The steps of the server.                                                *)
Serves == Post \/ PostEdit \/ PostDelete \/ PostReaction \/ PostUnreact \/ Rotate \/ Answer

(* Each of them sends a frame that tells of what it does.                  *)
LEMMA ServesTold ==
  ASSUME DelInv, Serves
  PROVE  \E f : Emit(f) /\ Told(f)
BY PostTold, ChangeTold, DeleteTold, AnswerTold, RotateTold DEF Serves

(* What storing a frame does: nothing leaves the table, what enters it     *)
(* standing the frame brings, and exactly what the frame deletes of the    *)
(* table is deleted by it.                                                 *)
Storing(f, st, x) ==
  /\ x \in Stores /\ Buried(x) /\ DOMAIN st \subseteq DOMAIN x
  /\ \A i \in DOMAIN x : i \notin DOMAIN st => Brings(f, i) \/ Deletes(f, i)
  /\ \A i \in DOMAIN x : i \notin DOMAIN st /\ ~Deletes(f, i) => Brings(f, i)
  /\ \A i \in DOMAIN x :
       x[i].deleted <=> (i \in DOMAIN st /\ st[i].deleted) \/ Deletes(f, i)

(* A step of one row that deletes nothing.                                 *)
LEMMA AppliesStores ==
  ASSUME NEW f, NEW st, Buried(st), NEW x, NEW id, Applies(st, x, id, FALSE),
         \A i : ~Deletes(f, i), Brings(f, id) \/ DOMAIN x = DOMAIN st
  PROVE  Storing(f, st, x)
<1>1. Buried(x)
  BY DEF Buried, Applies
<1> QED BY <1>1 DEF Storing, Applies

(* Storing any frame that is about messages of the server does that.       *)
LEMMA StoredOK ==
  ASSUME NEW f, FrameOK(f, srv), StoreInv, srv \in Seq(ServerRow)
  PROVE  Storing(f, store, Stored(f)) /\ DOMAIN Stored(f) \subseteq DOMAIN srv
<1>1. /\ store \in Stores /\ Buried(store) /\ DOMAIN store \subseteq DOMAIN srv
      /\ DOMAIN srv \subseteq RowIds
  BY ServerRows DEF StoreInv, RowIds
<1>2. Applies(store, store, 0, FALSE)
  BY <1>1, StoreSet DEF Applies, StoreRow
<1>3. CASE f.t = "message"
  <2>1. f.id \in RowIds /\ f.id \in DOMAIN srv /\ f.body \in Bodies /\ NoBody \in Bodies
    BY <1>1, <1>3 DEF FrameOK, Bodies, NoBody
  <2>2. Stored(f) \in {InsertMessage(store, f.id, f.body), InsertMessage(store, f.id, NoBody), store}
    BY <1>3 DEF Stored, StoreLive, StoreMessage
  <2>3. (\A i : ~Deletes(f, i)) /\ Brings(f, f.id)
    BY <1>3 DEF Deletes, Brings, HasRows
  <2>4. CASE Stored(f) = store
    BY <1>1, <1>2, <2>3, <2>4, AppliesStores
  <2>5. CASE Stored(f) # store
    <3>1. Applies(store, Stored(f), f.id, FALSE)
      BY <1>1, <2>1, <2>2, <2>5, Inserts
    <3> QED BY <1>1, <2>1, <2>3, <3>1, AppliesStores DEF Applies
  <2> QED BY <2>4, <2>5
<1>4. CASE f.t = "edited"
  <2>1. Stored(f) \in {UpdateMessageEdited(store, f.id, f.body), store}
    BY <1>4 DEF Stored, StoreEdited
  <2>2. \A i : ~Deletes(f, i)
    BY <1>4 DEF Deletes, HasRows
  <2>3. CASE Stored(f) = store
    BY <1>1, <1>2, <2>2, <2>3, AppliesStores
  <2>4. CASE Stored(f) # store
    <3>1. Stored(f) = Put(store, f.id, Fresh(f.body)) /\ f.id \in DOMAIN store /\ ~store[f.id].deleted
      BY <2>1, <2>4 DEF UpdateMessageEdited
    <3>2. f.body \in Bodies
      BY <1>4 DEF FrameOK
    <3>3. PICK row \in StoreRow : row = Fresh(f.body) /\ ~row.deleted
      BY <3>2, Rows
    <3>4. /\ Stored(f) \in Stores /\ DOMAIN Stored(f) = DOMAIN store
          /\ Stored(f)[f.id] = row /\ \A i \in DOMAIN store \ {f.id} : Stored(f)[i] = store[i]
      <4>1. f.id \in RowIds /\ Stored(f) = Put(store, f.id, row)
        BY <1>1, <3>1, <3>3
      <4>2. DOMAIN store \cup {f.id} = DOMAIN store
        BY <3>1
      <4>3. PICK id \in RowIds : id = f.id
        BY <4>1
      <4>4. store \in Stores
        BY <1>1
      <4>5. IsPut(store, id, row, Put(store, id, row))
        BY <4>4, PutRow
      <4> QED BY <4>1, <4>2, <4>3, <4>5 DEF IsPut
    <3>5. Applies(store, Stored(f), f.id, FALSE)
      BY <3>1, <3>3, <3>4 DEF Applies
    <3> QED BY <1>1, <2>2, <3>4, <3>5, AppliesStores
  <2> QED BY <2>3, <2>4
<1>5. CASE f.t = "deleted"
  <2>1. Stored(f) = IF f.id \in DOMAIN store THEN Put(store, f.id, Tombstone) ELSE store
    BY <1>5 DEF Stored, DeleteMessageInContext
  <2>2. \A i : Deletes(f, i) <=> i = f.id
    BY <1>5 DEF Deletes, HasRows
  <2>3. CASE f.id \in DOMAIN store
    <3>1. PICK row \in StoreRow : row = Tombstone /\ row.deleted
      BY Rows DEF Tombstone
    <3>2. /\ Stored(f) \in Stores /\ DOMAIN Stored(f) = DOMAIN store
          /\ Stored(f)[f.id] = row /\ \A i \in DOMAIN store \ {f.id} : Stored(f)[i] = store[i]
      <4>1. f.id \in RowIds /\ Stored(f) = Put(store, f.id, row)
        BY <1>1, <2>1, <2>3, <3>1
      <4>2. DOMAIN store \cup {f.id} = DOMAIN store
        BY <2>3
      <4>3. PICK id \in RowIds : id = f.id
        BY <4>1
      <4>4. store \in Stores
        BY <1>1
      <4>5. IsPut(store, id, row, Put(store, id, row))
        BY <4>4, PutRow
      <4> QED BY <4>1, <4>2, <4>3, <4>5 DEF IsPut
    <3>3. Buried(Stored(f))
      BY <1>1, <3>1, <3>2 DEF Buried
    <3> QED BY <1>1, <2>2, <3>1, <3>2, <3>3 DEF Storing
  <2>4. CASE f.id \notin DOMAIN store
    BY <1>1, <2>1, <2>2, <2>4 DEF Storing
  <2> QED BY <2>3, <2>4
<1>6. CASE f.t \in {"reaction", "reaction_removed"}
  <2>1. \/ Stored(f) = store
        \/ \E b \in BOOLEAN : Stored(f) = InsertReaction(store, f.id, b)
    BY <1>6 DEF Stored, StoreReaction
  <2>2. \A i : ~Deletes(f, i)
    BY <1>6, Idle
  <2>3. CASE Stored(f) = store
    BY <1>1, <1>2, <2>2, <2>3, AppliesStores
  <2>4. CASE \E b \in BOOLEAN : Stored(f) = InsertReaction(store, f.id, b)
    <3>1. Applies(store, Stored(f), f.id, FALSE) /\ DOMAIN Stored(f) = DOMAIN store
      <4>1. PICK b \in BOOLEAN : Stored(f) = InsertReaction(store, f.id, b)
        BY <2>4
      <4>2. /\ Applies(store, InsertReaction(store, f.id, b), f.id, FALSE)
            /\ DOMAIN InsertReaction(store, f.id, b) = DOMAIN store
        BY <1>1, Reacts
      <4> QED BY <4>1, <4>2
    <3> QED BY <1>1, <2>2, <3>1, AppliesStores
  <2> QED BY <2>1, <2>3, <2>4
<1>7. CASE HasRows(f)
  <2>1. Stored(f) = StoreBatch(store, f.rows)
    BY <1>7 DEF Stored, HasRows
  <2>2. f.rows \in Seq(BatchRow) /\ \A m \in 1..Len(f.rows) : f.rows[m].id \in DOMAIN srv
    BY <1>7 DEF FrameOK
  <2>3. Stored(f) \in Stores /\ Kept(store, f.rows, Len(f.rows), Stored(f))
    BY <1>1, <2>1, <2>2, BatchStored
  <2>4. \A i : Deletes(f, i) <=> DeletesBy(f.rows, Len(f.rows), i)
    BY <1>7 DEF Deletes, HasRows
  <2>5. \A i \in DOMAIN Stored(f) : i \notin DOMAIN store => Brings(f, i) \/ Deletes(f, i)
    BY <1>7, <2>3 DEF Kept, Brings, Deletes, DeletesBy
  <2>6. Storing(f, store, Stored(f))
    BY <2>3, <2>4, <2>5 DEF Storing, Kept, Buried
  <2>7. DOMAIN Stored(f) \subseteq DOMAIN srv
    BY <1>1, <2>2, <2>3 DEF Kept
  <2> QED BY <2>6, <2>7
<1>8. CASE /\ f.t \notin {"message", "edited", "deleted", "reaction", "reaction_removed"}
           /\ ~HasRows(f)
  <2>1. Stored(f) = store
    BY <1>8 DEF Stored, HasRows
  <2>2. \A i : ~Deletes(f, i)
    BY <1>8 DEF Deletes
  <2> QED BY <1>1, <1>2, <2>1, <2>2, AppliesStores
<1> QED BY <1>3, <1>4, <1>5, <1>6, <1>7, <1>8

(* The read loop stores the frame at the head of the wire.                 *)
LEMMA ReadDel ==
  ASSUME DelInv, Queue(wire), Read
  PROVE  DelInv'
<1>1. /\ wire # <<>> /\ wire' = Tail(wire) /\ store' = Stored(Head(wire))
      /\ UNCHANGED <<srv, srvEpoch, link>>
  BY DEF Read, serverVars
<1>2. PICK f : f = Head(wire)
  OBVIOUS
<1>3. PICK l \in Nat : /\ l > 0 /\ DOMAIN wire = 1..l /\ wire[1] = f
                       /\ DOMAIN wire' = 1..(l - 1)
                       /\ \A n \in 1..(l - 1) : wire'[n] = wire[n + 1]
  <2>1. PICK S : wire \in Seq(S)
    BY DEF Queue
  <2>2. /\ Tail(wire) \in Seq(S) /\ Len(wire) \in Nat /\ DOMAIN wire = 1..Len(wire)
        /\ Head(wire) = wire[1] /\ DOMAIN Tail(wire) = 1..(Len(wire) - 1) /\ Len(wire) > 0
        /\ \A n \in 1..(Len(wire) - 1) : Tail(wire)[n] = wire[n + 1]
    BY <1>1, <2>1, HeadTailProperties, LenProperties, EmptySeq
  <2> QED BY <1>1, <1>2, <2>2
<1>4. FrameOK(f, srv) /\ StoreInv /\ srv \in Seq(ServerRow)
  BY <1>3 DEF DelInv, WireInv
<1>5. Storing(f, store, store') /\ DOMAIN store' \subseteq DOMAIN srv
  BY <1>1, <1>2, <1>4, StoredOK
<1>6. StoreInv'
  <2>1. \A i : Deletes(f, i) => i \in DOMAIN srv /\ srv[i].deleted
    BY <1>4 DEF FrameOK
  <2> QED BY <1>1, <1>4, <1>5, <2>1 DEF StoreInv, Storing
<1>7. \A n \in DOMAIN wire' : FrameOK(wire'[n], srv')
  <2>1. \A n \in 1..(l - 1) : n + 1 \in 1..l
    OBVIOUS
  <2> QED BY <1>1, <1>3, <2>1 DEF DelInv, WireInv
<1>8. ASSUME link', NEW i \in DOMAIN srv', srv'[i].deleted PROVE Owed(i)'
  <2>1. Owed(i)
    BY <1>1, <1>8 DEF DelInv, WireInv
  <2>2. ASSUME NEW m \in DOMAIN wire, m > 1, Marks(wire[m], i)
        PROVE  m - 1 \in DOMAIN wire' /\ Marks(wire'[m - 1], i)
    <3>1. m - 1 \in 1..(l - 1) /\ (m - 1) + 1 = m
      BY <1>3, <2>2
    <3> QED BY <1>3, <2>2, <3>1
  <2>3. ASSUME i \in DOMAIN store', ~store'[i].deleted
        PROVE  \E n \in DOMAIN wire' : Marks(wire'[n], i)
    <3>1. ~Marks(f, i) /\ ((i \in DOMAIN store /\ ~store[i].deleted) \/ Brings(f, i))
      BY <1>5, <2>3, MarksDelete DEF Storing
    <3>2. 1 \in DOMAIN wire
      BY <1>3
    <3>3. PICK m \in DOMAIN wire : m > 1 /\ Marks(wire[m], i)
      <4>1. CASE Brings(f, i)
        BY <1>3, <2>1, <3>2, <4>1 DEF Owed
      <4>2. CASE i \in DOMAIN store /\ ~store[i].deleted
        <5>1. PICK m \in DOMAIN wire : Marks(wire[m], i)
          BY <2>1, <4>2 DEF Owed
        <5>2. m # 1
          BY <1>3, <3>1, <5>1
        <5>3. m > 1
          BY <1>3, <5>2
        <5> QED BY <5>1, <5>3
      <4> QED BY <3>1, <4>1, <4>2
    <3> QED BY <2>2, <3>3
  <2>4. ASSUME NEW n \in DOMAIN wire', Brings(wire'[n], i)
        PROVE  \E m \in DOMAIN wire' : n < m /\ Marks(wire'[m], i)
    <3>1. n \in 1..(l - 1) /\ n + 1 \in DOMAIN wire /\ Brings(wire[n + 1], i)
      BY <1>3, <2>4
    <3>2. PICK m \in DOMAIN wire : n + 1 < m /\ Marks(wire[m], i)
      BY <2>1, <3>1 DEF Owed
    <3>3. m > 1 /\ n < m - 1
      BY <1>3, <3>1, <3>2
    <3> QED BY <2>2, <3>2, <3>3
  <2> QED BY <2>3, <2>4 DEF Owed, Brings, Marks, HasRows, DeletesBy
<1> QED BY <1>1, <1>4, <1>6, <1>7, <1>8 DEF DelInv, WireInv

(* A connect sends every row as it is: whatever was missed is on the wire. *)
LEMMA ConnectDel ==
  ASSUME DelInv, Connect
  PROVE  DelInv'
<1> DEFINE all == [i \in DOMAIN srv |-> i]
           k   == [t |-> "epoch_key", epoch |-> srvEpoch]
           b   == [t |-> "sync_batch", rows |-> RowsOf(all)]
<1>1. /\ wire' = (IF kind = "room" THEN <<k>> ELSE <<>>) \o <<b>>
      /\ UNCHANGED <<srv, srvEpoch, store>>
  BY DEF Connect, serverVars
<1>2. PICK n \in Nat : n = Len(srv) /\ DOMAIN srv = 1..n
  BY ServerRows DEF DelInv
<1>3. /\ all \in Seq(DOMAIN srv) /\ Len(all) = n
      /\ \A i \in DOMAIN srv : all[i] = i
  <2>1. all \in [1..n -> DOMAIN srv]
    BY <1>2
  <2> QED BY <1>2, <2>1, SeqDef, LenProperties
<1>4. HasRows(b) /\ b.rows = RowsOf(all) /\ b.t = "sync_batch" /\ k.t = "epoch_key"
  BY DEF HasRows
<1> HIDE DEF all, k, b
<1>5. /\ FrameOK(b, srv)
      /\ \A i : Brings(b, i) => ~srv[i].deleted
      /\ \A i \in DOMAIN srv : srv[i].deleted => Marks(b, i)
  BY <1>2, <1>3, <1>4, FrameOfRows DEF DelInv
<1>6. FrameOK(k, srv) /\ \A i : ~Brings(k, i)
  BY <1>4, Idle DEF FrameTypes
<1>7. (\A m \in DOMAIN wire' : wire'[m] \in {k, b}) /\ \E m \in DOMAIN wire' : wire'[m] = b
  <2>1. CASE kind = "room"
    <3>1. <<k>> \in Seq({k, b}) /\ <<b>> \in Seq({k, b}) /\ wire' = <<k>> \o <<b>>
      BY <1>1, <2>1
    <3>2. Len(<<k>>) = 1 /\ Len(<<b>>) = 1 /\ <<k>>[1] = k /\ <<b>>[1] = b
      OBVIOUS
    <3>3. wire' \in Seq({k, b}) /\ Len(wire') = 2 /\ wire'[1] = k /\ wire'[2] = b
      <4>1. /\ Len(<<k>> \o <<b>>) = Len(<<k>>) + Len(<<b>>) /\ <<k>> \o <<b>> \in Seq({k, b})
            /\ \A i \in 1..(Len(<<k>>) + Len(<<b>>)) :
                 (<<k>> \o <<b>>)[i] = IF i <= Len(<<k>>) THEN <<k>>[i] ELSE <<b>>[i - Len(<<k>>)]
        BY <3>1, ConcatProperties
      <4> QED BY <3>1, <3>2, <4>1
    <3> QED BY <3>3, LenProperties
  <2>2. CASE kind # "room"
    <3>1. wire' = <<b>>
      BY <1>1, <2>2
    <3> QED BY <3>1
  <2> QED BY <2>1, <2>2
<1>8. \A m \in DOMAIN wire' : FrameOK(wire'[m], srv')
  BY <1>1, <1>5, <1>6, <1>7
<1>9. ASSUME NEW i \in DOMAIN srv', srv'[i].deleted PROVE Owed(i)'
  <2>1. \E m \in DOMAIN wire' : Marks(wire'[m], i)
    BY <1>1, <1>5, <1>7, <1>9
  <2>2. \A m \in DOMAIN wire' : ~Brings(wire'[m], i)
    BY <1>1, <1>5, <1>6, <1>7, <1>9
  <2> QED BY <2>1, <2>2 DEF Owed, Brings, Marks, HasRows, DeletesBy
<1>10. StoreInv'
  BY <1>1 DEF DelInv, StoreInv, Buried
<1> QED BY <1>1, <1>8, <1>9, <1>10 DEF DelInv, WireInv

(* A step that leaves the messages, the frames and the connection alone.   *)
LEMMA StillDel ==
  ASSUME DelInv, UNCHANGED <<srv, srvEpoch, store, wire, link>>
  PROVE  DelInv'
BY DEF DelInv, StoreInv, WireInv, Buried, Owed, Brings, Marks, HasRows, DeletesBy

(* A connection that ends loses its frames.                                *)
LEMMA CutDel ==
  ASSUME DelInv, Cut, UNCHANGED <<srv, srvEpoch, store>>
  PROVE  DelInv'
<1>1. link' = FALSE /\ wire' = <<>>
  BY DEF Cut
<1>2. DOMAIN wire' = {}
  BY <1>1
<1> QED BY <1>1, <1>2 DEF DelInv, StoreInv, WireInv, Buried

(* Every step keeps the invariant of deletions.                            *)
LEMMA StepDel ==
  ASSUME IInv, DelInv, [Next]_vars
  PROVE  DelInv'
<1>1. Queue(wire)
  BY DEF IInv
<1>2. CASE \/ AdoptStashed \/ Sweep \/ Resend \/ Handle \/ PressUp \/ HandleRequest
           \/ Switch \/ Lost \/ Connected
  <2>1. UNCHANGED <<srv, srvEpoch, store, wire, link>>
    BY <1>2 DEF AdoptStashed, Sweep, Resend, Handle, PressUp, HandleRequest, Switch, Lost,
                Connected, serverVars, clientVars
  <2> QED BY <2>1, StillDel
<1>3. CASE Drop \/ GoOffline
  <2>1. Cut /\ UNCHANGED <<srv, srvEpoch, store>>
    BY <1>3 DEF Drop, GoOffline, serverVars, clientVars
  <2> QED BY <2>1, CutDel
<1>4. CASE UNCHANGED vars
  <2>1. UNCHANGED <<srv, srvEpoch, store, wire, link>>
    BY <1>4 DEF vars, serverVars, clientVars
  <2> QED BY <2>1, StillDel
<1>5. CASE Serves
  BY <1>1, <1>5, ServesTold, ToldDel
<1> QED BY <1>1, <1>2, <1>3, <1>4, <1>5, ReadDel, ConnectDel DEF Next, Serves

(* It holds when the program starts.                                       *)
LEMMA InitDel ==
  ASSUME Init
  PROVE  DelInv
<1>1. /\ srv = <<>> /\ store = <<>> /\ wire = <<>> /\ link = FALSE /\ srvEpoch = 1
      /\ DOMAIN <<>> = {}
  BY DEF Init
<1>2. store \in Stores
  <2>1. store \in [{} -> StoreRow]
    BY <1>1
  <2> QED BY <1>1, <2>1 DEF Stores
<1>3. srv \in Seq(ServerRow)
  BY <1>1, EmptySeq
<1> QED BY <1>1, <1>2, <1>3 DEF DelInv, StoreInv, WireInv, Buried, Epochs

(* The invariant of deletions holds of every behaviour.                    *)
THEOREM DeletionsOwed == Spec => []DelInv
<1>1. IInv /\ DelInv /\ [Next]_vars => DelInv'
  BY StepDel
<1>2. Init => DelInv
  BY InitDel
<1> QED BY <1>1, <1>2, Inductive, PTL DEF Spec

(* The invariant of deletions when every frame is read.                    *)
LEMMA DelDrained == DelInv => DeletedForAll
<1> SUFFICES ASSUME DelInv, Drained, NEW i \in DOMAIN store
             PROVE  /\ store[i].deleted = srv[i].deleted
                    /\ store[i].deleted => store[i] = Tombstone
  BY DEF DeletedForAll
<1>1. link /\ wire = <<>> /\ DOMAIN <<>> = {}
  BY DEF Drained
<1>2. i \in DOMAIN srv /\ store[i].deleted \in BOOLEAN /\ srv[i].deleted \in BOOLEAN
  <2>1. i \in DOMAIN srv /\ srv[i] \in ServerRow
    BY ServerRows DEF DelInv, StoreInv
  <2>2. store[i] \in StoreRow
    BY StoreSet DEF DelInv, StoreInv
  <2> QED BY <2>1, <2>2 DEF ServerRow, StoreRow
<1>3. store[i].deleted => srv[i].deleted /\ store[i] = Tombstone
  BY DEF DelInv, StoreInv, Buried
<1>4. srv[i].deleted => store[i].deleted
  BY <1>1, <1>2 DEF DelInv, WireInv, Owed
<1> QED BY <1>2, <1>3, <1>4

(* In every behaviour, once the client has read every frame a row is       *)
(* deleted exactly when the server has deleted it.                         *)
THEOREM DeletedEverywhere == Spec => []DeletedForAll
BY DelDrained, DeletionsOwed, PTL
-----------------------------------------------------------------------------
(* What a frame makes of the table, row by row.                            *)

(* A frame with a row i.                                                   *)
Carries(f, i) ==
  \/ f.t = "message" /\ f.id = i
  \/ HasRows(f) /\ \E m \in 1..Len(f.rows) : f.rows[m].id = i

(* A frame has the body b for message i, as this client reads it.          *)
Reads(f, i, b) ==
  \/ f.t = "message" /\ f.id = i /\ b = BodyIf(LiveReads(f.epoch), f)
  \/ HasRows(f) /\ \E m \in 1..Len(f.rows) :
       f.rows[m].id = i /\ b = BodyIf(HistoryReads(f.rows[m].epoch), f.rows[m])

(* A frame at whose handling the pane looks at the reactions of row i, or  *)
(* drops them.                                                             *)
Rereads(f, i) ==
  \/ Marks(f, i)
  \/ f.t \in {"reaction", "reaction_removed"} /\ f.id = i
  \/ f.t = "edited" /\ f.id = i /\ LiveReads(f.epoch)

(* A frame makes the table x of the table st: a reaction ends when the     *)
(* pane is to look at it, or with the row; a body is that of the table, an *)
(* edit or the frame; of a direct message every row is stored.             *)
Filling(f, st, x) ==
  /\ \A i \in DOMAIN st : st[i].liked => x[i].liked \/ Rereads(f, i) \/ Deletes(f, i)
  /\ \A i \in DOMAIN x : ~x[i].deleted =>
       \/ i \in DOMAIN st /\ x[i].body = st[i].body
       \/ f.t = "edited" /\ f.id = i
       \/ Reads(f, i, x[i].body)
  /\ kind = "dm" => \A i : Carries(f, i) => i \in DOMAIN x

(* Storing any frame does that.                                            *)
LEMMA FilledOK ==
  ASSUME NEW f, FrameOK(f, srv), StoreInv, srv \in Seq(ServerRow)
  PROVE  Filling(f, store, Stored(f))
<1>1. /\ store \in Stores /\ DOMAIN store \subseteq DOMAIN srv /\ DOMAIN srv \subseteq RowIds
      /\ NoBody \in Bodies
  BY ServerRows DEF StoreInv, RowIds, NoBody, Bodies
<1>2. CASE f.t = "message"
  <2>1. f.id \in RowIds /\ f.body \in Bodies
    BY <1>1, <1>2 DEF FrameOK
  <2>2. \A i : Carries(f, i) <=> i = f.id
    BY <1>2 DEF Carries, HasRows
  <2>3. CASE LiveReads(f.epoch)
    <3>1. Stored(f) = InsertMessage(store, f.id, f.body)
      BY <1>2, <2>3 DEF Stored, StoreLive, StoreMessage
    <3>2. Fills(store, Stored(f), f.id, FALSE, f.body) /\ f.id \in DOMAIN Stored(f)
      BY <1>1, <2>1, <3>1, InsertsFill
    <3> QED BY <1>2, <2>2, <2>3, <3>2 DEF Filling, Fills, Reads, BodyIf
  <2>4. CASE ~LiveReads(f.epoch) /\ kind # "group"
    <3>1. Stored(f) = InsertMessage(store, f.id, NoBody)
      BY <1>2, <2>4 DEF Stored, StoreLive, StoreMessage
    <3>2. Fills(store, Stored(f), f.id, FALSE, NoBody) /\ f.id \in DOMAIN Stored(f)
      BY <1>1, <2>1, <3>1, InsertsFill
    <3> QED BY <1>2, <2>2, <2>4, <3>2 DEF Filling, Fills, Reads, BodyIf
  <2>5. CASE ~LiveReads(f.epoch) /\ kind = "group"
    <3>1. Stored(f) = store
      BY <1>2, <2>5 DEF Stored, StoreLive, StoreMessage
    <3> QED BY <2>5, <3>1 DEF Filling
  <2> QED BY <2>3, <2>4, <2>5
<1>3. CASE f.t = "edited"
  <2>1. \A i : ~Carries(f, i)
    BY <1>3 DEF Carries, HasRows
  <2>2. CASE LiveReads(f.epoch) /\ f.id \in DOMAIN store /\ ~store[f.id].deleted
    <3>1. PICK row \in StoreRow : row = Fresh(f.body)
      BY <1>3, Rows DEF FrameOK
    <3>2. Stored(f) = Put(store, f.id, row)
      BY <1>3, <2>2, <3>1 DEF Stored, StoreEdited, UpdateMessageEdited
    <3>3. PICK id \in RowIds : id = f.id
      BY <1>1, <2>2
    <3>4. IsPut(store, id, row, Stored(f))
      BY <1>1, <3>2, <3>3, PutRow
    <3> QED BY <1>3, <2>1, <2>2, <3>3, <3>4 DEF Filling, IsPut, Rereads
  <2>3. CASE ~(LiveReads(f.epoch) /\ f.id \in DOMAIN store /\ ~store[f.id].deleted)
    <3>1. Stored(f) = store
      BY <1>3, <2>3 DEF Stored, StoreEdited, UpdateMessageEdited
    <3> QED BY <2>1, <3>1 DEF Filling
  <2> QED BY <2>2, <2>3
<1>4. CASE f.t = "deleted"
  <2>1. \A i : ~Carries(f, i) /\ (Deletes(f, i) <=> i = f.id)
    BY <1>4 DEF Carries, Deletes, HasRows
  <2>2. CASE f.id \in DOMAIN store
    <3>1. PICK row \in StoreRow : row = Tombstone /\ row.deleted
      BY Rows DEF Tombstone
    <3>2. Stored(f) = Put(store, f.id, row)
      BY <1>4, <2>2, <3>1 DEF Stored, DeleteMessageInContext
    <3>3. PICK id \in RowIds : id = f.id
      BY <1>1, <2>2
    <3>4. IsPut(store, id, row, Stored(f))
      BY <1>1, <3>2, <3>3, PutRow
    <3> QED BY <2>1, <2>2, <3>1, <3>3, <3>4 DEF Filling, IsPut
  <2>3. CASE f.id \notin DOMAIN store
    <3>1. Stored(f) = store
      BY <1>4, <2>3 DEF Stored, DeleteMessageInContext
    <3> QED BY <2>1, <3>1 DEF Filling
  <2> QED BY <2>2, <2>3
<1>5. CASE f.t \in {"reaction", "reaction_removed"}
  <2>1. (\A i : ~Carries(f, i)) /\ Rereads(f, f.id)
    BY <1>5 DEF Carries, HasRows, Rereads
  <2>2. \/ Stored(f) = store
        \/ \E b \in BOOLEAN : Stored(f) = InsertReaction(store, f.id, b)
    BY <1>5 DEF Stored, StoreReaction
  <2>3. CASE Stored(f) = store
    BY <2>1, <2>3 DEF Filling
  <2>4. CASE \E b \in BOOLEAN : Stored(f) = InsertReaction(store, f.id, b)
    <3>1. PICK b \in BOOLEAN : Stored(f) = InsertReaction(store, f.id, b)
      BY <2>4
    <3>2. \A y : Fills(store, Stored(f), f.id, ~b, y)
      BY <1>1, <3>1, ReactsFills
    <3>3. \A i \in DOMAIN store : store[i].liked => Stored(f)[i].liked \/ Rereads(f, i)
      <4>1. Fills(store, Stored(f), f.id, ~b, 0)
        BY <3>2
      <4> QED BY <2>1, <4>1 DEF Fills
    <3>4. ASSUME NEW i \in DOMAIN Stored(f), ~Stored(f)[i].deleted
          PROVE  i \in DOMAIN store /\ Stored(f)[i].body = store[i].body
      <4>1. Fills(store, Stored(f), f.id, ~b, store[i].body)
        BY <3>2
      <4>2. DOMAIN InsertReaction(store, f.id, b) = DOMAIN store
        BY <1>1, Reacts
      <4> QED BY <3>1, <3>4, <4>1, <4>2 DEF Fills
    <3> QED BY <2>1, <3>3, <3>4 DEF Filling
  <2> QED BY <2>2, <2>3, <2>4
<1>6. CASE HasRows(f)
  <2>1. Stored(f) = StoreBatch(store, f.rows)
    BY <1>6 DEF Stored, HasRows
  <2>2. f.rows \in Seq(BatchRow) /\ Buried(store)
    BY <1>6 DEF FrameOK, StoreInv
  <2>3. Filled(store, f.rows, Len(f.rows), Stored(f))
    BY <1>1, <2>1, <2>2, BatchStored
  <2>4. \A i : Deletes(f, i) <=> DeletesBy(f.rows, Len(f.rows), i)
    BY <1>6 DEF Deletes, HasRows
  <2>5. \A i : Carries(f, i) <=> \E m \in 1..Len(f.rows) : f.rows[m].id = i
    BY <1>6 DEF Carries, HasRows
  <2>6. \A i, b : (\E m \in 1..Len(f.rows) :
                     f.rows[m].id = i /\ b = BodyIf(HistoryReads(f.rows[m].epoch), f.rows[m]))
                  => Reads(f, i, b)
    BY <1>6 DEF Reads
  <2> QED BY <2>3, <2>4, <2>5, <2>6 DEF Filling, Filled
<1>7. CASE /\ f.t \notin {"message", "edited", "deleted", "reaction", "reaction_removed"}
           /\ ~HasRows(f)
  <2>1. Stored(f) = store
    BY <1>7 DEF Stored, HasRows
  <2>2. \A i : ~Carries(f, i)
    BY <1>7 DEF Carries
  <2> QED BY <2>1, <2>2 DEF Filling
<1> QED BY <1>2, <1>3, <1>4, <1>5, <1>6, <1>7

-----------------------------------------------------------------------------
(* The pane.                                                               *)

(* The rows of the pane, of whatever messages.                             *)
DisplayRow == [id : RowIds, body : Bodies, deleted : BOOLEAN, liked : BOOLEAN]

(* The body of a message of a group or a direct message that was never     *)
(* edited, as this client reads it.                                        *)
Plain(e) == IF e = 1 THEN 0 ELSE NoBody

(* Outside rooms the keys are fixed, and so is what an unedited row reads. *)
PlainInv == kind # "room" =>
  /\ adopted = {1} /\ stashed = 0
  /\ \A f \in Seqs!ToSet(wire) : f.t # "epoch_key" /\ Unedited(f, srv)
  /\ \A f \in Seqs!ToSet(inbox) : Unedited(f, srv)
  /\ \A i \in DOMAIN store :
       srv[i].body = 0 /\ ~store[i].deleted => store[i].body = Plain(srv[i].epoch)

(* A frame of the queue s marks row i.                                     *)
MarkedBy(s, i) == \E f \in Seqs!ToSet(s) : Marks(f, i)

(* The frames the TUI has yet to handle, none without a connection: what   *)
(* brings a deleted message back is followed by what marks it, and of a    *)
(* direct message their rows are stored.                                   *)
InboxInv ==
  /\ state = "Offline" => inbox = <<>> /\ ~link
  /\ ~link => wire = <<>>
  /\ \A f \in Seqs!ToSet(inbox) :
       /\ FrameOK(f, srv) /\ f.t # "epoch_key"
       /\ kind = "dm" => \A i : Carries(f, i) => i \in DOMAIN store
  /\ link => \A i \in DOMAIN srv : srv[i].deleted =>
       \A n \in DOMAIN inbox : Brings(inbox[n], i) =>
         MarkedBy(wire, i) \/ \E m \in DOMAIN inbox : n < m /\ Marks(inbox[m], i)

(* A deletion of i is on its way to the pane.                              *)
Due(i) == MarkedBy(inbox, i) \/ MarkedBy(wire, i)

(* The pane is to look at the reactions of i again.                        *)
DueLikes(i) == Due(i) \/ \E f \in Seqs!ToSet(inbox) : Rereads(f, i)

(* What a row of the pane says at any time: never more than the server of  *)
(* a deletion, and outside rooms the body as sent.                         *)
RowData(m) ==
  /\ m \in DisplayRow /\ m.id \in DOMAIN srv
  /\ m.deleted => srv[m.id].deleted
  /\ kind = "dm" => m.id \in DOMAIN store
  /\ kind # "room" /\ srv[m.id].body = 0 =>
       m.body = IF m.deleted THEN NoBody ELSE Plain(srv[m.id].epoch)
  /\ m.liked => m.id \in DOMAIN store

(* What a row of the pane lacks is yet to be told to the TUI.              *)
RowDue(m) ==
  /\ srv[m.id].deleted => m.deleted \/ Due(m.id)
  /\ m.liked => store[m.id].liked \/ DueLikes(m.id)

(* A row of the pane is right; offline it may lack what was missed.        *)
RowOK(m) == RowData(m) /\ (link /\ state = "Online" => RowDue(m))

(* A message is in a pane once.                                            *)
Once(p) == \A m, n \in DOMAIN p : p[m].id = p[n].id => m = n

(* The invariant of the pane.                                              *)
RowsInv ==
  pane \in Seq(DisplayRow) /\ Once(pane) /\ \A m \in Seqs!ToSet(pane) : RowOK(m)

(* The invariant of what is shown.                                         *)
ShownInv == PlainInv /\ InboxInv /\ RowsInv

(* The members of a queue that gets longer.                                *)
LEMMA InAppended ==
  ASSUME NEW s, Queue(s), NEW x
  PROVE  Seqs!ToSet(Append(s, x)) = Seqs!ToSet(s) \cup {x}
<1>1. PICK S : S = {s[n] : n \in DOMAIN s} \cup {x}
  OBVIOUS
<1>2. s \in Seq(S) /\ x \in S
  BY <1>1 DEF Queue
<1>3. /\ Len(s) \in Nat /\ DOMAIN s = 1..Len(s)
      /\ DOMAIN Append(s, x) = 1..(Len(s) + 1)
      /\ Append(s, x)[Len(s) + 1] = x
      /\ \A n \in 1..Len(s) : Append(s, x)[n] = s[n]
  BY <1>2, AppendProperties, LenProperties
<1>4. 1..(Len(s) + 1) = 1..Len(s) \cup {Len(s) + 1}
  BY <1>3
<1> QED BY <1>3, <1>4 DEF Seqs!ToSet

(* The members of a queue whose first one is taken.                        *)
LEMMA InTaken ==
  ASSUME NEW s, Queue(s), s # <<>>
  PROVE  \E l \in Nat : /\ l > 0 /\ DOMAIN s = 1..l /\ s[1] = Head(s)
                        /\ DOMAIN Tail(s) = 1..(l - 1)
                        /\ \A n \in 1..(l - 1) : Tail(s)[n] = s[n + 1]
                        /\ Seqs!ToSet(s) = Seqs!ToSet(Tail(s)) \cup {Head(s)}
<1>1. PICK S : s \in Seq(S)
  BY DEF Queue
<1>2. PICK l \in Nat : /\ l > 0 /\ DOMAIN s = 1..l /\ s[1] = Head(s)
                       /\ DOMAIN Tail(s) = 1..(l - 1)
                       /\ \A n \in 1..(l - 1) : Tail(s)[n] = s[n + 1]
  BY <1>1, HeadTailProperties, LenProperties, EmptySeq
<1>3. \A n \in 1..l : n = 1 \/ (n - 1 \in 1..(l - 1) /\ (n - 1) + 1 = n)
  OBVIOUS
<1>4. \A n \in 1..(l - 1) : n + 1 \in 1..l
  OBVIOUS
<1>5. 1 \in 1..l
  BY <1>2
<1>6. Seqs!ToSet(s) = Seqs!ToSet(Tail(s)) \cup {Head(s)}
  <2>1. ASSUME NEW x \in Seqs!ToSet(s) PROVE x \in Seqs!ToSet(Tail(s)) \cup {Head(s)}
    <3>1. PICK n \in 1..l : x = s[n]
      BY <1>2, <2>1 DEF Seqs!ToSet
    <3>2. CASE n = 1
      BY <1>2, <3>1, <3>2
    <3>3. CASE n # 1
      <4>1. n - 1 \in 1..(l - 1) /\ (n - 1) + 1 = n
        BY <1>3, <3>3
      <4>2. Tail(s)[n - 1] = x /\ n - 1 \in DOMAIN Tail(s)
        BY <1>2, <3>1, <4>1
      <4> QED BY <4>2 DEF Seqs!ToSet
    <3> QED BY <3>2, <3>3
  <2>2. ASSUME NEW x \in Seqs!ToSet(Tail(s)) PROVE x \in Seqs!ToSet(s)
    BY <1>2, <1>4, <2>2 DEF Seqs!ToSet
  <2>3. Head(s) \in Seqs!ToSet(s)
    BY <1>2, <1>5 DEF Seqs!ToSet
  <2> QED BY <2>1, <2>2, <2>3
<1> QED BY <1>2, <1>6

(* A step of the server: what it deletes it has marked.                    *)
LEMMA ToldShown ==
  ASSUME IInv, DelInv, ShownInv, NEW f, Emit(f), Told(f)
  PROVE  ShownInv'
<1>1. /\ UNCHANGED <<kind, link, adopted, stashed, store, inbox, state, pane>>
      /\ Grows /\ FrameOK(f, srv') /\ Unedited(f, srv')
  BY DEF Told, clientVars
<1>2. /\ Seqs!ToSet(wire') \subseteq Seqs!ToSet(wire) \cup {f}
      /\ Seqs!ToSet(wire) \subseteq Seqs!ToSet(wire')
      /\ link => f \in Seqs!ToSet(wire')
  BY InAppended DEF Emit, IInv
<1>3. \A g \in Seqs!ToSet(wire) : FrameOK(g, srv)
  BY DEF DelInv, WireInv, Seqs!ToSet
<1>4. PlainInv'
  <2> SUFFICES ASSUME kind # "room"
               PROVE  /\ \A g \in Seqs!ToSet(wire') : g.t # "epoch_key" /\ Unedited(g, srv')
                      /\ \A g \in Seqs!ToSet(inbox) : Unedited(g, srv')
                      /\ \A i \in DOMAIN store : srv'[i].body = 0 /\ ~store[i].deleted =>
                           store[i].body = Plain(srv'[i].epoch)
    BY <1>1 DEF PlainInv, ShownInv
  <2>1. \A g \in Seqs!ToSet(wire) : g.t # "epoch_key" /\ Unedited(g, srv')
    BY <1>1, <1>3, FrameStays DEF PlainInv, ShownInv
  <2>2. f.t # "epoch_key"
    BY DEF Told
  <2>3. \A g \in Seqs!ToSet(inbox) : Unedited(g, srv')
    BY <1>1, FrameStays DEF PlainInv, ShownInv, InboxInv
  <2>4. \A i \in DOMAIN store : srv'[i].body = 0 /\ ~store[i].deleted =>
          store[i].body = Plain(srv'[i].epoch)
    BY <1>1 DEF PlainInv, ShownInv, Grows, DelInv, StoreInv
  <2> QED BY <1>1, <1>2, <2>1, <2>2, <2>3, <2>4
<1>5. /\ \A i : MarkedBy(wire, i) => MarkedBy(wire', i)
      /\ \A i : link /\ Marks(f, i) => MarkedBy(wire', i)
  BY <1>2 DEF MarkedBy
<1>6. \A i \in DOMAIN srv' : srv'[i].deleted => (i \in DOMAIN srv /\ srv[i].deleted) \/ Marks(f, i)
  BY DEF Told
<1>7. InboxInv'
  <2>1. \A g \in Seqs!ToSet(inbox) : FrameOK(g, srv')
    BY <1>1, FrameStays DEF InboxInv, ShownInv
  <2>2. ASSUME link, NEW i \in DOMAIN srv', srv'[i].deleted,
               NEW n \in DOMAIN inbox, Brings(inbox[n], i)
        PROVE  MarkedBy(wire', i) \/ \E m \in DOMAIN inbox : n < m /\ Marks(inbox[m], i)
    <3>1. CASE i \in DOMAIN srv /\ srv[i].deleted
      BY <1>5, <2>2, <3>1 DEF InboxInv, ShownInv
    <3>2. CASE Marks(f, i)
      BY <1>5, <2>2, <3>2
    <3> QED BY <1>6, <2>2, <3>1, <3>2
  <2>3. ~link => wire' = <<>>
    BY DEF Emit, InboxInv, ShownInv
  <2> QED BY <1>1, <2>1, <2>2, <2>3 DEF InboxInv, ShownInv
<1>8. ASSUME NEW m, RowOK(m) PROVE RowOK(m)'
  <2>1. RowData(m)'
    BY <1>1, <1>8 DEF RowOK, RowData, Grows
  <2>2. ASSUME link, state = "Online" PROVE RowDue(m)'
    <3>1. m.id \in DOMAIN srv /\ RowDue(m)
      BY <1>8, <2>2 DEF RowOK, RowData
    <3>2. Due(m.id) => Due(m.id)'
      BY <1>1, <1>5 DEF Due
    <3>3. DueLikes(m.id) => DueLikes(m.id)'
      BY <1>1, <3>2 DEF DueLikes, Rereads, LiveReads
    <3>4. srv'[m.id].deleted => m.deleted \/ Due(m.id)'
      BY <1>1, <1>5, <1>6, <2>2, <3>1, <3>2 DEF RowDue, Due, Grows
    <3> QED BY <1>1, <3>1, <3>3, <3>4 DEF RowDue
  <2> QED BY <1>1, <2>1, <2>2 DEF RowOK
<1>9. RowsInv'
  BY <1>1, <1>8 DEF RowsInv, ShownInv, Once
<1> QED BY <1>4, <1>7, <1>9 DEF ShownInv

(* What is read of a message that was never edited.                        *)
LEMMA PlainReads ==
  ASSUME kind # "room", PlainInv, srv \in Seq(ServerRow), NEW f, Unedited(f, srv),
         NEW i \in DOMAIN srv, srv[i].body = 0, NEW b, Reads(f, i, b)
  PROVE  b = Plain(srv[i].epoch)
<1>1. adopted = {1} /\ srv[i].epoch \in Epochs
  BY ServerRows DEF PlainInv, ServerRow
<1>2. CurrentEpoch = 1
  <2>1. 1..1 = {1}
    OBVIOUS
  <2>2. 1 \in Nat \ {0}
    OBVIOUS
  <2>3. Seqs!Max(1..1) = 1
    BY <2>2, MaxOfFirst
  <2> QED BY <1>1, <2>1, <2>3 DEF CurrentEpoch
<1>3. \A e \in Epochs : (LiveReads(e) <=> e = 1) /\ (HistoryReads(e) <=> e = 1)
  BY <1>1, <1>2 DEF LiveReads, HistoryReads, Epochs
<1>4. CASE f.t = "message" /\ f.id = i /\ b = BodyIf(LiveReads(f.epoch), f)
  <2>1. f.epoch = srv[i].epoch /\ f.body = 0
    BY <1>4 DEF Unedited
  <2> QED BY <1>1, <1>3, <1>4, <2>1 DEF BodyIf, Plain
<1>5. CASE HasRows(f) /\ \E m \in 1..Len(f.rows) :
             f.rows[m].id = i /\ b = BodyIf(HistoryReads(f.rows[m].epoch), f.rows[m])
  <2>1. PICK m \in 1..Len(f.rows) :
          f.rows[m].id = i /\ b = BodyIf(HistoryReads(f.rows[m].epoch), f.rows[m])
    BY <1>5
  <2>2. f.rows[m].epoch = srv[i].epoch /\ f.rows[m].body = 0
    BY <1>5, <2>1 DEF Unedited
  <2> QED BY <1>1, <1>3, <2>1, <2>2 DEF BodyIf, Plain
<1> QED BY <1>4, <1>5 DEF Reads

(* What the read loop stores the TUI is yet to handle.                     *)
LEMMA ReadShown ==
  ASSUME IInv, DelInv, ShownInv, Read
  PROVE  ShownInv'
<1>1. PICK f : f = Head(wire)
  OBVIOUS
<1>2. /\ wire # <<>> /\ wire' = Tail(wire) /\ store' = Stored(f)
      /\ inbox' = IF f.t = "epoch_key" THEN inbox ELSE Append(inbox, f)
      /\ f.t # "epoch_key" => UNCHANGED <<adopted, stashed>>
      /\ adopted \subseteq adopted'
      /\ UNCHANGED <<kind, srv, link, state, pane>>
  BY <1>1 DEF Read, serverVars, paneVars, ReadEpochKey
<1>3. PICK l \in Nat : /\ l > 0 /\ DOMAIN wire = 1..l /\ wire[1] = f
                       /\ DOMAIN wire' = 1..(l - 1)
                       /\ \A n \in 1..(l - 1) : wire'[n] = wire[n + 1]
                       /\ Seqs!ToSet(wire) = Seqs!ToSet(wire') \cup {f}
  BY <1>1, <1>2, InTaken DEF IInv
<1>4. /\ f.t = "epoch_key" => inbox' = inbox
      /\ f.t # "epoch_key" => Seqs!ToSet(inbox') = Seqs!ToSet(inbox) \cup {f}
  BY <1>2, InAppended DEF IInv
<1>5. FrameOK(f, srv) /\ StoreInv /\ srv \in Seq(ServerRow)
  BY <1>3 DEF DelInv, WireInv
<1>6. Filling(f, store, store') /\ Storing(f, store, store') /\ DOMAIN store \subseteq DOMAIN store'
  BY <1>2, <1>5, FilledOK, StoredOK DEF Storing
<1>7. \A i : Marks(f, i) \/ Rereads(f, i) => f.t # "epoch_key"
  BY DEF Marks, Rereads
<1>8. \A i : /\ MarkedBy(wire, i) => MarkedBy(wire', i) \/ Marks(f, i)
             /\ MarkedBy(inbox, i) => MarkedBy(inbox', i)
             /\ Marks(f, i) => MarkedBy(inbox', i)
  BY <1>3, <1>4, <1>7 DEF MarkedBy
<1>9. link /\ state # "Offline"
  BY <1>2 DEF ShownInv, InboxInv
<1>10. PlainInv'
  <2> SUFFICES ASSUME kind # "room"
               PROVE  /\ adopted' = {1} /\ stashed' = 0
                      /\ \A g \in Seqs!ToSet(wire') : g.t # "epoch_key" /\ Unedited(g, srv)
                      /\ \A g \in Seqs!ToSet(inbox') : Unedited(g, srv)
                      /\ \A i \in DOMAIN store' : srv[i].body = 0 /\ ~store'[i].deleted =>
                           store'[i].body = Plain(srv[i].epoch)
    BY <1>2 DEF PlainInv
  <2>1. f.t # "epoch_key" /\ Unedited(f, srv)
    BY <1>3 DEF PlainInv, ShownInv
  <2>2. ASSUME NEW i \in DOMAIN store', srv[i].body = 0, ~store'[i].deleted
        PROVE  store'[i].body = Plain(srv[i].epoch)
    <3>1. i \in DOMAIN srv
      BY <1>2, <1>5, StoredOK
    <3>2. CASE i \in DOMAIN store /\ store'[i].body = store[i].body
      <4>1. ~store[i].deleted
        BY <1>6, <2>2, <3>2 DEF Storing
      <4> QED BY <2>2, <3>2, <4>1 DEF PlainInv, ShownInv
    <3>3. CASE f.t = "edited" /\ f.id = i
      BY <2>1, <2>2, <3>1, <3>3 DEF Unedited
    <3>4. CASE Reads(f, i, store'[i].body)
      BY <1>5, <2>1, <2>2, <3>1, <3>4, PlainReads DEF ShownInv
    <3> QED BY <1>6, <2>2, <3>2, <3>3, <3>4 DEF Filling
  <2> QED BY <1>2, <1>3, <1>4, <2>1, <2>2 DEF PlainInv, ShownInv
<1>11. InboxInv'
  <2>1. ASSUME NEW g \in Seqs!ToSet(inbox')
        PROVE  /\ FrameOK(g, srv) /\ g.t # "epoch_key"
               /\ kind = "dm" => \A i : Carries(g, i) => i \in DOMAIN store'
    <3>1. CASE g \in Seqs!ToSet(inbox)
      BY <1>6, <3>1 DEF InboxInv, ShownInv
    <3>2. CASE f.t # "epoch_key" /\ g = f
      BY <1>5, <1>6, <3>2 DEF Filling
    <3> QED BY <1>4, <2>1, <3>1, <3>2
  <2>2. ASSUME NEW i \in DOMAIN srv, srv[i].deleted,
               NEW n \in DOMAIN inbox', Brings(inbox'[n], i)
        PROVE  MarkedBy(wire', i) \/ \E m \in DOMAIN inbox' : n < m /\ Marks(inbox'[m], i)
    <3>1. CASE f.t = "epoch_key"
      <4>1. MarkedBy(wire, i) \/ \E m \in DOMAIN inbox : n < m /\ Marks(inbox[m], i)
        BY <1>4, <1>9, <2>2, <3>1 DEF InboxInv, ShownInv
      <4> QED BY <1>4, <1>7, <1>8, <3>1, <4>1
    <3>2. CASE f.t # "epoch_key"
      <4>1. PICK k \in Nat : /\ DOMAIN inbox = 1..k /\ DOMAIN inbox' = 1..(k + 1)
                             /\ inbox'[k + 1] = f /\ \A j \in 1..k : inbox'[j] = inbox[j]
        <5>1. PICK S : S = {inbox[j] : j \in DOMAIN inbox} \cup {f}
          OBVIOUS
        <5>2. inbox \in Seq(S) /\ f \in S
          BY <5>1 DEF IInv, Queue
        <5> QED BY <1>2, <3>2, <5>2, AppendProperties, LenProperties
      <4>2. CASE n \in 1..k
        <5>1. MarkedBy(wire, i) \/ \E m \in DOMAIN inbox : n < m /\ Marks(inbox[m], i)
          BY <1>9, <2>2, <4>1, <4>2 DEF InboxInv, ShownInv
        <5>2. CASE \E m \in DOMAIN inbox : n < m /\ Marks(inbox[m], i)
          BY <4>1, <5>2
        <5>3. CASE Marks(f, i)
          <6>1. k + 1 \in DOMAIN inbox' /\ n < k + 1 /\ Marks(inbox'[k + 1], i)
            BY <4>1, <4>2, <5>3
          <6> QED BY <6>1
        <5> QED BY <1>8, <5>1, <5>2, <5>3
      <4>3. CASE n = k + 1
        <5>1. Brings(wire[1], i) /\ 1 \in DOMAIN wire
          BY <1>3, <2>2, <4>1, <4>3
        <5>2. PICK m \in DOMAIN wire : 1 < m /\ Marks(wire[m], i)
          BY <1>9, <2>2, <5>1 DEF DelInv, WireInv, Owed
        <5>3. m - 1 \in DOMAIN wire' /\ (m - 1) + 1 = m
          BY <1>3, <5>2
        <5>4. wire'[m - 1] = wire[m]
          BY <1>3, <5>3
        <5>5. MarkedBy(wire', i)
          BY <5>2, <5>3, <5>4 DEF MarkedBy, Seqs!ToSet
        <5> QED BY <5>5
      <4> QED BY <2>2, <4>1, <4>2, <4>3
    <3> QED BY <3>1, <3>2
  <2> QED BY <1>2, <1>9, <2>1, <2>2 DEF InboxInv
<1>12. ASSUME NEW m, RowOK(m) PROVE RowOK(m)'
  <2>1. RowData(m)'
    BY <1>2, <1>6, <1>12 DEF RowOK, RowData
  <2>2. ASSUME state = "Online" PROVE RowDue(m)'
    <3>1. m.id \in DOMAIN srv /\ RowDue(m) /\ (m.liked => m.id \in DOMAIN store)
      BY <1>9, <1>12, <2>2 DEF RowOK, RowData
    <3>2. Due(m.id) => Due(m.id)'
      BY <1>8 DEF Due
    <3>3. \A g, i : Rereads(g, i) => Rereads(g, i)'
      BY <1>2 DEF Rereads, LiveReads
    <3>4. Rereads(f, m.id) => DueLikes(m.id)'
      BY <1>4, <1>7, <3>3 DEF DueLikes
    <3>5. DueLikes(m.id) => DueLikes(m.id)'
      BY <1>4, <3>2, <3>3 DEF DueLikes
    <3>6. ASSUME m.liked, store[m.id].liked, Deletes(f, m.id) PROVE Due(m.id)'
      <4>1. m.id \in DOMAIN store /\ srv[m.id].deleted
        BY <1>5, <3>1, <3>6 DEF FrameOK
      <4>2. ~store[m.id].deleted
        BY <1>5, <3>6, <4>1 DEF StoreInv, Buried, Tombstone
      <4>3. MarkedBy(wire, m.id)
        BY <1>9, <3>1, <4>1, <4>2 DEF DelInv, WireInv, Owed, MarkedBy, Seqs!ToSet
      <4> QED BY <1>8, <4>3 DEF Due
    <3>7. m.liked => store'[m.id].liked \/ DueLikes(m.id)'
      <4>1. CASE m.liked /\ store[m.id].liked
        BY <1>6, <3>1, <3>4, <3>6, <4>1 DEF Filling, DueLikes
      <4>2. CASE m.liked /\ DueLikes(m.id)
        BY <3>5, <4>2
      <4> QED BY <3>1, <4>1, <4>2 DEF RowDue
    <3> QED BY <1>2, <3>1, <3>2, <3>7 DEF RowDue
  <2> QED BY <1>2, <2>1, <2>2 DEF RowOK
<1>13. RowsInv'
  BY <1>2, <1>12 DEF RowsInv, ShownInv, Once
<1> QED BY <1>10, <1>11, <1>13 DEF ShownInv

(* Numbers in order: there is an enumeration of some of the first k.       *)
LEMMA Enumerated ==
  ASSUME NEW k \in Nat, NEW S \in SUBSET (1..k)
  PROVE  /\ Cardinality(S) \in Nat
         /\ Ascending(S) \in [1..Cardinality(S) -> S]
         /\ \A m, n \in 1..Cardinality(S) : Ascending(S)[m] = Ascending(S)[n] => m = n
<1> DEFINE Enum(T, e) == /\ e \in [1..Cardinality(T) -> T]
                         /\ \A m, n \in 1..Cardinality(T) : m < n => e[m] < e[n]
           Has(j) == \A T \in SUBSET (1..j) : \E e : Enum(T, e)
           J == {j \in Nat : Has(j)}
<1>1. \A j \in Nat : \A T \in SUBSET (1..j) : IsFiniteSet(T) /\ Cardinality(T) \in Nat
  <2> SUFFICES ASSUME NEW j \in Nat, NEW T \in SUBSET (1..j)
               PROVE  IsFiniteSet(T) /\ Cardinality(T) \in Nat
    OBVIOUS
  <2>1. j \in Int /\ 1 \in Int
    OBVIOUS
  <2>2. IsFiniteSet(1..j)
    BY <2>1, FS_Interval
  <2>3. IsFiniteSet(T)
    BY <2>2, FS_Subset
  <2> QED BY <2>3, FS_CardinalityType
<1>2. 0 \in J
  <2>1. ASSUME NEW T \in SUBSET (1..0) PROVE \E e : Enum(T, e)
    <3>2. 1..0 = {} /\ T = {}
      OBVIOUS
    <3>1. T = {} /\ Cardinality(T) = 0
      BY <3>2, FS_EmptySet
    <3>3. Enum(T, [n \in {} |-> n])
      BY <3>1, <3>2
    <3> QED BY <3>3
  <2> QED BY <2>1
<1>3. ASSUME NEW j \in Nat, j \in J PROVE j + 1 \in J
  <2> SUFFICES ASSUME NEW T \in SUBSET (1..(j + 1)) PROVE \E e : Enum(T, e)
    OBVIOUS
  <2>1. CASE j + 1 \notin T
    <3>1. T \in SUBSET (1..j)
      BY <2>1
    <3> HIDE DEF Enum
    <3> QED BY <1>3, <3>1
  <2>2. CASE j + 1 \in T
    <3> DEFINE U == T \ {j + 1}
    <3>1. U \in SUBSET (1..j) /\ T = U \cup {j + 1} /\ j + 1 \notin U
      BY <2>2
    <3> HIDE DEF U
    <3>2. PICK e : Enum(U, e)
      <4> HIDE DEF Enum
      <4> QED BY <1>3, <3>1
    <3>3. PICK c \in Nat : c = Cardinality(U)
      BY <1>1, <3>1
    <3>4. Cardinality(T) = c + 1
      BY <1>1, <3>1, <3>3, FS_AddElement
    <3> DEFINE g == [n \in 1..(c + 1) |-> IF n = c + 1 THEN j + 1 ELSE e[n]]
    <3>5. \A n \in 1..c : e[n] \in U /\ e[n] < j + 1 /\ e[n] \in T
      <4>1. e \in [1..c -> U]
        BY <3>2, <3>3
      <4>2. \A u \in U : u < j + 1 /\ u \in T
        <5>1. \A u \in 1..j : u < j + 1
          OBVIOUS
        <5> QED BY <3>1, <5>1
      <4> QED BY <4>1, <4>2
    <3>6. \A n \in 1..(c + 1) : n \in 1..c \/ n = c + 1
      BY <3>3
    <3>7. g \in [1..(c + 1) -> T]
      BY <2>2, <3>5, <3>6
    <3>8. ASSUME NEW m \in 1..(c + 1), NEW n \in 1..(c + 1), m < n PROVE g[m] < g[n]
      <4>1. m \in 1..c /\ g[m] = e[m]
        BY <3>3, <3>8
      <4>2. CASE n = c + 1
        BY <3>5, <4>1, <4>2
      <4>3. CASE n # c + 1
        <5>1. n \in 1..c /\ g[n] = e[n]
          BY <3>6, <4>3
        <5> QED BY <3>2, <3>3, <3>8, <4>1, <5>1
      <4> QED BY <4>2, <4>3
    <3> HIDE DEF g
    <3>9. Enum(T, g)
      BY <3>4, <3>7, <3>8
    <3> QED BY <3>9
  <2> QED BY <2>1, <2>2
<1>4. k \in J
  <2> HIDE DEF J
  <2> QED BY <1>2, <1>3, NatSet
<1>5. \E e : Enum(S, e)
  <2> HIDE DEF Enum
  <2> QED BY <1>4
<1>6. Enum(S, Ascending(S))
  BY <1>5 DEF Ascending
<1>7. PICK c \in Nat : c = Cardinality(S)
  BY <1>1
<1>8. ASSUME NEW m \in 1..c, NEW n \in 1..c, Ascending(S)[m] = Ascending(S)[n] PROVE m = n
  <2>1. Ascending(S)[m] \in Nat
    <3>1. Ascending(S)[m] \in S
      BY <1>6, <1>7
    <3>2. S \subseteq Nat
      OBVIOUS
    <3> QED BY <3>1, <3>2
  <2>2. ~(m < n) /\ ~(n < m)
    <3>1. \A u, v \in 1..c : u < v => Ascending(S)[u] < Ascending(S)[v]
      BY <1>6, <1>7
    <3>2. \A u \in Nat : ~(u < u)
      OBVIOUS
    <3> QED BY <1>8, <2>1, <3>1, <3>2
  <2> QED BY <2>2
<1> QED BY <1>6, <1>7, <1>8

(* The rows x are those that some of the numbers S name, each once.        *)
Chosen(x, rows, S) ==
  \E e : /\ \A n \in DOMAIN x : e[n] \in S /\ x[n] = rows[e[n]]
         /\ \A m, n \in DOMAIN x : e[m] = e[n] => m = n

(* Rows that are selected.                                                 *)
LEMMA Selected ==
  ASSUME NEW A, NEW rows \in Seq(A), NEW S \in SUBSET (1..Len(rows))
  PROVE  Select(rows, S) \in Seq(A) /\ Chosen(Select(rows, S), rows, S)
<1>1. PICK k \in Nat : k = Len(rows) /\ DOMAIN rows = 1..k /\ \A n \in 1..k : rows[n] \in A
  BY LenProperties
<1>2. PICK c \in Nat : c = Cardinality(S)
  BY <1>1, Enumerated
<1>3. PICK e : /\ e = Ascending(S) /\ e \in [1..c -> S]
               /\ \A m, n \in 1..c : e[m] = e[n] => m = n
  <2>1. S \in SUBSET (1..k)
    BY <1>1
  <2>2. /\ Ascending(S) \in [1..c -> S]
        /\ \A m, n \in 1..c : Ascending(S)[m] = Ascending(S)[n] => m = n
    BY <1>2, <2>1, Enumerated
  <2> QED BY <2>2
<1>4. Len(e) = c
  <2>1. e \in Seq(S)
    BY <1>3, SeqDef
  <2> QED BY <1>3, <2>1, LenProperties
<1>5. Select(rows, S) = [n \in 1..c |-> rows[e[n]]]
  BY <1>3, <1>4 DEF Select
<1>6. Select(rows, S) \in [1..c -> A]
  BY <1>1, <1>3, <1>5
<1>7. Select(rows, S) \in Seq(A)
  BY <1>6, SeqDef
<1>8. Chosen(Select(rows, S), rows, S)
  BY <1>3, <1>5 DEF Chosen
<1> QED BY <1>7, <1>8

(* What is put above the pane: each message once, of both.                 *)
LEMMA Prepended ==
  ASSUME NEW p \in Seq(DisplayRow), Once(p), NEW rows \in Seq(DisplayRow)
  PROVE  /\ PrependMessages(p, rows) \in Seq(DisplayRow) /\ Once(PrependMessages(p, rows))
         /\ Seqs!ToSet(PrependMessages(p, rows)) \subseteq Seqs!ToSet(p) \cup Seqs!ToSet(rows)
<1> DEFINE S == {n \in 1..Len(rows) : /\ ~InPane(p, rows[n].id)
                                      /\ \A m \in 1..n - 1 : rows[m].id # rows[n].id}
           above == Select(rows, S)
<1>1. PICK k \in Nat : k = Len(rows) /\ DOMAIN rows = 1..k /\ \A n \in 1..k : rows[n] \in DisplayRow
  BY LenProperties
<1>2. S \in SUBSET (1..k)
  BY <1>1
<1>3. above \in Seq(DisplayRow)
  BY <1>1, <1>2, Selected
<1>4. PICK e : /\ \A n \in DOMAIN above : e[n] \in S /\ above[n] = rows[e[n]]
               /\ \A m, n \in DOMAIN above : e[m] = e[n] => m = n
  <2>1. S \in SUBSET (1..Len(rows))
    BY <1>1, <1>2
  <2> HIDE DEF S
  <2>2. Chosen(above, rows, S)
    BY <2>1, Selected
  <2> QED BY <2>2 DEF Chosen
<1>5. PrependMessages(p, rows) = above \o p
  BY DEF PrependMessages
<1>6. /\ \A n \in S : n \in 1..k /\ ~InPane(p, rows[n].id)
      /\ \A m, n \in S : rows[m].id = rows[n].id => m = n
  <2>1. \A n \in S : n \in 1..k /\ ~InPane(p, rows[n].id)
    BY <1>1
  <2>2. ASSUME NEW m \in S, NEW n \in S, rows[m].id = rows[n].id PROVE m = n
    <3>1. m \in 1..k /\ n \in 1..k
      BY <2>1
    <3>2. m \notin 1..n - 1 /\ n \notin 1..m - 1
      BY <2>2
    <3> QED BY <3>1, <3>2
  <2> QED BY <2>1, <2>2
<1> HIDE DEF S, above
<1>7. PICK a \in Nat, b \in Nat : /\ DOMAIN above = 1..a /\ DOMAIN p = 1..b
                                  /\ DOMAIN (above \o p) = 1..(a + b)
                                  /\ above \o p \in Seq(DisplayRow)
                                  /\ \A n \in 1..(a + b) :
                                       (above \o p)[n] = IF n <= a THEN above[n] ELSE p[n - a]
  BY <1>3, ConcatProperties, LenProperties
<1> DEFINE x == above \o p
<1>8. \A n \in 1..(a + b) : \/ n \in 1..a /\ x[n] = above[n]
                            \/ n - a \in 1..b /\ x[n] = p[n - a]
  BY <1>7
<1> HIDE DEF x
<1>9. ASSUME NEW m \in 1..(a + b), NEW n \in 1..(a + b), x[m].id = x[n].id PROVE m = n
  <2>1. CASE m \in 1..a /\ x[m] = above[m] /\ n \in 1..a /\ x[n] = above[n]
    <3>1. e[m] \in S /\ e[n] \in S /\ above[m] = rows[e[m]] /\ above[n] = rows[e[n]]
      BY <1>4, <1>7, <2>1
    <3>2. e[m] = e[n]
      BY <1>6, <1>9, <2>1, <3>1
    <3> QED BY <1>4, <1>7, <2>1, <3>2
  <2>2. CASE m - a \in 1..b /\ x[m] = p[m - a] /\ n - a \in 1..b /\ x[n] = p[n - a]
    <3>1. m - a = n - a
      BY <1>7, <1>9, <2>2 DEF Once
    <3> QED BY <1>7, <3>1
  <2>3. ASSUME NEW u \in 1..a, NEW v \in 1..b PROVE above[u].id # p[v].id
    <3>1. e[u] \in S /\ above[u] = rows[e[u]]
      BY <1>4, <1>7, <2>3
    <3>2. ~InPane(p, rows[e[u]].id)
      BY <1>6, <3>1
    <3> QED BY <1>7, <2>3, <3>1, <3>2 DEF InPane
  <2> QED BY <1>8, <1>9, <2>1, <2>2, <2>3
<1>10. ASSUME NEW n \in 1..(a + b) PROVE x[n] \in Seqs!ToSet(p) \cup Seqs!ToSet(rows)
  <2>1. CASE n \in 1..a /\ x[n] = above[n]
    <3>1. e[n] \in 1..k /\ x[n] = rows[e[n]]
      BY <1>4, <1>6, <1>7, <2>1
    <3> QED BY <1>1, <3>1 DEF Seqs!ToSet
  <2>2. CASE n - a \in 1..b /\ x[n] = p[n - a]
    BY <1>7, <2>2 DEF Seqs!ToSet
  <2> QED BY <1>8, <2>1, <2>2
<1>11. PrependMessages(p, rows) = x /\ DOMAIN x = 1..(a + b) /\ x \in Seq(DisplayRow)
  BY <1>5, <1>7 DEF x
<1>12. Once(x)
  BY <1>9, <1>11 DEF Once
<1>13. Seqs!ToSet(x) \subseteq Seqs!ToSet(p) \cup Seqs!ToSet(rows)
  BY <1>10, <1>11 DEF Seqs!ToSet
<1> QED BY <1>11, <1>12, <1>13

(* Some rows of the table, each once.                                      *)
IdList(ids) == ids \in Seq(DOMAIN store) /\ \A m, n \in DOMAIN ids : ids[m] = ids[n] => m = n

(* A page of the database is such a list.                                  *)
LEMMA Listed ==
  ASSUME DelInv
  PROVE  \A b, n : IdList(GetMessages(n)) /\ IdList(GetMessagesBefore(b, n))
<1>1. PICK k \in Nat : DOMAIN store \subseteq 1..k
  BY ServerRows DEF DelInv, StoreInv
<1>2. ASSUME NEW S \in SUBSET DOMAIN store PROVE IdList(Ascending(S))
  <2>1. S \in SUBSET (1..k)
    BY <1>1
  <2>2. PICK c \in Nat : c = Cardinality(S)
    BY <2>1, Enumerated
  <2>3. /\ Ascending(S) \in [1..c -> S]
        /\ \A m, n \in 1..c : Ascending(S)[m] = Ascending(S)[n] => m = n
    BY <2>1, <2>2, Enumerated
  <2>4. Ascending(S) \in [1..c -> DOMAIN store]
    BY <2>3
  <2>5. Ascending(S) \in Seq(DOMAIN store) /\ DOMAIN Ascending(S) = 1..c
    BY <2>4, SeqDef
  <2> QED BY <2>3, <2>5 DEF IdList
<1>3. IdList(<<>>)
  <2>1. DOMAIN <<>> = {}
    OBVIOUS
  <2> QED BY <2>1, EmptySeq DEF IdList
<1>4. \A b, n : \E S \in SUBSET DOMAIN store : Below(DOMAIN store, b, n) = Ascending(S)
  BY DEF Below
<1>5. \A b, n : IdList(Below(DOMAIN store, b, n))
  BY <1>2, <1>4
<1> QED BY <1>3, <1>5 DEF GetMessages, GetMessagesBefore

(* The rows of such a list.                                                *)
LEMMA RowsListed ==
  ASSUME DelInv, NEW ids, IdList(ids)
  PROVE  /\ StoreRows(ids) \in Seq(DisplayRow) /\ Once(StoreRows(ids))
         /\ \A m \in Seqs!ToSet(StoreRows(ids)) :
              \E i \in DOMAIN store : m = DisplayMessage(i, store[i])
<1>1. PICK k \in Nat : /\ k = Len(ids) /\ DOMAIN ids = 1..k
                       /\ \A n \in 1..k : ids[n] \in DOMAIN store
                       /\ \A m, n \in 1..k : ids[m] = ids[n] => m = n
  BY LenProperties DEF IdList
<1>2. \A i \in DOMAIN store : i \in RowIds /\ store[i] \in StoreRow
  BY StoreSet DEF DelInv, StoreInv
<1>3. \A i \in DOMAIN store :
        DisplayMessage(i, store[i]) \in DisplayRow /\ DisplayMessage(i, store[i]).id = i
  BY <1>2 DEF DisplayMessage, DisplayRow, StoreRow
<1>4. StoreRows(ids) = [n \in 1..k |-> DisplayMessage(ids[n], store[ids[n]])]
  BY <1>1 DEF StoreRows
<1>5. StoreRows(ids) \in [1..k -> DisplayRow]
  BY <1>1, <1>3, <1>4
<1>6. StoreRows(ids) \in Seq(DisplayRow) /\ DOMAIN StoreRows(ids) = 1..k
  BY <1>5, SeqDef
<1>7. \A n \in 1..k : StoreRows(ids)[n] = DisplayMessage(ids[n], store[ids[n]])
  BY <1>4
<1>8. Once(StoreRows(ids))
  BY <1>1, <1>3, <1>6, <1>7 DEF Once
<1>9. \A m \in Seqs!ToSet(StoreRows(ids)) : \E i \in DOMAIN store : m = DisplayMessage(i, store[i])
  BY <1>1, <1>6, <1>7 DEF Seqs!ToSet
<1> QED BY <1>6, <1>8, <1>9

(* What the frames and the rows are about.                                 *)
messages == <<kind, srv, store, wire, inbox, adopted, stashed, link>>

(* A row of the table is right on screen at any time.                      *)
LEMMA FromStore ==
  ASSUME DelInv, ShownInv, UNCHANGED messages, NEW i \in DOMAIN store
  PROVE  RowOK(DisplayMessage(i, store[i]))'
<1>1. UNCHANGED <<kind, srv, store, wire, inbox, adopted, link>>
  BY DEF messages
<1>2. PICK m : m = DisplayMessage(i, store[i])
  OBVIOUS
<1>3. i \in RowIds /\ store[i] \in StoreRow /\ i \in DOMAIN srv
  BY StoreSet DEF DelInv, StoreInv
<1>4. /\ m \in DisplayRow /\ m.id = i /\ m.body = store[i].body
      /\ (m.deleted <=> store[i].deleted) /\ (m.liked <=> store[i].liked)
  BY <1>2, <1>3 DEF DisplayMessage, DisplayRow, StoreRow
<1>5. store[i].deleted => srv[i].deleted /\ store[i].body = NoBody
  <2>1. store[i].deleted => srv[i].deleted /\ store[i] = Tombstone
    BY DEF DelInv, StoreInv, Buried
  <2> QED BY <2>1 DEF Tombstone
<1>6. RowData(m)
  BY <1>3, <1>4, <1>5 DEF RowData, ShownInv, PlainInv
<1>7. link => RowDue(m)
  <2>1. link /\ srv[i].deleted /\ ~store[i].deleted => MarkedBy(wire, i)
    BY <1>3 DEF DelInv, WireInv, Owed, MarkedBy, Seqs!ToSet
  <2> QED BY <1>4, <2>1 DEF RowDue, Due
<1>8. RowData(m)'
  BY <1>1, <1>6 DEF RowData
<1>9. link' => RowDue(m)'
  BY <1>1, <1>7 DEF RowDue, DueLikes, Due, Rereads, LiveReads
<1>10. DisplayMessage(i, store[i])' = m
  BY <1>1, <1>2 DEF DisplayMessage
<1> QED BY <1>1, <1>2, <1>8, <1>9 DEF RowOK

(* A row stays right while nothing happens to its message.                 *)
LEMMA RowStays ==
  ASSUME NEW m, RowOK(m), UNCHANGED messages, link /\ state' = "Online" => state = "Online"
  PROVE  RowOK(m)'
<1>1. UNCHANGED <<kind, srv, store, wire, inbox, adopted, link>>
  BY DEF messages
<1>2. RowData(m)'
  BY <1>1 DEF RowOK, RowData
<1>3. link /\ state' = "Online" => RowDue(m)'
  BY <1>1 DEF RowOK, RowDue, DueLikes, Due, Rereads, LiveReads
<1> QED BY <1>1, <1>2, <1>3 DEF RowOK

(* A step that concerns the pane only.                                     *)
LEMMA OnlyRows ==
  ASSUME ShownInv, UNCHANGED messages, state' = "Offline" => state = "Offline", RowsInv'
  PROVE  ShownInv'
<1>1. UNCHANGED <<kind, srv, store, wire, inbox, adopted, stashed, link>>
  BY DEF messages
<1>2. PlainInv'
  BY <1>1 DEF ShownInv, PlainInv
<1>3. InboxInv'
  BY <1>1 DEF ShownInv, InboxInv
<1> QED BY <1>2, <1>3 DEF ShownInv

(* The pane is loaded from the table, or empty.                            *)
LEMMA Reloaded ==
  ASSUME DelInv, ShownInv, UNCHANGED messages, NEW c, SetContext(c)
  PROVE  RowsInv'
<1>1. PICK ids : IdList(ids) /\ pane' = StoreRows(ids)
  <2>1. IdList(GetMessages(Window))
    BY Listed
  <2>2. IdList(<<>>)
    <3>1. DOMAIN <<>> = {}
      OBVIOUS
    <3> QED BY <3>1, EmptySeq DEF IdList
  <2> QED BY <2>1, <2>2 DEF SetContext
<1>2. /\ pane' \in Seq(DisplayRow) /\ Once(pane')
      /\ \A m \in Seqs!ToSet(pane') : \E i \in DOMAIN store : m = DisplayMessage(i, store[i])
  BY <1>1, RowsListed
<1>3. ASSUME NEW m \in Seqs!ToSet(pane') PROVE RowOK(m)'
  <2>1. PICK i \in DOMAIN store : m = DisplayMessage(i, store[i])
    BY <1>2
  <2>2. RowOK(DisplayMessage(i, store[i]))'
    BY FromStore
  <2>3. DisplayMessage(i, store[i])' = m
    BY <2>1 DEF messages, DisplayMessage
  <2> QED BY <2>2, <2>3
<1> QED BY <1>2, <1>3 DEF RowsInv, Once

(* The local leg of a scroll-back, and the switches of the pane.           *)
LEMMA PagesShown ==
  ASSUME DelInv, ShownInv, HandleRequest \/ Switch \/ Connected
  PROVE  ShownInv'
<1>1. CASE Switch \/ Connected
  <2>1. UNCHANGED messages /\ (state' = "Offline" => state = "Offline") /\ \E c : SetContext(c)
    BY <1>1 DEF Switch, Connected, serverVars, clientVars, messages
  <2>2. RowsInv'
    BY <2>1, Reloaded
  <2> QED BY <2>1, <2>2, OnlyRows
<1>2. CASE HandleRequest
  <2>1. UNCHANGED messages /\ state' = state
    BY <1>2 DEF HandleRequest, serverVars, clientVars, messages
  <2>2. PICK b : pane' = pane \/ pane' = PrependLocal(pane, GetMessagesBefore(b, Page))
    BY <1>2 DEF HandleRequest, paneVars
  <2>3. CASE pane' = pane
    <3>1. \A m : RowOK(m) => RowOK(m)'
      BY <2>1, RowStays
    <3>2. RowsInv'
      BY <2>3, <3>1 DEF RowsInv, ShownInv, Once
    <3> QED BY <2>1, <3>2, OnlyRows
  <2>4. CASE pane' = PrependLocal(pane, GetMessagesBefore(b, Page))
    <3>1. PICK rows : /\ rows \in Seq(DisplayRow) /\ pane' = PrependMessages(pane, rows)
                      /\ \A m \in Seqs!ToSet(rows) :
                           \E i \in DOMAIN store : m = DisplayMessage(i, store[i])
      BY <2>4, Listed, RowsListed DEF PrependLocal
    <3>2. /\ pane' \in Seq(DisplayRow) /\ Once(pane')
          /\ Seqs!ToSet(pane') \subseteq Seqs!ToSet(pane) \cup Seqs!ToSet(rows)
      BY <3>1, Prepended DEF ShownInv, RowsInv
    <3>3. ASSUME NEW m \in Seqs!ToSet(pane') PROVE RowOK(m)'
      <4>1. CASE m \in Seqs!ToSet(pane)
        BY <2>1, <4>1, RowStays DEF ShownInv, RowsInv
      <4>2. CASE m \in Seqs!ToSet(rows)
        <5>1. PICK i \in DOMAIN store : m = DisplayMessage(i, store[i])
          BY <3>1, <4>2
        <5>2. RowOK(DisplayMessage(i, store[i]))'
          BY <2>1, FromStore
        <5>3. DisplayMessage(i, store[i])' = m
          BY <2>1, <5>1 DEF messages, DisplayMessage
        <5> QED BY <5>2, <5>3
      <4> QED BY <3>2, <3>3, <4>1, <4>2
    <3>4. RowsInv'
      BY <3>2, <3>3 DEF RowsInv, Once
    <3> QED BY <2>1, <3>4, OnlyRows
  <2> QED BY <2>2, <2>3, <2>4
<1> QED BY <1>1, <1>2

(* A key that is adopted late, the driver and a press of the key.          *)
LEMMA AsideShown ==
  ASSUME ShownInv, AdoptStashed \/ Sweep \/ Resend \/ PressUp
  PROVE  ShownInv'
<1>1. CASE Sweep \/ Resend \/ PressUp
  <2>1. UNCHANGED messages /\ UNCHANGED <<state, pane>>
    BY <1>1 DEF Sweep, Resend, PressUp, serverVars, clientVars, paneVars, messages
  <2>2. \A m : RowOK(m) => RowOK(m)'
    BY <2>1, RowStays
  <2>3. RowsInv'
    BY <2>1, <2>2 DEF RowsInv, ShownInv, Once
  <2> QED BY <2>1, <2>3, OnlyRows
<1>2. CASE AdoptStashed
  <2>1. /\ UNCHANGED <<kind, srv, store, wire, inbox, link, state, pane>>
        /\ adopted \subseteq adopted' /\ stashed # 0
    BY <1>2 DEF AdoptStashed, serverVars, paneVars
  <2>2. kind = "room"
    BY <2>1 DEF ShownInv, PlainInv
  <2>3. \A f, i : Rereads(f, i) => Rereads(f, i)'
    BY <2>1 DEF Rereads, LiveReads
  <2>4. \A i : DueLikes(i) => DueLikes(i)'
    BY <2>1, <2>3 DEF DueLikes, Due
  <2>5. ASSUME NEW m, RowOK(m) PROVE RowOK(m)'
    <3>1. RowData(m)'
      BY <2>1, <2>5 DEF RowOK, RowData
    <3>2. link /\ state = "Online" => RowDue(m)'
      BY <2>1, <2>4, <2>5 DEF RowOK, RowDue, Due
    <3> QED BY <2>1, <3>1, <3>2 DEF RowOK
  <2>6. PlainInv' /\ InboxInv'
    BY <2>1, <2>2 DEF ShownInv, PlainInv, InboxInv
  <2>7. RowsInv'
    BY <2>1, <2>5 DEF RowsInv, ShownInv, Once
  <2> QED BY <2>6, <2>7 DEF ShownInv
<1> QED BY <1>1, <1>2

(* Nothing is in an empty queue.                                           *)
LEMMA InNothing == Seqs!ToSet(<<>>) = {} /\ DOMAIN <<>> = {}
BY DEF Seqs!ToSet

(* The connection ends: its frames are lost, and then those of the TUI.    *)
LEMMA LostShown ==
  ASSUME ShownInv, Drop \/ Lost \/ GoOffline
  PROVE  ShownInv'
<1>1. /\ UNCHANGED <<kind, srv, store, adopted, stashed, pane>> /\ ~link' /\ wire' = <<>>
      /\ inbox' = inbox \/ inbox' = <<>>
      /\ state' = "Offline" => inbox' = <<>>
  BY DEF Drop, Lost, GoOffline, Cut, serverVars, clientVars, paneVars, ShownInv, InboxInv
<1>2. Seqs!ToSet(inbox') \subseteq Seqs!ToSet(inbox) /\ Seqs!ToSet(wire') = {}
  BY <1>1, InNothing
<1>3. PlainInv'
  BY <1>1, <1>2 DEF ShownInv, PlainInv
<1>4. InboxInv'
  BY <1>1, <1>2 DEF ShownInv, InboxInv
<1>5. \A m : RowOK(m) => RowOK(m)'
  BY <1>1 DEF RowOK, RowData
<1>6. RowsInv'
  BY <1>1, <1>5 DEF ShownInv, RowsInv, Once
<1> QED BY <1>3, <1>4, <1>6 DEF ShownInv

(* A connect: the rows of the server as they are, and a pane that is to be *)
(* loaded anew.                                                            *)
LEMMA ConnectShown ==
  ASSUME DelInv, ShownInv, Connect
  PROVE  ShownInv'
<1> DEFINE all == [i \in DOMAIN srv |-> i]
           b   == [t |-> "sync_batch", rows |-> RowsOf(all)]
<1>1. /\ UNCHANGED <<kind, srv, store, adopted, inbox, pane>> /\ stashed' = 0 /\ link'
      /\ state = "Offline" /\ state' = "Joining"
      /\ kind # "room" => wire' = <<>> \o <<b>>
  BY DEF Connect, serverVars, paneVars
<1>2. all \in Seq(DOMAIN srv)
  BY ServerRows, SeqDef DEF DelInv
<1>3. HasRows(b) /\ b.rows = RowsOf(all) /\ b.t = "sync_batch"
  BY DEF HasRows
<1> HIDE DEF all, b
<1>4. Unedited(b, srv)
  BY <1>2, <1>3, FrameOfRows DEF DelInv
<1>5. inbox = <<>> /\ Seqs!ToSet(inbox) = {} /\ DOMAIN inbox = {}
  BY <1>1, InNothing DEF ShownInv, InboxInv
<1>6. kind # "room" => Seqs!ToSet(wire') = {b}
  <2>1. kind # "room" => wire' = <<b>>
    BY <1>1
  <2> QED BY <2>1 DEF Seqs!ToSet
<1>7. PlainInv'
  BY <1>1, <1>3, <1>4, <1>5, <1>6 DEF ShownInv, PlainInv
<1>8. InboxInv'
  BY <1>1, <1>5 DEF InboxInv
<1>9. \A m : RowOK(m) => RowOK(m)'
  BY <1>1 DEF RowOK, RowData
<1>10. RowsInv'
  BY <1>1, <1>9 DEF ShownInv, RowsInv, Once
<1> QED BY <1>7, <1>8, <1>10 DEF ShownInv

-----------------------------------------------------------------------------
(* What a frame makes of the pane.                                         *)

(* The store has a reaction to message i.                                  *)
StoreLikes(i) == i \in DOMAIN store /\ store[i].liked

(* The row m is what the frame f makes of the row old: what the frame      *)
(* marks is a tombstone, only an edit changes a body, and a reaction that  *)
(* is looked at is as the store has it.                                    *)
Follows(f, old, m) ==
  /\ m \in DisplayRow /\ m.id = old.id
  /\ \/ Marks(f, m.id) /\ m.deleted /\ m.body = NoBody
     \/ /\ ~Marks(f, m.id) /\ (m.deleted <=> old.deleted)
        /\ m.body = old.body \/ (f.t = "edited" /\ f.id = m.id)
  /\ m.liked => (old.liked /\ ~Rereads(f, m.id)) \/ StoreLikes(m.id)

(* The row m is new, and as the frame f has it.                            *)
Enters(f, m) ==
  /\ m \in DisplayRow /\ Carries(f, m.id)
  /\ IF m.deleted THEN Deletes(f, m.id) /\ m.body = NoBody
     ELSE Brings(f, m.id) /\ Reads(f, m.id, m.body)
  /\ m.liked => StoreLikes(m.id)

(* The pane x is what the frame f makes of the pane p.                     *)
Shows(f, p, x) ==
  /\ x \in Seq(DisplayRow) /\ Once(x)
  /\ \A m \in Seqs!ToSet(x) : Enters(f, m) \/ \E old \in Seqs!ToSet(p) : Follows(f, old, m)

(* Such a pane is right once the frame is handled.                         *)
LEMMA ShowsOK ==
  ASSUME DelInv, ShownInv, NEW f, Seqs!ToSet(inbox) = Seqs!ToSet(inbox') \cup {f},
         UNCHANGED <<kind, srv, store, wire, adopted, link, state>>,
         \A i \in DOMAIN srv : link /\ srv[i].deleted /\ Brings(f, i) => Due(i)',
         Shows(f, pane, pane')
  PROVE  RowsInv'
<1>1. /\ kind # "room" => Unedited(f, srv)
      /\ kind = "dm" => \A i : Carries(f, i) => i \in DOMAIN store
  BY DEF ShownInv, InboxInv, PlainInv
<1>2. FrameOK(f, srv) /\ PlainInv /\ srv \in Seq(ServerRow)
  BY DEF ShownInv, InboxInv, DelInv
<1>3. /\ \A i : MarkedBy(inbox, i) => MarkedBy(inbox', i) \/ Marks(f, i)
      /\ \A i : Due(i) => Due(i)' \/ Marks(f, i)
  BY DEF MarkedBy, Due
<1>4. \A i : DueLikes(i) => DueLikes(i)' \/ Rereads(f, i)
  <2>1. \A g, i : Rereads(g, i) => Rereads(g, i)'
    BY DEF Rereads, LiveReads
  <2>2. \A i : Marks(f, i) => Rereads(f, i)
    BY DEF Rereads
  <2> QED BY <1>3, <2>1, <2>2 DEF DueLikes
<1>5. ASSUME NEW old \in Seqs!ToSet(pane), NEW m, Follows(f, old, m) PROVE RowOK(m)'
  <2>1. RowOK(old) /\ m.id = old.id /\ m \in DisplayRow
    BY <1>5 DEF ShownInv, RowsInv, Follows
  <2>2. m.deleted => srv[m.id].deleted
    BY <1>2, <1>5, <2>1, MarksDelete DEF Follows, FrameOK, RowOK, RowData
  <2>3. kind # "room" /\ srv[m.id].body = 0 =>
          m.body = IF m.deleted THEN NoBody ELSE Plain(srv[m.id].epoch)
    <3> SUFFICES ASSUME kind # "room", srv[m.id].body = 0
                 PROVE  m.body = IF m.deleted THEN NoBody ELSE Plain(srv[m.id].epoch)
      OBVIOUS
    <3>1. ~(f.t = "edited" /\ f.id = m.id)
      <4>1. Unedited(f, srv) /\ m.id \in DOMAIN srv
        BY <1>1, <2>1 DEF RowOK, RowData
      <4> QED BY <4>1 DEF Unedited
    <3> QED BY <1>5, <2>1, <3>1 DEF Follows, RowOK, RowData
  <2>4. m.liked => m.id \in DOMAIN store
    BY <1>5, <2>1 DEF Follows, RowOK, RowData, StoreLikes
  <2>5. RowData(m)'
    BY <2>1, <2>2, <2>3, <2>4 DEF RowOK, RowData
  <2>6. ASSUME link, state = "Online" PROVE RowDue(m)'
    <3>1. RowDue(old)
      BY <2>1, <2>6 DEF RowOK
    <3>2. srv[m.id].deleted => m.deleted \/ Due(m.id)'
      BY <1>3, <1>5, <2>1, <3>1 DEF RowDue, Follows
    <3>3. m.liked => store[m.id].liked \/ DueLikes(m.id)'
      BY <1>4, <1>5, <2>1, <3>1 DEF RowDue, Follows, StoreLikes
    <3> QED BY <3>2, <3>3 DEF RowDue
  <2> QED BY <2>5, <2>6 DEF RowOK
<1>6. ASSUME NEW m, Enters(f, m) PROVE RowOK(m)'
  <2>1. /\ m \in DisplayRow /\ Carries(f, m.id) /\ m.id \in DOMAIN srv
        /\ m.deleted => srv[m.id].deleted
    BY <1>2, <1>6 DEF Enters, FrameOK, Carries
  <2>2. kind # "room" /\ srv[m.id].body = 0 =>
          m.body = IF m.deleted THEN NoBody ELSE Plain(srv[m.id].epoch)
    <3> SUFFICES ASSUME kind # "room", srv[m.id].body = 0
                 PROVE  m.body = IF m.deleted THEN NoBody ELSE Plain(srv[m.id].epoch)
      OBVIOUS
    <3>1. CASE m.deleted
      BY <1>6, <3>1 DEF Enters
    <3>2. CASE ~m.deleted
      <4>1. Unedited(f, srv) /\ Reads(f, m.id, m.body)
        BY <1>1, <1>6, <3>2 DEF Enters
      <4>2. m.body = Plain(srv[m.id].epoch)
        BY <1>2, <2>1, <4>1, PlainReads
      <4> QED BY <3>2, <4>2
    <3> QED BY <3>1, <3>2
  <2>3. RowData(m)'
    BY <1>1, <1>6, <2>1, <2>2 DEF RowData, Enters, StoreLikes
  <2>4. link => RowDue(m)'
    BY <1>6, <2>1 DEF RowDue, Enters, StoreLikes
  <2> QED BY <2>3, <2>4 DEF RowOK
<1> QED BY <1>5, <1>6 DEF Shows, RowsInv, Once

(* Rows that are changed where they are.                                   *)
LEMMA InPlace ==
  ASSUME NEW p \in Seq(DisplayRow), Once(p), NEW x, DOMAIN x = DOMAIN p,
         x = [n \in DOMAIN p |-> x[n]],
         \A n \in DOMAIN p : x[n] \in DisplayRow /\ x[n].id = p[n].id
  PROVE  x \in Seq(DisplayRow) /\ Once(x)
<1>1. PICK k \in Nat : DOMAIN p = 1..k
  BY LenProperties
<1>2. x \in [1..k -> DisplayRow]
  BY <1>1
<1>3. x \in Seq(DisplayRow)
  BY <1>2, SeqDef
<1> QED BY <1>3 DEF Once

(* A row that is put at the end.                                           *)
LEMMA AtEnd ==
  ASSUME NEW p \in Seq(DisplayRow), Once(p), NEW m \in DisplayRow, ~InPane(p, m.id)
  PROVE  /\ Append(p, m) \in Seq(DisplayRow) /\ Once(Append(p, m))
         /\ Seqs!ToSet(Append(p, m)) = Seqs!ToSet(p) \cup {m}
<1>1. PICK k \in Nat : /\ DOMAIN p = 1..k /\ DOMAIN Append(p, m) = 1..(k + 1)
                       /\ Append(p, m) \in Seq(DisplayRow)
                       /\ Append(p, m)[k + 1] = m /\ \A n \in 1..k : Append(p, m)[n] = p[n]
  BY AppendProperties, LenProperties
<1>2. 1..(k + 1) = 1..k \cup {k + 1}
  OBVIOUS
<1>3. Once(Append(p, m))
  BY <1>1, <1>2 DEF Once, InPane
<1>4. Seqs!ToSet(Append(p, m)) = Seqs!ToSet(p) \cup {m}
  BY <1>1, <1>2 DEF Seqs!ToSet
<1> QED BY <1>1, <1>3, <1>4

(* Rows of the pane.                                                       *)
LEMMA Displayed ==
  /\ \A i \in RowIds, b \in Bodies :
       /\ Shown(i, b) \in DisplayRow /\ Shown(i, b).id = i /\ Shown(i, b).body = b
       /\ ~Shown(i, b).deleted /\ ~Shown(i, b).liked
  /\ \A i \in RowIds :
       LET m == DisplayMessage(i, Tombstone)
       IN  m \in DisplayRow /\ m.id = i /\ m.body = NoBody /\ m.deleted /\ ~m.liked
BY DEF Shown, DisplayMessage, Fresh, Tombstone, DisplayRow, NoBody, Bodies

(* The reactions of some rows are looked up.                               *)
LEMMA Synced ==
  ASSUME NEW p \in Seq(DisplayRow), Once(p), NEW ids
  PROVE  /\ SyncReactions(p, ids) \in Seq(DisplayRow) /\ Once(SyncReactions(p, ids))
         /\ \A m \in Seqs!ToSet(SyncReactions(p, ids)) : m \in DisplayRow /\ \E q \in Seqs!ToSet(p) :
              /\ m.id = q.id /\ m.body = q.body /\ (m.deleted <=> q.deleted)
              /\ m.liked => (q.liked /\ q.id \notin ids) \/ StoreLikes(q.id)
<1> DEFINE x == SyncReactions(p, ids)
<1>1. DOMAIN x = DOMAIN p /\ x = [n \in DOMAIN p |-> x[n]]
  BY DEF SyncReactions
<1>2. \A n \in DOMAIN p : p[n] \in DisplayRow
  BY LenProperties
<1>3. ASSUME NEW n \in DOMAIN p
      PROVE  /\ x[n] \in DisplayRow /\ x[n].id = p[n].id /\ x[n].body = p[n].body
             /\ x[n].deleted <=> p[n].deleted
             /\ x[n].liked => (p[n].liked /\ p[n].id \notin ids) \/ StoreLikes(p[n].id)
  <2>1. x[n] = IF p[n].id \notin ids THEN p[n]
               ELSE [p[n] EXCEPT !.liked = p[n].id \in DOMAIN store /\ store[p[n].id].liked]
    BY DEF SyncReactions
  <2> HIDE DEF x
  <2>2. CASE p[n].id \notin ids
    BY <1>2, <2>1, <2>2
  <2>3. CASE p[n].id \in ids
    <3>1. PICK l \in BOOLEAN : l <=> StoreLikes(p[n].id)
      OBVIOUS
    <3>2. PICK q \in DisplayRow : q = p[n]
      BY <1>2
    <3> QED BY <2>1, <2>3, <3>1, <3>2 DEF StoreLikes, DisplayRow
  <2> QED BY <2>2, <2>3
<1> HIDE DEF x
<1>4. x \in Seq(DisplayRow) /\ Once(x)
  BY <1>1, <1>3, InPlace
<1>5. \A m \in Seqs!ToSet(x) : m \in DisplayRow /\ \E q \in Seqs!ToSet(p) :
        /\ m.id = q.id /\ m.body = q.body /\ (m.deleted <=> q.deleted)
        /\ m.liked => (q.liked /\ q.id \notin ids) \/ StoreLikes(q.id)
  BY <1>1, <1>3 DEF Seqs!ToSet
<1> QED BY <1>4, <1>5 DEF x

(* The panes.                                                              *)
Panes == {p \in Seq(DisplayRow) : Once(p)}

(* A message is marked as deleted.                                         *)
LEMMA MarkedRows ==
  ASSUME NEW p \in Panes, NEW i \in RowIds
  PROVE  /\ MarkDeleted(p, i) \in Panes
         /\ \A m \in Seqs!ToSet(MarkDeleted(p, i)) : \E q \in Seqs!ToSet(p) :
              m.id = q.id /\ m = IF q.id = i THEN DisplayMessage(i, Tombstone) ELSE q
<1> DEFINE x == MarkDeleted(p, i)
<1>1. DOMAIN x = DOMAIN p /\ x = [n \in DOMAIN p |-> x[n]]
  BY DEF MarkDeleted, Touch
<1>2. p \in Seq(DisplayRow) /\ Once(p) /\ \A n \in DOMAIN p : p[n] \in DisplayRow
  BY LenProperties DEF Panes
<1>3. \A n \in DOMAIN p : x[n] = IF p[n].id = i THEN DisplayMessage(i, Tombstone) ELSE p[n]
  BY DEF MarkDeleted, Touch
<1> HIDE DEF x
<1>4. \A n \in DOMAIN p : x[n] \in DisplayRow /\ x[n].id = p[n].id
  BY <1>2, <1>3, Displayed
<1>5. x \in Seq(DisplayRow) /\ Once(x)
  BY <1>1, <1>2, <1>4, InPlace
<1>6. \A m \in Seqs!ToSet(x) : \E q \in Seqs!ToSet(p) :
        m.id = q.id /\ m = IF q.id = i THEN DisplayMessage(i, Tombstone) ELSE q
  BY <1>1, <1>3, <1>4 DEF Seqs!ToSet
<1> QED BY <1>5, <1>6 DEF x, Panes

(* A message is put at the end.                                            *)
LEMMA AddedRow ==
  ASSUME NEW p \in Panes, NEW i \in RowIds, ~InPane(p, i), NEW b \in Bodies
  PROVE  /\ Append(p, Shown(i, b)) \in Panes
         /\ Seqs!ToSet(Append(p, Shown(i, b))) = Seqs!ToSet(p) \cup {Shown(i, b)}
<1>1. Shown(i, b) \in DisplayRow /\ Shown(i, b).id = i
  BY Displayed
<1>2. p \in Seq(DisplayRow) /\ Once(p)
  BY DEF Panes
<1>3. ~InPane(p, Shown(i, b).id)
  BY <1>1
<1> QED BY <1>1, <1>2, <1>3, AtEnd DEF Panes

(* One row of a batch is replayed.                                         *)
LEMMA ReplayedRow ==
  ASSUME NEW p \in Panes, NEW r \in BatchRow
  PROVE  ReplayRow(p, r) \in Panes
<1>1. r.id \in RowIds /\ BodyIf(HistoryReads(r.epoch), r) \in Bodies
  BY DEF BatchRow, Bodies, NoBody, BodyIf
<1>2. ReplayRow(p, r) = IF r.deleted THEN MarkDeleted(p, r.id)
                        ELSE IF InPane(p, r.id) \/ SkipsRow(r) THEN p
                        ELSE Append(p, Shown(r.id, BodyIf(HistoryReads(r.epoch), r)))
  BY DEF ReplayRow
<1> QED BY <1>1, <1>2, MarkedRows, AddedRow

(* A fold from the left, step by step, of ReplayRow.                       *)
LEMMA ReplaySteps ==
  ASSUME NEW st \in Panes, NEW rows \in Seq(BatchRow)
  PROVE  \E f : /\ f \in [0..Len(rows) -> Panes] /\ f[0] = st
                /\ \A k \in 1..Len(rows) : f[k] = ReplayRow(f[k - 1], rows[k])
                /\ f[Len(rows)] = Seqs!FoldLeft(ReplayRow, st, rows)
<1>1. PICK n \in Nat : n = Len(rows) /\ DOMAIN rows = 1..n /\ \A k \in 1..n : rows[k] \in BatchRow
  BY LenProperties
<1> DEFINE Eq(h) == h = [s \in SUBSET (1..n) |->
                           IF s = {} THEN st
                           ELSE ReplayRow(h[s \ {Seqs!Max(s)}], rows[Seqs!Max(s)])]
           G == [k \in 1..n |-> [x \in Panes |-> ReplayRow(x, rows[k])]]
<1>2. \A x \in Panes : \A k \in 1..n : ReplayRow(x, rows[k]) \in Panes
  BY <1>1, ReplayedRow
<1>3. \A k \in 1..n : \A x \in Panes : G[k][x] = ReplayRow(x, rows[k]) /\ G[k][x] \in Panes
  BY <1>2
<1> HIDE DEF G
<1>4. Foldable(n, Panes, st, G)
  BY <1>3 DEF Foldable
<1>5. \E h : Eq(h)
  <2>1. PICK h : FoldOf(n, Panes, st, G, h)
    BY <1>4, FoldExists
  <2>2. \A s \in SUBSET (1..n) : s # {} =>
          Seqs!Max(s) \in 1..n /\ s \ {Seqs!Max(s)} \in SUBSET (1..n)
    BY MaxIsIn
  <2>3. \A s \in SUBSET (1..n) :
          h[s] = IF s = {} THEN st
                 ELSE ReplayRow(h[s \ {Seqs!Max(s)}], rows[Seqs!Max(s)])
    BY <1>3, <2>1, <2>2 DEF FoldOf
  <2> QED BY <2>1, <2>3 DEF FoldOf
<1>6. PICK h : Eq(h) /\ Seqs!FoldLeft(ReplayRow, st, rows) = h[1..n]
  <2>1. Seqs!FoldLeft(ReplayRow, st, rows)
          = LET iter == CHOOSE iter : iter = [s \in SUBSET DOMAIN rows |->
                          IF s = {} THEN st
                          ELSE ReplayRow(iter[s \ {Seqs!Max(s)}], rows[Seqs!Max(s)])]
            IN  iter[DOMAIN rows]
    BY DEF Seqs!FoldLeft, Seqs!MapThenFoldSet
  <2>2. Seqs!FoldLeft(ReplayRow, st, rows) = (CHOOSE h : Eq(h))[1..n]
    BY <1>1, <2>1
  <2>3. Eq(CHOOSE h : Eq(h))
    <3> HIDE DEF Eq
    <3> QED BY <1>5
  <2> HIDE DEF Eq
  <2> QED BY <2>2, <2>3
<1>7. h[1..0] = st /\ \A k \in 1..n : h[1..k] = ReplayRow(h[1..(k - 1)], rows[k])
  <2>1. h[1..0] = st
    BY <1>6
  <2>2. ASSUME NEW k \in 1..n PROVE h[1..k] = ReplayRow(h[1..(k - 1)], rows[k])
    BY <1>6, Firsts
  <2> QED BY <2>1, <2>2
<1>8. \A k \in 0..n : h[1..k] \in Panes
  <2> DEFINE S == {k \in Nat : k <= n => h[1..k] \in Panes}
  <2>1. 0 \in S
    BY <1>7
  <2>2. ASSUME NEW k \in Nat, k \in S PROVE k + 1 \in S
    <3> SUFFICES ASSUME k + 1 <= n PROVE h[1..(k + 1)] \in Panes
      OBVIOUS
    <3>1. k + 1 \in 1..n /\ (k + 1) - 1 = k /\ h[1..k] \in Panes
      BY <2>2
    <3> QED BY <1>2, <1>7, <3>1
  <2>3. \A k \in 0..n : k \in S
    <3> HIDE DEF S
    <3> QED BY <2>1, <2>2, NatSet
  <2> QED BY <2>3
<1> DEFINE f == [k \in 0..n |-> h[1..k]]
<1>9. /\ f \in [0..n -> Panes] /\ f[0] = st /\ f[n] = h[1..n]
      /\ \A k \in 1..n : f[k] = ReplayRow(f[k - 1], rows[k])
  BY <1>7, <1>8
<1> HIDE DEF f
<1> QED BY <1>1, <1>6, <1>9

(* Of the pane p the first k rows of a batch make the pane x: what they    *)
(* delete is a tombstone, and nothing else changes of what was there; what *)
(* is new is one of them as it is read.                                    *)
Replayed(p, rows, k, x) ==
  /\ x \in Panes
  /\ \A m \in Seqs!ToSet(x) :
       \/ DeletesBy(rows, k, m.id) /\ m = DisplayMessage(m.id, Tombstone)
       \/ ~DeletesBy(rows, k, m.id) /\ m \in Seqs!ToSet(p)
       \/ \E j \in 1..k : /\ rows[j].id = m.id /\ ~rows[j].deleted
                          /\ m = Shown(m.id, BodyIf(HistoryReads(rows[j].epoch), rows[j]))
  /\ \A m \in Seqs!ToSet(x) : \/ \E q \in Seqs!ToSet(p) : q.id = m.id
                              \/ \E j \in 1..k : rows[j].id = m.id

(* One more row.                                                           *)
LEMMA ReplayedStep ==
  ASSUME NEW p, NEW rows \in Seq(BatchRow), NEW k \in Nat, k + 1 \in 1..Len(rows),
         NEW x, Replayed(p, rows, k, x)
  PROVE  Replayed(p, rows, k + 1, ReplayRow(x, rows[k + 1]))
<1>1. PICK r : r = rows[k + 1]
  OBVIOUS
<1>2. r \in BatchRow /\ r.id \in RowIds /\ BodyIf(HistoryReads(r.epoch), r) \in Bodies
  <2>1. r \in BatchRow
    BY <1>1, LenProperties
  <2> QED BY <2>1 DEF BatchRow, Bodies, NoBody, BodyIf
<1>3. \A j \in 1..k : j \in 1..(k + 1)
  OBVIOUS
<1>4. \A j \in 1..(k + 1) : j \in 1..k \/ j = k + 1
  OBVIOUS
<1>5. k + 1 \in 1..(k + 1)
  OBVIOUS
<1>6. \A i : DeletesBy(rows, k + 1, i) <=> DeletesBy(rows, k, i) \/ (r.id = i /\ r.deleted)
  BY <1>1, <1>3, <1>4, <1>5 DEF DeletesBy
<1> DEFINE y == ReplayRow(x, rows[k + 1])
           Old(m, j) == \/ DeletesBy(rows, j, m.id) /\ m = DisplayMessage(m.id, Tombstone)
                        \/ ~DeletesBy(rows, j, m.id) /\ m \in Seqs!ToSet(p)
           New(m, j) == /\ rows[j].id = m.id /\ ~rows[j].deleted
                        /\ m = Shown(m.id, BodyIf(HistoryReads(rows[j].epoch), rows[j]))
           Known(m, j) == \/ \E q \in Seqs!ToSet(p) : q.id = m.id
                          \/ \E l \in 1..j : rows[l].id = m.id
<1>7. y = IF r.deleted THEN MarkDeleted(x, r.id)
          ELSE IF InPane(x, r.id) \/ SkipsRow(r) THEN x
          ELSE Append(x, Shown(r.id, BodyIf(HistoryReads(r.epoch), r)))
  BY <1>1 DEF ReplayRow
<1>8. y \in Panes /\ x \in Panes
  BY <1>1, <1>2, ReplayedRow DEF Replayed
<1>9. \A m \in Seqs!ToSet(x) : Known(m, k) /\ (Old(m, k) \/ \E j \in 1..k : New(m, j))
  BY DEF Replayed
<1> HIDE DEF y
<1>10. ASSUME NEW m \in Seqs!ToSet(y)
       PROVE  Known(m, k + 1) /\ (Old(m, k + 1) \/ \E j \in 1..(k + 1) : New(m, j))
  <2>1. CASE r.deleted
    <3>1. PICK q \in Seqs!ToSet(x) :
            m.id = q.id /\ m = IF q.id = r.id THEN DisplayMessage(r.id, Tombstone) ELSE q
      BY <1>2, <1>7, <1>8, <2>1, MarkedRows
    <3>2. CASE m.id = r.id
      <4>1. Old(m, k + 1) /\ Known(m, k + 1)
        BY <1>1, <1>5, <1>6, <2>1, <3>1, <3>2
      <4> QED BY <4>1
    <3>3. CASE m.id # r.id
      <4>1. m = q /\ Known(m, k) /\ (Old(m, k) \/ \E j \in 1..k : New(m, j))
        <5> HIDE DEF Known, Old, New
        <5> QED BY <1>9, <3>1, <3>3
      <4>2. Old(m, k) => Old(m, k + 1)
        BY <1>6, <3>3
      <4>3. Known(m, k) => Known(m, k + 1)
        BY <1>3
      <4> HIDE DEF Known, Old, New
      <4> QED BY <1>3, <4>1, <4>2, <4>3
    <3> QED BY <3>2, <3>3
  <2>2. CASE ~r.deleted /\ m \in Seqs!ToSet(x)
    <3>1. Old(m, k) => Old(m, k + 1)
      BY <1>6, <2>2
    <3>2. Known(m, k) => Known(m, k + 1)
      BY <1>3
    <3> HIDE DEF Known, Old, New
    <3> QED BY <1>3, <1>9, <2>2, <3>1, <3>2
  <2>3. CASE ~r.deleted /\ m \notin Seqs!ToSet(x)
    <3>1. m = Shown(r.id, BodyIf(HistoryReads(r.epoch), r))
      BY <1>2, <1>7, <1>8, <2>3, AddedRow
    <3>2. m.id = r.id
      BY <1>2, <3>1, Displayed
    <3>3. New(m, k + 1) /\ Known(m, k + 1)
      BY <1>1, <1>5, <2>3, <3>1, <3>2
    <3> HIDE DEF Known, Old, New
    <3> QED BY <1>5, <3>3
  <2> QED BY <2>1, <2>2, <2>3
<1> QED BY <1>8, <1>10 DEF Replayed, y

(* All the rows.                                                           *)
LEMMA BatchReplayed ==
  ASSUME NEW p \in Panes, NEW rows \in Seq(BatchRow)
  PROVE  Replayed(p, rows, Len(rows), Seqs!FoldLeft(ReplayRow, p, rows))
<1>1. PICK n \in Nat : n = Len(rows)
  BY LenProperties
<1>2. PICK f : /\ f \in [0..n -> Panes] /\ f[0] = p
               /\ \A k \in 1..n : f[k] = ReplayRow(f[k - 1], rows[k])
               /\ f[n] = Seqs!FoldLeft(ReplayRow, p, rows)
  BY <1>1, ReplaySteps
<1> DEFINE S == {k \in Nat : k <= n => Replayed(p, rows, k, f[k])}
<1>3. 0 \in S
  <2>1. 1..0 = {}
    OBVIOUS
  <2>2. \A i : ~DeletesBy(rows, 0, i)
    BY <2>1 DEF DeletesBy
  <2>3. Replayed(p, rows, 0, p)
    BY <2>2 DEF Replayed
  <2> QED BY <1>2, <2>3
<1>4. ASSUME NEW k \in Nat, k \in S PROVE k + 1 \in S
  <2> SUFFICES ASSUME k + 1 <= n PROVE Replayed(p, rows, k + 1, f[k + 1])
    OBVIOUS
  <2>1. k + 1 \in 1..n /\ (k + 1) - 1 = k /\ Replayed(p, rows, k, f[k])
    BY <1>4
  <2>2. f[k + 1] = ReplayRow(f[k], rows[k + 1])
    BY <1>2, <2>1
  <2> QED BY <1>1, <2>1, <2>2, ReplayedStep
<1>5. n \in S
  <2> HIDE DEF S
  <2> QED BY <1>3, <1>4, NatSet
<1> QED BY <1>1, <1>2, <1>5

(* A frame that the pane makes nothing of.                                 *)
LEMMA Unmoved ==
  ASSUME ShownInv, NEW f, UNCHANGED pane,
         \A m \in Seqs!ToSet(pane) : ~Rereads(f, m.id)
  PROVE  Shows(f, pane, pane')
<1>1. pane \in Seq(DisplayRow) /\ Once(pane)
  BY DEF ShownInv, RowsInv
<1>2. \A m \in Seqs!ToSet(pane) : m \in DisplayRow
  <2>1. \A n \in DOMAIN pane : pane[n] \in DisplayRow
    BY <1>1, LenProperties
  <2> QED BY <2>1 DEF Seqs!ToSet
<1>3. \A m \in Seqs!ToSet(pane) : Follows(f, m, m)
  BY <1>2 DEF Follows, Rereads
<1> QED BY <1>1, <1>3 DEF Shows

(* A message.                                                              *)
LEMMA MessageRedraws ==
  ASSUME ShownInv, DelInv, NEW f, FrameOK(f, srv), f.t = "message", pane' = AddMessage(pane, f)
  PROVE  Shows(f, pane, pane')
<1>1. \A m : ~Rereads(f, m.id)
  BY DEF Rereads, Marks
<1>2. CASE InPane(pane, f.id)
  BY <1>1, <1>2, Unmoved DEF AddMessage
<1>3. CASE ~InPane(pane, f.id)
  <2>1. f.id \in RowIds /\ BodyIf(LiveReads(f.epoch), f) \in Bodies
    BY ServerRows DEF DelInv, FrameOK, RowIds, BodyIf, NoBody, Bodies
  <2>2. PICK b \in Bodies : b = BodyIf(LiveReads(f.epoch), f)
    BY <2>1
  <2>3. pane \in Panes
    BY DEF Panes, ShownInv, RowsInv
  <2>4. pane' = Append(pane, Shown(f.id, b))
    BY <1>3, <2>2 DEF AddMessage
  <2>5. pane' \in Panes /\ Seqs!ToSet(pane') = Seqs!ToSet(pane) \cup {Shown(f.id, b)}
    BY <1>3, <2>1, <2>3, <2>4, AddedRow
  <2>6. \A m \in Seqs!ToSet(pane) : m \in DisplayRow
    <3>1. \A n \in DOMAIN pane : pane[n] \in DisplayRow
      BY <2>3, LenProperties DEF Panes
    <3> QED BY <3>1 DEF Seqs!ToSet
  <2>7. \A m \in Seqs!ToSet(pane) : Follows(f, m, m)
    BY <1>1, <2>6 DEF Follows, Rereads
  <2>8. Enters(f, Shown(f.id, b))
    BY <2>1, <2>2, Displayed DEF Enters, Carries, Brings, Reads
  <2> QED BY <2>5, <2>7, <2>8 DEF Shows, Panes
<1> QED BY <1>2, <1>3

(* An edit.                                                                *)
LEMMA EditRedraws ==
  ASSUME ShownInv, DelInv, NEW f, FrameOK(f, srv), f.t = "edited",
         pane' = IF LiveReads(f.epoch) THEN ApplyEdit(pane, f.id, f.body) ELSE pane
  PROVE  Shows(f, pane, pane')
<1>1. CASE ~LiveReads(f.epoch)
  <2>1. \A m : ~Rereads(f, m.id)
    BY <1>1 DEF Rereads, Marks
  <2> QED BY <1>1, <2>1, Unmoved
<1>2. CASE LiveReads(f.epoch)
  <2>1. pane \in Seq(DisplayRow) /\ Once(pane) /\ \A n \in DOMAIN pane : pane[n] \in DisplayRow
    BY LenProperties DEF ShownInv, RowsInv
  <2>2. /\ DOMAIN pane' = DOMAIN pane /\ pane' = [n \in DOMAIN pane |-> pane'[n]]
        /\ \A n \in DOMAIN pane :
             pane'[n] = IF pane[n].id = f.id
                        THEN [pane[n] EXCEPT !.body = f.body, !.liked = FALSE] ELSE pane[n]
    BY <1>2 DEF ApplyEdit, Touch
  <2>3. f.body \in Bodies /\ \A i : ~Marks(f, i)
    BY DEF FrameOK, Marks
  <2>4. ASSUME NEW n \in DOMAIN pane
        PROVE  pane'[n] \in DisplayRow /\ pane'[n].id = pane[n].id /\ Follows(f, pane[n], pane'[n])
    <3>1. PICK q \in DisplayRow : q = pane[n]
      BY <2>1
    <3>2. CASE q.id = f.id
      <4>1. pane'[n] = [q EXCEPT !.body = f.body, !.liked = FALSE]
        BY <2>2, <3>1, <3>2
      <4>2. /\ pane'[n] \in DisplayRow /\ pane'[n].id = q.id
            /\ (pane'[n].deleted <=> q.deleted) /\ ~pane'[n].liked
        BY <2>3, <4>1 DEF DisplayRow
      <4> QED BY <2>3, <3>1, <3>2, <4>2 DEF Follows
    <3>3. CASE q.id # f.id
      <4>1. pane'[n] = q
        BY <2>2, <3>1, <3>3
      <4> QED BY <2>3, <3>1, <3>3, <4>1 DEF Follows, Rereads
    <3> QED BY <3>2, <3>3
  <2>5. pane' \in Seq(DisplayRow) /\ Once(pane')
    <3>1. PICK x : x = pane'
      OBVIOUS
    <3> QED BY <2>1, <2>2, <2>4, <3>1, InPlace
  <2>6. \A m \in Seqs!ToSet(pane') : \E q \in Seqs!ToSet(pane) : Follows(f, q, m)
    BY <2>2, <2>4 DEF Seqs!ToSet
  <2> QED BY <2>5, <2>6 DEF Shows
<1> QED BY <1>1, <1>2

(* A deletion.                                                             *)
LEMMA DeleteRedraws ==
  ASSUME ShownInv, DelInv, NEW f, FrameOK(f, srv), f.t = "deleted",
         pane' = MarkDeleted(pane, f.id)
  PROVE  Shows(f, pane, pane')
<1>1. \A i : (Marks(f, i) <=> i = f.id) /\ (Rereads(f, i) <=> i = f.id)
  BY DEF Rereads, Marks
<1>2. f.id \in RowIds
  <2>1. f.id \in DOMAIN srv
    BY DEF FrameOK, Deletes
  <2> QED BY <2>1, ServerRows DEF DelInv, RowIds
<1>3. pane \in Panes
  BY DEF Panes, ShownInv, RowsInv
<1>4. /\ pane' \in Panes
      /\ \A m \in Seqs!ToSet(pane') : \E q \in Seqs!ToSet(pane) :
           m.id = q.id /\ m = IF q.id = f.id THEN DisplayMessage(f.id, Tombstone) ELSE q
  BY <1>2, <1>3, MarkedRows
<1>5. \A m \in Seqs!ToSet(pane') : m \in DisplayRow
  <2>1. \A n \in DOMAIN pane' : pane'[n] \in DisplayRow
    BY <1>4, LenProperties DEF Panes
  <2> QED BY <2>1 DEF Seqs!ToSet
<1>6. ASSUME NEW m \in Seqs!ToSet(pane')
      PROVE  \E q \in Seqs!ToSet(pane) : Follows(f, q, m)
  <2>1. PICK q \in Seqs!ToSet(pane) :
          m.id = q.id /\ m = IF q.id = f.id THEN DisplayMessage(f.id, Tombstone) ELSE q
    BY <1>4
  <2>2. Follows(f, q, m)
    BY <1>1, <1>2, <1>5, <2>1, Displayed DEF Follows
  <2> QED BY <2>2
<1> QED BY <1>4, <1>6 DEF Shows, Panes

(* A reaction that comes or goes.                                          *)
LEMMA ReactionRedraws ==
  ASSUME ShownInv, NEW f, f.t \in {"reaction", "reaction_removed"},
         pane' = SyncReactions(pane, {f.id})
  PROVE  Shows(f, pane, pane')
<1>1. \A i : ~Marks(f, i) /\ (Rereads(f, i) <=> i = f.id)
  BY DEF Rereads, Marks
<1>2. pane \in Seq(DisplayRow) /\ Once(pane)
  BY DEF ShownInv, RowsInv
<1>3. PICK ids : ids = {f.id}
  OBVIOUS
<1>4. /\ pane' \in Seq(DisplayRow) /\ Once(pane')
      /\ \A m \in Seqs!ToSet(pane') : m \in DisplayRow /\ \E q \in Seqs!ToSet(pane) :
           /\ m.id = q.id /\ m.body = q.body /\ (m.deleted <=> q.deleted)
           /\ m.liked => (q.liked /\ q.id \notin ids) \/ StoreLikes(q.id)
  BY <1>2, <1>3, Synced
<1>5. \A m \in Seqs!ToSet(pane') : \E q \in Seqs!ToSet(pane) : Follows(f, q, m)
  BY <1>1, <1>3, <1>4 DEF Follows
<1> QED BY <1>4, <1>5 DEF Shows

(* A catch-up.                                                             *)
LEMMA BatchRedraws ==
  ASSUME ShownInv, NEW f, FrameOK(f, srv), f.t = "sync_batch", pane' = Replay(pane, f.rows)
  PROVE  Shows(f, pane, pane')
<1>1. PICK rows \in Seq(BatchRow), n \in Nat : rows = f.rows /\ n = Len(rows)
  <2>1. f.rows \in Seq(BatchRow)
    BY DEF FrameOK, HasRows
  <2> QED BY <2>1, LenProperties
<1>2. \A i : (Marks(f, i) <=> DeletesBy(rows, n, i)) /\ (Rereads(f, i) <=> Marks(f, i))
  BY <1>1 DEF Rereads, Marks
<1>3. \A i : Deletes(f, i) <=> DeletesBy(rows, n, i)
  BY <1>1 DEF Deletes, HasRows
<1>4. pane \in Panes
  BY DEF Panes, ShownInv, RowsInv
<1>5. PICK x, ids : Replayed(pane, rows, n, x) /\ pane' = SyncReactions(x, ids)
  BY <1>1, <1>4, BatchReplayed DEF Replay
<1>6. x \in Seq(DisplayRow) /\ Once(x)
  BY <1>5 DEF Replayed, Panes
<1>7. /\ pane' \in Seq(DisplayRow) /\ Once(pane')
      /\ \A m \in Seqs!ToSet(pane') : m \in DisplayRow /\ \E q \in Seqs!ToSet(x) :
           /\ m.id = q.id /\ m.body = q.body /\ (m.deleted <=> q.deleted)
           /\ m.liked => (q.liked /\ q.id \notin ids) \/ StoreLikes(q.id)
  BY <1>5, <1>6, Synced
<1>8. ASSUME NEW m \in Seqs!ToSet(pane')
      PROVE  Enters(f, m) \/ \E old \in Seqs!ToSet(pane) : Follows(f, old, m)
  <2>1. PICK q \in Seqs!ToSet(x) :
          /\ m.id = q.id /\ m.body = q.body /\ (m.deleted <=> q.deleted)
          /\ m.liked => q.liked \/ StoreLikes(q.id)
    BY <1>7
  <2>2. m \in DisplayRow /\ m.id \in RowIds
    BY <1>7 DEF DisplayRow
  <2>3. CASE DeletesBy(rows, n, q.id) /\ q = DisplayMessage(q.id, Tombstone)
    <3>1. m.deleted /\ m.body = NoBody /\ (m.liked => StoreLikes(m.id))
      BY <2>1, <2>2, <2>3, Displayed
    <3>2. CASE \E old \in Seqs!ToSet(pane) : old.id = q.id
      <4>1. PICK old \in Seqs!ToSet(pane) : old.id = q.id
        BY <3>2
      <4>2. Follows(f, old, m)
        BY <1>2, <2>1, <2>2, <2>3, <3>1, <4>1 DEF Follows
      <4> QED BY <4>2
    <3>3. CASE \E j \in 1..n : rows[j].id = q.id
      <4>1. Carries(f, m.id)
        BY <1>1, <2>1, <3>3 DEF Carries, HasRows
      <4>2. Enters(f, m)
        BY <1>3, <2>1, <2>2, <2>3, <3>1, <4>1 DEF Enters
      <4> QED BY <4>2
    <3> QED BY <1>5, <2>1, <3>2, <3>3 DEF Replayed
  <2>4. CASE ~DeletesBy(rows, n, q.id) /\ q \in Seqs!ToSet(pane)
    <3>1. Follows(f, q, m)
      BY <1>2, <2>1, <2>2, <2>4 DEF Follows
    <3> QED BY <2>4, <3>1
  <2>5. CASE \E j \in 1..n : /\ rows[j].id = q.id /\ ~rows[j].deleted
                             /\ q = Shown(q.id, BodyIf(HistoryReads(rows[j].epoch), rows[j]))
    <3>1. PICK j \in 1..n : /\ rows[j].id = q.id /\ ~rows[j].deleted
                            /\ q = Shown(q.id, BodyIf(HistoryReads(rows[j].epoch), rows[j]))
      BY <2>5
    <3>2. BodyIf(HistoryReads(rows[j].epoch), rows[j]) \in Bodies
      <4>1. rows[j] \in BatchRow
        BY <1>1, LenProperties
      <4> QED BY <4>1 DEF BatchRow, Bodies, NoBody, BodyIf
    <3>3. PICK b \in Bodies : b = BodyIf(HistoryReads(rows[j].epoch), rows[j])
      BY <3>2
    <3>4. q.body = b /\ ~q.deleted /\ ~q.liked
      BY <2>1, <2>2, <3>1, <3>3, Displayed
    <3>5. Carries(f, m.id) /\ Brings(f, m.id) /\ Reads(f, m.id, b)
      BY <1>1, <2>1, <3>1, <3>3 DEF Carries, Brings, Reads, HasRows
    <3>6. Enters(f, m)
      BY <2>1, <2>2, <3>4, <3>5 DEF Enters
    <3> QED BY <3>6
  <2> QED BY <1>5, <2>1, <2>3, <2>4, <2>5 DEF Replayed
<1> QED BY <1>7, <1>8 DEF Shows

(* A page of the server.                                                   *)
LEMMA PageRedraws ==
  ASSUME ShownInv, NEW f, FrameOK(f, srv), f.t = "history_result",
         pane' = PrependRows(pane, f.rows)
  PROVE  Shows(f, pane, pane')
<1>1. PICK rows \in Seq(BatchRow), n \in Nat :
        /\ rows = f.rows /\ n = Len(rows)
        /\ DOMAIN rows = 1..n /\ \A j \in 1..n : rows[j] \in BatchRow
  <2>1. f.rows \in Seq(BatchRow)
    BY DEF FrameOK, HasRows
  <2> QED BY <2>1, LenProperties
<1>2. \A i : ~Marks(f, i) /\ ~Rereads(f, i)
  BY DEF Rereads, Marks
<1>3. HasRows(f)
  BY DEF HasRows
<1>4. \A r \in BatchRow : BodyIf(HistoryReads(r.epoch), r) \in Bodies /\ r.id \in RowIds
  BY DEF BatchRow, Bodies, NoBody, BodyIf
<1>5. \A r \in BatchRow : BuiltRow(r) \in DisplayRow
  <2>1. \A r : BuiltRow(r) = IF r.deleted THEN DisplayMessage(r.id, Tombstone)
                             ELSE Shown(r.id, BodyIf(HistoryReads(r.epoch), r))
    BY DEF BuiltRow
  <2> QED BY <1>4, <2>1, Displayed
<1> DEFINE S == {j \in 1..Len(rows) : rows[j].deleted \/ ~SkipsRow(rows[j])}
           built == Select(rows, S)
           page == [j \in 1..Len(built) |-> BuiltRow(built[j])]
<1>6. pane' = SyncReactions(PrependMessages(pane, page), ReactedTo(rows))
  BY <1>1 DEF PrependRows
<1>7. S \in SUBSET (1..Len(rows))
  OBVIOUS
<1> HIDE DEF S
<1>8. built \in Seq(BatchRow) /\ Chosen(built, rows, S)
  BY <1>1, <1>7, Selected
<1> HIDE DEF built
<1>9. PICK k \in Nat : k = Len(built) /\ DOMAIN built = 1..k /\ \A j \in 1..k : built[j] \in BatchRow
  BY <1>8, LenProperties
<1>10. page \in Seq(DisplayRow) /\ DOMAIN page = 1..k /\ \A j \in 1..k : page[j] = BuiltRow(built[j])
  <2>1. page \in [1..k -> DisplayRow]
    BY <1>5, <1>9
  <2> QED BY <1>9, <2>1, SeqDef
<1> HIDE DEF page
<1>11. \A q \in Seqs!ToSet(page) : \E j \in 1..n : q = BuiltRow(rows[j])
  <2>1. PICK e : \A j \in 1..k : e[j] \in S /\ built[j] = rows[e[j]]
    BY <1>8, <1>9 DEF Chosen
  <2>2. \A j \in 1..k : e[j] \in 1..n /\ page[j] = BuiltRow(rows[e[j]])
    BY <1>1, <1>7, <1>10, <2>1
  <2> QED BY <1>10, <2>2 DEF Seqs!ToSet
<1>12. PICK x, ids : x = PrependMessages(pane, page) /\ ids = ReactedTo(rows)
  OBVIOUS
<1>13. /\ x \in Seq(DisplayRow) /\ Once(x)
       /\ Seqs!ToSet(x) \subseteq Seqs!ToSet(pane) \cup Seqs!ToSet(page)
  BY <1>10, <1>12, Prepended DEF ShownInv, RowsInv
<1>14. /\ pane' \in Seq(DisplayRow) /\ Once(pane')
       /\ \A m \in Seqs!ToSet(pane') : m \in DisplayRow /\ \E q \in Seqs!ToSet(x) :
            /\ m.id = q.id /\ m.body = q.body /\ (m.deleted <=> q.deleted)
            /\ m.liked => (q.liked /\ q.id \notin ids) \/ StoreLikes(q.id)
  BY <1>6, <1>12, <1>13, Synced
<1>15. ASSUME NEW m \in Seqs!ToSet(pane')
       PROVE  Enters(f, m) \/ \E old \in Seqs!ToSet(pane) : Follows(f, old, m)
  <2>1. PICK q \in Seqs!ToSet(x) :
          /\ m.id = q.id /\ m.body = q.body /\ (m.deleted <=> q.deleted)
          /\ m.liked => q.liked \/ StoreLikes(q.id)
    BY <1>14
  <2>2. m \in DisplayRow
    BY <1>14
  <2>3. CASE q \in Seqs!ToSet(pane)
    <3>1. Follows(f, q, m)
      BY <1>2, <2>1, <2>2 DEF Follows
    <3> QED BY <2>3, <3>1
  <2>4. CASE q \in Seqs!ToSet(page)
    <3>1. PICK j \in 1..n : q = BuiltRow(rows[j])
      BY <1>11, <2>4
    <3>2. PICK r \in BatchRow : r = rows[j]
      BY <1>1
    <3>3. PICK b \in Bodies : b = BodyIf(HistoryReads(r.epoch), r) /\ r.id \in RowIds
      BY <1>4
    <3>4. CASE r.deleted
      <4>1. q = DisplayMessage(r.id, Tombstone)
        BY <3>1, <3>2, <3>4 DEF BuiltRow
      <4>2. q.id = r.id /\ q.body = NoBody /\ q.deleted /\ ~q.liked
        BY <3>3, <4>1, Displayed
      <4>3. Carries(f, r.id) /\ Deletes(f, r.id)
        BY <1>1, <1>3, <3>2, <3>4 DEF Carries, Deletes, DeletesBy
      <4>4. Enters(f, m)
        BY <2>1, <2>2, <4>2, <4>3 DEF Enters
      <4> QED BY <4>4
    <3>5. CASE ~r.deleted
      <4>1. q = Shown(r.id, b)
        BY <3>1, <3>2, <3>3, <3>5 DEF BuiltRow
      <4>2. q.id = r.id /\ q.body = b /\ ~q.deleted /\ ~q.liked
        BY <3>3, <4>1, Displayed
      <4>3. Carries(f, r.id) /\ Brings(f, r.id) /\ Reads(f, r.id, b)
        BY <1>1, <1>3, <3>2, <3>3, <3>5 DEF Carries, Brings, Reads
      <4>4. Enters(f, m)
        BY <2>1, <2>2, <4>2, <4>3 DEF Enters
      <4> QED BY <4>4
    <3> QED BY <3>4, <3>5
  <2> QED BY <1>13, <2>1, <2>3, <2>4
<1> QED BY <1>14, <1>15 DEF Shows

(* The TUI handles a frame.                                                *)
LEMMA Redraws ==
  ASSUME IInv, DelInv, ShownInv, Handle, NEW f, f = Head(inbox),
         FrameOK(f, srv), f.t # "epoch_key"
  PROVE  Shows(f, pane, pane')
<1>1. /\ f.t = "history_result" => HistoryResult(f)
      /\ f.t = "error" => ServerError(f)
      /\ f.t \notin {"history_result", "error"} => pane' = IF ctx = "this" THEN Redrawn(f) ELSE pane
  BY DEF Handle
<1>2. CASE ctx = "other"
  <2>1. pane = <<>> /\ Seqs!ToSet(pane) = {}
    BY <1>2, InNothing DEF IInv, PaneInv
  <2>2. pane' = pane
    BY <1>1, <1>2 DEF HistoryResult, ServerError, MatchesActive, paneVars
  <2> QED BY <2>1, <2>2, Unmoved
<1>3. CASE ctx = "this"
  <2>1. CASE f.t = "message"
    BY <1>1, <1>3, <2>1, MessageRedraws DEF Redrawn
  <2>2. CASE f.t = "edited"
    BY <1>1, <1>3, <2>2, EditRedraws DEF Redrawn
  <2>3. CASE f.t = "deleted"
    BY <1>1, <1>3, <2>3, DeleteRedraws DEF Redrawn
  <2>4. CASE f.t \in {"reaction", "reaction_removed"}
    BY <1>1, <1>3, <2>4, ReactionRedraws DEF Redrawn
  <2>5. CASE f.t = "sync_batch"
    BY <1>1, <1>3, <2>5, BatchRedraws DEF Redrawn
  <2>6. CASE f.t = "history_result"
    <3>1. \A m : ~Rereads(f, m.id)
      BY <2>6 DEF Rereads, Marks
    <3>2. pane' = pane \/ pane' = PrependRows(pane, f.rows)
      BY <1>1, <2>6 DEF HistoryResult, paneVars
    <3> QED BY <2>6, <3>1, <3>2, Unmoved, PageRedraws
  <2>7. CASE f.t = "error"
    <3>1. \A m : ~Rereads(f, m.id)
      BY <2>7 DEF Rereads, Marks
    <3>2. pane' = pane
      BY <1>1, <2>7 DEF ServerError
    <3> QED BY <3>1, <3>2, Unmoved
  <2> QED BY <2>1, <2>2, <2>3, <2>4, <2>5, <2>6, <2>7 DEF FrameOK, FrameTypes
<1> QED BY <1>2, <1>3 DEF IInv, PaneInv

(* What it handles is no longer due, and what is due is still to come.     *)
LEMMA HandleShown ==
  ASSUME IInv, DelInv, ShownInv, Handle
  PROVE  ShownInv'
<1>1. PICK f : f = Head(inbox)
  OBVIOUS
<1>2. /\ state = "Online" /\ inbox # <<>> /\ inbox' = Tail(inbox)
      /\ UNCHANGED <<kind, srv, store, wire, adopted, stashed, link, state>>
  BY DEF Handle, serverVars, clientVars
<1>3. PICK l \in Nat : /\ l > 0 /\ DOMAIN inbox = 1..l /\ inbox[1] = f
                       /\ DOMAIN inbox' = 1..(l - 1)
                       /\ \A n \in 1..(l - 1) : inbox'[n] = inbox[n + 1]
                       /\ Seqs!ToSet(inbox) = Seqs!ToSet(inbox') \cup {f}
  BY <1>1, <1>2, InTaken DEF IInv
<1>4. FrameOK(f, srv) /\ f.t # "epoch_key"
  BY <1>3 DEF ShownInv, InboxInv
<1>5. Shows(f, pane, pane')
  BY <1>1, <1>4, Redraws
<1>6. \A m \in DOMAIN inbox : m > 1 => m - 1 \in DOMAIN inbox' /\ inbox'[m - 1] = inbox[m]
  <2> SUFFICES ASSUME NEW m \in 1..l, m > 1
               PROVE  m - 1 \in 1..(l - 1) /\ inbox'[m - 1] = inbox[m]
    BY <1>3
  <2>1. m - 1 \in 1..(l - 1) /\ (m - 1) + 1 = m
    BY <1>3
  <2> QED BY <1>3, <2>1
<1>7. ASSUME NEW i \in DOMAIN srv, link, srv[i].deleted, Brings(f, i) PROVE Due(i)'
  <2>1. 1 \in DOMAIN inbox /\ Brings(inbox[1], i)
    BY <1>3, <1>7
  <2>2. MarkedBy(wire, i) \/ \E m \in DOMAIN inbox : 1 < m /\ Marks(inbox[m], i)
    BY <1>7, <2>1 DEF ShownInv, InboxInv
  <2>3. CASE MarkedBy(wire, i)
    BY <1>2, <2>3 DEF Due
  <2>4. CASE \E m \in DOMAIN inbox : 1 < m /\ Marks(inbox[m], i)
    <3>1. PICK m \in DOMAIN inbox : 1 < m /\ Marks(inbox[m], i)
      BY <2>4
    <3>2. m - 1 \in DOMAIN inbox' /\ inbox'[m - 1] = inbox[m]
      BY <1>3, <1>6, <3>1
    <3>3. MarkedBy(inbox', i)
      BY <3>1, <3>2 DEF MarkedBy, Seqs!ToSet
    <3> QED BY <3>3 DEF Due
  <2> QED BY <2>2, <2>3, <2>4
<1>8. RowsInv'
  BY <1>2, <1>3, <1>5, <1>7, ShowsOK
<1>9. PlainInv'
  BY <1>2, <1>3 DEF ShownInv, PlainInv
<1>10. InboxInv'
  <2>1. ASSUME link, NEW i \in DOMAIN srv, srv[i].deleted,
               NEW n \in DOMAIN inbox', Brings(inbox'[n], i)
        PROVE  MarkedBy(wire, i) \/ \E m \in DOMAIN inbox' : n < m /\ Marks(inbox'[m], i)
    <3>1. n \in 1..(l - 1) /\ n + 1 \in DOMAIN inbox /\ Brings(inbox[n + 1], i)
      BY <1>3, <2>1
    <3>2. MarkedBy(wire, i) \/ \E m \in DOMAIN inbox : n + 1 < m /\ Marks(inbox[m], i)
      BY <2>1, <3>1 DEF ShownInv, InboxInv
    <3>3. CASE \E m \in DOMAIN inbox : n + 1 < m /\ Marks(inbox[m], i)
      <4>1. PICK m \in DOMAIN inbox : n + 1 < m /\ Marks(inbox[m], i)
        BY <3>3
      <4>2. m > 1 /\ n < m - 1
        BY <1>3, <3>1, <4>1
      <4> QED BY <1>6, <4>1, <4>2
    <3> QED BY <3>2, <3>3
  <2>2. state # "Offline" /\ (~link => wire = <<>>)
    BY <1>2 DEF ShownInv, InboxInv
  <2>3. \A g \in Seqs!ToSet(inbox') :
          /\ FrameOK(g, srv) /\ g.t # "epoch_key"
          /\ kind = "dm" => \A i : Carries(g, i) => i \in DOMAIN store
    BY <1>3 DEF ShownInv, InboxInv
  <2> QED BY <1>2, <2>1, <2>2, <2>3 DEF InboxInv
<1> QED BY <1>8, <1>9, <1>10 DEF ShownInv

(* Every step keeps the invariant of what is shown.                        *)
LEMMA StepShown ==
  ASSUME IInv, DelInv, ShownInv, [Next]_vars
  PROVE  ShownInv'
<1>1. CASE Serves
  BY <1>1, ServesTold, ToldShown
<1>2. CASE UNCHANGED vars
  <2>1. UNCHANGED messages /\ UNCHANGED <<state, pane>>
    BY <1>2 DEF vars, serverVars, clientVars, paneVars, messages
  <2>2. \A m : RowOK(m) => RowOK(m)'
    BY <2>1, RowStays
  <2>3. RowsInv'
    BY <2>1, <2>2 DEF RowsInv, ShownInv, Once
  <2> QED BY <2>1, <2>3, OnlyRows
<1> QED BY <1>1, <1>2, ReadShown, HandleShown, PagesShown, AsideShown, LostShown, ConnectShown
        DEF Next, Serves

(* It holds when the program starts.                                       *)
LEMMA InitShown ==
  ASSUME Init
  PROVE  ShownInv
<1>1. /\ srv = <<>> /\ wire = <<>> /\ link = FALSE /\ adopted = (IF kind = "room" THEN {} ELSE {1})
      /\ stashed = 0 /\ store = <<>> /\ inbox = <<>> /\ pane = <<>> /\ state = "Offline"
  BY DEF Init
<1>2. PlainInv
  BY <1>1, InNothing DEF PlainInv
<1>3. InboxInv
  BY <1>1, InNothing DEF InboxInv
<1>4. RowsInv
  BY <1>1, InNothing, EmptySeq DEF RowsInv, Once
<1> QED BY <1>2, <1>3, <1>4 DEF ShownInv

(* The invariant of what is shown holds of every behaviour.                *)
THEOREM PaneInductive == Spec => []ShownInv
<1>1. IInv /\ DelInv /\ ShownInv /\ [Next]_vars => ShownInv'
  BY StepShown
<1>2. Init => ShownInv
  BY InitShown
<1> QED BY <1>1, <1>2, Inductive, DeletionsOwed, PTL DEF Spec

(* In every behaviour, once every frame is handled the pane shows each     *)
(* message once, deleted and reacted to as the store has it, and outside   *)
(* rooms with its body unless it was edited.                               *)
THEOREM PaneShowsTheStore == Spec => []PaneFollowsStore
<1>1. ASSUME IInv, DelInv, ShownInv PROVE PaneFollowsStore
  <2> SUFFICES ASSUME Drained, state = "Online", inbox = <<>>
               PROVE  /\ ctx = "other" => pane = <<>>
                      /\ \A m, n \in DOMAIN pane : pane[m].id = pane[n].id => m = n
                      /\ \A n \in DOMAIN pane :
                           LET r == pane[n]
                           IN  /\ kind = "dm" => r.id \in DOMAIN store
                               /\ r.id \in DOMAIN store =>
                                    /\ r.deleted = store[r.id].deleted
                                    /\ r.liked => store[r.id].liked
                                    /\ r.body = store[r.id].body \/ kind = "room" \/ srv[r.id].body = 1
    BY DEF PaneFollowsStore
  <2>1. /\ ctx = "other" => pane = <<>>
        /\ \A m, n \in DOMAIN pane : pane[m].id = pane[n].id => m = n
    BY <1>1 DEF IInv, PaneInv, ShownInv, RowsInv, Once
  <2>2. link /\ \A i : ~DueLikes(i) /\ ~Due(i)
    BY InNothing DEF Drained, DueLikes, Due, MarkedBy
  <2>3. ASSUME NEW r \in Seqs!ToSet(pane)
        PROVE  /\ kind = "dm" => r.id \in DOMAIN store
               /\ r.id \in DOMAIN store =>
                    /\ r.deleted = store[r.id].deleted
                    /\ r.liked => store[r.id].liked
                    /\ r.body = store[r.id].body \/ kind = "room" \/ srv[r.id].body = 1
    <3>1. RowData(r) /\ RowDue(r)
      BY <1>1, <2>2, <2>3 DEF ShownInv, RowsInv, RowOK
    <3>2. /\ (r.deleted <=> srv[r.id].deleted) /\ (r.liked => store[r.id].liked)
          /\ r.deleted \in BOOLEAN /\ srv[r.id] \in ServerRow
      BY <1>1, <2>2, <3>1, ServerRows DEF RowData, RowDue, DelInv, DisplayRow
    <3>3. ASSUME r.id \in DOMAIN store
          PROVE  /\ r.deleted = store[r.id].deleted
                 /\ r.body = store[r.id].body \/ kind = "room" \/ srv[r.id].body = 1
      <4>1. /\ store[r.id].deleted = srv[r.id].deleted
            /\ store[r.id].deleted => store[r.id] = Tombstone
        BY <1>1, <3>3, DelDrained DEF DeletedForAll
      <4>2. r.deleted = store[r.id].deleted
        BY <3>2, <4>1 DEF ServerRow
      <4>3. srv[r.id].body \in 0..1
        BY <3>2 DEF ServerRow
      <4>4. ASSUME kind # "room", srv[r.id].body # 1 PROVE r.body = store[r.id].body
        <5>1. srv[r.id].body = 0
          BY <4>3, <4>4
        <5>2. r.body = IF r.deleted THEN NoBody ELSE Plain(srv[r.id].epoch)
          BY <3>1, <4>4, <5>1 DEF RowData
        <5>3. store[r.id].body = IF store[r.id].deleted THEN NoBody ELSE Plain(srv[r.id].epoch)
          BY <1>1, <3>3, <4>1, <4>4, <5>1 DEF ShownInv, PlainInv, Tombstone
        <5> QED BY <4>2, <5>2, <5>3
      <4> QED BY <4>2, <4>4
    <3> QED BY <3>1, <3>2, <3>3 DEF RowData
  <2>4. \A n \in DOMAIN pane : pane[n] \in Seqs!ToSet(pane)
    BY DEF Seqs!ToSet
  <2> QED BY <2>1, <2>3, <2>4
<1> QED BY <1>1, Inductive, DeletionsOwed, PaneInductive, PTL
=============================================================================
