---------------------------- MODULE FileTransfer ----------------------------
(***************************************************************************)
(* Attachments: DownloadFile, uploadEncrypted and the handlers that signal *)
(* them (internal/client/filetransfer.go), the automatic previews          *)
(* (persist.go) and the removal of cached files (client.go).               *)
(*                                                                         *)
(* A connection has three channels.  Requests and answers travel on        *)
(* channel 1; the server writes file bytes to channel 2, which the client  *)
(* reads, and the client writes file bytes to channel 3.  A frame of       *)
(* channel 2 names its file, but DownloadFile ignores the name: what ties  *)
(* a frame to a request is its position alone.                             *)
(*                                                                         *)
(* Threads: one per running transfer (an automatic preview or a command of *)
(* the user), the readLoop and the send-queue driver, which re-sends a     *)
(* request the server rejected with a transient code.  The maps downloads  *)
(* and uploads are globals of the package and outlive a connection; the    *)
(* mutexes and the queue belong to one Client.  The server is external.    *)
(***************************************************************************)
EXTENDS Naturals, Sequences, FiniteSets

CONSTANTS
  Previews,     \* threads of maybeAutoPreviewAttachments
  Manual,       \* threads of the user's commands: open, preview, save
  Uploads,      \* upload ids
  Posted,       \* file ids of attachments in messages of others
  Fresh,        \* file ids the server may give to uploads
  None,         \* no thread, no file, no content
  MaxTransfers, \* bound: transfers begun
  MaxRejects,   \* bound: requests the server rejects for now
  MaxPurges,    \* bound: files whose message is deleted
  MaxSessions   \* bound: connections made

Tasks    == Previews \cup Manual
Files    == Posted \cup Fresh
Contents == Posted \cup Uploads

ASSUME FileTransferAssumption ==
  /\ Previews \cap Manual = {} /\ Posted \cap Fresh = {}
  /\ Files \cap Uploads = {}
  /\ None \notin Tasks \cup Files \cup Uploads
  /\ MaxTransfers \in Nat /\ MaxRejects \in Nat /\ MaxPurges \in Nat
  /\ MaxSessions \in Nat \ {0}

VARIABLES
  up,          \* the link of the current connection stands
  session,     \* the current connection (the Client made for it)
  task,        \* download threads
  registered,  \* map downloads: the thread whose channels are under a file id
  holder,      \* downloadChanMu of each Client
  inflight,    \* inflightAutoPreview
  upload,      \* upload threads, one per upload id
  ulHolder,    \* uploadChanMu of each Client
  cache,       \* <DataDir>/files
  purged,      \* files whose message is gone from the local database
  retry,       \* rejected requests the send queue still holds, counted
  toServer,    \* requests on channel 1
  ch1,         \* answers on channel 1
  ch2,         \* file frames to the client
  ch3,         \* parts of file frames to the server
  blob,        \* the server: the content stored under each file id
  expected,    \* the server: uploads it has registered on this connection
  slipped,     \* a download of this connection left before its frame (history)
  begun,       \* transfers begun so far
  rejects      \* transient rejections so far

downloads == <<task, registered, holder, inflight>>
uploads   == <<upload, ulHolder>>
wires     == <<toServer, ch1, ch2, ch3>>
vars == <<up, session, downloads, uploads, cache, purged, retry, wires, blob,
          expected, slipped, begun, rejects>>

-----------------------------------------------------------------------------
Get(f) == [kind |-> "download", id |-> f]
Put(u) == [kind |-> "upload_start", id |-> u]
Requests == {Get(f) : f \in Files} \cup {Put(u) : u \in Uploads}

(* Answers.  again: the code is a transient one; file: the id given.       *)
Answer(k, id, again, f) == [kind |-> k, id |-> id, again |-> again, file |-> f]
Answers == [kind : {"start", "download_error", "ready", "upload_error",
                    "complete", "error"},
            id : Files \cup Uploads, again : BOOLEAN, file : Files \cup {None}]

Idle   == [pc |-> "idle", file |-> None, gen |-> 0, started |-> FALSE,
           failed |-> "no"]
Unsent == [pc |-> "idle", gen |-> 0, ready |-> FALSE, file |-> None,
           result |-> None]

Live(gen) == up /\ gen = session

(* Mutant: no mutex.                                                       *)
FreeAlways(mutex, gen) == TRUE

(* A mutex of the Client the thread works for is free.                     *)
Free(mutex, gen) == mutex[gen] = None

(* The client has a message with this attachment.                          *)
Known(f) == /\ f \notin purged
            /\ f \in Posted \/ \E u \in Uploads : upload[u].result = f

Init ==
  /\ up = TRUE /\ session = 1
  /\ task = [d \in Tasks |-> Idle]
  /\ registered = [f \in Files |-> None]
  /\ holder = [s \in 1..MaxSessions |-> None]
  /\ inflight = {}
  /\ upload = [u \in Uploads |-> Unsent]
  /\ ulHolder = [s \in 1..MaxSessions |-> None]
  /\ cache = [f \in Files |-> None]
  /\ purged = {}
  /\ retry = [r \in Requests |-> 0]
  /\ toServer = <<>> /\ ch1 = <<>> /\ ch2 = <<>> /\ ch3 = <<>>
  /\ blob = [f \in Files |-> IF f \in Posted THEN f ELSE None]
  /\ expected = {}
  /\ slipped = FALSE /\ begun = 0 /\ rejects = 0

-----------------------------------------------------------------------------
(* Downloads.                                                              *)

(* The file is not on disk, and no other preview is fetching it.           *)
Check(d, f) ==
  /\ task[d].pc = "idle" /\ begun < MaxTransfers
  /\ up /\ Known(f) /\ cache[f] = None
  /\ d \in Previews => f \notin inflight
  /\ inflight' = IF d \in Previews THEN inflight \cup {f} ELSE inflight
  /\ task' = [task EXCEPT ![d] = [Idle EXCEPT !.pc = "enter", !.file = f,
                                              !.gen = session]]
  /\ begun' = begun + 1
  /\ UNCHANGED <<up, session, registered, holder, uploads, cache, purged,
                 retry, wires, blob, expected, slipped, rejects>>

(* DownloadFile on a connected Client: channels of its own, under the id.  *)
Register(d) ==
  /\ task[d].pc = "enter" /\ Live(task[d].gen)
  /\ registered' = [registered EXCEPT ![task[d].file] = d]
  /\ task' = [task EXCEPT ![d].pc = "lock"]
  /\ UNCHANGED <<up, session, holder, inflight, uploads, cache, purged, retry,
                 wires, blob, expected, slipped, begun, rejects>>

(* Mutant: a way out without the unlock.                                   *)
ReturnLocked(d) ==
  /\ task' = [task EXCEPT ![d] = Idle]
  /\ registered' = [registered EXCEPT ![task[d].file] = None]
  /\ inflight' = IF d \in Previews THEN inflight \ {task[d].file} ELSE inflight
  /\ UNCHANGED holder

(* The deferred calls, run on every way out: unlock, then remove what is   *)
(* under the file id, whosever it is.                                      *)
Return(d) ==
  /\ task' = [task EXCEPT ![d] = Idle]
  /\ registered' = [registered EXCEPT ![task[d].file] = None]
  /\ inflight' = IF d \in Previews THEN inflight \ {task[d].file} ELSE inflight
  /\ holder' = [holder EXCEPT ![task[d].gen] = None]

(* The gate at the entry of DownloadFile: nothing is registered yet.       *)
Refused(d) ==
  /\ task[d].pc = "enter" /\ ~Live(task[d].gen)
  /\ task' = [task EXCEPT ![d] = Idle]
  /\ inflight' = IF d \in Previews THEN inflight \ {task[d].file} ELSE inflight
  /\ UNCHANGED <<up, session, registered, holder, uploads, cache, purged,
                 retry, wires, blob, expected, slipped, begun, rejects>>

(* Under the lock the request goes out, or Encode fails.                   *)
SendDownload(d) ==
  /\ task[d].pc = "lock" /\ Free(holder, task[d].gen)
  /\ IF Live(task[d].gen)
       THEN /\ holder' = [holder EXCEPT ![task[d].gen] = d]
            /\ task' = [task EXCEPT ![d].pc = "wait"]
            /\ toServer' = Append(toServer, Get(task[d].file))
            /\ UNCHANGED <<registered, inflight>>
       ELSE Return(d) /\ UNCHANGED toServer
  /\ UNCHANGED <<up, session, uploads, cache, purged, retry, ch1, ch2, ch3,
                 blob, expected, slipped, begun, rejects>>

(* The select: download_start, download_error, or the Client's end or      *)
(* thirty seconds, which may run out at any time.                          *)
Started(d) ==
  /\ task[d].pc = "wait" /\ task[d].started
  /\ task' = [task EXCEPT ![d].pc = "read"]
  /\ UNCHANGED <<up, session, registered, holder, inflight, uploads, cache,
                 purged, retry, wires, blob, expected, slipped, begun, rejects>>

Failed(d) ==
  /\ task[d].pc = "wait" /\ task[d].failed # "no"
  /\ Return(d)
  /\ slipped' = (slipped \/ (Live(task[d].gen) /\ task[d].failed = "again"))
  /\ UNCHANGED <<up, session, uploads, cache, purged, retry, wires, blob,
                 expected, begun, rejects>>

GiveUp(d) ==
  /\ task[d].pc = "wait"
  /\ Return(d)
  /\ slipped' = (slipped \/ Live(task[d].gen))
  /\ UNCHANGED <<up, session, uploads, cache, purged, retry, wires, blob,
                 expected, begun, rejects>>

(* Mutant: the bytes are kept unverified.                                  *)
VerifiedNever(f, data) == TRUE

(* The hash committed in the signed message is that of the stored bytes.   *)
Verified(f, data) == data = blob[f]

(* The next frame of channel 2, kept if its hash and its key are right;    *)
(* the write may fail.  Bytes that came before the link broke can be read. *)
ReadFrame(d) ==
  /\ task[d].pc = "read" /\ task[d].gen = session /\ ch2 # <<>>
  /\ ch2' = Tail(ch2)
  /\ \/ /\ Verified(task[d].file, Head(ch2))
        /\ cache' = [cache EXCEPT ![task[d].file] = Head(ch2)]
     \/ UNCHANGED cache
  /\ Return(d)
  /\ UNCHANGED <<up, session, uploads, purged, retry, toServer, ch1, ch3, blob,
                 expected, slipped, begun, rejects>>

ReadBreaks(d) ==
  /\ task[d].pc = "read" /\ ~Live(task[d].gen)
  /\ Return(d)
  /\ UNCHANGED <<up, session, uploads, cache, purged, retry, wires, blob,
                 expected, slipped, begun, rejects>>

-----------------------------------------------------------------------------
(* Uploads.                                                                *)

(* uploadEncrypted: register the id, then ask.                             *)
UploadStart(u) ==
  /\ upload[u] = Unsent /\ begun < MaxTransfers /\ up
  /\ upload' = [upload EXCEPT ![u].pc = "start", ![u].gen = session]
  /\ toServer' = Append(toServer, Put(u))
  /\ begun' = begun + 1
  /\ UNCHANGED <<up, session, downloads, ulHolder, cache, purged, retry, ch1,
                 ch2, ch3, blob, expected, slipped, rejects>>

(* The select waits for upload_ready before a byte is written.             *)
Heard(u) == upload[u].ready

(* The thread goes on to write.                                            *)
UploadReady(u) ==
  /\ upload[u].pc = "start" /\ Heard(u)
  /\ upload' = [upload EXCEPT ![u].pc = "lock"]
  /\ UNCHANGED <<up, session, downloads, ulHolder, cache, purged, retry, wires,
                 blob, expected, slipped, begun, rejects>>

(* writeBinaryFrame: several writes, under uploadChanMu.                   *)
WriteHead(u) ==
  /\ upload[u].pc = "lock" /\ Live(upload[u].gen)
  /\ Free(ulHolder, upload[u].gen)
  /\ ulHolder' = [ulHolder EXCEPT ![upload[u].gen] = u]
  /\ ch3' = Append(ch3, [id |-> u, part |-> "head"])
  /\ upload' = [upload EXCEPT ![u].pc = "write"]
  /\ UNCHANGED <<up, session, downloads, cache, purged, retry, toServer, ch1,
                 ch2, blob, expected, slipped, begun, rejects>>

WriteData(u) ==
  /\ upload[u].pc = "write" /\ Live(upload[u].gen)
  /\ ulHolder' = [ulHolder EXCEPT ![upload[u].gen] = None]
  /\ ch3' = Append(ch3, [id |-> u, part |-> "data"])
  /\ upload' = [upload EXCEPT ![u].pc = "sent"]
  /\ UNCHANGED <<up, session, downloads, cache, purged, retry, toServer, ch1,
                 ch2, blob, expected, slipped, begun, rejects>>

(* upload_complete: the plaintext goes to the cache, if it can be written. *)
UploadComplete(u) ==
  /\ upload[u].pc = "sent" /\ upload[u].file # None
  /\ \/ cache' = [cache EXCEPT ![upload[u].file] = u]
     \/ UNCHANGED cache
  /\ upload' = [upload EXCEPT ![u].pc = "done", ![u].result = upload[u].file]
  /\ UNCHANGED <<up, session, downloads, ulHolder, purged, retry, wires, blob,
                 expected, slipped, begun, rejects>>

(* upload_error, the Client's end, a timeout, or a write that fails.  A    *)
(* timeout may come at any time, so upload_error needs no signal here.     *)
UploadFails(u) ==
  /\ \/ upload[u].pc \in {"start", "sent"}
     \/ upload[u].pc = "lock" /\ Free(ulHolder, upload[u].gen)
                              /\ ~Live(upload[u].gen)
     \/ upload[u].pc = "write" /\ ~Live(upload[u].gen)
  /\ upload' = [upload EXCEPT ![u].pc = "done"]
  /\ ulHolder' = [s \in 1..MaxSessions |->
                    IF ulHolder[s] = u THEN None ELSE ulHolder[s]]
  /\ UNCHANGED <<up, session, downloads, cache, purged, retry, wires, blob,
                 expected, slipped, begun, rejects>>

-----------------------------------------------------------------------------
(* The readLoop: the send queue first, then the thread that waits.         *)

(* A transient code keeps the request in the queue; no other answer does.  *)
Requeued(a) ==
  LET r == IF a.id \in Files THEN Get(a.id) ELSE Put(a.id)
  IN  IF a.again THEN [retry EXCEPT ![r] = @ + 1] ELSE retry

(* It signals whichever thread is under the id now, if any.                *)
HandleDownloadStart(f) ==
  /\ task' = [d \in Tasks |-> IF registered[f] = d
                                THEN [task[d] EXCEPT !.started = TRUE]
                                ELSE task[d]]
  /\ UNCHANGED upload

(* Mutant: an error goes to the wrong channel.                             *)
HandleDownloadErrorAsStart(f, again) == HandleDownloadStart(f)

HandleDownloadError(f, again) ==
  /\ task' = [d \in Tasks |-> IF registered[f] = d /\ task[d].failed = "no"
                                THEN [task[d] EXCEPT !.failed =
                                        IF again THEN "again" ELSE "final"]
                                ELSE task[d]]
  /\ UNCHANGED upload

(* Mutant: every upload under way is signalled.                            *)
HandleUploadAny(u, field, value) ==
  /\ upload' = [v \in Uploads |->
                  IF upload[v].pc \in {"idle", "done"} THEN upload[v]
                  ELSE [upload[v] EXCEPT ![field] = value]]
  /\ UNCHANGED task

(* The upload under this id, while uploadEncrypted runs.                   *)
HandleUpload(u, field, value) ==
  /\ upload' = IF upload[u].pc \in {"idle", "done"} THEN upload
               ELSE [upload EXCEPT ![u] = [@ EXCEPT ![field] = value]]
  /\ UNCHANGED task

ReadLoop ==
  /\ up /\ ch1 # <<>>
  /\ LET a == Head(ch1)
     IN  /\ retry' = Requeued(a)
         /\ CASE a.kind = "start"          -> HandleDownloadStart(a.id)
              [] a.kind = "download_error" -> HandleDownloadError(a.id, a.again)
              [] a.kind = "ready"        -> HandleUpload(a.id, "ready", TRUE)
              [] a.kind = "complete"     -> HandleUpload(a.id, "file", a.file)
              [] OTHER                   -> UNCHANGED <<task, upload>>
  /\ ch1' = Tail(ch1)
  /\ UNCHANGED <<up, session, registered, holder, inflight, ulHolder, cache,
                 purged, toServer, ch2, ch3, blob, expected, slipped, begun,
                 rejects>>

(* A deletion reaches the client: the row goes, and the cached file.       *)
Purge(f) ==
  /\ up /\ Known(f) /\ Cardinality(purged) < MaxPurges
  /\ purged' = purged \cup {f}
  /\ cache' = [cache EXCEPT ![f] = None]
  /\ UNCHANGED <<up, session, downloads, uploads, retry, wires, blob, expected,
                 slipped, begun, rejects>>

(* The driver re-sends, whether or not a thread still waits, or gives up.  *)
QueueResend(r) ==
  /\ up /\ retry[r] > 0
  /\ retry' = [retry EXCEPT ![r] = @ - 1]
  /\ \/ toServer' = Append(toServer, r)
     \/ UNCHANGED toServer
  /\ UNCHANGED <<up, session, downloads, uploads, cache, purged, ch1, ch2, ch3,
                 blob, expected, slipped, begun, rejects>>

-----------------------------------------------------------------------------
(* The connection.  A new one has channels and a queue of its own.         *)

LinkBreak ==
  /\ up /\ up' = FALSE
  /\ UNCHANGED <<session, downloads, uploads, cache, purged, retry, wires, blob,
                 expected, slipped, begun, rejects>>

Reconnect ==
  /\ ~up /\ session < MaxSessions
  /\ up' = TRUE /\ session' = session + 1
  /\ retry' = [r \in Requests |-> 0]
  /\ toServer' = <<>> /\ ch1' = <<>> /\ ch2' = <<>> /\ ch3' = <<>>
  /\ expected' = {} /\ slipped' = FALSE
  /\ UNCHANGED <<downloads, uploads, cache, purged, blob, begun, rejects>>

-----------------------------------------------------------------------------
(* The server.                                                             *)

(* It serves a request, or rejects it with an answer of either shape.      *)
Serve ==
  /\ up /\ toServer # <<>>
  /\ LET r == Head(toServer)
     IN  IF r.kind = "download"
           THEN /\ ch1' = Append(ch1, Answer("start", r.id, FALSE, None))
                /\ ch2' = Append(ch2, blob[r.id])
                /\ UNCHANGED expected
           ELSE /\ ch1' = Append(ch1, Answer("ready", r.id, FALSE, None))
                /\ expected' = expected \cup {r.id}
                /\ UNCHANGED ch2
  /\ toServer' = Tail(toServer)
  /\ UNCHANGED <<up, session, downloads, uploads, cache, purged, retry, ch3,
                 blob, slipped, begun, rejects>>

Reject ==
  /\ up /\ toServer # <<>>
  /\ \E again \in BOOLEAN, plain \in BOOLEAN :
       LET r == Head(toServer)
           k == CASE plain               -> "error"
                  [] r.kind = "download" -> "download_error"
                  [] OTHER               -> "upload_error"
       IN  /\ again => rejects < MaxRejects
           /\ rejects' = IF again THEN rejects + 1 ELSE rejects
           /\ ch1' = Append(ch1, Answer(k, r.id, again, None))
  /\ toServer' = Tail(toServer)
  /\ UNCHANGED <<up, session, downloads, uploads, cache, purged, retry, ch2,
                 ch3, blob, expected, slipped, begun>>

(* Two parts of channel 3 make a frame, stored under an id of its own.     *)
TakeBytes ==
  /\ up /\ Len(ch3) >= 2
  /\ LET u == ch3[1].id
     IN  IF u \in expected
           THEN \E f \in {g \in Fresh : blob[g] = None} :
                  /\ blob' = [blob EXCEPT ![f] = u]
                  /\ ch1' = Append(ch1, Answer("complete", u, FALSE, f))
                  /\ expected' = expected \ {u}
           ELSE UNCHANGED <<blob, ch1, expected>>
  /\ ch3' = SubSeq(ch3, 3, Len(ch3))
  /\ UNCHANGED <<up, session, downloads, uploads, cache, purged, retry, toServer,
                 ch2, slipped, begun, rejects>>

-----------------------------------------------------------------------------
DownloadStep(d) == \/ Register(d) \/ Refused(d) \/ SendDownload(d)
                   \/ Started(d) \/ Failed(d) \/ GiveUp(d)
                   \/ ReadFrame(d) \/ ReadBreaks(d)

UploadStep(u) == \/ UploadReady(u) \/ WriteHead(u) \/ WriteData(u)
                 \/ UploadComplete(u) \/ UploadFails(u)

Next ==
  \/ \E d \in Tasks : DownloadStep(d) \/ \E f \in Files : Check(d, f)
  \/ \E u \in Uploads : UploadStep(u) \/ UploadStart(u)
  \/ ReadLoop
  \/ \E f \in Files : Purge(f)
  \/ \E r \in Requests : QueueResend(r)
  \/ LinkBreak \/ Reconnect
  \/ Serve \/ Reject \/ TakeBytes

Spec == Init /\ [][Next]_vars

(* A thread is scheduled and its timers run out.                           *)
FairSpec == /\ Spec
            /\ \A d \in Tasks : WF_vars(DownloadStep(d))
            /\ \A u \in Uploads : WF_vars(UploadStep(u))

-----------------------------------------------------------------------------
(* Every variable holds a value of its kind.                               *)
TypeOK ==
  /\ up \in BOOLEAN /\ session \in 1..MaxSessions
  /\ task \in [Tasks -> [pc : {"idle", "enter", "lock", "wait", "read"},
                          file : Files \cup {None}, gen : 0..MaxSessions,
                          started : BOOLEAN, failed : {"no", "again", "final"}]]
  /\ registered \in [Files -> Tasks \cup {None}]
  /\ holder \in [1..MaxSessions -> Tasks \cup {None}]
  /\ inflight \subseteq Files
  /\ upload \in [Uploads ->
                   [pc : {"idle", "start", "lock", "write", "sent", "done"},
                    gen : 0..MaxSessions, ready : BOOLEAN,
                    file : Files \cup {None}, result : Files \cup {None}]]
  /\ ulHolder \in [1..MaxSessions -> Uploads \cup {None}]
  /\ cache \in [Files -> Contents \cup {None}]
  /\ purged \subseteq Files
  /\ retry \in [Requests -> 0..MaxRejects]
  /\ toServer \in Seq(Requests)
  /\ ch1 \in Seq(Answers)
  /\ ch2 \in Seq(Contents)
  /\ ch3 \in Seq([id : Uploads, part : {"head", "data"}])
  /\ blob \in [Files -> Contents \cup {None}]
  /\ expected \subseteq Uploads
  /\ slipped \in BOOLEAN
  /\ begun \in 0..MaxTransfers /\ rejects \in 0..MaxRejects

Reading(d) == task[d].pc = "read" /\ Live(task[d].gen)

(* What lies in the cache under a file id is what the server stores under  *)
(* it, whichever transfers crossed, slipped or died with a connection.     *)
CacheGenuine == \A f \in Files : cache[f] \in {None, blob[f]}

(* DownloadFile's comment: frames are matched up positionally.  That works *)
(* as long as no download of the connection leaves before its frame: a     *)
(* thread that reads then finds the frame of its own file.                 *)
OwnFrameUnlessSlipped ==
  ~slipped => \A d \in Tasks : Reading(d) /\ ch2 # <<>> =>
                                  Head(ch2) = blob[task[d].file]

(* The same, of every download (what the comment says).                    *)
OwnFrame ==
  \A d \in Tasks : Reading(d) /\ ch2 # <<>> => Head(ch2) = blob[task[d].file]

(* The read of channel 2 has no timeout and holds downloadChanMu: a thread *)
(* reaches it only when the server has sent a frame that nobody has read,  *)
(* whatever download_start woke it.                                        *)
ReaderHasFrame == \A d \in Tasks : Reading(d) => ch2 # <<>>

(* Concurrent uploads do not interleave bytes within a frame.              *)
FramesWhole ==
  \A i \in 1..Len(ch3) :
    IF i % 2 = 1 THEN ch3[i].part = "head"
                 ELSE ch3[i] = [id |-> ch3[i - 1].id, part |-> "data"]

(* No byte reaches channel 3 before the server has registered the upload,  *)
(* so that it discards none.                                               *)
NothingDiscarded == \A i \in 1..Len(ch3) : ch3[i].id \in expected

(* An upload reported as done is stored, its own bytes, under the file id  *)
(* that goes into the message.                                             *)
UploadedIsStored ==
  \A u \in Uploads : upload[u].result # None => blob[upload[u].result] = u

(* All of what an upload relies on, at the same time: whole frames, on an  *)
(* upload the server knows, stored as what was sent.                       *)
UploadsIntact == FramesWhole /\ NothingDiscarded /\ UploadedIsStored

(* cleanupAttachmentFiles: used by every bulk-delete path to keep          *)
(* <DataDir>/files/<fileID> in sync with the local DB.                     *)
PurgedStaysGone == \A f \in purged : cache[f] = None

(* Every transfer returns: none waits for ever for an answer, for the      *)
(* mutex or for a frame.  Transfers are bounded, so that is to say that    *)
(* again and again none is under way.                                      *)
Quiet == /\ \A d \in Tasks : task[d].pc = "idle"
         /\ \A u \in Uploads : upload[u].pc \in {"idle", "done"}

TransfersReturn == []<>Quiet

=============================================================================
