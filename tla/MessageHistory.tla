--------------------------- MODULE MessageHistory ---------------------------
(***************************************************************************)
(* One conversation's messages on their way from the server through the    *)
(* local store to the message pane (client/persist.go, client/epoch.go,    *)
(* store/messages.go, tui/messages.go and the handlers of tui/app.go).     *)
(*                                                                         *)
(* Two goroutines apply every frame.  The read loop decrypts it into the   *)
(* database and then hands the same frame to the TUI, which decrypts it    *)
(* again, later, with the keys of that moment, into the rows on screen.    *)
(* Beside the live frames, a connect brings a sync_batch (of everything:   *)
(* the hello names no last_synced, see Session), and scrolling to the top  *)
(* of the pane asks for older rows: of the database first, of the server   *)
(* when the database has less than a page.                                 *)
(*                                                                         *)
(* A message is its server_order.  The conversation is a room, a group or  *)
(* a direct message; the pane is on it or on another, empty one.  What a   *)
(* row can be decrypted with is its epoch: in a room the epoch of its key, *)
(* in a group or a direct message 1 if a key was wrapped for us, else 2.   *)
(* Every signature verifies, and the server is modelled as DESIGN.md tells *)
(* of it: one ordered connection, each frame composed in one step.         *)
(* Attachments, senders, times, mentions, scrolling are left out.          *)
(***************************************************************************)
EXTENDS Naturals, Sequences, FiniteSets
Seqs == INSTANCE SequencesExt

CONSTANTS
  MaxMsgs,     \* bound: messages of the conversation
  MaxChanges,  \* bound: edits, deletions, reactions, rotations
  MaxGen,      \* bound: generations of the connection
  MaxAsks,     \* bound: history requests of the pane
  MaxMoves,    \* bound: switches of the pane
  MaxFlight,   \* bound: frames between the server and the TUI that it adds to
  Window,      \* initialHistoryLoadLimit
  Page         \* historyPageLimit

ASSUME HistoryAssumption ==
  /\ {MaxMsgs, MaxChanges, MaxGen, MaxAsks, MaxMoves, MaxFlight} \subseteq Nat
  /\ Window \in Nat \ {0} /\ Page \in Nat \ {0}

VARIABLES
  kind,      \* "room", "group" or "dm"
  srv,       \* the server's rows, in server_order
  srvEpoch,  \* the room's epoch
  asked,     \* history requests on their way to the server
  wire,      \* frames on their way to the client
  link,      \* the connection stands
  adopted,   \* epochs whose keys are adopted
  stashed,   \* an epoch key waiting for the room's member list; 0: none
  store,     \* the rows of the messages table
  pending,   \* history entries of the send queue
  picked,    \* those of them the queue's driver is about to send again
  swept,     \* the requests the queue's sweep has dropped (history variable)
  inbox,     \* frames the TUI has yet to handle
  state,     \* "Offline", "Joining" or "Online"
  gen,       \* connGen
  ctx,       \* the pane shows "this" conversation or an "other" one
  pane,      \* MessagesModel.messages
  loading,   \* loadingHistory
  corr,      \* activeHistoryCorrID; 0: none
  remote,    \* remoteState
  hint,      \* hintVisible
  probed,    \* probeDone
  localOut,  \* localExhausted
  reqs,      \* HistoryRequestMsgs on their way to Update
  changes, asks, moves   \* counters of the bounds

serverVars == <<kind, srv, srvEpoch>>
clientVars == <<adopted, stashed, store>>
loadVars   == <<loading, corr, remote, hint, probed, localOut>>
paneVars   == <<ctx, pane, loadVars>>
queueVars  == <<pending, picked, swept>>
bounds     == <<changes, asks, moves>>
vars == <<serverVars, asked, wire, link, clientVars, queueVars, inbox, state,
          gen, paneVars, reqs, bounds>>

Kinds  == {"room", "group", "dm"}
Epochs == 1..2
Ids    == 1..MaxMsgs
NoBody == 2      \* an empty body, or "(encrypted)"
Bodies == 0..2   \* 0: as sent, 1: edited

(* liked: the epoch of the message's reaction, 0 when it has none.         *)
ServerRow == [epoch: Epochs, body: 0..1, deleted: BOOLEAN, liked: 0..2]
StoreRow  == [body: Bodies, deleted: BOOLEAN, liked: BOOLEAN]
PaneRow   == [id: Ids, body: Bodies, deleted: BOOLEAN, liked: BOOLEAN]

-----------------------------------------------------------------------------
(* Keys.                                                                   *)

CurrentEpoch == IF adopted = {} THEN 0 ELSE Seqs!Max(adopted)

(* Live frames, and everything the TUI decrypts for a live frame.          *)
LiveReads(e) == e \in adopted

(* Rows of a sync_batch or a history_result, whose keys come with them: a  *)
(* key that was never adopted opens former epochs only.                    *)
HistoryReads(e) == LiveReads(e) \/ e < CurrentEpoch

-----------------------------------------------------------------------------
(* The store.                                                              *)

Fresh(body) == [body |-> body, deleted |-> FALSE, liked |-> FALSE]
Tombstone   == [body |-> NoBody, deleted |-> TRUE, liked |-> FALSE]

Put(st, id, row) == [i \in DOMAIN st \cup {id} |-> IF i = id THEN row ELSE st[i]]

InsertMessage(st, id, body) ==
  IF id \in DOMAIN st THEN st ELSE Put(st, id, Fresh(body))

DeleteMessageInContext(st, id) ==
  IF id \in DOMAIN st THEN Put(st, id, Tombstone) ELSE st

(* Mutant: the tombstone of a row that is stored is dropped. *)
UpsertDeletedMessageOnce(st, id) == IF id \in DOMAIN st THEN st ELSE Put(st, id, Tombstone)
UpsertDeletedMessage(st, id) == Put(st, id, Tombstone)

UpdateMessageEdited(st, id, body) ==
  IF id \in DOMAIN st /\ ~st[id].deleted THEN Put(st, id, Fresh(body)) ELSE st

InsertReaction(st, id, liked) ==
  IF id \in DOMAIN st /\ ~st[id].deleted
  THEN [st EXCEPT ![id].liked = liked] ELSE st

(* An undecryptable row is stored empty (a room's live rows, a direct      *)
(* message's rows) or not at all.                                          *)
StoreMessage(st, f, reads, keepsGhost) ==
  IF reads THEN InsertMessage(st, f.id, f.body)
  ELSE IF keepsGhost THEN InsertMessage(st, f.id, NoBody)
  ELSE st

StoreLive(st, f) == StoreMessage(st, f, LiveReads(f.epoch), kind # "group")

StoreCatchup(st, r) ==
  IF r.deleted THEN UpsertDeletedMessage(st, r.id)
  ELSE StoreMessage(st, r, HistoryReads(r.epoch), kind = "dm")

StoreLike(st, r) ==
  IF r.liked # 0 /\ HistoryReads(r.liked) THEN InsertReaction(st, r.id, TRUE) ELSE st

(* handleSyncBatchKeys, handleHistoryKeys: the messages first, so that a   *)
(* reaction finds its parent.                                              *)
StoreBatch(st, rows) ==
  LET kept == Seqs!FoldLeft(StoreCatchup, st, rows)
  IN  Seqs!FoldLeft(StoreLike, kept, rows)

(* The numbers of a set in order, and the rows that they number.           *)
Ascending(S) ==
  CHOOSE ids \in [1..Cardinality(S) -> S] :
    \A m, n \in 1..Cardinality(S) : m < n => ids[m] < ids[n]
Select(rows, S) == LET ids == Ascending(S) IN [n \in 1..Len(ids) |-> rows[ids[n]]]

(* The rows older than a cursor, the last n of them: none when the cursor  *)
(* is not a stored row.                                                    *)
Below(S, before, n) ==
  LET older == {i \in S : i < before}
  IN  Ascending({i \in older : Cardinality({j \in older : i < j}) < n})

GetMessagesBefore(before, n) ==
  IF before \in DOMAIN store THEN Below(DOMAIN store, before, n) ELSE <<>>
GetMessages(n) == Below(DOMAIN store, MaxMsgs + 1, n)

-----------------------------------------------------------------------------
(* The server.                                                             *)

RowFrame(i) == [id |-> i, epoch |-> srv[i].epoch, body |-> srv[i].body,
                deleted |-> srv[i].deleted, liked |-> srv[i].liked]
RowsOf(ids) == [n \in 1..Len(ids) |-> RowFrame(ids[n])]

(* What is sent while there is no connection is lost.                      *)
Emit(f) == wire' = IF link THEN Append(wire, f) ELSE wire

Quiet  == Len(wire) + Len(inbox) < MaxFlight
Change == Quiet /\ changes < MaxChanges /\ changes' = changes + 1
ServerOnly == UNCHANGED <<kind, srvEpoch, asked, link, clientVars, queueVars, inbox,
                          state, gen, paneVars, reqs, asks, moves>>

Post == \E e \in Epochs :
  /\ Len(srv) < MaxMsgs /\ Quiet
  /\ kind = "room" => e = srvEpoch
  /\ srv' = Append(srv, [epoch |-> e, body |-> 0, deleted |-> FALSE, liked |-> 0])
  /\ Emit([t |-> "message", id |-> Len(srv) + 1, epoch |-> e, body |-> 0])
  /\ UNCHANGED changes /\ ServerOnly

(* The payload of an edit is encrypted anew; the edit ends the reactions.  *)
PostEdit == \E i \in DOMAIN srv :
  /\ ~srv[i].deleted /\ srv[i].body = 0
  /\ Change
  /\ LET e == IF kind = "room" THEN srvEpoch ELSE srv[i].epoch
     IN  /\ srv' = [srv EXCEPT ![i] = [@ EXCEPT !.epoch = e, !.body = 1, !.liked = 0]]
         /\ Emit([t |-> "edited", id |-> i, epoch |-> e, body |-> 1])
  /\ ServerOnly

PostDelete == \E i \in DOMAIN srv :
  /\ ~srv[i].deleted
  /\ Change
  /\ srv' = [srv EXCEPT ![i].deleted = TRUE, ![i].liked = 0]
  /\ Emit([t |-> "deleted", id |-> i])
  /\ ServerOnly

PostReaction == \E i \in DOMAIN srv :
  /\ ~srv[i].deleted /\ srv[i].liked = 0
  /\ Change
  /\ LET e == IF kind = "room" THEN srvEpoch ELSE srv[i].epoch
     IN  /\ srv' = [srv EXCEPT ![i].liked = e]
         /\ Emit([t |-> "reaction", id |-> i, epoch |-> e])
  /\ ServerOnly

PostUnreact == \E i \in DOMAIN srv :
  /\ srv[i].liked # 0
  /\ Quiet
  /\ srv' = [srv EXCEPT ![i].liked = 0]
  /\ Emit([t |-> "reaction_removed", id |-> i])
  /\ UNCHANGED changes /\ ServerOnly

Rotate ==
  /\ kind = "room" /\ srvEpoch = 1
  /\ Change
  /\ srvEpoch' = 2
  /\ Emit([t |-> "epoch_key", epoch |-> 2])
  /\ UNCHANGED <<kind, srv, asked, link, clientVars, queueVars, inbox, state, gen,
                 paneVars, reqs, asks, moves>>

(* A page of the history before the cursor, or a correlated error.  The    *)
(* rows before the cursor are 1..older, those of the page skipped+1..older.*)
Answer ==
  /\ asked # <<>>
  /\ LET q       == Head(asked)
         older   == Cardinality({i \in DOMAIN srv : i < q.before})
         skipped == IF older > Page THEN older - Page ELSE 0
         ids     == [n \in 1..(older - skipped) |-> skipped + n]
     IN  \/ Emit([t |-> "history_result", corr |-> q.corr, rows |-> RowsOf(ids),
                  more |-> skipped > 0])
         \/ Emit([t |-> "error", corr |-> q.corr])
  /\ asked' = Tail(asked)
  /\ UNCHANGED <<serverVars, link, clientVars, queueVars, inbox, state, gen, paneVars,
                 reqs, bounds>>

-----------------------------------------------------------------------------
(* The read loop: dispatch, handleInternal, OnMessage.                     *)

(* A live room key is adopted, or stashed until the member list is there.  *)
ReadEpochKey(f) ==
  \/ adopted' = adopted \cup {f.epoch} /\ stashed' = 0
  \/ UNCHANGED adopted /\ stashed' = f.epoch

(* storeEditedRoomMessage and its like: an edit that cannot be read is not *)
(* stored.                                                                 *)
StoreEdited(f) ==
  IF LiveReads(f.epoch) THEN UpdateMessageEdited(store, f.id, f.body) ELSE store
StoreReaction(f) ==
  IF LiveReads(f.epoch) THEN InsertReaction(store, f.id, TRUE) ELSE store

Stored(f) ==
  CASE f.t = "message" -> StoreLive(store, f)
    [] f.t = "edited" -> StoreEdited(f)
    [] f.t = "deleted" -> DeleteMessageInContext(store, f.id)
    [] f.t = "reaction" -> StoreReaction(f)
    [] f.t = "reaction_removed" -> InsertReaction(store, f.id, FALSE)
    [] f.t \in {"sync_batch", "history_result"} -> StoreBatch(store, f.rows)
    [] OTHER -> store

(* SendQueue().Get and its entry taken out: by Ack, Drop or Error.         *)
Queued(c)  == {q \in pending : q.corr = c}
Without(c) == pending \ Queued(c)

(* dispatchCorrID answers the queue's entry before the frame is looked at; *)
(* an error leaves the entry to the TUI.                                   *)
Read ==
  /\ wire # <<>>
  /\ LET f == Head(wire)
     IN  /\ IF f.t = "epoch_key" THEN ReadEpochKey(f) ELSE UNCHANGED <<adopted, stashed>>
         /\ store' = Stored(f)
         /\ inbox' = IF f.t = "epoch_key" THEN inbox ELSE Append(inbox, f)
         /\ pending' = IF f.t = "history_result" THEN Without(f.corr) ELSE pending
  /\ wire' = Tail(wire)
  /\ UNCHANGED <<serverVars, asked, link, picked, swept, state, gen, paneVars, reqs, bounds>>

(* drainPendingEpochAttestation, at the room's member list.                *)
AdoptStashed ==
  /\ stashed # 0
  /\ adopted' = adopted \cup {stashed} /\ stashed' = 0
  /\ UNCHANGED <<serverVars, asked, wire, link, store, queueVars, inbox, state, gen,
                 paneVars, reqs, bounds>>

-----------------------------------------------------------------------------
(* The send queue's driver, in its own goroutine.                          *)

(* driverTick sweeps: an entry without an answer for ackTimeout is dropped *)
(* and nobody is told.  The answer may still come.                         *)
Sweep ==
  /\ state # "Offline"
  /\ \E q \in pending : pending' = pending \ {q} /\ swept' = swept \cup {q.corr}
  /\ UNCHANGED <<serverVars, asked, wire, link, clientVars, picked, inbox, state, gen,
                 paneVars, reqs, bounds>>

(* An entry the driver found refused is sent again, although the TUI has   *)
(* dropped it meanwhile (ServerError).                                     *)
Resend ==
  /\ \E q \in picked :
       /\ picked' = picked \ {q}
       /\ asked' = IF link THEN Append(asked, q) ELSE asked
  /\ UNCHANGED <<serverVars, wire, link, clientVars, pending, swept, inbox, state, gen,
                 paneVars, reqs, bounds>>

-----------------------------------------------------------------------------
(* The message pane.                                                       *)

InPane(p, id) == \E n \in DOMAIN p : p[n].id = id
Touch(p, id, Becomes(_)) == [n \in DOMAIN p |-> IF p[n].id = id THEN Becomes(p[n]) ELSE p[n]]

DisplayMessage(id, row) ==
  [id |-> id, body |-> row.body, deleted |-> row.deleted, liked |-> row.liked]
Shown(id, body) == DisplayMessage(id, Fresh(body))
BodyIf(reads, f) == IF reads THEN f.body ELSE NoBody

(* Mutant: a message that is there is added again. *)
AddMessageTwice(p, f) == Append(p, Shown(f.id, BodyIf(LiveReads(f.epoch), f)))
AddMessage(p, f) ==
  IF InPane(p, f.id) THEN p ELSE Append(p, Shown(f.id, BodyIf(LiveReads(f.epoch), f)))

(* In a replay, rooms skip what the store has dropped.                     *)
SkipsRow(r) == kind = "room" /\ ~HistoryReads(r.epoch)

MarkDeleted(p, id) == Touch(p, id, LAMBDA m : DisplayMessage(id, Tombstone))
ApplyEdit(p, id, body) == Touch(p, id, LAMBDA m : [m EXCEPT !.body = body, !.liked = FALSE])

(* The reactions of some messages, as the store has them.                  *)
SyncReactions(p, ids) ==
  [n \in DOMAIN p |->
     IF p[n].id \notin ids THEN p[n]
     ELSE [p[n] EXCEPT !.liked = p[n].id \in DOMAIN store /\ store[p[n].id].liked]]
ReactedTo(rows) == {rows[n].id : n \in {k \in 1..Len(rows) : rows[k].liked # 0}}

ReplayRow(p, r) ==
  IF r.deleted THEN MarkDeleted(p, r.id)
  ELSE IF InPane(p, r.id) \/ SkipsRow(r) THEN p
  ELSE Append(p, Shown(r.id, BodyIf(HistoryReads(r.epoch), r)))
Replay(p, rows) == SyncReactions(Seqs!FoldLeft(ReplayRow, p, rows), ReactedTo(rows))

(* Above what is there, what is not there yet.                             *)
PrependMessages(p, rows) ==
  Select(rows, {n \in 1..Len(rows) : /\ ~InPane(p, rows[n].id)
                                     /\ \A m \in 1..n - 1 : rows[m].id # rows[n].id}) \o p

(* The rows of an answer.                                                  *)
BuiltRow(r) ==
  IF r.deleted THEN DisplayMessage(r.id, Tombstone)
  ELSE Shown(r.id, BodyIf(HistoryReads(r.epoch), r))
PrependRows(p, rows) ==
  LET built == Select(rows, {n \in 1..Len(rows) : rows[n].deleted \/ ~SkipsRow(rows[n])})
  IN  SyncReactions(PrependMessages(p, [n \in 1..Len(built) |-> BuiltRow(built[n])]),
                    ReactedTo(rows))

(* The rows of the store: LoadFromDB and the local leg of a scroll-back.   *)
StoreRows(ids) == [n \in 1..Len(ids) |-> DisplayMessage(ids[n], store[ids[n]])]
PrependLocal(p, ids) == PrependMessages(p, StoreRows(ids))

(* abortHistoryRequest: the probe may be made again.                       *)
AbortHistory ==
  /\ loading' = FALSE /\ corr' = 0 /\ probed' = FALSE
  /\ UNCHANGED <<remote, hint, localOut>>

(* A context starts with nothing known of what the server has.             *)
SetContext(c) ==
  /\ ctx' = c /\ loading' = FALSE /\ corr' = 0 /\ remote' = "Unknown" /\ probed' = FALSE
  /\ LET ids == IF c = "this" THEN GetMessages(Window) ELSE <<>>
     IN  /\ pane' = StoreRows(ids)
         /\ hint' = (Len(ids) >= Window)
         /\ localOut' = (Len(ids) < Window)
(* historyResultMatchesActiveRequest.                                      *)
MatchesActive(c) == c # 0 /\ c = corr /\ ctx = "this"
(* markServerHistoryResult.                                                *)
HistoryResult(f) ==
  IF MatchesActive(f.corr)
  THEN /\ pane' = PrependRows(pane, f.rows)
       /\ loading' = FALSE /\ localOut' = FALSE /\ corr' = 0
       /\ remote' = IF f.more THEN "Available" ELSE "Exhausted"
       /\ hint' = f.more
       /\ UNCHANGED <<ctx, probed>>
  ELSE UNCHANGED paneVars

(* Mutant: the entry is dropped, and the load goes on. *)
ServerErrorShown(f) ==
  /\ pending' = Without(f.corr)
  /\ UNCHANGED <<picked, paneVars>>

(* The case "error": the verb is read from the queue's entry, so an error  *)
(* that comes after the sweep ends no load.  Between Queue.Error and Drop  *)
(* the driver may find the entry refused and pick it.                      *)
ServerError(f) ==
  /\ IF Queued(f.corr) # {} /\ f.corr = corr THEN AbortHistory ELSE UNCHANGED loadVars
  /\ pending' = Without(f.corr)
  /\ picked' \in {picked, picked \cup Queued(f.corr)}
  /\ UNCHANGED <<ctx, pane>>

Redrawn(f) ==
  CASE f.t = "message" -> AddMessage(pane, f)
    [] f.t = "edited" -> IF LiveReads(f.epoch) THEN ApplyEdit(pane, f.id, f.body) ELSE pane
    [] f.t = "deleted" -> MarkDeleted(pane, f.id)
    [] f.t \in {"reaction", "reaction_removed"} -> SyncReactions(pane, {f.id})
    [] f.t = "sync_batch" -> Replay(pane, f.rows)

(* handleServerMessage: one frame.                                         *)
Handle ==
  /\ state = "Online" /\ inbox # <<>>
  /\ LET f == Head(inbox)
     IN  CASE f.t = "history_result" -> HistoryResult(f) /\ UNCHANGED <<pending, picked>>
           [] f.t = "error" -> ServerError(f)
           [] OTHER -> /\ pane' = IF ctx = "this" THEN Redrawn(f) ELSE pane
                       /\ UNCHANGED <<ctx, loadVars, pending, picked>>
  /\ inbox' = Tail(inbox)
  /\ UNCHANGED <<serverVars, asked, wire, link, clientVars, swept, state, gen, reqs, bounds>>

-----------------------------------------------------------------------------
(* Scrolling up.                                                           *)

Reachable == state = "Online" /\ link

(* requestHistory.                                                         *)
MayRequest == ~loading /\ remote # "Exhausted" /\ pane # <<>>
              /\ (Reachable \/ ~localOut) /\ (hint \/ ~probed)

PressUp ==
  /\ asks < MaxAsks
  /\ MayRequest
  /\ loading' = TRUE /\ probed' = (probed \/ ~hint)
  /\ asks' = asks + 1
  /\ reqs' = reqs \cup {[gen |-> gen, n |-> asks + 1, before |-> pane[1].id]}
  /\ UNCHANGED <<serverVars, asked, wire, link, clientVars, queueVars, inbox, state, gen,
                 ctx, pane, corr, remote, hint, localOut, changes, moves>>

(* continueHistoryOnServer, sendServerHistory: an encode that fails drops  *)
(* the queue's entry.                                                      *)
ContinueOnServer(r, localOut1) ==
  LET q == [corr |-> r.n, before |-> r.before]
  IN  IF Reachable
      THEN \/ /\ corr' = r.n /\ asked' = Append(asked, q) /\ pending' = pending \cup {q}
              /\ localOut' = localOut1 /\ UNCHANGED <<loading, remote, hint, probed>>
           \/ /\ loading' = FALSE /\ corr' = 0 /\ probed' = FALSE /\ localOut' = localOut1
              /\ UNCHANGED <<asked, pending, remote, hint>>
      ELSE /\ loading' = FALSE /\ corr' = 0 /\ localOut' = TRUE /\ hint' = FALSE
           /\ UNCHANGED <<asked, pending, remote, probed>>

Current(r) == r.gen = gen /\ ctx = "this"

(* HistoryRequestMsg: a full page of the database ends the load, a short   *)
(* one goes on to the server from the same cursor.                         *)
HandleRequest ==
  \E r \in reqs :
    /\ reqs' = reqs \ {r}
    /\ LET ids == GetMessagesBefore(r.before, Page)
       IN  IF ~Current(r)
           THEN UNCHANGED <<asked, pending, paneVars>>
           ELSE /\ pane' = PrependLocal(pane, ids)
                /\ UNCHANGED ctx
                /\ IF Len(ids) >= Page
                   THEN /\ loading' = FALSE /\ hint' = TRUE /\ localOut' = FALSE
                        /\ UNCHANGED <<asked, pending, corr, remote, probed>>
                   ELSE ContinueOnServer(r, IF ids = <<>> THEN localOut ELSE TRUE)
    /\ UNCHANGED <<serverVars, wire, link, clientVars, picked, swept, inbox, state, gen, bounds>>

(* switchMessageContext and LoadFromDB; the queue forgets the request.     *)
Switch ==
  /\ moves < MaxMoves
  /\ moves' = moves + 1
  /\ SetContext(IF ctx = "this" THEN "other" ELSE "this")
  /\ pending' = Without(corr)
  /\ UNCHANGED <<serverVars, asked, wire, link, clientVars, picked, swept, inbox, state, gen,
                 reqs, changes, asks>>

-----------------------------------------------------------------------------
(* The connection.                                                         *)

Cut == link' = FALSE /\ wire' = <<>> /\ asked' = <<>>

Drop ==
  /\ link
  /\ Cut
  /\ UNCHANGED <<serverVars, clientVars, queueVars, inbox, state, gen, paneVars, reqs, bounds>>

(* ErrMsg: the frames behind it are never handled.                         *)
Lost ==
  /\ ~link /\ state = "Online"
  /\ state' = "Offline" /\ inbox' = <<>>
  /\ UNCHANGED <<serverVars, asked, wire, link, clientVars, queueVars, gen, paneVars, reqs,
                 bounds>>

(* /offline: nothing is done about a load that is under way.               *)
GoOffline ==
  /\ state \in {"Online", "Joining"}
  /\ Cut
  /\ state' = "Offline" /\ inbox' = <<>> /\ gen' = gen + 1
  /\ UNCHANGED <<serverVars, clientVars, queueVars, paneVars, reqs, bounds>>

(* A new Client: an empty send queue, the handshake's frames on the way.   *)
Connect ==
  /\ ~link /\ state = "Offline" /\ gen < MaxGen
  /\ link' = TRUE /\ state' = "Joining" /\ gen' = gen + 1
  /\ pending' = {} /\ picked' = {} /\ stashed' = 0
  /\ wire' = (IF kind = "room" THEN <<[t |-> "epoch_key", epoch |-> srvEpoch]>> ELSE <<>>)
             \o <<[t |-> "sync_batch", rows |-> RowsOf([i \in DOMAIN srv |-> i])]>>
  /\ UNCHANGED <<serverVars, asked, adopted, store, swept, inbox, paneVars, reqs, bounds>>

(* connectedWithClient: the pane goes to the first room.                   *)
Connected ==
  /\ state = "Joining"
  /\ state' = "Online"
  /\ SetContext(IF kind = "room" THEN "this" ELSE "other")
  /\ UNCHANGED <<serverVars, asked, wire, link, clientVars, queueVars, inbox, gen, reqs,
                 bounds>>

-----------------------------------------------------------------------------

Init ==
  /\ kind \in Kinds
  /\ srv = <<>> /\ srvEpoch = 1
  /\ asked = <<>> /\ wire = <<>> /\ link = FALSE
  /\ adopted = (IF kind = "room" THEN {} ELSE {1}) /\ stashed = 0
  /\ store = <<>> /\ pending = {} /\ picked = {} /\ swept = {}
  /\ inbox = <<>> /\ state = "Offline" /\ gen = 0
  /\ ctx = "other" /\ pane = <<>>
  /\ loading = FALSE /\ corr = 0 /\ remote = "Unknown"
  /\ hint = FALSE /\ probed = FALSE /\ localOut = TRUE
  /\ reqs = {}
  /\ changes = 0 /\ asks = 0 /\ moves = 0

Next ==
  \/ Post \/ PostEdit \/ PostDelete \/ PostReaction \/ PostUnreact \/ Rotate \/ Answer
  \/ Read \/ AdoptStashed \/ Sweep \/ Resend
  \/ Handle \/ PressUp \/ HandleRequest \/ Switch
  \/ Drop \/ Lost \/ GoOffline \/ Connect \/ Connected

Spec == Init /\ [][Next]_vars

-----------------------------------------------------------------------------

TypeOK ==
  /\ kind \in Kinds
  /\ DOMAIN srv = 1..Len(srv) /\ \A i \in DOMAIN srv : srv[i] \in ServerRow
  /\ srvEpoch \in Epochs /\ link \in BOOLEAN
  /\ adopted \subseteq Epochs /\ stashed \in 0..2
  /\ DOMAIN store \subseteq DOMAIN srv /\ \A i \in DOMAIN store : store[i] \in StoreRow
  /\ state \in {"Offline", "Joining", "Online"} /\ gen \in 0..MaxGen + 1
  /\ ctx \in {"this", "other"} /\ \A n \in DOMAIN pane : pane[n] \in PaneRow
  /\ {loading, hint, probed, localOut} \subseteq BOOLEAN
  /\ corr \in 0..MaxAsks /\ remote \in {"Unknown", "Available", "Exhausted"}
  /\ \A r \in reqs : r.n \in 1..MaxAsks /\ r.before \in Ids
  /\ \A q \in pending \cup picked : q.corr \in 1..MaxAsks
  /\ swept \subseteq 1..MaxAsks

Drained == link /\ state # "Offline" /\ wire = <<>>

(* A row that is stored is deleted exactly when the server has deleted it, *)
(* and keeps neither its body nor its reactions: whichever of the live     *)
(* event, the sync and a history answer brings the deletion, in whichever  *)
(* order they bring the row again, and whatever a broken connection has    *)
(* swallowed (store/messages.go:249-411, persist.go:774-860,918-960).      *)
DeletedForAll == Drained => \A i \in DOMAIN store :
  /\ store[i].deleted = srv[i].deleted
  /\ store[i].deleted => store[i] = Tombstone

(* Once every frame is handled the pane shows what a reload would show:    *)
(* each message once, none of another conversation, deleted and reacted to *)
(* as the store has it, and with its body, except that in a room the key   *)
(* may arrive between the two decryptions and that an edit made while the  *)
(* client was away reaches the pane and not a row that is already stored.  *)
(* A direct message drops nothing, so there the pane has stored rows only  *)
(* (tui/messages.go:1123-1240,1641-1892; store/messages.go:80-103).        *)
PaneFollowsStore ==
  Drained /\ state = "Online" /\ inbox = <<>> =>
    /\ ctx = "other" => pane = <<>>
    /\ \A m, n \in DOMAIN pane : pane[m].id = pane[n].id => m = n
    /\ \A n \in DOMAIN pane :
         LET r == pane[n]
         IN  /\ kind = "dm" => r.id \in DOMAIN store
             /\ r.id \in DOMAIN store =>
                  /\ r.deleted = store[r.id].deleted
                  /\ r.liked => store[r.id].liked
                  /\ r.body = store[r.id].body \/ kind = "room" \/ srv[r.id].body = 1

(* The answer to a request, its page or its error, is still to come: the   *)
(* server has the request, or has answered and the TUI has not handled it. *)
Answers(f, c) == f.t \in {"history_result", "error"} /\ f.corr = c
UnderWay(c) ==
  \/ \E n \in DOMAIN asked : asked[n].corr = c
  \/ \E n \in DOMAIN wire : Answers(wire[n], c)
  \/ \E n \in DOMAIN inbox : Answers(inbox[n], c)

(* A load ends with its page or with "a correlated history error"          *)
(* (messages.go:997-1002, app.go:8963-8975): online, "loading history"     *)
(* means that the request or its answer is still under way.  It need not   *)
(* be: the queue's sweep drops an entry that waits for 30 seconds, and the *)
(* error that comes after it finds no entry to tell its verb, so it ends   *)
(* nothing (sendqueue_driver.go:109-112, app.go:8963-8981).                *)
SpinnerHasCause ==
  link /\ state = "Online" /\ loading => (\E r \in reqs : Current(r)) \/ UnderWay(corr)

(* The sweep is the only way there: as long as it has not dropped the      *)
(* request, no order of pages, errors, switches, retries and reconnections *)
(* leaves the spinner with nothing to end it (messages.go:1003-1090;       *)
(* app.go:549-558,3647-3766,5116-5131,8809-8893,8955-8981).                *)
SpinnerOutlivesOnlySweeps == SpinnerHasCause \/ corr \in swept

(* "so a row never appears then disappears on reload" (persist.go:187): a  *)
(* row on screen is a row of the store.  It need not be: the room's key    *)
(* may be adopted after the read loop has dropped the row and before the   *)
(* TUI decrypts it; and a group's dropped row is shown as "(encrypted)".   *)
PaneIsStored ==
  kind = "room" /\ Drained /\ state = "Online" /\ inbox = <<>> =>
    \A n \in DOMAIN pane : pane[n].id \in DOMAIN store

(* The pane is in the server's order ("callers prepend in chronological    *)
(* order", store/messages.go:208-209).  It need not be: the server's page  *)
(* starts from the cursor of the local page before it, and a row that only *)
(* the server has is put above the local rows that are older than it.      *)
PaneInOrder == \A m, n \in DOMAIN pane : m < n => pane[m].id < pane[n].id
=============================================================================
