# sshkey-term in TLA+

sshkey-term is a terminal client for an end-to-end encrypted chat server that
is reached over SSH. This directory holds models of the client: what it does
with the requests it sends, with the keys it receives, with the files it
fetches, which conversations, members and messages it shows, whom it takes for
whom, which window answers a key, when goroutines interleave, frames arrive
late, connections break, the user changes servers and the program restarts.
TLC checks the models on small instances; TLAPS proves, for every value of the
constants, what the runs show of the send queue, of the keys of a room and of
users, of connections, file transfers, groups, conversations and the history
spinner. Section 5 says along which argument, and what is left to TLC.

The server is not in this repository. Every model takes it as external and lets
it answer in any way the client's code is written for.

## 1. The system

### Components

| Component | State | Operations | Hard about it | What makes it correct |
|---|---|---|---|---|
| Send queue (`internal/client/sendqueue*.go`) | `Queue.entries`: state, attempts, last error and last send time per corr_id | enqueue, mark, ack, error, sweep, drop, two retry scans | senders, the driver, the readLoop and the TUI interleave; a time-out races with a late answer; two re-senders | a request is accepted at most once, a reported failure is final, every entry leaves the queue |
| Room epoch keys (`epoch.go`, `epoch_verify.go`, `send.go`) | adopted and history keys, current and rotated epoch, stash, roster; table `epoch_keys` | deliver, verify, stash, drain, rotate, confirm, lazy load | competing rotations, key before roster, restart between rotation and confirmation, a read of the database outside the mutex | sends under the room's key, synced keys never adopted, keys arrive before what they decrypt |
| File transfer (`filetransfer.go`, part of `persist.go`, `client.go`) | global maps `downloads` and `uploads`, two channel mutexes, `inflightAutoPreview`, the file cache | download, upload, preview, signal handlers, purge | frames matched by position, time-outs, transfers that outlive a connection | right bytes in the cache, nobody waits for ever, frames not torn |
| Catch-up and message store (`persist.go`, `store/messages.go`) | tables `messages`, `reactions`, `room_events`, `read_positions`; `lastSynced` | store a live frame, a batch or a page; edit, delete, react | the same row by two ways, edits before their message, partial failure | the same rows whatever the way they came |
| Sequence numbers and replay detection (`send.go`, `persist.go`, `store/keys.go`) | counters of this device, high-water marks of others | next number, observe number | persist against encode order, gaps, live against catch-up | no number used twice, no false alarm in order, no replay accepted |
| Groups (`send.go`, `client.go`, `store/group_admin.go`) | `groupMembers`, admins, table of groups | wrap a key per member, group events, admin set | wrapping walks the list while an event changes it | every member at the time of sending gets a key, nobody else |
| Conversation lifecycle (`client.go`, `store/`) | active, archived, left, retired, deleted rooms, groups and DMs | lists on connect, live events, catch-up records, purge | the readLoop ahead of the TUI; frames lost at a break; purge in several statements | local lists converge with the server, nothing comes back after a purge |
| Connection (`client.go`, `reconnect.go`, `tui/app.go`) | `connected`, `done`, the TUI's generation, retry timer | dial, handshake, OpenLocal, readLoop, keepalive, close, reconnect | late results of an abandoned connect; goroutines of an old Client | one live connection; results of old ones ignored |
| Devices (`devices.go`, `tui/devicerevoked.go`) | device list, remembered set | list, reconcile, revoke | first list against later ones | an unknown device is always shown |
| Key pinning (`hostkey.go`, `keys.go`, `tui/keywarning.go`, `tui/verify.go`) | `known_hosts`, pinned keys, verified flags | pin on first use, compare, accept, verify | a change while a dialog is open | a changed key is never trusted silently |
| TUI application (`tui/app.go`) | focus, context, dialogs, in-flight history request, server list | messages from the client, keys of the user | state read when a dialog opens and used when it closes | actions hit what the user saw |
| Scroll-back (`tui/messages.go`, `tui/app.go`) | pages, cursor, in-flight request | page, live arrival, context switch | a page for a context that is gone | no gap, no duplicate, right context |
| Sidebar (`tui/sidebar.go`) | unread counts, selection, order | select, unread, refresh | refresh under a selection | the selection and the counts follow their conversation |
| Input, editing, pickers (`tui/input.go`, `tui/completion.go`, pickers) | text, mode, target | edit mode, completion, choose | target deleted while editing | sends to the target shown |
| Dialogs (`tui/*confirm.go`, panels) | target, focus | open, confirm, cancel | stale target | as for the application |
| Configuration (`internal/config`) | `config.toml` | load, save | save is interrupted | old or new file, never half |
| Wire protocol (`internal/protocol`) | none | encode, decode, categories | frames larger than the limit | categories as documented |
| Cryptography (`internal/crypto`), store engine, key generation, thumbnails, file launcher, rendering | | | pure functions, platform calls, layout | not modelled |

### How they interact

One `Client` per connection. Its goroutines are the **readLoop**, which reads
channel 1 frame by frame and runs every handler itself; the **driver** of the
send queue, every 200 ms; one goroutine per running **transfer**. The **TUI** is
one goroutine too, the loop of bubbletea. It calls the senders directly, and
hears of the readLoop through the buffered channel `msgCh`, so what the readLoop
does to a frame and what the TUI does to it are two steps with any number of
frames between. `Client.mu` protects the maps of the Client, `Queue.mu` the
queue, `downloadChanMu` and `uploadChanMu` a channel each; many operations
release a mutex between a read and the write that depends on it.

A connection that ends is replaced by another `Client`. Only the SQLCipher
database, the file cache, the configuration and package-level globals
(`downloads`, `uploads`) survive.

## 2. Modules

| Module | What it is |
|---|---|
| `SendQueue` | the send queue with all the threads that touch it, the link and the server |
| `AtMostOnce` | what the queue promises its callers, as an abstract specification |
| `SendQueueProofs` | theorems about `SendQueue`, and that it implements `AtMostOnce` |
| `EpochKeys` | the keys of one room in one client, over restarts |
| `EpochKeyProofs` | theorems about `EpochKeys` |
| `FileTransfer` | downloads and uploads over the three channels |
| `FileTransferProofs` | theorems about `FileTransfer` |
| `Conversations` | rooms, groups and DMs in the database, the sidebar and the pane |
| `ConversationsProofs` | theorems about the database of `Conversations`, and about the screen |
| `Session` | which server, which Client, who brings it back online |
| `SessionProofs` | theorems about `Session` |
| `MessageHistory` | the messages of one conversation in the database and on screen |
| `MessageHistoryProofs` | theorems about the spinner, the deletions and the pane of `MessageHistory`, and the lemmas on folds and pages they need |
| `Groups` | members and admins of one group, wrapping for them, the verbs that change them |
| `GroupProofs` | theorems about `Groups` |
| `Overlays` | the forty-one widgets: which takes the next key, which is painted, where the focus returns |
| `Identity` | pinned keys, the verified mark, and the dialogs about both |
| `Devices` | the account's devices: alerts for new ones, and their revocation |
| `AccountProofs` | theorems about `Identity` and about `Devices`, of which it has an instance |
| `MC...` | small instances of each for TLC |

The operators with a comment `Mutant:` are plausible slips of the code. They
occur in no behaviour; substituting one for the definition it follows makes the
property it is listed with fail, which shows that the property says something
about that definition.

### SendQueue

`state`, `attempts`, `lastError`, `age` are the fields of `Entry`; an entry that
is not in `Queue.entries` is "absent". The wall clock is the age of an entry,
with the two thresholds the code compares with (`backoffForAttempts` and
`ackTimeout`); between them only their order matters. A request is a corr_id,
so it is enqueued once.

- A sender (`SendRoomMessageFull` and twelve siblings) is three steps, `SenderEnqueue`,
  `SenderMark`, `SenderEncode`: the mutex is released between them. The
  check for a connection is made once, before the first.
- `driverTick` is `DriverSweep` (the sweep under the mutex), a `DriverDrop` per
  entry swept, `DriverScan` (the snapshot of due entries), and per entry of the
  snapshot `RetryMark` and `RetryEncode`. `TriggerEpochRetry` runs the same loop
  in the readLoop after `ReadEpochKey`.
- `ReadAck` and `ReadError` are `dispatchCorrID` and `dispatchCorrIDError`:
  `upload_error` and `download_error` reach `Queue.Error` in the readLoop, a
  plain `error` only in the TUI, `UiError`, after `msgCh`.
- `UiAbandon`, `UiDropHistory`: history requests are dropped when the context
  changes and when they fail.
- `Reconnect` builds a Client with an empty queue. Entries of the old one are
  "lost"; `outcome` records how each request left the queue.

`applied` counts what the server accepted. The link keeps order and loses what
is in flight when it breaks.

### EpochKeys

One room. `keys`, `current`, `rotated`, `hist`, `stash`, `roster`, `lastSynced`
are fields of `Client` and vanish with it; `dbKeys`, `dbRoster`, `dbSynced`,
`row` are the database. Keys are named by who generated them: "mine", "theirs",
or "unverified" for one that came in a `sync_batch` without an attestation.

- `Dial`, `OpenLocal`, `Disconnect` are the order of `Connect`: handshake, then
  the store, then the readLoop.
- One action per frame: `ReadEpochKey` (`verifyAndAdoptEpochKey` with stash and
  fresh member request), `ReadMembers` (with the drain of the stash),
  `ReadRoomList`, `ReadRoomEvent`, `ReadTrigger`, `ReadConfirmed`, `ReadMessage`,
  `ReadBatch` (catch-up and history pages), `ReadSyncComplete`.
- `UiLoad` and `UiLoaded` are `RoomEpochKey` called by the TUI: the read of
  `epoch_keys` and the write of the map are separate, and the readLoop may run
  in between. `ReadMessage` and `ReadBatch` use the same lookup without a gap,
  since they run in the readLoop.
- `Persist` may fail, which the code logs.
- The server owns the member set and the epochs. It accepts the first rotation
  made for its present member set, by this client or by another member.

### FileTransfer

`ch1`, `ch2`, `ch3` are the SSH channels of the connection. A frame on `ch2` is
its content only: `DownloadFile` reads the file id and does not use it.

- `DownloadFile` is `Check` (the caller looks on disk), `Register`,
  `SendDownload` under `downloadChanMu`, then `Started`, `Failed` or `GiveUp`
  (time-out or `c.done`, at any time), then `ReadFrame` or `ReadBreaks`.
  `Return` is the deferred part: unlock and remove the map entry, whosever it
  is by then. The deferred calls run last in, first out with nothing in between
  that another thread can tell apart.
- `uploadEncrypted` is `UploadStart`, `UploadReady`, `WriteHead` and `WriteData`
  under `uploadChanMu`, `UploadComplete` or `UploadFails`.
- `ReadLoop` runs the queue's dispatch (`Requeued`) and then the signal handler.
  `QueueResend` is the driver, for requests rejected with a transient code: it
  re-sends them whether or not their thread is still there.
- The passive drop of a connection and `Disconnect` are one action: their only
  difference is that the second wakes waiting threads, which may give up at any
  time anyway.
- File ids and upload ids are the server's and the client's, drawn from disjoint
  sets; ids of uploaded files are new ones.
- The server sends `download_start` and the frame it announces in one step. It
  answers in order. `slipped` records that a download of this connection left
  before its frame.

### Conversations

The server's standing of the user with each conversation, `srv`, is mirrored
three times: `store` (the rows of `rooms`, `groups` and `direct_messages` as a
set of flags, and whether messages are stored), the sidebar (`listed`, `grey`
for `leftRooms` and `leftGroups`, `barred` for `retiredRooms`) and the `pane`
with its two read-only flags. `roster` is `roomMemberCache` and `groupMembers`.

- `ReadFrame` is the readLoop: `Script` names the statements each frame runs for
  each conversation, in order, and `Exec` is one of them. An upsert and a delete
  always act; a plain UPDATE needs the row, so `MarkRoomLeft` for a room this
  device never stored does nothing, as in the code.
- `Show...` is the TUI taking the same frame from `msgCh` later. `ShowRoomList`,
  `ShowGroupList`, `ShowRoomAddedTo` and `Opened` read the database as it is
  then; `ShowGroupList` also writes it.
- `Dial` is `connect`: handshake, store, readLoop. `Attach` is the handler of
  `connectedWithClient`. `Hydrate` is `hydrateOfflineUI` after a first dial
  failed. `Detach` is the reaction to an error or a closed `done`; frames still in
  `msgCh` are lost to the TUI and not to the database.
- `CrashInHandler` ends the process inside a frame's handler: some conversations
  done, one up to a statement, the others untouched. The handlers of `room_list`
  and `group_list` run one loop per statement rather than one per entry; with one
  conversation of a kind the two cuts are the same. No handler runs more than
  three statements for one conversation, which is how far `Run` goes.
- `Open` is `switchToSidebarSelection`, also when a create is answered and focused.

The server is assumed to send frames in the order of its decisions, to send in a
handshake the deleted, retired and left ones before the list of the active ones
of the same kind (`DESIGN.md:312`, `client.go:816-821`), to list as deleted only
what is deleted now, and never to add a user to a retired room. An answer to a
roster request may have been computed before a later decision.

Left out: names, topics, member ids, admins, unread counts, attachment files,
audit rows, database errors other than the end of the process.

### Session

Every connect runs in a goroutine of its own and ends in one message to the TUI.
`connGen` is the generation it was started in. A Client is known by the
generation of the attempt that made it.

- `Attempt` is the body of `App.connect`: `Preflight` (the key and its passphrase,
  the local store with `OpenLocal`), the dial, `Handshake`, `ConnectReturns`, or
  one of the failures. It posts `connected`, `offline`, `passphrase` or an error.
- `LinkEnds` is the keepalive or a broken read; `WaitReturns` is the goroutine of
  `waitForMsg`, which ends with an event, an error or a closed `done`.
- `Connected`, `Event`, `Err`, `OfflineClient`, `PassphraseNeeded`,
  `PassphraseResult`, `Timer`, `Retry`, `Reconnect` are the cases of `updateInner`,
  `HandleConnectError` the decision between retry, ladder, overlay and giving up,
  `DropStale` what every one of them does with a message of another generation.
- The keys: `GoOnline`, `GoOffline`, `PressReconnect`, `PressRetry`,
  `TypePassphrase`, `SwitchServer`, `AddServer`, `RemoveServer`, `Quit`.

`inbox` is a set: bubbletea runs each command in a goroutine and promises no order.

### MessageHistory

One conversation: a room, a group or a DM, chosen at the start. Every frame is
applied twice, by `Read` to the `store` and by `Handle`, later, to the `pane`,
each time decrypted with the keys of that moment.

- `StoreLive`, `StoreCatchup`, `StoreBatch`, `Stored` are the handlers of a live
  frame, of what a `sync_batch` carries and of a history page;
  `InsertMessage`, `UpsertDeletedMessage`, `UpdateMessageEdited`, `InsertReaction`
  are the statements: an insert leaves a row that is there alone, a tombstone
  wins over it.
- `AddMessage`, `MarkDeleted`, `ApplyEdit`, `SyncReactions`, `Replay` (of a
  `sync_batch`), `PrependRows` (of a history page) and `PrependLocal` (of the store) are
  the same for the rows on screen. A page is put together by `Select`, the rows that some
  positions number, in order (`Ascending`); `PrependMessages` drops what is there.
- `PressUp` at the top of the pane raises a request, `HandleRequest` answers it
  from the store or asks the server (`ContinueOnServer`), `HistoryResult`,
  `ServerError` and `AbortHistory` end it. `Switch` changes the conversation.
- `Drop`, `Lost`, `GoOffline`, `Connect`, `Connected` are the life of the link as
  the pane sees it.
- Of the send queue the history requests are here: `pending` are its entries (`Queued`, `Without`), `Sweep` is
  the drop of one that waits for its answer too long, `picked` those that an error left retriable
  when the driver took its snapshot, `Resend` its repetition of one of them. `ServerError` ends the load only if the
  entry is still there, since the entry is what tells the TUI that the error is about a history request.

### Groups

`srv` is the server's roster. The client's is a slice: `cells` with a length,
filtered in place and appended to as Go does, because `wrapKeyForGroup` walks the
cells of the slice header it took after it has released the mutex (`BeginWrap`,
`WrapStep`, `EndWrap`, with `Read` in between).

- `Read` is the readLoop: `GroupEvent`, `GroupList` (for `group_list` and
  `group_added_to`), `GroupGone`; a refusal goes on to `Refused`, the TUI's case
  "error" with the picker of a successor.
- `Ask` and `Confirm` are the verbs: by slash command, picker or panel key, with
  what each checks when it opens and when it is confirmed; `/undo` of a kick.
- `Connect` starts from the row on disk and gets the lists and then the catch-up.

### Overlays

`open` is the set of visible widgets; `KeyOrder` and `PaintOrder` are the two
chains of ifs in `updateInner` and `viewBody`, `Owner` and `Painted` their first
visible members. `posted` is the message a key has produced and the loop has yet
to handle. One operator per widget says which keys it answers and what they
open, close or post; `NavOpens`, `FocusKey`, `SlashCommand`, `ClickPanel` are the
other ways to open one; `Unbidden` are the widgets that frames and timers open.
`noteFocusReturn` and `restoreFocus` run before and after every message
(`Note`, `RestoreFocus`). `piled` records that a dialog came unasked on top of
another widget, that a frame or timer brought one between a key and its message, or that a key
was handled before the message of the key before it, since the panels were last bare.

### Identity

`pin` and `verified` are the table `pinned_keys`, `profile` is the cache of
profile frames. A frame brings a fingerprint (perhaps the empty one) and a public key, any pair of them, for the code
computes neither from the other: `Mismatch` compares fingerprints only, `PinKey` writes both and
keeps the mark while the fingerprint stays. `Receive` is the case "profile" of the readLoop with
`StoreProfile`; `HandleWarning` the TUI's `KeyChangeEvent`. `OpenVerify`,
`VerifyEnter`, `HandlePosted`, `OpenUnverify`, `AnswerUnverify` are the dialogs
and their messages, `ShowUser` and `LeavePanel` the profile panel. `Restart` is
any new Client on the same database: `Hydrate` brings the names back, not the keys (`Seeded`).
`compared` and `owed` are history, for the statements of section 4.

### Devices

`registered` and `revoked` are the server's; `known` and `seeded` the row of
`known_devices`; `alerts` what the alert dialog has queued, whose order is left out. `ReconcileDevices` and
`NoteAddedDevice` are what a list and a push do to them. The panel has the rows
of the last list, a cursor and the y/n prompt: `AskRevoke` is x, `ConfirmRevoke`
is y on the row the cursor is on by then. The server lists every device once and in any order (`Rows`), a new
one with each list: the client neither sorts the rows nor is told how they are sorted. A result of a revocation
asks for the list again (`Refetch`). `Drop` is a broken connection, with
or without a restart of the program.

## 3. Runs

| Run | Checks | Result |
|---|---|---|
| `queue_safety` | type, one copy of each request, at most once, failure final, ack true, budget, re-send only what was rejected, refinement of `AtMostOnce` | holds |
| `queue_live` | every entry leaves the queue while the connection lasts | holds without category B answers |
| `keys` | synced keys stay apart, sends under the room's key, keys genuine, adopted only for the roster shown, empty rows only for refused keys, catches up | holds |
| `transfers` | cache genuine, frames in position unless one slipped, no reader without a frame, uploads intact (frames whole, none discarded, stored as sent), every transfer returns | holds |
| `conversations` | once settled: database as the server says, screen as the server says (sidebar, pane, member lists; before: whatever is out of date has its frame queued), no message of a deleted conversation | holds |
| `session` | the Client in use is the chosen server's, no connection or database leaks, one thing at a time decides and never none while the user waits, Offline dials nothing, no generation is stuck | holds |
| `session_hello` | the hello names the last sync | violated |
| `history` | a deletion wins in any order, the pane shows what is stored, the spinner turns only while an answer can come or after a sweep | holds |
| `groups` | roster, admins and row as the last frame left them, no key wrapped for a stranger | holds |
| `overlays` | the painted widget has the keys, unless dialogs came unasked or keys ahead of messages; closing returns the focus | holds |
| `identity` | type with "verified implies pinned", one fingerprint per account and the cached entry the pinned row | holds |
| `devices` | each new device alerted once, the panel comes to tell what was revoked, whoever joins is noticed | holds |

Every module states a `TypeOK`. The runs list it where the proofs use it; the
others hold on the same instances and say less than the properties listed.

### Bounds, and why they are enough

- *Queue.* Two requests, a room message and a scroll-back (`queue_safety`) or a
  room message and an upload (`queue_live`): the three ways an error takes. A
  budget of 2 instead of 5 lets an entry be rejected, re-sent and exhausted. Two
  connections: an outage with entries pending and one more session for what was
  left over. Each category B rejection is followed by an
  `epoch_key`, so that both re-senders run at once; an unsolicited one comes in
  `queue_live`. With one in `queue_safety` too, it passes on
  722,000 states. The interference between
  requests is only in the threads that serve both, which two requests show;
  the theorems below hold for any number.
- *Keys.* One other user who joins and leaves, three epochs (the key lost, the
  key won, the next one), one message, two connections, one frame on the wire
  before another message is posted (frames of the protocol itself are not
  limited). Instances with two messages, two epochs and two changes, and with
  three epochs, one message and two frames, pass as well (360,000 and 492,000
  states). The server offers each epoch to this client once.
- *Transfers.* An automatic preview and a command of the user, on the same file
  or on two, two uploads, two transfers begun, one transient rejection, one
  deletion, two connections: each pair of transfers that can cross. With three
  downloads of one file (safety only, 4.3 million states) it passes as well.
- *Conversations.* One room, one group, one DM, four decisions or roster requests
  in any order on any of them, three connections, a crash or a quit anywhere: a
  conversation can be joined, left, joined again and deleted, with each step in
  another connection's life. Conversations of one kind interact only in the
  merge of a list, which a left or retired room beside the list shows. Five
  decisions pass as well.
- *Session.* Two servers, one with a passphrase; a ladder of two attempts instead of
  four, so that there is a first, a last and the one after; three generations:
  one in use, one superseded, one started while the late result of the first is
  still to come. 477,000 states.
- *History.* Two messages, one change (edit, deletion, reaction that may be taken back, or a
  rotation), two connections, one history request, which the queue may sweep, or repeat while it is refused
  in turn, two switches (away and back), a window and a page of one row: paging happens at the first
  scroll, and a page can be short, full and empty. 2.6 million states.
- *Groups.* Three accounts, so that an event can be about this user, about another
  and seen by a third; two acts of others, one dialog confirmed, one message
  wrapped, two connections. A dialog opens only while one may
  still be confirmed. 970,000 states.
- *Overlays.* All widgets and both orders, keys typed ahead of messages; one dialog that came unasked up at a
  time, one press of the prefix, with which each of its handlers is reached (what a stale tick does to a second prefix
  concerns the pop-up, of which neither property speaks). 4.3 million states.
- *Identity.* Three accounts, two fingerprints and the empty one, two public keys: the user, one to be verified,
  one whose frame meets a full channel (capacity 1 instead of 10). Four frames, in any combination of the two fields, pin
  and refuse and replace; one restart. Fingerprints, keys and the other accounts are interchangeable (symmetry; the
  run checks invariants only). 1.8 million states. The theorems hold for any number.
- *Devices.* This device, one that may be there before it, one that joins, in every order; one
  break, two presses. A push, a list and a revocation can be under way together, and a push can be lost with the
  connection that the list asked for next makes up for. 315,000 states. For the alerts the theorem covers any number of
  breaks and presses.

Deadlock is not checked anywhere: once the bounds are used up and nobody posts
or asks for anything, a client legitimately has nothing to do.

### Fairness

- *Queue.* The goroutines of the client run (`WF` of the steps of each sender, of the
  driver, of the readLoop, of the TUI's handling of an error) and clocks move.
  Go's scheduler preempts, the mutexes are held over no blocking call, and the
  ticker fires while the Client lives. Nothing is assumed of the user, the link
  or the server: an entry must leave the queue even if no answer ever comes.
- *Keys.* The readLoop, `OpenLocal` and the server's answers to requests. Nobody has
  to post, join, leave, rotate or break the link.
- *Transfers.* Each transfer's goroutine and its timers. Neither the server nor the
  readLoop owes anything, so a transfer returns for its own reasons. That is
  enough because the one wait without a timer, the read of channel 2, is
  reached only with a frame to read (`ReaderHasFrame`). Transfers are bounded,
  so "every transfer returns" is `[]<>Quiet`.
- *Session.* An attempt goes on, a timer fires, bubbletea's loop takes every message.
  This includes one thing that is not the client's: a server that has begun the handshake
  goes on with it. The code sets no deadline for reading `welcome`, so against a server
  that accepts the connection and then says nothing the screen stays at Connecting.
- *Devices.* `Connect` (the ladder dials again; breaks are bounded), the server's
  answer, the TUI's loop. The user presses nothing.

## 4. What the code does not do

One run checks a sentence of a document, and TLC finds it broken: `session_hello` (`HelloSaysLastSync`). `DESIGN.md:325`
says of the stored `last_synced`: "Loaded on startup to
populate the `client_hello` `LastSyncedAt` field." `Connect` shakes hands first and opens the store
afterwards, on a Client that is new for every connection, so the field is always empty: the
server sends its whole catch-up window each time. `MessageHistory` is modelled accordingly.

The modules state more sentences of that kind that the code does not keep. Each of the
following is a definition of the module named, and TLC shows a counterexample
when it is put in place of the invariants and properties of the module's run, with the run's bounds. Exceptions:
`PickerAnswersRefusal` needs `MaxAsks = 2`; `EntriesWaitForNextConnect` and `RoomStateFixResent` are
temporal and need the queue's `FairSpec`; `MarkFollowsKey` and `RevokesWhatWasNamed` are action properties, checked under
`Spec` and without the symmetry; `ModalOverride` fails in the run's bounds with a dialog that came unasked, and with
`MaxUnasked = 0` and `MaxPrefix = 0` by the typing described here.

| Definition | Sentence | What happens |
|---|---|---|
| `SendQueue.TimedOutIsRetriedOrTold` | "timeout — no ack arrived within ackTimeout; retry or surface" (`sendqueue.go:19`); "Category A timeouts route through the retry path; other categories surface" (73-75) | The driver drops what it sweeps, without a retry and without a word (`sendqueue_driver.go:109-112`); its own header says why: "assume-success is safer" (14-19). The comments contradict one another: `ResendOnlyRejected` and its theorem follow the driver's, and say that what timed out is never sent again |
| `SendQueue.EntriesWaitForNextConnect` | "Entries simply wait for the next connect." (`sendqueue_driver.go:104-105`) | A connect builds another Client with another, empty Queue |
| `SendQueue.RoomStateFixResent` | "Client applies pushed state and resends." (`protocol/categories.go:14-16`) | If the TUI handles the error after the readLoop has handled `epoch_key`, nothing re-sends the entry. `EventuallyResolved` is therefore checked without category B |
| `EpochKeys.LosingKeyOverwritten` | "subsequent connects will receive the winning epoch key and overwrite this one" (`epoch.go:98-100`) | `storeEpochKey` keeps a key in memory, and a lazy load may have put the losing one there |
| `FileTransfer.OwnFrame` | "the client matches them up positionally" (`filetransfer.go:411-415`) | A download that leaves before its frame leaves the frame on channel 2: all later ones read the frame before their own and fail their hash check (`CacheGenuine` holds) |
| `FileTransfer.PurgedStaysGone` | "in sync with the local DB" (`client.go:2065-2067`) | A file whose message is deleted during its download is written afterwards |
| `Conversations.LeftGroupIsReadOnly` | "rendered read-only" (`keys.go:387-389`) | The TUI handles a `group_list` after the readLoop has applied the `group_left` behind it, takes the mark for an old one and clears it |
| `Conversations.RejoinedGroupIsLive` | cleared "by being re-added to the group by another member" (`sidebar.go:221-223`) | `MarkGroupRejoined` has no caller, and an open pane is not refreshed |
| `Session.HeldStoreIsOpen` | "already holds a client with an open store" (`app.go:572-573`) | A reconnect closes the Client before the new one has its store, and the old one stays in use |
| `MessageHistory.SpinnerHasCause` | a load without a result ends with "a correlated history error" (`messages.go:997-998`), so that the pane does not stay on "loading history" forever (`app.go:554-555`) | The sweep drops the entry of a request that is not answered in 30 seconds and leaves the load on; an error that comes after that finds no entry to say that it is about history, and ends nothing (`app.go:8963-8981`). `SpinnerOutlivesOnlySweeps` says that there is no other way to such a spinner |
| `MessageHistory.PaneIsStored` | "so a row never appears then disappears on reload" (`persist.go:187`) | The key is adopted after the readLoop dropped the row and before the TUI decrypts it |
| `MessageHistory.PaneInOrder` | "callers prepend in chronological order" (`store/messages.go:208-209`) | A server page starts from the cursor of the local page before it, so rows only the server has come above older ones |
| `Groups.WrapsForMembers` | "for all members of a group DM" (`send.go:293`) | The walk reads cells that a `group_event` shifts under it: one member twice, another not at all |
| `Groups.PickerAnswersRefusal` | the picker answers a refused `/leave` or `/delete` (`app.go:9066-9070`) | The refusal of a demotion carries the same code |
| `Groups.AuditHasAll` | "populated from live broadcasts and offline sync replay" (`KEYBINDINGS.md:198`) | `handleSyncBatchKeys` stores no events of a batch (`epoch.go:179-212`) |
| `Overlays.ModalOverride` | "When any overlay is open [...], all key presses are intercepted by the overlay" (`DESIGN.md:298`) | Bubbletea handles the message a key posts after keys that are there already. With d and ? in quick succession the help screen opens first and the delete dialog behind it: the dialog has the keys (`app.go:1951`), the help screen is painted (9396). `KeysGoToPainted` says that the two orders part only in such piles and under a dialog that came unasked |
| `Overlays.WizardIsPainted` | so that it is "not painted behind the failure screen" (`app.go:1079-1081`) | Without a client the waiting screen is painted instead of the wizard, which has the keys |
| `Overlays.WarningIsSeen` | shown "unless another modal is already visible" (`app.go:4383-4385`) | Only five are looked at; under the others the key-change dialog takes keys unseen, and Esc quits |
| `Overlays.NavEndsWithNextKey` | "or any other key / mouse click" (`CHANGELOG.md:71`) | The keys of the quit dialog leave the prefix on |
| `Overlays.FocusOnOpenPanel` | FocusMembers is skipped without a panel (`DESIGN.md:290`) | The key that closes the panel leaves the focus on it |
| `Identity.VerifiedWasCompared` | "user explicitly verified via safety number" (`DESIGN.md:85`) | A dialog without a number takes Enter; after a restart every dialog is, until frames come, because the name seeded in the cache hides the pinned key from the fallback (`verify.go:47-56`) |
| `Identity.AnomalyLeavesTrace` | the missing mark stays "as a persistent indicator" (`app.go:4385-4390`) | The verify dialog the warning was dropped for sets the mark again |
| `Identity.MarkFollowsKey` | the mark is reset so that it is not trusted "when the underlying key has changed" (`store/keys.go:147-149`) | It is reset when the fingerprint string changes. The code does not derive the fingerprint from the key, so a frame with the pinned fingerprint and another key replaces the key in the row and in the cache and keeps the mark (`persist.go:970-990`, `keys.go:157-164`) |
| `Devices.RevokesWhatWasNamed` | x and then y are "two deliberate keystrokes" (`devicemgr.go:107-109`); "Cannot revoke your current device from here" (114) | The prompt keeps a row number. A list with other rows, or the same in another order, that arrives under it (57-63) puts another device there, this one included; the prompt is redrawn with that one's name (211-213), and y revokes it (76) |

### Smaller ones, met while reading

*Queue and keys.* The driver encodes
payloads of a snapshot, so a scroll-back request dropped in between is sent, which
the TUI's error case means to prevent (`app.go:8970-8972`); an entry is silently
dropped when a retriable error arrives between the sweep and the drop of the
same tick (`categories.go:6-8` promises a retry); a `group_list` state fix is
never followed by a re-send, although `categories.go:10-16` describes it;
`RetryAfterMs` is decoded and never read. After a reconnect
between a membership change and its rotation the roster differs from the one
the current key was made for, so the client raises its alarm for an honest
server and stays without a current epoch until the next key, although the
comment at `epoch_verify.go:106-110` describes it as staying on the last epoch;
a row stored without a body while its key was stashed is never filled, because
the insert ignores an existing row. `send.go:36-37` says a replayed number makes the
client drop the message; `checkReplay` logs and returns (`persist.go:886-897`).

*Conversations.* A room left elsewhere before this device stored it has no row to
mark, so an open pane of it stays writable (`PaneMirrorsServer` excludes it); the
answer to a roster request that comes after a deletion puts the list back into
memory, since the row that would say read-only is gone (`NoRosterForReadOnly`
excludes it); `dm_list` hides a DM without emptying a pane that shows it.
`DESIGN.md:321` still describes the inference of a leave from a room's absence in
`room_list`, which `left_rooms` has replaced.

*Session.* The database that a failed dial opens for offline use is not closed when the TUI
has one already (`app.go:1322`; `NothingLeaks` excludes it). Leaving the
failure overlay for a menu and closing the menu leaves Connecting on the screen
with nothing under way (`NoWedge` excludes it). A retry and a reconnect asked for
by a key carry no generation and bring a client back from Offline
(`OfflineIsQuiet` excludes it).

*History.* An edit that comes with a catch-up does not reach a row that is stored
already, and a reaction removed while the client was away stays; the spinner
turns on after /offline, which does not abort the request (`goOffline`, 743-758,
against `app.go:554-555`). A search hit older than the loaded window jumps nowhere.

*Groups.* `app.go:3137` and `6657-6658` disagree on when /undo is forgotten; the
last kick is recorded even if the server refuses it; `group_left` leaves the admin
set in memory; whether a successor is already admin is read when the dialog opens.
`is_admin` is stored and never read back.

*Overlays.* `app.go:2264-2267` says an unknown key after the prefix falls through; the code
swallows it. The passphrase dialog is missing from the list of those that swallow
clicks (`app.go:4641-4656`). A picker opened from the failure screen is not painted.

*Devices.* Alerts queued and not yet shown are lost when the program ends, though the
devices are remembered by then; opened offline, the panel says Loading for good.

## 5. Proofs

### Send queue

`SendQueueProofs` proves, for any sets of requests and rooms, any verbs, any
budget and any bounds, from `SendQueueAssumption` alone:

| Theorem | Says |
|---|---|
| `Typing` | `Spec => []TypeOK` |
| `Inductive` | `Spec => []IInv` |
| `NeverAppliedTwice` | the server accepts a request at most once |
| `FailureIsFinal` | a request reported as failed was not accepted |
| `AckIsTrue` | a request reported as acknowledged was accepted once |
| `BudgetHolds` | attempts stay within the budget, with one left for a pending entry |
| `SingleCopy` | a request is in one place at a time, once |
| `ResendsFollowRejections` | an entry is sent again only from pending, after a retriable rejection |
| `KeepsPromise` | `Spec => Promise!Spec`, the refinement of `AtMostOnce` |

**The argument.** None of these is inductive. At most once, for example, holds because no
copy is sent while another may still be accepted, and that depends on where the
request is: with its sender, in one of the two retry snapshots, on the wire, in
a reply, in `msgCh`, or nowhere. `IInv` says so:

- `Exclusive(r)`: the holders of `r` exclude one another. This is what stops
  the two re-senders from sending twice: both snapshots take only pending entries
  with a last error, the driver's of category A and the readLoop's of category
  B, and an entry in either is in no channel.
- `EntryInv(r)`: what the entry's state says about where the request is. An entry
  that waits for a retry (`pending` with an error) has no copy anywhere, has
  budget left and was not accepted.
- `AnswerInv(r)`: how `applied` and `outcome` fit the answers on their way; an
  acknowledged or failed request has no copy left.
- `WireInv`, `ReplyInv`, `BacklogInv`: each channel holds a request once, with an
  ack for an accepted one and an error for one that was not.
- `DriverInv`: what the driver's variables hold at each place in a tick.

The proof has lemmas for what taking from or appending to a channel does to
these (`WireTake`, `ReplyPut`, ...), one lemma per action with a case for the
request the action is about and one (`Untouched`) for all the others, and `InvStep`
puts them together. The refinement maps `state` and `outcome` to what the caller
knows (`StatusOf`); `Reconnect` closes every open request at once, the other
actions move one request or stutter.

### Pinned keys

`AccountProofs` proves of `Identity`, for any accounts, keys and bounds, from `IdentityAssumption`
(the constants are what their names say, and the bounds are numbers):

| Theorem | Says |
|---|---|
| `Typing` | `Spec => []TypeOK`, with "a verified account is a pinned one" |
| `Inductive` | `Spec => []IInv` |
| `OnePrint` | a profile in memory is the pinned row, fingerprint and key, and the fingerprint on the profile panel is the pinned one |
| `PrintStays` | no step changes a pinned fingerprint, unless it is the empty one |

**The argument.** A fingerprint is set once: `PinKey` runs only where the frame's does not
contradict it, and nothing else writes it. So what was ever read from it, or from a frame that
passed it, stays equal to it, however long the panel is open. The same is not true of the public key, which any such frame
replaces; what keeps row and cache together is that the one step writes both. `OnePrintPerAccount` is
not inductive as it stands: `IInv` adds that dialog, panel and posted command name an account, and that a fingerprint
on the panel is one that is pinned. There is one lemma per action.

### Devices

`AccountProofs` proves of its instance `D` of `Devices`, from `DevicesAssumption`, for any finitely many
devices, listed in any order, any number of breaks and key presses:

| Theorem | Says |
|---|---|
| `NewDevicesOnce` | each device that joined later is alerted for at most once, none that was there before ever, none remembered without an alert but those of the first list |

**The alerts.** A device passes from the server's list to the wire (as a push, and in every list
served from then on) and from there to the remembered set. `OnceInv` says what each place owes.
In the set (`MemoryInv`): once the row is written, whoever was there before and whoever was
alerted for is in it, and whoever is in it and was not among the first was alerted for. On the
wire (`ListsInv`, `PushesInv`): a push comes once, it is news unless its device is remembered, and no list behind
it lacks the device; and as long as the row is unwritten no list under way lacks a device
that was alerted for. The last is what makes it safe that `NoteAddedDevice` does not record a
push it sees before the first list: the list that then writes the row in silence has the device. It is true because the
connection keeps the order and takes lists and pushes along when it breaks.

The order of the rows plays no part: of a list served the proof uses that it has each registered device
(`ListServed`, by counting: rows without repetition, as many as there are devices).

### Room epoch keys

`EpochKeyProofs`, from `EpochKeysAssumption` (the other members are finitely many,
no member set is the mark for "none known", the bounds are numbers):

| Theorem | Says |
|---|---|
| `Typing` | `Spec => []TypeOK` |
| `Inductive` | `Spec => []IInv` |
| `ScopesStayApart` | a key from a sync is never adopted, and opens only rows of epochs that are over |
| `SendsUnderTheRoomsKey` | the epoch sent under has begun, and its key is there and the room's, lost rotations apart |
| `KeysStayGenuine` | memory and database hold no other key for an epoch that has begun, lost rotations apart |
| `BodiesOnlyMissRefusedKeys` | a row without a body is of an epoch whose key was refused or lost |
| `AdoptsOnlyWhatIsVisible` | the epoch moves only to a key made here, or made for the member set shown |

**The argument.** Keys are in four places at once, one of them the lazy load of the TUI,
between its read of the database and its write of memory. `KeyInv` says the same of all four: the key is this
client's, which it made for that epoch, or the one the room agreed on. An empty row is
about order: `OrderInv` says that before a message on the wire comes the key of its epoch,
unless memory has it or it was refused. It says so of the server's present epoch at the end
of the wire too, without which a new message could not be added. `Keeps` is why it survives
every step while connected: no handler drops a key from memory or takes a refusal back.

### Connections

`SessionProofs`, from `SessionAssumption` (at least one server is configured, the ladder
and the generations are positive):

| Theorem | Says |
|---|---|
| `Typing` | `Spec => []TypeOK` |
| `Inductive` | `Spec => []IInv` |
| `TalksToTheChosenServer` | the Client in use is the chosen server's, and the list names that one |
| `ClosesWhatItOpens` | an open connection or database is in use, under way, or in a message to the TUI |
| `OneThingDecides` | one attempt, timer, listener or dialog decides, never two, and none only where the user does |
| `OfflineStaysQuiet` | Offline, nothing of the present generation dials, but for what was asked before |

**The argument.** `Unique` says that a generation has one attempt, one message, one listener
or one dialog, and `Past` that nothing has a generation still to come. Each step takes the one
thing of its generation away and puts at most one in its place. A Client is made with its
generation, so it is in one place too (`ClientInv`, `InboxInv`): that is why closing what comes back
late closes everything. `Driven` replaces the count `Drivers` of the properties, and
`DrivenInv` names the request without a generation that can be all that is left, `retry`.

### File transfer

`FileTransferProofs`, from `FileTransferAssumption` (previews and commands are different
threads, posted and new files different files, file ids no upload ids):

| Theorem | Says |
|---|---|
| `Inductive` | `Spec => []IInv` |
| `KeepsGenuineBytes` | a cached file has the bytes of its name |
| `ReadsItsOwnFrame` | while no download of the connection slipped, the frame read is the reader's own |
| `ReadsOnlyWhatWasSent` | a reader of channel 2 has a frame to read |
| `UploadsArriveWhole` | frames of uploads are whole and expected, and stored as what was sent |

**The argument.** Three of them need to know where a transfer is. For a download, `PipeInv`: until
one slips, whoever holds `downloadChanMu` has its request on channel 1, in the send queue, answered
or signalled, in one of these places and once (`Stage`), and between two holders there is nothing. After a
slip that breaks, and what is left is a count: `CountInv` says that the woken threads and
the answers that will wake one are no more than the frames on channel 2. For uploads,
`UploadInv` follows the server's `expected`, `BytesInv` says that no half of a frame is there
twice, `TurnInv` that the frame begun is the holder's.

### Groups

`GroupProofs`, from `GroupsAssumption` (the user is one of finitely many, at least two; the mark
for "no row" is not a row):

| Theorem | Says |
|---|---|
| `Inductive` | `Spec => []IInv` |
| `RosterIsTheServers` | members, admins and row are as the last frame read left them |
| `WrapsForMembersOnly` | no key is wrapped for anyone who was no member at some moment of the walk |

**The argument.** A `group_event` carries a change, not a roster, so what the client makes of it is right
only if it comes after the frames it was made after. `FeedInv` says that the frames under way are a
`Chain` from the roster heard last to the server's; each frame carries the roster after it as history, `Follows`
compares it with the frame's content. `RosterInv` is then one handler at a time. `WalkInv` looks at
the cells the walk has not read, not at those it has: each holds a member of some roster heard since the walk
began, and writing to them (`FilterInPlace`, `AppendMember`) writes such members.

### Conversations

`ConversationsProofs`, from `KindsDisjoint` (a conversation is a room, a group or a DM, there are
finitely many, the bounds are numbers):

| Theorem | Says |
|---|---|
| `Inductive` | `Spec => []IInv` |
| `StoreIsTheServers` | once the frames are read, the database says what the server says |
| `DeletedIsPurged` | and holds no message of what is deleted |
| `ViewInductive` | `Spec => []ViewInv` |
| `SidebarIsTheStores` | once they are shown, the sidebar says what the database says |
| `OutOfDateHasItsFrame` | until then, what is out of date on the sidebar has its correction in `msgCh` or on the wire |
| `PaneIsTheServers` | once they are shown, an open room can be written to exactly while the user is in it |
| `LeftHasNoRoster` | and nothing that was left or retired has a member list |
| `ScreenIsTheServers` | the last four together, `ScreenMirrorsServer` |

**The argument.** The properties speak of moments when nothing is under way; the invariant speaks of all.
`Wanted` lists what the server's standing asks of a row, goal by goal: that there is a row, that it is archived,
that no message is left, and so on. A goal is `Due` when it is reached and no frame on the wire
undoes it, or when a frame makes it and none behind that one undoes it. `Effects` shows, handler by handler, that
the statements make and break the goals `Makes` and `Breaks` say; the rest is about sequences. The
handshake names each conversation in exactly one list (`HandshakeFrames`) whose frame makes all its goals
(`PlacedIsMade`), which is why no connection needs to know how the last one ended, inside a handler or not.
Two facts hold without a connection and are in `StoreInv`: nothing is kept of a conversation never
heard of, and a room is read-only for ever only if the server said so, even after half a handler. The
unarchiving write of the TUI, late as it may be, undoes nothing: of a group left nothing is wanted.

The screen is harder, since the TUI replays its frames on a database that may be any number of frames ahead of them.
`Coming(inbox, wire, M, B)` says that a frame of `M` is on its way with none of `B` behind it, counting
both queues as one; a step moves the end of that queue (`Sent`), its middle (`Moved`) or its head (`Handled`),
and that is all `ViewInv` needs to know of sequences. Its parts:

- `OrderInv`: the lists of a handshake come once and before every live frame, the archives before
  the list of the rooms, and the list of the welcome is not shown before `Attach` has used it. Without it a late
  `room_list` could undo a live frame.
- `ScreenInv`: what the screen is owed. For each standing, the entry, the marker or the pane is right and nothing
  that undoes it is coming, or the frame that makes it right is coming with nothing behind it to undo it.
- `GuardInv`: some frames have an effect only on a row that is there (`room_left` marks nothing if the
  room was never stored). Each of them on the wire comes after the frame that stores the row, or finds it.
  `Late` says so of the answer to a roster request that a leave overtakes.
- `MirrorInv` and `GreyInv`: how the store and the sidebar differ. If the last frame of `msgCh` that changes an entry adds it,
  the database already shows it; if it drops it, the database no longer does; if it is a list without it,
  the database has it at most archived; and if there is none, the two agree. The same of the markers of rooms.
- `RosterInv`: a member list goes with the frame that ends the membership, and nothing on the wire brings it back.

Each part is kept one step at a time (`UpSteps`: the server says something, a dial, a read, an attach, a frame shown, a
key), and each uses only the parts before it. When both queues are empty nothing is coming (`Quieted`),
and what is left of `ViewInv` is `ScreenMirrorsServer`.

### Messages

`MessageHistoryProofs`, from `HistoryAssumption` (the bounds are numbers, the page and the window positive):

| Theorem | Says |
|---|---|
| `Inductive` | `Spec => []IInv` |
| `LoadingHasCause` | online, "loading history" waits for something that is still to come, unless the request was swept |
| `DeletionsOwed` | `Spec => []DelInv` |
| `DeletedEverywhere` | once the wire is read, a stored row is a tombstone exactly when the server has deleted the message |
| `PaneInductive` | `Spec => []ShownInv` |
| `PaneShowsTheStore` | once every frame is handled, the pane shows each message once, deleted and reacted to as the store has it, and outside rooms with its body unless it was edited |

**The spinner.** `IInv` adds that the pane of the other conversation never loads and that no request has the number
0 that stands for none. The handlers keep the cause for one reason each: a request under way
becomes an answer on the wire, an answer there becomes one in `msgCh`, and only the handling of that one, or leaving, stops the
spinner. A page ends the load by itself; an error does so only through the entry in the queue, so `Waiting` asks for the entry
along with the request or the error, and the entry is lost to nothing but its answer and the sweep, which `swept` records.

**Deletions.** What is on the wire decides. While the connection stands `Owed(i)` holds of every message `i` the server
has deleted: if the store has it as a row that stands, a frame on the wire deletes it; and behind every frame that would bring
it back, as a live message or as a row of a batch or a page composed before the deletion, comes one that
deletes it. That order is what makes the statement inductive: a row that is not stored when its deletion is
read is not stored by the deletion either, and an earlier frame that brings it must not be left to come. A
broken connection loses all of it, and the next connect sends every row as it is. `StoreInv` is the other half: what is deleted
here is deleted there, and is a tombstone.

What a batch does is two folds over its rows. A fold is a function on the sets of positions, defined by the greatest
member; `FoldExists` builds it, by induction over the number of positions (`NatSet`, from the well-foundedness
of `<`), and `CatchupSteps` and `LikeSteps` turn it into a sequence of tables, one per row. `Kept` is what is
true along it: no row leaves, only rows of the batch enter, what is deleted is what was or what one of the rows deletes, whichever
comes first.

**The pane.** `ShownInv` has three parts. `RowsInv` is about the rows on screen, each message once: a row says no
more than the server of a deletion (`RowData`), and online, what it lacks is `Due`: if the server has deleted the message, a
frame that marks it is in the inbox or on the wire, and if the store has lost a reaction that is still shown, a frame at which
the pane reads the reactions again is in the inbox. The two differ because the store is ahead of the pane: the deletion
of a row is on the wire until the read loop takes it, and in the inbox from then on; `DueLikes` arises only when
the read loop has changed the store, so it never has to look at the wire but for a deletion. Offline nothing is owed: `Lost`
throws the inbox away, and the pane is loaded anew by `Connected` before it is online again. `InboxInv` is the order of `Owed`
for the second queue: behind a frame of the inbox that would bring a deleted row back comes one that marks it, there or on the
wire. It needs that the wire is empty without a connection and the inbox offline, and that of a direct message the rows of the inbox are
stored. `PlainInv` is why bodies agree outside rooms: the keys are fixed, so an unedited message reads the same in every frame that has it,
whichever of the two copies arrives first.

The two appliers are summed up before they are compared. `Filling` is what storing a frame does to the rows (reactions end only where the pane
will look, a body is the old one, an edit's or the frame's), `Shows` what drawing it does (a row follows an old one, `Follows`, or
is the frame's, `Enters`); `ReadShown` and `HandleShown` use nothing else. `BatchReplayed` is the fold over the pane; `Enumerated`, by
induction over a bound of the positions, is why `Ascending` is an enumeration, which `Select`, the pages and
`Prepended` (no message twice) rest on.

### Only model-checked

- *Liveness*, out of the prover's reach: `EventuallyResolved`, `KeyCatchesUp`,
  `TransfersReturn`, `GenerationEnds`, `JoinedIsNoticed`.
- *The devices panel*: `PanelTellsRevoked`.
- *Operators the prover cannot unfold.* `SelectSeq` is recursive inside the standard module.
  `Overlays` finds the widget of a key as the first element of a list that is visible (`SelectSeq`): `KeysGoToPainted` and
  `ClosingReturns` are about 41 concrete widgets, of which TLC visits all.

The inductive invariants were checked by TLC on the instances of section 3 before they were proved.

## 6. Not modelled

*Requests and keys.* Payloads of the queue (so not that a re-sent room message is still
encrypted under the epoch the server has rejected); the order in which `driverTick` visits
its snapshot; the table of historical keys (its keys differ from `hist` only in
that they survive a restart) and a key whose unwrapping fails; the encryption of
group and DM messages, of which only who gets a wrapped key is in `Groups`; the
persistent store of sequence numbers, since a number out of order is only logged and
nothing the program does depends on it.

*Files.* Thumbnails, and a channel that fails to open.

*What the user sees.* Unread counts and the order of the sidebar; the text of the
composer, completion and edit mode (what an edit does once sent is in
`MessageHistory`); pins, threads, search and selection in the pane; renames of groups
and display names, topics, status; forms (first-run wizard, adding a server,
settings) and the configuration file behind them.

*Identity.* The host key, which is one comparison with a file, and retired accounts.

*Faults.* Statements of the database that fail one by one; a crash is a step between
two transactions. What section 2 names as left out of a module is left out here too.

The parts of section 1 without a module are listed with their reasons in
`PROJECT.json`: pure functions, platform calls, layout, or planned below.

## 7. Plan

In order of importance:

1. `QueueKeys`, the composition of `SendQueue` and `EpochKeys`: the payload of a re-sent room
   message names its epoch.
2. `Compose`: the composer with edit mode, reply target and drafts, whose message may be deleted or
   whose conversation may be left while they are open. `Unread`: counts against
   catch-up, read positions and another device's reads.
3. `ConfigSave` and `SeqReplay`: small models with a crash between two steps.

Every module is written to be proved about: constants with a named assumption,
an action per operation, no recursive operator, invariants as conjunctions of
named parts.
