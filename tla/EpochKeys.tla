----------------------------- MODULE EpochKeys -----------------------------
(***************************************************************************)
(* The epoch keys of one room in one client: which key it sends under,     *)
(* which it decrypts with, and what survives a restart                     *)
(* (internal/client/epoch.go, epoch_verify.go, the key accessors of        *)
(* send.go, the catch-up half of persist.go and the connect sequence of    *)
(* client.go).                                                             *)
(*                                                                         *)
(* Two threads: the readLoop, one handler per frame in the order of the    *)
(* wire, and the TUI, which reads keys lazily from the local database      *)
(* without holding Client.mu between the read and the write.               *)
(*                                                                         *)
(* The server, with the other members, is external.  It owns the member    *)
(* set and the epochs: it asks this client or another member to generate   *)
(* the key of the next epoch, accepts the first rotation made for its      *)
(* present member set, and relays every change in order on a link that may *)
(* break.  Keys are named by who generated them; "unverified" is a key a   *)
(* sync_batch delivered, without an attestation.                           *)
(***************************************************************************)
EXTENDS Naturals, Sequences, FiniteSets

CONSTANTS
  Others,        \* the other users, who may be members of the room
  Cold,          \* a room without an entry in roomMemberCache
  MaxEpoch,      \* bound: epochs of the room
  MaxMessages,   \* bound: messages posted to the room
  MaxChanges,    \* bound: joins and leaves
  MaxSessions,   \* bound: connections made
  MaxWire        \* bound: frames on their way when the server posts another

ASSUME EpochKeysAssumption ==
  /\ IsFiniteSet(Others)
  /\ \A s \in SUBSET Others : s # Cold
  /\ MaxEpoch \in Nat \ {0}
  /\ MaxMessages \in Nat
  /\ MaxChanges \in Nat
  /\ MaxSessions \in Nat \ {0}
  /\ MaxWire \in Nat

Epochs == 1..MaxEpoch

VARIABLES
  phase,       \* "off", "hello" (handshake done, store not open) or "on"
  keys,        \* Client.epochKeys, the adopted keys in memory
  current,     \* Client.currentEpoch
  rotated,     \* Client.rotatedEpoch
  hist,        \* the epochs of Client.historyEpochKeys
  stash,       \* the epoch of Client.pendingEpochAtt, 0 if there is none
  roster,      \* Client.roomMemberCache
  lastSynced,  \* Client.lastSynced, as a position in the server's log
  hello,       \* the last_synced_at of the last client_hello
  loading,     \* the TUI's lazy load: the epoch and the key it read
  dbKeys,      \* table epoch_keys
  dbRoster,    \* rooms.member_ids
  dbSynced,    \* state "last_synced"
  row,         \* table messages: how each message is stored
  toClient,    \* frames on the wire to the client
  toServer,    \* frames on the wire to the server
  members,     \* the server's member set, this client left out
  dirty,       \* the member set has changed since the last rotation
  epoch,       \* the server's epoch
  winner,      \* who generated the key of each epoch
  attested,    \* the member set each epoch was made for
  log,         \* the epoch of each message posted
  offered,     \* epochs the server has asked this client to rotate to
  refused,     \* epochs whose key was not adopted on delivery (history)
  generated,   \* the connection in which this client last made a key for
               \* each epoch, 0 for none (history)
  changes,     \* joins and leaves so far
  sessions     \* connections made so far

memory  == <<keys, current, rotated, hist, stash, roster, lastSynced>>
disk    == <<dbKeys, dbRoster, dbSynced, row>>
server  == <<members, dirty, epoch, winner, attested, log, offered, changes>>
history == <<refused, generated>>
vars == <<phase, memory, hello, loading, disk, toClient, toServer, server,
          history, sessions>>

-----------------------------------------------------------------------------
Keys      == {"none", "mine", "theirs", "unverified"}
NoLoad    == [e |-> 0, key |-> "none"]
Rosters   == SUBSET Others
Messages  == 1..MaxMessages
RowStates == {"absent", "empty", "adopted", "history"}

(* Frames to the client.  e: an epoch or a message; set: a member set;     *)
(* from, upto: the messages a batch holds.                                 *)
Fr(k, e, set, from, upto) ==
  [kind |-> k, e |-> e, set |-> set, from |-> from, upto |-> upto]

EpochKeyFrame(e)   == Fr("epoch_key", e, attested'[e], 0, 0)
TriggerFrame(e)    == Fr("epoch_trigger", e, members, 0, 0)
ConfirmedFrame(e)  == Fr("epoch_confirmed", e, {}, 0, 0)
RoomListFrame      == Fr("room_list", 0, members, 0, 0)
MembersFrame       == Fr("room_members_list", 0, members, 0, 0)
EventFrame(u)      == Fr("room_event", IF u \in members THEN 0 ELSE 1, {u}, 0, 0)
MessageFrame(i)    == Fr("message", i, {}, 0, 0)
BatchFrame(f, u)   == Fr("sync_batch", 0, {}, f, u)
CompleteFrame(u)   == Fr("sync_complete", 0, {}, 0, u)

Frame == [kind : {"epoch_key", "epoch_trigger", "epoch_confirmed",
                  "room_list", "room_members_list", "room_event", "message",
                  "sync_batch", "sync_complete"},
          e : Nat, set : Rosters, from : Nat, upto : Nat]

(* A frame reaches a client that is connected, or nobody.                  *)
Push(f) == toClient' = IF phase = "off" THEN toClient ELSE Append(toClient, f)

-----------------------------------------------------------------------------
(* Keys: what a lookup finds, and what a verified or a synced key does.    *)

(* RoomEpochKey and DecryptRoomMessage: memory first, then epoch_keys.     *)
AdoptedKey(e) == IF keys[e] # "none" THEN keys[e] ELSE dbKeys[e]

(* The lookup leaves what it found in the database in memory.              *)
Looked(es) == [e \in Epochs |-> IF e \in es THEN AdoptedKey(e) ELSE keys[e]]

(* StoreEpochKey fails without consequence for the key in memory.          *)
Persist(e, k) == \/ dbKeys' = [dbKeys EXCEPT ![e] = k]
                 \/ UNCHANGED dbKeys

Larger(a, b) == IF a > b THEN a ELSE b

(* Mutant: the epoch becomes current and its key goes to the database only.*)
StoreEpochKeyOnDisk(e) ==
  /\ current' = Larger(current, e)
  /\ Persist(e, winner[e])
  /\ UNCHANGED keys

(* storeEpochKey: a key in memory is kept, whatever the server sent.       *)
StoreEpochKey(e) ==
  /\ current' = Larger(current, e)
  /\ IF keys[e] # "none"
     THEN UNCHANGED <<keys, dbKeys>>
     ELSE /\ keys' = [keys EXCEPT ![e] = winner[e]]
          /\ Persist(e, winner[e])

Refuse(e) == /\ refused' = refused \cup {e}
             /\ UNCHANGED <<keys, current, dbKeys>>

Generated(e) == /\ generated' = [generated EXCEPT ![e] = sessions]
                /\ UNCHANGED refused

-----------------------------------------------------------------------------
Init ==
  /\ phase = "off"
  /\ keys = [e \in Epochs |-> "none"]
  /\ current = 0
  /\ rotated = 0
  /\ hist = {}
  /\ stash = 0
  /\ roster = Cold
  /\ lastSynced = 0
  /\ hello = 0
  /\ loading = NoLoad
  /\ dbKeys = [e \in Epochs |-> "none"]
  /\ dbRoster = Cold
  /\ dbSynced = 0
  /\ row = [i \in Messages |-> "absent"]
  /\ toClient = << >>
  /\ toServer = << >>
  /\ members = Others
  /\ dirty = FALSE
  /\ epoch = 1
  /\ winner = [e \in Epochs |-> IF e = 1 THEN "theirs" ELSE "none"]
  /\ attested = [e \in Epochs |-> Others]
  /\ log = << >>
  /\ offered = {}
  /\ refused = {}
  /\ generated = [e \in Epochs |-> 0]
  /\ changes = 0
  /\ sessions = 0

(* client.New and the handshake: everything in memory starts empty, and    *)
(* client_hello carries Client.lastSynced.  The server answers with its    *)
(* catch-up, which the readLoop finds on the wire.                         *)
Dial ==
  /\ phase = "off"
  /\ sessions < MaxSessions
  /\ sessions' = sessions + 1
  /\ phase' = "hello"
  /\ keys' = [e \in Epochs |-> "none"]
  /\ current' = 0
  /\ rotated' = 0
  /\ hist' = {}
  /\ stash' = 0
  /\ roster' = Cold
  /\ lastSynced' = 0
  /\ hello' = lastSynced'
  /\ loading' = NoLoad
  /\ toServer' = << >>
  /\ UNCHANGED <<disk, server, history>>
  /\ toClient' = << RoomListFrame, EpochKeyFrame(epoch),
                    BatchFrame(hello', Len(log)), CompleteFrame(Len(log)) >>

(* OpenLocal, after the handshake: the watermark, then hydrateLocalCache.  *)
OpenLocal ==
  /\ phase = "hello"
  /\ phase' = "on"
  /\ lastSynced' = dbSynced
  /\ roster' = dbRoster
  /\ UNCHANGED <<keys, current, rotated, hist, stash, hello, loading, disk>>
  /\ UNCHANGED <<toClient, toServer, server, history, sessions>>

(* The link breaks, or the program ends: frames in flight are lost, except *)
(* that the server may still act on what it has received.                  *)
Disconnect ==
  /\ phase # "off"
  /\ phase' = "off"
  /\ toClient' = << >>
  /\ toServer' \in {<< >>, toServer}
  /\ UNCHANGED <<memory, hello, loading, disk, server, history, sessions>>

-----------------------------------------------------------------------------
(* The readLoop: one action per kind of frame.                             *)

Receive(kind) ==
  /\ phase = "on"
  /\ toClient # << >>
  /\ Head(toClient).kind = kind
  /\ toClient' = Tail(toClient)

(* Mutant: the key is adopted whatever roster it was made for.             *)
AdoptsAny ==
  /\ Receive("epoch_key")
  /\ StoreEpochKey(Head(toClient).e)
  /\ UNCHANGED <<rotated, hist, stash, roster, lastSynced, phase, hello, loading>>
  /\ UNCHANGED <<dbRoster, dbSynced, row, toServer, server, history, sessions>>

(* verifyAndAdoptEpochKey, the attestation's signature being valid: adopt, *)
(* or stash the key and ask for a fresh member list.                       *)
ReadEpochKey ==
  /\ Receive("epoch_key")
  /\ LET f == Head(toClient) IN
       IF roster = f.set
       THEN /\ StoreEpochKey(f.e)
            /\ UNCHANGED <<stash, toServer, refused>>
       ELSE /\ Refuse(f.e)
            /\ stash' = f.e
            /\ toServer' = Append(toServer, [kind |-> "room_members", e |-> 0, set |-> {}])
  /\ UNCHANGED <<rotated, hist, roster, lastSynced, phase, hello, loading>>
  /\ UNCHANGED <<dbRoster, dbSynced, row, server, generated, sessions>>

(* Mutant: the stashed key stays stashed.                                  *)
DrainKeeps ==
  /\ Receive("room_members_list")
  /\ roster' = Head(toClient).set
  /\ dbRoster' = roster'
  /\ UNCHANGED <<keys, current, dbKeys, stash>>
  /\ UNCHANGED <<rotated, hist, lastSynced, phase, hello, loading, history>>
  /\ UNCHANGED <<dbSynced, row, toServer, server, sessions>>

(* room_members_list replaces the roster and drains the stash: the key is  *)
(* adopted or refused for good.                                            *)
ReadMembers ==
  /\ Receive("room_members_list")
  /\ roster' = Head(toClient).set
  /\ dbRoster' = roster'
  /\ stash' = 0
  /\ IF stash # 0 /\ roster' = attested[stash]
     THEN StoreEpochKey(stash)
     ELSE UNCHANGED <<keys, current, dbKeys>>
  /\ UNCHANGED <<rotated, hist, lastSynced, phase, hello, loading, history>>
  /\ UNCHANGED <<dbSynced, row, toServer, server, sessions>>

(* room_list replaces the roster and leaves the stash alone.               *)
ReadRoomList ==
  /\ Receive("room_list")
  /\ roster' = Head(toClient).set
  /\ dbRoster' = roster'
  /\ UNCHANGED <<keys, current, rotated, hist, stash, lastSynced, phase, hello>>
  /\ UNCHANGED <<loading, dbKeys, dbSynced, row, toServer, server, history, sessions>>

(* A join or leave changes a loaded roster, in memory only.                *)
ReadRoomEvent ==
  /\ Receive("room_event")
  /\ LET u == Head(toClient).set IN
       roster' = IF roster = Cold THEN Cold
                 ELSE IF Head(toClient).e = 1 THEN roster \cup u ELSE roster \ u
  /\ UNCHANGED <<keys, current, rotated, hist, stash, lastSynced, phase, hello>>
  /\ UNCHANGED <<loading, disk, toServer, server, history, sessions>>

(* Mutant: the rotator does not wait for the confirmation.                 *)
RotatesUnconfirmed ==
  /\ Receive("epoch_trigger")
  /\ LET e == Head(toClient).e IN
       /\ toServer' = Append(toServer, [kind |-> "epoch_rotate", e |-> e,
                                        set |-> Head(toClient).set])
       /\ keys' = [keys EXCEPT ![e] = "mine"]
       /\ rotated' = e
       /\ Generated(e)
       /\ current' = e
       /\ Persist(e, "mine")
  /\ UNCHANGED <<hist, stash, roster, lastSynced, phase, hello, loading>>
  /\ UNCHANGED <<dbRoster, dbSynced, row, server, sessions>>

(* Mutant: the new key is stored for the current epoch.                    *)
RotatesInPlace ==
  /\ Receive("epoch_trigger")
  /\ LET e == Head(toClient).e IN
       /\ toServer' = Append(toServer, [kind |-> "epoch_rotate", e |-> e,
                                        set |-> Head(toClient).set])
       /\ keys' = [keys EXCEPT ![e - 1] = "mine"]
       /\ rotated' = e
       /\ Generated(e)
       /\ Persist(e - 1, "mine")
  /\ UNCHANGED <<current, hist, stash, roster, lastSynced, phase, hello, loading>>
  /\ UNCHANGED <<dbRoster, dbSynced, row, server, sessions>>

(* handleEpochTrigger: generate, send epoch_rotate, then keep the key.     *)
ReadTrigger ==
  /\ Receive("epoch_trigger")
  /\ LET e == Head(toClient).e IN
       /\ toServer' = Append(toServer, [kind |-> "epoch_rotate", e |-> e,
                                        set |-> Head(toClient).set])
       /\ keys' = [keys EXCEPT ![e] = "mine"]
       /\ rotated' = e
       /\ Generated(e)
       /\ Persist(e, "mine")
  /\ UNCHANGED <<current, hist, stash, roster, lastSynced, phase, hello, loading>>
  /\ UNCHANGED <<dbRoster, dbSynced, row, server, sessions>>

(* handleEpochConfirmed: only the rotator of that epoch advances.          *)
ReadConfirmed ==
  /\ Receive("epoch_confirmed")
  /\ LET e == Head(toClient).e IN
       IF rotated = e /\ e # 0
       THEN rotated' = 0 /\ current' = Larger(current, e)
       ELSE UNCHANGED <<rotated, current>>
  /\ UNCHANGED <<keys, hist, stash, roster, lastSynced, phase, hello, loading>>
  /\ UNCHANGED <<disk, toServer, server, history, sessions>>

(* A live message: decrypted with an adopted key or stored without a body. *)
ReadMessage ==
  /\ Receive("message")
  /\ LET i == Head(toClient).e
         e == log[i]
     IN /\ keys' = Looked({e})
        /\ row' = [row EXCEPT ![i] =
             IF @ # "absent" THEN @
             ELSE IF AdoptedKey(e) = winner[e] THEN "adopted" ELSE "empty"]
  /\ UNCHANGED <<current, rotated, hist, stash, roster, lastSynced, phase, hello>>
  /\ UNCHANGED <<loading, dbKeys, dbRoster, dbSynced, toServer, server>>
  /\ UNCHANGED <<history, sessions>>

(* RoomEpochKeyForHistory and the decryption with what it finds: an        *)
(* adopted key wins; a synced one only for an epoch that is past.          *)
Resolved(e, synced) ==
  IF AdoptedKey(e) # "none"
  THEN IF AdoptedKey(e) = winner[e] THEN "adopted" ELSE "absent"
  ELSE IF e < current /\ e \in synced THEN "history" ELSE "absent"

(* Mutant: synced keys land among the adopted ones, as before Phase D.     *)
BatchAdopts ==
  /\ Receive("sync_batch")
  /\ LET f   == Head(toClient)
         ids == {i \in Messages : f.from < i /\ i <= f.upto}
         es  == {log[i] : i \in ids}
     IN /\ hist' = hist \cup es
        /\ keys' = [e \in Epochs |-> IF e \in es /\ keys[e] = "none"
                                     THEN "unverified" ELSE keys[e]]
        /\ UNCHANGED row
  /\ UNCHANGED <<current, rotated, stash, roster, lastSynced, phase, hello, loading>>
  /\ UNCHANGED <<dbKeys, dbRoster, dbSynced, toServer, server, history, sessions>>

(* handleSyncBatchKeys, and handleHistoryKeys for a page of history: the   *)
(* keys go to the history scope, then each message is stored if a usable   *)
(* key is there and dropped otherwise.                                     *)
ReadBatch ==
  /\ Receive("sync_batch")
  /\ LET f   == Head(toClient)
         ids == {i \in Messages : f.from < i /\ i <= f.upto}
         es  == {log[i] : i \in ids}
     IN /\ hist' = hist \cup es
        /\ keys' = Looked(es)
        /\ row' = [i \in Messages |->
             IF i \in ids /\ row[i] = "absent"
             THEN Resolved(log[i], hist') ELSE row[i]]
  /\ UNCHANGED <<current, rotated, stash, roster, lastSynced, phase, hello, loading>>
  /\ UNCHANGED <<dbKeys, dbRoster, dbSynced, toServer, server, history, sessions>>

ReadSyncComplete ==
  /\ Receive("sync_complete")
  /\ lastSynced' = Head(toClient).upto
  /\ dbSynced' = lastSynced'
  /\ UNCHANGED <<keys, current, rotated, hist, stash, roster, phase, hello, loading>>
  /\ UNCHANGED <<dbKeys, dbRoster, row, toServer, server, history, sessions>>

-----------------------------------------------------------------------------
(* The TUI looks up the key of a stored message on its own goroutine:      *)
(* between the read of the database and the write of the map, the readLoop *)
(* may run.                                                                *)

UiLoad(e) ==
  /\ phase = "on"
  /\ \E i \in 1..Len(log) : row[i] # "absent" /\ log[i] = e
  /\ loading = NoLoad
  /\ keys[e] = "none"
  /\ dbKeys[e] # "none"
  /\ loading' = [e |-> e, key |-> dbKeys[e]]
  /\ UNCHANGED <<phase, memory, hello, disk, toClient, toServer, server>>
  /\ UNCHANGED <<history, sessions>>

UiLoaded ==
  /\ loading # NoLoad
  /\ keys' = [keys EXCEPT ![loading.e] = loading.key]
  /\ loading' = NoLoad
  /\ UNCHANGED <<phase, current, rotated, hist, stash, roster, lastSynced, hello>>
  /\ UNCHANGED <<disk, toClient, toServer, server, history, sessions>>

-----------------------------------------------------------------------------
(* The server and the other members.                                       *)

(* A user joins or leaves.  The room_event may be lost on its way.         *)
Membership(u) ==
  /\ changes < MaxChanges
  /\ epoch < MaxEpoch
  /\ changes' = changes + 1
  /\ members' = IF u \in members THEN members \ {u} ELSE members \cup {u}
  /\ dirty' = TRUE
  /\ \/ Push(EventFrame(u))
     \/ UNCHANGED toClient
  /\ UNCHANGED <<phase, memory, hello, loading, disk, toServer, epoch, winner>>
  /\ UNCHANGED <<attested, log, offered, history, sessions>>

(* An epoch begins, with the key of the member who rotated first.          *)
Accept(who) ==
  /\ epoch' = epoch + 1
  /\ winner' = [winner EXCEPT ![epoch + 1] = who]
  /\ attested' = [attested EXCEPT ![epoch + 1] = members]
  /\ dirty' = FALSE
  /\ UNCHANGED <<members, log, offered, changes>>

OtherRotates ==
  /\ epoch < MaxEpoch
  /\ Accept("theirs")
  /\ Push(EpochKeyFrame(epoch + 1))
  /\ UNCHANGED <<phase, memory, hello, loading, disk, toServer, history, sessions>>

AskToRotate ==
  /\ phase # "off"
  /\ epoch < MaxEpoch
  /\ epoch + 1 \notin offered
  /\ offered' = offered \cup {epoch + 1}
  /\ Push(TriggerFrame(epoch + 1))
  /\ UNCHANGED <<phase, memory, hello, loading, disk, toServer, members, dirty>>
  /\ UNCHANGED <<epoch, winner, attested, log, changes, history, sessions>>

(* epoch_rotate: accepted, or answered epoch_conflict or                   *)
(* stale_member_list, which the client only shows.                         *)
AnswerRotate ==
  /\ toServer # << >>
  /\ Head(toServer).kind = "epoch_rotate"
  /\ toServer' = Tail(toServer)
  /\ IF Head(toServer).e = epoch + 1 /\ Head(toServer).set = members
     THEN /\ Accept("mine")
          /\ Push(ConfirmedFrame(epoch + 1))
     ELSE UNCHANGED <<server, toClient>>
  /\ UNCHANGED <<phase, memory, hello, loading, disk, history, sessions>>

AnswerMembers ==
  /\ toServer # << >>
  /\ Head(toServer).kind = "room_members"
  /\ toServer' = Tail(toServer)
  /\ Push(MembersFrame)
  /\ UNCHANGED <<phase, memory, hello, loading, disk, server, history, sessions>>

(* Another member posts under the server's epoch.                          *)
Post ==
  /\ Len(log) < MaxMessages
  /\ Len(toClient) < MaxWire
  /\ log' = Append(log, epoch)
  /\ Push(MessageFrame(Len(log) + 1))
  /\ UNCHANGED <<phase, memory, hello, loading, disk, toServer, members, dirty>>
  /\ UNCHANGED <<epoch, winner, attested, offered, changes, history, sessions>>

(* A page of history the user scrolled back to.                            *)
Page ==
  /\ phase = "on"
  /\ Len(log) > 0
  /\ Len(toClient) < MaxWire
  /\ Push(BatchFrame(0, Len(log)))
  /\ UNCHANGED <<phase, memory, hello, loading, disk, toServer, server>>
  /\ UNCHANGED <<history, sessions>>

-----------------------------------------------------------------------------
Reader == \/ ReadEpochKey \/ ReadRoomList \/ ReadMembers \/ ReadRoomEvent \/ ReadTrigger
          \/ ReadConfirmed \/ ReadMessage \/ ReadBatch \/ ReadSyncComplete

Ui == UiLoaded \/ \E e \in Epochs : UiLoad(e)

Answer == AnswerRotate \/ AnswerMembers

Server == \/ OtherRotates \/ AskToRotate \/ Answer \/ Post \/ Page
          \/ \E u \in Others : Membership(u)

Next == Dial \/ OpenLocal \/ Disconnect \/ Reader \/ Ui \/ Server

Spec == Init /\ [][Next]_vars

(* The readLoop and the server keep going; nobody has to post, join, leave *)
(* or rotate, and the link may or may not break.                           *)
FairSpec == Spec /\ WF_vars(OpenLocal) /\ WF_vars(Reader) /\ WF_vars(Answer)

-----------------------------------------------------------------------------
(* Rotations this client made and lost to another member.                  *)
Lost == {e \in Epochs : generated[e] # 0 /\ winner[e] = "theirs"}

(* Every variable holds a value of its kind.                               *)
TypeOK ==
  /\ phase \in {"off", "hello", "on"}
  /\ keys \in [Epochs -> Keys]
  /\ current \in 0..MaxEpoch
  /\ rotated \in 0..MaxEpoch
  /\ hist \in SUBSET Epochs
  /\ stash \in 0..MaxEpoch
  /\ roster = Cold \/ roster \in Rosters
  /\ lastSynced \in Nat
  /\ hello \in Nat
  /\ loading \in [e : 0..MaxEpoch, key : Keys]
  /\ dbKeys \in [Epochs -> Keys]
  /\ dbRoster = Cold \/ dbRoster \in Rosters
  /\ dbSynced \in Nat
  /\ row \in [Messages -> RowStates]
  /\ toClient \in Seq(Frame)
  /\ toServer \in Seq([kind : {"room_members", "epoch_rotate"}, e : Nat, set : Rosters])
  /\ members \in Rosters
  /\ dirty \in BOOLEAN
  /\ epoch \in Epochs
  /\ winner \in [Epochs -> Keys]
  /\ attested \in [Epochs -> Rosters]
  /\ log \in Seq(Epochs)
  /\ offered \in SUBSET Epochs
  /\ refused \in SUBSET Epochs
  /\ generated \in [Epochs -> Nat]
  /\ changes \in Nat
  /\ sessions \in Nat

(* A key that came in a sync_batch, without an attestation, is never       *)
(* adopted, not even through the database; it decrypts messages only of    *)
(* epochs the room has left (CHANGELOG, F7 Phase D; send.go:377-407).      *)
ScopesApart ==
  /\ \A e \in Epochs : keys[e] # "unverified" /\ dbKeys[e] # "unverified"
  /\ \A i \in 1..Len(log) : row[i] = "history" => log[i] < epoch

(* What SendRoomMessageFull encrypts under: an epoch the server has begun, *)
(* a key that is there, and the key the room agreed on unless this client  *)
(* lost the rotation (send.go:59-72, epoch.go:12-152).                     *)
SendsUnderRoomKey ==
  current > 0 => /\ current <= epoch
                 /\ keys[current] # "none"
                 /\ current \in Lost \/ keys[current] = winner[current]

(* Memory and database hold no key but the room's own for an epoch that    *)
(* has begun, lost rotations apart, however the TUI's lazy loads fall.     *)
KeysGenuine ==
  \A e \in 1..epoch \ Lost :
    {keys[e], dbKeys[e]} \subseteq {"none", winner[e]}

(* The client moves to an epoch only when it made the key itself, or when  *)
(* the member set the key was made for is the one it shows the user, also  *)
(* after the key has waited for a fresh list (epoch_verify.go:55-104).     *)
AdoptsOnlyVisible ==
  [][current' > current =>
       roster' = attested[current'] \/ rotated = current']_vars

(* A message is stored without its body only if the key of its epoch was   *)
(* not adopted when it came, or this client lost the rotation: the key is  *)
(* there before the messages it is for (persist.go:279-285).               *)
EmptyOnlyIfRefused ==
  \A i \in 1..Len(log) : row[i] = "empty" => log[i] \in refused \cup Lost

(* While the connection lasts and the room's key fits its member set, the  *)
(* client reaches the room's epoch: a key that was set aside because of a  *)
(* stale roster is adopted after all (epoch_verify.go:81-104).             *)
KeyCatchesUp ==
  phase = "on" /\ ~dirty ~> current = epoch \/ dirty \/ phase # "on"

-----------------------------------------------------------------------------
(* What comments and documents say and the code does not do.               *)

(* epoch.go:97-100: the key of a lost rotation is harmless, "subsequent    *)
(* connects will receive the winning epoch key and overwrite this one".    *)
(* A lazy load that comes first makes the client keep it.                  *)
LosingKeyOverwritten ==
  current > 0 /\ generated[current] # sessions => keys[current] = winner[current]

=============================================================================
