--------------------------- MODULE Conversations ---------------------------
(***************************************************************************)
(* The life of a conversation on the client.  The server decides: a user   *)
(* is added to rooms, group DMs and 1:1 DMs, leaves them, is removed, sees *)
(* a room retired, or deletes a conversation, from any device.  The client *)
(* mirrors each decision three times:                                      *)
(*   - the local store, written by the readLoop (client.go handleInternal, *)
(*     store/keys.go), which survives a restart;                           *)
(*   - the sidebar, written by the TUI thread (app.go, sidebar.go) when it *)
(*     takes the same frame from msgCh, later;                             *)
(*   - the messages pane, whose read-only flags follow the open            *)
(*     conversation.                                                       *)
(* The TUI reads the store while it handles a frame, and the store may be  *)
(* several frames ahead by then.  A connection may break with frames on    *)
(* the wire or in msgCh, and the process may die between two statements of *)
(* a handler; the lists of the next handshake repair what was lost.        *)
(*                                                                         *)
(* Names, topics, member lists, admin flags, unread counts, presence and   *)
(* leave reasons are left out: a conversation is known by its flags.       *)
(***************************************************************************)
EXTENDS Naturals, Sequences, FiniteSets
Seqs == INSTANCE SequencesExt

CONSTANTS
  Rooms, Groups, DMs,   \* the conversations, by kind
  NoConv,               \* the empty context of the messages pane
  MaxOps,               \* bound: decisions of the server and roster requests
  MaxDials              \* bound: connections made

Conv == Rooms \cup Groups \cup DMs

ASSUME KindsDisjoint ==
  /\ Rooms \cap Groups = {} /\ Rooms \cap DMs = {} /\ Groups \cap DMs = {}
  /\ NoConv \notin Conv
  /\ IsFiniteSet(Conv)
  /\ MaxOps \in Nat /\ MaxDials \in Nat

VARIABLES
  srv,      \* Conv -> where the user stands with it on the server
  ops,      \* decisions taken so far (bound)
  asked,    \* rooms whose room_members answer the server still owes
  up,       \* the connection exists and the readLoop runs
  dials,    \* connections made so far (bound)
  welcome,  \* the rooms of the last welcome frame
  wire,     \* frames sent by the server and not read
  store,    \* Conv -> flags of its rows in the local database
  roster,   \* conversations with a member list in the memory of the Client
  inbox,    \* msgCh: frames read and not yet handled by the TUI
  ui,       \* what the TUI thread is attached to
  listed,   \* conversations in the sidebar
  grey,     \* leftRooms and leftGroups: shown as left
  barred,   \* retiredRooms: shown as retired
  pane      \* the open conversation and its read-only flags

serverVars  == <<srv, ops, asked>>
linkVars    == <<up, dials, welcome>>
clientVars  == <<store, roster>>
sidebarVars == <<listed, grey, barred>>
vars == <<serverVars, linkVars, wire, clientVars, inbox, ui, sidebarVars, pane>>

(* "buried" is a deleted room that was retired: it never comes back.       *)
Standing == {"none", "in", "left", "retired", "deleted", "buried"}
Dead     == {"deleted", "buried"}

(* "row": the metadata row exists; "members": rooms.member_ids is not      *)
(* NULL; "msgs": messages of the conversation are stored.                  *)
Flags    == {"row", "left", "retired", "hidden", "members", "msgs"}
RowFlags == Flags \ {"msgs"}

FrameTypes ==
  {"deleted_rooms", "retired_rooms", "left_rooms", "room_list",
   "deleted_groups", "left_groups", "group_list", "dm_list",
   "room_added_to", "room_left", "room_retired", "room_deleted",
   "room_members_list", "group_created", "group_added_to", "group_left",
   "group_deleted", "dm_created", "dm_left", "message"}

(* hidden: the entries of a dm_list that carry hidden_for_caller.          *)
Frame(type, convs) == [type |-> type, convs |-> convs, hidden |-> {}]

Frames == [type: FrameTypes, convs: SUBSET Conv, hidden: SUBSET DMs]

NoPane == [conv |-> NoConv, left |-> FALSE, retired |-> FALSE]

TypeOK ==
  /\ srv \in [Conv -> Standing]
  /\ ops \in 0..MaxOps
  /\ asked \subseteq Rooms
  /\ up \in BOOLEAN
  /\ dials \in 0..MaxDials
  /\ welcome \subseteq Rooms
  /\ wire \in Seq(Frames)
  /\ store \in [Conv -> SUBSET Flags]
  /\ roster \subseteq Rooms \cup Groups
  /\ inbox \in Seq(Frames)
  /\ ui \in {"closed", "cold", "dialled", "attached", "detached"}
  /\ listed \subseteq Conv
  /\ grey \subseteq Rooms \cup Groups
  /\ barred \subseteq Rooms
  /\ pane \in [conv: Conv \cup {NoConv}, left: BOOLEAN, retired: BOOLEAN]

----------------------------------------------------------------------------
(* The statements of the store.  An INSERT ... ON CONFLICT UPDATE and a    *)
(* DELETE take effect whether or not the row exists; a plain UPDATE of a   *)
(* row that does not exist changes nothing.                                *)

Always(sets, clears) == [upsert |-> TRUE,  sets |-> sets, clears |-> clears]
Update(sets, clears) == [upsert |-> FALSE, sets |-> sets, clears |-> clears]

UpsertRoomWithMembers == Always({"row", "members"}, {})
EnsureRetiredRoom     == Always({"row", "retired"}, {})
SetRoomMembers        == Update({"members"}, {})
ClearRoomMembers      == Update({}, {"members"})
MarkRoomLeft          == Update({"left"}, {})
MarkRoomRejoinedNot   == Update({}, {})  \* mutant: left_at is not cleared
MarkRoomRejoined      == Update({}, {"left"})
PurgeRoomMessages     == Always({}, {"msgs"})
DeleteRoomRecord      == Always({}, RowFlags)

StoreGroup            == Always({"row"}, {})
MarkGroupLeft         == Update({"left"}, {})
MarkGroupRejoined     == Update({}, {"left"})
PurgeGroupMessages    == Always({}, {"msgs"})
DeleteGroupRecord     == Always({}, RowFlags)

StoreDM               == Always({"row"}, {})
SetDMState(isHidden)  == IF isHidden THEN Update({"hidden"}, {})
                                     ELSE Update({}, {"hidden"})
MarkDMLeft            == Update({"hidden"}, {})
PurgeReactionsOnly    == Always({}, {})  \* mutant: the messages stay
PurgeDMMessages       == Always({}, {"msgs"})

InsertMessage         == Always({"msgs"}, {})

Exec(flags, stmt) ==
  IF stmt.upsert \/ "row" \in flags THEN (flags \ stmt.clears) \cup stmt.sets
                                    ELSE flags

(* No handler runs more than three statements for one conversation.        *)
ExecNth(flags, script, n) ==
  IF n \in DOMAIN script THEN Exec(flags, script[n]) ELSE flags

Run(flags, script) == ExecNth(ExecNth(ExecNth(flags, script, 1), script, 2), script, 3)

ReadOnly(flags) == flags \cap {"left", "retired"} # {}

(* The statements handleInternal runs for each conversation of a frame.    *)
Script(f, c) ==
  CASE f.type \in {"room_list", "room_added_to"} ->
         <<UpsertRoomWithMembers, MarkRoomRejoined>>
    [] f.type \in {"room_left", "left_rooms"} ->
         <<MarkRoomLeft, ClearRoomMembers>>
    [] f.type \in {"room_retired", "retired_rooms"} ->
         <<EnsureRetiredRoom, ClearRoomMembers>>
    [] f.type \in {"room_deleted", "deleted_rooms"} ->
         <<PurgeRoomMessages, DeleteRoomRecord, ClearRoomMembers>>
    [] f.type = "room_members_list" ->
         IF ReadOnly(store[c]) THEN <<>> ELSE <<SetRoomMembers>>
    [] f.type \in {"group_list", "group_added_to"} ->
         <<StoreGroup, MarkGroupRejoined>>
    [] f.type = "group_created" -> <<StoreGroup>>
    [] f.type \in {"group_left", "left_groups"} -> <<MarkGroupLeft>>
    [] f.type \in {"group_deleted", "deleted_groups"} ->
         <<PurgeGroupMessages, DeleteGroupRecord>>
    [] f.type = "dm_list" ->
         IF c \in f.hidden THEN <<StoreDM, SetDMState(TRUE), PurgeDMMessages>>
                           ELSE <<StoreDM, SetDMState(FALSE)>>
    [] f.type = "dm_created" -> <<StoreDM, SetDMState(FALSE)>>
    [] f.type = "dm_left"    -> <<MarkDMLeft, PurgeDMMessages>>
    [] f.type = "message"    -> <<InsertMessage>>

Stored(f) ==
  [c \in Conv |-> IF c \in f.convs THEN Run(store[c], Script(f, c)) ELSE store[c]]

(* The handler stopped in the middle: done were finished, n statements of  *)
(* c were executed, nothing was written for the others.                    *)
StoredUpTo(f, done, c, n) ==
  [d \in Conv |-> CASE d \in done -> Run(store[d], Script(f, d))
                    [] d = c      -> Run(store[d], SubSeq(Script(f, d), 1, n))
                    [] OTHER      -> store[d]]

(* roomMemberCache and groupMembers after the frame.                       *)
RosterAfter(f) ==
  CASE f.type \in {"room_list", "room_added_to", "group_list", "group_created",
                   "group_added_to"} -> roster \cup f.convs
    [] f.type = "room_members_list" ->
         roster \cup {r \in f.convs : ~ReadOnly(store[r])}
    [] f.type \in {"room_left", "left_rooms", "room_retired", "retired_rooms",
                   "room_deleted", "deleted_rooms", "group_left", "left_groups",
                   "group_deleted", "deleted_groups"} -> roster \ f.convs
    [] OTHER -> roster

(* A new Client starts from what the database holds.                       *)
HydratedRoster == {r \in Rooms  : "members" \in store[r]} \cup
                  {g \in Groups : "row" \in store[g]}

----------------------------------------------------------------------------
(* The server: one action per decision, each announced to a connected      *)
(* client with the live frame of that decision.                            *)

Decide(c, standing, type) ==
  /\ ops < MaxOps
  /\ ops' = ops + 1
  /\ srv' = [srv EXCEPT ![c] = standing]
  /\ wire' = IF up THEN Append(wire, Frame(type, {c})) ELSE wire
  /\ UNCHANGED <<asked, linkVars, clientVars, inbox, ui, sidebarVars, pane>>

AddToRoom(r) ==
  /\ srv[r] \in {"none", "left", "deleted"}
  /\ Decide(r, "in", "room_added_to")

LeaveRoom(r) ==
  /\ srv[r] = "in"
  /\ Decide(r, "left", "room_left")

RetireRoom(r) ==
  /\ srv[r] = "in"
  /\ Decide(r, "retired", "room_retired")

DeleteRoom(r) ==
  /\ srv[r] \in {"in", "left", "retired"}
  /\ Decide(r, IF srv[r] = "retired" THEN "buried" ELSE "deleted", "room_deleted")

CreateGroup(g) ==
  /\ srv[g] = "none"
  /\ Decide(g, "in", "group_created")

AddToGroup(g) ==
  /\ srv[g] \in {"none", "left", "deleted"}
  /\ Decide(g, "in", "group_added_to")

LeaveGroup(g) ==
  /\ srv[g] = "in"
  /\ Decide(g, "left", "group_left")

DeleteGroup(g) ==
  /\ srv[g] \in {"in", "left"}
  /\ Decide(g, "deleted", "group_deleted")

(* create_dm reuses the row of the pair and clears its hidden flag.        *)
CreateDM(d) ==
  /\ srv[d] \in {"none", "deleted"}
  /\ Decide(d, "in", "dm_created")

LeaveDM(d) ==
  /\ srv[d] = "in"
  /\ Decide(d, "deleted", "dm_left")

Post(c) ==
  /\ srv[c] = "in"
  /\ Decide(c, "in", "message")

(* The answer to `r` was computed while the user was a member, and may be  *)
(* sent after another session's decision.                                  *)
AnswerRoomMembers(r) ==
  /\ up /\ r \in asked
  /\ asked' = asked \ {r}
  /\ wire' = Append(wire, Frame("room_members_list", {r}))
  /\ UNCHANGED <<srv, ops, linkVars, clientVars, inbox, ui, sidebarVars, pane>>

----------------------------------------------------------------------------
(* The connection.                                                         *)

In(S, standings) == {c \in S : srv[c] \in standings}

ListFrame(type, convs) ==
  IF convs = {} THEN <<>> ELSE <<Frame(type, convs)>>

(* The catchup of the handshake: deletions, retirements and leaves come    *)
(* before the list of the active conversations of their kind.              *)
Handshake ==
  ListFrame("deleted_rooms", In(Rooms, Dead))
  \o ListFrame("retired_rooms", In(Rooms, {"retired"}))
  \o ListFrame("left_rooms", In(Rooms, {"left"}))
  \o <<Frame("room_list", In(Rooms, {"in"}))>>
  \o ListFrame("deleted_groups", In(Groups, Dead))
  \o ListFrame("left_groups", In(Groups, {"left"}))
  \o <<Frame("group_list", In(Groups, {"in"}))>>
  \o <<[type |-> "dm_list", convs |-> In(DMs, {"in"} \cup Dead),
        hidden |-> In(DMs, Dead)]>>

(* A new Client: dial, handshake, open the store, start the readLoop.      *)
Dial ==
  /\ ui \in {"cold", "detached"}
  /\ dials < MaxDials
  /\ dials' = dials + 1
  /\ up' = TRUE
  /\ ui' = "dialled"
  /\ welcome' = In(Rooms, {"in"})
  /\ wire' = Handshake
  /\ roster' = HydratedRoster
  /\ UNCHANGED <<serverVars, store, inbox, sidebarVars, pane>>

(* The readLoop takes one frame: handleInternal, then OnMessage.           *)
ReadFrame ==
  /\ up /\ wire # <<>>
  /\ store' = Stored(Head(wire))
  /\ roster' = RosterAfter(Head(wire))
  /\ inbox' = Append(inbox, Head(wire))
  /\ wire' = Tail(wire)
  /\ UNCHANGED <<serverVars, linkVars, ui, sidebarVars, pane>>

Drop ==
  /\ up
  /\ up' = FALSE
  /\ wire' = <<>>
  /\ asked' = {}
  /\ UNCHANGED <<srv, ops, dials, welcome, clientVars, inbox, ui, sidebarVars, pane>>

(* waitForMsg picks the closed done channel or the error before the frames *)
(* that are still in msgCh; nothing reads them afterwards.                 *)
Detach ==
  /\ ui = "attached" /\ ~up
  /\ ui' = "detached"
  /\ inbox' = <<>>
  /\ UNCHANGED <<serverVars, linkVars, wire, clientVars, sidebarVars, pane>>

(* The process ends: only the database survives.                           *)
Stop(db) ==
  /\ store' = db
  /\ roster' = {}
  /\ up' = FALSE
  /\ welcome' = {}
  /\ wire' = <<>> /\ inbox' = <<>>
  /\ asked' = {}
  /\ ui' = "closed"
  /\ listed' = {} /\ grey' = {} /\ barred' = {}
  /\ pane' = NoPane
  /\ UNCHANGED <<srv, ops, dials>>

Quit ==
  /\ ui # "closed"
  /\ Stop(store)

CrashInHandler ==
  /\ up /\ wire # <<>>
  /\ LET f == Head(wire) IN
     \E done \in SUBSET f.convs : \E c \in f.convs \ done :
       \E n \in 0..Len(Script(f, c)) : Stop(StoredUpTo(f, done, c, n))

Start ==
  /\ ui = "closed"
  /\ ui' = "cold"
  /\ UNCHANGED <<serverVars, linkVars, wire, clientVars, inbox, sidebarVars, pane>>

----------------------------------------------------------------------------
(* The TUI.                                                                *)

(* switchMessageContext followed by syncMessagesLeftState.                 *)
Opened(c) ==
  [conv    |-> c,
   left    |-> c \in Rooms \cup Groups /\ "left" \in store[c],
   retired |-> c \in Rooms /\ "retired" \in store[c]]

(* syncMessagesLeftState for the context that is open.                     *)
Synced == IF pane.conv = NoConv THEN NoPane ELSE Opened(pane.conv)

Rows(S) == {c \in S : "row" \in store[c]}
Left(S) == {c \in S : "left" \in store[c]}
Retired(S) == {c \in S : "retired" \in store[c]}
Visible(S) == {d \in Rows(S) : "hidden" \notin store[d]}

(* hydrateOfflineUI, when the first dial of a process fails and the server *)
(* has a local store.                                                      *)
Hydrate ==
  /\ ui = "cold"
  /\ ui' = "detached"
  /\ roster' = HydratedRoster
  /\ listed' = Rows(Rooms) \cup Rows(Groups) \cup Visible(DMs)
  /\ grey' = (grey \ Rooms) \cup Left(Rooms) \cup Left(Groups)
  /\ barred' = barred \cup Retired(Rooms)
  /\ IF Rows(Rooms) = {} THEN UNCHANGED pane
     ELSE \E r \in Rows(Rooms) : pane' = Opened(r)
  /\ UNCHANGED <<serverVars, linkVars, wire, store, inbox>>

(* connectedWithClient: the sidebar shows the rooms of the welcome frame   *)
(* and the first of them is opened.                                        *)
Attach ==
  /\ ui = "dialled"
  /\ ui' = "attached"
  /\ listed' = (listed \ Rooms) \cup welcome
  /\ IF welcome = {} THEN UNCHANGED pane
     ELSE \E r \in welcome : pane' = Opened(r)
  /\ UNCHANGED <<serverVars, linkVars, wire, clientVars, inbox, grey, barred>>

(* switchToSidebarSelection.                                               *)
Open(c) ==
  /\ ui \in {"dialled", "attached", "detached"}
  /\ c \in listed /\ c # pane.conv
  /\ pane' = Opened(c)
  /\ UNCHANGED <<serverVars, linkVars, wire, clientVars, inbox, ui, sidebarVars>>

(* `r` in a room that is not read-only.                                    *)
RequestRoomMembers ==
  /\ ui = "attached" /\ up
  /\ pane.conv \in Rooms /\ ~pane.left /\ ~pane.retired
  /\ ops < MaxOps
  /\ ops' = ops + 1
  /\ asked' = IF srv[pane.conv] = "in" THEN asked \cup {pane.conv} ELSE asked
  /\ UNCHANGED <<srv, linkVars, wire, clientVars, inbox, ui, sidebarVars, pane>>

(* The next frame of msgCh, and its only conversation when it names one.   *)
Take(types) ==
  /\ ui = "attached" /\ inbox # <<>>
  /\ Head(inbox).type \in types
  /\ inbox' = Tail(inbox)
  /\ UNCHANGED <<serverVars, linkVars, wire, roster, ui>>

Named == Head(inbox).convs

(* Mutant: the archived rooms of the database are not merged.              *)
ShowRoomListUnmerged ==
  /\ Take({"room_list"})
  /\ listed' = (listed \ Rooms) \cup Named
  /\ grey' = grey \ Named
  /\ pane' = Synced
  /\ UNCHANGED <<store, barred>>

(* The server's rooms, and the left and retired ones of the database.      *)
ShowRoomList ==
  /\ Take({"room_list"})
  /\ LET ids == Named \cup Left(Rooms) \cup Retired(Rooms) IN
     /\ listed' = (listed \ Rooms) \cup ids
     /\ grey' = (grey \ ids) \cup Left(ids)
     /\ barred' = barred \cup Retired(ids)
  /\ pane' = Synced
  /\ UNCHANGED store

(* The TUI clears left_at of every group the frame lists, in the database  *)
(* as it is now.                                                           *)
Unarchived ==
  [c \in Conv |-> IF c \in Named /\ "left" \in store[c]
                  THEN Exec(store[c], MarkGroupRejoined) ELSE store[c]]

ShowGroupList ==
  /\ Take({"group_list"})
  /\ store' = Unarchived
  /\ LET gs == Named \cup {g \in Groups : "left" \in Unarchived[g]} IN
     /\ listed' = (listed \ Groups) \cup gs
     /\ grey' = grey \cup {g \in gs : "left" \in Unarchived[g]}
  /\ UNCHANGED <<barred, pane>>

ShowDMList ==
  /\ Take({"dm_list"})
  /\ listed' = (listed \ DMs) \cup (Named \ Head(inbox).hidden)
  /\ UNCHANGED <<store, grey, barred, pane>>

(* AddRoom clears both markers; an open pane is synced with the database.  *)
ShowRoomAddedTo ==
  /\ Take({"room_added_to"})
  /\ listed' = listed \cup Named
  /\ grey' = grey \ Named
  /\ barred' = barred \ Named
  /\ pane' = IF pane.conv \in Named THEN Synced ELSE pane
  /\ UNCHANGED store

(* AddGroup and AddDM append the entry and touch nothing else.             *)
ShowAdded ==
  /\ Take({"group_created", "group_added_to", "dm_created"})
  /\ listed' = listed \cup Named
  /\ UNCHANGED <<store, grey, barred, pane>>

ShowLeft ==
  /\ Take({"room_left", "group_left"})
  /\ grey' = grey \cup Named
  /\ pane' = IF pane.conv \in Named THEN [pane EXCEPT !.left = TRUE] ELSE pane
  /\ UNCHANGED <<store, listed, barred>>

ShowRetired ==
  /\ Take({"room_retired", "retired_rooms"})
  /\ barred' = barred \cup Named
  /\ pane' = IF pane.conv \in Named THEN [pane EXCEPT !.retired = TRUE] ELSE pane
  /\ UNCHANGED <<store, listed, grey>>

(* RemoveRoom, RemoveGroup and RemoveDM drop the entry with its markers;   *)
(* an open pane is emptied.                                                *)
ShowDeleted ==
  /\ Take({"room_deleted", "deleted_rooms", "group_deleted", "deleted_groups",
           "dm_left"})
  /\ listed' = listed \ Named
  /\ grey' = grey \ Named
  /\ barred' = barred \ Named
  /\ pane' = IF pane.conv \in Named THEN NoPane ELSE pane
  /\ UNCHANGED store

(* Frames that change nothing this module keeps of the TUI.                *)
ShowOther ==
  /\ Take({"left_rooms", "left_groups", "room_members_list", "message"})
  /\ UNCHANGED <<store, sidebarVars, pane>>

----------------------------------------------------------------------------
Init ==
  /\ srv = [c \in Conv |-> "none"]
  /\ ops = 0
  /\ asked = {}
  /\ up = FALSE
  /\ dials = 0
  /\ welcome = {}
  /\ wire = <<>>
  /\ store = [c \in Conv |-> {}]
  /\ roster = {}
  /\ inbox = <<>>
  /\ ui = "closed"
  /\ listed = {} /\ grey = {} /\ barred = {}
  /\ pane = NoPane

Server ==
  \/ \E r \in Rooms : \/ AddToRoom(r) \/ LeaveRoom(r) \/ RetireRoom(r)
                      \/ DeleteRoom(r) \/ AnswerRoomMembers(r)
  \/ \E g \in Groups : \/ CreateGroup(g) \/ AddToGroup(g) \/ LeaveGroup(g)
                       \/ DeleteGroup(g)
  \/ \E d \in DMs : CreateDM(d) \/ LeaveDM(d)
  \/ \E c \in Conv : Post(c)

Link == Dial \/ ReadFrame \/ Drop \/ CrashInHandler \/ Start \/ Quit

Show ==
  \/ ShowRoomList \/ ShowGroupList \/ ShowDMList \/ ShowRoomAddedTo
  \/ ShowAdded \/ ShowLeft \/ ShowRetired \/ ShowDeleted \/ ShowOther

TUI ==
  \/ Hydrate \/ Attach \/ Detach \/ Show \/ RequestRoomMembers
  \/ \E c \in Conv : Open(c)

Next == Server \/ Link \/ TUI

Spec == Init /\ [][Next]_vars

----------------------------------------------------------------------------
(* Everything the server sent on this connection, the handshake included,  *)
(* has been read and shown.                                                *)
Settled == up /\ ui = "attached" /\ wire = <<>> /\ inbox = <<>>

(* Once settled, the database says of every room and DM what the server    *)
(* says, and has a row for exactly the groups it should: whatever frames a *)
(* break lost, wherever a crash cut a handler short, and however far the   *)
(* readLoop ran ahead of the TUI (client.go handleInternal, keys.go).      *)
StoreMirrorsServer ==
  Settled =>
    /\ \A r \in Rooms :
         /\ srv[r] = "in" => store[r] \cap {"row", "left", "retired"} = {"row"}
         /\ srv[r] = "left" => ("row" \in store[r] => "left" \in store[r])
         /\ srv[r] = "retired" => {"row", "retired"} \subseteq store[r]
    /\ \A g \in Groups : srv[g] = "in" => store[g] \cap {"row", "left"} = {"row"}
    /\ \A d \in DMs : srv[d] = "in" => store[d] \cap {"row", "hidden"} = {"row"}
    /\ \A c \in Conv : srv[c] \in Dead \cup {"none"} => c \notin Visible(Conv)

(* Once settled, the sidebar shows what the database holds: its rows, with *)
(* the left and retired rooms marked so, and no group the user has left    *)
(* shown as active (app.go room_list, group_list, dm_list and the live     *)
(* frames; sidebar.go).                                                    *)
SidebarMirrorsStore ==
  Settled =>
    /\ listed = Rows(Rooms) \cup Rows(Groups) \cup Visible(DMs)
    /\ grey \cap listed \cap Rooms = Left(Rooms)
    /\ barred \cap listed = Retired(Rooms)
    /\ In(Groups, {"left"}) \cap listed \subseteq grey

(* Before that, every entry of the sidebar that is out of date has the     *)
(* frame that corrects it on the wire or in msgCh: an entry that should be *)
(* gone, one that is missing, and a room shown with the wrong marker.      *)
(* (client.go readLoop and app.go share one order of frames, and the lists *)
(* of the handshake cover what a former connection lost.)                  *)
Queued(types, c) == \E f \in Seqs!ToSet(inbox \o wire) : f.type \in types /\ c \in f.convs

OutOfDateOnlyWithFrame ==
  (up /\ ui = "attached") =>
    /\ \A c \in listed \cap In(Conv, Dead) :
         Queued({"room_deleted", "deleted_rooms", "group_deleted", "deleted_groups",
                 "dm_left", "dm_list"}, c)
    /\ \A c \in In(Conv, {"in"}) \ listed :
         Queued({"room_list", "room_added_to", "group_list", "group_created",
                 "group_added_to", "dm_list", "dm_created"}, c)
    /\ \A r \in In(Rooms, {"in"}) \cap grey : Queued({"room_list", "room_added_to"}, r)
    /\ \A r \in (In(Rooms, {"left"}) \cap listed) \ grey :
         Queued({"room_left", "left_rooms"}, r)
           \/ \E f \in Seqs!ToSet(inbox \o wire) : f.type = "room_list"
    /\ \A r \in (In(Rooms, {"retired"}) \cap listed) \ barred :
         Queued({"room_retired", "retired_rooms"}, r)

(* Once settled, the open room or group has not been deleted, and an open  *)
(* room can be written to exactly while the user is in it and it is not    *)
(* retired (app.go syncMessagesLeftState and the frame handlers).  A room  *)
(* left before this device ever stored it has no row that could say so.    *)
PaneMirrorsServer ==
  Settled =>
    /\ pane.conv \notin In(Rooms \cup Groups, Dead)
    /\ pane.conv \in Rows(Rooms) =>
         /\ pane.conv \in listed
         /\ (pane.left \/ pane.retired) <=> srv[pane.conv] # "in"

(* Once settled, a conversation the user is not in any more has no member  *)
(* list, in memory or in the database, even if the answer to a roster      *)
(* request arrives after the leave (client.go:1395, clearRoomMembers).     *)
NoRosterForReadOnly ==
  Settled =>
    \A c \in In(Rooms \cup Groups, {"left", "retired"}) :
      c \notin roster /\ "members" \notin store[c]

(* What the user sees of a conversation is what there is: the sidebar, the *)
(* pane and the member list, and until then nothing is wrong for good.     *)
ScreenMirrorsServer ==
  /\ SidebarMirrorsStore
  /\ OutOfDateOnlyWithFrame
  /\ PaneMirrorsServer
  /\ NoRosterForReadOnly

(* Once settled, nothing of a deleted conversation is left on this device, *)
(* whichever device deleted it and whenever (the purges of client.go       *)
(* handleInternal).                                                        *)
DeletedHistoryIsGone ==
  Settled => \A c \in In(Conv, Dead) : "msgs" \notin store[c]

(* Once settled, a group the user has left can only be read: its row says  *)
(* so, and so does the pane when it is open (keys.go:387-389, "rendered    *)
(* read-only").                                                            *)
LeftGroupIsReadOnly ==
  Settled => \A g \in In(Groups, {"left"}) :
               /\ "row" \in store[g] => "left" \in store[g]
               /\ pane.conv = g => pane.left

(* Once settled, a group the user is in again is not shown as left         *)
(* (sidebar.go:220-223).                                                   *)
RejoinedGroupIsLive ==
  Settled => \A g \in In(Groups, {"in"}) :
               g \notin grey /\ (pane.conv = g => ~pane.left)
============================================================================
