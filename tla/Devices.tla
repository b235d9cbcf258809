------------------------------ MODULE Devices ------------------------------
(***************************************************************************)
(* The devices of one account, and the two ways the program learns of a    *)
(* new one: a device_added push while it is connected, and the device_list *)
(* it asks for on every connect, compared with the identifiers it has      *)
(* remembered.  Both end in one queue of alerts.  The same list feeds the  *)
(* devices panel, where x and then y revoke the row under the cursor.      *)
(*                                                                         *)
(* The frames come over one ordered connection that may break and take     *)
(* them along; the remembered set and the panel both outlive it.  A list   *)
(* may arrive while another was asked for, and while the panel is waiting  *)
(* for its y.                                                              *)
(*                                                                         *)
(* Left out: creation and synchronisation times, the status line, the      *)
(* refusal of a request for its rate (the send queue repeats it), a client *)
(* without a local store, revocation by an administrator, the order in     *)
(* which the queued alerts are shown.                                      *)
(***************************************************************************)
EXTENDS Naturals, Sequences, FiniteSets

Seqs == INSTANCE SequencesExt

CONSTANTS
    DeviceIDs,
    Mine,         \* this device
    MaxDrops,     \* connections that break
    MaxPresses    \* opens and refreshes of the panel, and revocations

Nobody == "none"  \* no device

ASSUME DevicesAssumption ==
    /\ Mine \in DeviceIDs
    /\ Nobody \notin DeviceIDs
    /\ IsFiniteSet(DeviceIDs)
    /\ MaxDrops \in Nat
    /\ MaxPresses \in Nat

VARIABLES
    registered,  \* the server's devices of the account
    revoked,     \* those it has revoked
    online,
    asks,        \* requests on their way to the server
    wire,        \* frames on their way to the App
    known,       \* the known_devices state row
    seeded,      \* it has been written
    alerts,      \* newDeviceAlert's queue: the devices it has yet to show
    panel,       \* the devices panel
    dismissed,   \* device_revoked's dialog is up: any key quits
    old,         \* history: registered before this client first connected
    first,       \* history: the devices of the list that seeded the row
    alerted,     \* history: how often each device was queued
    named,       \* history: the device the prompt that is up named when x raised
                 \* it, or none
    drops, presses

serverVars == <<registered, revoked>>
memoryVars == <<known, seeded, alerts, alerted, first>>
panelVars  == <<panel, named>>
boundVars  == <<drops, presses>>
vars == <<serverVars, online, asks, wire, memoryVars, panelVars, dismissed, old, boundVars>>

ListAsk      == [verb |-> "list_devices"]
RevokeAsk(d) == [verb |-> "revoke_device", device |-> d]

AddedFrame(d)   == [type |-> "device_added", device |-> d]
ListFrame(rows) == [type |-> "device_list", rows |-> rows]
ResultFrame     == [type |-> "device_revoke_result"]
RevokedFrame    == [type |-> "device_revoked"]

Row(d) == [device |-> d, current |-> d = Mine, revoked |-> d \in revoked]

\* The server's answer to list_devices: every device once, in an order that
\* the client neither knows nor makes.
Rows ==
    {[i \in DOMAIN listed |-> Row(listed[i])] : listed \in Seqs!SetToSeqs(registered)}

DevicesIn(rows) == {rows[i].device : i \in DOMAIN rows}

Shut == [open |-> FALSE, rows |-> <<>>, cursor |-> 1, confirm |-> FALSE, loading |-> FALSE]

TypeOK ==
    /\ UNION {registered, revoked, known, alerts} \subseteq DeviceIDs
    /\ {online, seeded, dismissed} \subseteq BOOLEAN
    /\ alerted \in [DeviceIDs -> 0..2]
    /\ panel.open \in BOOLEAN /\ panel.loading \in BOOLEAN
    /\ panel.cursor \in 1..Cardinality(DeviceIDs)
    /\ named \in DeviceIDs \cup {Nobody} /\ (named = Nobody) = ~panel.confirm
    /\ panel.confirm => panel.open /\ panel.cursor <= Len(panel.rows)
    /\ ~online => asks = <<>> /\ wire = <<>>

Init ==
    /\ registered \in {{}} \cup {{d} : d \in DeviceIDs \ {Mine}}
    /\ revoked = {}
    /\ online = FALSE
    /\ asks = <<>>
    /\ wire = <<>>
    /\ known = {}
    /\ seeded = FALSE
    /\ alerts = {}
    /\ panel = Shut
    /\ dismissed = FALSE
    /\ old = {}
    /\ first = {}
    /\ alerted = [d \in DeviceIDs |-> 0]
    /\ named = Nobody
    /\ drops = 0
    /\ presses = 0

(***************************************************************************)
(* The account and its connection.                                         *)
(***************************************************************************)

\* Another client logs in with the same key; the live sessions are told.
Register(d) ==
    /\ d \notin registered \cup {Mine}
    /\ registered' = registered \cup {d}
    /\ wire' = IF online THEN Append(wire, AddedFrame(d)) ELSE wire
    /\ UNCHANGED <<revoked, online, asks, memoryVars, panelVars, dismissed, old, boundVars>>

\* Mutant: the list is asked for only when the panel opens.
ConnectUnasked ==
    /\ ~online /\ ~dismissed
    /\ online' = TRUE
    /\ IF Mine \in registered
       THEN UNCHANGED <<registered, old>>
       ELSE registered' = registered \cup {Mine} /\ old' = registered
    /\ UNCHANGED <<asks, revoked, wire, memoryVars, panelVars, dismissed, boundVars>>

\* The end of Connect asks for the list.
Connect ==
    /\ ~online /\ ~dismissed
    /\ online' = TRUE
    /\ asks' = <<ListAsk>>
    /\ IF Mine \in registered
       THEN UNCHANGED <<registered, old>>
       ELSE registered' = registered \cup {Mine} /\ old' = registered
    /\ UNCHANGED <<revoked, wire, memoryVars, panelVars, dismissed, boundVars>>

\* The connection breaks, or the program is quit and started again: only a
\* restart loses the panel and the alerts still queued.
Drop ==
    /\ online /\ drops < MaxDrops
    /\ drops' = drops + 1
    /\ online' = FALSE
    /\ asks' = <<>>
    /\ wire' = <<>>
    /\ \/ UNCHANGED <<alerts, panelVars>>
       \/ alerts' = {} /\ panel' = Shut /\ named' = Nobody
    /\ UNCHANGED <<serverVars, known, seeded, alerted, first, dismissed, old, presses>>

Serve ==
    /\ online /\ asks # <<>>
    /\ asks' = Tail(asks)
    /\ LET ask == Head(asks)
       IN \/ /\ ask.verb = "list_devices"
             /\ \E rows \in Rows : wire' = Append(wire, ListFrame(rows))
             /\ UNCHANGED revoked
          \/ /\ ask.verb = "revoke_device"
             /\ revoked' = revoked \cup {ask.device}
             /\ wire' = Append(wire, IF ask.device = Mine THEN RevokedFrame ELSE ResultFrame)
    /\ UNCHANGED <<registered, online, memoryVars, panelVars, dismissed, old, boundVars>>

(***************************************************************************)
(* What the client remembers.                                              *)
(***************************************************************************)

\* newDeviceAlert.Show: a device already queued is not queued twice.
Alert(new) ==
    /\ alerts' = alerts \cup new
    /\ alerted' = [d \in DeviceIDs |-> alerted[d] + IF d \in new \ alerts THEN 1 ELSE 0]

Remember(set) == known' = set /\ seeded' = TRUE

\* Mutant: a push seen before the first list writes the row with itself in it.
NoteAddedDeviceSeeds(d) ==
    /\ Alert({d} \ known)
    /\ Remember(known \cup {d})
    /\ UNCHANGED first

\* Before the row is written the push is shown and not recorded.
NoteAddedDevice(d) ==
    /\ Alert(IF seeded THEN {d} \ known ELSE {d})
    /\ IF seeded THEN Remember(known \cup {d}) ELSE UNCHANGED <<known, seeded>>
    /\ UNCHANGED first

\* The first list seeds the row in silence; later ones name what is new, other
\* than this device.
ReconcileDevices(rows) ==
    /\ Remember(known \cup DevicesIn(rows))
    /\ LET fresh == {i \in DOMAIN rows : rows[i].device \notin known /\ ~rows[i].current}
       IN Alert(IF seeded THEN {rows[i].device : i \in fresh} ELSE {})
    /\ first' = IF seeded THEN first ELSE DevicesIn(rows)

\* A new list keeps the cursor's place, not its device.
SetDevices(rows) ==
    panel' = [panel EXCEPT !.rows = rows, !.loading = FALSE,
                           !.cursor = IF @ > Len(rows) THEN 1 ELSE @]

\* Mutant: the panel is left as it was.
RefetchForgotten == UNCHANGED asks

\* After a revocation the list is asked for again.
Refetch == asks' = Append(asks, ListAsk)

Handle ==
    /\ online /\ wire # <<>>
    /\ wire' = Tail(wire)
    /\ LET frame == Head(wire)
       IN \/ /\ frame.type = "device_added"
             /\ NoteAddedDevice(frame.device)
             /\ UNCHANGED <<panel, asks, dismissed>>
          \/ /\ frame.type = "device_list"
             /\ SetDevices(frame.rows)
             /\ ReconcileDevices(frame.rows)
             /\ UNCHANGED <<asks, dismissed>>
          \/ /\ frame.type = "device_revoke_result"
             /\ Refetch
             /\ UNCHANGED <<panel, memoryVars, dismissed>>
          \/ /\ frame.type = "device_revoked"
             /\ dismissed' = TRUE
             /\ UNCHANGED <<panel, memoryVars, asks>>
    /\ UNCHANGED <<serverVars, online, named, old, boundVars>>

(***************************************************************************)
(* Keys.  The alerts and the revocation dialog take them first.            *)
(***************************************************************************)

AlertKey ==
    /\ ~dismissed
    /\ \E d \in alerts : alerts' = alerts \ {d}
    /\ UNCHANGED <<serverVars, online, asks, wire, known, seeded, first, alerted, panelVars,
                   dismissed, old, boundVars>>

PanelKey == panel.open /\ alerts = {} /\ ~dismissed

Press == presses < MaxPresses /\ presses' = presses + 1

\* Offline there is nobody to ask, and the panel says Loading for good.
AskList == asks' = IF online THEN Append(asks, ListAsk) ELSE asks

OpenDeviceManager ==
    /\ ~panel.open /\ alerts = {} /\ ~dismissed
    /\ Press
    /\ panel' = [Shut EXCEPT !.open = TRUE, !.loading = TRUE]
    /\ AskList
    /\ UNCHANGED <<serverVars, online, wire, memoryVars, named, dismissed, old, drops>>

Refresh ==
    /\ PanelKey /\ ~panel.confirm
    /\ Press
    /\ panel' = [panel EXCEPT !.rows = <<>>, !.loading = TRUE]
    /\ AskList
    /\ UNCHANGED <<serverVars, online, wire, memoryVars, named, dismissed, old, drops>>

\* Close, the arrows and the mouse, n.
QuietKey ==
    /\ PanelKey
    /\ \/ ~panel.confirm /\ panel' = [panel EXCEPT !.open = FALSE]
       \/ /\ ~panel.confirm
          /\ \E i \in DOMAIN panel.rows : panel' = [panel EXCEPT !.cursor = i]
       \/ panel.confirm /\ panel' = [panel EXCEPT !.confirm = FALSE]
    /\ named' = Nobody
    /\ UNCHANGED <<serverVars, online, asks, wire, memoryVars, dismissed, old, boundVars>>

\* x on a row that is neither this device nor revoked.
AskRevoke ==
    /\ PanelKey /\ ~panel.confirm
    /\ panel.cursor \in DOMAIN panel.rows
    /\ LET row == panel.rows[panel.cursor]
       IN ~row.current /\ ~row.revoked /\ named' = row.device
    /\ panel' = [panel EXCEPT !.confirm = TRUE]
    /\ UNCHANGED <<serverVars, online, asks, wire, memoryVars, dismissed, old, boundVars>>

\* y: whatever the cursor is on now.
ConfirmRevoke ==
    /\ PanelKey /\ panel.confirm
    /\ Press
    /\ panel' = [panel EXCEPT !.confirm = FALSE]
    /\ named' = Nobody
    /\ LET target == panel.rows[panel.cursor].device
       IN asks' = IF online THEN Append(asks, RevokeAsk(target)) ELSE asks
    /\ UNCHANGED <<serverVars, online, wire, memoryVars, dismissed, old, drops>>

Next ==
    \/ \E d \in DeviceIDs : Register(d)
    \/ Connect \/ Drop \/ Serve \/ Handle
    \/ AlertKey \/ OpenDeviceManager \/ Refresh \/ QuietKey \/ AskRevoke \/ ConfirmRevoke

Spec == Init /\ [][Next]_vars

\* The connect ladder dials again, the server answers, the loop takes what
\* arrives.  The user owes nothing.
FairSpec == Spec /\ WF_vars(Connect) /\ WF_vars(Serve) /\ WF_vars(Handle)

(***************************************************************************)
(* Properties.                                                             *)
(***************************************************************************)

\* Push and list, in either order and across lost connections, alert once for
\* each device that joined after this client did, never for one that was there
\* before it, and never remember such a device without having queued it
\* (devices.go:71-128: "alert at most once per device", "an existing
\* multi-device account does not alarm on first connect").
EachNewDeviceOnce ==
    \A d \in DeviceIDs :
        /\ alerted[d] <= 1
        /\ d \in old \cup {Mine} => alerted[d] = 0
        /\ d \in known \ (first \cup {Mine}) => alerted[d] = 1

\* The panel comes to tell what was revoked: once nothing is in flight, every
\* row it lists says of its device what the server does, whichever of the
\* request, its result and the list it calls for a broken connection took along
\* (app.go:8233-8244: "Re-fetch the list so UI reflects the new state").
PanelTellsRevoked ==
    online /\ asks = <<>> /\ wire = <<>> /\ ~dismissed
      => \A i \in DOMAIN panel.rows :
            panel.rows[i].revoked <=> panel.rows[i].device \in revoked

\* A device that joins while nobody is looking is noticed: once the
\* connection holds, it is remembered, and so (EachNewDeviceOnce) alerted for
\* or among the first (client.go:420-427).  Unless this device is told that it
\* was revoked itself: then it connects no more.
JoinedIsNoticed ==
    \A d \in DeviceIDs : d \in registered ~> d \in known \/ dismissed

(***************************************************************************)
(* Stated by the code's comments, and not so.                              *)
(***************************************************************************)

\* devicemgr.go:107-109: revoking is destructive, and so "`x` then a `y/n`
\* confirm = two deliberate keystrokes"; devicemgr.go:114: "Cannot revoke your
\* current device from here."  A list that arrives between the two keys keeps
\* the cursor's place (SetDevices, 57-63), and y takes the device that is there
\* by then (76): another one than x was pressed on, this one even.
RevokesWhatWasNamed ==
    [][ \A d \in DeviceIDs : asks' = Append(asks, RevokeAsk(d)) => d = named /\ d # Mine ]_vars
=============================================================================
