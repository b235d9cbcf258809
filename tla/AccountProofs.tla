---------------------------- MODULE AccountProofs ----------------------------
(***************************************************************************)
(* Theorems of the two modules about whose key it is and whose device:     *)
(* Identity, for any accounts, keys and bounds, and Devices, for any       *)
(* devices and bounds.                                                     *)
(*                                                                         *)
(* Identity, from IdentityAssumption: a fingerprint never changes once it  *)
(* is pinned, so whatever was read from the row, or from a profile frame   *)
(* that passed it, keeps that fingerprint.                                 *)
(*                                                                         *)
(* Devices, from DevicesAssumption: where a device stands between its      *)
(* registration and the remembered set (on the wire, in an alert, in the   *)
(* row) decides whether it is still to be alerted for.                     *)
(***************************************************************************)
EXTENDS Identity, FiniteSetTheorems, FunctionTheorems, TLAPS

USE DEF Nobody

(***************************************************************************)
(* The inductive invariant: OnePrintPerAccount, the accounts the screens   *)
(* may name, and the kinds of the variables it is about.                   *)
(***************************************************************************)

Named(u, p) == p # NoPrint => u \in Users /\ p = pin[u].print

IInv ==
    /\ TypeOK
    /\ \A u \in Users : profile[u] \in Frames => profile[u] = pin[u]
    /\ Named(panel.user, panel.print)
    /\ (posted # NoCmd) => posted.user \in Users
    /\ (dialog # Shut) => dialog.user \in Users
    /\ (panel # NoPanel) => panel.user \in Users

-----------------------------------------------------------------------------
(* What a frame holds, and what an account without one is told by.         *)

LEMMA Pairs ==
  /\ Absent \notin Frames /\ Seeded \notin Frames /\ Seeded # Absent
  /\ Absent.print = NoPrint /\ Absent.key = NoKey /\ Seeded.print = NoPrint
  /\ \A f \in Frames : f.print \in Prints \cup {NoPrint} /\ f.key \in Keys
BY IdentityAssumption DEF Frames, Absent, Seeded

(* Kinds of Booleans, which the arithmetic prover does not see through.    *)

LEMMA Marks ==
  ASSUME NEW f \in [Users -> BOOLEAN], NEW u, NEW b \in BOOLEAN
  PROVE  [f EXCEPT ![u] = b] \in [Users -> BOOLEAN]
BY Zenon

ShownKinds ==
    [user : Maybe, print : Prints \cup {NoPrint}, key : Keys \cup {NoKey}, verified : BOOLEAN]

LEMMA Numbers ==
  ASSUME NEW u \in Users, NEW k \in Keys \cup {NoKey}, NEW b \in BOOLEAN
  PROVE  [user |-> u, number |-> k, ticked |-> b]
           \in [user : Maybe, number : Keys \cup {NoKey}, ticked : BOOLEAN]
BY Zenon DEF Maybe

LEMMA Ticked ==
  ASSUME NEW d \in [user : Maybe, number : Keys \cup {NoKey}, ticked : BOOLEAN]
  PROVE  [d EXCEPT !.ticked = TRUE]
           \in [user : Maybe, number : Keys \cup {NoKey}, ticked : BOOLEAN]
BY Zenon

LEMMA Queue ==
  ASSUME warnings \in Seq(Users), Len(warnings) <= WarnCap, NEW u \in Users, Warn(u)
  PROVE  warnings' \in Seq(Users) /\ Len(warnings') <= WarnCap
<1>1. CASE Len(warnings) < WarnCap
  <2>1. warnings' = Append(warnings, u)
    BY <1>1 DEF Warn
  <2>2. warnings' \in Seq(Users) /\ Len(warnings') = Len(warnings) + 1
    BY <2>1
  <2> QED BY <1>1, <2>2, IdentityAssumption
<1>2. CASE ~(Len(warnings) < WarnCap)
  BY <1>2 DEF Warn
<1> QED BY <1>1, <1>2

-----------------------------------------------------------------------------
(* The invariant holds at the start, and every action keeps it.            *)

LEMMA InitInv == Init => IInv
<1> SUFFICES ASSUME Init PROVE IInv
  OBVIOUS
<1>1. busy \in BOOLEAN /\ verified \in [Users -> BOOLEAN]
  BY Zenon DEF Init
<1>2. \A u \in Users : ~verified[u]
  BY DEF Init
<1>3. warnings \in Seq(Users) /\ Len(warnings) <= WarnCap
  BY IdentityAssumption DEF Init
<1>4. posted = NoCmd /\ dialog = Shut /\ panel = NoPanel
  BY DEF Init
<1>5. /\ posted \in [do : {"none", "mark", "clear", "verify", "unverify"}, user : Maybe]
      /\ dialog \in [user : Maybe, number : Keys \cup {NoKey}, ticked : BOOLEAN]
      /\ panel \in ShownKinds
  BY <1>4, Pairs DEF NoCmd, Shut, NoPanel, Maybe, ShownKinds
<1>6. TypeOK
  BY <1>1, <1>2, <1>3, <1>5, Pairs DEF Init, TypeOK, Maybe, ShownKinds
<1>7. Named(panel.user, panel.print)
  BY <1>4 DEF Named, Shut, NoPanel
<1>8. \A u \in Users : profile[u] \notin Frames
  BY Pairs DEF Init
<1> QED BY <1>4, <1>6, <1>7, <1>8 DEF IInv

LEMMA ReceiveInv ==
  ASSUME IInv, NEW u \in Users, NEW f \in Frames, Receive(u, f)
  PROVE  IInv'
<1> USE IdentityAssumption DEF IInv, TypeOK, Receive, ProfileFrame, screenVars
<1>1. CASE Mismatch(u, f)
  <2>1. /\ UNCHANGED <<pin, profile, screenVars, posted>>
        /\ verified' = [verified EXCEPT ![u] = FALSE]
        /\ Warn(u)
    BY <1>1 DEF ClearVerified
  <2>2. warnings' \in Seq(Users) /\ Len(warnings') <= WarnCap
    BY <2>1, Queue
  <2>3. verified' \in [Users -> BOOLEAN]
    BY <2>1, Marks
  <2>4. \A v \in Users : verified'[v] => pin'[v] # Absent
    BY <2>1
  <2> QED BY <2>1, <2>2, <2>3, <2>4 DEF Named
<1>2. CASE ~Mismatch(u, f)
  <2>1. /\ UNCHANGED <<warnings, screenVars, posted>>
        /\ pin' = [pin EXCEPT ![u] = f]
        /\ verified' = [verified EXCEPT ![u] = @ /\ pin[u].print = f.print]
        /\ profile' = [profile EXCEPT ![u] = f]
    BY <1>2 DEF PinKey
  <2>2. \A v \in Users : pin[v].print # NoPrint => pin'[v].print = pin[v].print
    BY <1>2, <2>1 DEF Mismatch
  <2>3. verified' \in [Users -> BOOLEAN]
    <3>1. (verified[u] /\ pin[u].print = f.print) \in BOOLEAN
      BY Zenon
    <3> QED BY <2>1, <3>1, Marks
  <2>4. \A v \in Users : verified'[v] => pin'[v] # Absent
    <3>1. f # Absent
      BY Pairs
    <3>2. \A v \in Users : v # u => verified'[v] = verified[v] /\ pin'[v] = pin[v]
      BY <2>1
    <3>3. pin'[u] = f
      BY <2>1
    <3> QED BY <3>1, <3>2, <3>3
  <2>5. TypeOK'
    <3>1. pin' \in [Users -> Frames \cup {Absent}]
      BY <2>1
    <3>2. profile' \in [Users -> Frames \cup {Absent, Seeded}]
      BY <2>1
    <3> QED BY <2>1, <2>3, <2>4, <3>1, <3>2
  <2>6. \A v \in Users : profile'[v] \in Frames => profile'[v] = pin'[v]
    BY <2>1
  <2>7. Named(panel.user, panel.print)'
    BY <2>1, <2>2 DEF Named
  <2> QED BY <2>1, <2>5, <2>6, <2>7 DEF NoCmd, Shut, NoPanel
<1> QED BY <1>1, <1>2

LEMMA VerifyEnterInv ==
  ASSUME IInv, VerifyEnter
  PROVE  IInv'
<1> USE DEF IInv, TypeOK, VerifyEnter, storeVars, boundVars
<1>1. dialog' \in [user : Maybe, number : Keys \cup {NoKey}, ticked : BOOLEAN]
  BY Ticked
<1>2. dialog'.user = dialog.user /\ dialog'.number = dialog.number
  BY SMT
<1>3. dialog.user \in Users /\ posted' = Cmd("mark", dialog.user)
  OBVIOUS
<1>4. posted' \in [do : {"none", "mark", "clear", "verify", "unverify"}, user : Maybe]
      /\ posted'.user \in Users
  BY <1>3 DEF Cmd, Maybe
<1> QED BY <1>1, <1>2, <1>3, <1>4 DEF Named

LEMMA HandlePostedInv ==
  ASSUME IInv, HandlePosted
  PROVE  IInv'
<1> USE DEF IInv, TypeOK, HandlePosted, boundVars
<1> DEFINE u == posted.user
<1>1. /\ u \in Users
      /\ UNCHANGED <<pin, profile, warnings, warning, panel, busy>>
      /\ posted' = NoCmd
  OBVIOUS
<1>2. posted' \in [do : {"none", "mark", "clear", "verify", "unverify"}, user : Maybe]
  BY <1>1 DEF NoCmd, Maybe
<1>3. CASE posted.do = "mark"
  <2>1. verified' = [verified EXCEPT ![u] = pin[u] # Absent] /\ UNCHANGED <<dialog, unverify>>
    BY <1>3 DEF MarkVerified
  <2>2. verified' \in [Users -> BOOLEAN]
    BY <2>1, Marks
  <2>3. \A v \in Users : verified'[v] => pin[v] # Absent
    BY <1>1, <2>1
  <2> QED BY <1>1, <1>2, <2>1, <2>2, <2>3 DEF Named
<1>4. CASE posted.do = "clear"
  <2>1. verified' = [verified EXCEPT ![u] = FALSE] /\ UNCHANGED <<dialog, unverify>>
    BY <1>4 DEF ClearVerified
  <2>2. verified' \in [Users -> BOOLEAN]
    BY <2>1, Marks
  <2>3. \A v \in Users : verified'[v] => pin[v] # Absent
    BY <1>1, <2>1
  <2> QED BY <1>1, <1>2, <2>1, <2>2, <2>3 DEF Named
<1>5. CASE posted.do = "verify"
  <2>1. ShowVerify(u) /\ UNCHANGED <<verified, unverify>>
    BY <1>5
  <2>2. NumberFor(u) \in Keys \cup {NoKey}
    BY <1>1, Pairs DEF NumberFor, TargetKey
  <2>3. (NumberFor(u) # NoKey /\ verified[u]) \in BOOLEAN
    BY <1>1, Zenon
  <2>4. dialog' \in [user : Maybe, number : Keys \cup {NoKey}, ticked : BOOLEAN]
    BY <1>1, <2>1, <2>2, <2>3, Numbers DEF ShowVerify
  <2>5. dialog'.user = u /\ dialog'.number = NumberFor(u)
    BY <2>1 DEF ShowVerify
  <2> QED BY <1>1, <1>2, <2>1, <2>2, <2>4, <2>5 DEF Named
<1>6. CASE posted.do = "unverify"
  BY <1>1, <1>2, <1>6 DEF Named, Maybe
<1> QED BY <1>3, <1>4, <1>5, <1>6

LEMMA RestartInv ==
  ASSUME IInv, Restart
  PROVE  IInv'
<1> USE DEF IInv, TypeOK, Restart, storeVars
<1>1. busy' \in BOOLEAN
  BY Zenon
<1>2. warnings' \in Seq(Users) /\ Len(warnings') <= WarnCap
  BY IdentityAssumption
<1>3. profile' \in [Users -> Frames \cup {Absent, Seeded}]
      /\ \A u \in Users : profile'[u] \notin Frames
  BY Pairs DEF Hydrate
<1>4. /\ dialog' = Shut /\ panel' = NoPanel /\ posted' = NoCmd
      /\ {warning', unverify'} \subseteq Maybe
  BY DEF Maybe
<1>5. dialog' \in [user : Maybe, number : Keys \cup {NoKey}, ticked : BOOLEAN]
  BY <1>4 DEF Shut, Maybe
<1>6. /\ panel' \in ShownKinds
      /\ posted' \in [do : {"none", "mark", "clear", "verify", "unverify"}, user : Maybe]
  BY <1>4 DEF NoPanel, NoCmd, Maybe, ShownKinds
<1>7. Named(panel.user, panel.print)'
  BY <1>4 DEF Named, Shut, NoPanel
<1> QED BY <1>1, <1>2, <1>3, <1>4, <1>5, <1>6, <1>7 DEF ShownKinds

LEMMA OpenVerifyInv ==
  ASSUME IInv, NEW u \in Users, OpenVerify(u)
  PROVE  IInv'
BY Pairs, IdentityAssumption, SMTT(30) DEF IInv, TypeOK, Named, Maybe, Shut, NoPanel, NoCmd,
       OpenVerify, ShowVerify, NumberFor, TargetKey, Idle, Clear, storeVars,
       boundVars

LEMMA OpenUnverifyInv ==
  ASSUME IInv, NEW u \in Users, OpenUnverify(u)
  PROVE  IInv'
BY IdentityAssumption, SMTT(30) DEF IInv, TypeOK, Named, Maybe, Shut, NoPanel, NoCmd,
       OpenUnverify, storeVars, boundVars

LEMMA ShowUserInv ==
  ASSUME IInv, NEW u \in Users, ShowUser(u)
  PROVE  IInv'
BY Pairs, IdentityAssumption, SMTT(30) DEF IInv, TypeOK, Named, Maybe, Shut, NoPanel, NoCmd,
       ShowUser, PanelKey, PanelPrint, storeVars, boundVars

LEMMA HandleWarningInv ==
  ASSUME IInv, HandleWarning
  PROVE  IInv'
BY IdentityAssumption, SMTT(30) DEF IInv, TypeOK, Named, Maybe, Shut, NoPanel, NoCmd,
       HandleWarning, storeVars, boundVars

LEMMA VerifyEscInv ==
  ASSUME IInv, VerifyEsc
  PROVE  IInv'
BY IdentityAssumption, SMTT(30) DEF IInv, TypeOK, Named, Maybe, Shut, NoPanel, NoCmd,
       VerifyEsc, storeVars, boundVars

LEMMA AnswerUnverifyInv ==
  ASSUME IInv, AnswerUnverify
  PROVE  IInv'
BY IdentityAssumption, SMTT(30) DEF IInv, TypeOK, Named, Maybe, Shut, NoPanel, NoCmd,
       AnswerUnverify, Cmd, storeVars, boundVars

LEMMA LeavePanelInv ==
  ASSUME IInv, LeavePanel
  PROVE  IInv'
BY IdentityAssumption, SMTT(30) DEF IInv, TypeOK, Named, Maybe, Shut, NoPanel, NoCmd,
       LeavePanel, Cmd, storeVars, boundVars

LEMMA OccupyInv ==
  ASSUME IInv, Occupy
  PROVE  IInv'
BY IdentityAssumption, SMTT(30) DEF IInv, TypeOK, Named, Maybe, Shut, NoPanel, NoCmd,
       Occupy, storeVars, boundVars

LEMMA StepInv == IInv /\ [Next]_vars => IInv'
<1> SUFFICES ASSUME IInv, [Next]_vars PROVE IInv'
  OBVIOUS
<1>1. CASE \E u \in Users, f \in Frames : Receive(u, f)
  BY <1>1, ReceiveInv
<1>2. CASE \E u \in Users : OpenVerify(u) \/ OpenUnverify(u) \/ ShowUser(u)
  BY <1>2, OpenVerifyInv, OpenUnverifyInv, ShowUserInv
<1>3. CASE HandleWarning \/ HandlePosted
  BY <1>3, HandleWarningInv, HandlePostedInv
<1>4. CASE VerifyEnter \/ VerifyEsc \/ AnswerUnverify \/ LeavePanel \/ Occupy
  BY <1>4, VerifyEnterInv, VerifyEscInv, AnswerUnverifyInv, LeavePanelInv, OccupyInv
<1>5. CASE Restart
  BY <1>5, RestartInv
<1>6. CASE UNCHANGED vars
  BY <1>6 DEF vars, storeVars, screenVars, boundVars, IInv, TypeOK, Named
<1> QED BY <1>1, <1>2, <1>3, <1>4, <1>5, <1>6 DEF Next

-----------------------------------------------------------------------------
(* The theorems.                                                           *)

(* The strengthening is an invariant of Identity.                          *)
THEOREM Inductive == Spec => []IInv
BY InitInv, StepInv, PTL DEF Spec

(* Every variable keeps to its kind, for any accounts, keys and bounds, and *)
(* no account is marked verified that has no pinned key (store/keys.go      *)
(* MarkVerified).                                                           *)
THEOREM Typing == Spec => []TypeOK
<1>1. IInv => TypeOK
  BY DEF IInv
<1> QED BY <1>1, Inductive, PTL

(* The entry the client uses for an account is the row it has pinned, and   *)
(* the fingerprint on the profile panel is the pinned one, whatever frames  *)
(* come and whenever the program is started again (persist.go StoreProfile, *)
(* client.go handleInternal, infopanel.go ShowUser).  The public key that   *)
(* comes under that fingerprint may be replaced: MarkFollowsKey fails.      *)
THEOREM OnePrint == Spec => []OnePrintPerAccount
<1>1. IInv => OnePrintPerAccount
  BY DEF IInv, OnePrintPerAccount, Named
<1> QED BY <1>1, Inductive, PTL

(* A pinned fingerprint is for ever, unless it is the empty one: no frame,  *)
(* no dialog and no restart changes it (persist.go:965-990,                 *)
(* keys.go:155-168).                                                        *)
PrintForEver ==
    [][\A u \in Users : pin[u].print # NoPrint => pin'[u].print = pin[u].print]_vars

THEOREM PrintStays == Spec => PrintForEver
<1>1. IInv /\ [Next]_vars
        => [\A u \in Users : pin[u].print # NoPrint => pin'[u].print = pin[u].print]_vars
  <2> SUFFICES ASSUME IInv, Next, NEW u \in Users, pin[u].print # NoPrint
               PROVE  pin'[u].print = pin[u].print
    OBVIOUS
  <2>1. CASE \E v \in Users, f \in Frames : Receive(v, f)
    BY <2>1 DEF Receive, ProfileFrame, PinKey, Mismatch, IInv, TypeOK
  <2>2. CASE UNCHANGED pin
    BY <2>2
  <2>3. \/ \E v \in Users, f \in Frames : Receive(v, f)
        \/ UNCHANGED pin
    BY DEF Next, OpenVerify, OpenUnverify, ShowUser, HandleWarning, HandlePosted, VerifyEnter,
       VerifyEsc, AnswerUnverify, LeavePanel, Occupy, Restart, storeVars
  <2> QED BY <2>1, <2>2, <2>3
<1> QED BY <1>1, Inductive, PTL DEF Spec, PrintForEver

-----------------------------------------------------------------------------
(***************************************************************************)
(* Devices.                                                                *)
(***************************************************************************)

CONSTANTS DeviceIDs, Mine, MaxDrops, MaxPresses

VARIABLES
    registered, revoked, online, asks, wire, known, seeded, alerts,
    devicePanel,  \* the panel of Devices: Identity has one of its own
    dismissed, old, first, alerted, named, drops, presses

D == INSTANCE Devices WITH panel <- devicePanel

\* Devices no alert is owed for.
Own == old \cup {Mine}

AlertedFor == {d \in DeviceIDs : alerted[d] = 1}

\* The kinds of rows, frames and panel.
Rowed == [device : DeviceIDs, current : BOOLEAN, revoked : BOOLEAN]

Sendable ==
    {D!AddedFrame(d) : d \in DeviceIDs} \cup {D!ListFrame(rows) : rows \in Seq(Rowed)}
      \cup {D!ResultFrame, D!RevokedFrame}

PanelKinds ==
    [open : BOOLEAN, rows : Seq(Rowed), cursor : Nat, confirm : BOOLEAN, loading : BOOLEAN]

Kinds ==
    /\ registered \in SUBSET DeviceIDs
    /\ wire \in Seq(Sendable)
    /\ devicePanel \in PanelKinds

\* Where the pushes for a device are on the wire, and the lists.
PushesOf(d) == {k \in DOMAIN wire : wire[k].type = "device_added" /\ wire[k].device = d}

Lists == {k \in DOMAIN wire : wire[k].type = "device_list"}

ListedBy(k) == D!DevicesIn(wire[k].rows)

\* The remembered set and the alerts agree.
MemoryInv ==
    /\ alerted \in [DeviceIDs -> {0, 1}]
    /\ alerts \subseteq AlertedFor
    /\ AlertedFor \subseteq registered \ Own
    /\ known \cup old \subseteq registered
    /\ seeded => Own \cup AlertedFor \subseteq known
    /\ ~seeded => known = {} /\ first = {}
    /\ known \ (first \cup {Mine}) \subseteq AlertedFor
    /\ online => Mine \in registered
    /\ Mine \notin registered => ~seeded /\ AlertedFor = {}
    /\ ~online => wire = <<>>

\* A list holds what an unwritten row must not miss.
ListsInv ==
    \A k \in Lists :
        /\ Own \subseteq ListedBy(k)
        /\ ListedBy(k) \subseteq registered
        /\ ~seeded => AlertedFor \subseteq ListedBy(k)
        /\ \A i \in DOMAIN wire[k].rows : wire[k].rows[i].current <=> wire[k].rows[i].device = Mine

\* A push comes once, is news unless it is remembered, and no list behind it
\* lacks its device.
PushesInv ==
    \A d \in DeviceIDs : \A k \in PushesOf(d) :
        /\ d \in registered \ Own
        /\ PushesOf(d) = {k}
        /\ d \in AlertedFor => d \in known
        /\ \A j \in Lists : j > k => d \in ListedBy(j)

OnceInv == MemoryInv /\ ListsInv /\ PushesInv

-----------------------------------------------------------------------------
(* Frames, rows, and the list the server serves.                           *)

\* What a frame carries, by its type.
LEMMA FrameKinds ==
  ASSUME NEW f \in Sendable
  PROVE  /\ f.type \in {"device_added", "device_list", "device_revoke_result", "device_revoked"}
         /\ f.type = "device_added" => f.device \in DeviceIDs
         /\ f.type = "device_list" => f.rows \in Seq(Rowed)
BY DEF Sendable, D!AddedFrame, D!ListFrame, D!ResultFrame, D!RevokedFrame

\* The frames the actions send are frames.
LEMMA FramesOfServer ==
  /\ \A d \in DeviceIDs : D!AddedFrame(d) \in Sendable
  /\ \A rows \in Seq(Rowed) : D!ListFrame(rows) \in Sendable
  /\ D!ResultFrame \in Sendable /\ D!RevokedFrame \in Sendable
BY Zenon DEF Sendable

\* A row of the list names its device, and says whether it is this one.
LEMMA RowKind ==
  ASSUME NEW d \in DeviceIDs
  PROVE  /\ D!Row(d) \in Rowed
         /\ D!Row(d).device = d
         /\ D!Row(d).current <=> d = Mine
<1>1. (d = Mine) \in BOOLEAN /\ (d \in revoked) \in BOOLEAN
  OBVIOUS
<1>2. \A a, b \in BOOLEAN : [device |-> d, current |-> a, revoked |-> b] \in Rowed
  BY Zenon DEF Rowed
<1>3. D!Row(d).device = d /\ D!Row(d).current = (d = Mine)
  BY Zenon DEF D!Row
<1> QED BY <1>1, <1>2, <1>3, Zenon DEF D!Row

\* The finite sets of Devices are those of this module.
LEMMA OneCardinality ==
  ASSUME NEW S
  PROVE  D!Seqs!Cardinality(S) = Cardinality(S)
BY DEF D!Seqs!Cardinality, Cardinality

\* A sequence without repetition numbers its elements.
LEMMA Numbering ==
  ASSUME NEW S, NEW n \in Nat, NEW f \in [1..n -> S], \A i, j \in 1..n : i # j => f[i] # f[j]
  PROVE  ExistsBijection(1..n, {f[i] : i \in 1..n})
<1> DEFINE image == {f[i] : i \in 1..n}
<1>1. f \in [1..n -> image] /\ \A t \in image : \E s \in 1..n : f[s] = t
  OBVIOUS
<1>2. \A a, b \in 1..n : f[a] = f[b] => a = b
  OBVIOUS
<1> HIDE DEF image
<1>3. f \in Bijection(1..n, image)
  BY <1>1, <1>2, Fun_IsBij
<1>4. ExistsBijection(1..n, image)
  BY <1>3 DEF ExistsBijection
<1> QED BY <1>4 DEF image

\* Each list the server may serve has every device registered, in some order.
LEMMA ListServed ==
  ASSUME registered \in SUBSET DeviceIDs, IsFiniteSet(DeviceIDs), NEW rows \in D!Rows
  PROVE  /\ rows \in Seq(Rowed)
         /\ D!DevicesIn(rows) = registered
         /\ \A i \in DOMAIN rows : rows[i].current <=> rows[i].device = Mine
<1> DEFINE n == Cardinality(registered)
<1>1. IsFiniteSet(registered) /\ n \in Nat
  BY FS_Subset, FS_CardinalityType
<1>2. PICK listed \in D!Seqs!SetToSeqs(registered) :
        rows = [i \in DOMAIN listed |-> D!Row(listed[i])]
  BY DEF D!Rows
<1>3. /\ listed \in [1..n -> registered]
      /\ \A i, j \in 1..n : i # j => listed[i] # listed[j]
  BY OneCardinality DEF D!Seqs!SetToSeqs
<1> HIDE DEF n
<1>4. {listed[i] : i \in 1..n} = registered
  <2> DEFINE image == {listed[i] : i \in 1..n}
  <2>1. ExistsBijection(1..n, image)
    BY <1>1, <1>3, Numbering
  <2>2. IsFiniteSet(1..n) /\ Cardinality(1..n) = n
    BY <1>1, FS_Interval
  <2>3. IsFiniteSet(image) /\ Cardinality(image) = n
    BY <2>1, <2>2, FS_Bijection
  <2>4. image \subseteq registered
    BY <1>3
  <2> QED BY <1>1, <2>3, <2>4, FS_Subset DEF n
<1>5. rows = [i \in 1..n |-> D!Row(listed[i])]
  BY <1>2, <1>3
<1>6. \A i \in 1..n : listed[i] \in DeviceIDs /\ rows[i] = D!Row(listed[i])
  BY <1>3, <1>5
<1>7. rows \in Seq(Rowed) /\ DOMAIN rows = 1..n
  BY <1>1, <1>5, <1>6, RowKind
<1>8. \A i \in 1..n : rows[i].device = listed[i]
  BY <1>6, RowKind
<1>9. \A i \in 1..n : rows[i].current <=> listed[i] = Mine
  BY <1>6, RowKind, Zenon
<1>10. D!DevicesIn(rows) = {listed[i] : i \in 1..n}
  BY <1>7, <1>8 DEF D!DevicesIn
<1> QED BY <1>4, <1>7, <1>8, <1>9, <1>10

-----------------------------------------------------------------------------
(* A device is alerted for once: every step keeps OnceInv.                 *)

Watched == <<registered, online, wire, known, seeded, first, alerted, old>>

\* Steps that touch nothing the invariant is about but the queue they empty.
LEMMA QuietStep ==
  ASSUME OnceInv, UNCHANGED Watched, alerts' \subseteq alerts
  PROVE  OnceInv'
<1>1. MemoryInv'
  BY Zenon DEF OnceInv, MemoryInv, Watched, AlertedFor, Own
<1>2. ListsInv' /\ PushesInv'
  BY DEF OnceInv, ListsInv, PushesInv, Watched, AlertedFor, Own, Lists, ListedBy, PushesOf
<1> QED BY <1>1, <1>2 DEF OnceInv

\* A frame sent joins the end of the wire.
LEMMA Sent ==
  ASSUME wire \in Seq(Sendable), NEW f \in Sendable, wire' = Append(wire, f)
  PROVE  LET n == Len(wire) + 1 IN
         /\ wire' \in Seq(Sendable)
         /\ DOMAIN wire' = DOMAIN wire \cup {n}
         /\ n \notin DOMAIN wire
         /\ \A k \in DOMAIN wire : wire'[k] = wire[k] /\ k < n
         /\ wire'[n] = f
OBVIOUS

\* A frame taken leaves its head; the rest moves up.
LEMMA Taken ==
  ASSUME wire \in Seq(Sendable), wire # <<>>, wire' = Tail(wire)
  PROVE  /\ wire' \in Seq(Sendable)
         /\ Head(wire) = wire[1] /\ 1 \in DOMAIN wire /\ wire[1] \in Sendable
         /\ DOMAIN wire' \subseteq Nat \ {0}
         /\ \A k \in DOMAIN wire' : k + 1 \in DOMAIN wire /\ wire'[k] = wire[k + 1] /\ k + 1 > 1
OBVIOUS

LEMMA OnceRegister ==
  ASSUME Kinds, OnceInv, NEW d \in DeviceIDs, D!Register(d)
  PROVE  OnceInv'
<1> DEFINE n == Len(wire) + 1
<1>1. d \notin registered /\ d # Mine /\ registered' = registered \cup {d}
  BY DEF D!Register
<1>2. UNCHANGED <<online, known, seeded, first, alerts, alerted, old>>
  BY DEF D!Register, D!memoryVars
<1>3. Own' = Own /\ AlertedFor' = AlertedFor /\ d \notin AlertedFor /\ d \notin Own
  BY <1>1, <1>2 DEF Own, AlertedFor, OnceInv, MemoryInv
<1>4. MemoryInv'
  <2>1. ~online' => wire' = <<>>
    BY <1>2 DEF OnceInv, MemoryInv, D!Register
  <2> QED BY <1>1, <1>2, <1>3, <2>1 DEF OnceInv, MemoryInv
<1>5. CASE ~online
  <2>1. wire' = <<>>
    BY <1>5, <1>4, <1>2 DEF MemoryInv
  <2> QED BY <1>4, <2>1 DEF OnceInv, ListsInv, PushesInv, Lists, PushesOf
<1>6. CASE online
  <2>1. wire' = Append(wire, D!AddedFrame(d))
    BY <1>6 DEF D!Register
  <2>2. /\ DOMAIN wire' = DOMAIN wire \cup {n}
        /\ n \notin DOMAIN wire
        /\ \A k \in DOMAIN wire : wire'[k] = wire[k] /\ k < n
        /\ wire'[n] = D!AddedFrame(d)
    BY <2>1, Sent, FramesOfServer DEF Kinds
  <2>3. wire'[n].type = "device_added" /\ wire'[n].device = d
    BY <2>2 DEF D!AddedFrame
  <2> HIDE DEF n
  <2>4. Lists' = Lists /\ \A k \in Lists : wire'[k] = wire[k] /\ ListedBy(k)' = ListedBy(k)
    BY <2>2, <2>3 DEF Lists, ListedBy
  <2>5. ListsInv'
    BY <1>1, <1>2, <1>3, <2>4 DEF OnceInv, ListsInv
  <2>6. PushesOf(d) = {}
    BY <1>1 DEF OnceInv, PushesInv
  <2>7. PushesOf(d)' = {n} /\ \A j \in Lists : ~(j > n)
    BY <2>2, <2>3, <2>6 DEF PushesOf, Lists, Kinds, n
  <2>8. \A e \in DeviceIDs \ {d} : PushesOf(e)' = PushesOf(e)
    BY <2>2, <2>3 DEF PushesOf
  <2>9. PushesInv'
    BY <1>1, <1>2, <1>3, <2>4, <2>7, <2>8 DEF OnceInv, PushesInv
  <2> QED BY <1>4, <2>5, <2>9 DEF OnceInv
<1> QED BY <1>5, <1>6

LEMMA OnceConnect ==
  ASSUME Mine \in DeviceIDs, Kinds, OnceInv, D!Connect
  PROVE  OnceInv'
<1>1. UNCHANGED <<wire, known, seeded, first, alerts, alerted>> /\ wire = <<>> /\ online' = TRUE
  BY DEF D!Connect, D!memoryVars, OnceInv, MemoryInv
<1>2. ListsInv' /\ PushesInv'
  BY <1>1 DEF ListsInv, PushesInv, Lists, PushesOf
<1>3. AlertedFor' = AlertedFor
  BY <1>1 DEF AlertedFor
<1>4. CASE Mine \in registered
  <2>1. UNCHANGED <<registered, old>>
    BY <1>4 DEF D!Connect
  <2>2. Own' = Own
    BY <2>1 DEF Own
  <2>3. MemoryInv'
    BY <1>1, <1>3, <1>4, <2>1, <2>2 DEF OnceInv, MemoryInv
  <2> QED BY <1>2, <2>3 DEF OnceInv
<1>5. CASE Mine \notin registered
  <2>1. registered' = registered \cup {Mine} /\ old' = registered
    BY <1>5 DEF D!Connect
  <2>2. Own' = registered'
    BY <2>1 DEF Own
  <2>3. MemoryInv'
    BY <1>1, <1>3, <1>5, <2>1, <2>2 DEF OnceInv, MemoryInv
  <2> QED BY <1>2, <2>3 DEF OnceInv
<1> QED BY <1>4, <1>5

LEMMA OnceDrop ==
  ASSUME OnceInv, D!Drop
  PROVE  OnceInv'
<1>1. /\ UNCHANGED <<registered, known, seeded, first, alerted, old>>
      /\ wire' = <<>> /\ online' = FALSE /\ alerts' \subseteq alerts
  BY DEF D!Drop, D!serverVars
<1>2. MemoryInv'
  BY <1>1, Zenon DEF OnceInv, MemoryInv, AlertedFor, Own
<1>3. ListsInv' /\ PushesInv'
  BY <1>1 DEF ListsInv, PushesInv, Lists, PushesOf
<1> QED BY <1>2, <1>3 DEF OnceInv

\* What the server answers with.
LEMMA ServedFrame ==
  ASSUME IsFiniteSet(DeviceIDs), Kinds, D!Serve
  PROVE  \E f \in Sendable :
           /\ wire' = Append(wire, f)
           /\ (\E rows \in D!Rows : f = D!ListFrame(rows)) \/ f = D!ResultFrame \/ f = D!RevokedFrame
<1>1. \A rows \in D!Rows : D!ListFrame(rows) \in Sendable
  BY ListServed, FramesOfServer DEF Kinds
<1>2. \/ \E rows \in D!Rows : wire' = Append(wire, D!ListFrame(rows))
      \/ wire' = Append(wire, D!ResultFrame)
      \/ wire' = Append(wire, D!RevokedFrame)
  BY DEF D!Serve
<1> QED BY <1>1, <1>2, FramesOfServer

LEMMA OnceServe ==
  ASSUME IsFiniteSet(DeviceIDs), Kinds, OnceInv, D!Serve
  PROVE  OnceInv'
<1>0. PICK n : n = Len(wire) + 1
  OBVIOUS
<1>1. UNCHANGED <<registered, online, known, seeded, first, alerts, alerted, old>> /\ online
  BY DEF D!Serve, D!memoryVars
<1>2. Own' = Own /\ AlertedFor' = AlertedFor /\ registered' = registered
  BY <1>1 DEF Own, AlertedFor
<1>3. MemoryInv'
  BY <1>1, <1>2 DEF OnceInv, MemoryInv
<1>4. PICK f \in Sendable :
        /\ wire' = Append(wire, f)
        /\ (\E rows \in D!Rows : f = D!ListFrame(rows)) \/ f = D!ResultFrame \/ f = D!RevokedFrame
  BY ServedFrame
<1>5. /\ DOMAIN wire' = DOMAIN wire \cup {n}
      /\ n \notin DOMAIN wire
      /\ \A k \in DOMAIN wire : wire'[k] = wire[k] /\ k < n
      /\ wire'[n] = f
  BY <1>0, <1>4, Sent DEF Kinds
<1>6. f.type # "device_added" /\ (f.type = "device_list" => f.rows \in D!Rows)
  BY <1>4 DEF D!ListFrame, D!ResultFrame, D!RevokedFrame
<1>7. /\ Lists \subseteq Lists' /\ Lists' \subseteq Lists \cup {n}
      /\ \A k \in Lists : wire'[k] = wire[k] /\ ListedBy(k)' = ListedBy(k)
  BY <1>5 DEF Lists, ListedBy
<1>8. ASSUME n \in Lists'
      PROVE  /\ ListedBy(n)' = registered
             /\ \A i \in DOMAIN wire'[n].rows :
                  wire'[n].rows[i].current <=> wire'[n].rows[i].device = Mine
  <2>1. wire'[n].rows \in D!Rows
    BY <1>5, <1>6, <1>8 DEF Lists
  <2>2. ListedBy(n)' = D!DevicesIn(wire'[n].rows)
    BY DEF ListedBy, D!DevicesIn
  <2> QED BY <2>1, <2>2, ListServed DEF Kinds
<1>9. ListsInv'
  <2>1. Own \subseteq registered /\ AlertedFor \subseteq registered
    BY <1>1 DEF OnceInv, MemoryInv, Own
  <2>2. ASSUME NEW k \in Lists
        PROVE  /\ Own' \subseteq ListedBy(k)' /\ ListedBy(k)' \subseteq registered'
               /\ ~seeded' => AlertedFor' \subseteq ListedBy(k)'
               /\ \A i \in DOMAIN wire'[k].rows :
                    wire'[k].rows[i].current <=> wire'[k].rows[i].device = Mine
    BY <1>1, <1>2, <1>7, Zenon DEF OnceInv, ListsInv
  <2>3. ASSUME n \in Lists'
        PROVE  /\ Own' \subseteq ListedBy(n)' /\ ListedBy(n)' \subseteq registered'
               /\ ~seeded' => AlertedFor' \subseteq ListedBy(n)'
               /\ \A i \in DOMAIN wire'[n].rows :
                    wire'[n].rows[i].current <=> wire'[n].rows[i].device = Mine
    BY <1>2, <1>8, <2>1, <2>3, Zenon
  <2> SUFFICES ASSUME NEW k \in Lists'
               PROVE  /\ Own' \subseteq ListedBy(k)' /\ ListedBy(k)' \subseteq registered'
                      /\ ~seeded' => AlertedFor' \subseteq ListedBy(k)'
                      /\ \A i \in DOMAIN wire'[k].rows :
                           wire'[k].rows[i].current <=> wire'[k].rows[i].device = Mine
    BY Zenon DEF ListsInv
  <2>4. CASE k \in Lists
    BY <2>2, <2>4
  <2>5. CASE k = n
    BY <2>3, <2>5
  <2> QED BY <1>7, <2>4, <2>5
<1>10. \A d \in DeviceIDs : PushesOf(d)' = PushesOf(d)
  BY <1>5, <1>6 DEF PushesOf
<1>11. PushesInv'
  <2> SUFFICES ASSUME NEW d \in DeviceIDs, NEW k \in PushesOf(d)
               PROVE  /\ d \in registered \ Own /\ PushesOf(d) = {k}
                      /\ d \in AlertedFor => d \in known
                      /\ \A j \in Lists' : j > k => d \in ListedBy(j)'
    BY <1>1, <1>2, <1>10 DEF PushesInv
  <2>1. /\ d \in registered \ Own /\ PushesOf(d) = {k}
        /\ d \in AlertedFor => d \in known
        /\ \A j \in Lists : j > k => d \in ListedBy(j)
    BY DEF OnceInv, PushesInv
  <2> QED BY <1>7, <1>8, <2>1
<1> QED BY <1>3, <1>9, <1>11 DEF OnceInv

\* The same, for the lists and the pushes on the wire.
LEMMA Shifted ==
  ASSUME Kinds, wire # <<>>, wire' = Tail(wire)
  PROVE  /\ 1 \in DOMAIN wire /\ Head(wire) = wire[1] /\ wire[1] \in Sendable
         /\ \A k \in Lists' : /\ k + 1 \in Lists /\ k + 1 > 1
                              /\ wire'[k] = wire[k + 1] /\ ListedBy(k)' = ListedBy(k + 1)
         /\ \A d : \A k \in PushesOf(d)' : k \in Nat /\ k + 1 \in PushesOf(d) /\ k + 1 > 1
         /\ \A j, k \in Lists' : j \in Nat /\ k \in Nat
<1>1. /\ Head(wire) = wire[1] /\ 1 \in DOMAIN wire /\ wire[1] \in Sendable
      /\ DOMAIN wire' \subseteq Nat
      /\ \A k \in DOMAIN wire' : k + 1 \in DOMAIN wire /\ wire'[k] = wire[k + 1] /\ k + 1 > 1
  BY Taken DEF Kinds
<1>2. \A k \in Lists' : k \in Nat /\ k + 1 \in Lists /\ k + 1 > 1 /\ wire'[k] = wire[k + 1]
  BY <1>1 DEF Lists
<1>3. \A k \in Lists' : ListedBy(k)' = ListedBy(k + 1)
  BY <1>2, Zenon DEF ListedBy, D!DevicesIn
<1>4. \A d : \A k \in PushesOf(d)' : k \in Nat /\ k + 1 \in PushesOf(d) /\ k + 1 > 1
  BY <1>1 DEF PushesOf
<1> QED BY <1>1, <1>2, <1>3, <1>4

\* What is left on the wire once its head is taken.
LEMMA Left ==
  ASSUME Kinds, OnceInv, wire # <<>>, wire' = Tail(wire), UNCHANGED <<registered, old>>,
         ~seeded' => \A j \in Lists : j > 1 => AlertedFor' \subseteq ListedBy(j),
         \A d \in DeviceIDs : \A k \in PushesOf(d) : k > 1 /\ d \in AlertedFor' => d \in known'
  PROVE  ListsInv' /\ PushesInv'
<1>1. Own' = Own /\ registered' = registered
  BY DEF Own
<1>2. ListsInv'
  <2> SUFFICES ASSUME NEW k \in Lists'
               PROVE  /\ Own \subseteq ListedBy(k)' /\ ListedBy(k)' \subseteq registered
                      /\ ~seeded' => AlertedFor' \subseteq ListedBy(k)'
                      /\ \A i \in DOMAIN wire'[k].rows :
                           wire'[k].rows[i].current <=> wire'[k].rows[i].device = Mine
    BY <1>1, Zenon DEF ListsInv
  <2>1. /\ k + 1 \in Lists /\ k + 1 > 1
        /\ wire'[k] = wire[k + 1] /\ ListedBy(k)' = ListedBy(k + 1)
    BY Shifted
  <2>2. /\ Own \subseteq ListedBy(k + 1) /\ ListedBy(k + 1) \subseteq registered
        /\ \A i \in DOMAIN wire[k + 1].rows :
             wire[k + 1].rows[i].current <=> wire[k + 1].rows[i].device = Mine
    BY <2>1, Zenon DEF OnceInv, ListsInv
  <2> QED BY <2>1, <2>2, Zenon
<1>3. PushesInv'
  <2> SUFFICES ASSUME NEW d \in DeviceIDs, NEW k \in PushesOf(d)'
               PROVE  /\ d \in registered \ Own /\ PushesOf(d)' = {k}
                      /\ d \in AlertedFor' => d \in known'
                      /\ \A j \in Lists' : j > k => d \in ListedBy(j)'
    BY <1>1, Zenon DEF PushesInv
  <2>1. k \in Nat /\ k + 1 \in PushesOf(d) /\ k + 1 > 1
    BY Shifted
  <2>2. /\ d \in registered \ Own /\ PushesOf(d) = {k + 1}
        /\ \A j \in Lists : j > k + 1 => d \in ListedBy(j)
    BY <2>1, Zenon DEF OnceInv, PushesInv
  <2>3. PushesOf(d)' = {k}
    <3>1. ASSUME NEW j \in PushesOf(d)' PROVE j = k
      <4>1. j \in Nat /\ j + 1 \in PushesOf(d)
        BY Shifted
      <4> QED BY <2>1, <2>2, <4>1
    <3> QED BY <3>1
  <2>4. ASSUME NEW j \in Lists', j > k PROVE d \in ListedBy(j)'
    <3>1. j \in Nat /\ j + 1 \in Lists /\ ListedBy(j)' = ListedBy(j + 1)
      BY Shifted
    <3> QED BY <2>1, <2>2, <2>4, <3>1
  <2> QED BY <2>1, <2>2, <2>3, <2>4
<1> QED BY <1>2, <1>3

\* New devices, none of them alerted for, become alerted for.
LEMMA AlertOnce ==
  ASSUME alerted \in [DeviceIDs -> {0, 1}], alerts \subseteq AlertedFor,
         NEW new \in SUBSET DeviceIDs, new \cap AlertedFor = {}, D!Alert(new)
  PROVE  /\ alerted' \in [DeviceIDs -> {0, 1}]
         /\ AlertedFor' = AlertedFor \cup new
         /\ alerts' \subseteq AlertedFor'
<1>1. alerts' = alerts \cup new
  BY DEF D!Alert
<1>2. alerted' = [d \in DeviceIDs |-> IF d \in new THEN 1 ELSE alerted[d]]
  <2>1. \A d \in DeviceIDs : alerted[d] + (IF d \in new \ alerts THEN 1 ELSE 0)
                               = IF d \in new THEN 1 ELSE alerted[d]
    BY DEF AlertedFor
  <2> QED BY <2>1, Zenon DEF D!Alert
<1>3. alerted' \in [DeviceIDs -> {0, 1}] /\ AlertedFor' = AlertedFor \cup new
  BY <1>2 DEF AlertedFor
<1> QED BY <1>1, <1>3

LEMMA OncePush ==
  ASSUME Kinds, OnceInv, online, wire # <<>>, wire' = Tail(wire), UNCHANGED <<registered, online, old>>,
         Head(wire).type = "device_added", D!NoteAddedDevice(Head(wire).device)
  PROVE  OnceInv'
<1> DEFINE d == Head(wire).device
           new == IF seeded THEN {d} \ known ELSE {d}
<1>1. d \in DeviceIDs /\ 1 \in PushesOf(d) /\ wire[1] = Head(wire)
  BY Shifted, FrameKinds DEF PushesOf
<1>2. /\ d \in registered \ Own /\ PushesOf(d) = {1} /\ (d \in AlertedFor => d \in known)
      /\ \A j \in Lists : j > 1 => d \in ListedBy(j)
  BY <1>1, Zenon DEF OnceInv, PushesInv
<1>3. /\ D!Alert(new) /\ UNCHANGED <<seeded, first>>
      /\ known' = IF seeded THEN known \cup {d} ELSE known
  BY DEF D!NoteAddedDevice, D!Remember
<1> HIDE DEF d
<1>4. new \in SUBSET DeviceIDs /\ new \cap AlertedFor = {}
  BY <1>1, <1>2 DEF OnceInv, MemoryInv
<1>5. /\ alerted' \in [DeviceIDs -> {0, 1}]
      /\ AlertedFor' = AlertedFor \cup new
      /\ alerts' \subseteq AlertedFor'
  BY <1>3, <1>4, AlertOnce DEF OnceInv, MemoryInv
<1>6. Own' = Own /\ registered' = registered
  BY DEF Own
<1>7. MemoryInv'
  BY <1>2, <1>3, <1>5, <1>6 DEF OnceInv, MemoryInv
<1>8. ~seeded' => \A j \in Lists : j > 1 => AlertedFor' \subseteq ListedBy(j)
  BY <1>2, <1>3, <1>5 DEF OnceInv, ListsInv
<1>9. ASSUME NEW e \in DeviceIDs, NEW k \in PushesOf(e), k > 1, e \in AlertedFor' PROVE e \in known'
  <2>1. e # d
    BY <1>2, <1>9
  <2>2. e \in known
    BY <1>5, <1>9, <2>1 DEF OnceInv, PushesInv
  <2> QED BY <1>3, <2>2
<1>10. ListsInv' /\ PushesInv'
  BY <1>8, <1>9, Left
<1> QED BY <1>7, <1>10 DEF OnceInv

LEMMA OnceList ==
  ASSUME Kinds, OnceInv, online, wire # <<>>, wire' = Tail(wire), UNCHANGED <<registered, online, old>>,
         Head(wire).type = "device_list", D!ReconcileDevices(Head(wire).rows)
  PROVE  OnceInv'
<1> DEFINE rows == Head(wire).rows
           L == D!DevicesIn(rows)
           new == IF seeded THEN L \ (known \cup {Mine}) ELSE {}
<1>1. 1 \in Lists /\ wire[1] = Head(wire) /\ rows \in Seq(Rowed) /\ L = ListedBy(1)
  BY Shifted, FrameKinds DEF Lists, ListedBy
<1>2. /\ Own \subseteq L /\ L \subseteq registered /\ (~seeded => AlertedFor \subseteq L)
      /\ \A i \in DOMAIN rows : rows[i].current <=> rows[i].device = Mine
  BY <1>1, Zenon DEF OnceInv, ListsInv
<1>3. L \subseteq DeviceIDs
  <2>1. \A i \in DOMAIN rows : rows[i] \in Rowed
    BY <1>1
  <2>2. \A i \in DOMAIN rows : rows[i].device \in DeviceIDs
    BY <2>1, Zenon DEF Rowed
  <2> QED BY <2>2, Zenon DEF D!DevicesIn
<1>4. {rows[i].device : i \in {i \in DOMAIN rows : rows[i].device \notin known /\ ~rows[i].current}}
        = L \ (known \cup {Mine})
  BY <1>2 DEF D!DevicesIn
<1>5. /\ D!Alert(new) /\ seeded' = TRUE /\ known' = known \cup L
      /\ first' = IF seeded THEN first ELSE L
  BY <1>4 DEF D!ReconcileDevices, D!Remember
<1> HIDE DEF L
<1>6. new \in SUBSET DeviceIDs /\ new \cap AlertedFor = {}
  BY <1>3 DEF OnceInv, MemoryInv
<1>7. /\ alerted' \in [DeviceIDs -> {0, 1}]
      /\ AlertedFor' = AlertedFor \cup new
      /\ alerts' \subseteq AlertedFor'
  BY <1>5, <1>6, AlertOnce DEF OnceInv, MemoryInv
<1>8. Own' = Own /\ registered' = registered /\ Mine \in Own
  BY DEF Own
<1>9. MemoryInv'
  BY <1>2, <1>5, <1>7, <1>8 DEF OnceInv, MemoryInv
<1>10. AlertedFor' \subseteq known'
  BY <1>5, <1>9 DEF MemoryInv
<1>11. ListsInv' /\ PushesInv'
  BY <1>5, <1>10, Left
<1> QED BY <1>9, <1>11 DEF OnceInv

LEMMA OnceHandle ==
  ASSUME Kinds, OnceInv, D!Handle
  PROVE  OnceInv'
<1>1. online /\ wire # <<>> /\ wire' = Tail(wire) /\ UNCHANGED <<registered, online, old>>
  BY DEF D!Handle, D!serverVars
<1>2. CASE Head(wire).type = "device_added" /\ D!NoteAddedDevice(Head(wire).device)
  BY <1>1, <1>2, OncePush
<1>3. CASE Head(wire).type = "device_list" /\ D!ReconcileDevices(Head(wire).rows)
  BY <1>1, <1>3, OnceList
<1>4. CASE UNCHANGED D!memoryVars
  <2>1. UNCHANGED <<known, seeded, first, alerts, alerted>>
    BY <1>4 DEF D!memoryVars
  <2>2. AlertedFor' = AlertedFor /\ Own' = Own /\ registered' = registered
    BY <1>1, <2>1 DEF AlertedFor, Own
  <2>3. MemoryInv'
    BY <1>1, <2>1, <2>2 DEF OnceInv, MemoryInv
  <2>4. ListsInv' /\ PushesInv'
    BY <1>1, <2>1, <2>2, Left DEF OnceInv, ListsInv, PushesInv
  <2> QED BY <2>3, <2>4 DEF OnceInv
<1> QED BY <1>2, <1>3, <1>4 DEF D!Handle

-----------------------------------------------------------------------------
(* The panel and the wire keep to their kinds.                             *)

\* The fields of the panel, and of the one that is shut.
LEMMA PanelParts ==
  ASSUME NEW p \in PanelKinds
  PROVE  /\ p.rows \in Seq(Rowed) /\ p.cursor \in Nat
         /\ p.open \in BOOLEAN /\ p.confirm \in BOOLEAN /\ p.loading \in BOOLEAN
BY Zenon DEF PanelKinds

LEMMA ShutKind ==
  /\ D!Shut \in PanelKinds
  /\ D!Shut.rows = <<>> /\ D!Shut.confirm = FALSE
<1>1. <<>> \in Seq(Rowed) /\ 1 \in Nat
  OBVIOUS
<1> QED BY <1>1, Zenon DEF D!Shut, PanelKinds

LEMMA KindsInit == ASSUME D!Init, Mine \in DeviceIDs PROVE Kinds
<1>2. registered \in SUBSET DeviceIDs
  BY DEF D!Init
<1>3. wire = <<>>
  BY Zenon DEF D!Init
<1>4. wire \in Seq(Sendable)
  BY <1>3
<1>5. devicePanel \in PanelKinds
  BY ShutKind, Zenon DEF D!Init
<1> QED BY <1>2, <1>4, <1>5, Zenon DEF Kinds

LEMMA OnceInit == ASSUME D!Init PROVE OnceInv
<1>1. wire = <<>> /\ AlertedFor = {}
  BY DEF D!Init, AlertedFor
<1>2. MemoryInv
  BY <1>1 DEF D!Init, MemoryInv
<1>3. ListsInv /\ PushesInv
  BY <1>1 DEF ListsInv, PushesInv, Lists, PushesOf
<1> QED BY <1>2, <1>3 DEF OnceInv

\* The moves of the panel.
LEMMA Listing ==
  ASSUME NEW p \in PanelKinds, NEW rows \in Seq(Rowed), NEW c \in Nat,
         NEW q, q = [p EXCEPT !.rows = rows, !.loading = FALSE, !.cursor = c]
  PROVE  q \in PanelKinds /\ q.rows = rows /\ q.cursor = c /\ q.confirm = p.confirm
BY Zenon DEF PanelKinds

LEMMA Loading ==
  ASSUME NEW p \in PanelKinds,
         NEW q, q = [p EXCEPT !.rows = <<>>, !.loading = TRUE]
  PROVE  q \in PanelKinds /\ q.rows = <<>> /\ q.confirm = p.confirm
<1>1. <<>> \in Seq(Rowed)
  OBVIOUS
<1> QED BY <1>1, Zenon DEF PanelKinds

LEMMA Opening ==
  ASSUME NEW p \in PanelKinds,
         NEW q, q = [p EXCEPT !.open = TRUE, !.loading = TRUE]
  PROVE  q \in PanelKinds /\ q.rows = p.rows /\ q.confirm = p.confirm
BY Zenon DEF PanelKinds

LEMMA Closing ==
  ASSUME NEW p \in PanelKinds,
         NEW q, q = [p EXCEPT !.open = FALSE]
  PROVE  q \in PanelKinds /\ q.rows = p.rows /\ q.confirm = p.confirm
BY Zenon DEF PanelKinds

LEMMA Pointing ==
  ASSUME NEW p \in PanelKinds, NEW c \in Nat,
         NEW q, q = [p EXCEPT !.cursor = c]
  PROVE  q \in PanelKinds /\ q.rows = p.rows /\ q.confirm = p.confirm
BY Zenon DEF PanelKinds

LEMMA Prompting ==
  ASSUME NEW p \in PanelKinds, NEW b \in BOOLEAN,
         NEW q, q = [p EXCEPT !.confirm = b]
  PROVE  q \in PanelKinds /\ q.rows = p.rows /\ q.cursor = p.cursor /\ q.confirm = b
BY Zenon DEF PanelKinds

\* A key that neither raises a prompt nor says yes to one.
QuietPanel ==
    /\ devicePanel' \in PanelKinds
    /\ devicePanel'.rows = devicePanel.rows \/ devicePanel'.rows = <<>>
    /\ devicePanel'.confirm => devicePanel' = devicePanel

LEMMA QuietPanels ==
  ASSUME devicePanel \in PanelKinds, D!AlertKey \/ D!OpenDeviceManager \/ D!Refresh \/ D!QuietKey
  PROVE  QuietPanel
<1>1. CASE D!AlertKey
  BY <1>1 DEF D!AlertKey, D!panelVars, QuietPanel
<1>2. CASE D!OpenDeviceManager
  <2>1. devicePanel' = [D!Shut EXCEPT !.open = TRUE, !.loading = TRUE]
    BY <1>2 DEF D!OpenDeviceManager
  <2>2. devicePanel' \in PanelKinds /\ devicePanel'.rows = <<>> /\ ~devicePanel'.confirm
    BY <2>1, ShutKind, Opening, Zenon
  <2> QED BY <2>2 DEF QuietPanel
<1>3. CASE D!Refresh
  <2>1. devicePanel' = [devicePanel EXCEPT !.rows = <<>>, !.loading = TRUE] /\ ~devicePanel.confirm
    BY <1>3 DEF D!Refresh
  <2>2. devicePanel' \in PanelKinds /\ devicePanel'.rows = <<>> /\ ~devicePanel'.confirm
    BY <2>1, Loading, Zenon
  <2> QED BY <2>2 DEF QuietPanel
<1>4. CASE D!QuietKey
  <2>1. DOMAIN devicePanel.rows \subseteq Nat
    BY PanelParts
  <2>2. \/ ~devicePanel.confirm /\ devicePanel' = [devicePanel EXCEPT !.open = FALSE]
        \/ ~devicePanel.confirm /\ \E i \in Nat : devicePanel' = [devicePanel EXCEPT !.cursor = i]
        \/ devicePanel' = [devicePanel EXCEPT !.confirm = FALSE]
    BY <1>4, <2>1, Zenon DEF D!QuietKey
  <2>3. devicePanel' \in PanelKinds /\ devicePanel'.rows = devicePanel.rows /\ ~devicePanel'.confirm
    <3>1. CASE ~devicePanel.confirm /\ devicePanel' = [devicePanel EXCEPT !.open = FALSE]
      BY <3>1, Closing, Zenon
    <3>2. CASE ~devicePanel.confirm /\ \E i \in Nat : devicePanel' = [devicePanel EXCEPT !.cursor = i]
      BY <3>2, Pointing, Zenon
    <3>3. CASE devicePanel' = [devicePanel EXCEPT !.confirm = FALSE]
      BY <3>3, Prompting, Zenon
    <3> QED BY <2>2, <3>1, <3>2, <3>3
  <2> QED BY <2>3 DEF QuietPanel
<1> QED BY <1>1, <1>2, <1>3, <1>4

-----------------------------------------------------------------------------
(* Every step of Devices.                                                  *)

LEMMA KindsNext ==
  ASSUME Mine \in DeviceIDs, IsFiniteSet(DeviceIDs), Kinds, [D!Next]_D!vars
  PROVE  Kinds'
<1>1. registered' \in SUBSET DeviceIDs
  BY DEF D!Next, D!vars, D!serverVars, D!Register, D!Connect, D!Drop, D!Serve, D!Handle, D!AlertKey,
         D!OpenDeviceManager, D!Refresh, D!QuietKey, D!AskRevoke, D!ConfirmRevoke, Kinds
<1>2. wire' \in Seq(Sendable)
  <2>1. ASSUME NEW d \in DeviceIDs, D!Register(d) PROVE wire' \in Seq(Sendable)
    BY <2>1, Sent, FramesOfServer DEF D!Register, Kinds
  <2>2. CASE D!Serve
    BY <2>2, ServedFrame, Sent DEF Kinds
  <2>3. CASE D!Handle
    BY <2>3, Taken DEF D!Handle, Kinds
  <2>4. CASE D!Drop
    BY <2>4 DEF D!Drop
  <2>5. CASE UNCHANGED wire
    BY <2>5 DEF Kinds
  <2> QED BY <2>1, <2>2, <2>3, <2>4, <2>5
          DEF D!Next, D!vars, D!Connect, D!AlertKey, D!OpenDeviceManager, D!Refresh, D!QuietKey,
              D!AskRevoke, D!ConfirmRevoke
<1>3. devicePanel' \in PanelKinds
  <2>1. CASE D!Drop
    BY <2>1, ShutKind DEF D!Drop, D!panelVars, Kinds
  <2>2. CASE D!Handle
    <3>1. ASSUME Head(wire).type = "device_list", D!SetDevices(Head(wire).rows)
          PROVE  devicePanel' \in PanelKinds
      <4>1. Head(wire).rows \in Seq(Rowed) /\ devicePanel.cursor \in Nat
        BY <2>2, <3>1, Taken, FrameKinds, PanelParts DEF D!Handle, Kinds
      <4> DEFINE c == IF devicePanel.cursor > Len(Head(wire).rows) THEN 1 ELSE devicePanel.cursor
      <4>2. /\ devicePanel' = [devicePanel EXCEPT !.rows = Head(wire).rows, !.loading = FALSE, !.cursor = c]
            /\ c \in Nat
        BY <3>1, <4>1 DEF D!SetDevices
      <4> HIDE DEF c
      <4> QED BY <4>1, <4>2, Listing DEF Kinds
    <3> QED BY <2>2, <3>1 DEF D!Handle, Kinds
  <2>3. CASE D!AlertKey \/ D!OpenDeviceManager \/ D!Refresh \/ D!QuietKey
    BY <2>3, QuietPanels DEF Kinds, QuietPanel
  <2>4. CASE D!AskRevoke \/ D!ConfirmRevoke
    BY <2>4, Prompting, Zenon DEF D!AskRevoke, D!ConfirmRevoke, Kinds
  <2>5. CASE UNCHANGED devicePanel
    BY <2>5 DEF Kinds
  <2> QED BY <2>1, <2>2, <2>3, <2>4, <2>5
          DEF D!Next, D!vars, D!panelVars, D!Register, D!Connect, D!Serve
<1> QED BY <1>1, <1>2, <1>3 DEF Kinds

LEMMA OnceNext ==
  ASSUME Mine \in DeviceIDs, IsFiniteSet(DeviceIDs), Kinds, OnceInv, [D!Next]_D!vars
  PROVE  OnceInv'
<1>1. CASE \E d \in DeviceIDs : D!Register(d)
  BY <1>1, OnceRegister
<1>2. CASE D!Connect
  BY <1>2, OnceConnect
<1>3. CASE D!Drop
  BY <1>3, OnceDrop
<1>4. CASE D!Serve
  BY <1>4, OnceServe
<1>5. CASE D!Handle
  BY <1>5, OnceHandle
<1>6. CASE \/ D!AlertKey \/ D!OpenDeviceManager \/ D!Refresh \/ D!QuietKey \/ D!AskRevoke
           \/ D!ConfirmRevoke \/ UNCHANGED D!vars
  <2>1. UNCHANGED Watched /\ alerts' \subseteq alerts
    BY <1>6 DEF D!AlertKey, D!OpenDeviceManager, D!Refresh, D!QuietKey, D!AskRevoke, D!ConfirmRevoke,
                D!vars, D!serverVars, D!memoryVars, Watched
  <2> QED BY <2>1, QuietStep
<1> QED BY <1>1, <1>2, <1>3, <1>4, <1>5, <1>6 DEF D!Next

-----------------------------------------------------------------------------
(* The theorems of Devices.                                                *)

\* Whatever order pushes and lists come in, and however often the connection
\* breaks, each device that joined after this client did is alerted for at
\* most once, none that was there before it ever, and none is remembered
\* without an alert but those of the first list (devices.go ReconcileDevices
\* and NoteAddedDevice, newdevicealert.go Show), whatever order the server
\* lists them in.
THEOREM NewDevicesOnce ==
  ASSUME D!DevicesAssumption
  PROVE  D!Spec => []D!EachNewDeviceOnce
<1>1. Mine \in DeviceIDs /\ IsFiniteSet(DeviceIDs)
  BY DEF D!DevicesAssumption, D!IsFiniteSet, IsFiniteSet
<1>2. D!Init => Kinds /\ OnceInv
  BY <1>1, KindsInit, OnceInit
<1>3. Kinds /\ OnceInv /\ [D!Next]_D!vars => (Kinds /\ OnceInv)'
  BY <1>1, KindsNext, OnceNext
<1>4. OnceInv => D!EachNewDeviceOnce
  <2> SUFFICES ASSUME OnceInv, NEW d \in DeviceIDs
               PROVE  /\ alerted[d] <= 1
                      /\ d \in Own => alerted[d] = 0
                      /\ d \in known \ (first \cup {Mine}) => alerted[d] = 1
    BY Zenon DEF D!EachNewDeviceOnce, Own
  <2> QED BY DEF OnceInv, MemoryInv, AlertedFor
<1> QED BY <1>2, <1>3, <1>4, PTL DEF D!Spec
==============================================================================
