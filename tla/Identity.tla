------------------------------ MODULE Identity ------------------------------
(***************************************************************************)
(* Whose key is it.  A profile frame brings a fingerprint and a public key *)
(* for an account, two fields that nothing computes from one another.  The *)
(* first pair is pinned in the local store; a frame with another           *)
(* fingerprint is refused, takes the account's verified mark away and      *)
(* posts a warning.  The mark itself is given by the user, in a dialog     *)
(* that shows a number computed from two public keys: one's own and the    *)
(* other's.                                                                *)
(*                                                                         *)
(* Two goroutines meet in the store: the read loop (profile frames) and    *)
(* the App (dialogs, and the messages their keys post).  What is cached    *)
(* between the two comes back only in part after a restart: the display    *)
(* names are seeded from the store, without their keys, and the frames of  *)
(* the server fill them in later.                                          *)
(*                                                                         *)
(* Left out: retired accounts (a filter on the pickers and the profile     *)
(* panel), profile frames with no display name or no public key.           *)
(***************************************************************************)
EXTENDS Naturals, Sequences, FiniteSets

CONSTANTS
    Users,      \* accounts, the local one among them
    Me,
    Prints,     \* fingerprints a frame may carry
    Keys,       \* public keys a frame may carry
    NoKey,      \* no row in pinned_keys; no number on the dialog
    WarnCap,    \* capacity of keyWarnCh
    MaxFrames,  \* profile frames the server sends
    MaxStarts   \* starts of the program, or returns to this server

NoPrint  == ""        \* the empty fingerprint
EmptyKey == "empty"   \* the public key of an entry that has a name only
Nobody   == "nobody"

\* What a frame says of an account.
Frames == [print : Prints \cup {NoPrint}, key : Keys]

\* pinned_keys and c.profiles hold such pairs, or nothing for the account; a
\* name that c.profiles was seeded with has neither field.
Absent == [print |-> NoPrint, key |-> NoKey]
Seeded == [print |-> NoPrint, key |-> EmptyKey]

ASSUME IdentityAssumption ==
    /\ Me \in Users
    /\ Nobody \notin Users
    /\ NoPrint \notin Prints
    /\ {NoKey, EmptyKey} \cap Keys = {}
    /\ NoKey # EmptyKey
    /\ WarnCap \in Nat \ {0}
    /\ MaxFrames \in Nat
    /\ MaxStarts \in Nat

VARIABLES
    pin,        \* pinned_keys: fingerprint and key of each account
    verified,   \* pinned_keys: the verified column
    profile,    \* the client's profile cache
    warnings,   \* keyWarnCh: accounts whose frame was refused
    warning,    \* the key-change dialog: the account it names, or nobody
    dialog,     \* the verify dialog, as VerifyModel.Show left it
    unverify,   \* the account the unverify dialog asks about, or nobody
    panel,      \* the profile panel, with what it read when it was opened
    busy,       \* the quit, delete or passphrase dialog is up
    posted,     \* the message a key posted and the loop has yet to handle
    compared,   \* history: the key whose number was on screen at the mark
    owed,       \* history: a frame was refused and the user neither told nor
                \* left without the mark
    frames, starts

storeVars  == <<pin, verified>>
screenVars == <<warning, dialog, unverify, panel, busy>>
boundVars  == <<frames, starts>>
vars == <<storeVars, profile, warnings, screenVars, posted, compared, owed, boundVars>>

Shut    == [user |-> Nobody, number |-> NoKey, ticked |-> FALSE]
NoPanel == [user |-> Nobody, print |-> NoPrint, key |-> NoKey, verified |-> FALSE]
NoCmd   == [do |-> "none", user |-> Nobody]
Cmd(do, u) == [do |-> do, user |-> u]

Maybe == Users \cup {Nobody}

TypeOK ==
    /\ pin \in [Users -> Frames \cup {Absent}]
    /\ verified \in [Users -> BOOLEAN]
    /\ profile \in [Users -> Frames \cup {Absent, Seeded}]
    /\ warnings \in Seq(Users) /\ Len(warnings) <= WarnCap
    /\ dialog \in [user : Maybe, number : Keys \cup {NoKey}, ticked : BOOLEAN]
    /\ {warning, unverify} \subseteq Maybe
    /\ panel \in [user : Maybe, print : Prints \cup {NoPrint}, key : Keys \cup {NoKey},
                  verified : BOOLEAN]
    /\ posted \in [do : {"none", "mark", "clear", "verify", "unverify"}, user : Maybe]
    /\ busy \in BOOLEAN
    /\ \A u \in Users : verified[u] => pin[u] # Absent

Init ==
    /\ pin = [u \in Users |-> Absent]
    /\ verified = [u \in Users |-> FALSE]
    /\ profile = [u \in Users |-> Absent]
    /\ warnings = <<>>
    /\ warning = Nobody
    /\ dialog = Shut
    /\ unverify = Nobody
    /\ panel = NoPanel
    /\ busy = FALSE
    /\ posted = NoCmd
    /\ compared = [u \in Users |-> NoKey]
    /\ owed = {}
    /\ frames = 0
    /\ starts = 0

(***************************************************************************)
(* The store.                                                              *)
(***************************************************************************)

\* A row with another fingerprint refuses the frame, whatever its key; a row
\* with none refuses nothing.
Mismatch(u, f) == pin[u].print \notin {NoPrint, f.print}

\* Mutant: the mark is an upsert, and makes a row where there is none.
MarkVerifiedAlways(u) == verified' = [verified EXCEPT ![u] = TRUE]

\* UPDATE ... WHERE user = ?: an account with no row gets no mark.
MarkVerified(u) == verified' = [verified EXCEPT ![u] = pin[u] # Absent]

ClearVerified(u) == verified' = [verified EXCEPT ![u] = FALSE]

\* An upsert: fingerprint and key are the frame's, and the mark stays as long
\* as the fingerprint does.
PinKey(u, f) ==
    /\ pin' = [pin EXCEPT ![u] = f]
    /\ verified' = [verified EXCEPT ![u] = @ /\ pin[u].print = f.print]

(***************************************************************************)
(* The read loop.                                                          *)
(***************************************************************************)

\* OnKeyWarning: a non-blocking send, dropped when the channel is full.
Warn(u) ==
    warnings' = IF Len(warnings) < WarnCap THEN Append(warnings, u) ELSE warnings

\* Mutant: the frame is refused by the store and cached all the same.
ProfileFrameCached(u, f) ==
    /\ profile' = [profile EXCEPT ![u] = f]
    /\ IF Mismatch(u, f)
       THEN ClearVerified(u) /\ Warn(u) /\ owed' = owed \cup {u} /\ UNCHANGED pin
       ELSE PinKey(u, f) /\ UNCHANGED <<warnings, owed>>

\* handleInternal's "profile" case over StoreProfile.
ProfileFrame(u, f) ==
    IF Mismatch(u, f)
    THEN ClearVerified(u) /\ Warn(u) /\ owed' = owed \cup {u} /\ UNCHANGED <<pin, profile>>
    ELSE PinKey(u, f) /\ profile' = [profile EXCEPT ![u] = f]
         /\ UNCHANGED <<warnings, owed>>

Receive(u, f) ==
    /\ frames < MaxFrames
    /\ frames' = frames + 1
    /\ ProfileFrame(u, f)
    /\ UNCHANGED <<screenVars, posted, compared, starts>>

(***************************************************************************)
(* The App.                                                                *)
(***************************************************************************)

Clear == warning = Nobody /\ dialog = Shut /\ unverify = Nobody /\ ~busy /\ posted = NoCmd
Idle  == Clear /\ panel = NoPanel

\* KeyChangeEvent, dropped under five dialogs.
HandleWarning ==
    /\ warnings # <<>>
    /\ warnings' = Tail(warnings)
    /\ IF warning # Nobody \/ dialog # Shut \/ busy
       THEN UNCHANGED <<warning, owed>>
       ELSE warning' = Head(warnings) /\ owed' = owed \ {Head(warnings)}
    /\ UNCHANGED <<storeVars, profile, dialog, unverify, panel, busy, posted, compared, boundVars>>

\* The key the number would be computed from: the cached profile if there is
\* one, whatever it holds, else the pinned key.  A name without a key has none.
TargetKey(u) ==
    CASE profile[u] \in Frames  -> profile[u].key
      [] profile[u] = Absent     -> pin[u].key
      [] profile[u] = Seeded     -> NoKey

\* No number for oneself, for a target without a key, or without one's own.
NumberFor(u) ==
    IF u = Me \/ profile[Me] \notin Frames THEN NoKey ELSE TargetKey(u)

ShowVerify(u) ==
    dialog' = [user |-> u, number |-> NumberFor(u),
               ticked |-> NumberFor(u) # NoKey /\ verified[u]]

\* The bare /verify offers whoever has a row and no mark; the typed one takes
\* any known account without the mark; the member menu minds nothing.
Offered(u) == u # Me /\ profile[u] # Absent /\ pin[u].print # NoPrint /\ ~verified[u]
Typed(u)   == profile[u] # Absent /\ ~verified[u]
OnMenu(u)  == u # Me

OpenVerify(u) ==
    /\ Idle
    /\ Offered(u) \/ Typed(u) \/ OnMenu(u)
    /\ ShowVerify(u)
    /\ UNCHANGED <<storeVars, profile, warnings, warning, unverify, panel, busy, posted, compared,
                   owed, boundVars>>

\* Enter or v: ticked at once, the mark with the message.
VerifyEnter ==
    /\ dialog # Shut /\ ~dialog.ticked /\ warning = Nobody /\ ~busy /\ posted = NoCmd
    /\ dialog' = [dialog EXCEPT !.ticked = TRUE]
    /\ posted' = Cmd("mark", dialog.user)
    /\ compared' = [compared EXCEPT ![dialog.user] = dialog.number]
    /\ UNCHANGED <<storeVars, profile, warnings, warning, unverify, panel, busy, owed, boundVars>>

VerifyEsc ==
    /\ dialog # Shut /\ warning = Nobody /\ ~busy
    /\ dialog' = Shut
    /\ UNCHANGED <<storeVars, profile, warnings, warning, unverify, panel, busy, posted, compared,
                   owed, boundVars>>

\* VerifyActionMsg, UnverifyConfirmMsg, and the two MemberActionMsg of the
\* profile panel.
HandlePosted ==
    /\ posted # NoCmd
    /\ posted' = NoCmd
    /\ \/ posted.do = "mark" /\ MarkVerified(posted.user) /\ UNCHANGED <<dialog, unverify>>
       \/ posted.do = "clear" /\ ClearVerified(posted.user) /\ UNCHANGED <<dialog, unverify>>
       \/ posted.do = "verify" /\ ShowVerify(posted.user) /\ UNCHANGED <<verified, unverify>>
       \/ posted.do = "unverify" /\ unverify' = posted.user /\ UNCHANGED <<verified, dialog>>
    /\ UNCHANGED <<pin, profile, warnings, warning, panel, busy, compared, owed, boundVars>>

\* /unverify and its picker look for the mark.
OpenUnverify(u) ==
    /\ Idle
    /\ u # Me /\ verified[u]
    /\ unverify' = u
    /\ UNCHANGED <<storeVars, profile, warnings, warning, dialog, panel, busy, posted, compared,
                   owed, boundVars>>

AnswerUnverify ==
    /\ unverify # Nobody /\ ~busy /\ posted = NoCmd
    /\ unverify' = Nobody
    /\ posted' \in {NoCmd, Cmd("clear", unverify)}
    /\ UNCHANGED <<storeVars, profile, warnings, warning, dialog, panel, busy, compared, owed, boundVars>>

\* The profile panel looks for the pinned key too when the cached profile has
\* none, where the verify dialog gives up; and likewise for the fingerprint.
PanelKey(u)   == IF profile[u] \in Frames THEN profile[u].key ELSE pin[u].key
PanelPrint(u) == IF profile[u].print # NoPrint THEN profile[u].print ELSE pin[u].print

\* /whois, or the member menu.
ShowUser(u) ==
    /\ Idle
    /\ panel' = [user |-> u, print |-> PanelPrint(u), key |-> PanelKey(u),
                 verified |-> verified[u]]
    /\ UNCHANGED <<storeVars, profile, warnings, warning, dialog, unverify, busy, posted,
                   compared, owed, boundVars>>

\* v and u, each where the mark, as it was then, leaves something to do; Esc.
LeavePanel ==
    /\ Clear /\ panel # NoPanel
    /\ panel' = NoPanel
    /\ \/ panel.user # Me /\ ~panel.verified /\ posted' = Cmd("verify", panel.user)
       \/ panel.user # Me /\ panel.verified /\ posted' = Cmd("unverify", panel.user)
       \/ posted' = NoCmd
    /\ UNCHANGED <<storeVars, profile, warnings, warning, dialog, unverify, busy, compared,
                   owed, boundVars>>

\* These three come over whatever is on the screen, and take its keys.
Occupy ==
    /\ busy' = ~busy
    /\ UNCHANGED <<storeVars, profile, warnings, warning, dialog, unverify, panel, posted, compared,
                   owed, boundVars>>

(***************************************************************************)
(* A new client over the same store: a restart, or a return to the server. *)
(* d, q or Esc on the warning lead here too: they disconnect and quit.     *)
(***************************************************************************)

\* hydrateLocalCache: names without keys.
Hydrate == profile' = [u \in Users |-> IF pin[u] = Absent THEN Absent ELSE Seeded]

Restart ==
    /\ starts < MaxStarts
    /\ starts' = starts + 1
    /\ Hydrate
    /\ warnings' = <<>>
    /\ warning' = Nobody
    /\ dialog' = Shut
    /\ unverify' = Nobody
    /\ panel' = NoPanel
    /\ busy' = FALSE
    /\ posted' = NoCmd
    /\ UNCHANGED <<storeVars, compared, owed, frames>>

Next ==
    \/ \E u \in Users, f \in Frames : Receive(u, f)
    \/ \E u \in Users : OpenVerify(u) \/ OpenUnverify(u) \/ ShowUser(u)
    \/ HandleWarning \/ HandlePosted
    \/ VerifyEnter \/ VerifyEsc \/ AnswerUnverify \/ LeavePanel \/ Occupy
    \/ Restart

Spec == Init /\ [][Next]_vars

(***************************************************************************)
(* Properties.                                                             *)
(***************************************************************************)

\* One fingerprint per account, across frames, restarts and refused frames:
\* the entry in the cache, whose key messages are wrapped for and signatures
\* checked with, is the pinned row, fingerprint and key, so that what the
\* program uses and what it falls back on after a restart do not part; and the
\* fingerprint the profile panel has shown since it was opened is the pinned
\* one (StoreProfile persist.go:965, handleInternal client.go:651, ShowUser
\* infopanel.go:478).
OnePrintPerAccount ==
    /\ \A u \in Users : profile[u] \in Frames => profile[u] = pin[u]
    /\ panel.print # NoPrint => panel.print = pin[panel.user].print

(***************************************************************************)
(* Stated by the docs and comments, and not so.                            *)
(***************************************************************************)

\* DESIGN.md:85: verified means "user explicitly verified via safety number".
\* A dialog that could compute no number takes Enter all the same; after a
\* restart that is every account, because the name seeded in the cache hides
\* the pinned key from the fallback of verify.go:52.
VerifiedWasCompared == \A u \in Users \ {Me} : verified[u] => compared[u] = pin[u].key

\* store/keys.go:147-149: "Resetting verified ensures the user cannot continue
\* to trust a verified badge when the underlying key has changed".  It is reset
\* when the fingerprint has changed; a frame with the pinned fingerprint and
\* another key replaces the key and leaves the mark.
MarkFollowsKey ==
    [][ \A u \in Users : verified[u] /\ verified'[u] => pin'[u].key = pin[u].key ]_vars

\* app.go:4385-4390: a dropped key-change event leaves the missing mark behind
\* "as a persistent indicator".  The dialog it was dropped for sets the mark
\* again.
AnomalyLeavesTrace ==
    \A u \in owed : ~verified[u] \/ u \in {warnings[i] : i \in DOMAIN warnings}
=============================================================================
