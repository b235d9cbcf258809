------------------------------- MODULE Groups -------------------------------
(***************************************************************************)
(* Membership and administration of one group (client/client.go,           *)
(* client/send.go, store/group_admin.go and the group verbs of             *)
(* tui/app.go): the roster the client keeps of a group, the keys it wraps  *)
(* for that roster, the audit trail, and the dialogs from which a member   *)
(* adds, removes, promotes, demotes, hands over, leaves and deletes.       *)
(*                                                                         *)
(* The read loop applies the server's frames to groupMembers (a slice,     *)
(* filtered and appended to in place), groupAdmins (a map) and the groups  *)
(* row.  The TUI goroutine reads them under the same lock, except that     *)
(* wrapKeyForGroup takes the slice under the lock and walks its cells      *)
(* after releasing it.  Requests are checked by the server, which alone    *)
(* decides; the client's own checks only spare a round trip.               *)
(*                                                                         *)
(* A confirmation and the message it emits are one step.  Names,           *)
(* rendering, renames, creation of the group and the state of the sidebar  *)
(* (see Conversations) are left out, and so is a cell of the slice read    *)
(* while it is half written.                                               *)
(***************************************************************************)
EXTENDS Naturals, Sequences, FiniteSets, SequencesExt

CONSTANTS
  Users,    \* the accounts
  Me,       \* the local one
  Nobody,   \* no user, no dialog, no picker, no row
  MaxActs,  \* bound: membership events caused by others
  MaxAsks,  \* bound: dialogs confirmed by the local user
  MaxGen,   \* bound: connections
  MaxSends, \* bound: messages sent to the group
  MaxFlight \* bound: frames on their way while others act

ASSUME GroupsAssumption ==
  /\ Me \in Users /\ Nobody \notin Users
  /\ Nobody \notin [mem : Seq(Users), admin : BOOLEAN, left : BOOLEAN]
  /\ IsFiniteSet(Users) /\ Cardinality(Users) > 1
  /\ {MaxActs, MaxAsks, MaxGen, MaxSends, MaxFlight} \subseteq Nat

VARIABLES
  srv,      \* the server's roster: [mem |-> members, adm |-> admins]
  gone,     \* how this account last went: "", "left" or "deleted"
  told,     \* the events the server told, or owes, this account
  reqs,     \* requests on their way to the server
  feed,     \* frames on their way to the client
  link,     \* the connection stands
  cells,    \* the backing array of groupMembers[group]
  len,      \* its length; 0 when the entry is deleted
  admins,   \* groupAdmins[group]
  row,      \* the groups row: [mem, admin, left], or Nobody
  audit,    \* the events in the group_events table
  fed,      \* a roster came over this connection
  heard,    \* the server's roster after the last frame handled
  walk,     \* wrapKeyForGroup under way
  seen,     \* the memberships heard of since it began
  dialog,   \* the confirmation on screen, or Nobody
  picker,   \* the shared picker, or Nobody
  heir,     \* the last-admin picker, or Nobody
  marker,   \* pendingLastAdminGroup: "", "leave" or "delete"
  undo,     \* lastKickUserID, or Nobody
  inbox,    \* errors the TUI has yet to handle
  acts, asks, gen, sends   \* counters of the bounds

serverVars == <<srv, gone, told>>
rosterVars == <<cells, len, admins, row, audit, fed, heard>>
tuiVars    == <<dialog, picker, heir, marker, undo>>
bounds     == <<acts, asks, gen, sends>>
vars == <<serverVars, reqs, feed, link, rosterVars, walk, seen, tuiVars, inbox, bounds>>

Verbs    == {"add", "kick", "promote", "demote", "transfer"}
Exits    == {"leave", "delete"}
Requests == {"add", "kick", "promote", "demote", "leave", "delete"}
Rosters  == [mem : SUBSET Users, adm : SUBSET Users]
NoWalk   == [on |-> FALSE, fed |-> FALSE, n |-> 0, i |-> 0, own |-> <<>>, got |-> {}]

----------------------------------------------------------------------------
(* The server, as send.go, protocol/messages.go and DESIGN.md tell of it.  *)

Without(r, u) == [mem |-> r.mem \ {u}, adm |-> r.adm \ {u}]
IsLastAdmin(r, u) == r.adm = {u} /\ r.mem # {u}

(* Whether the request of user u is granted, and what it makes of r.       *)
Granted(r, u, q) ==
  /\ u \in r.mem
  /\ q.verb \in Exits \/ u \in r.adm
  /\ CASE q.verb = "add"     -> q.user \notin r.mem
       [] q.verb = "kick"    -> q.user \in r.mem \ {u}
       [] q.verb = "promote" -> q.user \in r.mem \ r.adm
       [] q.verb = "demote"  -> q.user \in r.adm /\ r.adm # {q.user}
       [] OTHER              -> ~IsLastAdmin(r, u)

After(r, u, q) ==
  CASE q.verb = "add"     -> [r EXCEPT !.mem = @ \cup {q.user}]
    [] q.verb = "kick"    -> Without(r, q.user)
    [] q.verb = "promote" -> [r EXCEPT !.adm = @ \cup {q.user}]
    [] q.verb = "demote"  -> [r EXCEPT !.adm = @ \ {q.user}]
    [] OTHER              -> Without(r, u)

(* What this account hears of it: events of a group it is in, a notice     *)
(* when it comes or goes.                                                  *)
FrameOf(u, q) ==
  LET mine == (q.verb = "kick" /\ q.user = Me) \/ (q.verb \in Exits /\ u = Me)
  IN  [ type  |-> IF q.verb = "add" THEN IF q.user = Me THEN "added_to" ELSE "join"
                  ELSE IF mine THEN IF q.verb = "delete" THEN "deleted" ELSE "left"
                  ELSE IF q.verb \in {"promote", "demote"} THEN q.verb
                  ELSE "leave",
        user  |-> IF q.verb \in Exits THEN u ELSE q.user,
        after |-> After(srv, u, q),
        id    |-> Cardinality(told) + 1 ]

IsEvent(f) == f.type \in {"join", "leave", "promote", "demote"}

Performs(u, q) ==
  /\ srv'  = After(srv, u, q)
  /\ LET f == FrameOf(u, q)
         hears == Me \in srv.mem \/ f.type = "added_to"
     IN  /\ gone' = IF f.type \in {"left", "deleted"} THEN f.type
                    ELSE IF f.type = "added_to" THEN "" ELSE gone
         /\ feed' = IF hears /\ link THEN Append(feed, f) ELSE feed
         /\ told' = IF hears /\ IsEvent(f) THEN told \cup {f.id} ELSE told

(* Somebody else acts.                                                     *)
OthersAct ==
  /\ acts < MaxActs /\ Len(feed) <= MaxFlight
  /\ acts' = acts + 1
  /\ \E u \in Users \ {Me}, q \in [verb : Requests, user : Users] :
       /\ q.verb \in Exits => q.user = u
       /\ Granted(srv, u, q)
       /\ Performs(u, q)
  /\ UNCHANGED <<reqs, link, rosterVars, walk, seen, tuiVars, inbox, asks, gen, sends>>

(* A request of this account is granted, or refused by an error.           *)
Serve ==
  /\ link /\ reqs # <<>>
  /\ reqs' = Tail(reqs)
  /\ LET q == Head(reqs)
     IN  IF Granted(srv, Me, q)
         THEN Performs(Me, q)
         ELSE /\ feed' = Append(feed,
                   [type |-> "error", user |-> q.user, after |-> srv, id |-> 0,
                    last |-> IsLastAdmin(srv, Me) /\ Me \in srv.mem
                             /\ (q.verb \in Exits \/ (q.verb = "demote" /\ q.user = Me)),
                    verb |-> q.verb])
              /\ UNCHANGED serverVars
  /\ UNCHANGED <<link, rosterVars, walk, seen, tuiVars, inbox, bounds>>

----------------------------------------------------------------------------
(* The roster in memory.                                                   *)

Roster  == SubSeq(cells, 1, len)   \* GroupMembers
Members == ToSet(Roster)
IsGroupAdmin(u) == u \in admins

(* A slice of its own: the walk keeps the cells of the old one.            *)
Replace(list) ==
  /\ cells' = list
  /\ len'   = Len(list)
  /\ walk'  = IF walk.on /\ walk.own = <<>> THEN [walk EXCEPT !.own = cells] ELSE walk

(* The one ascending list of a set of numbers.                             *)
InOrder(S) ==
  {f \in [1..Cardinality(S) -> S] : \A m, n \in DOMAIN f : m < n => f[m] < f[n]}

(* members[:0], appended to: the kept ones move up, the cells behind stay. *)
FilterInPlace(u) == \E kept \in InOrder({i \in 1..len : cells[i] # u}) :
  /\ cells' = [i \in DOMAIN cells |-> cells[IF i \in DOMAIN kept THEN kept[i] ELSE i]]
  /\ len'   = Len(kept)
  /\ UNCHANGED walk

(* append: into the spare cell if there is one, else into a new array.     *)
AppendMember(u) ==
  IF u \in Members THEN UNCHANGED <<cells, len, walk>>
  ELSE IF len < Len(cells)
       THEN /\ cells' = [cells EXCEPT ![len + 1] = u]
            /\ len' = len + 1
            /\ UNCHANGED walk
       ELSE Replace(Append(Roster, u))

(* StoreGroup, SetLocalUserGroupAdmin and MarkGroupRejoined.               *)
StoreGroup(list, admin) == row' = [mem |-> list, admin |-> admin, left |-> FALSE]
MarkGroupLeft == row' = IF row = Nobody THEN row ELSE [row EXCEPT !.left = TRUE]
SetLocalUserGroupAdmin(u, admin) ==
  row' = IF u = Me /\ row # Nobody THEN [row EXCEPT !.admin = admin] ELSE row

(* case "group_list" and "group_added_to": whole lists.                    *)
GroupList(f) ==
  LET list == SetToSeq(f.after.mem)
  IN  /\ Replace(list)
      /\ admins' = f.after.adm
      /\ StoreGroup(list, f.type = "group_list" /\ Me \in f.after.adm)
      /\ UNCHANGED audit

(* case "group_left", "left_groups" and "group_deleted".  The admin set    *)
(* stays behind.                                                           *)
GroupGone(f) ==
  /\ Replace(<<>>)
  /\ IF f.type = "deleted" THEN row' = Nobody ELSE MarkGroupLeft
  /\ UNCHANGED <<admins, audit>>

(* Mutant: a member who leaves stays in the admin set.                     *)
GroupEventKeepsAdmin(f) ==
  /\ audit' = audit \cup {f.id}
  /\ CASE f.type = "leave"   -> /\ FilterInPlace(f.user)
                                /\ UNCHANGED <<admins, row>>
       [] f.type = "join"    -> AppendMember(f.user) /\ UNCHANGED <<admins, row>>
       [] f.type = "promote" -> /\ admins' = admins \cup {f.user}
                                /\ SetLocalUserGroupAdmin(f.user, TRUE)
                                /\ UNCHANGED <<cells, len, walk>>
       [] f.type = "demote"  -> /\ admins' = admins \ {f.user}
                                /\ SetLocalUserGroupAdmin(f.user, FALSE)
                                /\ UNCHANGED <<cells, len, walk>>

(* case "group_event", and its audit row.                                  *)
GroupEvent(f) ==
  /\ audit' = audit \cup {f.id}
  /\ CASE f.type = "leave"   -> /\ FilterInPlace(f.user)
                                /\ admins' = admins \ {f.user}
                                /\ UNCHANGED row
       [] f.type = "join"    -> AppendMember(f.user) /\ UNCHANGED <<admins, row>>
       [] f.type = "promote" -> /\ admins' = admins \cup {f.user}
                                /\ SetLocalUserGroupAdmin(f.user, TRUE)
                                /\ UNCHANGED <<cells, len, walk>>
       [] f.type = "demote"  -> /\ admins' = admins \ {f.user}
                                /\ SetLocalUserGroupAdmin(f.user, FALSE)
                                /\ UNCHANGED <<cells, len, walk>>

(* The read loop hands errors on to the TUI; of a sync_batch it stores the *)
(* keys, messages and reactions, and no event.                             *)
Read ==
  /\ link /\ feed # <<>>
  /\ feed' = Tail(feed)
  /\ LET f == Head(feed)
     IN  /\ CASE IsEvent(f) -> GroupEvent(f)
              [] f.type \in {"group_list", "added_to"} -> GroupList(f)
              [] f.type \in {"left", "deleted"} -> GroupGone(f)
              [] OTHER -> UNCHANGED <<cells, len, admins, row, audit, walk>>
         /\ inbox' = IF f.type = "error" THEN Append(inbox, f) ELSE inbox
         /\ fed'   = (fed \/ f.type \in {"group_list", "added_to", "left", "deleted"})
         /\ heard' = f.after
         /\ seen'  = IF walk.on THEN seen \cup {f.after.mem} ELSE seen
  /\ UNCHANGED <<serverVars, reqs, link, tuiVars, bounds>>

(* The connection breaks: what is in flight is lost.                       *)
Break ==
  /\ link /\ gen < MaxGen
  /\ link' = FALSE
  /\ feed' = <<>> /\ reqs' = <<>>
  /\ UNCHANGED <<serverVars, rosterVars, walk, seen, tuiVars, inbox, bounds>>

(* What a connect brings: the lists, then the catch-up.                    *)
Welcome ==
  LET frame(type) == [type |-> type, user |-> Nobody, after |-> srv, id |-> 0]
  IN  IF Me \in srv.mem
      THEN <<frame("group_list"), frame("sync_batch")>>
      ELSE IF gone # "" THEN <<frame(gone), frame("sync_batch")>> ELSE <<frame("sync_batch")>>

(* A new Client: hydrateLocalCache reads every row, left or not, and knows *)
(* no admins.  The App and its markers live on.                            *)
Connect ==
  /\ ~link /\ ~walk.on
  /\ link' = TRUE
  /\ gen'  = gen + 1
  /\ feed' = Welcome
  /\ cells' = IF row = Nobody THEN <<>> ELSE row.mem
  /\ len'   = Len(cells')
  /\ admins' = {}
  /\ fed' = FALSE
  /\ UNCHANGED <<serverVars, reqs, row, audit, heard, walk, seen, tuiVars, inbox,
                 acts, asks, sends>>

----------------------------------------------------------------------------
(* SendGroupMessageFull, in Update: nothing else of the TUI runs meanwhile.*)

Idle == dialog = Nobody /\ picker = Nobody /\ heir = Nobody

(* Mutant: the members are taken from the groups row.                      *)
BeginWrapFromRow ==
  /\ ~walk.on /\ Idle /\ link /\ len > 0 /\ sends < MaxSends
  /\ row # Nobody
  /\ sends' = sends + 1
  /\ walk'  = [on |-> TRUE, fed |-> fed, n |-> Len(row.mem), i |-> 1,
               own |-> row.mem, got |-> {}]
  /\ seen'  = {heard.mem}
  /\ UNCHANGED <<serverVars, reqs, feed, link, rosterVars, tuiVars, inbox, acts,
                 asks, gen>>

(* The slice is taken under the lock ...                                   *)
BeginWrap ==
  /\ ~walk.on /\ Idle /\ link /\ len > 0 /\ sends < MaxSends
  /\ sends' = sends + 1
  /\ walk'  = [NoWalk EXCEPT !.on = TRUE, !.fed = fed, !.n = len, !.i = 1]
  /\ seen'  = {heard.mem}
  /\ UNCHANGED <<serverVars, reqs, feed, link, rosterVars, tuiVars, inbox, acts,
                 asks, gen>>

(* ... and its cells are read after it is released.                        *)
WrapNext ==
  /\ walk.on /\ walk.i <= walk.n
  /\ LET array == IF walk.own = <<>> THEN cells ELSE walk.own
     IN  walk' = [walk EXCEPT !.i = @ + 1, !.got = @ \cup {array[walk.i]}]
  /\ UNCHANGED <<serverVars, reqs, feed, link, rosterVars, seen, tuiVars, inbox, bounds>>

(* The frame is signed and encoded, or a profile was missing.              *)
EndWrap ==
  /\ walk.on
  /\ walk.i <= walk.n => \E u \in ToSet(cells) \cup ToSet(walk.own) : u # Me
  /\ walk' = NoWalk /\ seen' = {}
  /\ UNCHANGED <<serverVars, reqs, feed, link, rosterVars, tuiVars, inbox, bounds>>

----------------------------------------------------------------------------
(* The dialogs.                                                            *)

NewDialog(verb, u, already) == [verb |-> verb, user |-> u, already |-> already]

(* The *ConfirmForTarget helpers: the dialog they open, if any.            *)
ConfirmForTarget(verb, u) ==
  CASE verb = "add"     -> IF u \in Members THEN Nobody ELSE NewDialog(verb, u, FALSE)
    [] verb = "kick"    -> IF u = Me THEN NewDialog("leave", Me, FALSE) ELSE NewDialog(verb, u, FALSE)
    [] verb = "promote" -> IF IsGroupAdmin(u) THEN Nobody ELSE NewDialog(verb, u, FALSE)
    [] verb = "demote"  -> IF IsGroupAdmin(u) THEN NewDialog(verb, u, FALSE) ELSE Nobody
    [] OTHER            -> NewDialog(verb, u, IsGroupAdmin(u))

Candidates(verb) ==
  CASE verb = "add"     -> Users \ (Members \cup {Me})
    [] verb = "promote" -> Members \ (admins \cup {Me})
    [] verb = "demote"  -> admins
    [] OTHER            -> Members \ {Me}

Screen(d, p, h) == dialog' = d /\ picker' = p /\ heir' = h
UnchangedRest == UNCHANGED <<serverVars, feed, link, rosterVars, walk, seen>>

(* "/kick @user", checked before the dialog; and the keys of the info      *)
(* panel, drawn for admins and over members.                               *)
AskByName(verb, u) ==
  /\ ~walk.on /\ Idle /\ asks < MaxAsks
  /\ IsGroupAdmin(Me)
  /\ verb # "add" => u \in Members
  /\ Screen(ConfirmForTarget(verb, u), Nobody, Nobody)
  /\ UNCHANGED <<marker, undo, reqs, inbox, bounds>> /\ UnchangedRest

(* A bare verb opens the shared picker; a selection goes straight to the   *)
(* dialog, without a second look at the local user's rights.               *)
OpenPicker(verb) ==
  /\ ~walk.on /\ Idle /\ asks < MaxAsks
  /\ IsGroupAdmin(Me) /\ Candidates(verb) # {}
  /\ Screen(Nobody, [verb |-> verb, items |-> Candidates(verb)], Nobody)
  /\ UNCHANGED <<marker, undo, reqs, inbox, bounds>> /\ UnchangedRest

PickerSelected(u) ==
  /\ ~walk.on /\ picker # Nobody /\ u \in picker.items
  /\ Screen(ConfirmForTarget(picker.verb, u), Nobody, heir)
  /\ UNCHANGED <<marker, undo, reqs, inbox, bounds>> /\ UnchangedRest

(* "/leave" and "/delete" ask nobody's rights.                             *)
AskToGo(verb) ==
  /\ ~walk.on /\ Idle /\ asks < MaxAsks
  /\ len > 0
  /\ Screen(NewDialog(verb, Me, FALSE), Nobody, Nobody)
  /\ UNCHANGED <<marker, undo, reqs, inbox, bounds>> /\ UnchangedRest

(* Esc: the front of the screen closes.                                    *)
Cancel ==
  /\ ~walk.on /\ ~Idle
  /\ IF picker # Nobody THEN Screen(dialog, Nobody, heir)
     ELSE IF heir # Nobody /\ ~(dialog # Nobody /\ dialog.verb \in Exits)
          THEN Screen(dialog, Nobody, Nobody)
          ELSE Screen(Nobody, Nobody, heir)
  /\ UNCHANGED <<marker, undo, reqs, inbox, bounds>> /\ UnchangedRest

----------------------------------------------------------------------------
(* Confirmed.                                                              *)

Request(verb, u) == [verb |-> verb, user |-> u]

(* A request on a broken connection fails, or is lost.                     *)
Send(qs) == reqs' = IF link THEN reqs \o qs ELSE reqs

(* The keys reach the shared picker first, then a dialog of leaving, then  *)
(* the last-admin picker, then the other dialogs.                          *)
ExitAsked == dialog # Nobody /\ dialog.verb \in Exits
InFront(verbs) ==
  /\ ~walk.on /\ dialog # Nobody /\ dialog.verb \in verbs
  /\ picker = Nobody
  /\ heir # Nobody => ExitAsked
  /\ asks < MaxAsks
  /\ asks' = asks + 1

(* case LeaveConfirmMsg and DeleteGroupConfirmMsg: the marker is set       *)
(* whether or not the request goes out.                                    *)
ConfirmExit ==
  /\ InFront(Exits)
  /\ Send(<<Request(dialog.verb, Me)>>)
  /\ marker' = dialog.verb
  /\ Screen(Nobody, Nobody, heir)
  /\ UNCHANGED <<undo, inbox, acts, gen, sends>> /\ UnchangedRest

(* case AddConfirmMsg, PromoteConfirmMsg and DemoteConfirmMsg.             *)
ConfirmVerb ==
  /\ InFront({"add", "promote", "demote"})
  /\ Send(<<Request(dialog.verb, dialog.user)>>)
  /\ Screen(Nobody, Nobody, heir)
  /\ UNCHANGED <<marker, undo, inbox, acts, gen, sends>> /\ UnchangedRest

(* case KickConfirmMsg: the kick is noted for /undo once it is written.    *)
ConfirmKick ==
  /\ InFront({"kick"})
  /\ Send(<<Request("kick", dialog.user)>>)
  /\ undo' = IF link THEN dialog.user ELSE undo
  /\ Screen(Nobody, Nobody, heir)
  /\ UNCHANGED <<marker, inbox, acts, gen, sends>> /\ UnchangedRest

(* case TransferConfirmMsg: promote, unless the target was an admin when   *)
(* the dialog opened, then leave.                                          *)
ConfirmTransfer ==
  /\ InFront({"transfer"})
  /\ LET go == Request("leave", Me)
     IN  IF dialog.already THEN Send(<<go>>)
         ELSE IF link THEN Send(<<Request("promote", dialog.user), go>>)
              ELSE UNCHANGED reqs
  /\ Screen(Nobody, Nobody, heir)
  /\ UNCHANGED <<marker, undo, inbox, acts, gen, sends>> /\ UnchangedRest

(* "/undo", within the window or after it.                                 *)
Undo ==
  /\ ~walk.on /\ Idle /\ undo # Nobody
  /\ \/ undo' = Nobody /\ UNCHANGED reqs     \* expired
     \/ /\ IsGroupAdmin(Me) /\ link
        /\ Send(<<Request("add", undo)>>)
        /\ undo' = Nobody
  /\ UNCHANGED <<dialog, picker, heir, marker, inbox, bounds>>
  /\ UnchangedRest

(* case "error": a "last admin" refusal while an exit is pending opens the *)
(* picker of a successor.                                                  *)
Refused ==
  /\ ~walk.on /\ inbox # <<>>
  /\ inbox' = Tail(inbox)
  /\ IF Head(inbox).last /\ marker # ""
     THEN /\ heir' = [exit |-> marker, refused |-> Head(inbox).verb,
                    items |-> Members \ (admins \cup {Me})]
          /\ marker' = ""
     ELSE UNCHANGED <<heir, marker>>
  /\ UNCHANGED <<dialog, picker, undo, reqs, bounds>> /\ UnchangedRest

(* case LastAdminPickerMsg: promote the successor, then go.                *)
HeirSelected(u) ==
  /\ ~walk.on /\ heir # Nobody /\ picker = Nobody /\ u \in heir.items
  /\ ~ExitAsked
  /\ IF link THEN Send(<<Request("promote", u), Request(heir.exit, Me)>>)
     ELSE UNCHANGED reqs
  /\ marker' = ""
  /\ Screen(dialog, picker, Nobody)
  /\ UNCHANGED <<undo, inbox, bounds>> /\ UnchangedRest

----------------------------------------------------------------------------
Init ==
  /\ \E r \in Rosters :
       /\ Me \in r.mem /\ r.adm # {} /\ r.adm \subseteq r.mem
       /\ srv = r
  /\ gone = "" /\ told = {} /\ audit = {}
  /\ reqs = <<>> /\ feed = Welcome /\ link = TRUE
  /\ cells = <<>> /\ len = 0 /\ admins = {} /\ row = Nobody
  /\ fed = FALSE /\ heard = [mem |-> {}, adm |-> {}]
  /\ walk = NoWalk /\ seen = {}
  /\ dialog = Nobody /\ picker = Nobody /\ heir = Nobody
  /\ marker = "" /\ undo = Nobody /\ inbox = <<>>
  /\ acts = 0 /\ asks = 0 /\ gen = 1 /\ sends = 0

Wrap == BeginWrap \/ WrapNext \/ EndWrap
Ask  == \/ \E verb \in Verbs, u \in Users : AskByName(verb, u)
        \/ \E verb \in Verbs : OpenPicker(verb)
        \/ \E u \in Users : PickerSelected(u)
        \/ \E verb \in Exits : AskToGo(verb)
        \/ Cancel
Confirm == \/ ConfirmExit \/ ConfirmVerb \/ ConfirmKick \/ ConfirmTransfer
           \/ Undo \/ \E u \in Users : HeirSelected(u)

Next == OthersAct \/ Serve \/ Read \/ Break \/ Connect \/ Wrap \/ Ask \/ Confirm \/ Refused

Spec == Init /\ [][Next]_vars

----------------------------------------------------------------------------
DialogType == [verb : Verbs \cup Exits, user : Users, already : BOOLEAN]

TypeOK ==
  /\ srv \in Rosters /\ gone \in {"", "left", "deleted"}
  /\ audit \subseteq told
  /\ \A i \in DOMAIN reqs : reqs[i] \in [verb : Requests, user : Users]
  /\ len <= Len(cells) /\ ToSet(cells) \subseteq Users
  /\ Cardinality(Members) = len
  /\ admins \subseteq Users
  /\ row = Nobody \/ ToSet(row.mem) \subseteq Users
  /\ walk.n <= Cardinality(Users) /\ walk.got \subseteq Users
  /\ dialog = Nobody \/ dialog \in DialogType
  /\ marker \in {""} \cup Exits
  /\ undo \in Users \cup {Nobody}

(* What the client believes of the group is what the server's last frame   *)
(* made of it: members, admins and the flag on disk (client.go:925-1026    *)
(* and the lists), however frames, connections and exits interleave.       *)
RosterFollowsServer ==
  fed /\ Me \in heard.mem =>
    /\ Members = heard.mem
    /\ admins = heard.adm
    /\ row # Nobody /\ row.admin = (Me \in heard.adm) /\ ~row.left

(* Over a fed connection no message key is wrapped for anyone the client   *)
(* did not have as a member at some moment of the walk, whatever the read  *)
(* loop does to the cells under it (send.go:294-330).                      *)
NoStrangerWrapped ==
  walk.on /\ walk.fed => walk.got \subseteq UNION seen

(* send.go:293: "wrapKeyForGroup wraps a symmetric key for all members of  *)
(* a group DM": when the walk ends, its keys are those of one membership.  *)
WrapsForMembers ==
  walk.on /\ walk.i > walk.n => walk.got \in seen

(* app.go:9066-9070: the picker of a successor opens when "/leave or       *)
(* /delete" was refused, never on the refusal of another request.          *)
PickerAnswersRefusal == heir # Nobody => heir.refused \in Exits

(* KEYBINDINGS.md:198: /audit reads rows "populated from live broadcasts   *)
(* and offline sync replay": with nothing in flight, every event told to   *)
(* this account is in it.                                                  *)
AuditHasAll == link /\ feed = <<>> => told \subseteq audit
=============================================================================
