------------------------------ MODULE Overlays ------------------------------
(***************************************************************************)
(* Who takes the next key.  The TUI is one App value with forty-one        *)
(* widgets that can each be "visible" over the panels, and nothing makes   *)
(* them exclude one another: three hand-written chains decide.  updateInner*)
(* hands a key to the first visible widget of one list, viewBody paints    *)
(* the first visible widget of another list in nearly the opposite order,  *)
(* handleMouse consults a third.  What the user sees is what answers only  *)
(* if at most one widget is up, or the lists agree.                        *)
(*                                                                         *)
(* The user opens widgets with keys; a widget answers with a message (a    *)
(* tea.Cmd) that the loop handles later and that may open the next one;    *)
(* the server and the connection open others unasked.  Around it: which    *)
(* panel has focus and where it returns, the Ctrl+g prefix and its delayed *)
(* pop-up, a server switch that drops the client in the middle.            *)
(*                                                                         *)
(* Left out: what the widgets show, their cursors and text fields (a key   *)
(* that only moves inside a widget changes nothing here), the scrolling of *)
(* the panes, the completion pop-up, and the admin_* member actions, which *)
(* no widget emits any more.                                               *)
(***************************************************************************)
EXTENDS Naturals, Sequences, FiniteSets

LOCAL INSTANCE SequencesExt

CONSTANTS
    MaxUnasked,     \* dialogs that came unasked and are still up
    MaxPrefix       \* presses of Ctrl+g

ASSUME OverlaysAssumption ==
    /\ MaxUnasked \in Nat
    /\ MaxPrefix \in Nat

(***************************************************************************)
(* The two orders.                                                         *)
(***************************************************************************)

\* updateInner: the first visible one takes the key.
KeyOrder ==
    << "quitConfirm", "connectFailed", "passphrase", "memberMenu", "statusPicker",
       "picker", "filePicker", "contextMenu", "deleteMsgConfirm", "retireConfirm",
       "leaveConfirm", "leaveRoomConfirm", "saveAttachment", "deleteDMConfirm",
       "deleteGroupConfirm", "deleteRoomConfirm", "auditOverlay", "membersOverlay",
       "lastAdminPicker", "addConfirm", "kickConfirm", "promoteConfirm",
       "demoteConfirm", "transferConfirm", "unverifyConfirm", "deviceRevoked",
       "newDeviceAlert", "roomAttestation", "deviceMgr", "keyWarning", "verify",
       "help", "settings", "addServer", "infoPanel", "pendingPanel", "emojiPicker",
       "newConv", "threadPanel", "quickSwitch", "search" >>

\* viewBody, once there is a client: the first visible one is drawn.
PaintOrder ==
    << "connectFailed", "passphrase", "help", "threadPanel", "quickSwitch", "newConv",
       "emojiPicker", "pendingPanel", "infoPanel", "settings", "addServer", "verify",
       "keyWarning", "deleteMsgConfirm", "retireConfirm", "leaveConfirm",
       "leaveRoomConfirm", "deleteDMConfirm", "deleteGroupConfirm",
       "deleteRoomConfirm", "auditOverlay", "membersOverlay", "lastAdminPicker",
       "addConfirm", "kickConfirm", "promoteConfirm", "demoteConfirm",
       "transferConfirm", "unverifyConfirm", "saveAttachment", "deviceRevoked",
       "newDeviceAlert", "roomAttestation", "deviceMgr", "contextMenu", "memberMenu",
       "picker", "filePicker", "statusPicker", "search" >>

Surfaces == ToSet(KeyOrder)
Panels   == {"input", "sidebar", "messages", "members"}

NoPanel   == "none"       \* focusReturnSet is false
Bare      == "panels"     \* no widget: the panels themselves
Waiting   == "connecting" \* the screen without a client
Nothing   == "nothing"    \* a message that opens no widget

FirstOpen(order, open) ==
    LET up == SelectSeq(order, LAMBDA s : s \in open)
    IN IF up = <<>> THEN Bare ELSE Head(up)

(***************************************************************************)
(* What a key may make each widget do: close itself or not, and the        *)
(* message it posts.  `do` names the handler that will take the message,   *)
(* `arg` the widget or panel it leads to.                                  *)
(***************************************************************************)
Msg(do, arg) == [do |-> do, arg |-> arg]
Quiet        == Msg("quiet", Nothing)

Keeps(m)  == [shuts |-> FALSE, returns |-> FALSE, post |-> m]
Drops(m)  == [shuts |-> TRUE,  returns |-> FALSE, post |-> m]  \* no restoreFocus
Closes(m) == [shuts |-> TRUE,  returns |-> TRUE,  post |-> m]

\* Esc is taken by the App for these four and does not restore the focus.
MenuKeys(choices)  == {Drops(Quiet)} \cup {Closes(m) : m \in choices}
ViewKeys(choices)  == {Closes(Quiet)} \cup {Closes(m) : m \in choices}

Leads(do, surfaces) == {Msg(do, s) : s \in surfaces}

MemberMenuKeys ==
    MenuKeys(Leads("member", {"picker", "newConv", "verify", "unverifyConfirm",
                              "infoPanel"}) \cup {Msg("message", Nothing)})
StatusPickerKeys == MenuKeys({Quiet})
PickerKeys ==
    MenuKeys(Leads("picked", {"infoPanel", "verify", "unverifyConfirm", "addConfirm",
                              "kickConfirm", "promoteConfirm", "demoteConfirm",
                              "transferConfirm", "addServer"})
             \cup {Msg("switch", Nothing), Quiet})
FilePickerKeys == {Closes(Quiet), Closes(Msg("land", "input"))}
MessageActions ==
    Leads("act", {"threadPanel", "emojiPicker", "deleteMsgConfirm", "saveAttachment",
                  "picker"})
ContextMenuKeys ==
    MenuKeys(MessageActions \cup {Msg("land", "input"), Quiet})

\* The dialogs: any answer hides them, the handler of the answer opens
\* nothing, and none restores the focus.
ConfirmKeys    == {Drops(Quiet)}
RetireKeys     == {Drops(Quiet), Drops(Msg("quit", Nothing))}
SaveKeys       == {Drops(Quiet)}
ReadOnlyKeys   == {Drops(Quiet)}
LastAdminKeys  == {Drops(Quiet)}
RevokedKeys    == {Drops(Msg("quit", Nothing))}
AlertKeys      == {Drops(Quiet)}
DeviceMgrKeys  == {Drops(Quiet)}
KeyWarningKeys == {Drops(Msg("quit", Nothing))}
VerifyKeys     == {Drops(Quiet)}
PassphraseKeys == {Drops(Quiet), Drops(Msg("quit", Nothing))}

HelpKeys     == {Closes(Quiet)}
SettingsKeys ==
    ViewKeys({}) \cup {Keeps(m) : m \in Leads("setting", {"addServer", "retireConfirm",
                                                          "deviceMgr"})
                                         \cup {Msg("quit", Nothing)}}
InfoPanelKeys ==
    ViewKeys(Leads("member", {"verify", "unverifyConfirm"})
             \cup Leads("infoKey", {"picker", "kickConfirm", "promoteConfirm",
                                    "demoteConfirm"})
             \cup {Msg("message", Nothing)})
    \cup {Keeps(Msg("message", Nothing))}
PendingKeys     == {Closes(Quiet)}
EmojiPickerKeys == {Closes(Quiet)}
NewConvKeys     == ViewKeys({Msg("create", Nothing)})
ThreadPanelKeys ==
    ViewKeys({Msg("land", "messages"), Msg("land", "input"), Msg("act", "emojiPicker"),
              Msg("act", "picker")})
    \cup {Keeps(Msg("act", "threadPanel"))}
QuickSwitchKeys == ViewKeys({Msg("land", "input")})
SearchKeys      == ViewKeys({}) \cup {Keeps(Msg("jump", "messages"))}
AddServerKeys   == ViewKeys({Msg("switch", Nothing)})

Answers(s) ==
    CASE s = "memberMenu"   -> MemberMenuKeys
      [] s = "statusPicker" -> StatusPickerKeys
      [] s = "picker"       -> PickerKeys
      [] s = "filePicker"   -> FilePickerKeys
      [] s = "contextMenu"  -> ContextMenuKeys
      [] s = "retireConfirm" -> RetireKeys
      [] s = "saveAttachment" -> SaveKeys
      [] s \in {"auditOverlay", "membersOverlay"} -> ReadOnlyKeys
      [] s = "lastAdminPicker" -> LastAdminKeys
      [] s = "deviceRevoked" -> RevokedKeys
      [] s \in {"newDeviceAlert", "roomAttestation"} -> AlertKeys
      [] s = "deviceMgr"    -> DeviceMgrKeys
      [] s = "keyWarning"   -> KeyWarningKeys
      [] s = "verify"       -> VerifyKeys
      [] s = "passphrase"   -> PassphraseKeys
      [] s = "help"         -> HelpKeys
      [] s = "settings"     -> SettingsKeys
      [] s = "infoPanel"    -> InfoPanelKeys
      [] s = "pendingPanel" -> PendingKeys
      [] s = "emojiPicker"  -> EmojiPickerKeys
      [] s = "newConv"      -> NewConvKeys
      [] s = "threadPanel"  -> ThreadPanelKeys
      [] s = "quickSwitch"  -> QuickSwitchKeys
      [] s = "search"       -> SearchKeys
      [] s = "addServer"    -> AddServerKeys
      [] OTHER              -> ConfirmKeys

VARIABLES
    running,     \* the program has not quit
    client,      \* the App holds a client (online or browsing offline)
    open,        \* the visible widgets
    focus,       \* the panel with keyboard focus
    origin,      \* where focus returns to; NoPanel while nothing is recorded
    panel,       \* the member panel is shown
    pinned,      \* the pinned bar is expanded and takes keys
    nav,         \* Ctrl+g was pressed: the next key is a command
    gen,         \* navModeTickGen
    ticks,       \* generations of the reveal ticks in flight
    popup,       \* the which-key pop-up is shown
    posted,      \* the message the loop has yet to handle: at most one, a
                 \* bound; keys that post none are handled ahead of it
    awaited,     \* a conversation being created will take the focus
    piled        \* history: since the panels were last bare, a dialog came
                 \* unasked over another widget or ahead of a posted message,
                 \* or a key was typed ahead of one

screenVars == <<open, focus, origin, piled>>
navVars    == <<nav, gen, ticks, popup>>
restVars   == <<running, client, panel, pinned, awaited>>
vars       == <<screenVars, navVars, restVars, posted>>

Owner   == FirstOpen(KeyOrder, open)

\* quitConfirm goes over the finished frame; without a client only the two
\* connection dialogs are drawn over the waiting screen.
Painted ==
    IF "quitConfirm" \in open THEN "quitConfirm"
    ELSE IF client \/ open \cap {"connectFailed", "passphrase"} # {}
         THEN FirstOpen(PaintOrder, open)
         ELSE Waiting

TypeOK ==
    /\ {running, client, panel, pinned, nav, popup, awaited, piled} \subseteq BOOLEAN
    /\ open \subseteq Surfaces
    /\ focus \in Panels
    /\ origin \in Panels \cup {NoPanel}
    /\ gen \in 0..MaxPrefix
    /\ ticks \subseteq 1..MaxPrefix
    /\ (origin = NoPanel) = (open = {})
    /\ popup => nav

Init ==
    /\ running = TRUE
    /\ client = FALSE
    /\ open = {}
    /\ focus = "input"
    /\ origin = NoPanel
    /\ panel = FALSE
    /\ pinned = FALSE
    /\ nav = FALSE
    /\ gen = 0
    /\ ticks = {}
    /\ popup = FALSE
    /\ posted = Quiet
    /\ awaited = FALSE
    /\ piled = FALSE

(***************************************************************************)
(* Focus.                                                                  *)
(***************************************************************************)

\* The Update wrapper, after every message: `before` is the focus the
\* message found.
Note(came) ==
    /\ origin' = IF open' = {} THEN NoPanel ELSE IF origin = NoPanel THEN focus ELSE origin
    /\ piled' = (open' # {} /\ (piled \/ came))

NoteFocusReturn == Note(FALSE)                          \* a message
NoteKey         == Note(posted # Quiet)                 \* a key
NoteArrival     == Note(open # {} \/ posted # Quiet)    \* a frame, a timer

\* Mutant: every close drops the user in the composer, as ten overlays did
\* before the return rule.
RestoreFocusToComposer == "input"

\* Where a closing overlay puts the focus: a member panel that has closed
\* meanwhile cannot take it.
RestoreFocus == IF origin = "members" /\ ~panel THEN "messages" ELSE origin

NextPanel(f) ==
    CASE f = "input"    -> "sidebar"
      [] f = "sidebar"  -> "messages"
      [] f = "messages" -> IF panel THEN "members" ELSE "input"
      [] f = "members"  -> "input"

PreviousPanel(f) ==
    CASE f = "input"    -> IF panel THEN "members" ELSE "messages"
      [] f = "members"  -> "messages"
      [] f = "messages" -> "sidebar"
      [] f = "sidebar"  -> "input"

\* moveFocus; an edge or a closed member panel moves nothing.
RightOf(f) ==
    CASE f = "sidebar" -> "messages"
      [] f \in {"messages", "input"} /\ panel -> "members"
      [] OTHER -> f

LeftOf(f) ==
    CASE f \in {"messages", "input"} -> "sidebar"
      [] f = "members" -> "messages"
      [] OTHER -> f

(***************************************************************************)
(* Keys: what every handler has in common.                                 *)
(***************************************************************************)

KeyFor(s) ==
    /\ running
    /\ Owner = s

Post(m) ==
    IF m = Quiet THEN UNCHANGED posted ELSE posted = Quiet /\ posted' = m

Show(s) == open' = open \cup {s}

ExitNavMode == nav' = FALSE /\ popup' = FALSE /\ UNCHANGED <<gen, ticks>>

Quit == running' = FALSE

\* Ctrl+C, above every overlay.
CtrlC ==
    /\ running
    /\ Quit
    /\ UNCHANGED <<screenVars, navVars, client, panel, pinned, awaited, posted>>

\* Ctrl+Q opens the dialog over whatever is showing; a repeat is its own key.
CtrlQ ==
    /\ running
    /\ "quitConfirm" \notin open
    /\ Show("quitConfirm")
    /\ NoteKey
    /\ UNCHANGED <<focus, navVars, restVars, posted>>

QuitConfirmKey ==
    /\ KeyFor("quitConfirm")
    /\ \/ Quit /\ open' = open
       \/ open' = open \ {"quitConfirm"} /\ UNCHANGED running
    /\ NoteKey
    /\ UNCHANGED <<focus, navVars, client, panel, pinned, awaited, posted>>

\* Any other widget that owns the key gives one of its answers.
OverlayKey(s) ==
    /\ KeyFor(s)
    /\ s \notin {"quitConfirm", "connectFailed"}
    /\ s = "addServer" => ~nav
    /\ \E answer \in Answers(s) :
          /\ open' = IF answer.shuts THEN open \ {s} ELSE open
          /\ focus' = IF answer.returns THEN RestoreFocus ELSE focus
          /\ Post(answer.post)
    /\ NoteKey
    /\ UNCHANGED <<navVars, restVars>>

\* [r] hides the failure screen and retries, [q] and Esc quit.
ConnectFailedKey ==
    /\ KeyFor("connectFailed") /\ ~nav
    /\ \/ open' = open \ {"connectFailed"} /\ UNCHANGED running
       \/ Quit /\ UNCHANGED open
    /\ NoteKey
    /\ UNCHANGED <<focus, navVars, client, panel, pinned, awaited, posted>>

(***************************************************************************)
(* The Ctrl+g prefix.                                                      *)
(***************************************************************************)

\* Where Ctrl+g reaches enterNavMode: the panels, the failure screen, the
\* add-server form.
TakesPrefix == Owner \in {"connectFailed", "addServer"} \/ (Owner = Bare /\ ~pinned)

EnterNavMode ==
    /\ running
    /\ TakesPrefix /\ ~nav
    /\ gen < MaxPrefix
    /\ nav' = TRUE
    /\ gen' = gen + 1
    /\ ticks' = IF open = {} THEN ticks \cup {gen'} ELSE ticks
    /\ UNCHANGED <<popup, screenVars, restVars, posted>>

\* The delayed reveal: this prefix, still on, and nothing over the panels.
RevealTick(g) ==
    /\ running /\ g \in ticks
    /\ ticks' = ticks \ {g}
    /\ popup' = (popup \/ (nav /\ g = gen /\ open = {}))
    /\ UNCHANGED <<nav, gen, screenVars, restVars, posted>>

\* Clear what a switch to another server clears.  Re-selecting the current
\* one only hides the wizard.
SwitchServer ==
    \/ /\ open' = open \ {"addServer", "filePicker"}
       /\ UNCHANGED <<client, pinned>>
    \/ /\ open' = open \ {"addServer", "filePicker", "connectFailed", "passphrase"}
       /\ client' = FALSE
       /\ pinned' = FALSE

OpenAddServerFromNav ==
    /\ open' = (open \ {"connectFailed"}) \cup {"addServer"}
    /\ UNCHANGED <<client, pinned>>

OpenServerSwitcher ==
    /\ open' = (open \ {"connectFailed", "addServer"}) \cup {"picker"}
    /\ UNCHANGED <<client, pinned>>

\* h, l, j and the digits: the ones that work from the failure screen too.
NavServerKey ==
    /\ running
    /\ TakesPrefix /\ nav
    /\ ExitNavMode
    /\ SwitchServer \/ OpenAddServerFromNav \/ OpenServerSwitcher
    /\ NoteKey
    /\ UNCHANGED <<focus, running, panel, awaited, posted>>

\* Esc, g, or a key with no meaning here.  On the add-server form such a key
\* goes on to the form, which is that form's own step.
NavCancelKey ==
    /\ running
    /\ TakesPrefix /\ nav
    /\ ExitNavMode
    /\ UNCHANGED <<screenVars, restVars, posted>>

\* The rest of the prefix table, from the panels only.
NavOpens(s) == s \in {"newConv", "infoPanel"} => client

NavOpenKey ==
    /\ KeyFor(Bare) /\ nav /\ ~pinned
    /\ ExitNavMode
    /\ \E s \in {"quickSwitch", "newConv", "infoPanel", "settings", "deviceMgr", "search"} :
          NavOpens(s) /\ Show(s)
    /\ NoteKey
    /\ UNCHANGED <<focus, restVars, posted>>

ToggleMemberPanel ==
    /\ KeyFor(Bare) /\ nav /\ ~pinned
    /\ ExitNavMode
    /\ panel' = ~panel
    /\ UNCHANGED <<screenVars, running, client, pinned, awaited, posted>>

(***************************************************************************)
(* The panels.                                                             *)
(***************************************************************************)

PanelKey == KeyFor(Bare) /\ ~pinned /\ ~nav

\* Tab, Shift+Tab, the arrows, q and Esc (back to typing), Down off the last
\* message, Up out of the composer.
FocusKey ==
    /\ PanelKey
    /\ \E f \in {NextPanel(focus), PreviousPanel(focus), RightOf(focus), LeftOf(focus)}
                \cup (IF focus = "input" THEN {"messages"} ELSE {"input"}) :
          focus' = f
    /\ UNCHANGED <<open, origin, piled, navVars, restVars, posted>>

HelpKey ==
    /\ PanelKey /\ focus # "input"
    /\ Show("help")
    /\ NoteKey
    /\ UNCHANGED <<focus, navVars, restVars, posted>>

PinnedToggleKey ==
    /\ PanelKey
    /\ pinned' = TRUE
    /\ UNCHANGED <<screenVars, navVars, running, client, panel, awaited, posted>>

\* The expanded bar takes every key that reaches it: jump, or collapse.
PinnedBarKey ==
    /\ KeyFor(Bare) /\ pinned
    /\ pinned' = FALSE
    /\ \/ Post(Msg("land", "messages"))
       \/ Post(Quiet)
    /\ UNCHANGED <<screenVars, navVars, running, client, panel, awaited>>

\* The message pane: i for info, Enter for the menu, and the shortcuts.
MessagesKey ==
    /\ PanelKey /\ focus = "messages" /\ client
    /\ \/ Show("infoPanel") /\ UNCHANGED posted
       \/ /\ UNCHANGED open
          /\ \E m \in MessageActions \cup {Msg("act", "contextMenu"), Msg("land", "input")} :
                Post(m)
    /\ NoteKey
    /\ UNCHANGED <<focus, navVars, restVars>>

MembersKey ==
    /\ PanelKey /\ focus = "members"
    /\ \E m \in {Msg("member", "memberMenu"), Msg("message", Nothing)} : Post(m)
    /\ UNCHANGED <<screenVars, navVars, restVars>>

\* Committing a conversation lands on the composer.
SidebarKey ==
    /\ PanelKey /\ focus = "sidebar"
    /\ focus' = "input"
    /\ UNCHANGED <<open, origin, piled, navVars, restVars, posted>>

\* Slash commands that open a widget at once; the first three also offline.
SlashOpens(s) ==
    s \in {"help", "search", "infoPanel"} \/
    s \in {"leaveConfirm", "leaveRoomConfirm", "deleteDMConfirm", "deleteGroupConfirm",
           "deleteRoomConfirm", "verify", "unverifyConfirm", "settings", "statusPicker",
           "auditOverlay", "membersOverlay", "filePicker", "picker", "addConfirm",
           "kickConfirm", "promoteConfirm", "demoteConfirm", "transferConfirm"}

SlashCommand ==
    /\ PanelKey /\ focus = "input"
    /\ \E s \in Surfaces :
          /\ SlashOpens(s)
          /\ s \notin {"help", "search"} => client
          /\ Show(s)
    /\ NoteKey
    /\ UNCHANGED <<focus, navVars, restVars, posted>>

\* /members toggles the panel, and unlike the prefix key minds the focus
\* (typed in the composer, it never finds it on the panel).
SlashMembers ==
    /\ PanelKey /\ focus = "input" /\ client
    /\ panel' = ~panel
    /\ UNCHANGED <<screenVars, navVars, running, client, pinned, awaited, posted>>

(***************************************************************************)
(* Messages the loop handles later.                                        *)
(***************************************************************************)

Handle(do) == running /\ posted.do = do /\ posted' = Quiet

\* MemberActionMsg: the info panel and the menu give way to what it opens.
MemberAction ==
    /\ Handle("member")
    /\ posted.arg \in {"newConv", "verify", "infoPanel"} => client
    /\ LET kept == (open \ {"infoPanel"})
                   \ (IF posted.arg = "memberMenu" THEN {} ELSE {"memberMenu"})
       IN open' = kept \cup {posted.arg}
    /\ NoteFocusReturn
    /\ UNCHANGED <<focus, navVars, restVars>>

\* "message": both give way, and the conversation will take the focus.
MemberMessage ==
    /\ Handle("message")
    /\ open' = open \ {"infoPanel", "memberMenu"}
    /\ awaited' = (awaited \/ client)
    /\ NoteFocusReturn
    /\ UNCHANGED <<focus, navVars, running, client, panel, pinned>>

CreateConversation ==
    /\ Handle("create")
    /\ awaited' = (awaited \/ client)
    /\ UNCHANGED <<screenVars, navVars, running, client, panel, pinned>>

\* dm_created / group_created: the composer of the new conversation, unless
\* the intent has expired.
ConversationCreated ==
    /\ running /\ awaited /\ client
    /\ awaited' = FALSE
    /\ focus' \in {focus, "input"}
    /\ UNCHANGED <<open, navVars, running, client, panel, pinned, posted>>
    /\ NoteFocusReturn

\* PickerSelectedMsg and InfoPanelAdminKeyMsg: the next dialog, or none when
\* its check refuses; the wizard hides the failure screen.
Selected ==
    /\ Handle("picked") \/ Handle("infoKey")
    /\ \/ UNCHANGED open
       \/ /\ posted.arg \notin {"verify", "infoPanel"} \/ client
          /\ open' = (IF posted.arg = "addServer" THEN open \ {"connectFailed"} ELSE open)
                     \cup {posted.arg}
    /\ NoteFocusReturn
    /\ UNCHANGED <<focus, navVars, restVars>>

\* Mutant: the dialog opens over Settings, which is drawn in front of it.
SettingsActionOverSettings ==
    /\ Handle("setting")
    /\ Show(posted.arg)
    /\ NoteFocusReturn
    /\ UNCHANGED <<focus, navVars, restVars>>

\* SettingsActionMsg hides Settings first.
SettingsAction ==
    /\ Handle("setting")
    /\ open' = (open \ {"settings"}) \cup {posted.arg}
    /\ NoteFocusReturn
    /\ UNCHANGED <<focus, navVars, restVars>>

\* MessageAction: the widget the action opens.
MessageAction ==
    /\ Handle("act")
    /\ Show(posted.arg)
    /\ NoteFocusReturn
    /\ UNCHANGED <<focus, navVars, restVars>>

\* reply, edit, goto, the quick switch, a pin, a chosen file.
Land ==
    /\ Handle("land")
    /\ focus' = posted.arg
    /\ UNCHANGED <<open, navVars, restVars>>
    /\ NoteFocusReturn

SearchJump ==
    /\ Handle("jump")
    /\ open' = open \ {"search"}
    /\ focus' = posted.arg
    /\ NoteFocusReturn
    /\ UNCHANGED <<navVars, restVars>>

SwitchMsg ==
    /\ Handle("switch")
    /\ SwitchServer
    /\ NoteFocusReturn
    /\ UNCHANGED <<focus, navVars, running, panel, awaited>>

QuitMsg ==
    /\ Handle("quit")
    /\ Quit
    /\ UNCHANGED <<screenVars, navVars, client, panel, pinned, awaited>>

(***************************************************************************)
(* The mouse.                                                              *)
(***************************************************************************)

\* Every widget but one swallows the click; the prefix does too, and ends.
ClickReaches == open \subseteq {"passphrase"}

ClickPanel(p) ==
    /\ running /\ ClickReaches
    /\ \/ nav /\ ExitNavMode /\ UNCHANGED <<focus, pinned>>
       \/ /\ ~nav /\ UNCHANGED navVars
          /\ p = "members" => panel
          /\ focus' \in IF p = "sidebar" THEN {"sidebar", "input"} ELSE {p}
          /\ pinned' \in IF p = "messages" THEN BOOLEAN ELSE {pinned}
    /\ UNCHANGED <<open, running, client, panel, awaited, posted>>
    /\ NoteFocusReturn

(***************************************************************************)
(* What comes unasked.                                                     *)
(***************************************************************************)

Connected ==
    /\ running /\ ~client
    /\ client' = TRUE
    /\ UNCHANGED <<screenVars, navVars, running, panel, pinned, awaited, posted>>

Unbidden == {"deviceRevoked", "newDeviceAlert", "roomAttestation", "lastAdminPicker",
             "pendingPanel", "saveAttachment", "keyWarning"}
Unasked  == Unbidden \cup {"connectFailed", "passphrase"}

Comes(s) ==
    /\ running /\ s \notin open
    /\ Cardinality(open \cap Unasked) < MaxUnasked
    /\ Show(s)
    /\ NoteArrival
    /\ UNCHANGED <<focus, navVars, restVars, posted>>

\* The attempt failed and there is nothing cached to browse.
ConnectFails == ~client /\ Comes("connectFailed")

PassphraseNeeded == ~client /\ Comes("passphrase")

\* The key-change dialog is dropped while one of five others is up.
DropsWarning ==
    open \cap {"keyWarning", "verify", "quitConfirm", "deleteMsgConfirm", "passphrase"} # {}

Arrive(s) ==
    /\ client
    /\ s = "keyWarning" => ~DropsWarning
    /\ Comes(s)

Key ==
    \/ CtrlC \/ CtrlQ \/ QuitConfirmKey \/ ConnectFailedKey
    \/ \E s \in open : OverlayKey(s)
    \/ SlashCommand
    \/ EnterNavMode \/ NavServerKey \/ NavCancelKey \/ NavOpenKey \/ ToggleMemberPanel
    \/ FocusKey \/ HelpKey \/ PinnedToggleKey \/ PinnedBarKey
    \/ MessagesKey \/ MembersKey \/ SidebarKey \/ SlashMembers

Handled ==
    \/ MemberAction \/ MemberMessage \/ CreateConversation \/ Selected
    \/ SettingsAction \/ MessageAction \/ Land \/ SearchJump \/ SwitchMsg \/ QuitMsg

Next ==
    \/ Key
    \/ Handled
    \/ \E p \in Panels : ClickPanel(p)
    \/ \E g \in ticks : RevealTick(g)
    \/ ConversationCreated \/ Connected \/ ConnectFails \/ PassphraseNeeded
    \/ \E s \in Unbidden : Arrive(s)

Spec == Init /\ [][Next]_vars

(***************************************************************************)
(* Properties.                                                             *)
(***************************************************************************)

\* With a client, what is drawn is what takes the key: the two chains of
\* updateInner and viewBody agree on every pile of widgets that menus, pickers
\* and the messages they post build (app.go:1762-2200, 9394-9585).  Not on the
\* piles of ModalOverride: those with a dialog that came unasked on top of
\* another widget, or with a widget opened by a key that was handled before
\* the message of the key before it.
KeysGoToPainted ==
    client /\ ~piled => Painted = Owner

\* Closing the last overlay puts the focus back where it was when the first
\* one opened, or on the pane if that was a member panel since closed; only a
\* jump goes elsewhere (noteFocusReturn and restoreFocus, app.go:414-441).
ClosingReturns ==
    [][ open # {} /\ open' = {} /\ focus = origin /\ posted.do # "jump"
        => focus' = origin \/ (origin = "members" /\ ~panel /\ focus' = "messages") ]_vars

(***************************************************************************)
(* Stated by the code's comments and docs, and not so.                     *)
(***************************************************************************)

\* DESIGN.md:298: "Modal override: When any overlay is open [...], all key
\* presses are intercepted by the overlay."  The overlay the user sees need
\* not be it: after d and ? in quick succession the help screen is open
\* before the message of d is handled, so the delete dialog opens behind it
\* and takes its keys (app.go:1951, 9396).
ModalOverride == client => Painted = Owner

\* app.go:1079-1081: openAddServerFromNav hides the failure screen "so the
\* wizard is not painted behind the failure screen".  Without a client the
\* waiting screen is painted instead of the wizard, which has the keys.
WizardIsPainted == Owner = "addServer" => Painted = "addServer"

\* app.go:4383-4385: "Show the blocking modal unless another modal is already
\* visible; if so, drop this event".  Five modals are looked at; under the
\* others (help, the thread view, Settings) the dialog takes the keys unseen,
\* and d or Esc disconnects and quits.
WarningIsSeen == Owner = "keyWarning" => Painted = "keyWarning"

\* CHANGELOG.md:71: "nav mode now ends on a mapped key (runs + exits),
\* g/esc/ctrl+g (cancel), or any other key / mouse click".  Ctrl+Q's dialog
\* answers its keys above the prefix, which survives them.
NavEndsWithNextKey == [][ nav /\ Key /\ running' => ~nav' ]_vars

\* DESIGN.md:290: FocusMembers is skipped if the member panel is not visible.
\* The prefix key that closes the panel leaves the focus on it.
FocusOnOpenPanel == focus = "members" => panel
=============================================================================
