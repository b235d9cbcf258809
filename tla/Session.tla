------------------------------ MODULE Session ------------------------------
(***************************************************************************)
(* The connection of the terminal client: which server it is talking to,   *)
(* which Client object it holds, and who is responsible for getting it     *)
(* back online (tui/app.go: connect, startConnect, goOnline, goOffline,    *)
(* switchServerByIndex, handleConnectError and the cases of updateInner    *)
(* they answer to; client/client.go: Connect, OpenLocal, Disconnect,       *)
(* Close, keepalive; passphrase.go; connectfailed.go).                     *)
(*                                                                         *)
(* Every connect runs in a goroutine of its own and ends in one message to *)
(* the TUI thread.  By then the user may have switched servers, gone       *)
(* offline or asked again, so each attempt carries the generation connGen  *)
(* it was started in, and a message of a former generation changes         *)
(* nothing.  Back-off timers, passphrase dialogs and the goroutine that    *)
(* waits for server events carry it too; two requests do not: [r] on the   *)
(* failure overlay and the reconnect key.                                  *)
(*                                                                         *)
(* An attempt makes one Client, so a Client is known by the generation of  *)
(* its attempt.  Delays, frames and everything shown are left out; every   *)
(* configured host passes ValidateHost.                                    *)
(***************************************************************************)
EXTENDS Naturals, Sequences, FiniteSets, SequencesExt

CONSTANTS
  Servers,      \* the hosts that may be in config.toml
  Encrypted,    \* those whose key file has a passphrase
  NoServer,     \* no host: the key of a message that carries none
  Configured,   \* config.toml's list of servers at the start
  Ladder,       \* attempts of the initial-connect ladder (4 in the code)
  MaxGen        \* bound: generations

ASSUME SessionAssumption ==
  /\ Encrypted \subseteq Servers
  /\ NoServer \notin Servers
  /\ Configured \in Seq(Servers) /\ Configured # <<>>
  /\ Ladder \in Nat \ {0}
  /\ MaxGen \in Nat \ {0}

Gens     == 1..MaxGen
NoClient == 0

VARIABLES
  servers,      \* appConfig.Servers, in the order of config.toml
  serverIdx,    \* App.serverIdx, counted from 1
  cfg,          \* the host of App.cfg: Host, KeyPath, DataDir
  connGen,      \* App.connGen
  connState,    \* App.connState
  client,       \* App.client, NoClient when it is nil
  initial,      \* App.initialAttempt
  reconnecting, \* App.reconnectAttempt > 0
  attempts,     \* connect goroutines that have not returned
  inbox,        \* messages on their way to Update, in any order
  waits,        \* generations whose waitForMsg goroutine is listening
  overlay,      \* the connect-failed overlay is visible
  dialog,       \* the passphrase dialog: its generation and key
  menu,         \* the server switcher or the add-server wizard is open
  cache,        \* App.passphraseCache
  cl,           \* the Client of each generation
  disk,         \* servers whose database holds last_synced
  dismissed,    \* the overlay of this generation was left for a menu
  stray,        \* an ungenerationed request was honoured while Offline
  running       \* the program has not quit

configVars == <<servers, serverIdx, cfg>>
stateVars  == <<connState, initial, reconnecting>>
screenVars == <<overlay, dialog, menu>>
histVars   == <<dismissed, stray>>
vars == <<configVars, connGen, stateVars, client, attempts, inbox, waits,
          screenVars, cache, cl, disk, histVars, running>>

ConnStates == {"Connecting", "Online", "Offline"}
Passphrases == {"none", "good", "bad"}

(* sock: "down" is a connection that the peer broke or Disconnect ended;   *)
(* store: "closed" is a handle that Close has closed, which the Client     *)
(* still points to; synced: lastSynced is not empty.                       *)
Client == [server: Servers \cup {NoServer},
           sock: {"none", "up", "down"},
           store: {"none", "open", "closed"},
           synced: BOOLEAN]

NewClient(s) == [server |-> s, sock |-> "none", store |-> "none", synced |-> FALSE]

(* pass: the cached passphrase the attempt found; said and known: whether  *)
(* the client_hello named a last_synced, and whether the database of the   *)
(* server held one.                                                        *)
Attempts == [gen: Gens, server: Servers, fallback: BOOLEAN,
             pc: {"start", "dial", "shaken"}, pass: Passphrases,
             said: BOOLEAN, known: BOOLEAN]

MsgTypes == {"connected", "offline", "err", "passphrase_needed", "passphrase",
             "event", "ladder", "backoff", "retry", "reconnect"}

Messages == [type: MsgTypes, gen: 0..MaxGen, key: Servers \cup {NoServer},
             arg: Passphrases \cup {"cancel"}]

Msg(type, g) == [type |-> type, gen |-> g, key |-> NoServer, arg |-> "none"]
Keyed(type, g, s, arg) == [type |-> type, gen |-> g, key |-> s, arg |-> arg]

NoDialog == [gen |-> 0, key |-> NoServer]

TypeOK ==
  /\ servers \in Seq(Servers)
  /\ serverIdx \in 1..Len(servers)
  /\ cfg \in Servers
  /\ connGen \in Gens
  /\ connState \in ConnStates
  /\ client \in 0..MaxGen
  /\ initial \in 0..(Ladder - 1)
  /\ reconnecting \in BOOLEAN
  /\ attempts \subseteq Attempts
  /\ inbox \subseteq Messages
  /\ waits \subseteq Gens
  /\ overlay \in BOOLEAN
  /\ dialog \in [gen: 0..MaxGen, key: Servers \cup {NoServer}]
  /\ menu \in BOOLEAN
  /\ cache \in [Servers -> Passphrases]
  /\ cl \in [Gens -> Client]
  /\ disk \subseteq Servers
  /\ dismissed \in BOOLEAN
  /\ stray \in BOOLEAN
  /\ running \in BOOLEAN

----------------------------------------------------------------------------
(* The Client object.                                                      *)

(* Disconnect: done is closed and the transport with it; the store stays.  *)
Disconnected(k, g) ==
  IF g = NoClient \/ k[g].sock = "none" THEN k ELSE [k EXCEPT ![g].sock = "down"]

(* Close: Disconnect, then store.Close.                                    *)
Closed(k, g) ==
  IF g = NoClient THEN k
  ELSE [Disconnected(k, g) EXCEPT
          ![g].store = IF k[g].store = "open" THEN "closed" ELSE k[g].store]

(* OpenLocal, when it succeeds: last_synced is read only now.              *)
Opened(k, g) ==
  [k EXCEPT ![g].store = "open", ![g].synced = k[g].server \in disk]

HasLocalCache(k, g) == g # NoClient /\ k[g].store # "none" /\ k[g].synced

----------------------------------------------------------------------------
(* The generation.                                                         *)

NewAttempt(g, s, fallback) ==
  [gen |-> g, server |-> s, fallback |-> fallback, pc |-> "start",
   pass |-> "none", said |-> FALSE, known |-> FALSE]

(* Mutant: the attempt reuses the current generation.                      *)
StartConnectUnbumped(s, c) ==
  /\ connGen < MaxGen
  /\ UNCHANGED connGen
  /\ attempts'  = attempts \cup {NewAttempt(connGen, s, c = NoClient)}
  /\ dismissed' = FALSE

(* startConnect with App.client = c: nextConnGen, and a connect that may   *)
(* fall back to the local store only when there is no Client at all.       *)
StartConnect(s, c) ==
  /\ connGen < MaxGen
  /\ connGen'   = connGen + 1
  /\ attempts'  = attempts \cup {NewAttempt(connGen + 1, s, c = NoClient)}
  /\ dismissed' = FALSE

(* handleConnectError, with the Clients k and App.client = c: a session    *)
(* that was online is dialled again after a delay; a first connect with    *)
(* cached history climbs the ladder and then browses offline; without it   *)
(* the overlay asks the user.                                              *)
HandleConnectError(k, c, rest) ==
  IF connState = "Online" \/ reconnecting
  THEN /\ connState'    = "Connecting"
       /\ reconnecting' = TRUE
       /\ inbox' = rest \cup {Msg("backoff", connGen)}
       /\ UNCHANGED <<initial, overlay>>
  ELSE IF HasLocalCache(k, c) /\ initial + 1 < Ladder
  THEN /\ initial'   = initial + 1
       /\ connState' = "Connecting"
       /\ inbox' = rest \cup {Msg("ladder", connGen)}
       /\ UNCHANGED <<reconnecting, overlay>>
  ELSE IF HasLocalCache(k, c)
  THEN /\ initial'   = 0
       /\ connState' = "Offline"
       /\ inbox' = rest
       /\ UNCHANGED <<reconnecting, overlay>>
  ELSE /\ overlay' = TRUE
       /\ inbox' = rest
       /\ UNCHANGED <<connState, initial, reconnecting>>

----------------------------------------------------------------------------
(* The connect goroutine.                                                  *)

Moved(a, b) == attempts' = (attempts \ {a}) \cup {b}
Returns(a, m) == attempts' = attempts \ {a} /\ inbox' = inbox \cup {m}

AttemptVars == <<configVars, connGen, stateVars, client, waits, screenVars,
                 cache, disk, histVars, running>>

(* Mutant: no pre-flight, so loadSSHKey waits for a passphrase nobody is   *)
(* asked for.                                                              *)
PreflightSkipped(a) ==
  /\ a.pc = "start"
  /\ Moved(a, [a EXCEPT !.pc = "dial", !.pass = cache[a.server]])
  /\ cl' = [cl EXCEPT ![a.gen] = NewClient(a.server)]
  /\ UNCHANGED <<inbox, AttemptVars>>

(* The pre-flight: a key file that cannot be read is an error, one with a  *)
(* passphrase nobody has typed yet asks for it, before anything is dialled.*)
Preflight(a) ==
  /\ a.pc = "start"
  /\ \/ /\ cache[a.server] = "none" /\ a.server \in Encrypted
        /\ Returns(a, Keyed("passphrase_needed", a.gen, a.server, "none"))
        /\ UNCHANGED cl
     \/ /\ cache[a.server] = "none"
        /\ Returns(a, Msg("err", a.gen))
        /\ UNCHANGED cl
     \/ /\ cache[a.server] # "none" \/ a.server \notin Encrypted
        /\ Moved(a, [a EXCEPT !.pc = "dial", !.pass = cache[a.server]])
        /\ cl' = [cl EXCEPT ![a.gen] = NewClient(a.server)]
        /\ UNCHANGED inbox
  /\ UNCHANGED AttemptVars

(* loadSSHKey with a cached passphrase that does not open the key.         *)
WrongPassphrase(a) ==
  /\ a.pc = "dial"
  /\ a.server \in Encrypted /\ a.pass = "bad"
  /\ Returns(a, Keyed("passphrase_needed", a.gen, a.server, "none"))
  /\ UNCHANGED <<cl, AttemptVars>>

(* The dial and the handshake: client_hello goes out before OpenLocal.     *)
Handshake(a) ==
  /\ a.pc = "dial"
  /\ a.server \notin Encrypted \/ a.pass = "good"
  /\ Moved(a, [a EXCEPT !.pc = "shaken", !.said = cl[a.gen].synced,
                        !.known = a.server \in disk])
  /\ UNCHANGED <<cl, inbox, AttemptVars>>

(* OpenLocal, the goroutines of the connection, connectedWithClient.  A    *)
(* database that cannot be opened is logged and the connection kept.       *)
ConnectReturns(a) ==
  /\ a.pc = "shaken"
  /\ \E ok \in BOOLEAN :
       cl' = [(IF ok THEN Opened(cl, a.gen) ELSE cl) EXCEPT ![a.gen].sock = "up"]
  /\ Returns(a, Msg("connected", a.gen))
  /\ UNCHANGED AttemptVars

(* The dial or the handshake fails.  Only a TUI without a Client falls     *)
(* back to the local database, and only if that server has synced before;  *)
(* a database opened in vain is not closed.                                *)
DialFails(a) ==
  /\ a.pc = "dial"
  /\ a.server \notin Encrypted \/ a.pass = "good"
  /\ \/ /\ a.fallback
        /\ cl' = Opened(cl, a.gen)
        /\ Returns(a, Msg(IF HasLocalCache(cl', a.gen) THEN "offline" ELSE "err",
                          a.gen))
     \/ /\ Returns(a, Msg("err", a.gen))
        /\ UNCHANGED cl
  /\ UNCHANGED AttemptVars

Attempt == \E a \in attempts :
  Preflight(a) \/ WrongPassphrase(a) \/ Handshake(a) \/ ConnectReturns(a) \/ DialFails(a)

----------------------------------------------------------------------------
(* The goroutines of a live Client.                                        *)

ClientVars == <<configVars, connGen, stateVars, client, attempts, screenVars,
                cache, histVars, running>>

(* readLoop meets the end of the stream and leaves an error in errCh, or   *)
(* keepalive has failed three times and calls Disconnect.                  *)
LinkEnds(g) ==
  /\ cl[g].sock = "up"
  /\ cl' = Disconnected(cl, g)
  /\ UNCHANGED <<inbox, waits, disk, ClientVars>>

(* sync_complete: last_synced, in memory and on disk.                      *)
SyncComplete(g) ==
  /\ cl[g].sock = "up" /\ ~cl[g].synced
  /\ cl'   = [cl EXCEPT ![g].synced = TRUE]
  /\ disk' = IF cl[g].store = "open" THEN disk \cup {cl[g].server} ELSE disk
  /\ UNCHANGED <<inbox, waits, ClientVars>>

(* waitForMsg of generation g returns: with an event of the server or of a *)
(* transfer, or, once the connection has ended, with an error.             *)
WaitReturns(g) ==
  /\ g \in waits
  /\ waits' = waits \ {g}
  /\ \/ inbox' = inbox \cup {Msg("event", g)}
     \/ cl[g].sock # "up" /\ inbox' = inbox \cup {Msg("err", g)}
  /\ UNCHANGED <<cl, disk, ClientVars>>

----------------------------------------------------------------------------
(* Update: the messages.                                                   *)

CurrentUnchecked(type) == {m \in inbox : m.type = type}  \* mutant: no gen check
Current(type) == {m \in inbox : m.type = type /\ m.gen = connGen}

(* Mutant: a superseded connection is dropped and left open.               *)
DropStaleUnclosed(m) ==
  /\ m.gen \notin {0, connGen}
  /\ inbox' = inbox \ {m}
  /\ UNCHANGED <<configVars, connGen, stateVars, client, attempts, waits,
                 screenVars, cache, disk, histVars, running, cl>>

(* Every gen check of updateInner; a Client that comes too late is closed. *)
DropStale(m) ==
  /\ m.gen \notin {0, connGen}
  /\ inbox' = inbox \ {m}
  /\ cl' = IF m.type \in {"connected", "offline"} THEN Closed(cl, m.gen) ELSE cl
  /\ UNCHANGED <<configVars, connGen, stateVars, client, attempts, waits,
                 screenVars, cache, disk, histVars, running>>

(* The Client held before is closed, then the new one takes its place.     *)
Adopt(g) ==
  /\ client' = g
  /\ cl' = IF client # g THEN Closed(cl, client) ELSE cl

(* case connectedWithClient.                                               *)
Connected ==
  \E m \in Current("connected") :
    /\ inbox' = inbox \ {m}
    /\ Adopt(m.gen)
    /\ connState'    = "Online"
    /\ reconnecting' = FALSE
    /\ waits' = waits \cup {connGen}
    /\ UNCHANGED <<configVars, connGen, initial, attempts, screenVars, cache,
                   disk, histVars, running>>

(* case ServerMsg and the seven other events: handled, then listen again.  *)
Event ==
  \E m \in Current("event") :
    /\ inbox' = inbox \ {m}
    /\ waits' = IF client # NoClient THEN waits \cup {connGen} ELSE waits
    /\ UNCHANGED <<configVars, connGen, stateVars, client, attempts, screenVars,
                   cache, cl, disk, histVars, running>>

(* case ErrMsg: nobody listens to the broken connection any more.          *)
Err ==
  \E m \in Current("err") :
    /\ HandleConnectError(cl, client, inbox \ {m})
    /\ UNCHANGED <<configVars, connGen, client, attempts, waits, dialog, menu,
                   cache, cl, disk, histVars, running>>

(* case offlineWithClient: adopt the local-only Client, then as ErrMsg.    *)
OfflineClient ==
  \E m \in Current("offline") :
    /\ Adopt(m.gen)
    /\ HandleConnectError(cl', m.gen, inbox \ {m})
    /\ UNCHANGED <<configVars, connGen, attempts, waits, dialog, menu, cache,
                   disk, histVars, running>>

(* case passphraseNeededMsg.                                               *)
PassphraseNeeded ==
  \E m \in Current("passphrase_needed") :
    /\ inbox' = inbox \ {m}
    /\ dialog' = [gen |-> m.gen, key |-> m.key]
    /\ UNCHANGED <<configVars, connGen, stateVars, client, attempts, waits,
                   overlay, menu, cache, cl, disk, histVars, running>>

(* The process ends, with every goroutine and every handle.                *)
Exit ==
  /\ running' = FALSE
  /\ attempts' = {} /\ inbox' = {} /\ waits' = {}
  /\ client' = NoClient
  /\ cl' = [g \in Gens |-> NewClient(NoServer)]
  /\ UNCHANGED <<configVars, connGen, stateVars, screenVars, cache, disk, histVars>>

(* case PassphraseResultMsg, cancelled.                                    *)
PassphraseCancelled ==
  /\ \E m \in Current("passphrase") : m.arg = "cancel"
  /\ Exit

(* case PassphraseResultMsg, not cancelled.                                *)
PassphraseResult ==
  \E m \in Current("passphrase") :
    /\ m.arg # "cancel"
    /\ inbox' = inbox \ {m}
    /\ cache' = [cache EXCEPT ![m.key] = m.arg]
    /\ StartConnect(cfg, client)
    /\ UNCHANGED <<configVars, stateVars, client, waits, screenVars, cl, disk,
                   stray, running>>

(* case initialRetryMsg and case reconnectAttemptMsg.                      *)
Timer ==
  \E m \in Current("ladder") \cup Current("backoff") :
    /\ inbox' = inbox \ {m}
    /\ StartConnect(cfg, client)
    /\ UNCHANGED <<configVars, stateVars, client, waits, screenVars, cache, cl,
                   disk, stray, running>>

(* case ConnectFailedRetryMsg, which carries no generation.                *)
Retry ==
  \E m \in inbox :
    /\ m.type = "retry"
    /\ inbox' = inbox \ {m}
    /\ StartConnect(cfg, client)
    /\ stray' = (stray \/ connState = "Offline")
    /\ UNCHANGED <<configVars, stateVars, client, waits, screenVars, cache, cl,
                   disk, running>>

(* case RefreshRequestMsg "reconnect", which carries none either: the      *)
(* Client is closed, its store too, and stays App.client until the next.   *)
Reconnect ==
  \E m \in inbox :
    /\ m.type = "reconnect"
    /\ inbox' = inbox \ {m}
    /\ \/ /\ client = NoClient
          /\ UNCHANGED <<cl, connGen, attempts, histVars>>
       \/ /\ client # NoClient
          /\ cl' = Closed(cl, client)
          /\ StartConnect(cfg, client)
          /\ stray' = (stray \/ connState = "Offline")
    /\ UNCHANGED <<configVars, stateVars, client, waits, screenVars, cache,
                   disk, running>>

----------------------------------------------------------------------------
(* Update: the keys.  The overlay takes them first, then the dialog, then  *)
(* the menus; the overlay and the wizard let the server keys through.      *)

Chat == ~overlay /\ dialog = NoDialog /\ ~menu

(* goOnline, from Offline by a key or a command, from Connecting by the    *)
(* /online command only; it replaces the attempt that is running.          *)
GoOnline ==
  /\ Chat /\ connState # "Online"
  /\ initial' = 0
  /\ reconnecting' = FALSE
  /\ connState' = "Connecting"
  /\ stray' = FALSE
  /\ StartConnect(cfg, client)
  /\ UNCHANGED <<configVars, client, inbox, waits, screenVars, cache, cl, disk,
                 running>>

(* Mutant: going offline leaves the generation alone.                      *)
GoOfflineUnbumped ==
  /\ Chat /\ connState # "Offline"
  /\ cl' = Disconnected(cl, client)
  /\ initial' = 0
  /\ reconnecting' = FALSE
  /\ connState' = "Offline"
  /\ UNCHANGED <<configVars, connGen, client, attempts, inbox, waits, screenVars,
                 cache, disk, histVars, running>>

(* goOffline: the store stays open.                                        *)
GoOffline ==
  /\ Chat /\ connState # "Offline"
  /\ connGen < MaxGen
  /\ connGen' = connGen + 1
  /\ cl' = Disconnected(cl, client)
  /\ initial' = 0
  /\ reconnecting' = FALSE
  /\ connState' = "Offline"
  /\ UNCHANGED <<configVars, client, attempts, inbox, waits, screenVars, cache,
                 disk, histVars, running>>

(* Ctrl+g r while Online; Offline it is goOnline, Connecting it is inert.  *)
PressReconnect ==
  /\ Chat /\ connState = "Online" /\ client # NoClient
  /\ inbox' = inbox \cup {Msg("reconnect", 0)}
  /\ UNCHANGED <<configVars, connGen, stateVars, client, attempts, waits,
                 screenVars, cache, cl, disk, histVars, running>>

(* [r] on the overlay.                                                     *)
PressRetry ==
  /\ overlay
  /\ overlay' = FALSE
  /\ inbox' = inbox \cup {Msg("retry", 0)}
  /\ UNCHANGED <<configVars, connGen, stateVars, client, attempts, waits,
                 dialog, menu, cache, cl, disk, histVars, running>>

(* Enter or Esc in the passphrase dialog; "none" is an empty line.         *)
TypePassphrase(arg) ==
  /\ dialog # NoDialog /\ ~overlay
  /\ dialog' = NoDialog
  /\ inbox' = inbox \cup {Keyed("passphrase", dialog.gen, dialog.key, arg)}
  /\ UNCHANGED <<configVars, connGen, stateVars, client, attempts, waits,
                 overlay, menu, cache, cl, disk, histVars, running>>

(* openServerSwitcher, openAddServerFromNav: the overlay makes room.       *)
OpenMenu ==
  /\ overlay \/ Chat
  /\ menu' = TRUE
  /\ overlay' = FALSE
  /\ dismissed' = (dismissed \/ overlay)
  /\ UNCHANGED <<configVars, connGen, stateVars, client, attempts, inbox, waits,
                 dialog, cache, cl, disk, stray, running>>

CloseMenu ==
  /\ menu /\ ~overlay /\ dialog = NoDialog
  /\ menu' = FALSE
  /\ UNCHANGED <<configVars, connGen, stateVars, client, attempts, inbox, waits,
                 overlay, dialog, cache, cl, disk, histVars, running>>

(* switchServerByIndexInternal, past its early return.                     *)
Switch(list, i) ==
  /\ servers' = list /\ serverIdx' = i /\ cfg' = list[i]
  /\ StartConnect(list[i], NoClient)
  /\ cl' = Closed(cl, client)
  /\ client' = NoClient
  /\ initial' = 0 /\ reconnecting' = FALSE /\ connState' = "Connecting"
  /\ overlay' = FALSE /\ dialog' = NoDialog /\ menu' = FALSE
  /\ stray' = FALSE
  /\ UNCHANGED <<inbox, waits, cache, disk, running>>

(* A server key, or a row of the switcher; the current server only closes  *)
(* the menu.                                                               *)
SwitchServer(i) ==
  /\ i \in DOMAIN servers
  /\ dialog = NoDialog \/ overlay
  /\ IF i = serverIdx
     THEN /\ menu' = FALSE
          /\ UNCHANGED <<configVars, connGen, stateVars, client, attempts, inbox,
                         waits, overlay, dialog, cache, cl, disk, histVars, running>>
     ELSE Switch(servers, i)

(* case AddServerMsg: appended to the list, then switched to by force.     *)
AddServer(s) ==
  /\ menu /\ ~overlay /\ dialog = NoDialog
  /\ ~Contains(servers, s)
  /\ Switch(Append(servers, s), Len(servers) + 1)

(* remove_server in the settings, of another server: its data goes with it.*)
RemoveServer(i) ==
  /\ Chat /\ i \in DOMAIN servers \ {serverIdx}
  /\ servers' = RemoveAt(servers, i)
  /\ serverIdx' = IF i < serverIdx THEN serverIdx - 1 ELSE serverIdx
  /\ disk' = disk \ {servers[i]}
  /\ UNCHANGED <<cfg, connGen, stateVars, client, attempts, inbox, waits,
                 screenVars, cache, cl, histVars, running>>

(* Ctrl+C, the quit dialog, a revoked device, a key warning, a retired     *)
(* account, the removal of the current server.                             *)
Quit == Exit

----------------------------------------------------------------------------
(* New and Init: generation 1 is being dialled, with the local fallback.   *)
Init ==
  /\ servers = Configured
  /\ serverIdx = 1
  /\ cfg = servers[1]
  /\ connGen = 1
  /\ connState = "Connecting"
  /\ client = NoClient
  /\ initial = 0 /\ reconnecting = FALSE
  /\ attempts = {NewAttempt(1, cfg, TRUE)}
  /\ inbox = {} /\ waits = {}
  /\ overlay = FALSE /\ dialog = NoDialog /\ menu = FALSE
  /\ cache = [s \in Servers |-> "none"]
  /\ cl = [g \in Gens |-> NewClient(NoServer)]
  /\ disk \in SUBSET Servers
  /\ dismissed = FALSE /\ stray = FALSE
  /\ running = TRUE

Goroutines ==
  \/ Attempt
  \/ \E g \in Gens : LinkEnds(g) \/ SyncComplete(g) \/ WaitReturns(g)

Update ==
  \/ \E m \in inbox : DropStale(m)
  \/ Connected \/ Event \/ Err \/ OfflineClient
  \/ PassphraseNeeded \/ PassphraseResult \/ PassphraseCancelled
  \/ Timer \/ Retry \/ Reconnect

Keys ==
  \/ GoOnline \/ GoOffline \/ PressReconnect \/ PressRetry
  \/ \E arg \in Passphrases \cup {"cancel"} : TypePassphrase(arg)
  \/ OpenMenu \/ CloseMenu
  \/ \E i \in 1..Cardinality(Servers) : SwitchServer(i) \/ RemoveServer(i)
  \/ \E s \in Servers : AddServer(s)
  \/ Quit

Next == running /\ (Goroutines \/ Update \/ Keys)

(* A goroutine that can go on does: the dial and every timer end, and the  *)
(* server answers a handshake it has begun; Update takes every message.    *)
Fairness ==
  /\ WF_vars(running /\ Attempt)
  /\ WF_vars(running /\ Update)
  /\ \A g \in Gens : WF_vars(running /\ WaitReturns(g))

Spec == Init /\ [][Next]_vars /\ Fairness
----------------------------------------------------------------------------
(* Properties.                                                             *)

(* What will decide the fate of the current generation: its attempt, a     *)
(* message of it, the goroutine that listens, the passphrase dialog.       *)
Drivers ==
  Cardinality({a \in attempts : a.gen = connGen})
    + Cardinality({m \in inbox : m.gen = connGen})
    + Cardinality(waits \cap {connGen})
    + (IF dialog.gen = connGen THEN 1 ELSE 0)

(* The Client in use talks to, and stores for, the server the user has     *)
(* chosen, which is the one the server list calls current, however late an *)
(* attempt for another server comes back (app.go:4127-4137).               *)
CurrentServerOnly ==
  /\ servers[serverIdx] = cfg
  /\ client # NoClient => cl[client].server = cfg

(* A live connection or an open database belongs to the Client in use, to  *)
(* an attempt under way or to a result the TUI has not seen: none leaks.   *)
(* The exception is the database DialFails opens in vain (app.go:1322).    *)
NothingLeaks ==
  running =>
    \A g \in Gens :
      (cl[g].store = "open" \/ cl[g].sock = "up") =>
        \/ g = client
        \/ \E a \in attempts : a.gen = g
        \/ \E m \in inbox : m.gen = g /\ m.type \in {"connected", "offline"}
        \/ cl[g].sock = "none" /\ ~cl[g].synced

(* Never two ladders, two listeners or a listener and a timer for one      *)
(* generation: at most one thing decides (app.go:1008-1016, 1336-1349).    *)
OneDriver == Drivers <= 1

(* Online or Connecting, something will still happen without the user, or  *)
(* the screen asks for a decision, or an ungenerationed request is due.    *)
(* The exception: the overlay was left for a menu, which nothing replaces. *)
NoWedge ==
  running /\ connState # "Offline" =>
    \/ Drivers = 1 \/ overlay \/ dismissed
    \/ \E m \in inbox : m.gen = 0

(* One thing decides, never two, and while the user has to wait not none.  *)
DrivenOnce == OneDriver /\ NoWedge

(* Offline is the user's choice or the ladder's end, and stays so: nothing *)
(* of the current generation is dialling or due (app.go:738-742), unless a *)
(* retry or a reconnect asked for earlier was handled after going offline. *)
OfflineIsQuiet == connState = "Offline" => Drivers = 0 \/ stray

(* No generation is stuck: while the TUI says it is connecting, either the *)
(* generation ends or the screen shows what the user has to do.            *)
GenerationEnds ==
  \A g \in Gens :
    (running /\ connGen = g /\ connState = "Connecting") ~>
      \/ connGen # g \/ connState # "Connecting" \/ ~running \/ g = MaxGen
      \/ overlay \/ dialog # NoDialog \/ dismissed

(* The client_hello names the last sync this device knows of (DESIGN.md    *)
(* 325, "to populate the client_hello LastSyncedAt field").                *)
HelloSaysLastSync == \A a \in attempts : a.pc = "shaken" => a.said = a.known

(* The Client held through a reconnect still has its store open (app.go    *)
(* 572-573, "already holds a client with an open store").                  *)
HeldStoreIsOpen == client # NoClient => cl[client].store # "closed" \/ ~running
============================================================================
