---------------------------- MODULE SessionProofs ---------------------------
(***************************************************************************)
(* Theorems of Session, for any servers, keys with a passphrase, ladder    *)
(* and number of generations, from SessionAssumption.  The argument: a     *)
(* generation has one thing that decides it at a time (Unique), which each *)
(* step hands on to the next, and a Client changes hands with it, so       *)
(* whatever comes back late is of a former generation and is closed.       *)
(***************************************************************************)
EXTENDS Session, SequenceTheorems, FiniteSetTheorems, TLAPS

(* The two messages that hand a Client to the TUI.                         *)
Results == {"connected", "offline"}

(* The kinds of the variables, in groups, with the half of                 *)
(* CurrentServerOnly that is about config.toml.                            *)
ConfigTypes ==
  /\ servers \in Seq(Servers) /\ serverIdx \in 1..Len(servers)
  /\ cfg \in Servers /\ servers[serverIdx] = cfg

(* See ConfigTypes.                                                        *)
ScreenTypes ==
  /\ connState \in ConnStates /\ initial \in 0..(Ladder - 1)
  /\ reconnecting \in BOOLEAN /\ overlay \in BOOLEAN /\ menu \in BOOLEAN
  /\ dismissed \in BOOLEAN /\ stray \in BOOLEAN /\ running \in BOOLEAN
  /\ cache \in [Servers -> Passphrases] /\ disk \subseteq Servers

(* See ConfigTypes.                                                        *)
WorkTypes ==
  /\ connGen \in Gens /\ client \in 0..MaxGen
  /\ attempts \subseteq Attempts /\ inbox \subseteq Messages /\ waits \subseteq Gens
  /\ dialog \in [gen : 0..MaxGen, key : Servers \cup {NoServer}]
  /\ cl \in [Gens -> Client]

(* Of one generation there is one attempt, one message, one listener or    *)
(* one dialog, never two of them.                                          *)
Unique ==
  /\ \A a, b \in attempts : a.gen = b.gen => a = b
  /\ \A m, n \in inbox : m.gen = n.gen => m = n \/ m.gen = 0
  /\ \A a \in attempts, m \in inbox : a.gen # m.gen
  /\ \A a \in attempts : a.gen \notin waits /\ a.gen # dialog.gen
  /\ \A m \in inbox : m.gen \notin waits /\ (m.gen = 0 \/ m.gen # dialog.gen)
  /\ dialog.gen \notin waits

(* Nothing belongs to a generation that has not begun; the two requests    *)
(* without a generation are known by that.                                 *)
Past ==
  /\ \A a \in attempts : a.gen <= connGen
  /\ \A m \in inbox : m.gen <= connGen /\ (m.gen = 0 <=> m.type \in {"retry", "reconnect"})
  /\ \A g \in waits : g <= connGen
  /\ dialog.gen <= connGen /\ (dialog.gen = 0 => dialog = NoDialog)
  /\ client <= connGen

(* A Client belongs to the server of its attempt, is fresh while it is     *)
(* dialled, and the one in use is for the chosen server.                   *)
ClientInv ==
  /\ client # NoClient => cl[client].server = cfg
  /\ \A a \in attempts :
       /\ a.gen # client
       /\ a.gen = connGen => a.server = cfg
       /\ cl[a.gen] = NewClient(IF a.pc = "start" THEN NoServer ELSE a.server)
  /\ \A g \in Gens : /\ g > connGen => cl[g] = NewClient(NoServer)
                     /\ cl[g].sock # "none" => cl[g].server \in Servers

(* A result on its way is not in use yet; one of the present generation is *)
(* for the chosen server; events come to a TUI that holds a Client.        *)
InboxInv ==
  /\ \A m \in inbox :
       /\ m.type \in Results => m.gen # client
       /\ m.type \in Results /\ m.gen = connGen => cl[m.gen].server = cfg
       /\ m.type = "event" /\ m.gen = connGen => client # NoClient
  /\ connGen \in waits => client # NoClient

(* Something decides the fate of the present generation.                   *)
Driven ==
  \/ \E a \in attempts : a.gen = connGen
  \/ \E m \in inbox : m.gen = connGen
  \/ connGen \in waits
  \/ dialog.gen = connGen

(* DrivenOnce and OfflineIsQuiet in terms of Driven; of the requests       *)
(* without a generation only [r] can be all that is left.                  *)
DrivenInv ==
  /\ running /\ connState # "Offline" =>
       Driven \/ overlay \/ dismissed \/ \E m \in inbox : m.type = "retry"
  /\ connState = "Offline" => ~Driven \/ stray

(* The inductive invariant.                                                *)
IInv ==
  /\ ConfigTypes /\ ScreenTypes /\ WorkTypes
  /\ Unique /\ Past /\ ClientInv /\ InboxInv /\ DrivenInv /\ NothingLeaks

-----------------------------------------------------------------------------
(* What RemoveAt leaves of the server list, and where.                     *)
LEMMA Removed ==
  ASSUME NEW S, NEW s \in Seq(S), NEW i \in 1..Len(s)
  PROVE  /\ RemoveAt(s, i) \in Seq(S) /\ Len(RemoveAt(s, i)) = Len(s) - 1
         /\ \A k \in 1..Len(s) - 1 :
              RemoveAt(s, i)[k] = IF k < i THEN s[k] ELSE s[k + 1]
<1> DEFINE p == SubSeq(s, 1, i - 1)
           q == SubSeq(s, i + 1, Len(s))
<1>1. /\ p \in Seq(S) /\ Len(p) = i - 1
      /\ \A k \in 1..i - 1 : p[k] = s[k]
  OBVIOUS
<1>2. /\ q \in Seq(S) /\ Len(q) = Len(s) - i
      /\ \A k \in 1..Len(s) - i : q[k] = s[k + i]
  OBVIOUS
<1>3. RemoveAt(s, i) = p \o q
  BY DEF RemoveAt
<1> HIDE DEF p, q
<1>4. /\ p \o q \in Seq(S) /\ Len(p \o q) = Len(p) + Len(q)
      /\ \A k \in 1..Len(p) + Len(q) :
           (p \o q)[k] = IF k <= Len(p) THEN p[k] ELSE q[k - Len(p)]
  BY <1>1, <1>2, ConcatProperties
<1>5. ASSUME NEW k \in 1..Len(s) - 1
      PROVE  RemoveAt(s, i)[k] = IF k < i THEN s[k] ELSE s[k + 1]
  <2>0. k \in 1..Len(p) + Len(q) /\ (k <= Len(p) <=> k < i)
    BY <1>1, <1>2
  <2>1. CASE k < i
    BY <1>1, <1>3, <1>4, <2>0, <2>1
  <2>2. CASE ~(k < i)
    <3>1. k - Len(p) \in 1..Len(s) - i /\ (k - Len(p)) + i = k + 1
      BY <1>1, <2>2
    <3> QED BY <1>2, <1>3, <1>4, <2>0, <2>2, <3>1
  <2> QED BY <2>1, <2>2
<1> QED BY <1>1, <1>2, <1>3, <1>4, <1>5

(* The messages, attempts and Clients the program makes.                   *)
LEMMA AMessage ==
  ASSUME NEW t \in MsgTypes, NEW g \in 0..MaxGen
  PROVE  Msg(t, g) \in Messages /\ Msg(t, g).type = t /\ Msg(t, g).gen = g
BY DEF Msg, Messages, Passphrases

(* See AMessage.                                                           *)
LEMMA AKeyedMessage ==
  ASSUME NEW t \in MsgTypes, NEW g \in 0..MaxGen, NEW s \in Servers \cup {NoServer},
         NEW arg \in Passphrases \cup {"cancel"}
  PROVE  Keyed(t, g, s, arg) \in Messages /\ Keyed(t, g, s, arg).type = t /\ Keyed(t, g, s, arg).gen = g
BY DEF Keyed, Messages

(* See AMessage.                                                           *)
LEMMA AnAttempt ==
  ASSUME NEW g \in Gens, NEW s \in Servers, NEW f \in BOOLEAN
  PROVE  /\ NewAttempt(g, s, f) \in Attempts /\ NewAttempt(g, s, f).gen = g
         /\ NewAttempt(g, s, f).server = s /\ NewAttempt(g, s, f).pc = "start"
BY DEF NewAttempt, Attempts, Passphrases

(* See AMessage.                                                           *)
LEMMA AClient ==
  ASSUME NEW s \in Servers \cup {NoServer}
  PROVE  /\ NewClient(s) \in Client /\ NewClient(s).server = s
         /\ NewClient(s).sock = "none" /\ NewClient(s).store = "none" /\ NewClient(s).synced = FALSE
BY DEF NewClient, Client

(* What Disconnect does to a Client.                                       *)
LEMMA Severed ==
  ASSUME NEW k \in [Gens -> Client], NEW g \in 0..MaxGen
  PROVE  /\ Disconnected(k, g) \in [Gens -> Client]
         /\ \A x \in Gens : x # g => Disconnected(k, g)[x] = k[x]
         /\ g \in Gens => /\ Disconnected(k, g)[g].server = k[g].server
                          /\ Disconnected(k, g)[g].store = k[g].store
                          /\ Disconnected(k, g)[g].synced = k[g].synced
                          /\ Disconnected(k, g)[g].sock # "up"
                          /\ k[g].sock = "none" => Disconnected(k, g)[g] = k[g]
BY DEF Disconnected, Client, NoClient, Gens

(* What Close does to a Client.                                            *)
LEMMA Shut ==
  ASSUME NEW k \in [Gens -> Client], NEW g \in 0..MaxGen
  PROVE  /\ Closed(k, g) \in [Gens -> Client]
         /\ \A x \in Gens : x # g => Closed(k, g)[x] = k[x]
         /\ g \in Gens => /\ Closed(k, g)[g].server = k[g].server
                          /\ Closed(k, g)[g].store # "open"
                          /\ Closed(k, g)[g].sock # "up"
                          /\ k[g].sock = "none" => Closed(k, g)[g].sock = "none"
<1>1. CASE g = NoClient
  BY <1>1, SessionAssumption DEF Closed, NoClient, Gens
<1>2. CASE g # NoClient
  <2>1. g \in Gens
    BY <1>2, SessionAssumption DEF NoClient, Gens
  <2> DEFINE d == Disconnected(k, g)
  <2>2. Closed(k, g) = [d EXCEPT ![g].store = IF k[g].store = "open" THEN "closed" ELSE k[g].store]
    BY <1>2 DEF Closed
  <2>3. /\ d \in [Gens -> Client] /\ \A x \in Gens : x # g => d[x] = k[x]
        /\ d[g].server = k[g].server /\ d[g].sock # "up" /\ d[g].store = k[g].store
        /\ k[g].sock = "none" => d[g].sock = "none"
    BY <2>1, Severed
  <2> HIDE DEF d
  <2>4. k[g].store \in {"none", "open", "closed"}
    BY <2>1 DEF Client
  <2> QED BY <2>1, <2>2, <2>3, <2>4 DEF Client
<1> QED BY <1>1, <1>2

(* A Client whose lastSynced is set, or not.                               *)
Stamped(k, g, b) == [k EXCEPT ![g].synced = b]

(* See Stamped.                                                            *)
LEMMA Noted ==
  ASSUME NEW k \in [Gens -> Client], NEW g \in Gens, NEW b \in BOOLEAN
  PROVE  /\ Stamped(k, g, b) \in [Gens -> Client]
         /\ \A x \in Gens : x # g => Stamped(k, g, b)[x] = k[x]
         /\ Stamped(k, g, b)[g].server = k[g].server
         /\ Stamped(k, g, b)[g].sock = k[g].sock
         /\ Stamped(k, g, b)[g].store = k[g].store
<1> DEFINE r == [k[g] EXCEPT !.synced = b]
<1>1. k[g] \in Client
  OBVIOUS
<1>2. r \in Client
  BY <1>1, Zenon DEF Client
<1>3. r.server = k[g].server /\ r.sock = k[g].sock /\ r.store = k[g].store
  BY <1>1 DEF Client
<1>4. Stamped(k, g, b) = [k EXCEPT ![g] = r]
  BY DEF Stamped
<1> HIDE DEF r
<1> QED BY <1>2, <1>3, <1>4

(* What OpenLocal does to a Client.                                        *)
LEMMA Unsealed ==
  ASSUME NEW k \in [Gens -> Client], NEW g \in Gens
  PROVE  /\ Opened(k, g) \in [Gens -> Client]
         /\ \A x \in Gens : x # g => Opened(k, g)[x] = k[x]
         /\ Opened(k, g)[g].server = k[g].server /\ Opened(k, g)[g].sock = k[g].sock
         /\ Opened(k, g)[g].store = "open"
<1> DEFINE b  == k[g].server \in disk
           k1 == [k EXCEPT ![g].store = "open"]
<1>1. k1 \in [Gens -> Client] /\ k1[g] = [k[g] EXCEPT !.store = "open"]
  BY DEF Client
<1>2. \A x \in Gens : x # g => k1[x] = k[x]
  OBVIOUS
<1>3. Opened(k, g) = [k1 EXCEPT ![g].synced = b]
  BY DEF Opened
<1>4. b \in BOOLEAN
  OBVIOUS
<1> HIDE DEF b, k1
<1>5. PICK x \in BOOLEAN : x = b
  BY <1>4
<1>6. /\ k[g] \in Client /\ k1[g] \in Client
      /\ k1[g].server = k[g].server /\ k1[g].sock = k[g].sock /\ k1[g].store = "open"
  BY <1>1 DEF Client
<1>7. Opened(k, g) = Stamped(k1, g, x)
  BY <1>3, <1>5 DEF Stamped
<1>8. \A f \in [Gens -> Client], c \in BOOLEAN :
         /\ Stamped(f, g, c) \in [Gens -> Client]
         /\ \A y \in Gens : y # g => Stamped(f, g, c)[y] = f[y]
         /\ Stamped(f, g, c)[g].server = f[g].server
         /\ Stamped(f, g, c)[g].sock = f[g].sock
         /\ Stamped(f, g, c)[g].store = f[g].store
  BY Noted
<1>9. k1 \in [Gens -> Client] /\ \A y \in Gens : y # g => k1[y] = k[y]
  BY <1>1, <1>2
<1>10. /\ Opened(k, g) \in [Gens -> Client]
         /\ \A y \in Gens : y # g => Opened(k, g)[y] = k1[y]
  BY <1>7, <1>8, <1>9
<1>11. /\ Opened(k, g)[g].server = k1[g].server
         /\ Opened(k, g)[g].sock = k1[g].sock
         /\ Opened(k, g)[g].store = k1[g].store
  BY <1>7, <1>8, <1>9
<1> QED BY <1>6, <1>9, <1>10, <1>11

-----------------------------------------------------------------------------
(* connGen names one thing at most: Drivers counts whether there is one.   *)
(* Drivers is one or none: Unique, counted.                                *)
LEMMA Count ==
  ASSUME WorkTypes, Unique
  PROVE  Drivers = IF Driven THEN 1 ELSE 0
<1> DEFINE A == {a \in attempts : a.gen = connGen}
           M == {m \in inbox : m.gen = connGen}
           W == waits \cap {connGen}
<1>1. connGen \in Nat /\ connGen # 0
  BY SessionAssumption DEF WorkTypes, Gens
<1>2. A = {} \/ \E a \in attempts : A = {a} /\ a.gen = connGen
  BY DEF Unique
<1>3. M = {} \/ \E m \in inbox : M = {m} /\ m.gen = connGen
  BY <1>1 DEF Unique
<1>4. W = {} \/ (W = {connGen} /\ connGen \in waits)
  <2>1. CASE connGen \in waits
    BY <2>1
  <2>2. CASE connGen \notin waits
    <3>1. \A g \in waits : g # connGen
      BY <2>2
    <3>2. W = {}
      BY <3>1
    <3> QED BY <3>2
  <2> QED BY <2>1, <2>2
<1>5. /\ A # {} => M = {} /\ W = {} /\ dialog.gen # connGen
      /\ M # {} => W = {} /\ dialog.gen # connGen
      /\ W # {} => dialog.gen # connGen
  BY <1>1 DEF Unique
<1>6. Driven <=> A # {} \/ M # {} \/ W # {} \/ dialog.gen = connGen
  BY DEF Driven
<1>7. /\ Cardinality(A) = IF A = {} THEN 0 ELSE 1
      /\ Cardinality(M) = IF M = {} THEN 0 ELSE 1
      /\ Cardinality(W) = IF W = {} THEN 0 ELSE 1
  <2>1. \A x : Cardinality({x}) = 1
    BY FS_Singleton
  <2>2. Cardinality({}) = 0
    BY FS_EmptySet
  <2> QED BY <1>2, <1>3, <1>4, <2>1, <2>2
<1>8. Drivers = Cardinality(A) + Cardinality(M) + Cardinality(W)
                  + (IF dialog.gen = connGen THEN 1 ELSE 0)
  BY DEF Drivers
<1> HIDE DEF A, M, W
<1> QED BY <1>5, <1>6, <1>7, <1>8

-----------------------------------------------------------------------------
(* Generations count from one; none is the number of no Client.            *)
LEMMA Numbers ==
  /\ MaxGen \in Nat /\ MaxGen >= 1 /\ NoClient \notin Gens
  /\ \A g : g \in Gens <=> g \in 0..MaxGen /\ g # NoClient
  /\ \A g \in Gens : g \in Nat /\ g # 0
BY SessionAssumption DEF Gens, NoClient

(* startConnect, wherever it is called from: a new generation, which the   *)
(* one attempt decides.                                                    *)
LEMMA Started ==
  ASSUME IInv, NEW s \in Servers, NEW c, StartConnect(s, c),
         waits' = waits, dialog' \in {dialog, NoDialog},
         inbox' \subseteq inbox, \A m \in inbox : m \notin inbox' => m.type \notin Results,
         cl' = cl \/ cl' = Closed(cl, client), cfg' = s,
         \/ client' = client /\ cfg' = cfg
         \/ client' = NoClient /\ cl' = Closed(cl, client),
         connState' = "Offline" => stray'
  PROVE  /\ WorkTypes' /\ Unique' /\ Past' /\ ClientInv' /\ InboxInv' /\ DrivenInv'
         /\ running' = running => NothingLeaks'
<1> DEFINE n == NewAttempt(connGen + 1, s, c = NoClient)
<1>1. /\ connGen < MaxGen /\ connGen' = connGen + 1
      /\ attempts' = attempts \cup {n} /\ dismissed' = FALSE
  BY DEF StartConnect
<1>2. /\ connGen \in Nat /\ connGen + 1 \in Gens /\ connGen + 1 \notin {0, connGen}
      /\ \A g \in 0..MaxGen : g <= connGen => g <= connGen + 1 /\ g # connGen + 1
  BY <1>1, Numbers DEF IInv, WorkTypes, Gens
<1>3. n \in Attempts /\ n.gen = connGen + 1 /\ n.server = s /\ n.pc = "start"
  <2>1. PICK b \in BOOLEAN : b = (c = NoClient)
    OBVIOUS
  <2> QED BY <1>2, <2>1, AnAttempt
<1> HIDE DEF n
<1>4. /\ \A a \in attempts : a.gen \in Gens /\ a.gen \in 0..MaxGen /\ a.gen <= connGen
      /\ \A m \in inbox : m.gen \in 0..MaxGen /\ m.gen <= connGen
      /\ \A g \in waits : g \in 0..MaxGen /\ g <= connGen
      /\ dialog.gen \in 0..MaxGen /\ dialog.gen <= connGen
      /\ client \in 0..MaxGen /\ client <= connGen
  BY Numbers DEF IInv, WorkTypes, Past, Attempts, Messages
<1>5. /\ dialog' \in [gen : 0..MaxGen, key : Servers \cup {NoServer}]
      /\ dialog'.gen \in {dialog.gen, 0}
  BY Numbers DEF NoDialog, IInv, WorkTypes
<1>6. /\ cl' \in [Gens -> Client]
      /\ \A g \in Gens : g # client => cl'[g] = cl[g]
      /\ \A g \in Gens : cl'[g].server = cl[g].server
      /\ \A g \in Gens : cl[g].sock = "none" => cl'[g].sock = "none"
      /\ client \in Gens => client' = client \/ (cl'[client].store # "open" /\ cl'[client].sock # "up")
  <2>1. cl \in [Gens -> Client]
    BY DEF IInv, WorkTypes
  <2>2. CASE cl' = cl /\ cl' # Closed(cl, client)
    BY <2>1, <2>2
  <2>3. CASE cl' = Closed(cl, client)
    BY <1>4, <2>1, <2>3, Shut
  <2> QED BY <2>2, <2>3
<1>7. client' \in {client, NoClient}
  OBVIOUS
<1>8. WorkTypes'
  BY <1>1, <1>2, <1>3, <1>4, <1>5, <1>6, <1>7, Numbers DEF IInv, WorkTypes, NoClient
<1>9. Unique'
  <2>1. /\ \A a \in attempts : a.gen # n.gen /\ a.gen # 0
        /\ \A m \in inbox : m.gen # n.gen
        /\ n.gen \notin waits /\ 0 \notin waits /\ n.gen # dialog'.gen
    BY <1>2, <1>3, <1>4, <1>5, Numbers DEF IInv, WorkTypes, NoClient
  <2>2. Unique
    BY DEF IInv
  <2> QED BY <1>1, <1>5, <2>1, <2>2 DEF Unique
<1>10. Past'
  BY <1>1, <1>2, <1>3, <1>4, <1>5, <1>7 DEF IInv, Past, NoClient
<1>11. ClientInv'
  <2>1. client' # NoClient => cl'[client'].server = cfg'
    BY <1>4, <1>6, Numbers DEF IInv, ClientInv
  <2>2. ASSUME NEW a \in attempts
        PROVE  /\ a.gen # client' /\ a.gen # connGen'
               /\ cl'[a.gen] = NewClient(IF a.pc = "start" THEN NoServer ELSE a.server)
    BY <1>1, <1>2, <1>4, <1>6, <1>7, Numbers DEF IInv, ClientInv
  <2>3. /\ n.gen # client' /\ n.server = cfg'
        /\ cl'[n.gen] = NewClient(NoServer)
    BY <1>1, <1>2, <1>3, <1>4, <1>6, <1>7, Numbers DEF IInv, ClientInv
  <2>4. \A g \in Gens : g > connGen' => cl'[g] = NewClient(NoServer)
    BY <1>1, <1>2, <1>4, <1>6, Numbers DEF IInv, ClientInv
  <2>5. \A g \in Gens : cl'[g].sock # "none" => cl'[g].server \in Servers
    BY <1>6 DEF IInv, ClientInv
  <2> QED BY <1>1, <1>3, <2>1, <2>2, <2>3, <2>4, <2>5 DEF ClientInv
<1>12. InboxInv'
  <2>1. connGen' \notin waits /\ \A m \in inbox : m.gen # connGen'
    BY <1>1, <1>2, <1>4
  <2>2. \A m \in inbox : m.type \in Results => m.gen # client /\ m.gen # NoClient
    BY DEF IInv, InboxInv, Past, Results, NoClient
  <2> QED BY <1>7, <2>1, <2>2 DEF InboxInv
<1>13. DrivenInv'
  BY <1>1, <1>3 DEF DrivenInv, Driven
<1>14. ASSUME running' = running PROVE NothingLeaks'
  <2> SUFFICES ASSUME running, NEW g \in Gens, cl'[g].store = "open" \/ cl'[g].sock = "up"
               PROVE \/ g = client'
                     \/ \E a \in attempts' : a.gen = g
                     \/ \E m \in inbox' : m.gen = g /\ m.type \in {"connected", "offline"}
                     \/ cl'[g].sock = "none" /\ ~cl'[g].synced
    BY <1>14 DEF NothingLeaks
  <2>1. CASE g = client
    BY <1>6, <2>1
  <2>2. CASE g # client
    <3>1. cl'[g] = cl[g]
      BY <1>6, <2>2
    <3> QED BY <1>1, <2>2, <3>1 DEF IInv, NothingLeaks, Results
  <2> QED BY <2>1, <2>2
<1> QED BY <1>8, <1>9, <1>10, <1>11, <1>12, <1>13, <1>14

(* handleConnectError replaces the error of the present generation by a    *)
(* timer, by Offline or by the overlay.                                    *)
LEMMA Handled ==
  ASSUME IInv, NEW m \in inbox, m.gen = connGen, NEW k, NEW c,
         HandleConnectError(k, c, inbox \ {m}),
         UNCHANGED <<connGen, attempts, waits, dialog, stray, dismissed, running>>
  PROVE  /\ inbox' \subseteq Messages /\ Unique' /\ DrivenInv'
         /\ connState' \in ConnStates /\ initial' \in 0..(Ladder - 1)
         /\ reconnecting' \in BOOLEAN /\ overlay' \in BOOLEAN
         /\ \A x \in inbox' : \/ x \in inbox
                              \/ x.gen = connGen /\ x.type \in {"ladder", "backoff"}
         /\ inbox \ inbox' \subseteq {m}
<1>1. /\ connGen \in Gens /\ connGen # 0 /\ connGen \in 0..MaxGen
      /\ Ladder \in Nat \ {0}
  BY Numbers, SessionAssumption DEF IInv, WorkTypes
<1>2. PICK t \in {"ladder", "backoff"}, n \in Messages :
         /\ n = Msg(t, connGen) /\ n.gen = connGen /\ n.type = t
         /\ \/ inbox' = (inbox \ {m}) \cup {n} /\ connState' = "Connecting"
            \/ inbox' = inbox \ {m} /\ connState' = "Offline"
            \/ inbox' = inbox \ {m} /\ connState' = connState /\ overlay'
  <2>1. \A t \in {"ladder", "backoff"} :
          Msg(t, connGen) \in Messages /\ Msg(t, connGen).gen = connGen /\ Msg(t, connGen).type = t
    BY <1>1, AMessage DEF MsgTypes
  <2>2. \/ inbox' = (inbox \ {m}) \cup {Msg("ladder", connGen)} /\ connState' = "Connecting"
        \/ inbox' = (inbox \ {m}) \cup {Msg("backoff", connGen)} /\ connState' = "Connecting"
        \/ inbox' = inbox \ {m} /\ connState' = "Offline"
        \/ inbox' = inbox \ {m} /\ connState' = connState /\ overlay'
    BY DEF HandleConnectError
  <2> QED BY <2>1, <2>2
<1>3. /\ connState' \in ConnStates /\ initial' \in 0..(Ladder - 1)
      /\ reconnecting' \in BOOLEAN /\ overlay' \in BOOLEAN
  <2>1. connState \in ConnStates /\ initial \in 0..(Ladder - 1)
    BY DEF IInv, ScreenTypes
  <2>2. connState' \in ConnStates
    BY <1>2, <2>1 DEF ConnStates
  <2>3. initial' \in {initial, 0} \/ (initial' = initial + 1 /\ initial + 1 < Ladder)
    BY DEF HandleConnectError
  <2>4. initial' \in 0..(Ladder - 1)
    BY <1>1, <2>1, <2>3
  <2>5. reconnecting' = reconnecting \/ reconnecting' = TRUE
    BY DEF HandleConnectError
  <2>6. overlay' = overlay \/ overlay' = TRUE
    BY DEF HandleConnectError
  <2> QED BY <2>2, <2>4, <2>5, <2>6, Zenon DEF IInv, ScreenTypes
<1>4. /\ inbox' \subseteq Messages /\ inbox \ inbox' \subseteq {m}
      /\ \A x \in inbox' : x = n \/ (x \in inbox /\ x # m)
  BY <1>2 DEF IInv, WorkTypes
<1>5. /\ \A a \in attempts : a.gen # connGen
      /\ connGen \notin waits /\ dialog.gen # connGen
      /\ \A x \in inbox : x # m => x.gen # connGen
  BY <1>1 DEF IInv, Unique
<1>6. Unique'
  BY <1>1, <1>2, <1>4, <1>5 DEF IInv, Unique
<1>7. DrivenInv'
  <2>1. CASE inbox' = (inbox \ {m}) \cup {n} /\ connState' = "Connecting"
    BY <1>2, <2>1 DEF DrivenInv, Driven
  <2>2. CASE inbox' = inbox \ {m} /\ (connState' = "Offline" \/ overlay')
    BY <1>5, <2>2 DEF DrivenInv, Driven
  <2> QED BY <1>2, <2>1, <2>2
<1> QED BY <1>2, <1>3, <1>4, <1>6, <1>7

-----------------------------------------------------------------------------
(* A connect goroutine that goes on, its Client fresh.                     *)
LEMMA Goes ==
  ASSUME IInv, NEW a \in attempts, NEW b \in Attempts, b.gen = a.gen, b.server = a.server,
         b.pc # "start", Moved(a, b), UNCHANGED <<inbox, AttemptVars>>,
         cl' \in [Gens -> Client], \A g \in Gens : g # a.gen => cl'[g] = cl[g],
         cl'[a.gen] = NewClient(a.server)
  PROVE  IInv'
<1> USE DEF AttemptVars, configVars, stateVars, screenVars, histVars
<1>1. attempts' = (attempts \ {a}) \cup {b}
  BY DEF Moved
<1>2. a.gen \in Gens /\ a.server \in Servers /\ a.gen <= connGen /\ a.gen # client
  BY DEF IInv, WorkTypes, Attempts, Past, ClientInv
<1>3. ConfigTypes' /\ ScreenTypes'
  BY DEF IInv, ConfigTypes, ScreenTypes
<1>4. WorkTypes'
  BY <1>1 DEF IInv, WorkTypes
<1>5. Unique'
  BY <1>1 DEF IInv, Unique
<1>6. Past'
  BY <1>1 DEF IInv, Past
<1>7. \A x \in attempts : x # a => x.gen # a.gen /\ x.gen \in Gens /\ cl'[x.gen] = cl[x.gen]
  BY DEF IInv, Unique, WorkTypes, Attempts
<1>8. ClientInv'
  <2>1. client # NoClient => cl'[client] = cl[client]
    BY <1>2, Numbers DEF IInv, WorkTypes
  <2>2. \A g \in Gens : g > connGen => g # a.gen
    BY <1>2, Numbers DEF IInv, WorkTypes
  <2>3. \A g \in Gens : cl'[g].sock # "none" => cl'[g].server \in Servers
    <3>1. cl'[a.gen].server = a.server
      BY <1>2, AClient
    <3>2. \A g \in Gens : cl[g].sock # "none" => cl[g].server \in Servers
      BY DEF IInv, ClientInv
    <3> QED BY <1>2, <3>1, <3>2
  <2> QED BY <1>1, <1>2, <1>7, <2>1, <2>2, <2>3 DEF IInv, ClientInv
<1>9. InboxInv'
  <2>1. \A m \in inbox : m.gen # a.gen /\ (m.gen = connGen => m.gen \in Gens)
    BY DEF IInv, Unique, WorkTypes
  <2> QED BY <2>1 DEF IInv, InboxInv
<1>10. DrivenInv'
  BY <1>1 DEF IInv, DrivenInv, Driven
<1>11. NothingLeaks'
  BY <1>1, <1>2 DEF IInv, NothingLeaks
<1> QED BY <1>3, <1>4, <1>5, <1>6, <1>8, <1>9, <1>10, <1>11 DEF IInv

(* A connect goroutine that returns: its message takes its place.          *)
LEMMA Comes ==
  ASSUME IInv, NEW a \in attempts, NEW m \in Messages, m.gen = a.gen,
         m.type \notin {"retry", "reconnect", "event"}, Returns(a, m), UNCHANGED AttemptVars,
         cl' \in [Gens -> Client], \A g \in Gens : g # a.gen => cl'[g] = cl[g],
         m.type \in Results => cl'[a.gen].server = a.server,
         m.type \notin Results => \/ cl'[a.gen].sock = "none" /\ ~cl'[a.gen].synced
                                  \/ cl'[a.gen].sock = "none" /\ cl'[a.gen].store # "open"
  PROVE  IInv'
<1> USE DEF AttemptVars, configVars, stateVars, screenVars, histVars
<1>1. attempts' = attempts \ {a} /\ inbox' = inbox \cup {m}
  BY DEF Returns
<1>2. /\ a.gen \in Gens /\ a.gen # 0 /\ a.gen <= connGen /\ a.gen # client
      /\ a.gen = connGen => a.server = cfg
  BY Numbers DEF IInv, WorkTypes, Attempts, Past, ClientInv
<1>3. ConfigTypes' /\ ScreenTypes'
  BY DEF IInv, ConfigTypes, ScreenTypes
<1>4. WorkTypes'
  BY <1>1 DEF IInv, WorkTypes
<1>5. Unique'
  BY <1>1 DEF IInv, Unique
<1>6. Past'
  BY <1>1, <1>2 DEF IInv, Past
<1>7. \A x \in attempts : x # a => x.gen # a.gen /\ x.gen \in Gens /\ cl'[x.gen] = cl[x.gen]
  BY DEF IInv, Unique, WorkTypes, Attempts
<1>8. ClientInv'
  <2>1. client # NoClient => cl'[client] = cl[client]
    BY <1>2, Numbers DEF IInv, WorkTypes
  <2>2. \A g \in Gens : g > connGen => g # a.gen
    BY <1>2, Numbers DEF IInv, WorkTypes
  <2>3. \A g \in Gens : cl'[g].sock # "none" => cl'[g].server \in Servers
    <3>1. a.server \in Servers /\ (cl'[a.gen].sock = "none" \/ cl'[a.gen].server = a.server)
      BY DEF IInv, WorkTypes, Attempts
    <3>2. \A g \in Gens : cl[g].sock # "none" => cl[g].server \in Servers
      BY DEF IInv, ClientInv
    <3> QED BY <1>2, <3>1, <3>2
  <2> QED BY <1>1, <1>2, <1>7, <2>1, <2>2, <2>3 DEF IInv, ClientInv
<1>9. InboxInv'
  <2>1. \A x \in inbox : x.gen # a.gen /\ (x.gen = connGen => x.gen \in Gens)
    BY DEF IInv, Unique, WorkTypes
  <2> QED BY <1>1, <1>2, <2>1 DEF IInv, InboxInv
<1>10. DrivenInv'
  BY <1>1 DEF IInv, DrivenInv, Driven
<1>11. NothingLeaks'
  <2>1. ASSUME NEW g \in Gens, g # a.gen, running, cl'[g].store = "open" \/ cl'[g].sock = "up"
        PROVE  \/ g = client
               \/ \E x \in attempts : x.gen = g /\ x # a
               \/ \E x \in inbox : x.gen = g /\ x.type \in {"connected", "offline"}
               \/ cl[g].sock = "none" /\ ~cl[g].synced
    BY <2>1 DEF IInv, NothingLeaks
  <2> QED BY <1>1, <1>2, <2>1 DEF NothingLeaks, Results
<1> QED BY <1>3, <1>4, <1>5, <1>6, <1>8, <1>9, <1>10, <1>11 DEF IInv

(* The pre-flight of an attempt.                                           *)
LEMMA PreflightInv == ASSUME IInv, NEW a \in attempts, Preflight(a) PROVE IInv'
<1>1. /\ a.pc = "start" /\ UNCHANGED AttemptVars
      /\ a \in Attempts /\ a.gen \in Gens /\ a.gen \in 0..MaxGen /\ a.server \in Servers
      /\ cl \in [Gens -> Client] /\ cl[a.gen] = NewClient(NoServer)
  BY Numbers DEF Preflight, IInv, WorkTypes, Attempts, ClientInv
<1>2. /\ cl[a.gen].sock = "none" /\ cl[a.gen].store = "none"
  BY <1>1, AClient
<1>3. CASE Returns(a, Keyed("passphrase_needed", a.gen, a.server, "none")) /\ UNCHANGED cl
  <2>1. PICK m \in Messages : /\ m = Keyed("passphrase_needed", a.gen, a.server, "none")
                              /\ m.gen = a.gen /\ m.type = "passphrase_needed"
    BY <1>1, AKeyedMessage DEF MsgTypes, Passphrases
  <2> QED BY <1>1, <1>2, <1>3, <2>1, Comes DEF Results
<1>4. CASE Returns(a, Msg("err", a.gen)) /\ UNCHANGED cl
  <2>1. PICK m \in Messages : m = Msg("err", a.gen) /\ m.gen = a.gen /\ m.type = "err"
    BY <1>1, AMessage DEF MsgTypes
  <2> QED BY <1>1, <1>2, <1>4, <2>1, Comes DEF Results
<1>5. CASE /\ Moved(a, [a EXCEPT !.pc = "dial", !.pass = cache[a.server]])
           /\ cl' = [cl EXCEPT ![a.gen] = NewClient(a.server)]
           /\ UNCHANGED inbox
  <2>1. PICK b \in Attempts : /\ b = [a EXCEPT !.pc = "dial", !.pass = cache[a.server]]
                              /\ b.gen = a.gen /\ b.server = a.server /\ b.pc # "start"
    <3>1. cache[a.server] \in Passphrases
      BY <1>1 DEF IInv, ScreenTypes
    <3>2. [a EXCEPT !.pc = "dial", !.pass = cache[a.server]] \in Attempts
      BY <1>1, <3>1 DEF Attempts
    <3> QED BY <1>1, <3>2 DEF Attempts
  <2>2. NewClient(a.server) \in Client
    BY <1>1, AClient
  <2> QED BY <1>1, <1>5, <2>1, <2>2, Goes
<1> QED BY <1>3, <1>4, <1>5 DEF Preflight

(* The passphrase does not open the key.                                   *)
LEMMA WrongPassphraseInv == ASSUME IInv, NEW a \in attempts, WrongPassphrase(a) PROVE IInv'
<1>1. /\ a.pc = "dial" /\ UNCHANGED <<cl, AttemptVars>>
      /\ Returns(a, Keyed("passphrase_needed", a.gen, a.server, "none"))
      /\ a.gen \in 0..MaxGen /\ a.server \in Servers
      /\ cl \in [Gens -> Client] /\ cl[a.gen] = NewClient(a.server)
  BY Numbers DEF WrongPassphrase, IInv, WorkTypes, Attempts, ClientInv
<1>2. /\ cl[a.gen].sock = "none" /\ cl[a.gen].store = "none"
  BY <1>1, AClient
<1>3. PICK m \in Messages : /\ m = Keyed("passphrase_needed", a.gen, a.server, "none")
                            /\ m.gen = a.gen /\ m.type = "passphrase_needed"
  BY <1>1, AKeyedMessage DEF MsgTypes, Passphrases
<1> QED BY <1>1, <1>2, <1>3, Comes DEF Results

(* The handshake is done.                                                  *)
LEMMA HandshakeInv == ASSUME IInv, NEW a \in attempts, Handshake(a) PROVE IInv'
<1> DEFINE said == cl[a.gen].synced
           known == a.server \in disk
<1>1. /\ a.pc = "dial" /\ UNCHANGED <<cl, inbox, AttemptVars>>
      /\ Moved(a, [a EXCEPT !.pc = "shaken", !.said = said, !.known = known])
      /\ a \in Attempts /\ a.gen \in Gens /\ a.server \in Servers
      /\ cl \in [Gens -> Client] /\ cl[a.gen] = NewClient(a.server)
  BY DEF Handshake, IInv, WorkTypes, Attempts, ClientInv
<1>2. PICK x \in BOOLEAN, y \in BOOLEAN : x = said /\ y = known
  <2>1. said \in BOOLEAN
    BY <1>1, AClient
  <2>2. known \in BOOLEAN
    OBVIOUS
  <2> QED BY <2>1, <2>2
<1> HIDE DEF said, known
<1>3. PICK b \in Attempts : /\ b = [a EXCEPT !.pc = "shaken", !.said = said, !.known = known]
                            /\ b.gen = a.gen /\ b.server = a.server /\ b.pc # "start"
  <2>1. [a EXCEPT !.pc = "shaken", !.said = x, !.known = y] \in Attempts
    BY <1>1, Zenon DEF Attempts
  <2> QED BY <1>1, <1>2, <2>1 DEF Attempts
<1> QED BY <1>1, <1>3, Goes

(* The Client comes up, its database open or not.                          *)
LEMMA ConnectReturnsInv == ASSUME IInv, NEW a \in attempts, ConnectReturns(a) PROVE IInv'
<1>1. /\ a.pc = "shaken" /\ Returns(a, Msg("connected", a.gen)) /\ UNCHANGED AttemptVars
      /\ a.gen \in Gens /\ a.gen \in 0..MaxGen /\ a.server \in Servers
      /\ cl \in [Gens -> Client] /\ cl[a.gen] = NewClient(a.server)
  BY Numbers DEF ConnectReturns, IInv, WorkTypes, Attempts, ClientInv
<1>2. PICK k \in [Gens -> Client] :
        /\ k = cl \/ k = Opened(cl, a.gen)
        /\ cl' = [k EXCEPT ![a.gen].sock = "up"]
  <2>1. PICK ok \in BOOLEAN :
           cl' = [(IF ok THEN Opened(cl, a.gen) ELSE cl) EXCEPT ![a.gen].sock = "up"]
    BY DEF ConnectReturns
  <2>2. CASE ok
    <3>1. PICK k \in [Gens -> Client] : k = Opened(cl, a.gen)
      BY <1>1, Unsealed
    <3> QED BY <2>1, <2>2, <3>1
  <2>3. CASE ~ok
    BY <1>1, <2>1, <2>3
  <2> QED BY <2>2, <2>3
<1>3. k[a.gen].server = a.server /\ \A g \in Gens : g # a.gen => k[g] = cl[g]
  <2>1. cl[a.gen].server = a.server
    BY <1>1, AClient
  <2>2. CASE k = cl
    BY <2>1, <2>2
  <2>3. CASE k = Opened(cl, a.gen)
    BY <1>1, <2>1, <2>3, Unsealed
  <2> QED BY <1>2, <2>2, <2>3
<1>4. /\ cl' \in [Gens -> Client] /\ cl'[a.gen].server = a.server
      /\ \A g \in Gens : g # a.gen => cl'[g] = cl[g]
  <2>1. [k[a.gen] EXCEPT !.sock = "up"] \in Client /\ [k[a.gen] EXCEPT !.sock = "up"].server = a.server
    BY <1>1, <1>3 DEF Client
  <2>2. cl' = [k EXCEPT ![a.gen] = [k[a.gen] EXCEPT !.sock = "up"]]
    BY <1>2
  <2> QED BY <1>1, <1>3, <2>1, <2>2
<1>5. PICK m \in Messages : m = Msg("connected", a.gen) /\ m.gen = a.gen /\ m.type = "connected"
  BY <1>1, AMessage DEF MsgTypes
<1> QED BY <1>1, <1>4, <1>5, Comes DEF Results

(* The dial fails, with or without a local database to fall back to.       *)
LEMMA DialFailsInv == ASSUME IInv, NEW a \in attempts, DialFails(a) PROVE IInv'
<1>1. /\ a.pc = "dial" /\ UNCHANGED AttemptVars
      /\ a.gen \in Gens /\ a.gen \in 0..MaxGen /\ a.gen # NoClient /\ a.server \in Servers
      /\ cl \in [Gens -> Client] /\ cl[a.gen] = NewClient(a.server)
  BY Numbers DEF DialFails, IInv, WorkTypes, Attempts, ClientInv
<1>2. cl[a.gen].sock = "none" /\ cl[a.gen].store = "none" /\ cl[a.gen].server = a.server
  BY <1>1, AClient, ZenonT(40)
<1>3. CASE /\ cl' = Opened(cl, a.gen)
           /\ Returns(a, Msg(IF HasLocalCache(cl', a.gen) THEN "offline" ELSE "err", a.gen))
  <2>1. /\ cl' \in [Gens -> Client] /\ \A g \in Gens : g # a.gen => cl'[g] = cl[g]
        /\ cl'[a.gen].server = a.server /\ cl'[a.gen].sock = "none" /\ cl'[a.gen].store = "open"
    BY <1>1, <1>2, <1>3, Unsealed
  <2>2. CASE HasLocalCache(cl', a.gen)
    <3>1. PICK m \in Messages : m = Msg("offline", a.gen) /\ m.gen = a.gen /\ m.type = "offline"
      BY <1>1, AMessage DEF MsgTypes
    <3>2. Returns(a, m)
      BY <1>3, <2>2, <3>1
    <3> QED BY <1>1, <2>1, <3>1, <3>2, Comes DEF Results
  <2>3. CASE ~HasLocalCache(cl', a.gen)
    <3>1. PICK m \in Messages : m = Msg("err", a.gen) /\ m.gen = a.gen /\ m.type = "err"
      BY <1>1, AMessage DEF MsgTypes
    <3>2. Returns(a, m) /\ ~cl'[a.gen].synced
      BY <1>1, <1>3, <2>1, <2>3, <3>1 DEF HasLocalCache
    <3> QED BY <1>1, <2>1, <3>1, <3>2, Comes DEF Results
  <2> QED BY <2>2, <2>3
<1>4. CASE Returns(a, Msg("err", a.gen)) /\ UNCHANGED cl
  <2>1. PICK m \in Messages : m = Msg("err", a.gen) /\ m.gen = a.gen /\ m.type = "err"
    BY <1>1, AMessage DEF MsgTypes
  <2> QED BY <1>1, <1>2, <1>4, <2>1, Comes DEF Results
<1> QED BY <1>3, <1>4 DEF DialFails

-----------------------------------------------------------------------------
(* A step that changes the Client of one generation, not its server, and   *)
(* leaves nothing open or up that was not.                                 *)
LEMMA Changed ==
  ASSUME IInv, NEW h \in Gens, h <= connGen, \A a \in attempts : a.gen # h,
         cl' \in [Gens -> Client], \A g \in Gens : g # h => cl'[g] = cl[g],
         cl'[h].server = cl[h].server, cl[h].sock = "none" => cl'[h].sock = "none",
         \/ ~(cl'[h].store = "open" \/ cl'[h].sock = "up")
         \/ cl[h].sock = "up"
         \/ /\ cl[h].store = "open" /\ cl'[h].sock = cl[h].sock
            /\ cl'[h].synced = cl[h].synced,
         UNCHANGED <<cfg, connGen, client, attempts, inbox, waits, running>>
  PROVE  ClientInv' /\ InboxInv' /\ NothingLeaks'
<1>1. /\ \A a \in attempts : a.gen \in Gens /\ cl'[a.gen] = cl[a.gen]
      /\ \A g \in Gens : g > connGen => g # h
      /\ \A g \in Gens : cl'[g].server = cl[g].server
      /\ \A g \in Gens : cl[g].sock = "none" => cl'[g].sock = "none"
      /\ client # NoClient => client \in Gens
      /\ connGen \in Gens
  BY Numbers DEF IInv, WorkTypes, Attempts
<1>2. ClientInv'
  BY <1>1 DEF IInv, ClientInv
<1>3. InboxInv'
  BY <1>1 DEF IInv, InboxInv
<1>4. NothingLeaks'
  BY DEF IInv, NothingLeaks
<1> QED BY <1>2, <1>3, <1>4

(* A link breaks; only a Client that was adopted or is on its way has one. *)
LEMMA LinkEndsInv == ASSUME IInv, NEW g \in Gens, LinkEnds(g) PROVE IInv'
<1> USE DEF ClientVars, configVars, stateVars, screenVars, histVars
<1>1. /\ cl[g].sock = "up" /\ cl' = Disconnected(cl, g) /\ UNCHANGED <<inbox, waits, disk, ClientVars>>
      /\ cl \in [Gens -> Client] /\ g \in 0..MaxGen
  BY Numbers DEF LinkEnds, IInv, WorkTypes
<1>2. /\ cl' \in [Gens -> Client] /\ \A x \in Gens : x # g => cl'[x] = cl[x]
      /\ cl'[g].server = cl[g].server
  BY <1>1, Severed
<1>3. /\ g <= connGen /\ \A a \in attempts : a.gen # g
  <2>1. \A s \in Servers \cup {NoServer} : NewClient(s).sock # "up"
    BY AClient
  <2> QED BY <1>1, <2>1, Numbers DEF IInv, ClientInv, WorkTypes, Attempts
<1>4. ClientInv' /\ InboxInv' /\ NothingLeaks'
  BY <1>1, <1>2, <1>3, Changed
<1>5. ConfigTypes' /\ ScreenTypes' /\ WorkTypes' /\ Unique' /\ Past' /\ DrivenInv'
  BY <1>1, <1>2 DEF IInv, ConfigTypes, ScreenTypes, WorkTypes, Unique, Past, DrivenInv, Driven
<1> QED BY <1>4, <1>5 DEF IInv

(* sync_complete on a live connection.                                     *)
LEMMA SyncCompleteInv == ASSUME IInv, NEW g \in Gens, SyncComplete(g) PROVE IInv'
<1> USE DEF ClientVars, configVars, stateVars, screenVars, histVars
<1>1. /\ cl[g].sock = "up" /\ cl' = Stamped(cl, g, TRUE) /\ UNCHANGED <<inbox, waits, ClientVars>>
      /\ disk' = disk \/ disk' = disk \cup {cl[g].server}
      /\ cl \in [Gens -> Client] /\ g \in 0..MaxGen
  BY Numbers DEF SyncComplete, IInv, WorkTypes, Stamped
<1>2. /\ cl' \in [Gens -> Client] /\ \A x \in Gens : x # g => cl'[x] = cl[x]
      /\ cl'[g].server = cl[g].server
  BY <1>1, Noted
<1>3. /\ g <= connGen /\ \A a \in attempts : a.gen # g
  <2>1. \A s \in Servers \cup {NoServer} : NewClient(s).sock # "up"
    BY AClient
  <2> QED BY <1>1, <2>1, Numbers DEF IInv, ClientInv, WorkTypes, Attempts
<1>4. ClientInv' /\ InboxInv' /\ NothingLeaks'
  BY <1>1, <1>2, <1>3, Changed
<1>5. ConfigTypes' /\ WorkTypes' /\ Unique' /\ Past' /\ DrivenInv'
  BY <1>1, <1>2 DEF IInv, ConfigTypes, WorkTypes, Unique, Past, DrivenInv, Driven
<1>6. ScreenTypes'
  <2>1. cl[g].server \in Servers
    BY <1>1 DEF IInv, ClientInv
  <2> QED BY <1>1, <2>1 DEF IInv, ScreenTypes
<1> QED BY <1>4, <1>5, <1>6 DEF IInv

(* The listener ends in one message of its generation.                     *)
LEMMA WaitReturnsInv == ASSUME IInv, NEW g \in Gens, WaitReturns(g) PROVE IInv'
<1> USE DEF ClientVars, configVars, stateVars, screenVars, histVars
<1>1. /\ g \in waits /\ waits' = waits \ {g} /\ UNCHANGED <<cl, disk, ClientVars>>
      /\ g \in 0..MaxGen /\ g # 0 /\ g <= connGen /\ (g = connGen => client # NoClient)
  BY Numbers DEF WaitReturns, IInv, Past, InboxInv
<1>2. PICK m \in Messages : /\ m.gen = g /\ m.type \in {"event", "err"}
                            /\ inbox' = inbox \cup {m}
  <2>1. /\ Msg("event", g) \in Messages /\ Msg("event", g).gen = g /\ Msg("event", g).type = "event"
        /\ Msg("err", g) \in Messages /\ Msg("err", g).gen = g /\ Msg("err", g).type = "err"
    BY <1>1, AMessage DEF MsgTypes
  <2> QED BY <2>1 DEF WaitReturns
<1>3. ConfigTypes' /\ ScreenTypes' /\ WorkTypes'
  BY <1>1, <1>2 DEF IInv, ConfigTypes, ScreenTypes, WorkTypes
<1>4. Unique'
  BY <1>1, <1>2 DEF IInv, Unique
<1>5. Past' /\ ClientInv'
  BY <1>1, <1>2 DEF IInv, Past, ClientInv
<1>6. InboxInv' /\ DrivenInv'
  BY <1>1, <1>2 DEF IInv, InboxInv, DrivenInv, Driven, Results
<1>7. NothingLeaks'
  BY <1>1, <1>2 DEF IInv, NothingLeaks
<1> QED BY <1>3, <1>4, <1>5, <1>6, <1>7 DEF IInv

-----------------------------------------------------------------------------
(* A result of a former generation is closed, so that dropping it leaks    *)
(* nothing.                                                                *)
LEMMA DropStaleInv == ASSUME IInv, NEW m \in inbox, DropStale(m) PROVE IInv'
<1> USE DEF configVars, stateVars, screenVars, histVars
<1>1. /\ m.gen \notin {0, connGen} /\ inbox' = inbox \ {m}
      /\ UNCHANGED <<configVars, connGen, stateVars, client, attempts, waits, screenVars,
                     cache, disk, histVars, running>>
      /\ \/ m.type \in Results /\ cl' = Closed(cl, m.gen)
         \/ m.type \notin Results /\ cl' = cl
      /\ cl \in [Gens -> Client] /\ m.gen \in Gens /\ m.gen <= connGen /\ m.gen \in 0..MaxGen
  BY Numbers DEF DropStale, IInv, WorkTypes, Messages, Past, Results, NoClient
<1>2. /\ cl' \in [Gens -> Client] /\ \A g \in Gens : g # m.gen => cl'[g] = cl[g]
      /\ cl'[m.gen].server = cl[m.gen].server
      /\ cl[m.gen].sock = "none" => cl'[m.gen].sock = "none"
      /\ m.type \in Results => cl'[m.gen].store # "open" /\ cl'[m.gen].sock # "up"
  <2>1. CASE m.type \in Results /\ cl' = Closed(cl, m.gen)
    BY <1>1, <2>1, Shut
  <2>2. CASE m.type \notin Results /\ cl' = cl
    BY <1>1, <2>2
  <2> QED BY <1>1, <2>1, <2>2
<1>3. ConfigTypes' /\ ScreenTypes' /\ WorkTypes' /\ Unique' /\ Past'
  BY <1>1, <1>2 DEF IInv, ConfigTypes, ScreenTypes, WorkTypes, Unique, Past
<1>4. DrivenInv'
  BY <1>1 DEF IInv, DrivenInv, Driven, Past
<1>5. /\ \A a \in attempts : a.gen \in Gens /\ a.gen # m.gen
      /\ \A g \in Gens : g > connGen => g # m.gen
      /\ client # NoClient => client \in Gens
      /\ \A g \in Gens : cl'[g].server = cl[g].server
  BY <1>1, <1>2, Numbers DEF IInv, WorkTypes, Attempts, Unique
<1>6. ClientInv'
  BY <1>1, <1>2, <1>5 DEF IInv, ClientInv
<1>7. InboxInv'
  <2>1. \A x \in inbox : x.gen = connGen => x.gen \in Gens
    BY DEF IInv, WorkTypes
  <2> QED BY <1>1, <1>5, <2>1 DEF IInv, InboxInv
<1>8. NothingLeaks'
  BY <1>1, <1>2 DEF IInv, NothingLeaks, Results
<1> QED BY <1>3, <1>4, <1>6, <1>7, <1>8 DEF IInv

(* The Client a result brings takes the place of another, which is closed. *)
LEMMA Adopted ==
  ASSUME IInv, NEW m \in inbox, m.gen = connGen, m.type \in Results, Adopt(m.gen)
  PROVE  /\ client' = connGen /\ connGen \in Gens
         /\ cl' \in [Gens -> Client]
         /\ \A g \in Gens : g # client => cl'[g] = cl[g]
         /\ \A g \in Gens : cl'[g].server = cl[g].server
         /\ \A g \in Gens : cl[g].sock = "none" => cl'[g].sock = "none"
         /\ client \in Gens => cl'[client].store # "open" /\ cl'[client].sock # "up"
         /\ cl'[connGen].server = cfg /\ client # connGen
         /\ \A a \in attempts : a.gen # connGen /\ a.gen # client /\ a.gen \in Gens
<1>1. /\ cl \in [Gens -> Client] /\ client \in 0..MaxGen /\ m.gen # client /\ connGen \in Gens
      /\ cl[connGen].server = cfg /\ client' = connGen /\ cl' = Closed(cl, client)
  BY DEF IInv, WorkTypes, InboxInv, Adopt
<1>2. /\ cl' \in [Gens -> Client]
      /\ \A g \in Gens : g # client => cl'[g] = cl[g]
      /\ client \in Gens => /\ cl'[client].store # "open" /\ cl'[client].sock # "up"
                            /\ cl'[client].server = cl[client].server
                            /\ cl[client].sock = "none" => cl'[client].sock = "none"
  BY <1>1, Shut
<1>3. \A a \in attempts : a.gen # connGen /\ a.gen # client /\ a.gen \in Gens
  BY DEF IInv, Unique, ClientInv, WorkTypes, Attempts
<1> QED BY <1>1, <1>2, <1>3

(* The listener takes the place of the result.                             *)
LEMMA ConnectedInv == ASSUME IInv, Connected PROVE IInv'
<1> USE DEF configVars, stateVars, screenVars, histVars
<1>1. PICK m \in inbox :
        /\ m.gen = connGen /\ m.type = "connected" /\ inbox' = inbox \ {m} /\ Adopt(m.gen)
        /\ connState' = "Online" /\ reconnecting' = FALSE /\ waits' = waits \cup {connGen}
        /\ UNCHANGED <<configVars, connGen, initial, attempts, screenVars, cache,
                       disk, histVars, running>>
  BY DEF Connected, Current
<1>2. /\ client' = connGen /\ connGen \in Gens /\ connGen # 0 /\ connGen \in 0..MaxGen
      /\ cl' \in [Gens -> Client]
      /\ \A g \in Gens : g # client => cl'[g] = cl[g]
      /\ \A g \in Gens : cl'[g].server = cl[g].server
      /\ \A g \in Gens : cl[g].sock = "none" => cl'[g].sock = "none"
      /\ client \in Gens => cl'[client].store # "open" /\ cl'[client].sock # "up"
      /\ cl'[connGen].server = cfg /\ client # connGen /\ connGen # NoClient
      /\ \A a \in attempts : a.gen # connGen /\ a.gen # client /\ a.gen \in Gens
  BY <1>1, Adopted, Numbers DEF Results
<1>3. ConfigTypes' /\ WorkTypes'
  BY <1>1, <1>2 DEF IInv, ConfigTypes, WorkTypes
<1>4. ScreenTypes'
  BY <1>1 DEF IInv, ScreenTypes, ConnStates
<1>5. Unique'
  BY <1>1, <1>2 DEF IInv, Unique
<1>6. Past'
  BY <1>1, <1>2, Numbers DEF IInv, Past
<1>7. ClientInv'
  <2>1. \A g \in Gens : g > connGen => cl'[g] = cl[g]
    BY <1>2, Numbers DEF IInv, WorkTypes, Past
  <2> QED BY <1>1, <1>2, <2>1, ZenonT(40) DEF IInv, ClientInv
<1>8. InboxInv'
  <2>1. \A x \in inbox' : x \in inbox /\ x.gen # connGen
    BY <1>1, <1>2 DEF IInv, Unique
  <2> QED BY <1>1, <1>2, <2>1 DEF InboxInv
<1>9. DrivenInv'
  BY <1>1 DEF DrivenInv, Driven
<1>10. NothingLeaks'
  <2>1. ASSUME NEW g \in Gens, g # connGen, g # client, running, cl'[g].store = "open" \/ cl'[g].sock = "up"
        PROVE  \/ \E x \in attempts : x.gen = g
               \/ \E x \in inbox : x.gen = g /\ x.type \in {"connected", "offline"} /\ x # m
               \/ cl[g].sock = "none" /\ ~cl[g].synced
    BY <1>1, <1>2, <2>1 DEF IInv, NothingLeaks
  <2> QED BY <1>1, <1>2, <2>1 DEF NothingLeaks
<1> QED BY <1>3, <1>4, <1>5, <1>6, <1>7, <1>8, <1>9, <1>10 DEF IInv

(* The listener listens again, since the TUI holds a Client.               *)
LEMMA EventInv == ASSUME IInv, Event PROVE IInv'
<1> USE DEF configVars, stateVars, screenVars, histVars
<1>1. PICK m \in inbox :
        /\ m.gen = connGen /\ m.type = "event" /\ inbox' = inbox \ {m}
        /\ waits' = IF client # NoClient THEN waits \cup {connGen} ELSE waits
        /\ UNCHANGED <<configVars, connGen, stateVars, client, attempts, screenVars,
                       cache, cl, disk, histVars, running>>
  BY DEF Event, Current
<1>2. /\ client # NoClient /\ connGen \in Gens /\ connGen # 0
      /\ waits' = waits \cup {connGen}
  BY <1>1, Numbers DEF IInv, InboxInv, WorkTypes
<1>3. ConfigTypes' /\ ScreenTypes' /\ WorkTypes'
  BY <1>1, <1>2 DEF IInv, ConfigTypes, ScreenTypes, WorkTypes
<1>4. Unique'
  BY <1>1, <1>2 DEF IInv, Unique
<1>5. Past' /\ ClientInv'
  BY <1>1, <1>2, Numbers DEF IInv, Past, ClientInv
<1>6. InboxInv'
  BY <1>1, <1>2 DEF IInv, InboxInv
<1>7. DrivenInv'
  <2>1. Driven /\ Driven'
    BY <1>1, <1>2 DEF Driven
  <2> QED BY <1>1, <2>1 DEF IInv, DrivenInv
<1>8. NothingLeaks'
  BY <1>1 DEF IInv, NothingLeaks
<1> QED BY <1>3, <1>4, <1>5, <1>6, <1>7, <1>8 DEF IInv

(* An error of the present generation.                                     *)
LEMMA ErrInv == ASSUME IInv, Err PROVE IInv'
<1> USE DEF configVars, stateVars, screenVars, histVars
<1>1. PICK m \in inbox :
        /\ m.gen = connGen /\ m.type = "err"
        /\ HandleConnectError(cl, client, inbox \ {m})
        /\ UNCHANGED <<configVars, connGen, client, attempts, waits, dialog, menu,
                       cache, cl, disk, histVars, running>>
  BY DEF Err, Current
<1>2. /\ inbox' \subseteq Messages /\ Unique' /\ DrivenInv'
      /\ connState' \in ConnStates /\ initial' \in 0..(Ladder - 1)
      /\ reconnecting' \in BOOLEAN /\ overlay' \in BOOLEAN
      /\ \A x \in inbox' : \/ x \in inbox
                           \/ x.gen = connGen /\ x.type \in {"ladder", "backoff"}
      /\ inbox \ inbox' \subseteq {m}
  BY <1>1, Handled
<1>3. ConfigTypes' /\ WorkTypes'
  BY <1>1, <1>2 DEF IInv, ConfigTypes, WorkTypes
<1>4. ScreenTypes'
  BY <1>1, <1>2 DEF IInv, ScreenTypes
<1>5. Past' /\ ClientInv'
  BY <1>1, <1>2, Numbers DEF IInv, Past, ClientInv, WorkTypes
<1>6. InboxInv'
  BY <1>1, <1>2 DEF IInv, InboxInv, Results
<1>7. NothingLeaks'
  BY <1>1, <1>2 DEF IInv, NothingLeaks
<1> QED BY <1>2, <1>3, <1>4, <1>5, <1>6, <1>7 DEF IInv

(* A local Client of the present generation.                               *)
LEMMA OfflineClientInv == ASSUME IInv, OfflineClient PROVE IInv'
<1> USE DEF configVars, stateVars, screenVars, histVars
<1>1. PICK m \in inbox :
        /\ m.gen = connGen /\ m.type = "offline" /\ Adopt(m.gen)
        /\ HandleConnectError(cl', m.gen, inbox \ {m})
        /\ UNCHANGED <<configVars, connGen, attempts, waits, dialog, menu, cache,
                       disk, histVars, running>>
  BY DEF OfflineClient, Current
<1>2. /\ client' = connGen /\ connGen \in Gens /\ connGen # 0 /\ connGen \in 0..MaxGen
      /\ cl' \in [Gens -> Client]
      /\ \A g \in Gens : g # client => cl'[g] = cl[g]
      /\ \A g \in Gens : cl'[g].server = cl[g].server
      /\ \A g \in Gens : cl[g].sock = "none" => cl'[g].sock = "none"
      /\ client \in Gens => cl'[client].store # "open" /\ cl'[client].sock # "up"
      /\ cl'[connGen].server = cfg /\ client # connGen /\ connGen # NoClient
      /\ \A a \in attempts : a.gen # connGen /\ a.gen # client /\ a.gen \in Gens
  BY <1>1, Adopted, Numbers DEF Results
<1>3. /\ inbox' \subseteq Messages /\ Unique' /\ DrivenInv'
      /\ connState' \in ConnStates /\ initial' \in 0..(Ladder - 1)
      /\ reconnecting' \in BOOLEAN /\ overlay' \in BOOLEAN
      /\ \A x \in inbox' : \/ x \in inbox
                           \/ x.gen = connGen /\ x.type \in {"ladder", "backoff"}
      /\ inbox \ inbox' \subseteq {m}
  BY <1>1, Handled
<1>4. ConfigTypes' /\ WorkTypes'
  BY <1>1, <1>2, <1>3 DEF IInv, ConfigTypes, WorkTypes
<1>5. ScreenTypes'
  BY <1>1, <1>3 DEF IInv, ScreenTypes
<1>6. Past'
  BY <1>1, <1>2, <1>3, Numbers DEF IInv, Past, WorkTypes
<1>7. ClientInv'
  <2>1. \A g \in Gens : g > connGen => cl'[g] = cl[g]
    BY <1>2, Numbers DEF IInv, WorkTypes, Past
  <2> QED BY <1>1, <1>2, <2>1, ZenonT(40) DEF IInv, ClientInv
<1>8. InboxInv'
  <2>1. m \notin inbox'
    <3>1. inbox' \subseteq (inbox \ {m}) \cup {Msg("ladder", connGen), Msg("backoff", connGen)}
      BY <1>1 DEF HandleConnectError
    <3>2. Msg("ladder", connGen).type # "offline" /\ Msg("backoff", connGen).type # "offline"
      BY DEF Msg
    <3> QED BY <1>1, <3>1, <3>2
  <2>2. \A x \in inbox' : x.type \in Results \cup {"event"} => x \in inbox /\ x.gen # connGen
    BY <1>1, <1>2, <1>3, <2>1 DEF IInv, Unique, Results
  <2> QED BY <1>1, <1>2, <2>2 DEF InboxInv, Results
<1>9. NothingLeaks'
  <2>1. ASSUME NEW g \in Gens, g # connGen, g # client, running, cl'[g].store = "open" \/ cl'[g].sock = "up"
        PROVE  \/ \E x \in attempts : x.gen = g
               \/ \E x \in inbox : x.gen = g /\ x.type \in {"connected", "offline"} /\ x # m
               \/ cl[g].sock = "none" /\ ~cl[g].synced
    BY <1>1, <1>2, <2>1 DEF IInv, NothingLeaks
  <2> QED BY <1>1, <1>2, <1>3, <2>1 DEF NothingLeaks
<1> QED BY <1>3, <1>4, <1>5, <1>6, <1>7, <1>8, <1>9 DEF IInv

(* The dialog takes the place of the request for a passphrase.             *)
LEMMA PassphraseNeededInv == ASSUME IInv, PassphraseNeeded PROVE IInv'
<1> USE DEF configVars, stateVars, screenVars, histVars
<1>1. PICK m \in inbox :
        /\ m.gen = connGen /\ m.type = "passphrase_needed" /\ inbox' = inbox \ {m}
        /\ dialog' = [gen |-> m.gen, key |-> m.key]
        /\ UNCHANGED <<configVars, connGen, stateVars, client, attempts, waits,
                       overlay, menu, cache, cl, disk, histVars, running>>
  BY DEF PassphraseNeeded, Current
<1>2. /\ connGen \in Gens /\ connGen # 0 /\ connGen \in 0..MaxGen /\ connGen <= connGen
      /\ dialog' \in [gen : 0..MaxGen, key : Servers \cup {NoServer}] /\ dialog'.gen = connGen
  BY <1>1, Numbers DEF IInv, WorkTypes, Messages
<1>3. ConfigTypes' /\ ScreenTypes' /\ WorkTypes'
  BY <1>1, <1>2 DEF IInv, ConfigTypes, ScreenTypes, WorkTypes
<1>4. Unique'
  BY <1>1, <1>2 DEF IInv, Unique
<1>5. Past' /\ ClientInv' /\ InboxInv'
  BY <1>1, <1>2 DEF IInv, Past, ClientInv, InboxInv
<1>6. DrivenInv'
  <2>1. Driven /\ Driven'
    BY <1>1, <1>2 DEF Driven
  <2> QED BY <1>1, <2>1 DEF IInv, DrivenInv
<1>7. NothingLeaks'
  BY <1>1 DEF IInv, NothingLeaks
<1> QED BY <1>3, <1>4, <1>5, <1>6, <1>7 DEF IInv

(* Nothing outlives the process.                                           *)
LEMMA ExitInv == ASSUME IInv, Exit PROVE IInv'
<1> USE DEF configVars, stateVars, screenVars, histVars
<1>1. /\ running' = FALSE /\ attempts' = {} /\ inbox' = {} /\ waits' = {} /\ client' = NoClient
      /\ cl' = [g \in Gens |-> NewClient(NoServer)]
      /\ UNCHANGED <<configVars, connGen, stateVars, screenVars, cache, disk, histVars>>
  BY DEF Exit
<1>2. /\ cl' \in [Gens -> Client]
      /\ \A g \in Gens : cl'[g] = NewClient(NoServer) /\ cl'[g].sock = "none"
  <2>1. NewClient(NoServer) \in Client /\ NewClient(NoServer).sock = "none"
    BY AClient
  <2> QED BY <1>1, <2>1
<1>3. ConfigTypes' /\ ScreenTypes'
  <2>1. running' \in BOOLEAN
    BY <1>1
  <2> QED BY <1>1, <2>1 DEF IInv, ConfigTypes, ScreenTypes
<1>4. WorkTypes' /\ Unique' /\ Past'
  BY <1>1, <1>2, Numbers DEF IInv, WorkTypes, Unique, Past, NoClient
<1>5. ClientInv' /\ InboxInv'
  BY <1>1, <1>2 DEF ClientInv, InboxInv
<1>6. DrivenInv'
  <2>1. Driven' => Driven
    BY <1>1 DEF Driven
  <2> QED BY <1>1, <2>1 DEF IInv, DrivenInv
<1>7. NothingLeaks'
  BY <1>1 DEF NothingLeaks
<1> QED BY <1>3, <1>4, <1>5, <1>6, <1>7 DEF IInv

(* The passphrase starts a new generation.                                 *)
LEMMA PassphraseResultInv == ASSUME IInv, PassphraseResult PROVE IInv'
<1> USE DEF configVars, stateVars, screenVars, histVars
<1>1. PICK m \in inbox :
        /\ m.gen = connGen /\ m.type = "passphrase" /\ m.arg # "cancel"
        /\ inbox' = inbox \ {m} /\ cache' = [cache EXCEPT ![m.key] = m.arg]
        /\ StartConnect(cfg, client)
        /\ UNCHANGED <<configVars, stateVars, client, waits, screenVars, cl, disk, stray, running>>
  BY DEF PassphraseResult, Current
<1>2. cfg \in Servers /\ Driven
  BY <1>1 DEF IInv, ConfigTypes, Driven
<1>3. /\ WorkTypes' /\ Unique' /\ Past' /\ ClientInv' /\ InboxInv' /\ DrivenInv' /\ NothingLeaks'
  <2>1. connState' = "Offline" => stray'
    BY <1>1, <1>2 DEF IInv, DrivenInv
  <2>2. PICK c : c = client
    OBVIOUS
  <2> QED BY <1>1, <1>2, <2>1, <2>2, Started DEF Results
<1>4. ConfigTypes' /\ ScreenTypes'
  <2>1. m.arg \in Passphrases
    BY <1>1 DEF IInv, WorkTypes, Messages
  <2>2. cache' \in [Servers -> Passphrases]
    BY <1>1, <2>1 DEF IInv, ScreenTypes
  <2>3. dismissed' \in BOOLEAN
    BY <1>1 DEF StartConnect
  <2> QED BY <1>1, <2>2, <2>3 DEF IInv, ConfigTypes, ScreenTypes
<1> QED BY <1>3, <1>4 DEF IInv

(* A timer of the present generation starts a new one.                     *)
LEMMA TimerInv == ASSUME IInv, Timer PROVE IInv'
<1> USE DEF configVars, stateVars, screenVars, histVars
<1>1. PICK m \in inbox :
        /\ m.gen = connGen /\ m.type \in {"ladder", "backoff"} /\ inbox' = inbox \ {m}
        /\ StartConnect(cfg, client)
        /\ UNCHANGED <<configVars, stateVars, client, waits, screenVars, cache, cl, disk, stray, running>>
  BY DEF Timer, Current
<1>2. cfg \in Servers /\ Driven
  BY <1>1 DEF IInv, ConfigTypes, Driven
<1>3. /\ WorkTypes' /\ Unique' /\ Past' /\ ClientInv' /\ InboxInv' /\ DrivenInv' /\ NothingLeaks'
  <2>1. connState' = "Offline" => stray'
    BY <1>1, <1>2 DEF IInv, DrivenInv
  <2>2. PICK c : c = client
    OBVIOUS
  <2> QED BY <1>1, <1>2, <2>1, <2>2, Started DEF Results
<1>4. ConfigTypes' /\ ScreenTypes'
  <2>1. dismissed' \in BOOLEAN
    BY <1>1 DEF StartConnect
  <2> QED BY <1>1, <2>1 DEF IInv, ConfigTypes, ScreenTypes
<1> QED BY <1>3, <1>4 DEF IInv

(* [r] starts a new generation; Offline, it is a stray request.            *)
LEMMA RetryInv == ASSUME IInv, Retry PROVE IInv'
<1> USE DEF configVars, stateVars, screenVars, histVars
<1>1. PICK m \in inbox :
        /\ m.type = "retry" /\ inbox' = inbox \ {m}
        /\ StartConnect(cfg, client) /\ stray' = (stray \/ connState = "Offline")
        /\ UNCHANGED <<configVars, stateVars, client, waits, screenVars, cache, cl, disk, running>>
  BY DEF Retry
<1>2. cfg \in Servers
  BY DEF IInv, ConfigTypes
<1>3. /\ WorkTypes' /\ Unique' /\ Past' /\ ClientInv' /\ InboxInv' /\ DrivenInv' /\ NothingLeaks'
  <2>1. connState' = "Offline" => stray'
    BY <1>1
  <2>2. PICK c : c = client
    OBVIOUS
  <2> QED BY <1>1, <1>2, <2>1, <2>2, Started DEF Results
<1>4. ConfigTypes' /\ ScreenTypes'
  <2>1. dismissed' \in BOOLEAN /\ stray' \in BOOLEAN
    BY <1>1 DEF StartConnect
  <2> QED BY <1>1, <2>1 DEF IInv, ConfigTypes, ScreenTypes
<1> QED BY <1>3, <1>4 DEF IInv

(* A reconnect without a Client changes nothing: something else decides.   *)
LEMMA ReconnectInv == ASSUME IInv, Reconnect PROVE IInv'
<1> USE DEF configVars, stateVars, screenVars, histVars
<1>1. PICK m \in inbox :
        /\ m.type = "reconnect" /\ inbox' = inbox \ {m}
        /\ \/ UNCHANGED <<cl, connGen, attempts, histVars>>
           \/ /\ cl' = Closed(cl, client) /\ StartConnect(cfg, client)
              /\ stray' = (stray \/ connState = "Offline")
        /\ UNCHANGED <<configVars, stateVars, client, waits, screenVars, cache, disk, running>>
  BY DEF Reconnect
<1>2. CASE UNCHANGED <<cl, connGen, attempts, histVars>>
  <2>1. m.gen = 0 /\ connGen # 0
    BY <1>1, Numbers DEF IInv, Past, WorkTypes
  <2>2. ConfigTypes' /\ ScreenTypes' /\ WorkTypes' /\ Unique' /\ Past' /\ ClientInv' /\ InboxInv'
    BY <1>1, <1>2 DEF IInv, ConfigTypes, ScreenTypes, WorkTypes, Unique, Past, ClientInv, InboxInv
  <2>3. DrivenInv'
    <3>1. Driven' <=> Driven
      BY <1>1, <1>2, <2>1 DEF Driven
    <3>2. (\E x \in inbox : x.type = "retry") => \E x \in inbox' : x.type = "retry"
      BY <1>1
    <3> QED BY <1>1, <1>2, <3>1, <3>2 DEF IInv, DrivenInv
  <2>4. NothingLeaks'
    BY <1>1, <1>2 DEF IInv, NothingLeaks
  <2> QED BY <2>2, <2>3, <2>4 DEF IInv
<1>3. CASE /\ cl' = Closed(cl, client) /\ StartConnect(cfg, client)
           /\ stray' = (stray \/ connState = "Offline")
  <2>1. cfg \in Servers
    BY DEF IInv, ConfigTypes
  <2>2. /\ WorkTypes' /\ Unique' /\ Past' /\ ClientInv' /\ InboxInv' /\ DrivenInv' /\ NothingLeaks'
    <3>1. connState' = "Offline" => stray'
      BY <1>1, <1>3
    <3>2. PICK c : c = client
      OBVIOUS
    <3> QED BY <1>1, <1>3, <2>1, <3>1, <3>2, Started DEF Results
  <2>3. ConfigTypes' /\ ScreenTypes'
    <3>1. dismissed' \in BOOLEAN /\ stray' \in BOOLEAN
      BY <1>3 DEF StartConnect
    <3> QED BY <1>1, <3>1 DEF IInv, ConfigTypes, ScreenTypes
  <2> QED BY <2>2, <2>3 DEF IInv
<1> QED BY <1>1, <1>2, <1>3

-----------------------------------------------------------------------------
(* Going online starts a new generation.                                   *)
LEMMA GoOnlineInv == ASSUME IInv, GoOnline PROVE IInv'
<1> USE DEF configVars, stateVars, screenVars, histVars
<1>1. /\ initial' = 0 /\ reconnecting' = FALSE /\ connState' = "Connecting" /\ stray' = FALSE
      /\ StartConnect(cfg, client)
      /\ UNCHANGED <<configVars, client, inbox, waits, screenVars, cache, cl, disk, running>>
  BY DEF GoOnline
<1>2. cfg \in Servers
  BY DEF IInv, ConfigTypes
<1>3. /\ WorkTypes' /\ Unique' /\ Past' /\ ClientInv' /\ InboxInv' /\ DrivenInv' /\ NothingLeaks'
  <2>1. PICK c : c = client
    OBVIOUS
  <2> QED BY <1>1, <1>2, <2>1, Started
<1>4. ConfigTypes' /\ ScreenTypes'
  <2>1. dismissed' \in BOOLEAN /\ stray' \in BOOLEAN /\ reconnecting' \in BOOLEAN
    BY <1>1 DEF StartConnect
  <2>2. connState' \in ConnStates /\ initial' \in 0..(Ladder - 1)
    BY <1>1, SessionAssumption DEF ConnStates
  <2> QED BY <1>1, <2>1, <2>2 DEF IInv, ConfigTypes, ScreenTypes
<1> QED BY <1>3, <1>4 DEF IInv

(* Going offline starts a generation that nothing decides.                 *)
LEMMA GoOfflineInv == ASSUME IInv, GoOffline PROVE IInv'
<1> USE DEF configVars, stateVars, screenVars, histVars
<1>1. /\ connGen < MaxGen /\ connGen' = connGen + 1 /\ cl' = Disconnected(cl, client)
      /\ initial' = 0 /\ reconnecting' = FALSE /\ connState' = "Offline"
      /\ UNCHANGED <<configVars, client, attempts, inbox, waits, screenVars, cache,
                     disk, histVars, running>>
  BY DEF GoOffline
<1>2. /\ connGen \in Nat /\ connGen' \in Gens /\ client \in 0..MaxGen /\ cl \in [Gens -> Client]
      /\ \A g \in 0..MaxGen : g <= connGen => g <= connGen' /\ g # connGen'
  BY <1>1, Numbers DEF IInv, WorkTypes, Gens
<1>3. /\ cl' \in [Gens -> Client] /\ \A g \in Gens : g # client => cl'[g] = cl[g]
      /\ \A g \in Gens : /\ cl'[g].server = cl[g].server
                         /\ cl[g].sock = "none" => cl'[g].sock = "none"
  BY <1>1, <1>2, Severed
<1>4. /\ \A a \in attempts : a.gen \in Gens /\ a.gen <= connGen' /\ a.gen # connGen' /\ a.gen # client
      /\ \A m \in inbox : m.gen <= connGen' /\ m.gen # connGen'
      /\ \A g \in waits : g <= connGen' /\ g # connGen'
      /\ dialog.gen <= connGen' /\ dialog.gen # connGen'
      /\ client <= connGen' /\ client # connGen'
  BY <1>2, Numbers DEF IInv, WorkTypes, Past, Attempts, Messages, ClientInv
<1>5. ConfigTypes' /\ ScreenTypes'
  <2>1. reconnecting' \in BOOLEAN
    BY <1>1
  <2>2. connState' \in ConnStates /\ initial' \in 0..(Ladder - 1)
    BY <1>1, SessionAssumption DEF ConnStates
  <2> QED BY <1>1, <2>1, <2>2 DEF IInv, ConfigTypes, ScreenTypes
<1>6. WorkTypes' /\ Unique'
  BY <1>1, <1>2, <1>3 DEF IInv, WorkTypes, Unique
<1>7. Past'
  BY <1>1, <1>4 DEF IInv, Past
<1>8. ClientInv'
  <2>1. client # NoClient => client \in Gens
    BY <1>2, Numbers
  <2>2. \A g \in Gens : g > connGen' => g > connGen /\ g # client
    BY <1>1, <1>2, <1>4, Numbers
  <2> QED BY <1>1, <1>3, <1>4, <2>1, <2>2 DEF IInv, ClientInv
<1>9. InboxInv' /\ DrivenInv'
  BY <1>1, <1>4 DEF IInv, InboxInv, DrivenInv, Driven
<1>10. NothingLeaks'
  BY <1>1, <1>3 DEF IInv, NothingLeaks
<1> QED BY <1>5, <1>6, <1>7, <1>8, <1>9, <1>10 DEF IInv

(* The two keys that ask without a generation; [r] closes the overlay.     *)
LEMMA PressInv == ASSUME IInv, PressReconnect \/ PressRetry PROVE IInv'
<1> USE DEF configVars, stateVars, screenVars, histVars
<1>1. PICK m \in Messages :
         /\ m.gen = 0 /\ m.type \in {"reconnect", "retry"}
         /\ inbox' = inbox \cup {m}
         /\ overlay' = overlay \/ (overlay' = FALSE /\ m.type = "retry")
  <2>1. /\ Msg("reconnect", 0) \in Messages /\ Msg("reconnect", 0).gen = 0
        /\ Msg("reconnect", 0).type = "reconnect"
        /\ Msg("retry", 0) \in Messages /\ Msg("retry", 0).gen = 0
        /\ Msg("retry", 0).type = "retry"
    BY AMessage, Numbers DEF MsgTypes
  <2> QED BY <2>1 DEF PressReconnect, PressRetry
<1>2. UNCHANGED <<configVars, connGen, stateVars, client, attempts, waits,
                  dialog, menu, cache, cl, disk, histVars, running>>
  BY DEF PressReconnect, PressRetry
<1>3. connGen \in Gens /\ connGen # 0 /\ 0 \notin waits /\ 0 <= connGen
      /\ \A a \in attempts : a.gen # 0
  BY Numbers DEF IInv, WorkTypes, Attempts
<1>4. ConfigTypes' /\ ScreenTypes' /\ WorkTypes'
  <2>1. overlay' \in BOOLEAN
    <3>1. overlay \in BOOLEAN
      BY DEF IInv, ScreenTypes
    <3> QED BY <1>1, <3>1
  <2> QED BY <1>1, <1>2, <2>1 DEF IInv, ConfigTypes, ScreenTypes, WorkTypes
<1>5. Unique'
  BY <1>1, <1>2, <1>3 DEF IInv, Unique
<1>6. Past' /\ ClientInv' /\ InboxInv'
  BY <1>1, <1>2, <1>3 DEF IInv, Past, ClientInv, InboxInv, Results
<1>7. DrivenInv'
  <2>1. Driven' <=> Driven
    BY <1>1, <1>2, <1>3 DEF Driven
  <2> QED BY <1>1, <1>2, <2>1 DEF IInv, DrivenInv
<1>8. NothingLeaks'
  BY <1>1, <1>2 DEF IInv, NothingLeaks
<1> QED BY <1>4, <1>5, <1>6, <1>7, <1>8 DEF IInv

(* What was typed takes the place of the dialog.                           *)
LEMMA TypePassphraseInv ==
  ASSUME IInv, NEW arg \in Passphrases \cup {"cancel"}, TypePassphrase(arg)
  PROVE  IInv'
<1> USE DEF configVars, stateVars, screenVars, histVars
<1>1. /\ dialog' = NoDialog /\ inbox' = inbox \cup {Keyed("passphrase", dialog.gen, dialog.key, arg)}
      /\ UNCHANGED <<configVars, connGen, stateVars, client, attempts, waits,
                     overlay, menu, cache, cl, disk, histVars, running>>
  BY DEF TypePassphrase
<1>2. dialog.gen \in 0..MaxGen /\ dialog.gen # 0 /\ dialog.gen \in Gens /\ dialog.key \in Servers \cup {NoServer}
  BY Numbers DEF TypePassphrase, IInv, WorkTypes, Past, NoClient
<1>3. PICK m \in Messages : /\ m.gen = dialog.gen /\ m.type = "passphrase"
                            /\ inbox' = inbox \cup {m}
  <2>1. \A g \in 0..MaxGen, k \in Servers \cup {NoServer} :
           /\ Keyed("passphrase", g, k, arg) \in Messages
           /\ Keyed("passphrase", g, k, arg).gen = g
           /\ Keyed("passphrase", g, k, arg).type = "passphrase"
    BY AKeyedMessage DEF MsgTypes
  <2> QED BY <1>1, <1>2, <2>1
<1>4. /\ dialog' \in [gen : 0..MaxGen, key : Servers \cup {NoServer}] /\ dialog'.gen = 0
      /\ connGen \in Gens /\ connGen # 0 /\ 0 \notin waits /\ 0 <= connGen /\ dialog.gen <= connGen
      /\ \A a \in attempts : a.gen # 0
  BY <1>1, Numbers DEF NoDialog, IInv, WorkTypes, Attempts, Past
<1>5. ConfigTypes' /\ ScreenTypes' /\ WorkTypes'
  BY <1>1, <1>3, <1>4 DEF IInv, ConfigTypes, ScreenTypes, WorkTypes
<1>6. Unique'
  BY <1>1, <1>2, <1>3, <1>4 DEF IInv, Unique
<1>7. Past' /\ ClientInv' /\ InboxInv'
  BY <1>1, <1>2, <1>3, <1>4 DEF IInv, Past, ClientInv, InboxInv, Results
<1>8. DrivenInv'
  <2>1. Driven' <=> Driven
    BY <1>1, <1>2, <1>3, <1>4 DEF Driven
  <2> QED BY <1>1, <1>3, <2>1 DEF IInv, DrivenInv
<1>9. NothingLeaks'
  BY <1>1, <1>3 DEF IInv, NothingLeaks
<1> QED BY <1>5, <1>6, <1>7, <1>8, <1>9 DEF IInv

(* Steps that change neither the work under way nor the connection state.  *)
LEMMA Idle ==
  ASSUME IInv, UNCHANGED <<cfg, connGen, connState, client, attempts, inbox, waits, dialog,
                           cl, stray, running>>,
         dismissed' \/ ~dismissed, overlay' \/ dismissed' \/ ~overlay
  PROVE  WorkTypes' /\ Unique' /\ Past' /\ ClientInv' /\ InboxInv' /\ DrivenInv' /\ NothingLeaks'
<1>1. WorkTypes' /\ Unique' /\ Past' /\ ClientInv' /\ InboxInv'
  BY DEF IInv, WorkTypes, Unique, Past, ClientInv, InboxInv
<1>2. DrivenInv'
  BY DEF IInv, DrivenInv, Driven
<1>3. NothingLeaks'
  BY DEF IInv, NothingLeaks
<1> QED BY <1>1, <1>2, <1>3

(* A menu opens, perhaps over the overlay, or closes.                      *)
LEMMA MenuInv == ASSUME IInv, OpenMenu \/ CloseMenu PROVE IInv'
<1> USE DEF configVars, stateVars, screenVars, histVars
<1>1. CASE OpenMenu
  <2>1. /\ menu' = TRUE /\ overlay' = FALSE /\ dismissed' = (dismissed \/ overlay)
        /\ UNCHANGED <<configVars, connGen, stateVars, client, attempts, inbox, waits,
                       dialog, cache, cl, disk, stray, running>>
    BY <1>1 DEF OpenMenu
  <2>2. menu' \in BOOLEAN /\ overlay' \in BOOLEAN /\ dismissed' \in BOOLEAN
    BY <2>1
  <2>3. ConfigTypes' /\ ScreenTypes'
    BY <2>1, <2>2 DEF IInv, ConfigTypes, ScreenTypes
  <2> QED BY <2>1, <2>3, Idle DEF IInv
<1>2. CASE CloseMenu
  <2>1. /\ menu' = FALSE
        /\ UNCHANGED <<configVars, connGen, stateVars, client, attempts, inbox, waits,
                       overlay, dialog, cache, cl, disk, histVars, running>>
    BY <1>2 DEF CloseMenu
  <2>2. menu' \in BOOLEAN
    BY <2>1
  <2>3. ConfigTypes' /\ ScreenTypes'
    BY <2>1, <2>2 DEF IInv, ConfigTypes, ScreenTypes
  <2> QED BY <2>1, <2>3, Idle DEF IInv
<1> QED BY <1>1, <1>2

(* Switching servers closes the Client in use and starts a new generation  *)
(* for the chosen one.                                                     *)
LEMMA Switched ==
  ASSUME IInv, NEW list \in Seq(Servers), NEW i \in 1..Len(list), Switch(list, i)
  PROVE  IInv'
<1> USE DEF configVars, stateVars, screenVars, histVars
<1>1. /\ servers' = list /\ serverIdx' = i /\ cfg' = list[i] /\ list[i] \in Servers
      /\ StartConnect(list[i], NoClient) /\ cl' = Closed(cl, client) /\ client' = NoClient
      /\ initial' = 0 /\ reconnecting' = FALSE /\ connState' = "Connecting"
      /\ overlay' = FALSE /\ dialog' = NoDialog /\ menu' = FALSE /\ stray' = FALSE
      /\ UNCHANGED <<inbox, waits, cache, disk, running>>
  BY DEF Switch
<1>2. PICK s \in Servers : s = list[i]
  BY <1>1
<1>3. PICK c : c = NoClient
  OBVIOUS
<1>4. StartConnect(s, c) /\ cfg' = s /\ connState' # "Offline"
  BY <1>1, <1>2, <1>3
<1>5. /\ WorkTypes' /\ Unique' /\ Past' /\ ClientInv' /\ InboxInv' /\ DrivenInv' /\ NothingLeaks'
  BY <1>1, <1>4, Started
<1>6. ScreenTypes'
  <2>1. /\ reconnecting' \in BOOLEAN /\ overlay' \in BOOLEAN /\ menu' \in BOOLEAN
        /\ dismissed' \in BOOLEAN /\ stray' \in BOOLEAN
    BY <1>1 DEF StartConnect
  <2>2. connState' \in ConnStates /\ initial' \in 0..(Ladder - 1)
    BY <1>1, SessionAssumption DEF ConnStates
  <2> QED BY <1>1, <2>1, <2>2 DEF IInv, ScreenTypes
<1>7. ConfigTypes'
  BY <1>1 DEF ConfigTypes
<1> QED BY <1>5, <1>6, <1>7 DEF IInv

(* See Switched; the current server only closes the menu.                  *)
LEMMA SwitchServerInv == ASSUME IInv, NEW i, SwitchServer(i) PROVE IInv'
<1> USE DEF configVars, stateVars, screenVars, histVars
<1>1. servers \in Seq(Servers) /\ i \in 1..Len(servers)
  BY DEF SwitchServer, IInv, ConfigTypes
<1>2. CASE i # serverIdx
  <2>1. PICK list \in Seq(Servers) : list = servers
    BY <1>1
  <2> QED BY <1>1, <1>2, <2>1, Switched DEF SwitchServer
<1>3. CASE i = serverIdx
  <2>1. /\ menu' = FALSE
        /\ UNCHANGED <<configVars, connGen, stateVars, client, attempts, inbox,
                       waits, overlay, dialog, cache, cl, disk, histVars, running>>
    BY <1>3 DEF SwitchServer
  <2>2. menu' \in BOOLEAN
    BY <2>1
  <2>3. ConfigTypes' /\ ScreenTypes'
    BY <2>1, <2>2 DEF IInv, ConfigTypes, ScreenTypes
  <2> QED BY <2>1, <2>3, Idle DEF IInv
<1> QED BY <1>2, <1>3

(* See Switched.                                                           *)
LEMMA AddServerInv == ASSUME IInv, NEW s \in Servers, AddServer(s) PROVE IInv'
<1>1. Switch(Append(servers, s), Len(servers) + 1) /\ servers \in Seq(Servers)
  BY DEF AddServer, IInv, ConfigTypes
<1>2. /\ Append(servers, s) \in Seq(Servers)
      /\ Len(servers) + 1 \in 1..Len(Append(servers, s))
  BY <1>1
<1>3. PICK list \in Seq(Servers), i \in 1..Len(Append(servers, s)) :
         list = Append(servers, s) /\ i = Len(servers) + 1
  BY <1>2
<1> QED BY <1>1, <1>3, Switched

(* The current server keeps its place in the shorter list.                 *)
LEMMA RemoveServerInv == ASSUME IInv, NEW i, RemoveServer(i) PROVE IInv'
<1> USE DEF configVars, stateVars, screenVars, histVars
<1>1. /\ i \in 1..Len(servers) /\ i # serverIdx /\ servers' = RemoveAt(servers, i)
      /\ serverIdx' = IF i < serverIdx THEN serverIdx - 1 ELSE serverIdx
      /\ disk' = disk \ {servers[i]}
      /\ UNCHANGED <<cfg, connGen, stateVars, client, attempts, inbox, waits,
                     screenVars, cache, cl, histVars, running>>
      /\ servers \in Seq(Servers) /\ serverIdx \in 1..Len(servers) /\ servers[serverIdx] = cfg
  BY DEF RemoveServer, IInv, ConfigTypes
<1>2. /\ servers' \in Seq(Servers) /\ Len(servers') = Len(servers) - 1 /\ Len(servers) \in Nat
      /\ \A k \in 1..Len(servers) - 1 : servers'[k] = IF k < i THEN servers[k] ELSE servers[k + 1]
  <2>1. PICK s \in Seq(Servers) : s = servers
    BY <1>1
  <2>2. /\ RemoveAt(s, i) \in Seq(Servers) /\ Len(RemoveAt(s, i)) = Len(s) - 1
        /\ \A k \in 1..Len(s) - 1 : RemoveAt(s, i)[k] = IF k < i THEN s[k] ELSE s[k + 1]
    BY <1>1, <2>1, Removed
  <2>3. Len(s) \in Nat
    OBVIOUS
  <2> QED BY <1>1, <2>1, <2>2, <2>3
<1>3. serverIdx' \in 1..Len(servers') /\ servers'[serverIdx'] = cfg
  <2>1. CASE i < serverIdx
    <3>1. serverIdx' = serverIdx - 1 /\ serverIdx - 1 \in 1..Len(servers) - 1
          /\ ~(serverIdx - 1 < i) /\ (serverIdx - 1) + 1 = serverIdx
      BY <1>1, <1>2, <2>1
    <3> QED BY <1>1, <1>2, <3>1
  <2>2. CASE ~(i < serverIdx)
    <3>1. serverIdx' = serverIdx /\ serverIdx \in 1..Len(servers) - 1 /\ serverIdx < i
      BY <1>1, <1>2, <2>2
    <3> QED BY <1>1, <1>2, <3>1
  <2> QED BY <2>1, <2>2
<1>4. ConfigTypes' /\ ScreenTypes'
  BY <1>1, <1>2, <1>3 DEF IInv, ConfigTypes, ScreenTypes
<1> QED BY <1>1, <1>4, Idle DEF IInv

-----------------------------------------------------------------------------
(* The first generation is decided by its attempt.                         *)
LEMMA InitInv == Init => IInv
<1> SUFFICES ASSUME Init PROVE IInv
  OBVIOUS
<1> USE DEF Init
<1>0. 1 \in Gens /\ 1 \in Nat /\ 0 \in 0..MaxGen /\ 1 # 0 /\ 0 <= 1
  BY Numbers, SessionAssumption DEF Gens
<1>1. ConfigTypes
  <2>1. Configured \in Seq(Servers) /\ Len(Configured) \in Nat \ {0}
    BY SessionAssumption
  <2>2. 1 \in 1..Len(Configured) /\ Configured[1] \in Servers
    BY <2>1
  <2> QED BY <2>1, <2>2 DEF ConfigTypes
<1>2. ScreenTypes
  <2>1. /\ reconnecting \in BOOLEAN /\ overlay \in BOOLEAN /\ menu \in BOOLEAN
        /\ dismissed \in BOOLEAN /\ stray \in BOOLEAN /\ running \in BOOLEAN
    OBVIOUS
  <2>2. cache \in [Servers -> Passphrases] /\ disk \subseteq Servers
    BY DEF Passphrases
  <2>3. connState \in ConnStates /\ initial \in 0..(Ladder - 1)
    BY SessionAssumption DEF ConnStates
  <2> QED BY <2>1, <2>2, <2>3 DEF ScreenTypes
<1>3. PICK n \in Attempts : /\ attempts = {n} /\ n.gen = 1 /\ n.server = cfg /\ n.pc = "start"
  <2>1. cfg \in Servers /\ TRUE \in BOOLEAN
    BY <1>1 DEF ConfigTypes
  <2>2. PICK b \in BOOLEAN : b = TRUE
    OBVIOUS
  <2>3. attempts = {NewAttempt(1, cfg, b)}
    BY <2>2
  <2>4. PICK s \in Servers : s = cfg
    BY <2>1
  <2>5. /\ NewAttempt(1, s, b) \in Attempts /\ NewAttempt(1, s, b).gen = 1
        /\ NewAttempt(1, s, b).server = s /\ NewAttempt(1, s, b).pc = "start"
    BY <1>0, AnAttempt
  <2> QED BY <2>3, <2>4, <2>5
<1>4. /\ cl \in [Gens -> Client] /\ \A g \in Gens : cl[g] = NewClient(NoServer)
      /\ NewClient(NoServer).sock = "none" /\ NewClient(NoServer).store = "none"
  <2>1. NewClient(NoServer) \in Client /\ NewClient(NoServer).sock = "none" /\ NewClient(NoServer).store = "none"
    BY AClient
  <2> QED BY <2>1
<1>5. dialog \in [gen : 0..MaxGen, key : Servers \cup {NoServer}] /\ dialog.gen = 0 /\ dialog = NoDialog
  BY <1>0 DEF NoDialog
<1>6. WorkTypes /\ Unique /\ Past
  <2>1. WorkTypes
    <3>1. connGen = 1 /\ client = 0 /\ inbox = {} /\ waits = {}
      BY DEF NoClient
    <3> QED BY <1>0, <1>3, <1>4, <1>5, <3>1 DEF WorkTypes
  <2>2. Unique
    BY <1>0, <1>3, <1>5 DEF Unique
  <2>3. Past
    <3>1. connGen = 1 /\ client = 0 /\ inbox = {} /\ waits = {} /\ attempts = {n} /\ n.gen = 1
      BY <1>3 DEF NoClient
    <3> HIDE DEF Init
    <3>2. ASSUME NEW a \in attempts PROVE a.gen <= connGen
      <4>1. a.gen = 1 /\ connGen = 1
        BY <3>1
      <4> QED BY <4>1
    <3> QED BY <1>5, <3>1, <3>2 DEF Past
  <2> QED BY <2>1, <2>2, <2>3
<1>7. ClientInv /\ InboxInv
  BY <1>0, <1>3, <1>4 DEF ClientInv, InboxInv, NoClient
<1>8. DrivenInv /\ NothingLeaks
  BY <1>3, <1>4 DEF DrivenInv, Driven, NothingLeaks
<1> QED BY <1>1, <1>2, <1>6, <1>7, <1>8 DEF IInv

(* A step of some other component.                                         *)
LEMMA StutterInv == ASSUME IInv, UNCHANGED vars PROVE IInv'
<1> USE DEF vars, configVars, stateVars, screenVars, histVars
<1>1. ConfigTypes' /\ ScreenTypes'
  BY DEF IInv, ConfigTypes, ScreenTypes
<1> QED BY <1>1, Idle DEF IInv

(* No step of a goroutine, of Update or of the keys breaks IInv.           *)
LEMMA StepInv == ASSUME IInv, [Next]_vars PROVE IInv'
<1>1. CASE Goroutines
  BY <1>1, PreflightInv, WrongPassphraseInv, HandshakeInv, ConnectReturnsInv, DialFailsInv,
     LinkEndsInv, SyncCompleteInv, WaitReturnsInv DEF Goroutines, Attempt
<1>2. CASE Update
  BY <1>2, DropStaleInv, ConnectedInv, EventInv, ErrInv, OfflineClientInv, PassphraseNeededInv,
     PassphraseResultInv, ExitInv, TimerInv, RetryInv, ReconnectInv DEF Update, PassphraseCancelled
<1>3. CASE Keys
  BY <1>3, GoOnlineInv, GoOfflineInv, PressInv, TypePassphraseInv, MenuInv, SwitchServerInv,
     RemoveServerInv, AddServerInv, ExitInv DEF Keys, Quit
<1>4. CASE UNCHANGED vars
  BY <1>4, StutterInv
<1> QED BY <1>1, <1>2, <1>3, <1>4 DEF Next

(* The inductive invariant of the connection lifecycle (tui/app.go,        *)
(* client/client.go), for any servers, ladder and number of generations.   *)
THEOREM Inductive == Spec => []IInv
<1>1. Init => IInv
  BY InitInv
<1>2. IInv /\ [Next]_vars => IInv'
  BY StepInv
<1> QED BY <1>1, <1>2, PTL DEF Spec

(* Every variable of the connection lifecycle keeps to its kind.           *)
THEOREM Typing == Spec => []TypeOK
<1>1. IInv => TypeOK
  BY DEF IInv, ConfigTypes, ScreenTypes, WorkTypes, TypeOK
<1> QED BY <1>1, Inductive, PTL

(* The Client in use talks to the server the user has chosen, which is the *)
(* one config.toml calls current, however late an attempt for another      *)
(* server returns (app.go:4127-4137).                                      *)
THEOREM TalksToTheChosenServer == Spec => []CurrentServerOnly
<1>1. IInv => CurrentServerOnly
  BY DEF IInv, ConfigTypes, ClientInv, CurrentServerOnly
<1> QED BY <1>1, Inductive, PTL

(* A live connection or an open database has an owner, but for the one a   *)
(* failed dial opens in vain (app.go:1322).                                *)
THEOREM ClosesWhatItOpens == Spec => []NothingLeaks
<1>1. IInv => NothingLeaks
  BY DEF IInv
<1> QED BY <1>1, Inductive, PTL

(* At most one thing decides the present generation, and while the user    *)
(* waits for the network not none (app.go:1008-1016, 1336-1349).           *)
THEOREM OneThingDecides == Spec => []DrivenOnce
<1>1. IInv => DrivenOnce
  <2> SUFFICES ASSUME IInv PROVE DrivenOnce
    OBVIOUS
  <2>1. Drivers = IF Driven THEN 1 ELSE 0
    BY Count DEF IInv
  <2>2. \A m \in inbox : m.type = "retry" => m.gen = 0
    BY DEF IInv, Past
  <2> QED BY <2>1, <2>2 DEF IInv, DrivenInv, DrivenOnce, OneDriver, NoWedge
<1> QED BY <1>1, Inductive, PTL

(* Offline, nothing of the present generation is dialled or due, unless a  *)
(* retry or reconnect asked for earlier was handled (app.go:738-742).      *)
THEOREM OfflineStaysQuiet == Spec => []OfflineIsQuiet
<1>1. IInv => OfflineIsQuiet
  <2> SUFFICES ASSUME IInv PROVE OfflineIsQuiet
    OBVIOUS
  <2>1. Drivers = IF Driven THEN 1 ELSE 0
    BY Count DEF IInv
  <2> QED BY <2>1 DEF IInv, DrivenInv, OfflineIsQuiet
<1> QED BY <1>1, Inductive, PTL

=============================================================================
