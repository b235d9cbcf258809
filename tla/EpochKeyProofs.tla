--------------------------- MODULE EpochKeyProofs ---------------------------
(***************************************************************************)
(* Theorems of EpochKeys, for any members, epochs, messages and bounds,    *)
(* from EpochKeysAssumption.  The argument has two halves.  A key in       *)
(* memory, in the database or between the two on the TUI's goroutine is    *)
(* this client's own or the one the room agreed on (KeyInv).  And the wire *)
(* keeps its order: before a message comes the key of its epoch, unless it *)
(* is in memory or was refused (OrderInv), so that what the readLoop finds *)
(* when it decrypts is settled by the frames it has passed.                *)
(***************************************************************************)
EXTENDS EpochKeys, TLAPS

(* The kinds of the variables, in groups the provers can take in.          *)
KeyTypes ==
  /\ phase \in {"off", "hello", "on"}
  /\ keys \in [Epochs -> Keys] /\ dbKeys \in [Epochs -> Keys]
  /\ loading \in [e : 0..MaxEpoch, key : Keys]
  /\ {current, rotated, stash} \subseteq 0..MaxEpoch
  /\ hist \in SUBSET Epochs

StoreTypes ==
  /\ roster = Cold \/ roster \in Rosters
  /\ dbRoster = Cold \/ dbRoster \in Rosters
  /\ {lastSynced, dbSynced, hello} \subseteq Nat
  /\ row \in [Messages -> RowStates]

RoomTypes ==
  /\ members \in Rosters /\ dirty \in BOOLEAN
  /\ epoch \in Epochs /\ log \in Seq(Epochs)
  /\ winner \in [Epochs -> Keys] /\ attested \in [Epochs -> Rosters]
  /\ offered \in SUBSET Epochs /\ refused \in SUBSET Epochs
  /\ generated \in [Epochs -> Nat]
  /\ changes \in Nat /\ sessions \in Nat

Request == [kind : {"room_members", "epoch_rotate"}, e : Nat, set : Rosters]

WireTypes == toClient \in Seq(Frame) /\ toServer \in Seq(Request)

(* A key that may be in memory or in the database for epoch e.             *)
KeyOK(e, k) ==
  /\ k \in {"none", "mine", "theirs"}
  /\ k = "mine" => generated[e] # 0
  /\ k = "theirs" => winner[e] = "theirs"

(* The epochs that have begun are those with a key, and the client made    *)
(* the keys it won with.                                                   *)
WinnerInv ==
  /\ \A e \in Epochs :
       /\ winner[e] \in {"none", "mine", "theirs"}
       /\ winner[e] # "none" <=> e <= epoch
       /\ winner[e] = "mine" => generated[e] # 0

(* Memory, the database and the lazy load of the TUI hold only such keys.  *)
KeyInv ==
  /\ \A e \in Epochs : KeyOK(e, keys[e]) /\ KeyOK(e, dbKeys[e])
  /\ loading # NoLoad =>
       /\ loading.e \in Epochs /\ loading.key # "none"
       /\ KeyOK(loading.e, loading.key)

(* The client is never ahead of the server, and holds the keys of its      *)
(* current epoch and of the one it rotated to.                             *)
CurrentInv ==
  /\ current <= epoch
  /\ current > 0 => keys[current] # "none"
  /\ rotated > 0 => keys[rotated] # "none"
  /\ stash <= epoch
  /\ phase # "off" => sessions > 0

(* What the table messages says of the epochs of its rows.                 *)
RowInv ==
  /\ Len(log) <= MaxMessages
  /\ \A i \in 1..Len(log) : log[i] <= epoch
  /\ \A i \in Messages :
       /\ row[i] # "absent" => i <= Len(log)
       /\ row[i] = "history" => log[i] < epoch
       /\ row[i] = "empty" => log[i] \in refused \cup Lost

(* What the handler of a frame relies on: the epoch has begun, the message *)
(* was posted.                                                             *)
FrameOK(f) ==
  /\ f.kind = "epoch_key" => f.e \in 1..epoch /\ f.set = attested[f.e]
  /\ f.kind = "epoch_trigger" => f.e \in Epochs
  /\ f.kind = "epoch_confirmed" => f.e \in 1..epoch
  /\ f.kind = "message" => f.e \in 1..Len(log)
  /\ f.kind = "sync_batch" => f.upto \in 0..Len(log)

(* A rotation asked for was made by this client, which still has its key   *)
(* while connected.                                                        *)
RequestOK(q) ==
  q.kind = "epoch_rotate" =>
    /\ q.e \in Epochs /\ generated[q.e] # 0
    /\ phase # "off" => keys[q.e] # "none"

(* Every frame and request on the wire is such a frame or request.         *)
FramesInv == \A n \in 1..Len(toClient) : FrameOK(toClient[n])
RequestsInv == \A n \in 1..Len(toServer) : RequestOK(toServer[n])

(* The reader of the n-th frame will have or will have refused the key of  *)
(* epoch e.                                                                *)
Announced(e, n) ==
  \/ keys[e] # "none"
  \/ e \in refused
  \/ \E m \in 1..Len(toClient) :
       m < n /\ toClient[m].kind = "epoch_key" /\ toClient[m].e = e

(* The key of an epoch comes before the messages sent under it.            *)
OrderInv ==
  phase # "off" =>
    /\ Announced(epoch, Len(toClient) + 1)
    /\ \A n \in 1..Len(toClient) :
         toClient[n].kind = "message" => Announced(log[toClient[n].e], n)

(* The inductive invariant.                                                *)
IInv ==
  /\ KeyTypes /\ StoreTypes /\ RoomTypes /\ WireTypes
  /\ WinnerInv /\ KeyInv /\ CurrentInv /\ RowInv
  /\ FramesInv /\ RequestsInv /\ OrderInv

-----------------------------------------------------------------------------
(* A channel after its first element is taken.                             *)
LEMMA TailSeq ==
  ASSUME NEW S, NEW s \in Seq(S), s # << >>
  PROVE  /\ Tail(s) \in Seq(S) /\ Head(s) \in S /\ Head(s) = s[1]
         /\ Len(s) \in Nat \ {0} /\ Len(Tail(s)) = Len(s) - 1
         /\ \A n \in 1..Len(Tail(s)) : Tail(s)[n] = s[n + 1]
OBVIOUS

(* A channel after an element is put at its end.                           *)
LEMMA AppendSeq ==
  ASSUME NEW S, NEW s \in Seq(S), NEW f \in S
  PROVE  /\ Append(s, f) \in Seq(S) /\ Len(s) \in Nat
         /\ Len(Append(s, f)) = Len(s) + 1
         /\ \A n \in 1..Len(s) : Append(s, f)[n] = s[n]
         /\ Append(s, f)[Len(s) + 1] = f
OBVIOUS

(* What the server only adds to: epochs, their member sets, posts.         *)
Grows ==
  /\ epoch <= epoch'
  /\ \A e \in 1..epoch : attested'[e] = attested[e]
  /\ Len(log) <= Len(log')
  /\ \A i \in 1..Len(log) : log'[i] = log[i]

(* While connected no key in memory is forgotten, nor a refusal.           *)
Keeps ==
  /\ \A e \in Epochs : keys[e] # "none" => keys'[e] # "none"
  /\ refused \subseteq refused'

(* The kinds that the lemmas about the wire need.                          *)
Kinds ==
  /\ toClient \in Seq(Frame) /\ epoch \in Epochs /\ log \in Seq(Epochs)
  /\ epoch \in Nat /\ Len(log) \in Nat

(* See Kinds.                                                              *)
LEMMA TypeKinds == ASSUME RoomTypes, WireTypes PROVE Kinds
BY DEF RoomTypes, WireTypes, Kinds, Epochs

(* See Kinds.                                                              *)
LEMMA NextKinds == ASSUME RoomTypes', WireTypes' PROVE Kinds'
BY DEF RoomTypes, WireTypes, Kinds, Epochs

(* A frame on its way stays true while the server only adds.               *)
LEMMA FrameKept ==
  ASSUME Kinds, Grows, Kinds', NEW f, FrameOK(f)
  PROVE  FrameOK(f)'
BY DEF Kinds, Grows, FrameOK, Epochs

(* When the head of the wire is read, the frames move up by one; an        *)
(* epoch_key that is read leaves its key or its refusal.                   *)
LEMMA AnnouncedKept ==
  ASSUME toClient \in Seq(Frame), Keeps, toClient # << >>, toClient' = Tail(toClient),
         Head(toClient).kind = "epoch_key" =>
           keys'[Head(toClient).e] # "none" \/ Head(toClient).e \in refused',
         NEW e \in Epochs, NEW n \in 1..Len(toClient), Announced(e, n + 1)
  PROVE  Announced(e, n)'
<1>1. /\ toClient' = Tail(toClient) /\ Head(toClient) = toClient[1]
      /\ Len(toClient) \in Nat \ {0} /\ Len(toClient') = Len(toClient) - 1
      /\ \A m \in 1..Len(toClient') : toClient'[m] = toClient[m + 1]
  BY TailSeq
<1>2. CASE keys[e] # "none" \/ e \in refused
  BY <1>2 DEF Announced, Keeps
<1>3. ASSUME NEW m \in 1..Len(toClient), m < n + 1,
             toClient[m].kind = "epoch_key", toClient[m].e = e
      PROVE  Announced(e, n)'
  <2>1. CASE m = 1
    BY <1>1, <1>3, <2>1 DEF Announced
  <2>2. CASE m # 1
    <3>1. m - 1 \in 1..Len(toClient') /\ toClient'[m - 1] = toClient[m] /\ m - 1 < n
      BY <1>1, <1>3, <2>2
    <3> QED BY <1>3, <3>1 DEF Announced
  <2> QED BY <2>1, <2>2
<1> QED BY <1>2, <1>3 DEF Announced

(* The wire after a handler of the readLoop has taken its frame.           *)
LEMMA Consumed ==
  ASSUME Kinds, Kinds', FramesInv, OrderInv, NEW kind, Receive(kind), Keeps,
         UNCHANGED <<phase, epoch, attested, log>>,
         kind = "epoch_key" => \/ keys'[Head(toClient).e] # "none"
                               \/ Head(toClient).e \in refused'
  PROVE  FramesInv' /\ OrderInv'
<1> USE DEF Kinds
<1>1. /\ toClient' = Tail(toClient) /\ toClient # << >>
      /\ Head(toClient) = toClient[1] /\ Head(toClient).kind = kind
      /\ Len(toClient) \in Nat \ {0} /\ Len(toClient') = Len(toClient) - 1
      /\ \A n \in 1..Len(toClient') : toClient'[n] = toClient[n + 1]
  BY TailSeq DEF Receive
<1>2. ASSUME NEW n \in 1..Len(toClient') PROVE FrameOK(toClient[n])'
  <2>1. FrameOK(toClient[n + 1])
    BY <1>1 DEF FramesInv
  <2>2. toClient'[n] = toClient[n + 1]
    BY <1>1
  <2> QED BY <2>1, <2>2 DEF FrameOK
<1>3. \A e \in Epochs, n \in 1..Len(toClient) : Announced(e, n + 1) => Announced(e, n)'
  BY <1>1, AnnouncedKept
<1>4. ASSUME phase # "off" PROVE Announced(epoch, Len(toClient) + 1)'
  <2>0. epoch \in Epochs /\ Len(toClient) \in 1..Len(toClient)
    BY <1>1
  <2>1. PICK e \in Epochs, n \in 1..Len(toClient) : e = epoch /\ n = Len(toClient)
    BY <2>0
  <2>2. Announced(e, n)'
    BY <1>3, <1>4, <2>1 DEF OrderInv
  <2> QED BY <1>1, <2>1, <2>2 DEF Announced
<1>5. ASSUME phase # "off", NEW n \in 1..Len(toClient'), toClient'[n].kind = "message"
      PROVE  Announced(log[toClient[n].e], n)'
  <2>1. n + 1 \in 1..Len(toClient) /\ n \in 1..Len(toClient) /\ toClient'[n] = toClient[n + 1]
    BY <1>1
  <2>2. Announced(log[toClient[n + 1].e], n + 1)
    BY <1>5, <2>1 DEF OrderInv
  <2>3. PICK e \in Epochs : e = log[toClient[n + 1].e]
    <3>1. toClient[n + 1].e \in 1..Len(log)
      BY <1>5, <2>1 DEF FramesInv, FrameOK
    <3>2. log[toClient[n + 1].e] \in Epochs
      BY <3>1
    <3> QED BY <3>2
  <2>4. Announced(e, n)'
    BY <1>3, <2>1, <2>2, <2>3
  <2>5. log'[toClient'[n].e] = e
    BY <2>1, <2>3
  <2> QED BY <2>4, <2>5 DEF Announced
<1> QED BY <1>2, <1>4, <1>5 DEF OrderInv, FramesInv

(* The wire, where a step leaves it alone.                                 *)
LEMMA Unsent ==
  ASSUME Kinds, Kinds', FramesInv, OrderInv, Grows, Keeps, UNCHANGED toClient,
         phase' # "off" => phase # "off",
         epoch' = epoch \/ phase = "off" \/ keys'[epoch'] # "none"
  PROVE  FramesInv' /\ OrderInv'
<1>1. ASSUME NEW n \in 1..Len(toClient') PROVE FrameOK(toClient[n])'
  <2>1. FrameOK(toClient[n])
    BY DEF FramesInv
  <2>2. PICK f : f = toClient[n]
    OBVIOUS
  <2>3. FrameOK(f)'
    BY <2>1, <2>2, FrameKept
  <2> QED BY <2>2, <2>3 DEF FrameOK
<1>2. ASSUME NEW e \in Epochs, NEW n, Announced(e, n) PROVE Announced(e, n)'
  BY <1>2 DEF Announced, Keeps
<1>3. ASSUME phase # "off" PROVE Announced(epoch, Len(toClient) + 1)'
  <2>1. CASE epoch' = epoch
    <3>1. PICK e \in Epochs : e = epoch
      BY DEF Kinds
    <3>2. PICK n : n = Len(toClient) + 1
      OBVIOUS
    <3>3. Announced(e, n)'
      BY <1>2, <1>3, <3>1, <3>2 DEF OrderInv
    <3> QED BY <2>1, <3>1, <3>2, <3>3 DEF Announced
  <2>2. CASE keys'[epoch'] # "none"
    BY <2>2 DEF Announced
  <2> QED BY <1>3, <2>1, <2>2
<1>4. ASSUME phase # "off", NEW n \in 1..Len(toClient), toClient[n].kind = "message"
      PROVE  Announced(log[toClient[n].e], n)'
  <2>1. toClient[n].e \in 1..Len(log) /\ Announced(log[toClient[n].e], n)
    BY <1>4 DEF FramesInv, FrameOK, OrderInv
  <2>2. log[toClient[n].e] \in Epochs /\ log'[toClient[n].e] = log[toClient[n].e]
    BY <2>1 DEF Kinds, Grows
  <2>3. PICK e \in Epochs : e = log[toClient[n].e]
    BY <2>2
  <2>4. Announced(e, n)'
    BY <1>2, <2>1, <2>3
  <2> QED BY <2>2, <2>3, <2>4 DEF Announced
<1> QED BY <1>1, <1>3, <1>4 DEF OrderInv, FramesInv

(* The wire after the server has put frame f at its end.                   *)
LEMMA Pushed ==
  ASSUME Kinds, Kinds', FramesInv, OrderInv, Grows, Keeps, phase' = phase,
         NEW f \in Frame, Push(f), FrameOK(f)',
         f.kind = "message" => log'[f.e] = epoch,
         \/ epoch' = epoch \/ phase = "off" \/ keys'[epoch'] # "none"
         \/ f.kind = "epoch_key" /\ f.e = epoch'
  PROVE  FramesInv' /\ OrderInv'
<1>1. CASE phase = "off"
  BY <1>1, Unsent DEF Push
<1>2. CASE phase # "off"
  <2> USE <1>2
  <2>1. /\ Len(toClient) \in Nat /\ Len(toClient') = Len(toClient) + 1
        /\ \A n \in 1..Len(toClient) : toClient'[n] = toClient[n]
        /\ toClient'[Len(toClient) + 1] = f
    BY AppendSeq DEF Push, Kinds
  <2>2. ASSUME NEW n \in 1..Len(toClient') PROVE FrameOK(toClient[n])'
    <3>1. CASE n = Len(toClient) + 1
      BY <2>1, <3>1 DEF FrameOK
    <3>2. CASE n \in 1..Len(toClient)
      <4>1. PICK g : g = toClient[n]
        OBVIOUS
      <4>2. FrameOK(g)'
        BY <3>2, <4>1, FrameKept DEF FramesInv
      <4> QED BY <2>1, <3>2, <4>1, <4>2 DEF FrameOK
    <3> QED BY <2>1, <3>1, <3>2
  <2>3. ASSUME NEW e \in Epochs, NEW n \in 1..Len(toClient) + 1, NEW k,
               k = n \/ k = n + 1, Announced(e, n)
        PROVE  Announced(e, k)'
    BY <2>1, <2>3 DEF Announced, Keeps
  <2>4. Announced(epoch, Len(toClient) + 1)
    BY DEF OrderInv
  <2>5. epoch \in Epochs /\ Len(toClient) + 1 \in 1..Len(toClient) + 1
    BY <2>1 DEF Kinds
  <2>6. PICK e \in Epochs, n \in 1..Len(toClient) + 1 : e = epoch /\ n = Len(toClient) + 1
    BY <2>5
  <2>7. Announced(e, n)' /\ Announced(e, n + 1)'
    BY <2>3, <2>4, <2>6
  <2>8. Announced(epoch, Len(toClient) + 1)'
    <3>1. CASE epoch' = epoch
      BY <2>1, <2>6, <2>7, <3>1 DEF Announced
    <3>2. CASE keys'[epoch'] # "none"
      BY <3>2 DEF Announced
    <3>3. CASE f.kind = "epoch_key" /\ f.e = epoch'
      <4>1. Len(toClient) + 1 \in 1..Len(toClient') /\ Len(toClient) + 1 < Len(toClient') + 1
        BY <2>1
      <4> QED BY <2>1, <3>3, <4>1 DEF Announced
    <3> QED BY <3>1, <3>2, <3>3
  <2>9. ASSUME NEW m \in 1..Len(toClient'), toClient'[m].kind = "message"
        PROVE  Announced(log[toClient[m].e], m)'
    <3>1. CASE m = Len(toClient) + 1
      BY <2>1, <2>6, <2>7, <2>9, <3>1 DEF Announced
    <3>2. CASE m \in 1..Len(toClient)
      <4>1. toClient'[m] = toClient[m]
        BY <2>1, <3>2
      <4>2. toClient[m].e \in 1..Len(log) /\ Announced(log[toClient[m].e], m)
        BY <2>9, <3>2, <4>1 DEF FramesInv, FrameOK, OrderInv
      <4>3. log[toClient[m].e] \in Epochs /\ log'[toClient[m].e] = log[toClient[m].e]
        BY <4>2, SMTT(30) DEF Kinds, Grows
      <4>4. PICK x \in Epochs : x = log[toClient[m].e]
        BY <4>3
      <4>5. Announced(x, m)'
        BY <2>1, <2>3, <3>2, <4>2, <4>4
      <4> QED BY <4>1, <4>3, <4>4, <4>5 DEF Announced
    <3> QED BY <2>1, <3>1, <3>2
  <2> QED BY <2>2, <2>8, <2>9 DEF OrderInv, FramesInv
<1> QED BY <1>1, <1>2

-----------------------------------------------------------------------------
(* The program starts with no key and an empty wire.                       *)
LEMMA InitInv == Init => IInv
<1> SUFFICES ASSUME Init PROVE IInv
  OBVIOUS
<1>1. MaxEpoch \in Nat /\ 1 \in Epochs /\ MaxMessages \in Nat
  BY EpochKeysAssumption DEF Epochs
<1>2. KeyTypes /\ StoreTypes
  BY <1>1 DEF Init, KeyTypes, StoreTypes, Keys, RowStates, NoLoad
<1>3. RoomTypes
  <2>1. winner \in [Epochs -> Keys] /\ attested \in [Epochs -> Rosters]
    BY DEF Init, Keys, Rosters
  <2>2. members \in Rosters /\ generated \in [Epochs -> Nat]
    BY DEF Init, Rosters
  <2>3. epoch \in Epochs /\ log \in Seq(Epochs)
    BY <1>1 DEF Init
  <2>5. dirty \in BOOLEAN
    BY DEF Init
  <2>4. offered \in SUBSET Epochs /\ refused \in SUBSET Epochs /\ changes \in Nat /\ sessions \in Nat
    BY DEF Init
  <2> QED BY <2>1, <2>2, <2>3, <2>4, <2>5 DEF RoomTypes
<1>4. WinnerInv /\ KeyInv
  BY <1>1 DEF Init, WinnerInv, KeyInv, KeyOK, Epochs
<1>5. CurrentInv /\ FramesInv /\ RequestsInv /\ OrderInv
  BY DEF Init, CurrentInv, FramesInv, RequestsInv, OrderInv
<1>6. RowInv
  BY <1>1 DEF Init, RowInv
<1>7. WireTypes
  BY DEF Init, WireTypes
<1> QED BY <1>2, <1>3, <1>4, <1>5, <1>6, <1>7 DEF IInv

(* The four frames of the catch-up that follows the handshake.             *)
LEMMA Welcome ==
  ASSUME members \in Rosters, attested[epoch] \in Rosters, attested' = attested,
         epoch \in Nat, NEW n \in Nat
  PROVE  /\ RoomListFrame \in Frame /\ RoomListFrame.kind = "room_list"
         /\ EpochKeyFrame(epoch) \in Frame /\ EpochKeyFrame(epoch).kind = "epoch_key"
         /\ EpochKeyFrame(epoch).e = epoch /\ EpochKeyFrame(epoch).set = attested[epoch]
         /\ BatchFrame(0, n) \in Frame /\ BatchFrame(0, n).kind = "sync_batch"
         /\ BatchFrame(0, n).upto = n
         /\ CompleteFrame(n) \in Frame /\ CompleteFrame(n).kind = "sync_complete"
<1>1. RoomListFrame \in Frame /\ RoomListFrame.kind = "room_list"
  BY DEF RoomListFrame, Fr, Frame
<1>2. /\ EpochKeyFrame(epoch) \in Frame /\ EpochKeyFrame(epoch).kind = "epoch_key"
      /\ EpochKeyFrame(epoch).e = epoch /\ EpochKeyFrame(epoch).set = attested[epoch]
  BY DEF EpochKeyFrame, Fr, Frame
<1>3. BatchFrame(0, n) \in Frame /\ BatchFrame(0, n).kind = "sync_batch" /\ BatchFrame(0, n).upto = n
  BY DEF BatchFrame, Fr, Frame, Rosters
<1>4. CompleteFrame(n) \in Frame /\ CompleteFrame(n).kind = "sync_complete"
  BY DEF CompleteFrame, Fr, Frame, Rosters
<1> QED BY <1>1, <1>2, <1>3, <1>4

(* The catch-up brings the current key before anything else needs it.      *)
LEMMA DialInv == ASSUME IInv, Dial PROVE IInv'
<1> DEFINE fs == << RoomListFrame, EpochKeyFrame(epoch),
                    BatchFrame(0, Len(log)), CompleteFrame(Len(log)) >>
<1>1. KeyTypes /\ StoreTypes /\ RoomTypes /\ Kinds
  BY TypeKinds DEF IInv
<1>2. UNCHANGED <<disk, server, history>> /\ toClient' = fs /\ toServer' = << >>
  BY DEF Dial
<1>4. /\ members \in Rosters /\ attested[epoch] \in Rosters /\ attested' = attested
      /\ epoch \in Nat /\ Len(log) \in Nat
  BY <1>1, <1>2 DEF RoomTypes, Kinds, server
<1>5. /\ fs[1] \in Frame /\ fs[1].kind = "room_list"
      /\ fs[2] \in Frame /\ fs[2].kind = "epoch_key" /\ fs[2].e = epoch
      /\ fs[2].set = attested[epoch]
      /\ fs[3] \in Frame /\ fs[3].kind = "sync_batch" /\ fs[3].upto = Len(log)
      /\ fs[4] \in Frame /\ fs[4].kind = "sync_complete"
  BY <1>4, Welcome
<1>6. fs \in Seq(Frame) /\ Len(fs) = 4
  BY <1>5
<1>7. KeyTypes' /\ StoreTypes'
  <2>1. KeyTypes'
    BY <1>1, <1>2, EpochKeysAssumption DEF Dial, KeyTypes, Keys, NoLoad, disk
  <2>2. StoreTypes'
    BY <1>1, <1>2 DEF Dial, StoreTypes, disk
  <2> QED BY <2>1, <2>2
<1>8. RoomTypes' /\ WireTypes'
  BY <1>1, <1>2, <1>6 DEF Dial, RoomTypes, WireTypes, server, history
<1>9. WinnerInv' /\ KeyInv' /\ CurrentInv' /\ RowInv'
  BY <1>1, <1>2 DEF Dial, IInv, WinnerInv, KeyInv, KeyOK, CurrentInv, RowInv, Lost, NoLoad,
                    disk, server, history, RoomTypes, Epochs
<1>10. FramesInv' /\ RequestsInv'
  BY <1>1, <1>2, <1>5, <1>6 DEF FramesInv, RequestsInv, FrameOK, server, Kinds, Epochs
<1>11. OrderInv'
  BY <1>2, <1>5, <1>6 DEF OrderInv, Announced, server
<1> QED BY <1>7, <1>8, <1>9, <1>10, <1>11 DEF IInv

(* Opening the store touches neither keys nor wire.                        *)
LEMMA OpenLocalInv == ASSUME IInv, OpenLocal PROVE IInv'
<1> USE DEF IInv, OpenLocal, disk, server, history
<1>1. KeyTypes' /\ StoreTypes' /\ RoomTypes' /\ WireTypes'
  BY DEF KeyTypes, StoreTypes, RoomTypes, WireTypes
<1>2. WinnerInv' /\ KeyInv' /\ CurrentInv' /\ RowInv' /\ RequestsInv'
  BY DEF WinnerInv, KeyInv, KeyOK, CurrentInv, RowInv, Lost, RequestsInv, RequestOK
<1>3. Grows /\ Keeps
  BY TypeKinds DEF Grows, Keeps, Kinds
<1>4. FramesInv' /\ OrderInv'
  BY <1>1, <1>3, TypeKinds, NextKinds, Unsent
<1> QED BY <1>1, <1>2, <1>4

(* A break empties the wire; requests may survive it.                      *)
LEMMA DisconnectInv == ASSUME IInv, Disconnect PROVE IInv'
<1> USE DEF IInv, Disconnect, memory, disk, server, history
<1>1. KeyTypes' /\ StoreTypes' /\ RoomTypes' /\ WireTypes'
  <2>1. KeyTypes' /\ StoreTypes' /\ RoomTypes'
    BY DEF KeyTypes, StoreTypes, RoomTypes
  <2>2. toClient' \in Seq(Frame)
    OBVIOUS
  <2>3. toServer' = << >> \/ toServer' = toServer
    OBVIOUS
  <2>4. toServer \in Seq(Request) /\ << >> \in Seq(Request)
    BY DEF WireTypes
  <2>5. toServer' \in Seq(Request)
    BY <2>3, <2>4
  <2> QED BY <2>1, <2>2, <2>5 DEF WireTypes
<1>2. WinnerInv' /\ KeyInv' /\ CurrentInv' /\ RowInv' /\ RequestsInv'
  BY DEF WinnerInv, KeyInv, KeyOK, CurrentInv, RowInv, Lost, RequestsInv, RequestOK
<1>3. FramesInv' /\ OrderInv'
  BY DEF FramesInv, OrderInv
<1> QED BY <1>1, <1>2, <1>3

-----------------------------------------------------------------------------
(* The frame a handler of the readLoop has before it.                      *)
LEMMA Received ==
  ASSUME WireTypes, NEW kind, Receive(kind)
  PROVE  /\ Len(toClient) \in Nat /\ 1 \in 1..Len(toClient)
         /\ Head(toClient) = toClient[1] /\ Head(toClient).kind = kind
         /\ Head(toClient).set \in Rosters /\ Head(toClient).upto \in Nat
         /\ toClient' \in Seq(Frame)
<1>1. /\ toClient \in Seq(Frame) /\ toClient # << >> /\ toClient' = Tail(toClient)
      /\ Head(toClient).kind = kind
  BY DEF WireTypes, Receive
<1>2. Head(toClient) \in Frame /\ Head(toClient) = toClient[1] /\ Len(toClient) \in Nat \ {0}
  BY <1>1, TailSeq
<1>3. Head(toClient).set \in Rosters /\ Head(toClient).upto \in Nat
  BY <1>2 DEF Frame
<1> QED BY <1>1, <1>2, <1>3, TailSeq

(* room_list changes the roster alone.                                     *)
LEMMA ReadRoomListInv == ASSUME IInv, ReadRoomList PROVE IInv'
<1> USE DEF IInv, ReadRoomList, server, history
<1>1. Receive("room_list") /\ Head(toClient).set \in Rosters /\ toClient' \in Seq(Frame)
  BY Received
<1>2. KeyTypes' /\ StoreTypes' /\ RoomTypes' /\ WireTypes'
  BY <1>1 DEF KeyTypes, StoreTypes, RoomTypes, WireTypes
<1>3. WinnerInv' /\ KeyInv' /\ CurrentInv' /\ RowInv' /\ RequestsInv'
  BY DEF WinnerInv, KeyInv, KeyOK, CurrentInv, RowInv, Lost, RequestsInv, RequestOK
<1>4. FramesInv' /\ OrderInv'
  BY <1>1, <1>2, TypeKinds, NextKinds, Consumed DEF Keeps
<1> QED BY <1>2, <1>3, <1>4

(* storeEpochKey of an epoch that has begun: the key stored is the one the *)
(* room agreed on.                                                         *)
LEMMA Stored ==
  ASSUME KeyTypes, RoomTypes, WinnerInv, KeyInv, CurrentInv,
         NEW e \in 1..epoch, StoreEpochKey(e), stash' \in 0..epoch,
         UNCHANGED <<phase, rotated, loading, hist, winner, generated, epoch, sessions>>
  PROVE  /\ KeyTypes' /\ KeyInv' /\ CurrentInv' /\ keys'[e] # "none"
         /\ \A x \in Epochs : keys[x] # "none" => keys'[x] # "none"
<1>1. /\ MaxEpoch \in Nat /\ epoch \in 1..MaxEpoch /\ e \in Epochs /\ e \in 1..MaxEpoch
      /\ current \in 0..epoch
  BY EpochKeysAssumption DEF RoomTypes, Epochs, KeyTypes, CurrentInv
<1>2. winner[e] \in {"mine", "theirs"} /\ KeyOK(e, winner[e])
  BY <1>1 DEF WinnerInv, KeyOK
<1>3. current' \in 0..epoch /\ current' \in {current, e}
  BY <1>1 DEF StoreEpochKey, Larger
<1>4. \/ keys[e] # "none" /\ keys' = keys
      \/ keys' = [keys EXCEPT ![e] = winner[e]]
  BY DEF StoreEpochKey
<1>5. dbKeys' = dbKeys \/ dbKeys' = [dbKeys EXCEPT ![e] = winner[e]]
  BY DEF StoreEpochKey, Persist
<1>6. keys' \in [Epochs -> Keys] /\ dbKeys' \in [Epochs -> Keys]
  BY <1>1, <1>2, <1>4, <1>5 DEF KeyTypes, Keys
<1>7. /\ keys'[e] # "none"
      /\ \A x \in Epochs : keys[x] # "none" => keys'[x] # "none"
      /\ \A x \in Epochs : keys'[x] \in {keys[x]} \/ (x = e /\ keys'[x] = winner[x])
      /\ \A x \in Epochs : dbKeys'[x] \in {dbKeys[x]} \/ (x = e /\ dbKeys'[x] = winner[x])
  BY <1>1, <1>2, <1>4, <1>5 DEF KeyTypes
<1>8. KeyTypes'
  BY <1>1, <1>3, <1>6 DEF KeyTypes
<1>9. KeyInv'
  BY <1>2, <1>7 DEF KeyInv, KeyOK
<1>10. CurrentInv'
  <2>1. rotated \in 0..MaxEpoch
    BY DEF KeyTypes
  <2> QED BY <1>1, <1>3, <1>7, <2>1 DEF CurrentInv, Epochs
<1> QED BY <1>7, <1>8, <1>9, <1>10

(* An epoch_key is adopted or refused: announced either way.               *)
LEMMA ReadEpochKeyInv == ASSUME IInv, ReadEpochKey PROVE IInv'
<1> USE DEF IInv, server
<1> DEFINE f == Head(toClient)
<1>1. /\ Receive("epoch_key") /\ toClient' \in Seq(Frame) /\ 1 \in 1..Len(toClient)
      /\ f = toClient[1] /\ f.kind = "epoch_key"
  BY Received DEF ReadEpochKey
<1>2. f.e \in 1..epoch /\ f.e \in Epochs
  <2>1. f.e \in 1..epoch
    BY <1>1 DEF FramesInv, FrameOK
  <2> QED BY <2>1, EpochKeysAssumption DEF RoomTypes, Epochs
<1>3. /\ UNCHANGED <<rotated, hist, roster, lastSynced, phase, hello, loading>>
      /\ UNCHANGED <<dbRoster, dbSynced, row, server, generated, sessions>>
  BY DEF ReadEpochKey
<1>4. \/ StoreEpochKey(f.e) /\ UNCHANGED <<stash, toServer, refused>>
      \/ /\ Refuse(f.e) /\ stash' = f.e
         /\ toServer' = Append(toServer, [kind |-> "room_members", e |-> 0, set |-> {}])
  BY DEF ReadEpochKey
<1>5. /\ KeyTypes' /\ KeyInv' /\ CurrentInv' /\ Keeps /\ refused' \in SUBSET Epochs
      /\ keys'[f.e] # "none" \/ f.e \in refused'
  <2>1. CASE StoreEpochKey(f.e) /\ UNCHANGED <<stash, refused>>
    <3>1. stash' \in 0..epoch
      BY <2>1 DEF CurrentInv, KeyTypes, RoomTypes, Epochs
    <3>2. refused' \in SUBSET Epochs
      BY <2>1 DEF RoomTypes
    <3> QED BY <1>2, <1>3, <2>1, <3>1, <3>2, Stored DEF Keeps
  <2>2. CASE Refuse(f.e) /\ stash' = f.e
    <3>1. refused' \in SUBSET Epochs /\ f.e \in refused' /\ UNCHANGED <<keys, current, dbKeys>>
      BY <1>2, <2>2 DEF Refuse, RoomTypes
    <3>2. KeyTypes'
      BY <1>2, <1>3, <2>2, <3>1 DEF KeyTypes, Epochs
    <3>3. KeyInv' /\ CurrentInv'
      BY <1>2, <1>3, <2>2, <3>1 DEF KeyInv, KeyOK, CurrentInv
    <3> QED BY <2>2, <3>1, <3>2, <3>3 DEF Keeps, Refuse
  <2> QED BY <1>4, <2>1, <2>2
<1>6. toServer' \in Seq(Request) /\ RequestsInv'
  <2>1. CASE toServer' = toServer
    BY <1>3, <1>5, <2>1 DEF WireTypes, RequestsInv, RequestOK, Keeps
  <2>2. CASE toServer' = Append(toServer, [kind |-> "room_members", e |-> 0, set |-> {}])
    <3> DEFINE q == [kind |-> "room_members", e |-> 0, set |-> {}]
    <3>1. q \in Request /\ q.kind # "epoch_rotate"
      BY DEF Request, Rosters
    <3>2. toServer \in Seq(Request)
      BY DEF WireTypes
    <3> HIDE DEF q
    <3>3. /\ toServer' \in Seq(Request) /\ Len(toServer) \in Nat /\ Len(toServer') = Len(toServer) + 1
          /\ \A n \in 1..Len(toServer) : toServer'[n] = toServer[n]
          /\ toServer'[Len(toServer) + 1] = q
      BY <2>2, <3>1, <3>2, AppendSeq DEF q
    <3> QED BY <1>3, <1>5, <3>1, <3>3 DEF RequestsInv, RequestOK, Keeps
  <2> QED BY <1>4, <2>1, <2>2
<1>7. StoreTypes' /\ RoomTypes' /\ WireTypes'
  BY <1>1, <1>3, <1>5, <1>6 DEF StoreTypes, RoomTypes, WireTypes
<1>8. WinnerInv' /\ RowInv'
  BY <1>3, <1>5 DEF WinnerInv, RowInv, Lost, Keeps
<1>9. FramesInv' /\ OrderInv'
  BY <1>1, <1>3, <1>5, <1>7, TypeKinds, NextKinds, Consumed
<1> QED BY <1>5, <1>6, <1>7, <1>8, <1>9

(* The stashed key is of an epoch that has begun.                          *)
LEMMA ReadMembersInv == ASSUME IInv, ReadMembers PROVE IInv'
<1> USE DEF IInv, server, history
<1>1. /\ Receive("room_members_list") /\ toClient' \in Seq(Frame)
      /\ Head(toClient).set \in Rosters /\ Head(toClient).kind = "room_members_list"
  BY Received DEF ReadMembers
<1>2. /\ roster' = Head(toClient).set /\ dbRoster' = roster' /\ stash' = 0
      /\ UNCHANGED <<rotated, hist, lastSynced, phase, hello, loading, history>>
      /\ UNCHANGED <<dbSynced, row, toServer, server, sessions>>
  BY DEF ReadMembers
<1>3. \/ stash # 0 /\ StoreEpochKey(stash)
      \/ UNCHANGED <<keys, current, dbKeys>>
  BY DEF ReadMembers
<1>4. MaxEpoch \in Nat /\ epoch \in 1..MaxEpoch /\ stash \in 0..epoch
  BY EpochKeysAssumption DEF RoomTypes, Epochs, KeyTypes, CurrentInv
<1>5. /\ KeyTypes' /\ KeyInv' /\ CurrentInv'
      /\ \A x \in Epochs : keys[x] # "none" => keys'[x] # "none"
  <2>1. CASE stash # 0 /\ StoreEpochKey(stash)
    <3>1. stash \in 1..epoch /\ stash' \in 0..epoch
      BY <1>2, <1>4, <2>1
    <3> QED BY <1>2, <2>1, <3>1, Stored
  <2>2. CASE UNCHANGED <<keys, current, dbKeys>>
    <3>1. KeyTypes'
      BY <1>2, <1>4, <2>2 DEF KeyTypes
    <3> QED BY <1>2, <1>4, <2>2, <3>1 DEF KeyInv, KeyOK, CurrentInv
  <2> QED BY <1>3, <2>1, <2>2
<1>6. StoreTypes' /\ RoomTypes' /\ WireTypes'
  BY <1>1, <1>2 DEF StoreTypes, RoomTypes, WireTypes
<1>7. WinnerInv' /\ RowInv' /\ RequestsInv' /\ Keeps
  BY <1>2, <1>5 DEF WinnerInv, RowInv, Lost, RequestsInv, RequestOK, Keeps
<1>8. FramesInv' /\ OrderInv'
  BY <1>1, <1>2, <1>6, <1>7, TypeKinds, NextKinds, Consumed
<1> QED BY <1>5, <1>6, <1>7, <1>8

(* A join or leave changes the roster alone.                               *)
LEMMA ReadRoomEventInv == ASSUME IInv, ReadRoomEvent PROVE IInv'
<1> USE DEF IInv, ReadRoomEvent, disk, server, history
<1>1. /\ Receive("room_event") /\ Head(toClient).set \in Rosters /\ toClient' \in Seq(Frame)
  BY Received
<1>2. roster' = Cold \/ roster' \in Rosters
  BY <1>1 DEF StoreTypes, Rosters
<1>3. KeyTypes' /\ StoreTypes' /\ RoomTypes' /\ WireTypes'
  BY <1>1, <1>2 DEF KeyTypes, StoreTypes, RoomTypes, WireTypes
<1>4. WinnerInv' /\ KeyInv' /\ CurrentInv' /\ RowInv' /\ RequestsInv' /\ Keeps
  BY DEF WinnerInv, KeyInv, KeyOK, CurrentInv, RowInv, Lost, RequestsInv, RequestOK, Keeps
<1>5. FramesInv' /\ OrderInv'
  BY <1>1, <1>3, <1>4, TypeKinds, NextKinds, Consumed
<1> QED BY <1>3, <1>4, <1>5

(* Only an epoch the server began is confirmed.                            *)
LEMMA ReadConfirmedInv == ASSUME IInv, ReadConfirmed PROVE IInv'
<1> USE DEF IInv, disk, server, history
<1> DEFINE e == Head(toClient).e
<1>1. /\ Receive("epoch_confirmed") /\ toClient' \in Seq(Frame) /\ 1 \in 1..Len(toClient)
      /\ Head(toClient) = toClient[1] /\ Head(toClient).kind = "epoch_confirmed"
  BY Received DEF ReadConfirmed
<1>2. e \in 1..epoch
  BY <1>1 DEF FramesInv, FrameOK
<1>3. /\ UNCHANGED <<keys, hist, stash, roster, lastSynced, phase, hello, loading>>
      /\ UNCHANGED <<disk, toServer, server, history, sessions>>
      /\ \/ rotated = e /\ rotated' = 0 /\ current' = Larger(current, e)
         \/ UNCHANGED <<rotated, current>>
  BY DEF ReadConfirmed
<1>4. MaxEpoch \in Nat /\ epoch \in 1..MaxEpoch /\ current \in 0..epoch /\ rotated \in 0..MaxEpoch
  BY EpochKeysAssumption DEF RoomTypes, Epochs, KeyTypes, CurrentInv
<1>5. /\ rotated' \in 0..MaxEpoch /\ current' \in 0..epoch
      /\ current' = current \/ current' = rotated
      /\ rotated' = rotated \/ rotated' = 0
  BY <1>2, <1>3, <1>4 DEF Larger
<1>6. KeyTypes' /\ StoreTypes' /\ RoomTypes' /\ WireTypes'
  <2>1. KeyTypes'
    BY <1>3, <1>4, <1>5 DEF KeyTypes
  <2> QED BY <1>1, <1>3, <2>1 DEF StoreTypes, RoomTypes, WireTypes
<1>7. WinnerInv' /\ KeyInv' /\ CurrentInv' /\ RowInv' /\ RequestsInv' /\ Keeps
  <2>1. CurrentInv'
    BY <1>2, <1>3, <1>4, <1>5 DEF CurrentInv
  <2> QED
    BY <1>3, <2>1 DEF WinnerInv, KeyInv, KeyOK, RowInv, Lost, RequestsInv, RequestOK, Keeps
<1>8. FramesInv' /\ OrderInv'
  BY <1>1, <1>3, <1>6, <1>7, TypeKinds, NextKinds, Consumed
<1> QED BY <1>6, <1>7, <1>8

(* sync_complete moves the watermark alone.                                *)
LEMMA ReadSyncCompleteInv == ASSUME IInv, ReadSyncComplete PROVE IInv'
<1> USE DEF IInv, ReadSyncComplete, server, history
<1>1. Receive("sync_complete") /\ Head(toClient).upto \in Nat /\ toClient' \in Seq(Frame)
  BY Received
<1>2. KeyTypes' /\ StoreTypes' /\ RoomTypes' /\ WireTypes'
  BY <1>1 DEF KeyTypes, StoreTypes, RoomTypes, WireTypes
<1>3. WinnerInv' /\ KeyInv' /\ CurrentInv' /\ RowInv' /\ RequestsInv' /\ Keeps
  BY DEF WinnerInv, KeyInv, KeyOK, CurrentInv, RowInv, Lost, RequestsInv, RequestOK, Keeps
<1>4. FramesInv' /\ OrderInv'
  BY <1>1, <1>2, <1>3, TypeKinds, NextKinds, Consumed
<1> QED BY <1>2, <1>3, <1>4

(* The key a rotator makes is its own.                                     *)
LEMMA ReadTriggerInv == ASSUME IInv, ReadTrigger PROVE IInv'
<1> USE DEF IInv, server
<1> DEFINE e == Head(toClient).e
           q == [kind |-> "epoch_rotate", e |-> e, set |-> Head(toClient).set]
<1>1. /\ Receive("epoch_trigger") /\ toClient' \in Seq(Frame) /\ 1 \in 1..Len(toClient)
      /\ Head(toClient) = toClient[1] /\ Head(toClient).kind = "epoch_trigger"
      /\ Head(toClient).set \in Rosters
  BY Received DEF ReadTrigger
<1>2. e \in Epochs
  BY <1>1 DEF FramesInv, FrameOK
<1>3. /\ UNCHANGED <<current, hist, stash, roster, lastSynced, phase, hello, loading>>
      /\ UNCHANGED <<dbRoster, dbSynced, row, server, sessions, refused>>
      /\ keys' = [keys EXCEPT ![e] = "mine"] /\ rotated' = e
      /\ generated' = [generated EXCEPT ![e] = sessions]
      /\ dbKeys' = dbKeys \/ dbKeys' = [dbKeys EXCEPT ![e] = "mine"]
      /\ toServer' = Append(toServer, q)
  BY DEF ReadTrigger, Generated, Persist
<1>4. MaxEpoch \in Nat /\ e \in Nat /\ e \in 0..MaxEpoch /\ sessions \in Nat \ {0}
  BY <1>1, <1>2, EpochKeysAssumption DEF Epochs, CurrentInv, RoomTypes, Receive
<1>5. /\ \A x \in Epochs : generated[x] # 0 => generated'[x] # 0
      /\ \A x \in Epochs : keys'[x] = keys[x] \/ (x = e /\ keys'[x] = "mine")
      /\ \A x \in Epochs : dbKeys'[x] = dbKeys[x] \/ (x = e /\ dbKeys'[x] = "mine")
      /\ keys'[e] = "mine" /\ generated'[e] # 0
      /\ generated' \in [Epochs -> Nat]
      /\ keys' \in [Epochs -> Keys] /\ dbKeys' \in [Epochs -> Keys]
  BY <1>2, <1>3, <1>4 DEF KeyTypes, RoomTypes, Keys
<1>6. KeyTypes' /\ StoreTypes' /\ RoomTypes'
  <2>1. KeyTypes'
    BY <1>3, <1>4, <1>5 DEF KeyTypes
  <2>2. StoreTypes' /\ RoomTypes'
    BY <1>3, <1>5 DEF StoreTypes, RoomTypes
  <2> QED BY <2>1, <2>2
<1>7. WinnerInv' /\ KeyInv' /\ Keeps
  BY <1>3, <1>5 DEF WinnerInv, KeyInv, KeyOK, Keeps
<1>8. CurrentInv'
  <2>1. current \in 0..MaxEpoch /\ (current > 0 => current \in Epochs)
    BY <1>4 DEF KeyTypes, Epochs
  <2> QED BY <1>2, <1>3, <1>5, <2>1 DEF CurrentInv
<1>9. RowInv'
  BY <1>3, <1>5 DEF RowInv, Lost
<1>10. toServer' \in Seq(Request) /\ RequestsInv'
  <2>1. q \in Request /\ q.e = e
    BY <1>1, <1>4 DEF Request
  <2>2. toServer \in Seq(Request)
    BY DEF WireTypes
  <2> HIDE DEF q
  <2>3. /\ toServer' \in Seq(Request) /\ Len(toServer) \in Nat /\ Len(toServer') = Len(toServer) + 1
        /\ \A n \in 1..Len(toServer) : toServer'[n] = toServer[n]
        /\ toServer'[Len(toServer) + 1] = q
    BY <1>3, <2>1, <2>2, AppendSeq
  <2> QED BY <1>2, <1>3, <1>5, <2>1, <2>3 DEF RequestsInv, RequestOK
<1>11. WireTypes'
  BY <1>1, <1>10 DEF WireTypes
<1>12. FramesInv' /\ OrderInv'
  BY <1>1, <1>3, <1>6, <1>7, <1>11, TypeKinds, NextKinds, Consumed
<1> QED BY <1>6, <1>7, <1>8, <1>9, <1>10, <1>11, <1>12

(* A lookup of RoomEpochKey: what it brings into memory is a key the       *)
(* database may hold.                                                      *)
LEMMA Lookup ==
  ASSUME KeyTypes, KeyInv, NEW es \in SUBSET Epochs, keys' = Looked(es)
  PROVE  /\ keys' \in [Epochs -> Keys]
         /\ \A x \in Epochs : keys[x] # "none" => keys'[x] = keys[x]
         /\ \A x \in Epochs : KeyOK(x, keys'[x]) /\ KeyOK(x, AdoptedKey(x))
         /\ \A x \in Epochs : keys[x] # "none" => AdoptedKey(x) # "none"
<1>1. \A x \in Epochs : /\ KeyOK(x, AdoptedKey(x)) /\ AdoptedKey(x) \in Keys
                        /\ keys[x] # "none" => AdoptedKey(x) = keys[x]
  BY DEF KeyTypes, KeyInv, AdoptedKey
<1>2. \A x \in Epochs : keys'[x] = IF x \in es THEN AdoptedKey(x) ELSE keys[x]
  BY DEF Looked
<1>3. keys' \in [Epochs -> Keys]
  BY <1>1 DEF Looked, KeyTypes
<1> QED BY <1>1, <1>2, <1>3 DEF KeyInv

(* CurrentInv, where no key in memory is forgotten.                        *)
LEMMA CurrentKept ==
  ASSUME KeyTypes, CurrentInv, UNCHANGED <<phase, current, rotated, stash, epoch, sessions>>,
         \A x \in Epochs : keys[x] # "none" => keys'[x] # "none"
  PROVE  CurrentInv'
<1>1. /\ MaxEpoch \in Nat /\ current \in 0..MaxEpoch /\ rotated \in 0..MaxEpoch
      /\ current > 0 => current \in Epochs
      /\ rotated > 0 => rotated \in Epochs
  BY EpochKeysAssumption DEF KeyTypes, Epochs
<1> QED BY <1>1 DEF CurrentInv

(* A key other than the room's own in an epoch that has begun means that   *)
(* this client lost the rotation.                                          *)
LEMMA OwnOrLost ==
  ASSUME RoomTypes, WinnerInv, NEW e \in Epochs, e <= epoch, NEW k, KeyOK(e, k),
         k # "none", k # winner[e]
  PROVE  e \in Lost
BY DEF WinnerInv, KeyOK, Lost

(* A live message: its key was announced before it.                        *)
LEMMA ReadMessageInv == ASSUME IInv, ReadMessage PROVE IInv'
<1> USE DEF IInv, server, history
<1> DEFINE i == Head(toClient).e
           e == log[i]
<1>1. /\ Receive("message") /\ toClient' \in Seq(Frame) /\ 1 \in 1..Len(toClient)
      /\ Head(toClient) = toClient[1] /\ Head(toClient).kind = "message"
  BY Received DEF ReadMessage
<1>2. i \in 1..Len(log) /\ e \in Epochs /\ e <= epoch /\ i \in Messages
  <2>1. i \in 1..Len(log)
    BY <1>1 DEF FramesInv, FrameOK
  <2> QED BY <2>1, EpochKeysAssumption DEF RoomTypes, RowInv, Messages
<1>3. /\ UNCHANGED <<current, rotated, hist, stash, roster, lastSynced, phase, hello>>
      /\ UNCHANGED <<loading, dbKeys, dbRoster, dbSynced, toServer, server>>
      /\ UNCHANGED <<history, sessions>> /\ keys' = Looked({e})
      /\ row' = [row EXCEPT ![i] = IF @ # "absent" THEN @
                   ELSE IF AdoptedKey(e) = winner[e] THEN "adopted" ELSE "empty"]
  BY DEF ReadMessage
<1>4. /\ keys' \in [Epochs -> Keys] /\ Keeps
      /\ \A x \in Epochs : KeyOK(x, keys'[x]) /\ KeyOK(x, AdoptedKey(x))
      /\ \A x \in Epochs : keys[x] # "none" => keys'[x] # "none" /\ AdoptedKey(x) # "none"
  BY <1>2, <1>3, Lookup DEF Keeps
<1>5. KeyTypes' /\ RoomTypes' /\ WireTypes'
  BY <1>1, <1>3, <1>4 DEF KeyTypes, RoomTypes, WireTypes
<1>6. StoreTypes'
  BY <1>2, <1>3 DEF StoreTypes, RowStates
<1>7. WinnerInv' /\ KeyInv' /\ RequestsInv'
  BY <1>3, <1>4 DEF WinnerInv, KeyInv, KeyOK, RequestsInv, RequestOK
<1>8. CurrentInv'
  BY <1>3, <1>4, CurrentKept
<1>9. RowInv'
  <2>1. ASSUME row'[i] = "empty", row[i] = "absent" PROVE e \in refused \cup Lost
    <3>1. AdoptedKey(e) # winner[e]
      BY <1>2, <1>3, <2>1 DEF StoreTypes
    <3>2. CASE AdoptedKey(e) # "none"
      BY <1>2, <1>4, <3>1, <3>2, OwnOrLost
    <3>3. CASE AdoptedKey(e) = "none"
      <4>1. phase # "off" /\ Announced(e, 1)
        BY <1>1 DEF OrderInv, Receive
      <4>2. ~ \E m \in 1..Len(toClient) : m < 1
        OBVIOUS
      <4> QED BY <1>2, <1>4, <3>3, <4>1, <4>2 DEF Announced
    <3> QED BY <3>2, <3>3
  <2>2. /\ \A x \in Messages : x # i => row'[x] = row[x]
        /\ row'[i] = row[i] \/ (row[i] = "absent" /\ row'[i] \in {"adopted", "empty"})
    BY <1>2, <1>3 DEF StoreTypes
  <2>3. Lost' = Lost
    BY <1>3 DEF Lost
  <2> QED BY <1>2, <1>3, <2>1, <2>2, <2>3 DEF RowInv
<1>10. FramesInv' /\ OrderInv'
  BY <1>1, <1>3, <1>4, <1>5, TypeKinds, NextKinds, Consumed
<1> QED BY <1>5, <1>6, <1>7, <1>8, <1>9, <1>10

(* A batch stores rows only under an adopted key, or a synced one of an    *)
(* epoch that is past.                                                     *)
LEMMA ReadBatchInv == ASSUME IInv, ReadBatch PROVE IInv'
<1> USE DEF IInv, server, history
<1> DEFINE f == Head(toClient)
           ids == {i \in Messages : f.from < i /\ i <= f.upto}
           es == {log[i] : i \in ids}
<1>1. /\ Receive("sync_batch") /\ toClient' \in Seq(Frame) /\ 1 \in 1..Len(toClient)
      /\ f = toClient[1] /\ f.kind = "sync_batch"
  BY Received DEF ReadBatch
<1>2. f.upto \in 0..Len(log) /\ Len(log) \in Nat
  <2>1. f.upto \in 0..Len(log)
    BY <1>1 DEF FramesInv, FrameOK
  <2> QED BY <2>1 DEF RoomTypes
<1>3. \A i \in ids : i \in 1..Len(log) /\ log[i] \in Epochs
  BY <1>2, EpochKeysAssumption DEF Messages, RoomTypes
<1>4. es \in SUBSET Epochs
  BY <1>3
<1>5. /\ UNCHANGED <<current, rotated, stash, roster, lastSynced, phase, hello, loading>>
      /\ UNCHANGED <<dbKeys, dbRoster, dbSynced, toServer, server, history, sessions>>
      /\ hist' = hist \cup es /\ keys' = Looked(es)
      /\ row' = [i \in Messages |-> IF i \in ids /\ row[i] = "absent"
                                     THEN Resolved(log[i], hist') ELSE row[i]]
  BY DEF ReadBatch
<1>6. /\ keys' \in [Epochs -> Keys] /\ Keeps
      /\ \A x \in Epochs : KeyOK(x, keys'[x])
      /\ \A x \in Epochs : keys[x] # "none" => keys'[x] # "none"
  BY <1>4, <1>5, Lookup DEF Keeps
<1>7. ASSUME NEW i \in Messages
      PROVE  \/ row'[i] = row[i]
             \/ i \in ids /\ row'[i] \in {"adopted", "absent"}
             \/ i \in ids /\ row'[i] = "history" /\ log[i] < current
  BY <1>5 DEF Resolved
<1>8. KeyTypes' /\ RoomTypes' /\ WireTypes'
  BY <1>1, <1>4, <1>5, <1>6 DEF KeyTypes, RoomTypes, WireTypes
<1>9. StoreTypes'
  <2>1. \A i \in Messages : row'[i] \in RowStates
    BY <1>7 DEF StoreTypes, RowStates
  <2>2. row' \in [Messages -> RowStates]
    BY <1>5, <2>1
  <2> QED BY <1>5, <2>2 DEF StoreTypes
<1>10. WinnerInv' /\ KeyInv' /\ RequestsInv'
  BY <1>5, <1>6 DEF WinnerInv, KeyInv, KeyOK, RequestsInv, RequestOK
<1>11. CurrentInv'
  BY <1>5, <1>6, CurrentKept
<1>12. RowInv'
  <2>1. Lost' = Lost
    BY <1>5 DEF Lost
  <2>2. ASSUME NEW i \in Messages
        PROVE  /\ row'[i] # "absent" => i <= Len(log)
               /\ row'[i] = "history" => log[i] < epoch
               /\ row'[i] = "empty" => log[i] \in refused \cup Lost
    <3>1. CASE row'[i] = row[i]
      BY <3>1 DEF RowInv
    <3>2. CASE i \in ids /\ row'[i] \in {"adopted", "absent"}
      BY <1>3, <3>2
    <3>3. CASE i \in ids /\ row'[i] = "history" /\ log[i] < current
      <4>1. log[i] \in Nat /\ current \in Nat /\ epoch \in Nat /\ current <= epoch
        BY <1>3, <3>3, EpochKeysAssumption, SMTT(30) DEF KeyTypes, RoomTypes, Epochs, CurrentInv
      <4> QED BY <1>3, <3>3, <4>1
    <3> QED BY <1>7, <3>1, <3>2, <3>3
  <2> QED BY <1>5, <2>1, <2>2 DEF RowInv
<1>13. FramesInv' /\ OrderInv'
  BY <1>1, <1>5, <1>6, <1>8, TypeKinds, NextKinds, Consumed
<1> QED BY <1>8, <1>9, <1>10, <1>11, <1>12, <1>13

-----------------------------------------------------------------------------
(* The TUI has read a key from the database.                               *)
LEMMA UiLoadInv == ASSUME IInv, NEW e \in Epochs, UiLoad(e) PROVE IInv'
<1> USE DEF IInv, memory, disk, server, history
<1>1. /\ UNCHANGED <<phase, memory, hello, disk, toClient, toServer, server, history, sessions>>
      /\ dbKeys[e] # "none" /\ loading' = [e |-> e, key |-> dbKeys[e]]
  BY DEF UiLoad
<1>2. e \in 0..MaxEpoch /\ dbKeys[e] \in Keys /\ KeyOK(e, dbKeys[e])
  BY EpochKeysAssumption DEF Epochs, KeyTypes, KeyInv
<1>3. KeyTypes' /\ StoreTypes' /\ RoomTypes' /\ WireTypes'
  <2>1. KeyTypes'
    BY <1>1, <1>2 DEF KeyTypes
  <2> QED BY <1>1, <2>1 DEF StoreTypes, RoomTypes, WireTypes
<1>4. KeyInv'
  BY <1>1, <1>2 DEF KeyInv, KeyOK
<1>5. WinnerInv' /\ CurrentInv' /\ RowInv' /\ RequestsInv' /\ Keeps /\ Grows
  BY <1>1, TypeKinds DEF WinnerInv, CurrentInv, RowInv, Lost, RequestsInv, RequestOK, Keeps, Grows, Kinds
<1>6. FramesInv' /\ OrderInv'
  BY <1>1, <1>3, <1>5, TypeKinds, NextKinds, Unsent
<1> QED BY <1>3, <1>4, <1>5, <1>6

(* The TUI writes the key it read, which may overwrite another one of the  *)
(* same kind.                                                              *)
LEMMA UiLoadedInv == ASSUME IInv, UiLoaded PROVE IInv'
<1> USE DEF IInv, disk, server, history
<1>1. /\ loading # NoLoad /\ loading' = NoLoad
      /\ keys' = [keys EXCEPT ![loading.e] = loading.key]
      /\ UNCHANGED <<phase, current, rotated, hist, stash, roster, lastSynced, hello>>
      /\ UNCHANGED <<disk, toClient, toServer, server, history, sessions>>
  BY DEF UiLoaded
<1>2. loading.e \in Epochs /\ loading.key # "none" /\ KeyOK(loading.e, loading.key)
  BY <1>1 DEF KeyInv
<1>3. /\ keys' \in [Epochs -> Keys]
      /\ \A x \in Epochs : keys'[x] = keys[x] \/ (x = loading.e /\ keys'[x] = loading.key)
  BY <1>1, <1>2 DEF KeyTypes, KeyOK, Keys
<1>4. \A x \in Epochs : keys[x] # "none" => keys'[x] # "none"
  BY <1>2, <1>3
<1>5. KeyTypes' /\ StoreTypes' /\ RoomTypes' /\ WireTypes'
  <2>1. KeyTypes'
    BY <1>1, <1>3, EpochKeysAssumption DEF KeyTypes, NoLoad, Keys
  <2> QED BY <1>1, <2>1 DEF StoreTypes, RoomTypes, WireTypes
<1>6. KeyInv'
  BY <1>1, <1>2, <1>3 DEF KeyInv, KeyOK
<1>7. CurrentInv'
  BY <1>1, <1>4, CurrentKept
<1>8. WinnerInv' /\ RowInv' /\ RequestsInv' /\ Keeps /\ Grows
  BY <1>1, <1>4, TypeKinds DEF WinnerInv, RowInv, Lost, RequestsInv, RequestOK, Keeps, Grows, Kinds
<1>9. FramesInv' /\ OrderInv'
  BY <1>1, <1>5, <1>8, TypeKinds, NextKinds, Unsent
<1> QED BY <1>5, <1>6, <1>7, <1>8, <1>9

-----------------------------------------------------------------------------
(* The wire stays a sequence of frames.                                    *)
LEMMA PushTypes ==
  ASSUME WireTypes, NEW f \in Frame, Push(f)
  PROVE  toClient' \in Seq(Frame)
BY AppendSeq DEF WireTypes, Push

(* A join or leave, told or not.                                           *)
LEMMA MembershipInv == ASSUME IInv, NEW u \in Others, Membership(u) PROVE IInv'
<1> USE DEF IInv, memory, disk, history
<1>1. /\ changes' = changes + 1
      /\ members' = IF u \in members THEN members \ {u} ELSE members \cup {u}
      /\ dirty' = TRUE
      /\ Push(EventFrame(u)) \/ UNCHANGED toClient
      /\ UNCHANGED <<phase, memory, hello, loading, disk, toServer, epoch, winner>>
      /\ UNCHANGED <<attested, log, offered, history, sessions>>
  BY DEF Membership
<1>2. EventFrame(u) \in Frame /\ EventFrame(u).kind = "room_event"
  BY DEF EventFrame, Fr, Frame, Rosters
<1>3. KeyTypes' /\ StoreTypes' /\ RoomTypes' /\ WireTypes'
  <2>1. members' \in Rosters /\ changes' \in Nat
    BY <1>1 DEF RoomTypes, Rosters
  <2>2. dirty' \in BOOLEAN
    BY <1>1
  <2>3. toClient' \in Seq(Frame)
    BY <1>1, <1>2, PushTypes DEF WireTypes
  <2>4. RoomTypes'
    BY <1>1, <2>1, <2>2 DEF RoomTypes
  <2> QED BY <1>1, <2>3, <2>4 DEF KeyTypes, StoreTypes, WireTypes
<1>4. WinnerInv' /\ KeyInv' /\ CurrentInv' /\ RowInv' /\ RequestsInv' /\ Keeps /\ Grows
  BY <1>1, TypeKinds DEF WinnerInv, KeyInv, KeyOK, CurrentInv, RowInv, Lost, RequestsInv, RequestOK,
                         Keeps, Grows, Kinds
<1>5. FramesInv' /\ OrderInv'
  <2>1. CASE Push(EventFrame(u))
    <3>1. PICK f \in Frame : f = EventFrame(u)
      BY <1>2
    <3>2. f.kind = "room_event" /\ Push(f) /\ FrameOK(f)'
      BY <1>2, <2>1, <3>1 DEF FrameOK
    <3> QED BY <1>1, <1>3, <1>4, <3>2, TypeKinds, NextKinds, Pushed
  <2>2. CASE UNCHANGED toClient
    BY <1>1, <1>3, <1>4, <2>2, TypeKinds, NextKinds, Unsent
  <2> QED BY <1>1, <2>1, <2>2
<1> QED BY <1>3, <1>4, <1>5

(* What an epoch that begins leaves as it was, and what is new of it.      *)
LEMMA Accepted ==
  ASSUME IInv, NEW who \in {"mine", "theirs"}, epoch < MaxEpoch, Accept(who),
         who = "mine" => generated[epoch + 1] # 0,
         UNCHANGED <<phase, memory, loading, disk, history, sessions>>
  PROVE  /\ KeyTypes' /\ RoomTypes' /\ WinnerInv' /\ KeyInv' /\ CurrentInv' /\ RowInv'
         /\ Keeps /\ Grows /\ epoch' = epoch + 1 /\ epoch' \in 1..epoch'
         /\ attested'[epoch + 1] = members /\ members \in Rosters
<1> USE DEF IInv, memory, disk, history
<1>1. /\ epoch' = epoch + 1 /\ dirty' = FALSE
      /\ winner' = [winner EXCEPT ![epoch + 1] = who]
      /\ attested' = [attested EXCEPT ![epoch + 1] = members]
      /\ UNCHANGED <<members, log, offered, changes>>
  BY DEF Accept
<1>2. MaxEpoch \in Nat /\ epoch \in 1..MaxEpoch /\ epoch + 1 \in Epochs /\ epoch + 1 \in 1..(epoch + 1)
  BY EpochKeysAssumption DEF RoomTypes, Epochs
<1>3. /\ winner' \in [Epochs -> Keys] /\ attested' \in [Epochs -> Rosters]
      /\ winner'[epoch + 1] = who /\ attested'[epoch + 1] = members
      /\ \A x \in Epochs : x # epoch + 1 => winner'[x] = winner[x] /\ attested'[x] = attested[x]
  BY <1>1, <1>2 DEF RoomTypes, Keys
<1>4. \A x \in Epochs : x \in Nat
  BY DEF Epochs
<1>5. \A x \in Epochs : winner[x] # "none" => winner'[x] = winner[x]
  BY <1>2, <1>3, <1>4 DEF WinnerInv
<1>6. WinnerInv'
  BY <1>1, <1>2, <1>3, <1>4 DEF WinnerInv
<1>7. KeyInv'
  BY <1>5 DEF KeyInv, KeyOK
<1>8. CurrentInv'
  BY <1>1, <1>2 DEF CurrentInv, KeyTypes
<1>9. RowInv'
  <2>1. Lost \subseteq Lost'
    BY <1>5 DEF Lost
  <2>2. \A i \in 1..Len(log) : log[i] \in Epochs /\ log[i] \in Nat
    BY <1>4 DEF RoomTypes
  <2>3. Len(log) \in Nat /\ \A i \in Messages : i \in Nat /\ i >= 1
    BY DEF RoomTypes, Messages
  <2> QED BY <1>1, <1>2, <2>1, <2>2, <2>3 DEF RowInv
<1>10. KeyTypes' /\ RoomTypes'
  <2>1. dirty' \in BOOLEAN
    BY <1>1
  <2> QED BY <1>1, <1>2, <1>3, <2>1 DEF KeyTypes, RoomTypes
<1>11. Keeps /\ Grows
  <2>1. Len(log) \in Nat /\ \A x \in 1..epoch : x \in Epochs /\ x # epoch + 1
    BY <1>2 DEF RoomTypes, Epochs
  <2> QED BY <1>1, <1>2, <1>3, <2>1 DEF Keeps, Grows
<1>12. members \in Rosters
  BY DEF RoomTypes
<1> QED BY <1>1, <1>2, <1>3, <1>6, <1>7, <1>8, <1>9, <1>10, <1>11, <1>12

(* The epoch_key of a new epoch announces it.                              *)
LEMMA OtherRotatesInv == ASSUME IInv, OtherRotates PROVE IInv'
<1> USE DEF IInv, memory, disk, history
<1>1. /\ epoch < MaxEpoch /\ Accept("theirs") /\ Push(EpochKeyFrame(epoch + 1))
      /\ UNCHANGED <<phase, memory, hello, loading, disk, toServer, history, sessions>>
  BY DEF OtherRotates
<1>2. /\ KeyTypes' /\ RoomTypes' /\ WinnerInv' /\ KeyInv' /\ CurrentInv' /\ RowInv'
      /\ Keeps /\ Grows /\ epoch' = epoch + 1 /\ epoch' \in 1..epoch'
      /\ attested'[epoch + 1] = members /\ members \in Rosters
  BY <1>1, Accepted
<1>3. epoch + 1 \in Nat
  BY EpochKeysAssumption DEF RoomTypes, Epochs
<1>4. /\ EpochKeyFrame(epoch + 1) \in Frame /\ EpochKeyFrame(epoch + 1).kind = "epoch_key"
      /\ EpochKeyFrame(epoch + 1).e = epoch + 1 /\ EpochKeyFrame(epoch + 1).set = members
  BY <1>2, <1>3 DEF EpochKeyFrame, Fr, Frame
<1>5. PICK f \in Frame : f = EpochKeyFrame(epoch + 1)
  BY <1>4
<1>6. f.kind = "epoch_key" /\ f.e = epoch' /\ Push(f) /\ FrameOK(f)'
  BY <1>1, <1>2, <1>4, <1>5 DEF FrameOK
<1>7. StoreTypes' /\ WireTypes' /\ RequestsInv'
  <2>1. toClient' \in Seq(Frame)
    BY <1>6, PushTypes
  <2> QED BY <1>1, <2>1 DEF StoreTypes, WireTypes, RequestsInv, RequestOK
<1>8. FramesInv' /\ OrderInv'
  BY <1>1, <1>2, <1>6, <1>7, TypeKinds, NextKinds, Pushed
<1> QED BY <1>2, <1>7, <1>8

(* The server asks for the key of an epoch within the bound.               *)
LEMMA AskToRotateInv == ASSUME IInv, AskToRotate PROVE IInv'
<1> USE DEF IInv, memory, disk, history
<1>1. /\ epoch < MaxEpoch /\ offered' = offered \cup {epoch + 1} /\ Push(TriggerFrame(epoch + 1))
      /\ UNCHANGED <<phase, memory, hello, loading, disk, toServer, members, dirty>>
      /\ UNCHANGED <<epoch, winner, attested, log, changes, history, sessions>>
  BY DEF AskToRotate
<1>2. epoch + 1 \in Epochs /\ epoch + 1 \in Nat /\ members \in Rosters
  BY <1>1, EpochKeysAssumption DEF RoomTypes, Epochs
<1>3. /\ TriggerFrame(epoch + 1) \in Frame /\ TriggerFrame(epoch + 1).kind = "epoch_trigger"
      /\ TriggerFrame(epoch + 1).e = epoch + 1
  BY <1>2 DEF TriggerFrame, Fr, Frame
<1>4. PICK f \in Frame : f = TriggerFrame(epoch + 1)
  BY <1>3
<1>5. f.kind = "epoch_trigger" /\ Push(f) /\ FrameOK(f)'
  BY <1>1, <1>2, <1>3, <1>4 DEF FrameOK
<1>6. KeyTypes' /\ StoreTypes' /\ RoomTypes' /\ WireTypes'
  <2>1. toClient' \in Seq(Frame)
    BY <1>5, PushTypes
  <2> QED BY <1>1, <1>2, <2>1 DEF KeyTypes, StoreTypes, RoomTypes, WireTypes
<1>7. WinnerInv' /\ KeyInv' /\ CurrentInv' /\ RowInv' /\ RequestsInv' /\ Keeps /\ Grows
  BY <1>1, TypeKinds DEF WinnerInv, KeyInv, KeyOK, CurrentInv, RowInv, Lost, RequestsInv, RequestOK,
                         Keeps, Grows, Kinds
<1>8. FramesInv' /\ OrderInv'
  BY <1>1, <1>5, <1>6, <1>7, TypeKinds, NextKinds, Pushed
<1> QED BY <1>6, <1>7, <1>8

(* A request the server takes off the wire leaves the others in place.     *)
LEMMA Answered ==
  ASSUME WireTypes, RequestsInv, toServer # << >>, toServer' = Tail(toServer),
         UNCHANGED <<phase, keys, generated>>
  PROVE  toServer' \in Seq(Request) /\ RequestsInv' /\ RequestOK(Head(toServer))
<1>1. /\ toServer' \in Seq(Request) /\ Head(toServer) = toServer[1]
      /\ Len(toServer) \in Nat \ {0} /\ Len(toServer') = Len(toServer) - 1
      /\ \A n \in 1..Len(toServer') : toServer'[n] = toServer[n + 1]
  BY TailSeq DEF WireTypes
<1>2. RequestOK(toServer[1])
  BY <1>1 DEF RequestsInv
<1>3. ASSUME NEW n \in 1..Len(toServer') PROVE RequestOK(toServer[n])'
  <2>1. n + 1 \in 1..Len(toServer) /\ toServer'[n] = toServer[n + 1]
    BY <1>1
  <2>2. RequestOK(toServer[n + 1])
    BY <2>1 DEF RequestsInv
  <2> QED BY <2>1, <2>2 DEF RequestOK
<1> QED BY <1>1, <1>2, <1>3 DEF RequestsInv

(* The server accepts or refuses the rotation; the client that made it has *)
(* the key.                                                                *)
LEMMA AnswerRotateInv == ASSUME IInv, AnswerRotate PROVE IInv'
<1> USE DEF IInv, memory, disk, history
<1> DEFINE q == Head(toServer)
<1>1. /\ toServer # << >> /\ q.kind = "epoch_rotate" /\ toServer' = Tail(toServer)
      /\ UNCHANGED <<phase, memory, hello, loading, disk, history, sessions>>
      /\ \/ q.e = epoch + 1 /\ Accept("mine") /\ Push(ConfirmedFrame(epoch + 1))
         \/ UNCHANGED <<server, toClient>>
  BY DEF AnswerRotate
<1>2. /\ toServer' \in Seq(Request) /\ RequestsInv'
      /\ q.e \in Epochs /\ generated[q.e] # 0
      /\ phase # "off" => keys[q.e] # "none"
  BY <1>1, Answered DEF RequestOK
<1>3. CASE UNCHANGED <<server, toClient>>
  <2>1. KeyTypes' /\ StoreTypes' /\ RoomTypes' /\ WireTypes'
    BY <1>1, <1>2, <1>3 DEF KeyTypes, StoreTypes, RoomTypes, WireTypes, server
  <2>2. WinnerInv' /\ KeyInv' /\ CurrentInv' /\ RowInv' /\ Keeps /\ Grows
    BY <1>1, <1>3, TypeKinds DEF WinnerInv, KeyInv, KeyOK, CurrentInv, RowInv, Lost, Keeps, Grows, Kinds, server
  <2>3. UNCHANGED <<phase, epoch, toClient>>
    BY <1>1, <1>3 DEF server
  <2>4. FramesInv' /\ OrderInv'
    BY <2>1, <2>2, <2>3, TypeKinds, NextKinds, Unsent
  <2> QED BY <1>2, <2>1, <2>2, <2>4
<1>4. CASE q.e = epoch + 1 /\ Accept("mine") /\ Push(ConfirmedFrame(epoch + 1))
  <2>1. epoch < MaxEpoch /\ epoch + 1 \in Nat /\ epoch + 1 \in Epochs
    BY <1>2, <1>4, EpochKeysAssumption DEF RoomTypes, Epochs
  <2>2. /\ KeyTypes' /\ RoomTypes' /\ WinnerInv' /\ KeyInv' /\ CurrentInv' /\ RowInv'
        /\ Keeps /\ Grows /\ epoch' = epoch + 1 /\ epoch' \in 1..epoch'
    BY <1>1, <1>2, <1>4, <2>1, Accepted
  <2>3. /\ ConfirmedFrame(epoch + 1) \in Frame /\ ConfirmedFrame(epoch + 1).kind = "epoch_confirmed"
        /\ ConfirmedFrame(epoch + 1).e = epoch + 1
    BY <2>1 DEF ConfirmedFrame, Fr, Frame, Rosters
  <2>4. PICK f \in Frame : f = ConfirmedFrame(epoch + 1)
    BY <2>3
  <2>5. f.kind = "epoch_confirmed" /\ Push(f) /\ FrameOK(f)'
    BY <1>4, <2>2, <2>3, <2>4 DEF FrameOK
  <2>6. StoreTypes' /\ WireTypes'
    <3>1. toClient' \in Seq(Frame)
      BY <2>5, PushTypes
    <3> QED BY <1>1, <1>2, <3>1 DEF StoreTypes, WireTypes
  <2>7. phase = "off" \/ keys'[epoch'] # "none"
    BY <1>1, <1>2, <1>4, <2>2
  <2>8. FramesInv' /\ OrderInv'
    <3>1. phase' = phase
      BY <1>1
    <3> QED BY <2>2, <2>5, <2>6, <2>7, <3>1, TypeKinds, NextKinds, Pushed
  <2> QED BY <1>2, <2>2, <2>6, <2>8
<1> QED BY <1>1, <1>3, <1>4

(* A fresh list of members is on its way.                                  *)
LEMMA AnswerMembersInv == ASSUME IInv, AnswerMembers PROVE IInv'
<1> USE DEF IInv, memory, disk, server, history
<1>1. /\ toServer # << >> /\ toServer' = Tail(toServer) /\ Push(MembersFrame)
      /\ UNCHANGED <<phase, memory, hello, loading, disk, server, history, sessions>>
  BY DEF AnswerMembers
<1>2. toServer' \in Seq(Request) /\ RequestsInv'
  BY <1>1, Answered
<1>3. MembersFrame \in Frame /\ MembersFrame.kind = "room_members_list"
  BY DEF MembersFrame, Fr, Frame, RoomTypes
<1>4. PICK f \in Frame : f = MembersFrame
  BY <1>3
<1>5. f.kind = "room_members_list" /\ Push(f) /\ FrameOK(f)'
  BY <1>1, <1>3, <1>4 DEF FrameOK
<1>6. KeyTypes' /\ StoreTypes' /\ RoomTypes' /\ WireTypes'
  <2>1. toClient' \in Seq(Frame)
    BY <1>5, PushTypes
  <2> QED BY <1>1, <1>2, <2>1 DEF KeyTypes, StoreTypes, RoomTypes, WireTypes
<1>7. WinnerInv' /\ KeyInv' /\ CurrentInv' /\ RowInv' /\ Keeps /\ Grows
  BY <1>1, TypeKinds DEF WinnerInv, KeyInv, KeyOK, CurrentInv, RowInv, Lost, Keeps, Grows, Kinds
<1>8. FramesInv' /\ OrderInv'
  <2>1. phase' = phase /\ epoch' = epoch
    BY <1>1
  <2> QED BY <1>5, <1>6, <1>7, <2>1, TypeKinds, NextKinds, Pushed
<1> QED BY <1>2, <1>6, <1>7, <1>8

(* A message is posted under an epoch that was announced before.           *)
LEMMA PostInv == ASSUME IInv, Post PROVE IInv'
<1> USE DEF IInv, memory, disk, history
<1>1. /\ Len(log) < MaxMessages /\ log' = Append(log, epoch) /\ Push(MessageFrame(Len(log) + 1))
      /\ UNCHANGED <<phase, memory, hello, loading, disk, toServer, members, dirty>>
      /\ UNCHANGED <<epoch, winner, attested, offered, changes, history, sessions>>
  BY DEF Post
<1>2. /\ log \in Seq(Epochs) /\ epoch \in Epochs /\ MaxMessages \in Nat
      /\ \A e \in Epochs : e \in Nat
  BY EpochKeysAssumption DEF RoomTypes, Epochs
<1>3. /\ log' \in Seq(Epochs) /\ Len(log) \in Nat /\ Len(log') = Len(log) + 1
      /\ \A i \in 1..Len(log) : log'[i] = log[i]
      /\ log'[Len(log) + 1] = epoch
  BY <1>1, <1>2, AppendSeq
<1>4. /\ MessageFrame(Len(log) + 1) \in Frame /\ MessageFrame(Len(log) + 1).kind = "message"
      /\ MessageFrame(Len(log) + 1).e = Len(log) + 1
  BY <1>3 DEF MessageFrame, Fr, Frame, Rosters
<1>5. PICK f \in Frame : f = MessageFrame(Len(log) + 1)
  BY <1>4
<1>6. f.kind = "message" /\ f.e = Len(log) + 1 /\ Push(f)
  BY <1>1, <1>4, <1>5
<1>7. FrameOK(f)'
  BY <1>3, <1>6 DEF FrameOK
<1>8. KeyTypes' /\ StoreTypes' /\ RoomTypes' /\ WireTypes'
  <2>1. toClient' \in Seq(Frame)
    BY <1>6, PushTypes
  <2> QED BY <1>1, <1>3, <2>1 DEF KeyTypes, StoreTypes, RoomTypes, WireTypes
<1>9. WinnerInv' /\ KeyInv' /\ CurrentInv' /\ RequestsInv' /\ Keeps /\ Grows
  <2>1. WinnerInv' /\ KeyInv' /\ CurrentInv' /\ RequestsInv' /\ Keeps
    BY <1>1 DEF WinnerInv, KeyInv, KeyOK, CurrentInv, RequestsInv, RequestOK, Keeps
  <2>2. Grows
    BY <1>1, <1>2, <1>3 DEF Grows
  <2> QED BY <2>1, <2>2
<1>10. RowInv'
  <2>1. Lost' = Lost /\ refused' = refused /\ row' = row /\ epoch' = epoch
    BY <1>1 DEF Lost
  <2>2. Len(log') <= MaxMessages
    BY <1>1, <1>2, <1>3
  <2>3. \A i \in 1..Len(log') : log'[i] <= epoch
    <3>1. \A i \in 1..Len(log) : log[i] <= epoch
      BY DEF RowInv
    <3> QED BY <1>2, <1>3, <3>1
  <2>4. \A i \in Messages : row[i] # "absent" => i \in 1..Len(log) /\ i <= Len(log')
    BY <1>3 DEF RowInv, Messages
  <2>5. \A i \in Messages : /\ row[i] = "history" => log'[i] < epoch
                            /\ row[i] = "empty" => log'[i] \in refused \cup Lost
    <3>1. \A i \in Messages : /\ row[i] = "history" => log[i] < epoch
                              /\ row[i] = "empty" => log[i] \in refused \cup Lost
      BY DEF RowInv
    <3> QED BY <1>3, <2>4, <3>1
  <2> QED BY <2>1, <2>2, <2>3, <2>4, <2>5 DEF RowInv
<1>11. FramesInv' /\ OrderInv'
  <2>1. phase' = phase /\ epoch' = epoch /\ log'[f.e] = epoch
    BY <1>1, <1>3, <1>6
  <2> QED BY <1>6, <1>7, <1>8, <1>9, <2>1, TypeKinds, NextKinds, Pushed
<1> QED BY <1>8, <1>9, <1>10, <1>11

(* A page of history holds messages that were posted.                      *)
LEMMA PageInv == ASSUME IInv, Page PROVE IInv'
<1> USE DEF IInv, memory, disk, server, history
<1>1. /\ Push(BatchFrame(0, Len(log)))
      /\ UNCHANGED <<phase, memory, hello, loading, disk, toServer, server, history, sessions>>
  BY DEF Page
<1>2. Len(log) \in Nat
  BY DEF RoomTypes
<1>3. /\ BatchFrame(0, Len(log)) \in Frame /\ BatchFrame(0, Len(log)).kind = "sync_batch"
      /\ BatchFrame(0, Len(log)).upto = Len(log)
  BY <1>2 DEF BatchFrame, Fr, Frame, Rosters
<1>4. PICK f \in Frame : f = BatchFrame(0, Len(log))
  BY <1>3
<1>5. f.kind = "sync_batch" /\ Push(f) /\ FrameOK(f)'
  BY <1>1, <1>2, <1>3, <1>4 DEF FrameOK
<1>6. KeyTypes' /\ StoreTypes' /\ RoomTypes' /\ WireTypes'
  <2>1. toClient' \in Seq(Frame)
    BY <1>5, PushTypes
  <2> QED BY <1>1, <2>1 DEF KeyTypes, StoreTypes, RoomTypes, WireTypes
<1>7. WinnerInv' /\ KeyInv' /\ CurrentInv' /\ RowInv' /\ RequestsInv' /\ Keeps /\ Grows
  BY <1>1, TypeKinds DEF WinnerInv, KeyInv, KeyOK, CurrentInv, RowInv, Lost, RequestsInv, RequestOK,
                         Keeps, Grows, Kinds
<1>8. FramesInv' /\ OrderInv'
  <2>1. phase' = phase /\ epoch' = epoch
    BY <1>1
  <2> QED BY <1>5, <1>6, <1>7, <2>1, TypeKinds, NextKinds, Pushed
<1> QED BY <1>6, <1>7, <1>8

(* A step of some other component.                                         *)
LEMMA StutterInv == ASSUME IInv, UNCHANGED vars PROVE IInv'
<1> USE DEF IInv, vars, memory, disk, server, history
<1>1. KeyTypes' /\ StoreTypes' /\ RoomTypes' /\ WireTypes'
  BY DEF KeyTypes, StoreTypes, RoomTypes, WireTypes
<1>2. WinnerInv' /\ KeyInv' /\ CurrentInv' /\ RowInv' /\ RequestsInv'
  BY DEF WinnerInv, KeyInv, KeyOK, CurrentInv, RowInv, Lost, RequestsInv, RequestOK
<1>3. FramesInv' /\ OrderInv'
  BY DEF FramesInv, FrameOK, OrderInv, Announced
<1> QED BY <1>1, <1>2, <1>3

-----------------------------------------------------------------------------
(* No step of the readLoop, of the TUI or of the server breaks IInv.       *)
LEMMA StepInv == ASSUME IInv, [Next]_vars PROVE IInv'
<1>1. CASE Dial \/ OpenLocal \/ Disconnect
  BY <1>1, DialInv, OpenLocalInv, DisconnectInv
<1>2. CASE Reader
  BY <1>2, ReadEpochKeyInv, ReadRoomListInv, ReadMembersInv, ReadRoomEventInv, ReadTriggerInv,
     ReadConfirmedInv, ReadMessageInv, ReadBatchInv, ReadSyncCompleteInv DEF Reader
<1>3. CASE Ui
  BY <1>3, UiLoadInv, UiLoadedInv DEF Ui
<1>4. CASE Server
  BY <1>4, OtherRotatesInv, AskToRotateInv, AnswerRotateInv, AnswerMembersInv, PostInv, PageInv,
     MembershipInv DEF Server, Answer
<1>5. CASE UNCHANGED vars
  BY <1>5, StutterInv
<1> QED BY <1>1, <1>2, <1>3, <1>4, <1>5 DEF Next

(* The inductive invariant of epoch.go, epoch_verify.go and the readLoop   *)
(* that feeds them, for every room, membership and bound.                  *)
THEOREM Inductive == Spec => []IInv
<1>1. Init => IInv
  BY InitInv
<1>2. IInv /\ [Next]_vars => IInv'
  BY StepInv
<1> QED BY <1>1, <1>2, PTL DEF Spec

(* Every variable of the epoch key component keeps to its kind.            *)
THEOREM Typing == Spec => []TypeOK
<1>1. IInv => TypeOK
  BY DEF IInv, KeyTypes, StoreTypes, RoomTypes, WireTypes, Request, TypeOK
<1> QED BY <1>1, Inductive, PTL

(* A key of a sync_batch is never adopted, and what it decrypts belongs to *)
(* an epoch the room has left (send.go:377-407).                           *)
THEOREM ScopesStayApart == Spec => []ScopesApart
<1>1. IInv => ScopesApart
  <2> SUFFICES ASSUME IInv PROVE ScopesApart
    OBVIOUS
  <2>1. \A i \in 1..Len(log) : i \in Messages
    BY EpochKeysAssumption DEF IInv, RoomTypes, RowInv, Messages
  <2> QED BY <2>1 DEF IInv, KeyInv, KeyOK, RowInv, ScopesApart
<1> QED BY <1>1, Inductive, PTL

(* The epoch a message is sent under has begun, its key is there, and it   *)
(* is the room's key unless this client lost the rotation (send.go:59-72). *)
THEOREM SendsUnderTheRoomsKey == Spec => []SendsUnderRoomKey
<1>1. IInv => SendsUnderRoomKey
  <2> SUFFICES ASSUME IInv, current > 0 PROVE SendsUnderRoomKey
    BY DEF SendsUnderRoomKey
  <2>1. current \in Epochs /\ current <= epoch /\ keys[current] # "none"
    BY EpochKeysAssumption DEF IInv, KeyTypes, CurrentInv, Epochs
  <2>2. KeyOK(current, keys[current])
    BY <2>1 DEF IInv, KeyInv
  <2>3. keys[current] # winner[current] => current \in Lost
    BY <2>1, <2>2, OwnOrLost DEF IInv
  <2> QED BY <2>1, <2>3 DEF SendsUnderRoomKey
<1> QED BY <1>1, Inductive, PTL

(* For an epoch that has begun, memory and the table epoch_keys hold the   *)
(* room's key or none, lost rotations apart, whatever the TUI's lazy loads *)
(* overtake.                                                               *)
THEOREM KeysStayGenuine == Spec => []KeysGenuine
<1>1. IInv => KeysGenuine
  <2> SUFFICES ASSUME IInv, NEW e \in 1..epoch \ Lost
               PROVE  keys[e] \in {"none", winner[e]} /\ dbKeys[e] \in {"none", winner[e]}
    BY DEF KeysGenuine
  <2>1. e \in Epochs /\ e <= epoch
    BY EpochKeysAssumption DEF IInv, RoomTypes, Epochs
  <2>2. KeyOK(e, keys[e]) /\ KeyOK(e, dbKeys[e])
    BY <2>1 DEF IInv, KeyInv
  <2> QED BY <2>1, <2>2, OwnOrLost DEF IInv
<1> QED BY <1>1, Inductive, PTL

(* A message is stored without its body only if the key of its epoch was   *)
(* refused on delivery or this client lost the rotation                    *)
(* (persist.go:279-285).                                                   *)
THEOREM BodiesOnlyMissRefusedKeys == Spec => []EmptyOnlyIfRefused
<1>1. IInv => EmptyOnlyIfRefused
  <2> SUFFICES ASSUME IInv PROVE EmptyOnlyIfRefused
    OBVIOUS
  <2>1. \A i \in 1..Len(log) : i \in Messages
    BY EpochKeysAssumption DEF IInv, RoomTypes, RowInv, Messages
  <2> QED BY <2>1 DEF IInv, RowInv, EmptyOnlyIfRefused
<1> QED BY <1>1, Inductive, PTL

-----------------------------------------------------------------------------
(* Only three handlers raise the current epoch, each with its own reason.  *)
LEMMA RaisesCurrent ==
  ASSUME IInv, [Next]_vars, current' > current
  PROVE  roster' = attested[current'] \/ rotated = current'
<1> USE DEF IInv
<1>0. current \in Nat
  BY EpochKeysAssumption DEF KeyTypes
<1>1. CASE ReadEpochKey
  <2>1. /\ roster' = roster /\ Receive("epoch_key")
        /\ \/ roster = Head(toClient).set /\ StoreEpochKey(Head(toClient).e)
           \/ Refuse(Head(toClient).e)
    BY <1>1 DEF ReadEpochKey
  <2>2. StoreEpochKey(Head(toClient).e) /\ roster = Head(toClient).set
    BY <1>0, <2>1 DEF Refuse
  <2>3. current' = Head(toClient).e
    BY <1>0, <2>2 DEF StoreEpochKey, Larger
  <2>4. Head(toClient).set = attested[Head(toClient).e]
    <3>1. 1 \in 1..Len(toClient) /\ Head(toClient) = toClient[1] /\ toClient[1].kind = "epoch_key"
      BY <2>1, Received
    <3> QED BY <3>1 DEF FramesInv, FrameOK
  <2> QED BY <2>1, <2>2, <2>3, <2>4
<1>2. CASE ReadMembers
  <2>1. stash # 0 /\ roster' = attested[stash] /\ StoreEpochKey(stash)
    BY <1>0, <1>2 DEF ReadMembers
  <2>2. current' = stash
    BY <1>0, <2>1 DEF StoreEpochKey, Larger
  <2> QED BY <2>1, <2>2
<1>3. CASE ReadConfirmed
  <2>1. rotated = Head(toClient).e /\ current' = Larger(current, Head(toClient).e)
    BY <1>0, <1>3 DEF ReadConfirmed
  <2> QED BY <1>0, <2>1 DEF Larger
<1>4. CASE Dial
  BY <1>0, <1>4 DEF Dial
<1>5. CASE OpenLocal \/ Disconnect \/ Ui
  BY <1>0, <1>5 DEF OpenLocal, Disconnect, Ui, UiLoad, UiLoaded, memory
<1>6. CASE ReadRoomList \/ ReadRoomEvent \/ ReadTrigger \/ ReadMessage \/ ReadBatch \/ ReadSyncComplete
  BY <1>0, <1>6 DEF ReadRoomList, ReadRoomEvent, ReadTrigger, ReadMessage, ReadBatch, ReadSyncComplete
<1>7. CASE Server
  BY <1>0, <1>7 DEF Server, Answer, OtherRotates, AskToRotate, AnswerRotate, AnswerMembers, Post, Page,
                    Membership, memory
<1>8. CASE UNCHANGED vars
  BY <1>0, <1>8 DEF vars, memory
<1> QED BY <1>1, <1>2, <1>3, <1>4, <1>5, <1>6, <1>7, <1>8 DEF Next, Reader

(* The client moves to an epoch only if it made the key, or if the key was *)
(* made for the member set it shows (epoch_verify.go:55-104).              *)
THEOREM AdoptsOnlyWhatIsVisible == Spec => AdoptsOnlyVisible
<1>1. IInv /\ [Next]_vars =>
        [current' > current => roster' = attested[current'] \/ rotated = current']_vars
  BY RaisesCurrent
<1> QED BY <1>1, Inductive, PTL DEF Spec, AdoptsOnlyVisible

=============================================================================
