----------------------------- MODULE GroupProofs ----------------------------
(***************************************************************************)
(* Proofs about Groups: the roster follows the server, and a message key   *)
(* is wrapped for members only.                                            *)
(***************************************************************************)
EXTENDS Groups, SequenceTheorems, FiniteSetTheorems, TLAPS

(* A finite sequence, whatever its elements are.                           *)
Queue(s) == s \in Seq({s[n] : n \in DOMAIN s})

(* The members the first n cells of the list c name.                       *)
Held(c, n) == {c[i] : i \in 1..n}

(* The records of the variables: the server's roster, the row of the group *)
(* on disk, the walk of wrapKeyForGroup, the requests.                     *)
Roster0 == {r \in Rosters : r.adm \subseteq r.mem}
Rows    == [mem : Seq(Users), admin : BOOLEAN, left : BOOLEAN]
Walks   == [on : BOOLEAN, fed : BOOLEAN, n : Nat, i : Nat, own : Seq(Users), got : SUBSET Users]
Asks    == [verb : Requests, user : Users]

(* A frame that states the whole roster, and one that says this account is *)
(* out.                                                                    *)
Whole(f) == f.type \in {"group_list", "added_to"}
Gone(f)  == f.type \in {"left", "deleted"}

(* What every frame says truly, whenever it is read.                       *)
Frame(f) ==
  /\ f.after \in Roster0
  /\ IsEvent(f) => f.user \in Users
  /\ Whole(f) => Me \in f.after.mem
  /\ f.type = "added_to" => Me \notin f.after.adm
  /\ Gone(f) => Me \notin f.after.mem

(* An event frame says how the roster after it came from the roster r      *)
(* before it, and goes to members only.                                    *)
Told(r, f) ==
  /\ Me \in r.mem
  /\ f.type = "leave" => f.user # Me /\ f.after = Without(r, f.user)
  /\ f.type = "join" => f.after = [mem |-> r.mem \cup {f.user}, adm |-> r.adm]
  /\ f.type = "promote" => f.after = [mem |-> r.mem, adm |-> r.adm \cup {f.user}]
  /\ f.type = "demote" => f.after = [mem |-> r.mem, adm |-> r.adm \ {f.user}]

(* The frame f may follow one whose roster is r: an event follows from it, *)
(* an error leaves it, the others state a roster of their own.             *)
Follows(r, f) ==
  /\ IsEvent(f) => Told(r, f)
  /\ ~IsEvent(f) /\ ~Whole(f) /\ ~Gone(f) => f.after = r \/ Me \notin r.mem \cup f.after.mem

(* Each frame of a connection follows the one before it.                   *)
Chain(s) ==
  /\ Queue(s)
  /\ \A n \in DOMAIN s : Frame(s[n])
  /\ \A n \in DOMAIN s : n > 1 => Follows(s[n - 1].after, s[n])

(* What the first frame a new connection reads must be: nobody has told it *)
(* the members yet.                                                        *)
Begins(f) == Whole(f) \/ Me \notin f.after.mem

(* The roster of the last frame sent, h when all were read.                *)
Latest(h, s) == IF s = <<>> THEN h ELSE s[Len(s)].after

(* The frames not read yet lead from the roster heard last to the          *)
(* server's; of a roster this account is not in, it is told nothing.       *)
FeedInv ==
  /\ srv \in Roster0 /\ heard \in Roster0 /\ {link, fed} \subseteq BOOLEAN
  /\ gone \in {"", "left", "deleted"}
  /\ Chain(feed)
  /\ feed # <<>> => IF fed THEN Follows(heard, feed[1]) ELSE Begins(feed[1])
  /\ ~link => feed = <<>>
  /\ link /\ ~fed /\ feed = <<>> => Me \notin heard.mem
  /\ link => Latest(heard, feed) = srv \/ Me \notin srv.mem \cup Latest(heard, feed).mem

(* The cells the Client counts are the members heard of, its admins are    *)
(* the admins, and the row on disk agrees.                                 *)
RosterInv ==
  /\ cells \in Seq(Users) /\ len \in 0..Len(cells)
  /\ row = Nobody \/ row \in Rows
  /\ fed /\ Me \in heard.mem =>
       /\ Held(cells, len) = heard.mem /\ admins = heard.adm
       /\ row \in Rows /\ row.admin = (Me \in heard.adm) /\ row.left = FALSE
  /\ fed /\ Me \notin heard.mem => len = 0

(* The cells the walk reads: the Client's own, or those it had when the    *)
(* list was replaced.                                                      *)
Walked == IF walk.own = <<>> THEN cells ELSE walk.own

(* Of the cells the walk will still read, each holds a member of some      *)
(* roster heard since it began.                                            *)
WalkInv ==
  /\ walk \in Walks
  /\ walk.on => walk.n \in 1..Len(Walked) /\ walk.i # 0
  /\ walk.on /\ walk.fed =>
       /\ fed /\ heard.mem \in seen /\ walk.got \subseteq UNION seen
       /\ \A j \in 1..walk.n : Walked[j] \in UNION seen

(* What the dialogs hold is of the group, and the requests are requests.   *)
AskInv ==
  /\ reqs \in Seq(Asks)
  /\ dialog = Nobody \/ dialog \in DialogType
  /\ picker = Nobody \/ (picker.verb \in Verbs /\ picker.items \subseteq Users)
  /\ heir = Nobody \/ (heir.exit \in Exits /\ heir.items \subseteq Users)
  /\ marker \in {""} \cup Exits
  /\ undo = Nobody \/ undo \in Users
  /\ admins \subseteq Users

(* The inductive invariant.                                                *)
IInv == FeedInv /\ RosterInv /\ WalkInv /\ AskInv

-----------------------------------------------------------------------------

(* Sequences: short ones, one more element, one less.                      *)
LEMMA QueueOf ==
  ASSUME NEW S, NEW s \in Seq(S)
  PROVE  Queue(s)
<1>1. Len(s) \in Nat /\ s \in [1..Len(s) -> S] /\ DOMAIN s = 1..Len(s)
  BY LenProperties
<1>2. s \in [1..Len(s) -> {s[n] : n \in DOMAIN s}]
  BY <1>1
<1> QED BY <1>1, <1>2, SeqDef DEF Queue

(* See QueueOf.                                                            *)
LEMMA Tuples ==
  ASSUME NEW a, NEW b
  PROVE  /\ DOMAIN <<b>> = {1} /\ <<b>>[1] = b /\ Len(<<b>>) = 1 /\ <<b>> # <<>>
         /\ DOMAIN <<a, b>> = {1, 2} /\ <<a, b>>[1] = a /\ <<a, b>>[2] = b
         /\ Len(<<a, b>>) = 2 /\ <<a, b>> # <<>> /\ <<a, b>> # <<b>>
         /\ Queue(<<b>>) /\ Queue(<<a, b>>)
<1>1. <<b>> \in Seq({a, b}) /\ <<a, b>> \in Seq({a, b})
  OBVIOUS
<1>2. DOMAIN <<b>> = {1} /\ <<b>>[1] = b /\ Len(<<b>>) = 1 /\ <<b>> # <<>>
  OBVIOUS
<1>3. DOMAIN <<a, b>> = {1, 2} /\ <<a, b>>[1] = a /\ <<a, b>>[2] = b /\ Len(<<a, b>>) = 2
  OBVIOUS
<1>4. <<a, b>> # <<>>
  OBVIOUS
<1>5. <<a, b>> # <<b>>
  BY <1>2, <1>3
<1> QED BY <1>1, <1>2, <1>3, <1>4, <1>5, QueueOf

(* See QueueOf.                                                            *)
LEMMA ListsOf ==
  ASSUME NEW S, NEW a \in S, NEW b \in S
  PROVE  <<b>> \in Seq(S) /\ <<a, b>> \in Seq(S)
OBVIOUS

(* See QueueOf.                                                            *)
LEMMA Appended ==
  ASSUME NEW s, Queue(s), NEW x
  PROVE  /\ Queue(Append(s, x)) /\ Append(s, x) # <<>>
         /\ Len(s) \in Nat /\ DOMAIN s = 1..Len(s) /\ Len(Append(s, x)) = Len(s) + 1
         /\ DOMAIN Append(s, x) = 1..(Len(s) + 1) /\ Append(s, x)[Len(s) + 1] = x
         /\ \A n \in 1..Len(s) : Append(s, x)[n] = s[n]
         /\ s # <<>> => Len(s) > 0
<1>1. PICK S : S = {s[n] : n \in DOMAIN s} \cup {x}
  OBVIOUS
<1>2. s \in Seq(S) /\ x \in S
  BY <1>1 DEF Queue
<1>3. Append(s, x) \in Seq(S) /\ Len(s) \in Nat /\ DOMAIN s = 1..Len(s)
  BY <1>2, AppendProperties, LenProperties
<1>4. /\ Len(Append(s, x)) = Len(s) + 1 /\ Append(s, x)[Len(s) + 1] = x
      /\ \A n \in 1..Len(s) : Append(s, x)[n] = s[n]
  BY <1>2, AppendProperties
<1>5. DOMAIN Append(s, x) = 1..(Len(s) + 1)
  BY <1>3, <1>4, LenProperties
<1>6. (s # <<>> => Len(s) > 0) /\ Append(s, x) # <<>>
  BY <1>2, <1>3, <1>4, EmptySeq
<1> QED BY <1>3, <1>4, <1>5, <1>6, QueueOf

(* See QueueOf.                                                            *)
LEMMA Taken ==
  ASSUME NEW s, Queue(s), s # <<>>
  PROVE  /\ Queue(Tail(s)) /\ Len(s) \in Nat \ {0} /\ DOMAIN s = 1..Len(s) /\ Head(s) = s[1]
         /\ Len(Tail(s)) = Len(s) - 1 /\ DOMAIN Tail(s) = 1..(Len(s) - 1)
         /\ \A n \in 1..(Len(s) - 1) : Tail(s)[n] = s[n + 1]
         /\ Tail(s) # <<>> <=> Len(s) > 1
<1>1. PICK S : S = {s[n] : n \in DOMAIN s}
  OBVIOUS
<1>2. s \in Seq(S)
  BY <1>1 DEF Queue
<1>3. Tail(s) \in Seq(S) /\ Len(s) \in Nat \ {0} /\ Len(Tail(s)) = Len(s) - 1
  BY <1>2, HeadTailProperties, LenProperties, EmptySeq
<1>4. Tail(s) # <<>> <=> Len(Tail(s)) # 0
  BY <1>3, EmptySeq
<1>5. DOMAIN s = 1..Len(s) /\ DOMAIN Tail(s) = 1..(Len(s) - 1) /\ Head(s) = s[1]
  BY <1>2, <1>3, LenProperties, HeadTailProperties
<1>6. \A n \in 1..(Len(s) - 1) : Tail(s)[n] = s[n + 1]
  BY <1>2, HeadTailProperties
<1>7. Queue(Tail(s))
  BY <1>3, QueueOf
<1>8. Tail(s) # <<>> <=> Len(s) > 1
  BY <1>3, <1>4, SMTT(30)
<1> QED BY <1>3, <1>5, <1>6, <1>7, <1>8

(* The first n cells of a list.                                            *)
LEMMA RosterIs ==
  ASSUME NEW S, NEW c \in Seq(S), NEW n \in 0..Len(c)
  PROVE  /\ ToSet(SubSeq(c, 1, n)) = Held(c, n)
         /\ Held(c, n) \subseteq S
         /\ SubSeq(c, 1, n) \in Seq(S) /\ Len(SubSeq(c, 1, n)) = n
         /\ \A i \in 1..n : SubSeq(c, 1, n)[i] = c[i]
<1>1. /\ SubSeq(c, 1, n) \in Seq(S) /\ Len(SubSeq(c, 1, n)) = n
      /\ \A i \in 1..n : SubSeq(c, 1, n)[i] = c[i]
  <2>1. CASE n = 0
    BY <2>1, SubSeqProperties, LenProperties
  <2>2. CASE n # 0
    BY <2>2, SubSeqProperties, LenProperties
  <2> QED BY <2>1, <2>2
<1>2. DOMAIN SubSeq(c, 1, n) = 1..n
  BY <1>1, LenProperties
<1>3. \A i \in 1..n : c[i] \in S
  BY LenProperties, ElementOfSeq
<1> QED BY <1>1, <1>2, <1>3 DEF ToSet, Held

(* A list made of a set of users names that set.                           *)
LEMMA Listed ==
  ASSUME NEW S \in SUBSET Users, NEW c, c = SetToSeq(S)
  PROVE  c \in Seq(Users) /\ Len(c) \in Nat /\ Held(c, Len(c)) = S
<1>1. IsFiniteSet(Users)
  BY GroupsAssumption
<1>2. IsFiniteSet(S) /\ Cardinality(S) \in Nat /\ ExistsBijection(1..Cardinality(S), S)
  BY <1>1, FS_Subset, FS_CardinalityType
<1>3. PICK n \in Nat : n = Cardinality(S)
  BY <1>2
<1>4. PICK g : g \in [1..n -> S] /\ IsInjective(g)
  BY <1>2, <1>3 DEF ExistsBijection, Bijection, Injection
<1>5. c \in [1..n -> S] /\ IsInjective(c)
  BY <1>3, <1>4 DEF SetToSeq
<1>6. c \in Injection(1..n, S) /\ IsFiniteSet(1..n) /\ Cardinality(1..n) = n
  BY <1>5, FS_Interval DEF Injection
<1>7. c \in Surjection(1..n, S)
  BY <1>2, <1>3, <1>6, FS_Injection
<1>8. c \in Seq(Users) /\ Len(c) = n
  BY <1>5, SeqDef, LenProperties
<1>9. \A x \in S : \E i \in 1..n : c[i] = x
  BY <1>7 DEF Surjection
<1> QED BY <1>5, <1>8, <1>9 DEF Held

(* Filtering a list in place: the cells to keep, and the list d that the   *)
(* filter makes of c.                                                      *)
KeptAt(c, n, u) == {i \in 1..n : c[i] # u}
Sifted(c, kept, d) == d = [i \in DOMAIN c |-> c[IF i \in DOMAIN kept THEN kept[i] ELSE i]]

(* The cells counted after the filter name everyone but u, and a cell      *)
(* beyond them keeps its content or, like the others, gets one of the      *)
(* cells filtered.                                                         *)
LEMMA KeptMembers ==
  ASSUME NEW c \in Seq(Users), NEW n \in 0..Len(c), NEW u,
         NEW kept \in InOrder(KeptAt(c, n, u)), NEW d,
         Sifted(c, kept, d)
  PROVE  /\ d \in Seq(Users) /\ Len(d) = Len(c) /\ Len(kept) \in 0..n
         /\ Held(d, Len(kept)) = Held(c, n) \ {u}
         /\ \A i \in 1..Len(c) : d[i] = c[i] \/ d[i] \in Held(c, n)
<1>1. PICK S : S = {i \in 1..n : c[i] # u}
  OBVIOUS
<1>2. n \in Nat /\ Len(c) \in Nat /\ DOMAIN c = 1..Len(c) /\ \A i \in 1..Len(c) : c[i] \in Users
  BY LenProperties, ElementOfSeq
<1>3. IsFiniteSet(1..n) /\ Cardinality(1..n) = n
  BY <1>2, FS_Interval
<1>4. IsFiniteSet(S) /\ Cardinality(S) \in 0..n
  BY <1>1, <1>3, FS_Subset, FS_CardinalityType
<1>5. PICK k \in 0..n : k = Cardinality(S)
  BY <1>4
<1>6. kept \in [1..k -> S] /\ \A i, j \in 1..k : i < j => kept[i] < kept[j]
  BY <1>1, <1>5 DEF InOrder, KeptAt
<1>7. IsFiniteSet(1..k) /\ Cardinality(1..k) = k /\ k \in Nat
  BY <1>5, FS_Interval
<1>8. ASSUME NEW i \in 1..k, NEW j \in 1..k, kept[i] = kept[j]
      PROVE  i = j
  <2>1. kept[i] \in Nat /\ kept[j] \in Nat
    BY <1>1, <1>6
  <2>2. ~(i < j) /\ ~(j < i)
    BY <1>6, <1>8, <2>1
  <2> QED BY <2>2
<1>9. kept \in Surjection(1..k, S)
  <2>1. kept \in Injection(1..k, S)
    BY <1>6, <1>8 DEF Injection, IsInjective
  <2> QED BY <2>1, <1>4, <1>5, <1>7, FS_Injection
<1>10. Len(kept) = k /\ DOMAIN kept = 1..k
  BY <1>6, <1>7, LenProperties, SeqDef
<1>11. \A i \in 1..k : kept[i] \in 1..n /\ c[kept[i]] # u
  BY <1>1, <1>6
<1>12. \A i \in 1..n : c[i] # u => \E j \in 1..k : kept[j] = i
  BY <1>1, <1>9 DEF Surjection
<1>13. /\ DOMAIN d = 1..Len(c)
       /\ \A i \in 1..k : d[i] = c[kept[i]]
       /\ \A i \in 1..Len(c) : i \notin 1..k => d[i] = c[i]
  BY <1>2, <1>7, <1>10 DEF Sifted
<1>14. d \in [1..Len(c) -> Users]
  BY <1>2, <1>10, <1>11 DEF Sifted
<1>15. d \in Seq(Users) /\ Len(d) = Len(c)
  BY <1>2, <1>14, SeqDef, LenProperties
<1>16. Held(d, k) = Held(c, n) \ {u}
  <2>1. ASSUME NEW i \in 1..k PROVE d[i] \in Held(c, n) \ {u}
    <3>1. d[i] = c[kept[i]] /\ kept[i] \in 1..n /\ c[kept[i]] # u
      BY <1>11, <1>13
    <3> QED BY <3>1 DEF Held
  <2>2. ASSUME NEW x \in Held(c, n) \ {u} PROVE \E i \in 1..k : d[i] = x
    <3>1. PICK i \in 1..n : c[i] = x
      BY DEF Held
    <3>2. PICK j \in 1..k : kept[j] = i
      BY <1>12, <3>1, <2>2
    <3> QED BY <1>13, <3>1, <3>2
  <2> QED BY <2>1, <2>2 DEF Held
<1>17. \A i \in 1..Len(c) : d[i] = c[i] \/ d[i] \in Held(c, n)
  BY <1>11, <1>13 DEF Held
<1> QED BY <1>10, <1>15, <1>16, <1>17

-----------------------------------------------------------------------------

(* The frame that announces what the server granted is true, and follows   *)
(* from the roster it was granted on.                                      *)
LEMMA Granting ==
  ASSUME srv \in Roster0, NEW u \in Users, NEW q \in Asks, Granted(srv, u, q),
         NEW f, f = FrameOf(u, q)
  PROVE  /\ f.after = After(srv, u, q) /\ Frame(f)
         /\ Me \in srv.mem \/ f.type = "added_to" => Follows(srv, f)
         /\ Me \notin srv.mem /\ f.type # "added_to" => Me \notin f.after.mem
<1>1. PICK M \in SUBSET Users, A \in SUBSET Users : srv = [mem |-> M, adm |-> A] /\ A \subseteq M
  BY DEF Roster0, Rosters
<1>2. PICK v \in Requests, w \in Users : q = [verb |-> v, user |-> w]
  BY DEF Asks
<1>3. /\ f.type = (IF v = "add" THEN IF w = Me THEN "added_to" ELSE "join"
                   ELSE IF (v = "kick" /\ w = Me) \/ (v \in Exits /\ u = Me)
                        THEN IF v = "delete" THEN "deleted" ELSE "left"
                   ELSE IF v \in {"promote", "demote"} THEN v ELSE "leave")
      /\ f.user = (IF v \in Exits THEN u ELSE w)
      /\ f.after = After(srv, u, q)
  BY <1>2 DEF FrameOf
<1>4. CASE v = "add"
  <2>1. f.after = [mem |-> M \cup {w}, adm |-> A] /\ w \notin M
    BY <1>1, <1>2, <1>3, <1>4 DEF After, Granted
  <2>2. f.user = w /\ f.type = (IF w = Me THEN "added_to" ELSE "join")
    BY <1>3, <1>4 DEF Exits
  <2> QED BY <1>1, <1>3, <2>1, <2>2 DEF Frame, Follows, Told, Roster0, Rosters, IsEvent, Whole, Gone
<1>5. CASE v = "kick"
  <2>1. f.after = [mem |-> M \ {w}, adm |-> A \ {w}]
    BY <1>1, <1>2, <1>3, <1>5 DEF After, Without
  <2>2. f.user = w /\ f.type = (IF w = Me THEN "left" ELSE "leave")
    BY <1>3, <1>5 DEF Exits
  <2> QED BY <1>1, <1>3, <2>1, <2>2 DEF Frame, Follows, Told, Roster0, Rosters, IsEvent, Whole, Gone, Without
<1>6. CASE v = "promote"
  <2>1. f.after = [mem |-> M, adm |-> A \cup {w}] /\ w \in M
    BY <1>1, <1>2, <1>3, <1>6 DEF After, Granted
  <2>2. f.user = w /\ f.type = "promote"
    BY <1>3, <1>6 DEF Exits
  <2> QED BY <1>1, <1>3, <2>1, <2>2 DEF Frame, Follows, Told, Roster0, Rosters, IsEvent, Whole, Gone
<1>7. CASE v = "demote"
  <2>1. f.after = [mem |-> M, adm |-> A \ {w}]
    BY <1>1, <1>2, <1>3, <1>7 DEF After
  <2>2. f.user = w /\ f.type = "demote"
    BY <1>3, <1>7 DEF Exits
  <2> QED BY <1>1, <1>3, <2>1, <2>2 DEF Frame, Follows, Told, Roster0, Rosters, IsEvent, Whole, Gone
<1>8. CASE v \in Exits
  <2>1. f.after = [mem |-> M \ {u}, adm |-> A \ {u}]
    BY <1>1, <1>2, <1>3, <1>8 DEF After, Without, Exits
  <2>2. f.user = u /\ f.type \in (IF u = Me THEN {"left", "deleted"} ELSE {"leave"})
    BY <1>3, <1>8 DEF Exits
  <2> QED BY <1>1, <1>3, <2>1, <2>2 DEF Frame, Follows, Told, Roster0, Rosters, IsEvent, Whole, Gone, Without
<1> QED BY <1>4, <1>5, <1>6, <1>7, <1>8 DEF Requests, Exits

(* The frame f is sent after those of s.                                   *)
Grown(s, f, t) == t = Append(s, f)

(* A frame that follows from the last one keeps the chain.                 *)
LEMMA ChainGrows ==
  ASSUME NEW s, Chain(s), NEW h, NEW f, Frame(f), Follows(Latest(h, s), f),
         NEW t, Grown(s, f, t)
  PROVE  /\ Chain(t) /\ t # <<>> /\ Latest(h, t) = f.after
         /\ s = <<>> => t[1] = f
         /\ s # <<>> => t[1] = s[1]
<1>1. PICK k \in Nat : k = Len(s)
  BY Appended DEF Chain
<1>2. /\ Queue(t) /\ t # <<>> /\ DOMAIN s = 1..k /\ Len(t) = k + 1 /\ DOMAIN t = 1..(k + 1)
      /\ t[k + 1] = f /\ (\A n \in 1..k : t[n] = s[n]) /\ (s # <<>> => k > 0)
  BY <1>1, Appended DEF Chain, Grown
<1>3. s = <<>> => k = 0
  BY <1>1, EmptySeq
<1>4. \A n \in DOMAIN t : Frame(t[n])
  BY <1>1, <1>2 DEF Chain
<1>5. ASSUME NEW n \in DOMAIN t, n > 1 PROVE Follows(t[n - 1].after, t[n])
  <2>1. CASE n = k + 1
    <3>1. s # <<>> /\ n - 1 = k /\ k \in 1..k
      BY <1>1, <1>2, <1>3, <1>5, <2>1
    <3>2. t[n - 1].after = Latest(h, s)
      BY <1>1, <1>2, <3>1 DEF Latest
    <3> QED BY <1>2, <2>1, <3>2
  <2>2. CASE n # k + 1
    <3>1. n \in 1..k /\ n - 1 \in 1..k
      BY <1>1, <1>2, <1>5, <2>2
    <3> QED BY <1>2, <1>5, <3>1 DEF Chain
  <2> QED BY <2>1, <2>2
<1>6. Latest(h, t) = f.after
  BY <1>2 DEF Latest
<1>7. s # <<>> => 1 \in 1..k
  BY <1>1, <1>2
<1> QED BY <1>2, <1>3, <1>4, <1>5, <1>6, <1>7 DEF Chain

(* The server sends f on the connection that is up.                        *)
Arrives(f) ==
  /\ link /\ Frame(f) /\ Follows(Latest(heard, feed), f)
  /\ feed' = Append(feed, f)
  /\ srv' \in Roster0 /\ gone' \in {"", "left", "deleted"}
  /\ f.after = srv' \/ Me \notin srv'.mem \cup f.after.mem
  /\ UNCHANGED <<heard, link, fed>>

(* The frames still lead to the server's roster.                           *)
LEMMA FrameAdded ==
  ASSUME FeedInv, NEW f, Arrives(f)
  PROVE  FeedInv'
<1>1. PICK s, t, h : s = feed /\ t = Append(s, f) /\ h = heard
  OBVIOUS
<1>2. Chain(s) /\ Frame(f) /\ Follows(Latest(h, s), f) /\ Grown(s, f, t)
  BY <1>1 DEF FeedInv, Arrives, Grown
<1>3. /\ Chain(t) /\ t # <<>> /\ Latest(h, t) = f.after
      /\ s = <<>> => t[1] = f
      /\ s # <<>> => t[1] = s[1]
  BY <1>2, ChainGrows
<1>4. IF fed THEN Follows(h, t[1]) ELSE Begins(t[1])
  <2>1. CASE s # <<>>
    BY <1>1, <1>3, <2>1 DEF FeedInv
  <2>2. CASE s = <<>>
    <3>1. t[1] = f /\ Follows(h, f)
      BY <1>2, <1>3, <2>2 DEF Latest
    <3>2. CASE fed
      BY <3>1, <3>2
    <3>3. CASE ~fed
      <4>1. Me \notin h.mem
        BY <1>1, <2>2, <3>3 DEF FeedInv, Arrives
      <4>2. Begins(f)
        BY <1>2, <3>1, <4>1 DEF Follows, Told, Begins, Frame
      <4> QED BY <3>1, <3>3, <4>2
    <3> QED BY <3>2, <3>3
  <2> QED BY <2>1, <2>2
<1> QED BY <1>1, <1>3, <1>4 DEF FeedInv, Arrives

(* What is granted changes the roster and tells those it concerns: this    *)
(* account too, unless it is not a member, and then there is nothing to be *)
(* told.                                                                   *)
LEMMA Performing ==
  ASSUME FeedInv, NEW u \in Users, NEW q \in Asks, Granted(srv, u, q), Performs(u, q),
         UNCHANGED <<heard, link, fed>>
  PROVE  FeedInv'
<1>1. PICK f : f = FrameOf(u, q)
  OBVIOUS
<1>2. srv \in Roster0
  BY DEF FeedInv
<1>3. /\ f.after = After(srv, u, q) /\ Frame(f)
      /\ Me \in srv.mem \/ f.type = "added_to" => Follows(srv, f)
      /\ Me \notin srv.mem /\ f.type # "added_to" => Me \notin f.after.mem
  BY <1>1, <1>2, Granting
<1>4. /\ srv' = f.after
      /\ gone' \in {"left", "deleted", "", gone}
      /\ feed' = IF (Me \in srv.mem \/ f.type = "added_to") /\ link THEN Append(feed, f) ELSE feed
  BY <1>1, <1>3 DEF Performs
<1>5. srv' \in Roster0 /\ gone' \in {"", "left", "deleted"}
  BY <1>3, <1>4 DEF Frame, FeedInv
<1>6. CASE link /\ (Me \in srv.mem \/ f.type = "added_to")
  <2>1. Follows(Latest(heard, feed), f)
    <3>1. CASE f.type = "added_to"
      BY <3>1 DEF Follows, IsEvent, Whole
    <3>2. CASE f.type # "added_to"
      <4>1. Latest(heard, feed) = srv
        BY <1>6, <3>2 DEF FeedInv
      <4> QED BY <1>3, <1>6, <4>1
    <3> QED BY <3>1, <3>2
  <2>2. Arrives(f)
    BY <1>3, <1>4, <1>5, <1>6, <2>1 DEF Arrives
  <2> QED BY <2>2, FrameAdded
<1>7. CASE ~(link /\ (Me \in srv.mem \/ f.type = "added_to"))
  <2>1. feed' = feed
    BY <1>4, <1>7
  <2>2. link => Me \notin srv.mem /\ Me \notin srv'.mem /\ Me \notin Latest(heard, feed).mem
    BY <1>3, <1>4, <1>7 DEF FeedInv
  <2> QED BY <1>5, <2>1, <2>2 DEF FeedInv
<1> QED BY <1>6, <1>7

(* See Performing.                                                         *)
LEMMA OthersActFeed ==
  ASSUME FeedInv, OthersAct
  PROVE  FeedInv'
<1>1. PICK u \in Users, q \in Asks : Granted(srv, u, q) /\ Performs(u, q)
  BY DEF OthersAct, Asks
<1>2. UNCHANGED <<heard, link, fed>>
  BY DEF OthersAct, rosterVars
<1> QED BY <1>1, <1>2, Performing

(* See Performing; a refusal leaves the roster as it was.                  *)
LEMMA ServeFeed ==
  ASSUME FeedInv, AskInv, Serve
  PROVE  FeedInv' /\ reqs' \in Seq(Asks)
<1>1. /\ reqs # <<>> /\ link
      /\ reqs' = Tail(reqs)
      /\ UNCHANGED <<heard, link, fed>>
  BY DEF Serve, rosterVars
<1>2. Head(reqs) \in Asks /\ reqs' \in Seq(Asks) /\ Me \in Users
  BY <1>1, HeadTailProperties, GroupsAssumption DEF AskInv
<1>3. CASE Granted(srv, Me, Head(reqs))
  <2>1. Performs(Me, Head(reqs))
    BY <1>3 DEF Serve
  <2> QED BY <1>1, <1>2, <1>3, <2>1, Performing
<1>4. CASE ~Granted(srv, Me, Head(reqs))
  <2>1. PICK f : f.type = "error" /\ f.after = srv /\ feed' = Append(feed, f)
    BY <1>4 DEF Serve
  <2>2. UNCHANGED <<srv, gone>>
    BY <1>4 DEF Serve, serverVars
  <2>3. Frame(f) /\ Follows(Latest(heard, feed), f)
    BY <1>1, <2>1 DEF FeedInv, Frame, Follows, IsEvent, Whole, Gone
  <2>4. srv' \in Roster0 /\ gone' \in {"", "left", "deleted"} /\ f.after = srv'
    BY <2>1, <2>2 DEF FeedInv
  <2>5. Arrives(f)
    BY <1>1, <2>1, <2>3, <2>4 DEF Arrives
  <2> QED BY <1>2, <2>5, FrameAdded
<1> QED BY <1>3, <1>4

(* The frame read is what the next one follows from.                       *)
LEMMA ReadFeed ==
  ASSUME FeedInv, Read
  PROVE  /\ FeedInv' /\ link /\ feed # <<>>
         /\ Frame(Head(feed)) /\ heard' = Head(feed).after
         /\ fed' = (fed \/ Whole(Head(feed)) \/ Gone(Head(feed)))
         /\ fed => Follows(heard, Head(feed))
<1>1. PICK s, f, t : s = feed /\ f = Head(s) /\ t = Tail(s)
  OBVIOUS
<1>2. /\ link /\ s # <<>> /\ Chain(s) /\ feed' = t /\ heard' = f.after
      /\ fed' = (fed \/ Whole(f) \/ Gone(f))
      /\ UNCHANGED <<srv, gone, link>>
      /\ IF fed THEN Follows(heard, s[1]) ELSE Begins(s[1])
  BY <1>1 DEF Read, FeedInv, Whole, Gone, serverVars
<1>3. PICK k \in Nat : k = Len(s)
  BY <1>1, <1>2, Taken DEF Chain
<1>4. /\ k # 0 /\ Queue(t) /\ DOMAIN s = 1..k /\ f = s[1] /\ Len(t) = k - 1
      /\ DOMAIN t = 1..(k - 1) /\ (\A n \in 1..(k - 1) : t[n] = s[n + 1])
      /\ t # <<>> <=> k > 1
  BY <1>1, <1>2, <1>3, Taken DEF Chain
<1>5. Frame(f)
  BY <1>2, <1>3, <1>4 DEF Chain
<1>6. \A n \in 1..(k - 1) : n + 1 \in 1..k /\ t[n] = s[n + 1] /\ s[n + 1 - 1] = s[n] /\ n + 1 > 1
  BY <1>3, <1>4
<1>7. \A n \in 1..(k - 1) : Frame(t[n]) /\ Follows(s[n].after, t[n])
  <2>1. ASSUME NEW n \in 1..(k - 1) PROVE Frame(t[n]) /\ Follows(s[n].after, t[n])
    <3>1. PICK m \in DOMAIN s : m = n + 1 /\ m > 1 /\ t[n] = s[m] /\ s[m - 1] = s[n]
      BY <1>4, <1>6
    <3>2. Frame(s[m]) /\ Follows(s[m - 1].after, s[m])
      BY <1>2, <3>1 DEF Chain
    <3> QED BY <3>1, <3>2
  <2> QED BY <2>1
<1>8. Chain(t)
  <2>1. ASSUME NEW n \in 1..(k - 1), n > 1 PROVE Follows(t[n - 1].after, t[n])
    <3>1. n - 1 \in 1..(k - 1) /\ n - 1 + 1 = n
      BY <1>3, <2>1
    <3>2. t[n - 1] = s[n]
      BY <1>4, <3>1
    <3> QED BY <1>7, <3>2
  <2> QED BY <1>4, <1>7, <2>1 DEF Chain
<1>9. t # <<>> => Follows(f.after, t[1]) /\ Frame(t[1])
  <2>1. t # <<>> => 1 \in 1..(k - 1)
    BY <1>3, <1>4
  <2> QED BY <1>4, <1>7, <2>1
<1>10. ~fed' => Me \notin f.after.mem
  BY <1>2, <1>4 DEF Begins
<1>11. t # <<>> => IF fed' THEN Follows(f.after, t[1]) ELSE Begins(t[1])
  <2>1. ASSUME t # <<>>, ~fed' PROVE Begins(t[1])
    BY <1>9, <1>10, <2>1 DEF Follows, Told, Begins, Frame
  <2> QED BY <1>9, <2>1
<1>12. Latest(f.after, t) = Latest(heard, s)
  <2>1. CASE t = <<>>
    <3>1. k = 1
      BY <1>3, <1>4, <2>1
    <3> QED BY <1>2, <1>3, <1>4, <2>1, <3>1 DEF Latest
  <2>2. CASE t # <<>>
    <3>1. k - 1 \in 1..(k - 1) /\ k - 1 + 1 = k
      BY <1>3, <1>4, <2>2
    <3>2. t[k - 1] = s[k]
      BY <1>4, <3>1
    <3> QED BY <1>2, <1>3, <1>4, <2>2, <3>2 DEF Latest
  <2> QED BY <2>1, <2>2
<1>13. heard' \in Roster0 /\ fed' \in BOOLEAN
  BY <1>2, <1>5 DEF Frame
<1>14. FeedInv'
  BY <1>1, <1>2, <1>8, <1>10, <1>11, <1>12, <1>13 DEF FeedInv
<1> QED BY <1>1, <1>2, <1>4, <1>5, <1>14

-----------------------------------------------------------------------------

(* A list replaced under a walk stays with the walk.                       *)
Carried == IF walk.on /\ walk.own = <<>> THEN [walk EXCEPT !.own = cells] ELSE walk

(* What a frame does to the cells the walk reads: some get a member of S,  *)
(* or the walk keeps the old ones.                                         *)
Moved(S) ==
  \/ /\ walk' = walk /\ Len(cells) <= Len(cells')
     /\ \A i \in 1..Len(cells) : cells'[i] = cells[i] \/ cells'[i] \in S
  \/ walk' = Carried

(* The walk meets only members heard of since it began, if what is written *)
(* under it is one of them.                                                *)
LEMMA WalkGoesOn ==
  ASSUME WalkInv, cells \in Seq(Users), cells' \in Seq(Users), NEW S, Moved(S),
         walk.on => seen \subseteq seen' /\ heard'.mem \in seen' /\ (fed => fed'),
         walk.on /\ walk.fed => S \subseteq UNION seen'
  PROVE  WalkInv'
<1>1. PICK o \in BOOLEAN, d \in BOOLEAN, n \in Nat, j \in Nat, own \in Seq(Users), g \in SUBSET Users :
        walk = [on |-> o, fed |-> d, n |-> n, i |-> j, own |-> own, got |-> g]
  BY DEF WalkInv, Walks
<1>2. PICK c \in Seq(Users), m \in Nat : c = cells /\ m = Len(c)
  BY LenProperties
<1>3. CASE ~o
  BY <1>1, <1>3 DEF WalkInv, Moved, Carried
<1>4. CASE o /\ walk' = Carried /\ own = <<>>
  <2>1. walk' = [on |-> o, fed |-> d, n |-> n, i |-> j, own |-> c, got |-> g]
    BY <1>1, <1>2, <1>4 DEF Carried
  <2>2. Walked = c /\ n \in 1..m
    BY <1>1, <1>2, <1>4 DEF WalkInv, Walked
  <2>3. c # <<>> /\ walk' \in Walks
    BY <1>2, <2>1, <2>2, EmptySeq DEF Walks
  <2>4. Walked' = c
    BY <2>1, <2>3 DEF Walked
  <2> QED BY <1>1, <1>2, <1>4, <2>1, <2>2, <2>3, <2>4 DEF WalkInv
<1>5. CASE o /\ walk' = walk /\ own # <<>>
  <2>1. Walked' = own /\ Walked = own
    BY <1>1, <1>5 DEF Walked
  <2> QED BY <1>1, <1>5, <2>1 DEF WalkInv
<1>6. CASE o /\ walk' = walk /\ own = <<>> /\ walk' # Carried
  <2>1. /\ Walked' = cells' /\ Walked = c
        /\ m <= Len(cells') /\ Len(cells') \in Nat
        /\ \A i \in 1..m : cells'[i] = c[i] \/ cells'[i] \in S
    BY <1>1, <1>2, <1>6, LenProperties DEF Walked, Moved
  <2>2. n \in 1..m
    BY <1>1, <1>2, <1>6, <2>1 DEF WalkInv
  <2>3. n \in 1..Len(cells')
    BY <1>2, <2>1, <2>2
  <2>4. d => \A i \in 1..n : cells'[i] \in UNION seen'
    <3>1. ASSUME d, NEW i \in 1..n PROVE cells'[i] \in UNION seen'
      <4>1. i \in 1..m
        BY <1>2, <2>2
      <4>2. c[i] \in UNION seen
        BY <1>1, <1>6, <2>1, <3>1 DEF WalkInv
      <4> QED BY <1>1, <1>6, <2>1, <3>1, <4>1, <4>2
    <3> QED BY <3>1
  <2> QED BY <1>1, <1>6, <2>1, <2>3, <2>4 DEF WalkInv
<1> QED BY <1>1, <1>3, <1>4, <1>5, <1>6 DEF Moved, Carried

-----------------------------------------------------------------------------

(* The three ways the handlers change the list.                            *)
LEMMA Filtering ==
  ASSUME RosterInv, NEW u, FilterInPlace(u)
  PROVE  /\ cells' \in Seq(Users) /\ len' \in 0..Len(cells')
         /\ Held(cells', len') = Held(cells, len) \ {u}
         /\ Moved(Held(cells, len))
<1>1. PICK c, n, d : c = cells /\ n = len /\ d = cells'
  OBVIOUS
<1>2. PICK kept \in InOrder(KeptAt(c, n, u)) :
        Sifted(c, kept, d) /\ len' = Len(kept) /\ walk' = walk
  BY <1>1 DEF FilterInPlace, Sifted, KeptAt
<1>3. c \in Seq(Users) /\ n \in 0..Len(c) /\ Len(c) \in Nat
  BY <1>1, LenProperties DEF RosterInv
<1>4. /\ d \in Seq(Users) /\ Len(d) = Len(c) /\ Len(kept) \in 0..n
      /\ Held(d, Len(kept)) = Held(c, n) \ {u}
      /\ \A i \in 1..Len(c) : d[i] = c[i] \/ d[i] \in Held(c, n)
  BY <1>2, <1>3, KeptMembers
<1>5. Len(kept) \in 0..Len(d) /\ Len(c) <= Len(d)
  BY <1>3, <1>4
<1> QED BY <1>1, <1>2, <1>4, <1>5 DEF Moved

(* See Filtering.                                                          *)
LEMMA Replacing ==
  ASSUME NEW list \in Seq(Users), Replace(list), NEW S
  PROVE  /\ cells' = list /\ len' = Len(list) /\ Len(list) \in Nat
         /\ cells' \in Seq(Users) /\ len' \in 0..Len(cells') /\ Moved(S)
BY LenProperties DEF Replace, Moved, Carried

(* See Filtering.                                                          *)
LEMMA Appending ==
  ASSUME RosterInv, NEW u \in Users, AppendMember(u)
  PROVE  /\ cells' \in Seq(Users) /\ len' \in 0..Len(cells')
         /\ Held(cells', len') = Held(cells, len) \cup {u}
         /\ Moved({u})
<1>0. PICK c \in Seq(Users) : c = cells
  BY DEF RosterInv
<1>1. PICK n \in 0..Len(c), m \in Nat : c = cells /\ n = len /\ m = Len(c)
  BY <1>0, LenProperties DEF RosterInv
<1>2. /\ Members = Held(c, n) /\ Roster \in Seq(Users) /\ Len(Roster) = n
      /\ \A i \in 1..n : Roster[i] = c[i]
  BY <1>1, RosterIs DEF Members, Roster
<1>3. /\ DOMAIN c = 1..m /\ n \in 0..m /\ n \in Nat
      /\ c \in [1..m -> Users]
  BY <1>1, LenProperties
<1>4. CASE u \in Members
  BY <1>1, <1>2, <1>3, <1>4 DEF AppendMember, Moved
<1>5. CASE u \notin Members /\ len < Len(cells)
  <2>1. cells' = [c EXCEPT ![n + 1] = u] /\ len' = n + 1 /\ walk' = walk
    BY <1>1, <1>5 DEF AppendMember
  <2>2. cells' \in [1..m -> Users] /\ n + 1 \in 1..m
    BY <1>1, <1>3, <1>5, <2>1
  <2>3. cells' \in Seq(Users) /\ Len(cells') = m
    BY <1>3, <2>2, SeqDef, LenProperties
  <2>4. cells'[n + 1] = u /\ \A i \in 1..m : i # n + 1 => cells'[i] = c[i]
    BY <1>3, <2>1, <2>2
  <2>5. Held(cells', n + 1) = Held(c, n) \cup {u}
    <3>1. ASSUME NEW i \in 1..(n + 1) PROVE cells'[i] \in Held(c, n) \cup {u}
      <4>1. CASE i = n + 1
        BY <2>4, <4>1
      <4>2. CASE i # n + 1
        <5>1. i \in 1..n /\ i \in 1..m
          BY <1>3, <4>2
        <5> QED BY <2>4, <4>2, <5>1 DEF Held
      <4> QED BY <4>1, <4>2
    <3>2. ASSUME NEW i \in 1..n PROVE c[i] \in Held(cells', n + 1)
      <4>1. i \in 1..(n + 1) /\ i \in 1..m /\ i # n + 1
        BY <1>3
      <4> QED BY <2>4, <4>1 DEF Held
    <3>3. u \in Held(cells', n + 1)
      <4>1. n + 1 \in 1..(n + 1)
        BY <1>3
      <4> QED BY <2>4, <4>1 DEF Held
    <3> QED BY <3>1, <3>2, <3>3 DEF Held
  <2>6. len' \in 0..Len(cells')
    BY <1>3, <2>1, <2>2, <2>3
  <2>7. Moved({u})
    <3>1. Len(cells) <= Len(cells') /\ Len(cells) = m
      BY <1>1, <2>3
    <3>2. \A i \in 1..Len(cells) : cells'[i] = cells[i] \/ cells'[i] \in {u}
      BY <1>1, <2>4
    <3> QED BY <2>1, <3>1, <3>2 DEF Moved
  <2> QED BY <1>1, <2>1, <2>3, <2>5, <2>6, <2>7
<1>6. CASE u \notin Members /\ ~(len < Len(cells))
  <2>1. PICK r \in Seq(Users) : r = Roster
    BY <1>2
  <2>2. PICK t : t = Append(r, u)
    OBVIOUS
  <2>3. /\ t \in Seq(Users) /\ Len(t) = n + 1 /\ t[n + 1] = u
        /\ \A i \in 1..n : t[i] = c[i]
    BY <1>2, <2>1, <2>2, AppendProperties
  <2>4. Replace(t)
    BY <1>6, <2>1, <2>2 DEF AppendMember
  <2>5. /\ cells' = t /\ len' = n + 1
        /\ cells' \in Seq(Users) /\ len' \in 0..Len(cells') /\ Moved({u})
    BY <2>3, <2>4, Replacing
  <2>6. Held(t, n + 1) = Held(c, n) \cup {u}
    <3>1. \A i : i \in 1..(n + 1) <=> i \in 1..n \/ i = n + 1
      BY <1>3
    <3> QED BY <2>3, <3>1 DEF Held
  <2> QED BY <1>1, <2>5, <2>6
<1> QED BY <1>4, <1>5, <1>6

(* The handler of an event does to the list what the event says happened   *)
(* to the roster.                                                          *)
LEMMA EventRoster ==
  ASSUME RosterInv, WalkInv, FeedInv, admins \subseteq Users, NEW f, IsEvent(f), GroupEvent(f),
         Frame(f), fed => Follows(heard, f), heard' = f.after, fed' = fed,
         seen' = IF walk.on THEN seen \cup {f.after.mem} ELSE seen
  PROVE  RosterInv' /\ WalkInv' /\ admins' \subseteq Users
<1>1. f.user \in Users /\ (fed => Told(heard, f))
  BY DEF Frame, Follows
<1>2. PICK M \in SUBSET Users, A \in SUBSET Users : heard = [mem |-> M, adm |-> A]
  BY DEF FeedInv, Roster0, Rosters
<1>3. /\ cells \in Seq(Users) /\ len \in 0..Len(cells) /\ Len(cells) \in Nat
      /\ row = Nobody \/ row \in Rows
  BY LenProperties DEF RosterInv
<1>4. fed => /\ Held(cells, len) = M /\ admins = A /\ Me \in M
             /\ row \in Rows /\ row.admin = (Me \in A) /\ row.left = FALSE
  BY <1>1, <1>2 DEF RosterInv, Told
<1>5. walk.on => seen \subseteq seen' /\ heard'.mem \in seen' /\ (fed => fed')
  OBVIOUS
<1>6. walk.on /\ walk.fed => fed /\ M \subseteq UNION seen'
  BY <1>2, <1>5 DEF WalkInv
<1>7. CASE f.type = "leave"
  <2>1. FilterInPlace(f.user) /\ admins' = admins \ {f.user} /\ row' = row
    BY <1>7 DEF GroupEvent
  <2>2. /\ cells' \in Seq(Users) /\ len' \in 0..Len(cells')
        /\ Held(cells', len') = Held(cells, len) \ {f.user}
        /\ Moved(Held(cells, len))
    BY <2>1, Filtering
  <2>3. WalkInv'
    BY <1>3, <1>4, <1>5, <1>6, <2>2, WalkGoesOn
  <2>4. fed => f.user # Me /\ heard' = [mem |-> M \ {f.user}, adm |-> A \ {f.user}]
    BY <1>1, <1>2, <1>7 DEF Told, Without
  <2>5. RosterInv'
    BY <1>3, <1>4, <2>1, <2>2, <2>4 DEF RosterInv
  <2> QED BY <2>1, <2>3, <2>5
<1>8. CASE f.type = "join"
  <2>1. AppendMember(f.user) /\ UNCHANGED <<admins, row>>
    BY <1>8 DEF GroupEvent
  <2>2. /\ cells' \in Seq(Users) /\ len' \in 0..Len(cells')
        /\ Held(cells', len') = Held(cells, len) \cup {f.user}
        /\ Moved({f.user})
    BY <1>1, <2>1, Appending
  <2>3. fed => heard' = [mem |-> M \cup {f.user}, adm |-> A]
    BY <1>1, <1>2, <1>8 DEF Told
  <2>4. walk.on /\ walk.fed => {f.user} \subseteq UNION seen'
    BY <1>5, <1>6, <2>3
  <2>5. WalkInv'
    BY <1>3, <1>5, <2>2, <2>4, WalkGoesOn
  <2>6. RosterInv'
    BY <1>3, <1>4, <2>1, <2>2, <2>3 DEF RosterInv
  <2> QED BY <2>1, <2>5, <2>6
<1>9. CASE f.type \in {"promote", "demote"}
  <2>1. UNCHANGED <<cells, len, walk>>
    BY <1>9 DEF GroupEvent
  <2>2. Moved({})
    BY <1>3, <2>1 DEF Moved
  <2>3. cells' \in Seq(Users)
    BY <1>3, <2>1
  <2>4. WalkInv'
    BY <1>3, <1>5, <2>2, <2>3, WalkGoesOn
  <2>5. PICK b \in BOOLEAN :
          /\ b = (f.type = "promote")
          /\ row' = IF f.user = Me /\ row # Nobody THEN [row EXCEPT !.admin = b] ELSE row
          /\ admins' = IF b THEN admins \cup {f.user} ELSE admins \ {f.user}
    BY <1>9 DEF GroupEvent, SetLocalUserGroupAdmin
  <2>6. fed => heard' = [mem |-> M, adm |-> IF b THEN A \cup {f.user} ELSE A \ {f.user}]
    BY <1>1, <1>2, <1>9, <2>5 DEF Told
  <2>7. row' = Nobody \/ row' \in Rows
    BY <1>3, <2>5 DEF Rows
  <2>8. fed => /\ row' \in Rows /\ row'.left = FALSE
               /\ row'.admin = (Me \in heard'.adm)
    <3>1. SUFFICES ASSUME fed PROVE row' \in Rows /\ row'.left = FALSE /\ row'.admin = (Me \in heard'.adm)
      OBVIOUS
    <3>2. PICK m \in Seq(Users), a \in BOOLEAN : row = [mem |-> m, admin |-> a, left |-> FALSE]
      BY <1>4, <3>1 DEF Rows
    <3>3. row # Nobody
      BY <1>4, <3>1, GroupsAssumption DEF Rows
    <3>4. CASE f.user = Me
      <4>1. row' = [mem |-> m, admin |-> b, left |-> FALSE]
        BY <2>5, <3>2, <3>3, <3>4
      <4>2. b = (Me \in heard'.adm)
        BY <2>6, <3>1, <3>4
      <4> QED BY <4>1, <4>2 DEF Rows
    <3>5. CASE f.user # Me
      <4>1. row' = row /\ (Me \in heard'.adm) = (Me \in A)
        BY <2>5, <2>6, <3>1, <3>5
      <4> QED BY <1>4, <3>1, <4>1
    <3> QED BY <3>4, <3>5
  <2>9. RosterInv'
    <3>1. fed => Held(cells', len') = heard'.mem /\ admins' = heard'.adm /\ Me \in heard'.mem
      BY <1>4, <2>1, <2>5, <2>6
    <3>2. cells' \in Seq(Users) /\ len' \in 0..Len(cells')
      BY <1>3, <2>1
    <3> QED BY <2>7, <2>8, <3>1, <3>2 DEF RosterInv
  <2>10. admins' \subseteq Users
    BY <1>1, <2>5
  <2> QED BY <2>4, <2>9, <2>10
<1> QED BY <1>7, <1>8, <1>9 DEF IsEvent

(* The handlers of the other frames: a whole roster replaces the list, an  *)
(* exit empties it, the rest leave it.                                     *)
LEMMA OtherRoster ==
  ASSUME RosterInv, WalkInv, FeedInv, admins \subseteq Users, NEW f, ~IsEvent(f),
         \/ Whole(f) /\ GroupList(f)
         \/ Gone(f) /\ GroupGone(f)
         \/ ~Whole(f) /\ ~Gone(f) /\ UNCHANGED <<cells, len, admins, row, walk>>,
         Frame(f), fed => Follows(heard, f), heard' = f.after,
         fed' = (fed \/ Whole(f) \/ Gone(f)),
         seen' = IF walk.on THEN seen \cup {f.after.mem} ELSE seen
  PROVE  RosterInv' /\ WalkInv' /\ admins' \subseteq Users
<1>1. PICK M \in SUBSET Users, A \in SUBSET Users : f.after = [mem |-> M, adm |-> A]
  BY DEF Frame, Roster0, Rosters
<1>2. /\ cells \in Seq(Users) /\ len \in 0..Len(cells) /\ Len(cells) \in Nat
      /\ row = Nobody \/ row \in Rows
  BY LenProperties DEF RosterInv
<1>3. walk.on => seen \subseteq seen' /\ heard'.mem \in seen' /\ (fed => fed')
  OBVIOUS
<1>4. CASE Whole(f)
  <2>1. GroupList(f) /\ ~Gone(f) /\ Me \in M /\ (f.type = "added_to" => Me \notin A)
    BY <1>1, <1>4 DEF Whole, Gone, Frame
  <2>2. PICK list : list = SetToSeq(M)
    OBVIOUS
  <2>3. list \in Seq(Users) /\ Len(list) \in Nat /\ Held(list, Len(list)) = M
    BY <2>2, Listed
  <2>4. /\ Replace(list) /\ admins' = A
        /\ row' = [mem |-> list, admin |-> (f.type = "group_list" /\ Me \in A), left |-> FALSE]
    BY <1>1, <2>1, <2>2 DEF GroupList, StoreGroup
  <2>5. /\ cells' = list /\ len' = Len(list)
        /\ cells' \in Seq(Users) /\ len' \in 0..Len(cells') /\ Moved({})
    BY <2>3, <2>4, Replacing
  <2>6. WalkInv'
    BY <1>2, <1>3, <2>5, WalkGoesOn
  <2>7. (f.type = "group_list" /\ Me \in A) = (Me \in A)
    BY <1>4, <2>1 DEF Whole
  <2>8. row' \in Rows /\ row'.admin = (Me \in A) /\ row'.left = FALSE
    BY <2>3, <2>4, <2>7 DEF Rows
  <2>9. RosterInv'
    BY <1>1, <2>1, <2>3, <2>4, <2>5, <2>8 DEF RosterInv
  <2> QED BY <2>4, <2>6, <2>9
<1>5. CASE Gone(f)
  <2>1. GroupGone(f) /\ Me \notin M
    BY <1>1, <1>5 DEF Whole, Gone, Frame
  <2>2. <<>> \in Seq(Users) /\ Len(<<>>) = 0
    BY EmptySeq
  <2>3. /\ Replace(<<>>) /\ admins' = admins
        /\ row' = IF f.type = "deleted" \/ row = Nobody THEN Nobody ELSE [row EXCEPT !.left = TRUE]
    BY <2>1 DEF GroupGone, MarkGroupLeft
  <2>4. /\ cells' = <<>> /\ len' = 0
        /\ cells' \in Seq(Users) /\ len' \in 0..Len(cells') /\ Moved({})
    BY <2>2, <2>3, Replacing
  <2>5. WalkInv'
    BY <1>2, <1>3, <2>4, WalkGoesOn
  <2>6. row' = Nobody \/ row' \in Rows
    BY <1>2, <2>3 DEF Rows
  <2>7. RosterInv'
    BY <1>1, <2>1, <2>4, <2>6 DEF RosterInv
  <2> QED BY <2>3, <2>5, <2>7
<1>6. CASE ~Whole(f) /\ ~Gone(f)
  <2>1. UNCHANGED <<cells, len, admins, row, walk>> /\ fed' = fed
    BY <1>6 DEF FeedInv
  <2>2. Moved({}) /\ cells' \in Seq(Users)
    BY <1>2, <2>1 DEF Moved
  <2>3. WalkInv'
    BY <1>2, <1>3, <2>2, WalkGoesOn
  <2>4. fed => heard' = heard \/ (Me \notin heard.mem /\ Me \notin heard'.mem)
    BY <1>6 DEF Follows
  <2>5. RosterInv'
    BY <1>2, <2>1, <2>4 DEF RosterInv
  <2> QED BY <2>1, <2>3, <2>5
<1> QED BY <1>4, <1>5, <1>6

(* The step of the readLoop.                                               *)
LEMMA ReadInv ==
  ASSUME IInv, Read
  PROVE  IInv'
<1>1. PICK f : f = Head(feed)
  OBVIOUS
<1>2. /\ FeedInv' /\ Frame(f) /\ heard' = f.after
      /\ fed' = (fed \/ Whole(f) \/ Gone(f))
      /\ fed => Follows(heard, f)
  BY <1>1, ReadFeed DEF IInv
<1>3. /\ IsEvent(f) => GroupEvent(f)
      /\ ~IsEvent(f) => \/ Whole(f) /\ GroupList(f)
                        \/ Gone(f) /\ GroupGone(f)
                        \/ ~Whole(f) /\ ~Gone(f) /\ UNCHANGED <<cells, len, admins, row, walk>>
      /\ seen' = IF walk.on THEN seen \cup {f.after.mem} ELSE seen
      /\ UNCHANGED <<reqs, dialog, picker, heir, marker, undo>>
  <2>1. /\ CASE IsEvent(f) -> GroupEvent(f)
             [] f.type \in {"group_list", "added_to"} -> GroupList(f)
             [] f.type \in {"left", "deleted"} -> GroupGone(f)
             [] OTHER -> UNCHANGED <<cells, len, admins, row, audit, walk>>
        /\ seen' = IF walk.on THEN seen \cup {f.after.mem} ELSE seen
        /\ UNCHANGED <<reqs, dialog, picker, heir, marker, undo>>
    BY <1>1 DEF Read, tuiVars
  <2>2. /\ IsEvent(f) => f.type \notin {"group_list", "added_to", "left", "deleted"}
        /\ Whole(f) => ~Gone(f)
    BY DEF IsEvent, Whole, Gone
  <2>3. IsEvent(f) => GroupEvent(f)
    BY <2>1, <2>2
  <2>4. ~IsEvent(f) => \/ Whole(f) /\ GroupList(f)
                       \/ Gone(f) /\ GroupGone(f)
                       \/ ~Whole(f) /\ ~Gone(f) /\ UNCHANGED <<cells, len, admins, row, walk>>
    BY <2>1, <2>2 DEF Whole, Gone
  <2> QED BY <2>1, <2>3, <2>4
<1>4. admins \subseteq Users /\ RosterInv /\ WalkInv /\ FeedInv
  BY DEF IInv, AskInv
<1>5. RosterInv' /\ WalkInv' /\ admins' \subseteq Users
  <2>1. CASE IsEvent(f)
    <3>1. fed' = fed
      BY <1>2, <1>4, <2>1 DEF IsEvent, Whole, Gone, FeedInv
    <3> QED BY <1>2, <1>3, <1>4, <2>1, <3>1, EventRoster
  <2>2. CASE ~IsEvent(f)
    BY <1>2, <1>3, <1>4, <2>2, OtherRoster
  <2> QED BY <2>1, <2>2
<1>6. AskInv'
  BY <1>3, <1>5 DEF IInv, AskInv
<1> QED BY <1>2, <1>5, <1>6 DEF IInv

-----------------------------------------------------------------------------

(* Steps that do not touch the list, and steps that do not touch the       *)
(* connection.                                                             *)
LEMMA RosterStays ==
  ASSUME RosterInv, WalkInv, UNCHANGED <<rosterVars, walk, seen>>
  PROVE  RosterInv' /\ WalkInv'
BY DEF RosterInv, WalkInv, Walked, rosterVars

(* See RosterStays.                                                        *)
LEMMA FeedStays ==
  ASSUME FeedInv, UNCHANGED <<srv, gone, feed, link, fed, heard>>
  PROVE  FeedInv'
BY DEF FeedInv

(* The steps of the server.                                                *)
LEMMA ServerInv ==
  ASSUME IInv, OthersAct \/ Serve
  PROVE  IInv'
<1>1. RosterInv' /\ WalkInv'
  BY RosterStays DEF IInv, OthersAct, Serve
<1>2. CASE OthersAct
  <2>1. FeedInv'
    BY <1>2, OthersActFeed DEF IInv
  <2>2. AskInv'
    BY <1>2 DEF IInv, AskInv, OthersAct, rosterVars, tuiVars
  <2> QED BY <1>1, <2>1, <2>2 DEF IInv
<1>3. CASE Serve
  <2>1. FeedInv' /\ reqs' \in Seq(Asks)
    BY <1>3, ServeFeed DEF IInv
  <2>2. AskInv'
    BY <1>3, <2>1 DEF IInv, AskInv, Serve, rosterVars, tuiVars
  <2> QED BY <1>1, <2>1, <2>2 DEF IInv
<1> QED BY <1>2, <1>3

(* A connection that breaks has nothing left to say.                       *)
LEMMA BreakInv ==
  ASSUME IInv, Break
  PROVE  IInv'
<1>1. RosterInv' /\ WalkInv'
  BY RosterStays DEF IInv, Break
<1>2. <<>> \in Seq({}) /\ <<>> \in Seq(Asks)
  BY EmptySeq
<1>3. Queue(<<>>)
  BY <1>2, QueueOf
<1>4. DOMAIN <<>> = {}
  OBVIOUS
<1>5. Chain(<<>>)
  BY <1>3, <1>4 DEF Chain
<1>6. /\ feed' = <<>> /\ link' = FALSE /\ reqs' = <<>>
      /\ UNCHANGED <<srv, gone, heard, fed, admins, dialog, picker, heir, marker, undo>>
  BY DEF Break, serverVars, rosterVars, tuiVars
<1>7. FeedInv'
  BY <1>5, <1>6 DEF IInv, FeedInv
<1>8. AskInv'
  BY <1>2, <1>6 DEF IInv, AskInv
<1> QED BY <1>1, <1>7, <1>8 DEF IInv

(* The frames of a handshake: the list of the groups, or the exit, if      *)
(* there is one to tell, and the batch of what was missed.                 *)
One(s, b) == s = <<b>>

Two(s, a, b) == s = <<a, b>>

(* See One.                                                                *)
LEMMA OneOrTwo ==
  ASSUME NEW a, NEW b, NEW s
  PROVE  /\ One(s, b) => s # <<>> /\ Queue(s) /\ s[Len(s)] = b /\ s[1] = b /\ DOMAIN s = {1}
         /\ Two(s, a, b) => /\ s # <<>> /\ Queue(s) /\ s[Len(s)] = b /\ s[1] = a /\ s[2] = b
                            /\ DOMAIN s = {1, 2}
<1>1. CASE One(s, b)
  <2>1. s = <<b>>
    BY <1>1 DEF One
  <2>2. ~Two(s, a, b)
    BY <2>1, Tuples DEF Two
  <2> QED BY <2>1, <2>2, Tuples
<1>2. CASE Two(s, a, b)
  <2>1. s = <<a, b>>
    BY <1>2 DEF Two
  <2>2. ~One(s, b)
    BY <2>1, Tuples DEF One
  <2> QED BY <2>1, <2>2, Tuples
<1> QED BY <1>1, <1>2

(* See One.                                                                *)
LEMMA Second ==
  /\ \A n \in {1} : ~(n > 1)
  /\ \A n \in {1, 2} : n > 1 => n = 2 /\ n - 1 = 1
OBVIOUS

(* See One.                                                                *)
Whence(type) == [type |-> type, user |-> Nobody, after |-> srv, id |-> 0]

(* See One.                                                                *)
Greets(s, a, b) ==
  /\ b = Whence("sync_batch")
  /\ One(s, b) \/ Two(s, a, b)
  /\ One(s, b) => Me \notin srv.mem
  /\ Two(s, a, b) => \/ Me \in srv.mem /\ a = Whence("group_list")
                     \/ Me \notin srv.mem /\ a = Whence(gone) /\ gone # ""

(* See One.                                                                *)
LEMMA WelcomeShape ==
  \E a, b : Greets(Welcome, a, b)
<1>1. CASE Me \in srv.mem
  <2>1. Welcome = <<Whence("group_list"), Whence("sync_batch")>>
    BY <1>1 DEF Welcome, Whence
  <2>2. Two(Welcome, Whence("group_list"), Whence("sync_batch"))
    BY <2>1 DEF Two
  <2>3. ~One(Welcome, Whence("sync_batch"))
    BY <2>1, Tuples DEF One
  <2>4. Greets(Welcome, Whence("group_list"), Whence("sync_batch"))
    BY <1>1, <2>2, <2>3 DEF Greets
  <2> QED BY <2>4
<1>2. CASE Me \notin srv.mem /\ gone # ""
  <2>1. Welcome = <<Whence(gone), Whence("sync_batch")>>
    BY <1>2 DEF Welcome, Whence
  <2>2. Two(Welcome, Whence(gone), Whence("sync_batch"))
    BY <2>1 DEF Two
  <2>3. ~One(Welcome, Whence("sync_batch"))
    BY <2>1, Tuples DEF One
  <2>4. Greets(Welcome, Whence(gone), Whence("sync_batch"))
    BY <1>2, <2>2, <2>3 DEF Greets
  <2> QED BY <2>4
<1>3. CASE Me \notin srv.mem /\ gone = ""
  <2>1. Welcome = <<Whence("sync_batch")>>
    BY <1>3 DEF Welcome, Whence
  <2>2. One(Welcome, Whence("sync_batch"))
    BY <2>1 DEF One
  <2>3. ~Two(Welcome, Whence("group_list"), Whence("sync_batch"))
    BY <2>1, Tuples DEF Two
  <2>4. Greets(Welcome, Whence("group_list"), Whence("sync_batch"))
    BY <1>3, <2>2, <2>3 DEF Greets
  <2> QED BY <2>4
<1> QED BY <1>1, <1>2, <1>3

(* A handshake states the server's roster, or that this account is not in  *)
(* it.                                                                     *)
LEMMA WelcomeFrames ==
  ASSUME srv \in Roster0, gone \in {"", "left", "deleted"}, NEW s, NEW a, NEW b, Greets(s, a, b)
  PROVE  Chain(s) /\ s # <<>> /\ Begins(s[1]) /\ s[Len(s)].after = srv
<1>2. b.after = srv /\ Frame(b) /\ Follows(srv, b)
  BY DEF Greets, Whence, Frame, Follows, IsEvent, Whole, Gone
<1>3. /\ One(s, b) => s # <<>> /\ Queue(s) /\ s[Len(s)] = b /\ s[1] = b /\ DOMAIN s = {1}
      /\ Two(s, a, b) => /\ s # <<>> /\ Queue(s) /\ s[Len(s)] = b /\ s[1] = a /\ s[2] = b
                         /\ DOMAIN s = {1, 2}
  BY OneOrTwo, ZenonT(40)
<1>4. CASE One(s, b)
  <2>1. Begins(b)
    BY <1>2, <1>4 DEF Begins, Greets, Whence, Whole
  <2> QED BY <1>2, <1>3, <1>4, <2>1, Second DEF Chain
<1>5. CASE Two(s, a, b)
  <2>2. a.after = srv /\ Frame(a) /\ Begins(a)
    <3>1. CASE Me \in srv.mem /\ a = Whence("group_list")
      BY <3>1 DEF Whence, Frame, IsEvent, Whole, Gone, Begins
    <3>2. CASE Me \notin srv.mem /\ a = Whence(gone) /\ gone \in {"left", "deleted"}
      BY <3>2 DEF Whence, Frame, IsEvent, Whole, Gone, Begins
    <3> QED BY <1>5, <3>1, <3>2 DEF Greets
  <2>3. \A n \in {1, 2} : n > 1 => Follows(s[n - 1].after, s[n])
    <3>1. Follows(s[1].after, s[2])
      BY <1>2, <1>3, <1>5, <2>2
    <3> QED BY <3>1, Second
  <2> QED BY <1>2, <1>3, <1>5, <2>2, <2>3 DEF Chain
<1> QED BY <1>4, <1>5 DEF Greets

(* See WelcomeFrames.                                                      *)
LEMMA Welcoming ==
  ASSUME srv \in Roster0, gone \in {"", "left", "deleted"}, NEW s, s = Welcome
  PROVE  Chain(s) /\ s # <<>> /\ Begins(s[1]) /\ s[Len(s)].after = srv
<1>1. PICK a, b : Greets(s, a, b)
  BY WelcomeShape
<1> QED BY <1>1, WelcomeFrames

(* A new connection starts from the row on disk, and takes nothing of it   *)
(* for the server's word.                                                  *)
LEMMA ConnectInv ==
  ASSUME IInv, Connect
  PROVE  IInv'
<1>1. /\ link' = TRUE /\ feed' = Welcome /\ fed' = FALSE /\ admins' = {} /\ walk.on = FALSE
      /\ cells' = (IF row = Nobody THEN <<>> ELSE row.mem) /\ len' = Len(cells')
      /\ UNCHANGED <<srv, gone, reqs, row, heard, walk, seen, dialog, picker, heir, marker, undo>>
  <2>1. walk.on \in BOOLEAN
    BY DEF IInv, WalkInv, Walks
  <2> QED BY <2>1 DEF Connect, serverVars, tuiVars
<1>2. PICK s : s = Welcome
  OBVIOUS
<1>3. Chain(s) /\ s # <<>> /\ Begins(s[1]) /\ s[Len(s)].after = srv
  BY <1>2, Welcoming DEF IInv, FeedInv
<1>4. FeedInv'
  BY <1>1, <1>2, <1>3 DEF IInv, FeedInv, Latest
<1>5. cells' \in Seq(Users) /\ Len(cells') \in Nat
  <2>1. cells' \in Seq(Users)
    BY <1>1, EmptySeq DEF IInv, RosterInv, Rows
  <2> QED BY <2>1, LenProperties
<1>6. RosterInv' /\ WalkInv'
  BY <1>1, <1>5 DEF IInv, RosterInv, WalkInv
<1>7. AskInv'
  BY <1>1 DEF IInv, AskInv
<1> QED BY <1>4, <1>6, <1>7 DEF IInv

(* The steps of the walk.                                                  *)
LEMMA WrapInv ==
  ASSUME IInv, Wrap
  PROVE  IInv'
<1>1. UNCHANGED <<srv, gone, reqs, feed, link, cells, len, admins, row, fed, heard,
                  dialog, picker, heir, marker, undo>>
  BY DEF Wrap, BeginWrap, WrapNext, EndWrap, serverVars, rosterVars, tuiVars
<1>2. FeedInv' /\ AskInv' /\ RosterInv'
  <2>1. FeedInv'
    BY <1>1, FeedStays DEF IInv
  <2>2. AskInv'
    BY <1>1 DEF IInv, AskInv
  <2>3. RosterInv'
    BY <1>1 DEF IInv, RosterInv
  <2> QED BY <2>1, <2>2, <2>3
<1>3. PICK o \in BOOLEAN, d \in BOOLEAN, n \in Nat, j \in Nat, own \in Seq(Users), g \in SUBSET Users :
        walk = [on |-> o, fed |-> d, n |-> n, i |-> j, own |-> own, got |-> g]
  BY DEF IInv, WalkInv, Walks
<1>4. cells \in Seq(Users) /\ Len(cells) \in Nat /\ len \in 0..Len(cells) /\ fed \in BOOLEAN
  BY LenProperties DEF IInv, RosterInv, FeedInv
<1>5. CASE BeginWrap
  <2>1. walk' = [on |-> TRUE, fed |-> fed, n |-> len, i |-> 1, own |-> <<>>, got |-> {}]
        /\ len > 0 /\ seen' = {heard.mem}
    BY <1>5 DEF BeginWrap, NoWalk
  <2>2. Walked' = cells /\ walk' \in Walks /\ len \in 1..Len(cells)
    BY <1>1, <1>4, <2>1, EmptySeq DEF Walked, Walks
  <2>3. fed => \A k \in 1..len : cells[k] \in heard.mem
    BY <1>4, <2>1 DEF IInv, RosterInv, Held
  <2> QED BY <1>1, <1>2, <2>1, <2>2, <2>3 DEF IInv, WalkInv
<1>6. CASE WrapNext
  <2>1. PICK x : x = Walked[walk.i]
    OBVIOUS
  <2>2. walk' = [on |-> o, fed |-> d, n |-> n, i |-> j + 1, own |-> own, got |-> g \cup {x}]
        /\ seen' = seen /\ o /\ j <= n
    BY <1>3, <1>6, <2>1 DEF WrapNext, Walked
  <2>3. Walked' = Walked /\ Walked \in Seq(Users)
    BY <1>1, <1>3, <1>4, <2>2 DEF Walked
  <2>4. n \in 1..Len(Walked) /\ j # 0 /\ Len(Walked) \in Nat
    BY <1>3, <2>2, <2>3, LenProperties DEF IInv, WalkInv
  <2>5. j \in 1..n /\ j \in 1..Len(Walked)
    BY <2>2, <2>4
  <2>6. x \in Users
    BY <1>3, <2>1, <2>3, <2>5, ElementOfSeq
  <2>7. walk' \in Walks
    BY <2>2, <2>6 DEF Walks
  <2>8. d => fed /\ heard.mem \in seen /\ g \subseteq UNION seen
             /\ \A k \in 1..n : Walked[k] \in UNION seen
    BY <1>3, <2>2 DEF IInv, WalkInv
  <2>9. d => x \in UNION seen
    BY <1>3, <2>1, <2>5, <2>8
  <2>10. j + 1 # 0
    OBVIOUS
  <2> QED BY <1>1, <1>2, <2>2, <2>3, <2>4, <2>7, <2>8, <2>9, <2>10 DEF IInv, WalkInv
<1>7. CASE EndWrap
  <2>1. walk' = [on |-> FALSE, fed |-> FALSE, n |-> 0, i |-> 0, own |-> <<>>, got |-> {}]
    BY <1>7 DEF EndWrap, NoWalk
  <2>2. walk' \in Walks
    BY <2>1, EmptySeq DEF Walks
  <2> QED BY <1>2, <2>1, <2>2 DEF IInv, WalkInv
<1> QED BY <1>5, <1>6, <1>7 DEF Wrap

-----------------------------------------------------------------------------

(* The dialogs, the pickers and the requests they lead to.                 *)
LEMMA DialogOf ==
  ASSUME NEW verb \in Verbs, NEW u \in Users
  PROVE  ConfirmForTarget(verb, u) = Nobody \/ ConfirmForTarget(verb, u) \in DialogType
<1>1. \A v \in Verbs \cup Exits, w \in Users, b \in BOOLEAN : NewDialog(v, w, b) \in DialogType
  BY DEF NewDialog, DialogType
<1>2. IsGroupAdmin(u) \in BOOLEAN /\ "leave" \in Exits /\ Me \in Users
  BY GroupsAssumption DEF IsGroupAdmin, Exits
<1> QED BY <1>1, <1>2 DEF ConfirmForTarget

(* See DialogOf.                                                           *)
LEMMA AskedFor ==
  ASSUME AskInv, NEW q1 \in Asks, NEW qs, qs = <<q1>> \/ \E q2 \in Asks : qs = <<q1, q2>>,
         Send(qs)
  PROVE  reqs' \in Seq(Asks)
<1>1. qs \in Seq(Asks)
  BY ListsOf
<1>2. reqs \in Seq(Asks) /\ reqs' \in {reqs, reqs \o qs}
  BY DEF AskInv, Send
<1> QED BY <1>1, <1>2, ConcatProperties

(* See DialogOf.                                                           *)
LEMMA TuiInv ==
  ASSUME IInv, UnchangedRest, AskInv'
  PROVE  IInv'
<1>1. UNCHANGED <<srv, gone, feed, link, fed, heard, rosterVars, walk, seen>>
  BY DEF UnchangedRest, serverVars, rosterVars
<1> QED BY <1>1, RosterStays, FeedStays DEF IInv

(* See DialogOf.                                                           *)
LEMMA AskingInv ==
  ASSUME IInv, Ask
  PROVE  IInv'
<1>1. UnchangedRest /\ UNCHANGED <<marker, undo, reqs, admins>>
  BY DEF Ask, AskByName, OpenPicker, PickerSelected, AskToGo, Cancel, UnchangedRest, rosterVars
<1>2. Members \subseteq Users
  BY RosterIs DEF IInv, RosterInv, Members, Roster
<1>3. /\ dialog' = Nobody \/ dialog' \in DialogType
      /\ picker' = Nobody \/ (picker'.verb \in Verbs /\ picker'.items \subseteq Users)
      /\ heir' = Nobody \/ (heir'.exit \in Exits /\ heir'.items \subseteq Users)
  <2>1. CASE \E verb \in Verbs, u \in Users : AskByName(verb, u)
    BY <2>1, DialogOf DEF AskByName, Screen
  <2>2. CASE \E verb \in Verbs : OpenPicker(verb)
    <3>1. PICK verb \in Verbs : OpenPicker(verb)
      BY <2>2
    <3>2. Candidates(verb) \subseteq Users
      BY <1>2 DEF Candidates, IInv, AskInv
    <3> QED BY <3>1, <3>2 DEF OpenPicker, Screen
  <2>3. CASE \E u \in Users : PickerSelected(u)
    BY <2>3, DialogOf DEF PickerSelected, Screen, IInv, AskInv
  <2>4. CASE \E verb \in Exits : AskToGo(verb)
    <3>1. PICK verb \in Exits : AskToGo(verb)
      BY <2>4
    <3>2. NewDialog(verb, Me, FALSE) \in DialogType
      BY GroupsAssumption DEF NewDialog, DialogType
    <3> QED BY <3>1, <3>2 DEF AskToGo, Screen
  <2>5. CASE Cancel
    BY <2>5 DEF Cancel, Screen, IInv, AskInv
  <2> QED BY <2>1, <2>2, <2>3, <2>4, <2>5 DEF Ask
<1>4. AskInv'
  BY <1>1, <1>3 DEF IInv, AskInv
<1> QED BY <1>1, <1>4, TuiInv

(* See DialogOf.                                                           *)
LEMMA ConfirmInv ==
  ASSUME IInv, Confirm \/ Refused
  PROVE  IInv'
<1>1. UnchangedRest /\ UNCHANGED admins
  BY DEF Confirm, ConfirmExit, ConfirmVerb, ConfirmKick, ConfirmTransfer, Undo, HeirSelected,
         Refused, UnchangedRest, rosterVars
<1>2. Members \subseteq Users /\ AskInv
  BY RosterIs DEF IInv, RosterInv, Members, Roster
<1>3. \A v \in Requests, u \in Users : Request(v, u) \in Asks
  BY DEF Request, Asks
<1>4. Me \in Users /\ Exits \subseteq Requests
  BY GroupsAssumption DEF Exits, Requests
<1>5. dialog # Nobody => dialog.verb \in Verbs \cup Exits /\ dialog.user \in Users
  BY <1>2 DEF AskInv, DialogType
<1>6. CASE ConfirmExit
  <2>1. Request(dialog.verb, Me) \in Asks
    BY <1>3, <1>4, <1>6 DEF ConfirmExit, InFront
  <2>2. reqs' \in Seq(Asks)
    BY <1>2, <1>6, <2>1, AskedFor DEF ConfirmExit
  <2>3. AskInv'
    BY <1>1, <1>2, <1>6, <2>2 DEF ConfirmExit, InFront, Screen, AskInv
  <2> QED BY <1>1, <2>3, TuiInv
<1>7. CASE ConfirmVerb
  <2>1. Request(dialog.verb, dialog.user) \in Asks
    BY <1>3, <1>5, <1>7 DEF ConfirmVerb, InFront, Requests
  <2>2. reqs' \in Seq(Asks)
    BY <1>2, <1>7, <2>1, AskedFor DEF ConfirmVerb
  <2>3. AskInv'
    BY <1>1, <1>2, <1>7, <2>2 DEF ConfirmVerb, Screen, AskInv
  <2> QED BY <1>1, <2>3, TuiInv
<1>8. CASE ConfirmKick
  <2>1. Request("kick", dialog.user) \in Asks /\ dialog.user \in Users
    BY <1>3, <1>5, <1>8 DEF ConfirmKick, InFront, Requests
  <2>2. reqs' \in Seq(Asks)
    BY <1>2, <1>8, <2>1, AskedFor DEF ConfirmKick
  <2>3. AskInv'
    BY <1>1, <1>2, <1>8, <2>1, <2>2 DEF ConfirmKick, Screen, AskInv
  <2> QED BY <1>1, <2>3, TuiInv
<1>9. CASE ConfirmTransfer
  <2>1. PICK g \in Asks, p \in Asks : g = Request("leave", Me) /\ p = Request("promote", dialog.user)
    BY <1>3, <1>4, <1>5, <1>9 DEF ConfirmTransfer, InFront, Requests
  <2>2. reqs' = reqs \/ Send(<<g>>) \/ Send(<<p, g>>)
    BY <1>9, <2>1 DEF ConfirmTransfer
  <2>3. reqs' \in Seq(Asks)
    BY <1>2, <2>2, AskedFor DEF AskInv
  <2>4. AskInv'
    BY <1>1, <1>2, <1>9, <2>3 DEF ConfirmTransfer, Screen, AskInv
  <2> QED BY <1>1, <2>4, TuiInv
<1>10. CASE Undo
  <2>1. undo \in Users
    BY <1>2, <1>10 DEF Undo, AskInv
  <2>2. Request("add", undo) \in Asks
    BY <1>3, <2>1 DEF Requests
  <2>3. reqs' \in Seq(Asks)
    BY <1>2, <1>10, <2>2, AskedFor DEF Undo, AskInv
  <2>4. AskInv'
    BY <1>1, <1>2, <1>10, <2>3 DEF Undo, AskInv
  <2> QED BY <1>1, <2>4, TuiInv
<1>11. CASE \E u \in Users : HeirSelected(u)
  <2>1. PICK u \in Users : HeirSelected(u)
    BY <1>11
  <2>2. PICK g \in Asks, p \in Asks : g = Request(heir.exit, Me) /\ p = Request("promote", u)
    BY <1>2, <1>3, <1>4, <2>1 DEF HeirSelected, AskInv, Requests
  <2>3. reqs' = reqs \/ Send(<<p, g>>)
    BY <2>1, <2>2 DEF HeirSelected
  <2>4. reqs' \in Seq(Asks)
    BY <1>2, <2>3, AskedFor DEF AskInv
  <2>5. AskInv'
    BY <1>1, <1>2, <2>1, <2>4 DEF HeirSelected, Screen, AskInv
  <2> QED BY <1>1, <2>5, TuiInv
<1>12. CASE Refused
  <2>1. PICK I \in SUBSET Users : I = Members \ (admins \cup {Me})
    BY <1>2
  <2>2. PICK v : heir' = heir \/ (heir' = [exit |-> marker, refused |-> v, items |-> I] /\ marker # "")
    BY <1>12, <2>1 DEF Refused
  <2>3. heir' = Nobody \/ (heir'.exit \in Exits /\ heir'.items \subseteq Users)
    <3>1. CASE heir' = heir
      BY <1>2, <3>1 DEF AskInv
    <3>2. CASE heir' = [exit |-> marker, refused |-> v, items |-> I] /\ marker # ""
      <4>1. heir'.exit = marker /\ heir'.items = I
        BY <3>2
      <4>2. marker \in Exits
        BY <1>2, <3>2 DEF AskInv
      <4> QED BY <4>1, <4>2
    <3> QED BY <2>2, <3>1, <3>2
  <2>4. marker' \in {marker, ""} /\ UNCHANGED <<dialog, picker, undo, reqs>>
    BY <1>12 DEF Refused
  <2>5. AskInv'
    BY <1>1, <1>2, <2>3, <2>4 DEF AskInv
  <2> QED BY <1>1, <2>5, TuiInv
<1> QED BY <1>6, <1>7, <1>8, <1>9, <1>10, <1>11, <1>12 DEF Confirm

(* The invariant holds when the program starts, and every step keeps it.   *)
LEMMA InitInv ==
  ASSUME Init
  PROVE  IInv
<1>1. srv \in Roster0 /\ gone \in {"", "left", "deleted"}
  BY DEF Init, Roster0
<1>2. PICK s : s = Welcome
  OBVIOUS
<1>3. Chain(s) /\ s # <<>> /\ Begins(s[1]) /\ s[Len(s)].after = srv
  BY <1>1, <1>2, Welcoming
<1>4. [mem |-> {}, adm |-> {}] \in Roster0
  BY DEF Roster0, Rosters
<1>5. FeedInv
  BY <1>1, <1>2, <1>3, <1>4 DEF Init, FeedInv, Latest
<1>6. <<>> \in Seq(Users) /\ Len(<<>>) = 0 /\ <<>> \in Seq(Asks)
  BY EmptySeq
<1>7. RosterInv
  <2>1. cells = <<>> /\ len = 0 /\ row = Nobody /\ fed = FALSE
    BY DEF Init
  <2>2. cells \in Seq(Users) /\ Len(cells) = 0
    BY <1>6, <2>1
  <2>3. len \in 0..Len(cells)
    BY <2>1, <2>2
  <2> QED BY <2>1, <2>2, <2>3 DEF RosterInv
<1>8. NoWalk \in Walks /\ NoWalk.on = FALSE
  BY <1>6 DEF NoWalk, Walks
<1>9. WalkInv
  BY <1>8 DEF Init, WalkInv
<1>10. AskInv
  BY <1>6 DEF Init, AskInv
<1> QED BY <1>5, <1>7, <1>9, <1>10 DEF IInv

(* See InitInv.                                                            *)
LEMMA StepInv ==
  ASSUME IInv, [Next]_vars
  PROVE  IInv'
<1>1. CASE UNCHANGED vars
  <2>1. UNCHANGED <<srv, gone, feed, link, fed, heard, rosterVars, walk, seen>>
        /\ UNCHANGED <<reqs, dialog, picker, heir, marker, undo, admins>>
    BY <1>1 DEF vars, serverVars, rosterVars, tuiVars
  <2>2. AskInv'
    BY <2>1 DEF IInv, AskInv
  <2> QED BY <2>1, <2>2, RosterStays, FeedStays DEF IInv
<1> QED BY <1>1, ServerInv, ReadInv, BreakInv, ConnectInv, WrapInv, AskingInv, ConfirmInv DEF Next

(* The invariant holds of every behaviour of the specification.            *)
THEOREM Inductive == Spec => []IInv
BY InitInv, StepInv, PTL DEF Spec

(* Once a connection has told this account of a group it is in, the        *)
(* members, the admins and the row on disk are those of the last frame     *)
(* read, however in-place edits, replaced lists, exits, returns and        *)
(* reconnections interleave.                                               *)
THEOREM RosterIsTheServers == Spec => []RosterFollowsServer
<1>1. IInv => RosterFollowsServer
  <2> SUFFICES ASSUME IInv, fed, Me \in heard.mem
               PROVE  /\ Members = heard.mem
                      /\ admins = heard.adm
                      /\ row # Nobody /\ row.admin = (Me \in heard.adm) /\ ~row.left
    BY DEF RosterFollowsServer
  <2>1. Members = Held(cells, len)
    BY RosterIs DEF IInv, RosterInv, Members, Roster
  <2>2. row # Nobody
    BY GroupsAssumption DEF IInv, RosterInv, Rows
  <2> QED BY <2>1, <2>2 DEF IInv, RosterInv
<1> QED BY <1>1, Inductive, PTL

(* Over such a connection no key of a message is wrapped for anyone who    *)
(* was not a member at some moment of the walk, although the readLoop      *)
(* filters and overwrites the cells the walk is reading.                   *)
THEOREM WrapsForMembersOnly == Spec => []NoStrangerWrapped
<1>1. IInv => NoStrangerWrapped
  BY DEF IInv, WalkInv, NoStrangerWrapped
<1> QED BY <1>1, Inductive, PTL
=============================================================================
