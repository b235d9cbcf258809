------------------------- MODULE ConversationsProofs ------------------------
(***************************************************************************)
(* Proofs about Conversations, in three parts.                             *)
(*                                                                         *)
(* What the store is owed (IInv): for each standing of a conversation on   *)
(* the server, the database has what the standing asks of its row, or a    *)
(* frame on the wire makes it so and none after it breaks it again.  It    *)
(* follows that a settled store mirrors the server, and that the history   *)
(* of a deleted conversation is gone.                                      *)
(*                                                                         *)
(* How the frames queue: what is last in msgCh and on the wire, which      *)
(* lists come before which frames, and what each kind of step changes.     *)
(*                                                                         *)
(* What the screen is owed (ViewInv): the sidebar, its markers, the pane   *)
(* and the member lists are right, or the last frame to come about them    *)
(* puts them right.  The readLoop may be any number of frames ahead of the *)
(* TUI, so the store and the sidebar are related through the last frame    *)
(* of msgCh that changes the entry.                                        *)
(***************************************************************************)
EXTENDS Conversations, SequenceTheorems, TLAPS

(* A finite sequence, whatever its elements are.                           *)
Queue(s) == s \in Seq({s[n] : n \in DOMAIN s})

(* The frames by what they say of a conversation.                          *)
Deletes == {"room_deleted", "deleted_rooms", "group_deleted", "deleted_groups"}
Leaves  == {"room_left", "left_rooms", "group_left", "left_groups"}
Retires == {"room_retired", "retired_rooms"}
Joins   == {"room_list", "room_added_to", "group_list", "group_added_to"}
Stores  == Joins \cup Retires \cup {"group_created", "dm_list", "dm_created"}

(* A direct message is hidden by what the server says of this account's    *)
(* side of it.                                                             *)
Hides(f, c) == f.type = "dm_left" \/ (f.type = "dm_list" /\ c \in f.hidden)
Shows(f, c) == f.type = "dm_created" \/ (f.type = "dm_list" /\ c \notin f.hidden)

(* What a row can owe the server, one aim at a time: there is a row, it is *)
(* not archived, it is archived if there is one, it is read-only, it is    *)
(* not hidden, it is hidden if there is one, there is none, no message of  *)
(* it is kept.                                                             *)
Goals == {"row", "joined", "inactive", "retired", "shown", "hidden", "gone", "purged"}

(* The row has reached the goal.                                           *)
Holds(goal, flags) ==
  CASE goal = "row"      -> "row" \in flags
    [] goal = "joined"   -> "left" \notin flags
    [] goal = "inactive" -> "row" \in flags => "left" \in flags
    [] goal = "retired"  -> "retired" \in flags
    [] goal = "shown"    -> "hidden" \notin flags
    [] goal = "hidden"   -> "row" \in flags => "hidden" \in flags
    [] goal = "gone"     -> "row" \notin flags
    [] goal = "purged"   -> "msgs" \notin flags

(* The handler of f reaches the goal for c, whatever the row was.          *)
Makes(goal, f, c) ==
  /\ c \in f.convs
  /\ CASE goal = "row"      -> f.type \in Stores
       [] goal = "joined"   -> f.type \in Joins \cup Deletes
       [] goal = "inactive" -> f.type \in Leaves
       [] goal = "retired"  -> f.type \in Retires
       [] goal = "shown"    -> f.type \in Deletes \/ Shows(f, c)
       [] goal = "hidden"   -> f.type \in Deletes \/ Hides(f, c)
       [] goal = "gone"     -> f.type \in Deletes
       [] goal = "purged"   -> f.type \in Deletes \/ Hides(f, c)

(* The handler of f may undo the goal for c.                               *)
Breaks(goal, f, c) ==
  /\ c \in f.convs
  /\ CASE goal = "row"      -> f.type \in Deletes
       [] goal = "joined"   -> f.type \in Leaves
       [] goal = "inactive" -> f.type \in Stores \cup Deletes
       [] goal = "retired"  -> f.type \in Deletes
       [] goal = "shown"    -> Hides(f, c)
       [] goal = "hidden"   -> f.type \in Stores /\ ~Hides(f, c)
       [] goal = "gone"     -> f.type \in Stores
       [] goal = "purged"   -> f.type = "message"

(* When the frames s are read the row will have reached the goal: it has   *)
(* and none undoes it, or one of them makes it and none after it undoes    *)
(* it.                                                                     *)
Due(goal, flags, s, c) ==
  \/ Holds(goal, flags) /\ \A n \in DOMAIN s : ~Breaks(goal, s[n], c)
  \/ \E n \in DOMAIN s : /\ Makes(goal, s[n], c)
                         /\ \A m \in DOMAIN s : m > n => ~Breaks(goal, s[m], c)

(* The goals of a conversation the server says stands so. Of a group left  *)
(* the Client is promised nothing: the row may be missing and come back.   *)
Wanted(standing, c) ==
  CASE standing = "in" -> IF c \in DMs THEN {"row", "shown"} ELSE {"row", "joined"}
    [] standing = "left" -> IF c \in Rooms THEN {"inactive"} ELSE {}
    [] standing = "retired" -> {"row", "retired"}
    [] standing \in Dead -> IF c \in DMs THEN {"hidden", "purged"} ELSE {"gone", "purged"}
    [] OTHER -> {}

(* The frames that speak of one kind of conversation.                      *)
RoomTypes  == {"deleted_rooms", "retired_rooms", "left_rooms", "room_list", "room_added_to",
               "room_left", "room_retired", "room_deleted", "room_members_list"}
GroupTypes == {"deleted_groups", "left_groups", "group_list", "group_created",
               "group_added_to", "group_left", "group_deleted"}
DMTypes    == {"dm_list", "dm_created", "dm_left"}

(* Such a frame names only conversations of its kind.                      *)
Suits(type, c) ==
  /\ type \in RoomTypes => c \in Rooms
  /\ type \in GroupTypes => c \in Groups
  /\ type \in DMTypes => c \in DMs

(* What every frame under way says truly of the server, then and later.    *)
FrameInv(f, sv) ==
  /\ f.type \in FrameTypes
  /\ f.convs \subseteq Conv
  /\ \A c \in f.convs : /\ Suits(f.type, c)
                        /\ sv[c] # "none"
                        /\ f.type \in Retires => sv[c] \in {"retired", "buried"}

(* What can happen to a room cannot all happen to a group or a direct      *)
(* message.                                                                *)
KindInv ==
  /\ srv \in [Conv -> Standing]
  /\ up \in BOOLEAN
  /\ \A c \in Groups \cup DMs : srv[c] \notin {"retired", "buried"}
  /\ \A c \in DMs : srv[c] # "left"
  /\ asked \subseteq Rooms /\ \A r \in asked : srv[r] # "none"

(* See FrameInv.                                                           *)
WireInv ==
  /\ Queue(wire) /\ Queue(inbox)
  /\ \A n \in DOMAIN wire : FrameInv(wire[n], srv)
  /\ \A n \in DOMAIN inbox : FrameInv(inbox[n], srv)

(* The flags a row of this kind can have, and that only a row has them.    *)
KindFlags(c) ==
  {"row", "msgs"} \cup (IF c \in Rooms THEN {"left", "retired", "members"}
                        ELSE IF c \in Groups THEN {"left"} ELSE {"hidden"})

(* See KindFlags.                                                          *)
OfRow(flags) == flags \cap RowFlags # {} => "row" \in flags

(* Nothing is kept of a conversation never heard of, read-only is for      *)
(* ever, and a row has the flags of its kind: none needs a connection.     *)
StoreInv ==
  \A c \in Conv : /\ srv[c] = "none" => store[c] = {}
                  /\ "retired" \in store[c] => srv[c] \in {"retired", "buried"}
                  /\ store[c] \subseteq KindFlags(c) /\ OfRow(store[c])

(* What the server says of a conversation is reached or on its way.        *)
DueInv == up => \A c \in Conv : \A goal \in Wanted(srv[c], c) : Due(goal, store[c], wire, c)

(* The inductive invariant.                                                *)
IInv == KindInv /\ WireInv /\ StoreInv /\ DueInv

-----------------------------------------------------------------------------

(* Sequences: what a short one, one more element, one less and two put     *)
(* together say.                                                           *)
LEMMA QueueOf ==
  ASSUME NEW S, NEW s \in Seq(S)
  PROVE  Queue(s)
<1>1. Len(s) \in Nat /\ s \in [1..Len(s) -> S] /\ DOMAIN s = 1..Len(s)
  BY LenProperties
<1>2. s \in [1..Len(s) -> {s[n] : n \in DOMAIN s}]
  BY <1>1
<1> QED BY <1>1, <1>2, SeqDef DEF Queue

(* See QueueOf.                                                            *)
LEMMA Appended ==
  ASSUME NEW s, Queue(s), NEW x
  PROVE  /\ Queue(Append(s, x))
         /\ Len(s) \in Nat /\ DOMAIN s = 1..Len(s)
         /\ DOMAIN Append(s, x) = 1..(Len(s) + 1) /\ Append(s, x)[Len(s) + 1] = x
         /\ \A n \in 1..Len(s) : Append(s, x)[n] = s[n]
<1>1. PICK S : S = {s[n] : n \in DOMAIN s} \cup {x}
  OBVIOUS
<1>2. s \in Seq(S) /\ x \in S
  BY <1>1 DEF Queue
<1>3. Append(s, x) \in Seq(S) /\ Len(s) \in Nat /\ DOMAIN s = 1..Len(s)
  BY <1>2, AppendProperties, LenProperties
<1>4. /\ Len(Append(s, x)) = Len(s) + 1 /\ Append(s, x)[Len(s) + 1] = x
      /\ \A n \in 1..Len(s) : Append(s, x)[n] = s[n]
  BY <1>2, AppendProperties
<1>5. DOMAIN Append(s, x) = 1..(Len(s) + 1)
  BY <1>3, <1>4, LenProperties
<1> QED BY <1>3, <1>4, <1>5, QueueOf

(* See QueueOf.                                                            *)
LEMMA Taken ==
  ASSUME NEW s, Queue(s), s # <<>>
  PROVE  /\ Queue(Tail(s)) /\ Len(s) \in Nat \ {0} /\ DOMAIN s = 1..Len(s) /\ Head(s) = s[1]
         /\ DOMAIN Tail(s) = 1..(Len(s) - 1)
         /\ \A n \in 1..(Len(s) - 1) : Tail(s)[n] = s[n + 1]
<1>1. PICK S : S = {s[n] : n \in DOMAIN s}
  OBVIOUS
<1>2. s \in Seq(S)
  BY <1>1 DEF Queue
<1>3. Tail(s) \in Seq(S) /\ Len(s) \in Nat \ {0} /\ Len(Tail(s)) = Len(s) - 1
  BY <1>2, HeadTailProperties, LenProperties, EmptySeq
<1>4. DOMAIN s = 1..Len(s) /\ DOMAIN Tail(s) = 1..(Len(s) - 1) /\ Head(s) = s[1]
  BY <1>2, <1>3, LenProperties, HeadTailProperties
<1>5. \A n \in 1..(Len(s) - 1) : Tail(s)[n] = s[n + 1]
  BY <1>2, HeadTailProperties
<1> QED BY <1>3, <1>4, <1>5, QueueOf

(* See QueueOf.                                                            *)
LEMMA Nothing ==
  Queue(<<>>) /\ DOMAIN <<>> = {}
<1>1. <<>> \in Seq({})
  BY EmptySeq
<1>2. DOMAIN <<>> = {}
  OBVIOUS
<1> QED BY <1>1, <1>2, QueueOf

(* The frames of a sequence, in any order.                                 *)
Said(s) == {s[n] : n \in DOMAIN s}

(* See QueueOf.                                                            *)
LEMMA SaidBoth ==
  ASSUME NEW s, NEW t, Queue(s), Queue(t)
  PROVE  Queue(s \o t) /\ Said(s \o t) = Said(s) \cup Said(t)
<1>1. PICK S : S = Said(s) \cup Said(t)
  OBVIOUS
<1>2. s \in Seq(S) /\ t \in Seq(S)
  BY <1>1 DEF Queue, Said
<1>3. /\ s \o t \in Seq(S) /\ Len(s) \in Nat /\ Len(t) \in Nat
      /\ DOMAIN s = 1..Len(s) /\ DOMAIN t = 1..Len(t)
      /\ Len(s \o t) = Len(s) + Len(t)
      /\ \A i \in 1..(Len(s) + Len(t)) : (s \o t)[i] = IF i <= Len(s) THEN s[i] ELSE t[i - Len(s)]
  BY <1>2, ConcatProperties, LenProperties
<1>4. DOMAIN (s \o t) = 1..(Len(s) + Len(t))
  BY <1>3, LenProperties
<1>5. ASSUME NEW i \in DOMAIN (s \o t) PROVE (s \o t)[i] \in Said(s) \cup Said(t)
  <2>1. CASE i <= Len(s)
    BY <1>3, <1>4, <1>5, <2>1 DEF Said
  <2>2. CASE ~(i <= Len(s))
    <3>1. i - Len(s) \in DOMAIN t /\ (s \o t)[i] = t[i - Len(s)]
      BY <1>3, <1>4, <1>5, <2>2
    <3> QED BY <3>1 DEF Said
  <2> QED BY <2>1, <2>2
<1>6. ASSUME NEW i \in DOMAIN s PROVE s[i] \in Said(s \o t)
  <2>1. i \in DOMAIN (s \o t) /\ (s \o t)[i] = s[i]
    BY <1>3, <1>4, <1>6
  <2> QED BY <2>1 DEF Said
<1>7. ASSUME NEW i \in DOMAIN t PROVE t[i] \in Said(s \o t)
  <2>1. i + Len(s) \in DOMAIN (s \o t) /\ (s \o t)[i + Len(s)] = t[i]
    BY <1>3, <1>4, <1>7
  <2> QED BY <2>1 DEF Said
<1>8. Said(s \o t) = Said(s) \cup Said(t)
  BY <1>5, <1>6, <1>7 DEF Said
<1> QED BY <1>3, <1>8, QueueOf

-----------------------------------------------------------------------------

(* The statements of a handler, one after the other.                       *)
LEMMA RunNone ==
  ASSUME NEW flags
  PROVE  Run(flags, <<>>) = flags
<1>1. DOMAIN <<>> = {}
  OBVIOUS
<1> QED BY <1>1 DEF Run, ExecNth

(* See RunNone.                                                            *)
LEMMA RunOne ==
  ASSUME NEW flags, NEW x
  PROVE  Run(flags, <<x>>) = Exec(flags, x)
<1>1. DOMAIN <<x>> = {1} /\ <<x>>[1] = x
  OBVIOUS
<1> QED BY <1>1 DEF Run, ExecNth

(* See RunNone.                                                            *)
LEMMA RunTwo ==
  ASSUME NEW flags, NEW x, NEW y
  PROVE  Run(flags, <<x, y>>) = Exec(Exec(flags, x), y)
<1>1. DOMAIN <<x, y>> = {1, 2} /\ <<x, y>>[1] = x /\ <<x, y>>[2] = y
  OBVIOUS
<1> QED BY <1>1 DEF Run, ExecNth

(* See RunNone.                                                            *)
LEMMA RunThree ==
  ASSUME NEW flags, NEW x, NEW y, NEW z
  PROVE  Run(flags, <<x, y, z>>) = Exec(Exec(Exec(flags, x), y), z)
<1>1. DOMAIN <<x, y, z>> = {1, 2, 3} /\ <<x, y, z>>[1] = x /\ <<x, y, z>>[2] = y /\ <<x, y, z>>[3] = z
  OBVIOUS
<1> QED BY <1>1 DEF Run, ExecNth

(* What each handler runs.                                                 *)
LEMMA Scripts ==
  ASSUME NEW f, NEW c
  PROVE  /\ f.type \in {"room_list", "room_added_to"} =>
              Script(f, c) = <<UpsertRoomWithMembers, MarkRoomRejoined>>
         /\ f.type \in {"room_left", "left_rooms"} => Script(f, c) = <<MarkRoomLeft, ClearRoomMembers>>
         /\ f.type \in Retires => Script(f, c) = <<EnsureRetiredRoom, ClearRoomMembers>>
         /\ f.type \in {"room_deleted", "deleted_rooms"} =>
              Script(f, c) = <<PurgeRoomMessages, DeleteRoomRecord, ClearRoomMembers>>
         /\ f.type = "room_members_list" => Script(f, c) \in {<<>>, <<SetRoomMembers>>}
         /\ f.type \in {"group_list", "group_added_to"} =>
              Script(f, c) = <<StoreGroup, MarkGroupRejoined>>
         /\ f.type = "group_created" => Script(f, c) = <<StoreGroup>>
         /\ f.type \in {"group_left", "left_groups"} => Script(f, c) = <<MarkGroupLeft>>
         /\ f.type \in {"group_deleted", "deleted_groups"} =>
              Script(f, c) = <<PurgeGroupMessages, DeleteGroupRecord>>
         /\ f.type = "dm_list" /\ c \in f.hidden =>
              Script(f, c) = <<StoreDM, SetDMState(TRUE), PurgeDMMessages>>
         /\ f.type = "dm_list" /\ c \notin f.hidden => Script(f, c) = <<StoreDM, SetDMState(FALSE)>>
         /\ f.type = "dm_created" => Script(f, c) = <<StoreDM, SetDMState(FALSE)>>
         /\ f.type = "dm_left" => Script(f, c) = <<MarkDMLeft, PurgeDMMessages>>
         /\ f.type = "message" => Script(f, c) = <<InsertMessage>>
BY DEF Script, Retires

(* What each handler leaves of the flags of the row.                       *)
LEMMA Runs ==
  ASSUME NEW f, f.type \in FrameTypes, NEW c \in f.convs, NEW was,
         NEW is, is = Run(was, Script(f, c))
  PROVE  /\ f.type \in {"room_list", "room_added_to"}
              => (is = (was \cup {"row", "members"}) \ {"left"})
         /\ f.type \in {"room_left", "left_rooms"}
              => (is = IF "row" \in was THEN (was \cup {"left"}) \ {"members"} ELSE was)
         /\ f.type \in Retires
              => (is = (was \cup {"row", "retired"}) \ {"members"})
         /\ f.type \in {"room_deleted", "deleted_rooms"}
              => (is = was \ Flags)
         /\ f.type = "room_members_list"
              => (is = was \/ (is = was \cup {"members"} /\ "row" \in was /\ ~ReadOnly(store[c])))
         /\ f.type \in {"group_list", "group_added_to"}
              => (is = (was \cup {"row"}) \ {"left"})
         /\ f.type = "group_created"
              => (is = was \cup {"row"})
         /\ f.type \in {"group_left", "left_groups"}
              => (is = IF "row" \in was THEN was \cup {"left"} ELSE was)
         /\ f.type \in {"group_deleted", "deleted_groups"}
              => (is = was \ Flags)
         /\ f.type = "dm_list" /\ c \in f.hidden
              => (is = (was \cup {"row", "hidden"}) \ {"msgs"})
         /\ ((f.type = "dm_list" /\ c \notin f.hidden) \/ f.type = "dm_created")
              => (is = (was \cup {"row"}) \ {"hidden"})
         /\ f.type = "dm_left"
              => (is = IF "row" \in was THEN (was \cup {"hidden"}) \ {"msgs"} ELSE was \ {"msgs"})
         /\ f.type = "message"
              => (is = was \cup {"msgs"})
<1>1. ASSUME f.type \in {"room_list", "room_added_to"}
      PROVE  is = (was \cup {"row", "members"}) \ {"left"}
  <2>0. Script(f, c) = <<UpsertRoomWithMembers, MarkRoomRejoined>>
    BY <1>1, Scripts
  <2>1. is = Exec(Exec(was, UpsertRoomWithMembers), MarkRoomRejoined)
    <3>1. Run(was, <<UpsertRoomWithMembers, MarkRoomRejoined>>)
            = Exec(Exec(was, UpsertRoomWithMembers), MarkRoomRejoined)
      BY RunTwo
    <3> QED BY <2>0, <3>1
  <2>2. is = (was \cup {"row", "members"}) \ {"left"}
    BY <2>1 DEF Exec, UpsertRoomWithMembers, MarkRoomRejoined, Always, Update
  <2> QED BY <2>2
<1>2. ASSUME f.type \in {"room_left", "left_rooms"}
      PROVE  is = IF "row" \in was THEN (was \cup {"left"}) \ {"members"} ELSE was
  <2>0. Script(f, c) = <<MarkRoomLeft, ClearRoomMembers>>
    BY <1>2, Scripts
  <2>1. is = Exec(Exec(was, MarkRoomLeft), ClearRoomMembers)
    <3>1. Run(was, <<MarkRoomLeft, ClearRoomMembers>>) = Exec(Exec(was, MarkRoomLeft), ClearRoomMembers)
      BY RunTwo
    <3> QED BY <2>0, <3>1
  <2>2. is = IF "row" \in was THEN (was \cup {"left"}) \ {"members"} ELSE was
    BY <2>1 DEF Exec, MarkRoomLeft, ClearRoomMembers, Always, Update
  <2> QED BY <2>2
<1>3. ASSUME f.type \in Retires
      PROVE  is = (was \cup {"row", "retired"}) \ {"members"}
  <2>0. Script(f, c) = <<EnsureRetiredRoom, ClearRoomMembers>>
    BY <1>3, Scripts
  <2>1. is = Exec(Exec(was, EnsureRetiredRoom), ClearRoomMembers)
    <3>1. Run(was, <<EnsureRetiredRoom, ClearRoomMembers>>)
            = Exec(Exec(was, EnsureRetiredRoom), ClearRoomMembers)
      BY RunTwo
    <3> QED BY <2>0, <3>1
  <2>2. is = (was \cup {"row", "retired"}) \ {"members"}
    BY <2>1 DEF Exec, EnsureRetiredRoom, ClearRoomMembers, Always, Update
  <2> QED BY <2>2
<1>4. ASSUME f.type \in {"room_deleted", "deleted_rooms"}
      PROVE  is = was \ Flags
  <2>0. Script(f, c) = <<PurgeRoomMessages, DeleteRoomRecord, ClearRoomMembers>>
    BY <1>4, Scripts
  <2>1. is = Exec(Exec(Exec(was, PurgeRoomMessages), DeleteRoomRecord), ClearRoomMembers)
    <3>1. Run(was, <<PurgeRoomMessages, DeleteRoomRecord, ClearRoomMembers>>)
            = Exec(Exec(Exec(was, PurgeRoomMessages), DeleteRoomRecord), ClearRoomMembers)
      BY RunThree
    <3> QED BY <2>0, <3>1
  <2>2. is = was \ Flags
    BY <2>1 DEF Exec, PurgeRoomMessages, DeleteRoomRecord, ClearRoomMembers, Always, Update, RowFlags, Flags
  <2> QED BY <2>2
<1>5. ASSUME f.type = "room_members_list"
      PROVE  is = was \/ (is = was \cup {"members"} /\ "row" \in was /\ ~ReadOnly(store[c]))
  <2>0. Script(f, c) = IF ReadOnly(store[c]) THEN <<>> ELSE <<SetRoomMembers>>
    BY <1>5 DEF Script, Retires
  <2>1. is = was \/ (is = Exec(was, SetRoomMembers) /\ ~ReadOnly(store[c]))
    <3>1. Run(was, <<>>) = was /\ Run(was, <<SetRoomMembers>>) = Exec(was, SetRoomMembers)
      BY RunNone, RunOne
    <3> QED BY <2>0, <3>1
  <2>2. is = was \/ (is = was \cup {"members"} /\ "row" \in was /\ ~ReadOnly(store[c]))
    BY <2>1 DEF Exec, SetRoomMembers, Always, Update
  <2> QED BY <2>2
<1>6. ASSUME f.type \in {"group_list", "group_added_to"}
      PROVE  is = (was \cup {"row"}) \ {"left"}
  <2>0. Script(f, c) = <<StoreGroup, MarkGroupRejoined>>
    BY <1>6, Scripts
  <2>1. is = Exec(Exec(was, StoreGroup), MarkGroupRejoined)
    <3>1. Run(was, <<StoreGroup, MarkGroupRejoined>>) = Exec(Exec(was, StoreGroup), MarkGroupRejoined)
      BY RunTwo
    <3> QED BY <2>0, <3>1
  <2>2. is = (was \cup {"row"}) \ {"left"}
    BY <2>1 DEF Exec, StoreGroup, MarkGroupRejoined, Always, Update
  <2> QED BY <2>2
<1>7. ASSUME f.type = "group_created"
      PROVE  is = was \cup {"row"}
  <2>0. Script(f, c) = <<StoreGroup>>
    BY <1>7, Scripts
  <2>1. is = Exec(was, StoreGroup)
    <3>1. Run(was, <<StoreGroup>>) = Exec(was, StoreGroup)
      BY RunOne
    <3> QED BY <2>0, <3>1
  <2>2. is = was \cup {"row"}
    BY <2>1 DEF Exec, StoreGroup, Always, Update
  <2> QED BY <2>2
<1>8. ASSUME f.type \in {"group_left", "left_groups"}
      PROVE  is = IF "row" \in was THEN was \cup {"left"} ELSE was
  <2>0. Script(f, c) = <<MarkGroupLeft>>
    BY <1>8, Scripts
  <2>1. is = Exec(was, MarkGroupLeft)
    <3>1. Run(was, <<MarkGroupLeft>>) = Exec(was, MarkGroupLeft)
      BY RunOne
    <3> QED BY <2>0, <3>1
  <2>2. is = IF "row" \in was THEN was \cup {"left"} ELSE was
    BY <2>1 DEF Exec, MarkGroupLeft, Always, Update
  <2> QED BY <2>2
<1>9. ASSUME f.type \in {"group_deleted", "deleted_groups"}
      PROVE  is = was \ Flags
  <2>0. Script(f, c) = <<PurgeGroupMessages, DeleteGroupRecord>>
    BY <1>9, Scripts
  <2>1. is = Exec(Exec(was, PurgeGroupMessages), DeleteGroupRecord)
    <3>1. Run(was, <<PurgeGroupMessages, DeleteGroupRecord>>)
            = Exec(Exec(was, PurgeGroupMessages), DeleteGroupRecord)
      BY RunTwo
    <3> QED BY <2>0, <3>1
  <2>2. is = was \ Flags
    BY <2>1 DEF Exec, PurgeGroupMessages, DeleteGroupRecord, Always, Update, RowFlags, Flags
  <2> QED BY <2>2
<1>10. ASSUME f.type = "dm_list" /\ c \in f.hidden
      PROVE  is = (was \cup {"row", "hidden"}) \ {"msgs"}
  <2>0. Script(f, c) = <<StoreDM, SetDMState(TRUE), PurgeDMMessages>>
    BY <1>10, Scripts
  <2>1. is = Exec(Exec(Exec(was, StoreDM), SetDMState(TRUE)), PurgeDMMessages)
    <3>0. PICK st : st = SetDMState(TRUE)
      OBVIOUS
    <3>1. Run(was, <<StoreDM, st, PurgeDMMessages>>)
            = Exec(Exec(Exec(was, StoreDM), st), PurgeDMMessages)
      BY RunThree
    <3> QED BY <2>0, <3>0, <3>1
  <2>2. is = (was \cup {"row", "hidden"}) \ {"msgs"}
    BY <2>1 DEF Exec, StoreDM, SetDMState, PurgeDMMessages, Always, Update
  <2> QED BY <2>2
<1>11. ASSUME (f.type = "dm_list" /\ c \notin f.hidden) \/ f.type = "dm_created"
      PROVE  is = (was \cup {"row"}) \ {"hidden"}
  <2>0. Script(f, c) = <<StoreDM, SetDMState(FALSE)>>
    BY <1>11, Scripts
  <2>1. is = Exec(Exec(was, StoreDM), SetDMState(FALSE))
    <3>0. PICK st : st = SetDMState(FALSE)
      OBVIOUS
    <3>1. Run(was, <<StoreDM, st>>) = Exec(Exec(was, StoreDM), st)
      BY RunTwo
    <3> QED BY <2>0, <3>0, <3>1
  <2>2. is = (was \cup {"row"}) \ {"hidden"}
    BY <2>1 DEF Exec, StoreDM, SetDMState, Always, Update
  <2> QED BY <2>2
<1>12. ASSUME f.type = "dm_left"
      PROVE  is = IF "row" \in was THEN (was \cup {"hidden"}) \ {"msgs"} ELSE was \ {"msgs"}
  <2>0. Script(f, c) = <<MarkDMLeft, PurgeDMMessages>>
    BY <1>12, Scripts
  <2>1. is = Exec(Exec(was, MarkDMLeft), PurgeDMMessages)
    <3>1. Run(was, <<MarkDMLeft, PurgeDMMessages>>) = Exec(Exec(was, MarkDMLeft), PurgeDMMessages)
      BY RunTwo
    <3> QED BY <2>0, <3>1
  <2>2. is = IF "row" \in was THEN (was \cup {"hidden"}) \ {"msgs"} ELSE was \ {"msgs"}
    BY <2>1 DEF Exec, MarkDMLeft, PurgeDMMessages, Always, Update
  <2> QED BY <2>2
<1>13. ASSUME f.type = "message"
      PROVE  is = was \cup {"msgs"}
  <2>0. Script(f, c) = <<InsertMessage>>
    BY <1>13, Scripts
  <2>1. is = Exec(was, InsertMessage)
    <3>1. Run(was, <<InsertMessage>>) = Exec(was, InsertMessage)
      BY RunOne
    <3> QED BY <2>0, <3>1
  <2>2. is = was \cup {"msgs"}
    BY <2>1 DEF Exec, InsertMessage, Always, Update
  <2> QED BY <2>2
<1> QED BY <1>1, <1>2, <1>3, <1>4, <1>5, <1>6, <1>7, <1>8, <1>9, <1>10, <1>11, <1>12, <1>13

(* What running the handler of f must do to the row of c: reach what it    *)
(* makes, keep what it does not break, and close a room only on the        *)
(* server's word.                                                          *)
Effect(f, c, was, is) ==
  /\ \A goal \in Goals : /\ Makes(goal, f, c) => Holds(goal, is)
                         /\ Holds(goal, was) /\ ~Breaks(goal, f, c) => Holds(goal, is)
  /\ "retired" \in is => "retired" \in was \/ f.type \in Retires

(* Every handler does.                                                     *)
LEMMA Effects ==
  ASSUME NEW f, f.type \in FrameTypes, NEW c \in f.convs, NEW was
  PROVE  Effect(f, c, was, Run(was, Script(f, c)))
<1>0. PICK is : is = Run(was, Script(f, c))
  OBVIOUS
<1> SUFFICES Effect(f, c, was, is)
  BY <1>0
<1> USE DEF Effect, Goals, Makes, Breaks, Holds, Hides, Shows, Deletes, Leaves, Retires, Joins, Stores
<1>1. CASE f.type \in {"room_list", "room_added_to"}
  <2>1. is = (was \cup {"row", "members"}) \ {"left"}
    BY <1>0, <1>1, Runs
  <2> QED BY <1>1, <2>1
<1>2. CASE f.type \in {"room_left", "left_rooms"}
  <2>1. is = IF "row" \in was THEN (was \cup {"left"}) \ {"members"} ELSE was
    BY <1>0, <1>2, Runs
  <2> QED BY <1>2, <2>1
<1>3. CASE f.type \in Retires
  <2>1. is = (was \cup {"row", "retired"}) \ {"members"}
    BY <1>0, <1>3, Runs
  <2> QED BY <1>3, <2>1
<1>4. CASE f.type \in {"room_deleted", "deleted_rooms"}
  <2>1. is = was \ Flags
    BY <1>0, <1>4, Runs
  <2> QED BY <1>4, <2>1 DEF Flags
<1>5. CASE f.type = "room_members_list"
  <2>1. is = was \/ (is = was \cup {"members"} /\ "row" \in was /\ ~ReadOnly(store[c]))
    BY <1>0, <1>5, Runs
  <2> QED BY <1>5, <2>1
<1>6. CASE f.type \in {"group_list", "group_added_to"}
  <2>1. is = (was \cup {"row"}) \ {"left"}
    BY <1>0, <1>6, Runs
  <2> QED BY <1>6, <2>1
<1>7. CASE f.type = "group_created"
  <2>1. is = was \cup {"row"}
    BY <1>0, <1>7, Runs
  <2> QED BY <1>7, <2>1
<1>8. CASE f.type \in {"group_left", "left_groups"}
  <2>1. is = IF "row" \in was THEN was \cup {"left"} ELSE was
    BY <1>0, <1>8, Runs
  <2> QED BY <1>8, <2>1
<1>9. CASE f.type \in {"group_deleted", "deleted_groups"}
  <2>1. is = was \ Flags
    BY <1>0, <1>9, Runs
  <2> QED BY <1>9, <2>1 DEF Flags
<1>10. CASE f.type = "dm_list" /\ c \in f.hidden
  <2>1. is = (was \cup {"row", "hidden"}) \ {"msgs"}
    BY <1>0, <1>10, Runs
  <2> QED BY <1>10, <2>1
<1>11. CASE (f.type = "dm_list" /\ c \notin f.hidden) \/ f.type = "dm_created"
  <2>1. is = (was \cup {"row"}) \ {"hidden"}
    BY <1>0, <1>11, Runs
  <2> QED BY <1>11, <2>1
<1>12. CASE f.type = "dm_left"
  <2>1. is = IF "row" \in was THEN (was \cup {"hidden"}) \ {"msgs"} ELSE was \ {"msgs"}
    BY <1>0, <1>12, Runs
  <2> QED BY <1>12, <2>1
<1>13. CASE f.type = "message"
  <2>1. is = was \cup {"msgs"}
    BY <1>0, <1>13, Runs
  <2> QED BY <1>13, <2>1
<1> QED BY <1>1, <1>2, <1>3, <1>4, <1>5, <1>6, <1>7, <1>8, <1>9, <1>10, <1>11, <1>12, <1>13
        DEF FrameTypes

(* A statement that sets no flag but these, and none without its row; and  *)
(* a handler of such statements.                                           *)
Quiet(x, may) ==
  /\ x.sets \subseteq may
  /\ "row" \in x.clears => RowFlags \subseteq x.clears /\ x.sets \cap RowFlags = {}
  /\ x.upsert /\ x.sets \cap RowFlags # {} => "row" \in x.sets

(* See Quiet.                                                              *)
QuietScript(s, may) == Queue(s) /\ \A n \in DOMAIN s : Quiet(s[n], may)

(* See Quiet.                                                              *)
LEMMA QuietNone == \A may : QuietScript(<<>>, may)
BY Nothing DEF QuietScript

(* See Quiet.                                                              *)
LEMMA QuietOne ==
  ASSUME NEW may, NEW x, Quiet(x, may)
  PROVE  QuietScript(<<x>>, may)
<1>1. <<x>> \in Seq({x})
  OBVIOUS
<1>2. DOMAIN <<x>> = {1} /\ <<x>>[1] = x
  OBVIOUS
<1> QED BY <1>1, <1>2, QueueOf DEF QuietScript

(* See Quiet.                                                              *)
LEMMA QuietTwo ==
  ASSUME NEW may, NEW x, NEW y, Quiet(x, may), Quiet(y, may)
  PROVE  QuietScript(<<x, y>>, may)
<1>1. <<x, y>> \in Seq({x, y})
  OBVIOUS
<1>2. DOMAIN <<x, y>> = {1, 2} /\ <<x, y>>[1] = x /\ <<x, y>>[2] = y
  OBVIOUS
<1> QED BY <1>1, <1>2, QueueOf DEF QuietScript

(* See Quiet.                                                              *)
LEMMA QuietThree ==
  ASSUME NEW may, NEW x, NEW y, NEW z, Quiet(x, may), Quiet(y, may), Quiet(z, may)
  PROVE  QuietScript(<<x, y, z>>, may)
<1>1. <<x, y, z>> \in Seq({x, y, z})
  OBVIOUS
<1>2. DOMAIN <<x, y, z>> = {1, 2, 3} /\ <<x, y, z>>[1] = x /\ <<x, y, z>>[2] = y /\ <<x, y, z>>[3] = z
  OBVIOUS
<1> QED BY <1>1, <1>2, QueueOf DEF QuietScript

(* See Quiet.                                                              *)
LEMMA QuietStatements ==
  ASSUME NEW may, {"row", "msgs"} \subseteq may
  PROVE  /\ "members" \in may => Quiet(UpsertRoomWithMembers, may) /\ Quiet(SetRoomMembers, may)
         /\ "left" \in may => Quiet(MarkRoomLeft, may) /\ Quiet(MarkGroupLeft, may)
         /\ "retired" \in may => Quiet(EnsureRetiredRoom, may)
         /\ "hidden" \in may => Quiet(SetDMState(TRUE), may) /\ Quiet(MarkDMLeft, may)
         /\ Quiet(MarkRoomRejoined, may) /\ Quiet(ClearRoomMembers, may) /\ Quiet(PurgeRoomMessages, may)
         /\ Quiet(DeleteRoomRecord, may) /\ Quiet(StoreGroup, may) /\ Quiet(MarkGroupRejoined, may)
         /\ Quiet(PurgeGroupMessages, may) /\ Quiet(DeleteGroupRecord, may) /\ Quiet(StoreDM, may)
         /\ Quiet(SetDMState(FALSE), may) /\ Quiet(PurgeDMMessages, may) /\ Quiet(InsertMessage, may)
BY DEF Quiet, Always, Update, RowFlags, Flags, UpsertRoomWithMembers, MarkRoomRejoined, MarkRoomLeft,
       ClearRoomMembers, SetRoomMembers, EnsureRetiredRoom, PurgeRoomMessages, DeleteRoomRecord, StoreGroup,
       MarkGroupRejoined, MarkGroupLeft, PurgeGroupMessages, DeleteGroupRecord, StoreDM, SetDMState,
       MarkDMLeft, PurgeDMMessages, InsertMessage

(* The flags the handler of f may set: only that of a retirement closes a  *)
(* room.                                                                   *)
MaySet(f, c) == IF f.type \in Retires THEN KindFlags(c) ELSE KindFlags(c) \ {"retired"}

(* See MaySet.                                                             *)
LEMMA QuietFrames ==
  ASSUME NEW f, f.type \in FrameTypes, NEW c \in f.convs, Suits(f.type, c)
  PROVE  QuietScript(Script(f, c), MaySet(f, c))
<1>0. PICK may : may = MaySet(f, c)
  OBVIOUS
<1> SUFFICES QuietScript(Script(f, c), may)
  BY <1>0
<1>a. /\ {"row", "msgs"} \subseteq may
      /\ c \in Rooms => "members" \in may /\ "left" \in may
      /\ c \in Rooms /\ f.type \in Retires => "retired" \in may
      /\ c \in Groups => "left" \in may
      /\ c \in DMs => "hidden" \in may
  BY <1>0, KindsDisjoint DEF MaySet, KindFlags
<1>b. /\ f.type \in RoomTypes => c \in Rooms
      /\ f.type \in GroupTypes => c \in Groups
      /\ f.type \in DMTypes => c \in DMs
  BY DEF Suits
<1> HIDE <1>0
<1>1. CASE f.type \in {"room_list", "room_added_to"}
  <2>1. Script(f, c) = <<UpsertRoomWithMembers, MarkRoomRejoined>>
    BY <1>1, Scripts
  <2>2. Quiet(UpsertRoomWithMembers, may) /\ Quiet(MarkRoomRejoined, may)
    BY <1>1, <1>a, <1>b, QuietStatements DEF RoomTypes
  <2>3. QuietScript(<<UpsertRoomWithMembers, MarkRoomRejoined>>, may)
    BY <2>2, QuietTwo
  <2> QED BY <2>1, <2>3
<1>2. CASE f.type \in {"room_left", "left_rooms"}
  <2>1. Script(f, c) = <<MarkRoomLeft, ClearRoomMembers>>
    BY <1>2, Scripts
  <2>2. Quiet(MarkRoomLeft, may) /\ Quiet(ClearRoomMembers, may)
    BY <1>2, <1>a, <1>b, QuietStatements DEF RoomTypes
  <2>3. QuietScript(<<MarkRoomLeft, ClearRoomMembers>>, may)
    BY <2>2, QuietTwo
  <2> QED BY <2>1, <2>3
<1>3. CASE f.type \in Retires
  <2>1. Script(f, c) = <<EnsureRetiredRoom, ClearRoomMembers>>
    BY <1>3, Scripts
  <2>2. Quiet(EnsureRetiredRoom, may) /\ Quiet(ClearRoomMembers, may)
    BY <1>3, <1>a, <1>b, QuietStatements DEF RoomTypes, Retires
  <2>3. QuietScript(<<EnsureRetiredRoom, ClearRoomMembers>>, may)
    BY <2>2, QuietTwo
  <2> QED BY <2>1, <2>3
<1>4. CASE f.type \in {"room_deleted", "deleted_rooms"}
  <2>1. Script(f, c) = <<PurgeRoomMessages, DeleteRoomRecord, ClearRoomMembers>>
    BY <1>4, Scripts
  <2>2. Quiet(PurgeRoomMessages, may) /\ Quiet(DeleteRoomRecord, may) /\ Quiet(ClearRoomMembers, may)
    BY <1>4, <1>a, QuietStatements
  <2>3. QuietScript(<<PurgeRoomMessages, DeleteRoomRecord, ClearRoomMembers>>, may)
    BY <2>2, QuietThree
  <2> QED BY <2>1, <2>3
<1>5. CASE f.type = "room_members_list" /\ Script(f, c) = <<SetRoomMembers>>
  <2>1. Script(f, c) = <<SetRoomMembers>>
    BY <1>5, Scripts
  <2>2. Quiet(SetRoomMembers, may)
    BY <1>5, <1>a, <1>b, QuietStatements DEF RoomTypes
  <2>3. QuietScript(<<SetRoomMembers>>, may)
    BY <2>2, QuietOne
  <2> QED BY <2>1, <2>3
<1>6. CASE f.type = "room_members_list" /\ Script(f, c) = <<>>
  <2>1. Script(f, c) = <<>>
    BY <1>6, Scripts
  <2>2. QuietScript(<<>>, may)
    BY QuietNone
  <2> QED BY <2>1, <2>2
<1>7. CASE f.type \in {"group_list", "group_added_to"}
  <2>1. Script(f, c) = <<StoreGroup, MarkGroupRejoined>>
    BY <1>7, Scripts
  <2>2. Quiet(StoreGroup, may) /\ Quiet(MarkGroupRejoined, may)
    BY <1>7, <1>a, QuietStatements
  <2>3. QuietScript(<<StoreGroup, MarkGroupRejoined>>, may)
    BY <2>2, QuietTwo
  <2> QED BY <2>1, <2>3
<1>8. CASE f.type = "group_created"
  <2>1. Script(f, c) = <<StoreGroup>>
    BY <1>8, Scripts
  <2>2. Quiet(StoreGroup, may)
    BY <1>8, <1>a, QuietStatements
  <2>3. QuietScript(<<StoreGroup>>, may)
    BY <2>2, QuietOne
  <2> QED BY <2>1, <2>3
<1>9. CASE f.type \in {"group_left", "left_groups"}
  <2>1. Script(f, c) = <<MarkGroupLeft>>
    BY <1>9, Scripts
  <2>2. Quiet(MarkGroupLeft, may)
    BY <1>9, <1>a, <1>b, QuietStatements DEF GroupTypes
  <2>3. QuietScript(<<MarkGroupLeft>>, may)
    BY <2>2, QuietOne
  <2> QED BY <2>1, <2>3
<1>10. CASE f.type \in {"group_deleted", "deleted_groups"}
  <2>1. Script(f, c) = <<PurgeGroupMessages, DeleteGroupRecord>>
    BY <1>10, Scripts
  <2>2. Quiet(PurgeGroupMessages, may) /\ Quiet(DeleteGroupRecord, may)
    BY <1>10, <1>a, QuietStatements
  <2>3. QuietScript(<<PurgeGroupMessages, DeleteGroupRecord>>, may)
    BY <2>2, QuietTwo
  <2> QED BY <2>1, <2>3
<1>11. CASE f.type = "dm_list" /\ c \in f.hidden
  <2>0. PICK st : st = SetDMState(TRUE)
    OBVIOUS
  <2>1. Script(f, c) = <<StoreDM, st, PurgeDMMessages>>
    BY <2>0, <1>11, Scripts
  <2>2. Quiet(StoreDM, may) /\ Quiet(st, may) /\ Quiet(PurgeDMMessages, may)
    BY <2>0, <1>11, <1>a, <1>b, QuietStatements DEF DMTypes
  <2>3. QuietScript(<<StoreDM, st, PurgeDMMessages>>, may)
    BY <2>2, QuietThree
  <2> QED BY <2>1, <2>3
<1>12. CASE (f.type = "dm_list" /\ c \notin f.hidden) \/ f.type = "dm_created"
  <2>0. PICK st : st = SetDMState(FALSE)
    OBVIOUS
  <2>1. Script(f, c) = <<StoreDM, st>>
    BY <2>0, <1>12, Scripts
  <2>2. Quiet(StoreDM, may) /\ Quiet(st, may)
    BY <2>0, <1>12, <1>a, QuietStatements
  <2>3. QuietScript(<<StoreDM, st>>, may)
    BY <2>2, QuietTwo
  <2> QED BY <2>1, <2>3
<1>13. CASE f.type = "dm_left"
  <2>1. Script(f, c) = <<MarkDMLeft, PurgeDMMessages>>
    BY <1>13, Scripts
  <2>2. Quiet(MarkDMLeft, may) /\ Quiet(PurgeDMMessages, may)
    BY <1>13, <1>a, <1>b, QuietStatements DEF DMTypes
  <2>3. QuietScript(<<MarkDMLeft, PurgeDMMessages>>, may)
    BY <2>2, QuietTwo
  <2> QED BY <2>1, <2>3
<1>14. CASE f.type = "message"
  <2>1. Script(f, c) = <<InsertMessage>>
    BY <1>14, Scripts
  <2>2. Quiet(InsertMessage, may)
    BY <1>14, <1>a, QuietStatements
  <2>3. QuietScript(<<InsertMessage>>, may)
    BY <2>2, QuietOne
  <2> QED BY <2>1, <2>3
<1>15. Script(f, c) \in {<<>>, <<SetRoomMembers>>} \/ f.type # "room_members_list"
  BY Scripts
<1> QED BY <1>1, <1>2, <1>3, <1>4, <1>5, <1>6, <1>7, <1>8, <1>9, <1>10, <1>11, <1>12, <1>13, <1>14, <1>15 DEF FrameTypes, Retires

(* A handler, run to its end or cut short by a crash, sets no flag but     *)
(* those and leaves none without its row.                                  *)
LEMMA QuietRun ==
  ASSUME NEW s, NEW may, QuietScript(s, may), NEW n \in 0..Len(s), NEW was,
         NEW is \in {Run(was, s), Run(was, SubSeq(s, 1, n))}
  PROVE  is \subseteq was \cup may /\ (OfRow(was) => OfRow(is))
<1>1. \A fl, x : Quiet(x, may) => Exec(fl, x) \subseteq fl \cup may /\ (OfRow(fl) => OfRow(Exec(fl, x)))
  BY DEF Quiet, Exec, OfRow, RowFlags, Flags
<1>2. ASSUME NEW t, QuietScript(t, may)
      PROVE  Run(was, t) \subseteq was \cup may /\ (OfRow(was) => OfRow(Run(was, t)))
  <2>1. ASSUME NEW fl, NEW k
        PROVE  ExecNth(fl, t, k) \subseteq fl \cup may /\ (OfRow(fl) => OfRow(ExecNth(fl, t, k)))
    <3>1. CASE k \in DOMAIN t
      <4>1. PICK x : Quiet(x, may) /\ ExecNth(fl, t, k) = Exec(fl, x)
        BY <1>2, <3>1 DEF ExecNth, QuietScript
      <4>2. Exec(fl, x) \subseteq fl \cup may /\ (OfRow(fl) => OfRow(Exec(fl, x)))
        BY <1>1, <4>1
      <4> QED BY <4>1, <4>2
    <3>2. CASE k \notin DOMAIN t
      BY <3>2 DEF ExecNth
    <3> QED BY <3>1, <3>2
  <2>2. PICK u, v : u = ExecNth(was, t, 1) /\ v = ExecNth(u, t, 2) /\ Run(was, t) = ExecNth(v, t, 3)
    BY DEF Run
  <2> QED BY <2>1, <2>2
<1>3. PICK S : S = {s[i] : i \in DOMAIN s}
  OBVIOUS
<1>4. s \in Seq(S) /\ n \in Nat /\ Len(s) \in Nat /\ DOMAIN s = 1..Len(s)
  BY <1>3, LenProperties DEF QuietScript, Queue
<1>5. /\ SubSeq(s, 1, n) \in Seq(S) /\ Len(SubSeq(s, 1, n)) = n
      /\ \A i \in 1..n : SubSeq(s, 1, n)[i] = s[i]
  <2>1. CASE n = 0
    BY <1>4, <2>1, SubSeqProperties, LenProperties
  <2>2. CASE n # 0
    BY <1>4, <2>2, SubSeqProperties, LenProperties
  <2> QED BY <2>1, <2>2
<1>6. DOMAIN SubSeq(s, 1, n) = 1..n
  BY <1>5, LenProperties
<1>7. QuietScript(SubSeq(s, 1, n), may)
  <2>1. Queue(SubSeq(s, 1, n))
    BY <1>5, QueueOf
  <2>2. \A i \in 1..n : Quiet(s[i], may)
    BY <1>4 DEF QuietScript
  <2> QED BY <1>5, <1>6, <2>1, <2>2 DEF QuietScript
<1> QED BY <1>2, <1>7

-----------------------------------------------------------------------------

(* A frame that makes the goal is sent: the goal is due.                   *)
LEMMA Announced ==
  ASSUME NEW s, Queue(s), NEW f, NEW c, NEW goal, Makes(goal, f, c), NEW flags
  PROVE  Due(goal, flags, Append(s, f), c)
<1>1. PICK k \in Nat : k = Len(s)
  BY Appended
<1>2. DOMAIN Append(s, f) = 1..(k + 1) /\ Append(s, f)[k + 1] = f
  BY <1>1, Appended
<1>3. k + 1 \in DOMAIN Append(s, f) /\ \A m \in DOMAIN Append(s, f) : ~(m > k + 1)
  BY <1>2
<1> QED BY <1>2, <1>3 DEF Due

(* A frame that does not break the goal is sent: the goal stays due.       *)
LEMMA Unbroken ==
  ASSUME NEW s, Queue(s), NEW f, NEW c, NEW goal, ~Breaks(goal, f, c), NEW flags,
         Due(goal, flags, s, c)
  PROVE  Due(goal, flags, Append(s, f), c)
<1>1. PICK k \in Nat : k = Len(s)
  BY Appended
<1>2. /\ DOMAIN s = 1..k /\ DOMAIN Append(s, f) = 1..(k + 1) /\ Append(s, f)[k + 1] = f
      /\ \A n \in 1..k : Append(s, f)[n] = s[n]
  BY <1>1, Appended
<1>3. \A n \in 1..(k + 1) : n \in 1..k \/ n = k + 1
  OBVIOUS
<1>4. \A n \in 1..k : n \in 1..(k + 1)
  OBVIOUS
<1>5. CASE Holds(goal, flags) /\ \A n \in DOMAIN s : ~Breaks(goal, s[n], c)
  BY <1>2, <1>3, <1>5 DEF Due
<1>6. CASE \E n \in DOMAIN s : /\ Makes(goal, s[n], c)
                               /\ \A m \in DOMAIN s : m > n => ~Breaks(goal, s[m], c)
  <2>1. PICK n \in 1..k : /\ Makes(goal, s[n], c)
                          /\ \A m \in 1..k : m > n => ~Breaks(goal, s[m], c)
    BY <1>2, <1>6
  <2>2. Makes(goal, Append(s, f)[n], c) /\ n \in DOMAIN Append(s, f)
    BY <1>2, <1>4, <2>1
  <2>3. \A m \in DOMAIN Append(s, f) : m > n => ~Breaks(goal, Append(s, f)[m], c)
    BY <1>2, <1>3, <2>1
  <2> QED BY <2>2, <2>3 DEF Due
<1> QED BY <1>5, <1>6 DEF Due

(* The first frame is handled: the goal stays due of the others.           *)
LEMMA Executed ==
  ASSUME NEW s, Queue(s), s # <<>>, NEW c, NEW goal \in Goals, NEW was, NEW is,
         Due(goal, was, s, c),
         \/ c \in Head(s).convs /\ Effect(Head(s), c, was, is)
         \/ c \notin Head(s).convs /\ is = was
  PROVE  Due(goal, is, Tail(s), c)
<1>1. PICK k \in Nat \ {0} : k = Len(s)
  BY Taken
<1>2. /\ DOMAIN s = 1..k /\ DOMAIN Tail(s) = 1..(k - 1) /\ Head(s) = s[1]
      /\ \A n \in 1..(k - 1) : Tail(s)[n] = s[n + 1]
  BY <1>1, Taken
<1>3. \A n \in 1..(k - 1) : n + 1 \in 1..k /\ n + 1 > 1
  OBVIOUS
<1>4. /\ Makes(goal, s[1], c) => Holds(goal, is)
      /\ Holds(goal, was) /\ ~Breaks(goal, s[1], c) => Holds(goal, is)
  BY <1>2 DEF Effect, Makes
<1>5. CASE Holds(goal, was) /\ \A n \in DOMAIN s : ~Breaks(goal, s[n], c)
  <2>1. 1 \in 1..k
    OBVIOUS
  <2> QED BY <1>2, <1>3, <1>4, <1>5, <2>1 DEF Due
<1>6. CASE \E n \in DOMAIN s : /\ Makes(goal, s[n], c)
                               /\ \A m \in DOMAIN s : m > n => ~Breaks(goal, s[m], c)
  <2>1. PICK n \in 1..k : /\ Makes(goal, s[n], c)
                          /\ \A m \in 1..k : m > n => ~Breaks(goal, s[m], c)
    BY <1>2, <1>6
  <2>2. CASE n = 1
    BY <1>2, <1>3, <1>4, <2>1, <2>2 DEF Due
  <2>3. CASE n # 1
    <3>1. n - 1 \in 1..(k - 1) /\ Tail(s)[n - 1] = s[n]
      BY <1>2, <2>3
    <3>2. \A m \in 1..(k - 1) : m > n - 1 => m + 1 > n
      OBVIOUS
    <3>3. \A m \in 1..(k - 1) : m > n - 1 => ~Breaks(goal, Tail(s)[m], c)
      BY <1>2, <1>3, <2>1, <3>2
    <3> QED BY <1>2, <2>1, <3>1, <3>3 DEF Due
  <2> QED BY <2>2, <2>3
<1> QED BY <1>5, <1>6 DEF Due

(* A statement run again without a frame, by the TUI.                      *)
LEMMA Repeated ==
  ASSUME NEW s, NEW c, NEW goal, NEW was, NEW is, Due(goal, was, s, c),
         Holds(goal, was) => Holds(goal, is)
  PROVE  Due(goal, is, s, c)
BY DEF Due

(* Frames of which one makes the goal and none breaks it.                  *)
LEMMA Promised ==
  ASSUME NEW s, NEW c, NEW goal, NEW flags, NEW f \in Said(s), Makes(goal, f, c),
         \A g \in Said(s) : ~Breaks(goal, g, c)
  PROVE  Due(goal, flags, s, c)
BY DEF Due, Said

-----------------------------------------------------------------------------

(* What the server wants are goals.                                        *)
LEMMA WantedGoals ==
  ASSUME NEW standing, NEW c, NEW goal \in Wanted(standing, c)
  PROVE  goal \in Goals
BY DEF Wanted, Goals

(* What a frame says stays true, for the server never forgets a            *)
(* conversation and never reopens a retired room.                          *)
LEMMA FrameStays ==
  ASSUME NEW f, FrameInv(f, srv),
         \A c \in Conv : /\ srv[c] # "none" => srv'[c] # "none"
                         /\ srv[c] \in {"retired", "buried"} => srv'[c] \in {"retired", "buried"}
  PROVE  FrameInv(f, srv')
BY DEF FrameInv

(* A frame that names one conversation concerns no other.                  *)
LEMMA NamesOnly ==
  ASSUME NEW type, NEW c
  PROVE  /\ Frame(type, {c}).type = type /\ Frame(type, {c}).convs = {c}
         /\ \A d, goal : d # c => ~Breaks(goal, Frame(type, {c}), d)
BY DEF Frame, Breaks

(* The server gives c a standing and says so to the connection that is up: *)
(* nothing else is due, if that frame leaves due what the standing wants.  *)
LEMMA Deciding ==
  ASSUME IInv, NEW c \in Conv, NEW standing \in Standing \ {"none"},
         NEW type \in FrameTypes, Suits(type, c), Decide(c, standing, type),
         c \in Groups \cup DMs => standing \notin {"retired", "buried"},
         c \in DMs => standing # "left",
         srv[c] \in {"retired", "buried"} \/ type \in Retires => standing \in {"retired", "buried"},
         up => \A goal \in Wanted(standing, c) :
                 Due(goal, store[c], Append(wire, Frame(type, {c})), c)
  PROVE  IInv'
<1>1. PICK f : f = Frame(type, {c})
  OBVIOUS
<1>2. f.type = type /\ f.convs = {c} /\ \A d, goal : d # c => ~Breaks(goal, f, d)
  BY <1>1, NamesOnly
<1>3. /\ srv' = [srv EXCEPT ![c] = standing]
      /\ wire' = IF up THEN Append(wire, f) ELSE wire
      /\ UNCHANGED <<asked, up, store, inbox>>
  BY <1>1 DEF Decide, linkVars, clientVars
<1>4. srv \in [Conv -> Standing]
  BY DEF IInv, KindInv
<1>5. srv' \in [Conv -> Standing] /\ srv'[c] = standing /\ \A d \in Conv : d # c => srv'[d] = srv[d]
  BY <1>3, <1>4
<1>6. KindInv'
  <2>1. \A r \in asked : srv'[r] # "none"
    <3>1. ASSUME NEW r \in asked PROVE srv'[r] # "none"
      <4>1. r \in Conv /\ srv[r] # "none"
        BY DEF IInv, KindInv, Conv
      <4> QED BY <1>5, <4>1
    <3> QED BY <3>1
  <2>2. \A d \in Groups \cup DMs : d \in Conv
    BY DEF Conv
  <2> QED BY <1>3, <1>5, <2>1, <2>2 DEF IInv, KindInv
<1>7. \A d \in Conv : /\ srv[d] # "none" => srv'[d] # "none"
                      /\ srv[d] \in {"retired", "buried"} => srv'[d] \in {"retired", "buried"}
  BY <1>5
<1>8. WireInv'
  <2>1. FrameInv(f, srv')
    BY <1>2, <1>5 DEF FrameInv
  <2>2. \A n \in DOMAIN wire : FrameInv(wire[n], srv')
    BY <1>7, FrameStays DEF IInv, WireInv
  <2>3. \A n \in DOMAIN inbox : FrameInv(inbox[n], srv')
    BY <1>7, FrameStays DEF IInv, WireInv
  <2>4. CASE up
    <3>1. wire' = Append(wire, f) /\ Queue(wire)
      BY <1>3, <2>4 DEF IInv, WireInv
    <3>2. PICK k \in Nat : k = Len(wire)
      BY <3>1, Appended
    <3>3. /\ Queue(wire') /\ DOMAIN wire = 1..k /\ DOMAIN wire' = 1..(k + 1) /\ wire'[k + 1] = f
          /\ \A n \in 1..k : wire'[n] = wire[n]
      BY <3>1, <3>2, Appended
    <3>4. \A n \in 1..(k + 1) : n \in 1..k \/ n = k + 1
      OBVIOUS
    <3>5. \A n \in DOMAIN wire' : FrameInv(wire'[n], srv')
      BY <2>1, <2>2, <3>3, <3>4
    <3> QED BY <1>3, <2>3, <3>3, <3>5 DEF IInv, WireInv
  <2>5. CASE ~up
    BY <1>3, <2>2, <2>3, <2>5 DEF IInv, WireInv
  <2> QED BY <2>4, <2>5 DEF IInv, KindInv
<1>9. StoreInv'
  BY <1>3, <1>5, <1>7 DEF IInv, StoreInv
<1>10. DueInv'
  <2> SUFFICES ASSUME up, NEW d \in Conv, NEW goal \in Wanted(srv'[d], d)
               PROVE  Due(goal, store[d], Append(wire, f), d)
    BY <1>3 DEF DueInv
  <2>1. CASE d = c
    BY <1>1, <1>5, <2>1
  <2>2. CASE d # c
    <3>1. Due(goal, store[d], wire, d) /\ Queue(wire)
      BY <1>5, <2>2 DEF IInv, DueInv, WireInv
    <3> QED BY <1>2, <2>2, <3>1, Unbroken
  <2> QED BY <2>1, <2>2
<1> QED BY <1>6, <1>8, <1>9, <1>10 DEF IInv

(* A frame of this type makes by itself all that the standing wants.       *)
Announces(c, standing, type) ==
  /\ standing \in Standing \ {"none"} /\ type \in FrameTypes /\ Suits(type, c)
  /\ c \in Groups \cup DMs => standing \notin {"retired", "buried"}
  /\ c \in DMs => standing # "left"
  /\ srv[c] \in {"retired", "buried"} \/ type \in Retires => standing \in {"retired", "buried"}
  /\ \A f : f.type = type /\ f.convs = {c} => \A goal \in Wanted(standing, c) : Makes(goal, f, c)

(* See Deciding.                                                           *)
LEMMA Announcing ==
  ASSUME IInv, NEW c \in Conv, NEW standing, NEW type, Announces(c, standing, type),
         Decide(c, standing, type)
  PROVE  IInv'
<1>1. ASSUME NEW goal \in Wanted(standing, c)
      PROVE  Due(goal, store[c], Append(wire, Frame(type, {c})), c)
  <2>1. PICK f : f = Frame(type, {c})
    OBVIOUS
  <2>2. f.type = type /\ f.convs = {c}
    BY <2>1, NamesOnly
  <2>3. Queue(wire) /\ Makes(goal, f, c)
    BY <2>2 DEF IInv, WireInv, Announces
  <2> QED BY <2>1, <2>3, Announced
<1> QED BY <1>1, Deciding DEF Announces

(* A conversation is of one kind.                                          *)
LEMMA Kinds ==
  /\ \A r \in Rooms : r \in Conv /\ r \notin Groups /\ r \notin DMs
  /\ \A g \in Groups : g \in Conv /\ g \notin Rooms /\ g \notin DMs
  /\ \A d \in DMs : d \in Conv /\ d \notin Rooms /\ d \notin Groups
BY KindsDisjoint DEF Conv

(* Wanted and Makes, case by case.                                         *)
LEMMA WantedIs ==
  ASSUME NEW c
  PROVE  /\ Wanted("in", c) = IF c \in DMs THEN {"row", "shown"} ELSE {"row", "joined"}
         /\ Wanted("left", c) = IF c \in Rooms THEN {"inactive"} ELSE {}
         /\ Wanted("retired", c) = {"row", "retired"}
         /\ \A st \in Dead : Wanted(st, c) = IF c \in DMs THEN {"hidden", "purged"} ELSE {"gone", "purged"}
BY DEF Wanted, Dead

(* See WantedIs.                                                           *)
LEMMA MadeBy ==
  ASSUME NEW f, NEW c, c \in f.convs
  PROVE  /\ f.type \in Stores => Makes("row", f, c)
         /\ f.type \in Joins => Makes("joined", f, c)
         /\ f.type \in Leaves => Makes("inactive", f, c)
         /\ f.type \in Retires => Makes("retired", f, c)
         /\ Shows(f, c) => Makes("shown", f, c)
         /\ Hides(f, c) => Makes("hidden", f, c) /\ Makes("purged", f, c)
         /\ f.type \in Deletes => Makes("gone", f, c) /\ Makes("purged", f, c)
BY DEF Makes

(* The decisions of the server that announce themselves.                   *)
LEMMA RoomsDecided ==
  ASSUME IInv, NEW r \in Rooms, AddToRoom(r) \/ LeaveRoom(r) \/ RetireRoom(r) \/ DeleteRoom(r)
  PROVE  IInv'
<1>1. CASE AddToRoom(r)
  <2>1. Announces(r, "in", "room_added_to")
    <3>1. \A f : f.type = "room_added_to" /\ f.convs = {r}
                 => \A goal \in Wanted("in", r) : Makes(goal, f, r)
      BY Kinds, WantedIs, MadeBy DEF Joins, Stores
    <3>2. "in" \in Standing \ {"none"} /\ "room_added_to" \in FrameTypes /\ Suits("room_added_to", r)
      BY DEF Standing, FrameTypes, Dead, Suits, RoomTypes, GroupTypes, DMTypes
    <3> QED BY <1>1, <3>1, <3>2, Kinds DEF AddToRoom, Announces, Retires, Dead
  <2> QED BY <1>1, <2>1, Kinds, Announcing DEF AddToRoom
<1>2. CASE LeaveRoom(r)
  <2>1. Announces(r, "left", "room_left")
    <3>1. \A f : f.type = "room_left" /\ f.convs = {r}
                 => \A goal \in Wanted("left", r) : Makes(goal, f, r)
      BY Kinds, WantedIs, MadeBy DEF Leaves
    <3>2. "left" \in Standing \ {"none"} /\ "room_left" \in FrameTypes /\ Suits("room_left", r)
      BY DEF Standing, FrameTypes, Dead, Suits, RoomTypes, GroupTypes, DMTypes
    <3> QED BY <1>2, <3>1, <3>2, Kinds DEF LeaveRoom, Announces, Retires, Dead
  <2> QED BY <1>2, <2>1, Kinds, Announcing DEF LeaveRoom
<1>3. CASE RetireRoom(r)
  <2>1. Announces(r, "retired", "room_retired")
    <3>1. \A f : f.type = "room_retired" /\ f.convs = {r}
                 => \A goal \in Wanted("retired", r) : Makes(goal, f, r)
      BY Kinds, WantedIs, MadeBy DEF Stores, Retires
    <3>2. "retired" \in Standing \ {"none"} /\ "room_retired" \in FrameTypes /\ Suits("room_retired", r)
      BY DEF Standing, FrameTypes, Dead, Suits, RoomTypes, GroupTypes, DMTypes
    <3> QED BY <1>3, <3>1, <3>2, Kinds DEF RetireRoom, Announces, Retires, Dead
  <2> QED BY <1>3, <2>1, Kinds, Announcing DEF RetireRoom
<1>4. CASE DeleteRoom(r)
  <2>1. PICK st \in Dead : /\ st = (IF srv[r] = "retired" THEN "buried" ELSE "deleted")
                           /\ Decide(r, st, "room_deleted") /\ srv[r] # "buried"
    BY <1>4 DEF DeleteRoom, Dead
  <2>2. Announces(r, st, "room_deleted")
    <3>1. \A f : f.type = "room_deleted" /\ f.convs = {r}
                 => \A goal \in Wanted(st, r) : Makes(goal, f, r)
      BY Kinds, WantedIs, MadeBy DEF Deletes
    <3>2. st \in Standing \ {"none"} /\ "room_deleted" \in FrameTypes /\ Suits("room_deleted", r)
      BY DEF Standing, FrameTypes, Dead, Suits, RoomTypes, GroupTypes, DMTypes
    <3> QED BY <2>1, <3>1, <3>2, Kinds DEF Announces, Retires, Dead
  <2> QED BY <2>1, <2>2, Kinds, Announcing
<1> QED BY <1>1, <1>2, <1>3, <1>4

(* See RoomsDecided.                                                       *)
LEMMA GroupsDecided ==
  ASSUME IInv, NEW g \in Groups, AddToGroup(g) \/ LeaveGroup(g) \/ DeleteGroup(g)
  PROVE  IInv'
<1>1. CASE AddToGroup(g)
  <2>1. Announces(g, "in", "group_added_to")
    <3>1. \A f : f.type = "group_added_to" /\ f.convs = {g}
                 => \A goal \in Wanted("in", g) : Makes(goal, f, g)
      BY Kinds, WantedIs, MadeBy DEF Joins, Stores
    <3>2. "in" \in Standing \ {"none"} /\ "group_added_to" \in FrameTypes /\ Suits("group_added_to", g)
      BY DEF Standing, FrameTypes, Dead, Suits, RoomTypes, GroupTypes, DMTypes
    <3> QED BY <1>1, <3>1, <3>2, Kinds DEF AddToGroup, Announces, Retires, Dead
  <2> QED BY <1>1, <2>1, Kinds, Announcing DEF AddToGroup
<1>2. CASE LeaveGroup(g)
  <2>1. Announces(g, "left", "group_left")
    <3>1. \A f : f.type = "group_left" /\ f.convs = {g}
                 => \A goal \in Wanted("left", g) : Makes(goal, f, g)
      BY Kinds, WantedIs, MadeBy
    <3>2. "left" \in Standing \ {"none"} /\ "group_left" \in FrameTypes /\ Suits("group_left", g)
      BY DEF Standing, FrameTypes, Dead, Suits, RoomTypes, GroupTypes, DMTypes
    <3> QED BY <1>2, <3>1, <3>2, Kinds DEF LeaveGroup, Announces, Retires, Dead
  <2> QED BY <1>2, <2>1, Kinds, Announcing DEF LeaveGroup
<1>3. CASE DeleteGroup(g)
  <2>1. Announces(g, "deleted", "group_deleted")
    <3>1. \A f : f.type = "group_deleted" /\ f.convs = {g}
                 => \A goal \in Wanted("deleted", g) : Makes(goal, f, g)
      BY Kinds, WantedIs, MadeBy DEF Deletes, Dead
    <3>2. "deleted" \in Standing \ {"none"} /\ "group_deleted" \in FrameTypes /\ Suits("group_deleted", g)
      BY DEF Standing, FrameTypes, Dead, Suits, RoomTypes, GroupTypes, DMTypes
    <3> QED BY <1>3, <3>1, <3>2, Kinds DEF DeleteGroup, Announces, Retires, Dead
  <2> QED BY <1>3, <2>1, Kinds, Announcing DEF DeleteGroup
<1> QED BY <1>1, <1>2, <1>3

(* See RoomsDecided.                                                       *)
LEMMA DMsDecided ==
  ASSUME IInv, NEW d \in DMs, CreateDM(d) \/ LeaveDM(d)
  PROVE  IInv'
<1>1. CASE CreateDM(d)
  <2>1. Announces(d, "in", "dm_created")
    <3>1. \A f : f.type = "dm_created" /\ f.convs = {d}
                 => \A goal \in Wanted("in", d) : Makes(goal, f, d)
      BY Kinds, WantedIs, MadeBy DEF Stores, Shows
    <3>2. "in" \in Standing \ {"none"} /\ "dm_created" \in FrameTypes /\ Suits("dm_created", d)
      BY DEF Standing, FrameTypes, Dead, Suits, RoomTypes, GroupTypes, DMTypes
    <3> QED BY <1>1, <3>1, <3>2, Kinds DEF CreateDM, Announces, Retires, Dead
  <2> QED BY <1>1, <2>1, Kinds, Announcing DEF CreateDM
<1>2. CASE LeaveDM(d)
  <2>1. Announces(d, "deleted", "dm_left")
    <3>1. \A f : f.type = "dm_left" /\ f.convs = {d}
                 => \A goal \in Wanted("deleted", d) : Makes(goal, f, d)
      BY Kinds, WantedIs, MadeBy DEF Hides, Dead
    <3>2. "deleted" \in Standing \ {"none"} /\ "dm_left" \in FrameTypes /\ Suits("dm_left", d)
      BY DEF Standing, FrameTypes, Dead, Suits, RoomTypes, GroupTypes, DMTypes
    <3> QED BY <1>2, <3>1, <3>2, Kinds DEF LeaveDM, Announces, Retires, Dead
  <2> QED BY <1>2, <2>1, Kinds, Announcing DEF LeaveDM
<1> QED BY <1>1, <1>2

(* A message makes nothing and breaks only that none is kept, which nobody *)
(* wants of a conversation one can post in.                                *)
LEMMA PostInv ==
  ASSUME IInv, NEW c \in Conv, Post(c)
  PROVE  IInv'
<1>1. srv[c] = "in" /\ Decide(c, "in", "message")
  BY DEF Post
<1>2. ASSUME up, NEW goal \in Wanted("in", c)
      PROVE  Due(goal, store[c], Append(wire, Frame("message", {c})), c)
  <2>1. Queue(wire) /\ Due(goal, store[c], wire, c)
    BY <1>1, <1>2 DEF IInv, WireInv, DueInv
  <2>2. ~Breaks(goal, Frame("message", {c}), c)
    <3>1. goal \in {"row", "shown", "joined"}
      BY WantedIs
    <3>2. PICK f : f = Frame("message", {c})
      OBVIOUS
    <3>3. f.type = "message"
      BY <3>2, NamesOnly
    <3>4. ~Breaks("row", f, c) /\ ~Breaks("shown", f, c) /\ ~Breaks("joined", f, c)
      BY <3>3 DEF Breaks, Deletes, Leaves, Hides
    <3> QED BY <3>1, <3>2, <3>4
  <2> QED BY <2>1, <2>2, Unbroken
<1>3. "in" \in Standing \ {"none"} /\ "message" \in FrameTypes /\ Suits("message", c)
      /\ "message" \notin Retires
  BY DEF Standing, FrameTypes, Retires, Suits, RoomTypes, GroupTypes, DMTypes
<1> QED BY <1>1, <1>2, <1>3, Deciding

(* The frame of a new group does not clear the archived flag: nothing was  *)
(* ever said of the group, so there is no row that has one.                *)
LEMMA CreateGroupInv ==
  ASSUME IInv, NEW g \in Groups, CreateGroup(g)
  PROVE  IInv'
<1>1. g \in Conv /\ g \notin DMs /\ srv[g] = "none" /\ Decide(g, "in", "group_created")
  BY Kinds DEF CreateGroup
<1>2. ASSUME up, NEW goal \in Wanted("in", g)
      PROVE  Due(goal, store[g], Append(wire, Frame("group_created", {g})), g)
  <2>1. Queue(wire) /\ store[g] = {} /\ \A n \in DOMAIN wire : g \notin wire[n].convs
    BY <1>1 DEF IInv, WireInv, StoreInv, FrameInv
  <2>2. CASE goal = "row"
    <3>1. Makes(goal, Frame("group_created", {g}), g)
      <4>1. PICK f : f = Frame("group_created", {g})
        OBVIOUS
      <4>2. f.type = "group_created" /\ f.convs = {g}
        BY <4>1, NamesOnly
      <4> QED BY <2>2, <4>1, <4>2, MadeBy DEF Stores
    <3> QED BY <2>1, <3>1, Announced
  <2>3. CASE goal = "joined"
    <3>1. Holds(goal, store[g])
      BY <2>1, <2>3 DEF Holds
    <3>2. Due(goal, store[g], wire, g)
      BY <2>1, <3>1 DEF Due, Breaks
    <3>3. ~Breaks(goal, Frame("group_created", {g}), g)
      <4>1. PICK f : f = Frame("group_created", {g})
        OBVIOUS
      <4>2. f.type = "group_created"
        BY <4>1, NamesOnly
      <4>3. ~Breaks("joined", f, g)
        BY <4>2 DEF Breaks, Leaves
      <4> QED BY <2>3, <4>1, <4>3
    <3> QED BY <2>1, <3>2, <3>3, Unbroken
  <2> QED BY <1>1, <2>2, <2>3, WantedIs
<1>3. "in" \in Standing \ {"none"} /\ "group_created" \in FrameTypes /\ Suits("group_created", g)
      /\ "group_created" \notin Retires
  BY DEF Standing, FrameTypes, Retires, Suits, RoomTypes, GroupTypes, DMTypes
<1> QED BY <1>1, <1>2, <1>3, Deciding

(* The answer to a request for the members is about no goal.               *)
LEMMA AnswerInv ==
  ASSUME IInv, NEW r \in Rooms, AnswerRoomMembers(r)
  PROVE  IInv'
<1>1. PICK f : f = Frame("room_members_list", {r})
  OBVIOUS
<1>2. f.type = "room_members_list" /\ f.convs = {r} /\ \A goal \in Goals : \A d : ~Breaks(goal, f, d)
  <2>1. f.type = "room_members_list" /\ f.convs = {r}
    BY <1>1, NamesOnly
  <2>2. ASSUME NEW goal \in Goals, NEW d PROVE ~Breaks(goal, f, d)
    <3>1. /\ f.type \notin Deletes /\ f.type \notin Leaves /\ f.type \notin Stores /\ ~Hides(f, d)
          /\ f.type # "message"
      BY <2>1 DEF Deletes, Leaves, Stores, Joins, Retires, Hides
    <3> QED BY <3>1 DEF Goals, Breaks
  <2> QED BY <2>1, <2>2
<1>3. /\ wire' = Append(wire, f) /\ asked' = asked \ {r} /\ r \in asked
      /\ UNCHANGED <<srv, up, store, inbox>>
  BY <1>1 DEF AnswerRoomMembers, linkVars, clientVars
<1>4. KindInv' /\ StoreInv'
  BY <1>3 DEF IInv, KindInv, StoreInv
<1>5. FrameInv(f, srv)
  BY <1>2, <1>3, Kinds DEF IInv, KindInv, FrameInv, Retires, FrameTypes, Suits, RoomTypes, GroupTypes, DMTypes
<1>6. WireInv'
  <2>1. PICK k \in Nat : k = Len(wire)
    BY Appended DEF IInv, WireInv
  <2>2. /\ Queue(wire') /\ DOMAIN wire = 1..k /\ DOMAIN wire' = 1..(k + 1) /\ wire'[k + 1] = f
        /\ \A n \in 1..k : wire'[n] = wire[n]
    BY <1>3, <2>1, Appended DEF IInv, WireInv
  <2>3. \A n \in 1..(k + 1) : n \in 1..k \/ n = k + 1
    OBVIOUS
  <2> QED BY <1>3, <1>5, <2>2, <2>3 DEF IInv, WireInv
<1>7. DueInv'
  <2> SUFFICES ASSUME up, NEW d \in Conv, NEW goal \in Wanted(srv[d], d)
               PROVE  Due(goal, store[d], Append(wire, f), d)
    BY <1>3 DEF DueInv
  <2>1. Due(goal, store[d], wire, d) /\ Queue(wire) /\ goal \in Goals
    BY WantedGoals DEF IInv, DueInv, WireInv
  <2> QED BY <1>2, <2>1, Unbroken
<1> QED BY <1>4, <1>6, <1>7 DEF IInv

(* The steps of the server.                                                *)
LEMMA ServerInv ==
  ASSUME IInv, Server
  PROVE  IInv'
BY RoomsDecided, GroupsDecided, DMsDecided, PostInv, CreateGroupInv, AnswerInv DEF Server

-----------------------------------------------------------------------------

(* The step of the readLoop.                                               *)
LEMMA ReadInv ==
  ASSUME IInv, ReadFrame
  PROVE  IInv'
<1>1. PICK f : f = Head(wire)
  OBVIOUS
<1>2. PICK k \in Nat \ {0} : k = Len(wire)
  BY Taken DEF ReadFrame, IInv, WireInv
<1>3. /\ Queue(wire) /\ wire # <<>> /\ wire' = Tail(wire) /\ inbox' = Append(inbox, f)
      /\ store' = Stored(f) /\ UNCHANGED <<srv, asked, up>>
  BY <1>1 DEF ReadFrame, IInv, WireInv, serverVars, linkVars
<1>4. /\ Queue(wire') /\ DOMAIN wire = 1..k /\ DOMAIN wire' = 1..(k - 1) /\ f = wire[1]
      /\ \A n \in 1..(k - 1) : wire'[n] = wire[n + 1]
  BY <1>1, <1>2, <1>3, Taken
<1>5. FrameInv(f, srv)
  <2>1. 1 \in 1..k
    OBVIOUS
  <2> QED BY <1>4, <2>1 DEF IInv, WireInv
<1>6. WireInv'
  <2>1. PICK j \in Nat : j = Len(inbox)
    BY Appended DEF IInv, WireInv
  <2>2. /\ Queue(inbox') /\ DOMAIN inbox = 1..j /\ DOMAIN inbox' = 1..(j + 1) /\ inbox'[j + 1] = f
        /\ \A n \in 1..j : inbox'[n] = inbox[n]
    BY <1>3, <2>1, Appended DEF IInv, WireInv
  <2>3. \A n \in 1..(j + 1) : n \in 1..j \/ n = j + 1
    OBVIOUS
  <2>4. \A n \in 1..(k - 1) : n + 1 \in 1..k
    OBVIOUS
  <2>5. \A n \in DOMAIN wire' : FrameInv(wire'[n], srv)
    BY <1>4, <2>4 DEF IInv, WireInv
  <2>6. \A n \in DOMAIN inbox' : FrameInv(inbox'[n], srv)
    BY <1>5, <2>2, <2>3 DEF IInv, WireInv
  <2> QED BY <1>3, <1>4, <2>2, <2>5, <2>6 DEF WireInv
<1>7. \A c \in Conv : \/ c \in f.convs /\ Effect(f, c, store[c], store'[c])
                      \/ c \notin f.convs /\ store'[c] = store[c]
  BY <1>3, <1>5, Effects DEF Stored, FrameInv
<1>8. StoreInv'
  <2> SUFFICES ASSUME NEW c \in Conv
               PROVE  /\ srv[c] = "none" => store'[c] = {}
                      /\ "retired" \in store'[c] => srv[c] \in {"retired", "buried"}
                      /\ store'[c] \subseteq KindFlags(c) /\ OfRow(store'[c])
    BY <1>3 DEF StoreInv
  <2>1. CASE c \in f.convs
    <3>1. QuietScript(Script(f, c), MaySet(f, c)) /\ MaySet(f, c) \subseteq KindFlags(c)
      BY <1>5, <2>1, QuietFrames DEF FrameInv, MaySet
    <3>2. 0 \in 0..Len(Script(f, c)) /\ store'[c] = Run(store[c], Script(f, c))
      BY <1>3, <2>1, <3>1, Appended DEF Stored, QuietScript
    <3>3. store'[c] \subseteq KindFlags(c) /\ OfRow(store'[c])
      BY <3>1, <3>2, QuietRun DEF IInv, StoreInv
    <3> QED BY <1>5, <1>7, <2>1, <3>3 DEF FrameInv, Effect, IInv, StoreInv
  <2>2. CASE c \notin f.convs
    BY <1>7, <2>2 DEF IInv, StoreInv
  <2> QED BY <2>1, <2>2
<1>9. DueInv'
  <2> SUFFICES ASSUME up, NEW c \in Conv, NEW goal \in Wanted(srv[c], c)
               PROVE  Due(goal, store'[c], Tail(wire), c)
    BY <1>3 DEF DueInv
  <2>1. Due(goal, store[c], wire, c) /\ goal \in Goals
    BY WantedGoals DEF IInv, DueInv
  <2> QED BY <1>1, <1>3, <1>7, <2>1, Executed
<1>10. KindInv'
  BY <1>3 DEF IInv, KindInv
<1> QED BY <1>6, <1>8, <1>9, <1>10 DEF IInv

(* A process that dies in a handler leaves part of its statements on disk; *)
(* nothing is due before the next handshake.                               *)
LEMMA CrashInv ==
  ASSUME IInv, CrashInHandler
  PROVE  IInv'
<1>1. PICK f : f = Head(wire)
  OBVIOUS
<1>2. PICK done, c, n :
        /\ up /\ wire # <<>>
        /\ done \in SUBSET f.convs /\ c \in f.convs \ done /\ n \in 0..Len(Script(f, c))
        /\ Stop(StoredUpTo(f, done, c, n))
  BY <1>1 DEF CrashInHandler
<1>3. /\ store' = StoredUpTo(f, done, c, n) /\ srv' = srv
      /\ asked' = {} /\ up' = FALSE /\ wire' = <<>> /\ inbox' = <<>>
  BY <1>2 DEF Stop
<1>4. FrameInv(f, srv)
  BY <1>1, <1>2, Taken DEF IInv, WireInv
<1>5. KindInv' /\ DueInv' /\ WireInv'
  BY <1>3, Nothing DEF IInv, KindInv, DueInv, WireInv
<1>6. StoreInv'
  <2> SUFFICES ASSUME NEW d \in Conv
               PROVE  /\ srv[d] = "none" => store'[d] = {}
                      /\ "retired" \in store'[d] => srv[d] \in {"retired", "buried"}
                      /\ store'[d] \subseteq KindFlags(d) /\ OfRow(store'[d])
    BY <1>3 DEF StoreInv
  <2>1. store'[d] = CASE d \in done -> Run(store[d], Script(f, d))
                      [] d = c      -> Run(store[d], SubSeq(Script(f, d), 1, n))
                      [] OTHER      -> store[d]
    BY <1>3 DEF StoredUpTo
  <2>2. CASE d \notin f.convs
    <3>1. store'[d] = store[d]
      BY <1>2, <2>1, <2>2
    <3> QED BY <3>1 DEF IInv, StoreInv
  <2>3. CASE d \in f.convs
    <3>1. /\ f.type \in FrameTypes /\ srv[d] # "none" /\ Suits(f.type, d)
          /\ f.type \in Retires => srv[d] \in {"retired", "buried"}
      BY <1>4, <2>3 DEF FrameInv
    <3>2. QuietScript(Script(f, d), MaySet(f, d))
      BY <2>3, <3>1, QuietFrames
    <3>3. 0 \in 0..Len(Script(f, d))
      BY <3>2, Appended DEF QuietScript
    <3>4. store'[d] \subseteq store[d] \cup MaySet(f, d) /\ (OfRow(store[d]) => OfRow(store'[d]))
      <4>1. CASE d \in done
        <5>1. store'[d] = Run(store[d], Script(f, d))
          BY <1>2, <2>1, <4>1
        <5> QED BY <3>2, <3>3, <5>1, QuietRun
      <4>2. CASE d \notin done /\ d = c
        <5>1. store'[d] = Run(store[d], SubSeq(Script(f, d), 1, n)) /\ n \in 0..Len(Script(f, d))
          BY <1>2, <2>1, <4>2
        <5> QED BY <3>2, <5>1, QuietRun
      <4>3. CASE d \notin done /\ d # c
        BY <2>1, <4>3
      <4> QED BY <4>1, <4>2, <4>3
    <3>5. store[d] \subseteq KindFlags(d) /\ OfRow(store[d])
          /\ ("retired" \in store[d] => srv[d] \in {"retired", "buried"})
      BY DEF IInv, StoreInv
    <3> QED BY <3>1, <3>4, <3>5 DEF MaySet
  <2> QED BY <2>2, <2>3
<1> QED BY <1>5, <1>6 DEF IInv

(* See CrashInv.                                                           *)
LEMMA QuitInv ==
  ASSUME IInv, Quit \/ Drop
  PROVE  IInv'
<1>1. /\ store' = store /\ srv' = srv /\ asked' = {} /\ up' = FALSE /\ wire' = <<>>
      /\ inbox' \in {inbox, <<>>}
  BY DEF Quit, Stop, Drop, clientVars
<1> QED BY <1>1, Nothing DEF IInv, KindInv, DueInv, WireInv, StoreInv

(* A step that touches neither the wire nor the disk.                      *)
LEMMA StaysInv ==
  ASSUME IInv, UNCHANGED <<srv, asked, up, wire, store>>, Queue(inbox'),
         \A n \in DOMAIN inbox' : FrameInv(inbox'[n], srv)
  PROVE  IInv'
BY DEF IInv, KindInv, DueInv, WireInv, StoreInv

(* The list of the handshake that a conversation is in, by its standing.   *)
Places(f, c) ==
  \/ f.type = "deleted_rooms"  /\ c \in Rooms  /\ srv[c] \in Dead
  \/ f.type = "retired_rooms"  /\ c \in Rooms  /\ srv[c] = "retired"
  \/ f.type = "left_rooms"     /\ c \in Rooms  /\ srv[c] = "left"
  \/ f.type = "room_list"      /\ c \in Rooms  /\ srv[c] = "in"
  \/ f.type = "deleted_groups" /\ c \in Groups /\ srv[c] \in Dead
  \/ f.type = "left_groups"    /\ c \in Groups /\ srv[c] = "left"
  \/ f.type = "group_list"     /\ c \in Groups /\ srv[c] = "in"
  \/ f.type = "dm_list"        /\ c \in DMs    /\ IF c \in f.hidden THEN srv[c] \in Dead ELSE srv[c] = "in"

(* The lists of a handshake, each left out when empty.                     *)
LEMMA Singly ==
  ASSUME NEW f
  PROVE  Queue(<<f>>) /\ Said(<<f>>) = {f}
<1>1. <<f>> \in Seq({f})
  OBVIOUS
<1>2. DOMAIN <<f>> = {1} /\ <<f>>[1] = f
  OBVIOUS
<1> QED BY <1>1, <1>2, QueueOf DEF Said

(* See Singly.                                                             *)
LEMMA Listing ==
  ASSUME NEW type, NEW S
  PROVE  /\ Queue(ListFrame(type, S))
         /\ Said(ListFrame(type, S)) = IF S = {} THEN {} ELSE {Frame(type, S)}
<1>1. CASE S = {}
  <2>1. ListFrame(type, S) = <<>>
    BY <1>1 DEF ListFrame
  <2> QED BY <1>1, <2>1, Nothing DEF Said
<1>2. CASE S # {}
  <2>1. PICK f : f = Frame(type, S)
    OBVIOUS
  <2>2. ListFrame(type, S) = <<f>>
    BY <1>2, <2>1 DEF ListFrame
  <2> QED BY <1>2, <2>1, <2>2, Singly
<1> QED BY <1>1, <1>2

(* See Singly.                                                             *)
DMList == [type |-> "dm_list", convs |-> In(DMs, {"in"} \cup Dead), hidden |-> In(DMs, Dead)]

(* See Singly.                                                             *)
LEMMA HandshakeSays ==
  /\ Queue(Handshake)
  /\ Said(Handshake) =
       Said(ListFrame("deleted_rooms", In(Rooms, Dead)))
       \cup Said(ListFrame("retired_rooms", In(Rooms, {"retired"})))
       \cup Said(ListFrame("left_rooms", In(Rooms, {"left"})))
       \cup {Frame("room_list", In(Rooms, {"in"}))}
       \cup Said(ListFrame("deleted_groups", In(Groups, Dead)))
       \cup Said(ListFrame("left_groups", In(Groups, {"left"})))
       \cup {Frame("group_list", In(Groups, {"in"}))}
       \cup {DMList}
<1>1. PICK a, b, c, d, e, f, g, h :
        /\ a = ListFrame("deleted_rooms", In(Rooms, Dead))
        /\ b = ListFrame("retired_rooms", In(Rooms, {"retired"}))
        /\ c = ListFrame("left_rooms", In(Rooms, {"left"}))
        /\ d = <<Frame("room_list", In(Rooms, {"in"}))>>
        /\ e = ListFrame("deleted_groups", In(Groups, Dead))
        /\ f = ListFrame("left_groups", In(Groups, {"left"}))
        /\ g = <<Frame("group_list", In(Groups, {"in"}))>>
        /\ h = <<DMList>>
  OBVIOUS
<1>2. Queue(a) /\ Queue(b) /\ Queue(c) /\ Queue(d) /\ Queue(e) /\ Queue(f) /\ Queue(g) /\ Queue(h)
  BY <1>1, Listing, Singly
<1>3. /\ Said(d) = {Frame("room_list", In(Rooms, {"in"}))}
      /\ Said(g) = {Frame("group_list", In(Groups, {"in"}))}
      /\ Said(h) = {DMList}
  BY <1>1, Singly
<1>4. Handshake = a \o b \o c \o d \o e \o f \o g \o h
  BY <1>1 DEF Handshake, DMList
<1>5. PICK p2, p3, p4, p5, p6, p7 :
        /\ p2 = a \o b /\ p3 = p2 \o c /\ p4 = p3 \o d /\ p5 = p4 \o e /\ p6 = p5 \o f /\ p7 = p6 \o g
  OBVIOUS
<1>6. Queue(p2) /\ Said(p2) = Said(a) \cup Said(b)
  BY <1>2, <1>5, SaidBoth
<1>7. Queue(p3) /\ Said(p3) = Said(p2) \cup Said(c)
  BY <1>2, <1>5, <1>6, SaidBoth
<1>8. Queue(p4) /\ Said(p4) = Said(p3) \cup Said(d)
  BY <1>2, <1>5, <1>7, SaidBoth
<1>9. Queue(p5) /\ Said(p5) = Said(p4) \cup Said(e)
  BY <1>2, <1>5, <1>8, SaidBoth
<1>10. Queue(p6) /\ Said(p6) = Said(p5) \cup Said(f)
  BY <1>2, <1>5, <1>9, SaidBoth
<1>11. Queue(p7) /\ Said(p7) = Said(p6) \cup Said(g)
  BY <1>2, <1>5, <1>10, SaidBoth
<1>12. Queue(p7 \o h) /\ Said(p7 \o h) = Said(p7) \cup Said(h) /\ Handshake = p7 \o h
  BY <1>2, <1>4, <1>5, <1>11, SaidBoth
<1> QED BY <1>1, <1>3, <1>6, <1>7, <1>8, <1>9, <1>10, <1>11, <1>12

(* Every conversation the server knows is in a list, and only in the one   *)
(* of its standing.                                                        *)
LEMMA HandshakeFrames ==
  ASSUME KindInv
  PROVE  /\ \A f \in Said(Handshake) : FrameInv(f, srv) /\ \A c \in f.convs : Places(f, c)
         /\ \A c \in Conv : srv[c] # "none" => \E f \in Said(Handshake) : c \in f.convs
<1>1. \A S, st, c : c \in In(S, st) <=> c \in S /\ srv[c] \in st
  BY DEF In
<1>2. \A type, S : Frame(type, S).type = type /\ Frame(type, S).convs = S
  BY DEF Frame
<1>3. /\ DMList.type = "dm_list" /\ DMList.hidden = In(DMs, Dead)
      /\ DMList.convs = In(DMs, {"in"} \cup Dead)
  BY DEF DMList
<1>4. \A f \in Said(Handshake) :
        \/ f = DMList
        \/ f.type = "deleted_rooms" /\ f.convs = In(Rooms, Dead)
        \/ f.type = "retired_rooms" /\ f.convs = In(Rooms, {"retired"})
        \/ f.type = "left_rooms" /\ f.convs = In(Rooms, {"left"})
        \/ f.type = "room_list" /\ f.convs = In(Rooms, {"in"})
        \/ f.type = "deleted_groups" /\ f.convs = In(Groups, Dead)
        \/ f.type = "left_groups" /\ f.convs = In(Groups, {"left"})
        \/ f.type = "group_list" /\ f.convs = In(Groups, {"in"})
  BY <1>2, HandshakeSays, Listing
<1>5. ASSUME NEW f \in Said(Handshake) PROVE FrameInv(f, srv) /\ \A c \in f.convs : Places(f, c)
  <2>1. ASSUME NEW c \in f.convs PROVE Places(f, c)
    BY <1>1, <1>3, <1>4, <2>1 DEF Places, Dead
  <2>2. f.type \in FrameTypes /\ f.convs \subseteq Conv
    BY <1>1, <1>3, <1>4, Kinds DEF FrameTypes
  <2>3. ASSUME NEW c \in f.convs PROVE Suits(f.type, c)
    BY <2>1 DEF Places, Suits, RoomTypes, GroupTypes, DMTypes
  <2>4. ASSUME NEW c \in f.convs
        PROVE  srv[c] # "none" /\ (f.type \in Retires => srv[c] \in {"retired", "buried"})
    BY <2>1 DEF Places, Dead, Retires
  <2> QED BY <2>1, <2>2, <2>3, <2>4 DEF FrameInv
<1>6. ASSUME NEW c \in Conv, srv[c] # "none" PROVE \E f \in Said(Handshake) : c \in f.convs
  <2>1. \A type, S : S # {} => Frame(type, S) \in Said(ListFrame(type, S))
    BY Listing
  <2>2. \A type, S, st : c \in In(S, st) /\ Said(ListFrame(type, In(S, st))) \subseteq Said(Handshake)
                           => \E f \in Said(Handshake) : c \in f.convs
    BY <1>2, <2>1
  <2>3. srv[c] \in Standing
    BY DEF KindInv
  <2>4. CASE c \in Rooms
    <3>1. CASE srv[c] = "in"
      <4>1. c \in Frame("room_list", In(Rooms, {"in"})).convs
        BY <1>1, <1>2, <2>4, <3>1
      <4> QED BY <4>1, HandshakeSays
    <3>2. CASE srv[c] = "left"
      <4>1. c \in In(Rooms, {"left"})
        BY <1>1, <2>4, <3>2
      <4> QED BY <2>2, <4>1, HandshakeSays
    <3>3. CASE srv[c] = "retired"
      <4>1. c \in In(Rooms, {"retired"})
        BY <1>1, <2>4, <3>3
      <4> QED BY <2>2, <4>1, HandshakeSays
    <3>4. CASE srv[c] \in Dead
      <4>1. c \in In(Rooms, Dead)
        BY <1>1, <2>4, <3>4
      <4> QED BY <2>2, <4>1, HandshakeSays
    <3> QED BY <1>6, <2>3, <3>1, <3>2, <3>3, <3>4 DEF Standing, Dead
  <2>5. CASE c \in Groups
    <3>1. CASE srv[c] = "in"
      <4>1. c \in Frame("group_list", In(Groups, {"in"})).convs
        BY <1>1, <1>2, <2>5, <3>1
      <4> QED BY <4>1, HandshakeSays
    <3>2. CASE srv[c] = "left"
      <4>1. c \in In(Groups, {"left"})
        BY <1>1, <2>5, <3>2
      <4> QED BY <2>2, <4>1, HandshakeSays
    <3>3. CASE srv[c] \in Dead
      <4>1. c \in In(Groups, Dead)
        BY <1>1, <2>5, <3>3
      <4> QED BY <2>2, <4>1, HandshakeSays
    <3> QED BY <1>6, <2>3, <2>5, <3>1, <3>2, <3>3 DEF Standing, Dead, KindInv
  <2>6. CASE c \in DMs
    <3>1. srv[c] \in {"in"} \cup Dead
      BY <1>6, <2>3, <2>6 DEF Standing, Dead, KindInv
    <3>2. c \in DMList.convs
      BY <1>1, <1>3, <2>6, <3>1
    <3> QED BY <3>2, HandshakeSays
  <2> QED BY <2>4, <2>5, <2>6 DEF Conv
<1> QED BY <1>5, <1>6

(* That list makes all that the standing wants.                            *)
LEMMA PlacedIsMade ==
  ASSUME NEW f, NEW c, c \in f.convs, Places(f, c), NEW goal \in Wanted(srv[c], c)
  PROVE  Makes(goal, f, c) /\ ~Breaks(goal, f, c)
<1>1. CASE srv[c] = "in" /\ c \in Rooms
  <2>1. goal \in {"row", "joined"} /\ f.type = "room_list"
    BY <1>1, WantedIs, Kinds DEF Places, Dead
  <2> QED BY <2>1 DEF Makes, Breaks, Stores, Joins, Leaves, Deletes
<1>2. CASE srv[c] = "in" /\ c \in Groups
  <2>1. goal \in {"row", "joined"} /\ f.type = "group_list"
    BY <1>2, WantedIs, Kinds DEF Places, Dead
  <2> QED BY <2>1 DEF Makes, Breaks, Stores, Joins, Leaves, Deletes
<1>3. CASE srv[c] = "in" /\ c \in DMs
  <2>1. goal \in {"row", "shown"} /\ f.type = "dm_list" /\ c \notin f.hidden
    BY <1>3, WantedIs, Kinds DEF Places, Dead
  <2> QED BY <2>1 DEF Makes, Breaks, Stores, Joins, Shows, Hides, Deletes
<1>4. CASE srv[c] = "left"
  <2>1. goal = "inactive" /\ f.type = "left_rooms"
    BY <1>4, WantedIs, Kinds DEF Places, Dead
  <2> QED BY <2>1 DEF Makes, Breaks, Stores, Joins, Retires, Leaves, Deletes
<1>5. CASE srv[c] = "retired"
  <2>1. goal \in {"row", "retired"} /\ f.type = "retired_rooms"
    BY <1>5, WantedIs, Kinds DEF Places, Dead
  <2> QED BY <2>1 DEF Makes, Breaks, Stores, Retires, Deletes
<1>6. CASE srv[c] \in Dead /\ c \in DMs
  <2>1. goal \in {"hidden", "purged"} /\ f.type = "dm_list" /\ c \in f.hidden
    BY <1>6, WantedIs, Kinds DEF Places, Dead
  <2> QED BY <2>1 DEF Makes, Breaks, Hides
<1>7. CASE srv[c] \in Dead /\ c \notin DMs
  <2>1. goal \in {"gone", "purged"} /\ f.type \in {"deleted_rooms", "deleted_groups"}
    BY <1>7, WantedIs, Kinds DEF Places, Dead
  <2> QED BY <2>1 DEF Makes, Breaks, Stores, Joins, Retires, Deletes
<1> QED BY <1>1, <1>2, <1>3, <1>4, <1>5, <1>6, <1>7 DEF Places

(* So a new connection owes the row everything, whatever the old one or a  *)
(* crash left on disk.                                                     *)
LEMMA DialInv ==
  ASSUME IInv, Dial
  PROVE  IInv'
<1>1. wire' = Handshake /\ up' = TRUE /\ UNCHANGED <<srv, asked, store, inbox>>
  BY DEF Dial, serverVars
<1>2. KindInv /\ KindInv' /\ StoreInv'
  BY <1>1 DEF IInv, KindInv, StoreInv
<1>3. /\ \A f \in Said(Handshake) : FrameInv(f, srv) /\ \A c \in f.convs : Places(f, c)
      /\ \A c \in Conv : srv[c] # "none" => \E f \in Said(Handshake) : c \in f.convs
  BY <1>2, HandshakeFrames
<1>4. WireInv'
  <2>1. PICK s : s = Handshake
    OBVIOUS
  <2>2. Queue(s) /\ \A n \in DOMAIN s : FrameInv(s[n], srv)
    BY <1>3, <2>1, HandshakeSays DEF Said
  <2> QED BY <1>1, <2>1, <2>2 DEF IInv, WireInv
<1>5. ASSUME NEW c \in Conv, NEW goal \in Wanted(srv[c], c)
      PROVE  Due(goal, store[c], Handshake, c)
  <2>1. srv[c] # "none"
    BY <1>5 DEF Wanted, Dead
  <2>2. PICK f \in Said(Handshake) : c \in f.convs
    BY <1>3, <2>1
  <2>3. Makes(goal, f, c)
    BY <1>3, <2>2, PlacedIsMade
  <2>4. ASSUME NEW g \in Said(Handshake) PROVE ~Breaks(goal, g, c)
    <3>1. CASE c \in g.convs
      BY <1>3, <3>1, PlacedIsMade
    <3>2. CASE c \notin g.convs
      BY <3>2 DEF Breaks
    <3> QED BY <3>1, <3>2
  <2> QED BY <2>2, <2>3, <2>4, Promised
<1> QED BY <1>1, <1>2, <1>4, <1>5 DEF IInv, DueInv

(* The steps of the TUI. One of them writes the store: showing group_list  *)
(* unarchives the groups it names, perhaps long after the readLoop stored  *)
(* it.                                                                     *)
LEMMA TookOne ==
  ASSUME IInv, NEW types, Take(types)
  PROVE  /\ UNCHANGED <<srv, asked, up, wire>>
         /\ Queue(inbox') /\ \A n \in DOMAIN inbox' : FrameInv(inbox'[n], srv)
         /\ FrameInv(Head(inbox), srv)
<1>1. inbox # <<>> /\ inbox' = Tail(inbox) /\ UNCHANGED <<srv, asked, up, wire>>
  BY DEF Take, serverVars, linkVars
<1>2. PICK k \in Nat \ {0} : k = Len(inbox)
  BY <1>1, Taken DEF IInv, WireInv
<1>3. /\ Queue(inbox') /\ DOMAIN inbox = 1..k /\ DOMAIN inbox' = 1..(k - 1) /\ Head(inbox) = inbox[1]
      /\ \A n \in 1..(k - 1) : inbox'[n] = inbox[n + 1]
  BY <1>1, <1>2, Taken DEF IInv, WireInv
<1>4. 1 \in 1..k /\ \A n \in 1..(k - 1) : n + 1 \in 1..k
  OBVIOUS
<1> QED BY <1>1, <1>3, <1>4 DEF IInv, WireInv

(* See TookOne. Nothing is wanted of a group left, so the stale write      *)
(* undoes nothing that is due.                                             *)
LEMMA ShowGroupListInv ==
  ASSUME IInv, ShowGroupList
  PROVE  IInv'
<1>1. /\ UNCHANGED <<srv, asked, up, wire>>
      /\ Queue(inbox') /\ \A n \in DOMAIN inbox' : FrameInv(inbox'[n], srv)
      /\ FrameInv(Head(inbox), srv)
  BY TookOne DEF ShowGroupList
<1>2. Head(inbox).type = "group_list" /\ store' = Unarchived
  BY DEF ShowGroupList, Take
<1>3. Named \subseteq Groups
  BY <1>1, <1>2 DEF FrameInv, Named, Suits, GroupTypes
<1>4. ASSUME NEW c \in Conv
      PROVE  store'[c] = store[c] \/ (c \in Groups /\ store'[c] = store[c] \ {"left"})
  <2>1. Exec(store[c], MarkGroupRejoined) \in {store[c], store[c] \ {"left"}}
    BY DEF Exec, MarkGroupRejoined, Update
  <2> QED BY <1>2, <1>3, <2>1 DEF Unarchived
<1>5. KindInv' /\ WireInv'
  BY <1>1 DEF IInv, KindInv, WireInv
<1>6. StoreInv'
  BY <1>1, <1>4 DEF IInv, StoreInv, OfRow
<1>7. DueInv'
  <2> SUFFICES ASSUME up, NEW c \in Conv, NEW goal \in Wanted(srv[c], c)
               PROVE  Due(goal, store'[c], wire, c)
    BY <1>1 DEF DueInv
  <2>1. Due(goal, store[c], wire, c)
    BY DEF IInv, DueInv
  <2>2. CASE store'[c] = store[c]
    BY <2>1, <2>2
  <2>3. CASE c \in Groups /\ store'[c] = store[c] \ {"left"}
    <3>1. goal \in Goals \ {"inactive"}
      BY <2>3, Kinds DEF Wanted, Goals
    <3>2. Holds(goal, store[c]) => Holds(goal, store'[c])
      BY <2>3, <3>1 DEF Holds, Goals
    <3> QED BY <2>1, <3>2, Repeated
  <2> QED BY <1>4, <2>2, <2>3
<1> QED BY <1>5, <1>6, <1>7 DEF IInv

(* See TookOne.                                                            *)
LEMMA ShowInv ==
  ASSUME IInv, Show
  PROVE  IInv'
<1>1. ASSUME NEW types, Take(types), UNCHANGED store PROVE IInv'
  BY <1>1, TookOne, StaysInv
<1> QED BY <1>1, ShowGroupListInv DEF Show, ShowRoomList, ShowDMList, ShowRoomAddedTo, ShowAdded, ShowLeft,
       ShowRetired, ShowDeleted, ShowOther

(* See TookOne.                                                            *)
LEMMA TUIInv ==
  ASSUME IInv, TUI \/ Start
  PROVE  IInv'
<1>1. ASSUME UNCHANGED <<srv, asked, up, wire, store>>, inbox' \in {inbox, <<>>}
      PROVE  IInv'
  BY <1>1, Nothing, StaysInv DEF IInv, WireInv
<1>2. CASE Hydrate \/ Attach \/ Detach \/ Start \/ \E c \in Conv : Open(c)
  <2>1. UNCHANGED <<srv, asked, up, wire, store>> /\ inbox' \in {inbox, <<>>}
    BY <1>2 DEF Hydrate, Attach, Detach, Start, Open, serverVars, linkVars, clientVars
  <2> QED BY <1>1, <2>1
<1>3. CASE RequestRoomMembers
  <2>1. /\ asked' \in {asked, asked \cup {pane.conv}}
        /\ asked' # asked => srv[pane.conv] = "in"
        /\ pane.conv \in Rooms
        /\ UNCHANGED <<srv, up, wire, store, inbox>>
    BY <1>3 DEF RequestRoomMembers, linkVars, clientVars
  <2>2. KindInv'
    BY <2>1 DEF IInv, KindInv
  <2> QED BY <2>1, <2>2 DEF IInv, WireInv, StoreInv, DueInv
<1> QED BY <1>2, <1>3, ShowInv DEF TUI

(* The invariant holds when the program starts, and every step keeps it.   *)
LEMMA InitInv ==
  ASSUME Init
  PROVE  IInv
BY Nothing, Kinds DEF Init, IInv, KindInv, WireInv, StoreInv, DueInv, Standing, Conv, OfRow

(* See InitInv.                                                            *)
LEMMA StepInv ==
  ASSUME IInv, [Next]_vars
  PROVE  IInv'
<1>1. CASE UNCHANGED vars
  BY <1>1 DEF vars, serverVars, linkVars, clientVars, IInv, KindInv, WireInv, StoreInv, DueInv
<1> QED BY <1>1, ServerInv, DialInv, ReadInv, QuitInv, CrashInv, TUIInv DEF Next, Link

(* The invariant holds of every behaviour of the specification.            *)
THEOREM Inductive == Spec => []IInv
BY InitInv, StepInv, PTL DEF Spec

(* Nothing under way: what is due is reached.                              *)
LEMMA Kept ==
  ASSUME IInv, Settled, NEW c \in Conv, NEW goal \in Wanted(srv[c], c)
  PROVE  Holds(goal, store[c])
BY Nothing DEF IInv, DueInv, Settled, Due

(* When all the server said was read, the store agrees with it: members of *)
(* a conversation have an open row, a room left is archived, a retired one *)
(* read-only, and the sidebar read back from the disk shows nothing        *)
(* deleted or unknown. It survives crashes inside handlers, lost           *)
(* connections and the write of the TUI.                                   *)
THEOREM StoreIsTheServers == Spec => []StoreMirrorsServer
<1>1. ASSUME IInv, Settled
      PROVE  /\ \A r \in Rooms :
                  /\ srv[r] = "in" => store[r] \cap {"row", "left", "retired"} = {"row"}
                  /\ srv[r] = "left" => ("row" \in store[r] => "left" \in store[r])
                  /\ srv[r] = "retired" => {"row", "retired"} \subseteq store[r]
             /\ \A g \in Groups : srv[g] = "in" => store[g] \cap {"row", "left"} = {"row"}
             /\ \A d \in DMs : srv[d] = "in" => store[d] \cap {"row", "hidden"} = {"row"}
             /\ \A c \in Conv : srv[c] \in Dead \cup {"none"} => c \notin Visible(Conv)
  <2>1. \A c \in Conv : \A goal \in Wanted(srv[c], c) : Holds(goal, store[c])
    BY <1>1, Kept
  <2>2. /\ \A flags : Holds("row", flags) => "row" \in flags
        /\ \A flags : Holds("joined", flags) => "left" \notin flags
        /\ \A flags : Holds("inactive", flags) => ("row" \in flags => "left" \in flags)
        /\ \A flags : Holds("retired", flags) => "retired" \in flags
        /\ \A flags : Holds("shown", flags) => "hidden" \notin flags
        /\ \A flags : Holds("hidden", flags) => ("row" \in flags => "hidden" \in flags)
        /\ \A flags : Holds("gone", flags) => "row" \notin flags
    BY DEF Holds
  <2>3. ASSUME NEW r \in Rooms, srv[r] = "in"
        PROVE  "row" \in store[r] /\ "left" \notin store[r] /\ "retired" \notin store[r]
    BY <1>1, <2>1, <2>2, <2>3, WantedIs, Kinds DEF IInv, StoreInv
  <2>4. ASSUME NEW r \in Rooms, srv[r] = "left" PROVE "row" \in store[r] => "left" \in store[r]
    BY <2>1, <2>2, <2>4, WantedIs, Kinds
  <2>5. ASSUME NEW r \in Rooms, srv[r] = "retired" PROVE {"row", "retired"} \subseteq store[r]
    BY <2>1, <2>2, <2>5, WantedIs, Kinds
  <2>6. ASSUME NEW g \in Groups, srv[g] = "in" PROVE "row" \in store[g] /\ "left" \notin store[g]
    BY <2>1, <2>2, <2>6, WantedIs, Kinds
  <2>7. ASSUME NEW d \in DMs, srv[d] = "in" PROVE "row" \in store[d] /\ "hidden" \notin store[d]
    BY <2>1, <2>2, <2>7, WantedIs, Kinds
  <2>8. ASSUME NEW c \in Conv, srv[c] \in Dead PROVE "row" \in store[c] => "hidden" \in store[c]
    BY <2>1, <2>2, <2>8, WantedIs, SMTT(30)
  <2>9. ASSUME NEW c \in Conv, srv[c] = "none" PROVE "row" \notin store[c]
    BY <1>1, <2>9 DEF IInv, StoreInv
  <2> QED BY <2>3, <2>4, <2>5, <2>6, <2>7, <2>8, <2>9 DEF Visible, Rows
<1>2. IInv => StoreMirrorsServer
  BY <1>1 DEF StoreMirrorsServer
<1> QED BY <1>2, Inductive, PTL

(* Then no message of a conversation the server deleted, or of a direct    *)
(* message this account left, is kept on disk.                             *)
THEOREM DeletedIsPurged == Spec => []DeletedHistoryIsGone
<1>1. ASSUME IInv, Settled, NEW c \in In(Conv, Dead) PROVE "msgs" \notin store[c]
  <2>1. c \in Conv /\ "purged" \in Wanted(srv[c], c)
    BY WantedIs DEF In
  <2>2. Holds("purged", store[c])
    BY <1>1, <2>1, Kept
  <2> QED BY <2>2 DEF Holds
<1>2. IInv => DeletedHistoryIsGone
  BY <1>1 DEF DeletedHistoryIsGone
<1> QED BY <1>2, Inductive, PTL

(* The TUI handles frames only on a connection of its own.                 *)
LinkInv == /\ up => ui \in {"dialled", "attached"}
           /\ ui \notin {"dialled", "attached"} => inbox = <<>>
           /\ ~up => wire = <<>> /\ asked = {}

(* Read-only is for ever on the screen too.                                *)
SealInv == /\ \A r \in barred : srv[r] \in {"retired", "buried"}
           /\ pane.retired => pane.conv \in Rooms /\ srv[pane.conv] \in {"retired", "buried"}

(* What needs no connection.                                               *)
Ground == TypeOK /\ LinkInv /\ SealInv

(* The frames that are sent are frames.                                    *)
LEMMA FrameTyped ==
  ASSUME NEW type \in FrameTypes, NEW S, S \subseteq Conv
  PROVE  Frame(type, S) \in Frames
BY DEF Frame, Frames

(* The handshake is a sequence of frames.                                  *)
LEMMA HandshakeTyped ==
  Handshake \in Seq(Frames)
<1>1. In(Rooms, {"in"}) \subseteq Conv /\ In(Groups, {"in"}) \subseteq Conv
      /\ In(DMs, Dead) \subseteq DMs /\ In(DMs, {"in"} \cup Dead) \subseteq Conv
      /\ \A st : In(Rooms, st) \subseteq Conv /\ In(Groups, st) \subseteq Conv
  BY Kinds DEF In
<1>2. DMList \in Frames
  BY <1>1 DEF DMList, Frames, FrameTypes
<1>3. \A type \in FrameTypes : \A S \in SUBSET Conv :
        Frame(type, S) \in Frames /\ Said(ListFrame(type, S)) \subseteq Frames
  BY FrameTyped, Listing
<1>4. Said(Handshake) \subseteq Frames
  BY <1>1, <1>2, <1>3, HandshakeSays DEF FrameTypes
<1>5. PICK s : s = Handshake
  OBVIOUS
<1>6. Queue(s) /\ Said(s) \subseteq Frames
  BY <1>4, <1>5, HandshakeSays
<1>7. s \in Seq(Frames)
  BY <1>6 DEF Queue, Said
<1> QED BY <1>5, <1>7

(* A step of the server keeps the types.                                   *)
LEMMA ServerTyped ==
  ASSUME TypeOK, Server
  PROVE  TypeOK'
<1>1. ASSUME NEW c \in Conv, NEW standing \in Standing, NEW type \in FrameTypes, Decide(c, standing, type)
      PROVE  TypeOK'
  <2>1. PICK f \in Frames : f = Frame(type, {c})
    BY FrameTyped
  <2>2. wire' \in Seq(Frames)
    BY <1>1, <2>1 DEF Decide, TypeOK
  <2>3. srv' \in [Conv -> Standing] /\ ops' \in 0..MaxOps
    BY <1>1, KindsDisjoint DEF Decide, TypeOK
  <2> QED BY <1>1, <2>2, <2>3 DEF Decide, TypeOK, linkVars, clientVars, sidebarVars
<1>2. ASSUME NEW r \in Rooms, AnswerRoomMembers(r) PROVE TypeOK'
  <2>1. PICK f \in Frames : f = Frame("room_members_list", {r})
    BY FrameTyped, Kinds DEF FrameTypes
  <2>2. wire' \in Seq(Frames) /\ asked' \subseteq Rooms
    BY <1>2, <2>1 DEF AnswerRoomMembers, TypeOK
  <2> QED BY <1>2, <2>2 DEF AnswerRoomMembers, TypeOK, linkVars, clientVars, sidebarVars
<1>3. /\ {"in", "left", "retired", "deleted", "buried"} \subseteq Standing
      /\ {"room_added_to", "room_left", "room_retired", "room_deleted", "group_created", "group_added_to",
          "group_left", "group_deleted", "dm_created", "dm_left", "message"} \subseteq FrameTypes
  BY DEF Standing, FrameTypes
<1>4. ASSUME NEW r \in Rooms, AddToRoom(r) \/ LeaveRoom(r) \/ RetireRoom(r) \/ DeleteRoom(r)
      PROVE  TypeOK'
  <2>1. \E st \in Standing, type \in FrameTypes : Decide(r, st, type)
    BY <1>3, <1>4 DEF AddToRoom, LeaveRoom, RetireRoom, DeleteRoom
  <2> QED BY <1>1, <2>1, Kinds
<1>5. ASSUME NEW g \in Groups, CreateGroup(g) \/ AddToGroup(g) \/ LeaveGroup(g) \/ DeleteGroup(g)
      PROVE  TypeOK'
  <2>1. \E st \in Standing, type \in FrameTypes : Decide(g, st, type)
    BY <1>3, <1>5 DEF CreateGroup, AddToGroup, LeaveGroup, DeleteGroup
  <2> QED BY <1>1, <2>1, Kinds
<1>6. ASSUME NEW d \in DMs, CreateDM(d) \/ LeaveDM(d) PROVE TypeOK'
  <2>1. \E st \in Standing, type \in FrameTypes : Decide(d, st, type)
    BY <1>3, <1>6 DEF CreateDM, LeaveDM
  <2> QED BY <1>1, <2>1, Kinds
<1>7. ASSUME NEW c \in Conv, Post(c) PROVE TypeOK'
  BY <1>1, <1>3, <1>7 DEF Post
<1> QED BY <1>2, <1>4, <1>5, <1>6, <1>7 DEF Server

(* The pane that is opened or synced.                                      *)
LEMMA OpenedTyped ==
  /\ \A c \in Conv : Opened(c) \in [conv: Conv \cup {NoConv}, left: BOOLEAN, retired: BOOLEAN]
  /\ pane.conv \in Conv \cup {NoConv} => Synced \in [conv: Conv \cup {NoConv}, left: BOOLEAN, retired: BOOLEAN]
  /\ NoPane \in [conv: Conv \cup {NoConv}, left: BOOLEAN, retired: BOOLEAN]
<1>1. ASSUME NEW c \in Conv
      PROVE  Opened(c) \in [conv: Conv \cup {NoConv}, left: BOOLEAN, retired: BOOLEAN]
  <2>1. (c \in Rooms \cup Groups /\ "left" \in store[c]) \in BOOLEAN
        /\ (c \in Rooms /\ "retired" \in store[c]) \in BOOLEAN
    OBVIOUS
  <2> QED BY <2>1 DEF Opened
<1>2. NoPane \in [conv: Conv \cup {NoConv}, left: BOOLEAN, retired: BOOLEAN]
  BY DEF NoPane
<1> QED BY <1>1, <1>2 DEF Synced

(* A step of the link keeps the types.                                     *)
LEMMA LinkTyped ==
  ASSUME IInv, IInv', TypeOK, Link
  PROVE  TypeOK'
<1>0. \A c \in Conv : store'[c] \subseteq Flags
  BY DEF IInv, StoreInv, KindFlags, Flags
<1>1. CASE Dial
  <2>1. wire' \in Seq(Frames) /\ dials' \in 0..MaxDials /\ welcome' \subseteq Rooms
        /\ roster' \subseteq Rooms \cup Groups
    BY <1>1, HandshakeTyped, KindsDisjoint DEF Dial, TypeOK, In, HydratedRoster
  <2> QED BY <1>1, <2>1 DEF Dial, TypeOK, serverVars, sidebarVars
<1>2. CASE ReadFrame
  <2>1. Head(wire) \in Frames /\ wire' \in Seq(Frames) /\ inbox' \in Seq(Frames)
    BY <1>2 DEF ReadFrame, TypeOK
  <2>2. PICK f : f = Head(wire)
    OBVIOUS
  <2>3. store' \in [Conv -> SUBSET Flags]
    <3>1. store' = [c \in Conv |-> store'[c]]
      BY <1>2 DEF ReadFrame, Stored
    <3> QED BY <1>0, <3>1
  <2>4. roster' \subseteq Rooms \cup Groups
    <3>1. FrameInv(f, srv)
      BY <1>2, <2>2, Taken DEF ReadFrame, IInv, WireInv
    <3>2. f.type \in RoomTypes \cup GroupTypes => f.convs \subseteq Rooms \cup Groups
      BY <3>1 DEF FrameInv, Suits
    <3>3. roster' = RosterAfter(f)
      BY <1>2, <2>2 DEF ReadFrame
    <3>4. roster' \subseteq roster \cup f.convs
      BY <3>3 DEF RosterAfter
    <3>5. f.type \notin RoomTypes \cup GroupTypes => roster' = roster
      BY <3>3 DEF RosterAfter, RoomTypes, GroupTypes
    <3> QED BY <3>2, <3>4, <3>5 DEF TypeOK
  <2> QED BY <1>2, <2>1, <2>3, <2>4 DEF ReadFrame, TypeOK, serverVars, linkVars, sidebarVars
<1>3. CASE Drop
  <2>1. <<>> \in Seq(Frames)
    BY EmptySeq
  <2> QED BY <1>3, <2>1 DEF Drop, TypeOK, clientVars, sidebarVars
<1>4. ASSUME NEW db \in [Conv -> SUBSET Flags], Stop(db) PROVE TypeOK'
  <2>1. <<>> \in Seq(Frames) /\ NoPane \in [conv: Conv \cup {NoConv}, left: BOOLEAN, retired: BOOLEAN]
    BY EmptySeq, OpenedTyped
  <2> QED BY <1>4, <2>1 DEF Stop, TypeOK
<1>5. CASE CrashInHandler
  <2>1. PICK f, done, c, n : Stop(StoredUpTo(f, done, c, n))
    BY <1>5 DEF CrashInHandler
  <2>2. StoredUpTo(f, done, c, n) \in [Conv -> SUBSET Flags]
    <3>1. store' = StoredUpTo(f, done, c, n)
      BY <2>1 DEF Stop
    <3>2. store' = [d \in Conv |-> store'[d]]
      BY <3>1 DEF StoredUpTo
    <3> QED BY <1>0, <3>1, <3>2
  <2> QED BY <1>4, <2>1, <2>2
<1>6. CASE Start
  BY <1>6 DEF Start, TypeOK, serverVars, linkVars, clientVars, sidebarVars
<1>7. CASE Quit
  BY <1>4, <1>7 DEF Quit, TypeOK
<1> QED BY <1>1, <1>2, <1>3, <1>5, <1>6, <1>7 DEF Link

(* A step of the TUI keeps the types.                                      *)
LEMMA TUITyped ==
  ASSUME IInv, IInv', TypeOK, TUI
  PROVE  TypeOK'
<1>1. pane.conv \in Conv \cup {NoConv}
  BY DEF TypeOK
<1>2. CASE Hydrate
  <2>1. /\ Rows(Rooms) \subseteq Rooms /\ Rows(Groups) \subseteq Groups /\ Visible(DMs) \subseteq DMs
        /\ Left(Rooms) \subseteq Rooms /\ Left(Groups) \subseteq Groups /\ Retired(Rooms) \subseteq Rooms
    BY DEF Rows, Visible, Left, Retired
  <2>2. pane' \in [conv: Conv \cup {NoConv}, left: BOOLEAN, retired: BOOLEAN]
    BY <1>2, <2>1, OpenedTyped, Kinds DEF Hydrate, TypeOK
  <2> QED BY <1>2, <2>1, <2>2 DEF Hydrate, TypeOK, serverVars, linkVars, HydratedRoster, Conv
<1>3. CASE Attach
  <2>1. pane' \in [conv: Conv \cup {NoConv}, left: BOOLEAN, retired: BOOLEAN]
    BY <1>3, OpenedTyped, Kinds DEF Attach, TypeOK
  <2> QED BY <1>3, <2>1, Kinds DEF Attach, TypeOK, serverVars, linkVars, clientVars
<1>4. CASE Detach
  BY <1>4 DEF Detach, TypeOK, serverVars, linkVars, clientVars, sidebarVars
<1>5. CASE RequestRoomMembers
  <2>1. ops' \in 0..MaxOps
    BY <1>5, KindsDisjoint DEF RequestRoomMembers, TypeOK
  <2> QED BY <1>5, <2>1 DEF RequestRoomMembers, TypeOK, linkVars, clientVars, sidebarVars
<1>6. CASE \E c \in Conv : Open(c)
  BY <1>6, OpenedTyped DEF Open, TypeOK, serverVars, linkVars, clientVars, sidebarVars
<1>7. CASE Show
  <2>1. \E types : Take(types)
    BY <1>7 DEF Show, ShowRoomList, ShowGroupList, ShowDMList, ShowRoomAddedTo, ShowAdded, ShowLeft, ShowRetired, ShowDeleted, ShowOther
  <2>2. /\ inbox' \in Seq(Frames) /\ inbox # <<>>
        /\ UNCHANGED <<serverVars, linkVars, wire, roster, ui>>
    BY <2>1 DEF Take, TypeOK
  <2>3. FrameInv(Head(inbox), srv)
    BY <2>1, TookOne
  <2>4. store' \in [Conv -> SUBSET Flags]
    <3>1. store' = store \/ store' = [c \in Conv |-> store'[c]]
      BY <1>7 DEF Show, ShowRoomList, ShowGroupList, ShowDMList, ShowRoomAddedTo, ShowAdded, ShowLeft, ShowRetired, ShowDeleted, ShowOther, Unarchived
    <3>2. \A c \in Conv : store'[c] \subseteq Flags
      BY DEF IInv, StoreInv, KindFlags, Flags
    <3> QED BY <3>1, <3>2 DEF TypeOK
  <2>5. pane' \in [conv: Conv \cup {NoConv}, left: BOOLEAN, retired: BOOLEAN]
    <3>1. \/ pane' = pane \/ pane' = Synced \/ pane' = NoPane
          \/ pane' = [pane EXCEPT !.left = TRUE] \/ pane' = [pane EXCEPT !.retired = TRUE]
      BY <1>7 DEF Show, ShowRoomList, ShowGroupList, ShowDMList, ShowRoomAddedTo, ShowAdded, ShowLeft, ShowRetired, ShowDeleted, ShowOther
    <3> QED BY <1>1, <3>1, OpenedTyped DEF TypeOK
  <2>6. /\ Named \subseteq Conv
        /\ Head(inbox).type \in RoomTypes => Named \subseteq Rooms
        /\ Head(inbox).type \in GroupTypes => Named \subseteq Groups
    BY <2>3 DEF FrameInv, Suits, Named
  <2>7. listed' \subseteq Conv /\ grey' \subseteq Rooms \cup Groups /\ barred' \subseteq Rooms
    <3>1. \A S : Left(S) \subseteq S /\ Retired(S) \subseteq S
      BY DEF Left, Retired
    <3>2. CASE ShowRoomList
      <4>1. Named \subseteq Rooms
        BY <2>6, <3>2 DEF ShowRoomList, Take, RoomTypes
      <4> QED BY <3>1, <3>2, <4>1, Kinds DEF ShowRoomList, TypeOK
    <3>3. CASE ShowGroupList
      <4>1. Named \subseteq Groups
        BY <2>6, <3>3 DEF ShowGroupList, Take, GroupTypes
      <4> QED BY <3>3, <4>1, Kinds DEF ShowGroupList, TypeOK
    <3>4. CASE ShowLeft
      <4>1. Named \subseteq Rooms \cup Groups
        BY <2>6, <3>4 DEF ShowLeft, Take, RoomTypes, GroupTypes
      <4> QED BY <3>4, <4>1 DEF ShowLeft, TypeOK
    <3>5. CASE ShowRetired
      <4>1. Named \subseteq Rooms
        BY <2>6, <3>5 DEF ShowRetired, Take, RoomTypes
      <4> QED BY <3>5, <4>1 DEF ShowRetired, TypeOK
    <3>6. CASE ShowDMList \/ ShowRoomAddedTo \/ ShowAdded \/ ShowDeleted \/ ShowOther
      BY <2>6, <3>6 DEF ShowDMList, ShowRoomAddedTo, ShowAdded, ShowDeleted, ShowOther, TypeOK, sidebarVars
    <3> QED BY <1>7, <3>2, <3>3, <3>4, <3>5, <3>6 DEF Show
  <2> QED BY <2>2, <2>4, <2>5, <2>7 DEF TypeOK, serverVars, linkVars
<1> QED BY <1>2, <1>3, <1>4, <1>5, <1>6, <1>7 DEF TUI

(* Every step keeps the types.                                             *)
LEMMA TypedStep ==
  ASSUME IInv, IInv', TypeOK, [Next]_vars
  PROVE  TypeOK'
<1>1. CASE UNCHANGED vars
  BY <1>1 DEF vars, serverVars, linkVars, clientVars, sidebarVars, TypeOK
<1> QED BY <1>1, ServerTyped, LinkTyped, TUITyped DEF Next

(* The initial state has the types.                                        *)
LEMMA TypedInit ==
  ASSUME Init
  PROVE  TypeOK
<1>1. <<>> \in Seq(Frames) /\ NoPane \in [conv: Conv \cup {NoConv}, left: BOOLEAN, retired: BOOLEAN]
  BY EmptySeq, OpenedTyped
<1>2. [c \in Conv |-> "none"] \in [Conv -> Standing] /\ [c \in Conv |-> {}] \in [Conv -> SUBSET Flags]
      /\ 0 \in 0..MaxOps /\ 0 \in 0..MaxDials /\ "closed" \in {"closed", "cold", "dialled", "attached", "detached"}
  BY KindsDisjoint DEF Standing
<1> QED BY <1>1, <1>2 DEF Init, TypeOK

(* The types of the frames that announce a decision or answer a request.   *)
LiveTypes == {"room_added_to", "room_left", "room_retired", "room_deleted", "room_members_list",
              "group_created", "group_added_to", "group_left", "group_deleted",
              "dm_created", "dm_left", "message"}

(* What the server decides of c and says with f.                           *)
Decided(f, c) ==
  \/ f.type = "room_added_to"  /\ c \in Rooms  /\ srv[c] \in {"none", "left", "deleted"} /\ srv'[c] = "in"
  \/ f.type = "room_left"      /\ c \in Rooms  /\ srv[c] = "in" /\ srv'[c] = "left"
  \/ f.type = "room_retired"   /\ c \in Rooms  /\ srv[c] = "in" /\ srv'[c] = "retired"
  \/ f.type = "room_deleted"   /\ c \in Rooms  /\ srv[c] \in {"in", "left"} /\ srv'[c] = "deleted"
  \/ f.type = "room_deleted"   /\ c \in Rooms  /\ srv[c] = "retired" /\ srv'[c] = "buried"
  \/ f.type = "room_members_list" /\ c \in Rooms /\ c \in asked /\ srv'[c] = srv[c]
  \/ f.type = "group_created"  /\ c \in Groups /\ srv[c] = "none" /\ srv'[c] = "in"
  \/ f.type = "group_added_to" /\ c \in Groups /\ srv[c] \in {"none", "left", "deleted"} /\ srv'[c] = "in"
  \/ f.type = "group_left"     /\ c \in Groups /\ srv[c] = "in" /\ srv'[c] = "left"
  \/ f.type = "group_deleted"  /\ c \in Groups /\ srv[c] \in {"in", "left"} /\ srv'[c] = "deleted"
  \/ f.type = "dm_created"     /\ c \in DMs    /\ srv[c] \in {"none", "deleted"} /\ srv'[c] = "in"
  \/ f.type = "dm_left"        /\ c \in DMs    /\ srv[c] = "in" /\ srv'[c] = "deleted"
  \/ f.type = "message"        /\ c \in Conv   /\ srv[c] = "in" /\ srv'[c] = "in"

(* The step of the server that decides it.                                 *)
Saying(f, c) ==
  /\ Decided(f, c) /\ f.type \in LiveTypes /\ f.convs = {c}
  /\ \A d \in Conv : d # c => srv'[d] = srv[d]
  /\ wire' = IF up THEN Append(wire, f) ELSE wire
  /\ asked' \subseteq asked
  /\ UNCHANGED <<up, dials, welcome, store, roster, inbox, ui, listed, grey, barred, pane>>

(* Every step of the server is one decision about one conversation, and    *)
(* sends the frame that names it.                                          *)
LEMMA ServerSays ==
  ASSUME TypeOK, Server
  PROVE  \E f \in Frames, c \in Conv : Saying(f, c)
<1>1. ASSUME NEW c \in Conv, NEW standing, NEW type \in LiveTypes,
             Decide(c, standing, type),
             \A f : f.type = type /\ srv'[c] = standing => Decided(f, c)
      PROVE  \E f \in Frames, d \in Conv : Saying(f, d)
  <2>1. PICK f \in Frames : f = Frame(type, {c})
    BY FrameTyped DEF LiveTypes, FrameTypes
  <2>2. f.type = type /\ f.convs = {c}
    BY <2>1, NamesOnly
  <2>3. srv'[c] = standing /\ \A d \in Conv : d # c => srv'[d] = srv[d]
    BY <1>1 DEF Decide, TypeOK
  <2>4. Saying(f, c)
    BY <1>1, <2>1, <2>2, <2>3 DEF Decide, Saying, linkVars, clientVars, sidebarVars
  <2> QED BY <2>4
<1>2. ASSUME NEW r \in Rooms, AnswerRoomMembers(r)
      PROVE  \E f \in Frames, d \in Conv : Saying(f, d)
  <2>1. PICK f \in Frames : f = Frame("room_members_list", {r})
    BY FrameTyped, Kinds DEF FrameTypes
  <2>2. f.type = "room_members_list" /\ f.convs = {r}
    BY <2>1, NamesOnly
  <2>3. Decided(f, r)
    BY <1>2, <2>2 DEF AnswerRoomMembers, Decided
  <2>4. Saying(f, r)
    BY <1>2, <2>1, <2>2, <2>3 DEF AnswerRoomMembers, Saying, linkVars, clientVars, sidebarVars, LiveTypes
  <2> QED BY <2>4, Kinds
<1>3. ASSUME NEW r \in Rooms, AddToRoom(r) \/ LeaveRoom(r) \/ RetireRoom(r) \/ DeleteRoom(r)
      PROVE  \E f \in Frames, d \in Conv : Saying(f, d)
  <2>0. r \in Conv
    BY Kinds
  <2>1. CASE AddToRoom(r)
    <3>1. "room_added_to" \in LiveTypes /\ \A f : f.type = "room_added_to" /\ srv'[r] = "in" => Decided(f, r)
      BY <1>3, <2>1 DEF AddToRoom, Decided, LiveTypes
    <3>2. Decide(r, "in", "room_added_to")
      BY <2>1 DEF AddToRoom
    <3> QED BY <1>1, <2>0, <3>1, <3>2
  <2>2. CASE LeaveRoom(r)
    <3>1. "room_left" \in LiveTypes /\ \A f : f.type = "room_left" /\ srv'[r] = "left" => Decided(f, r)
      BY <1>3, <2>2 DEF LeaveRoom, Decided, LiveTypes
    <3>2. Decide(r, "left", "room_left")
      BY <2>2 DEF LeaveRoom
    <3> QED BY <1>1, <2>0, <3>1, <3>2
  <2>3. CASE RetireRoom(r)
    <3>1. "room_retired" \in LiveTypes /\ \A f : f.type = "room_retired" /\ srv'[r] = "retired" => Decided(f, r)
      BY <1>3, <2>3 DEF RetireRoom, Decided, LiveTypes
    <3>2. Decide(r, "retired", "room_retired")
      BY <2>3 DEF RetireRoom
    <3> QED BY <1>1, <2>0, <3>1, <3>2
  <2>4. CASE DeleteRoom(r)
    <3>1. PICK st : st = (IF srv[r] = "retired" THEN "buried" ELSE "deleted") /\ Decide(r, st, "room_deleted")
                    /\ srv[r] \in {"in", "left", "retired"}
      BY <2>4 DEF DeleteRoom
    <3>2. "room_deleted" \in LiveTypes /\ \A f : f.type = "room_deleted" /\ srv'[r] = st => Decided(f, r)
      BY <3>1 DEF Decided, LiveTypes
    <3> QED BY <1>1, <2>0, <3>1, <3>2
  <2> QED BY <1>3, <2>1, <2>2, <2>3, <2>4
<1>4. ASSUME NEW g \in Groups, CreateGroup(g) \/ AddToGroup(g) \/ LeaveGroup(g) \/ DeleteGroup(g)
      PROVE  \E f \in Frames, d \in Conv : Saying(f, d)
  <2>0. g \in Conv
    BY Kinds
  <2>1. CASE CreateGroup(g)
    <3>1. "group_created" \in LiveTypes /\ \A f : f.type = "group_created" /\ srv'[g] = "in" => Decided(f, g)
      BY <1>4, <2>1 DEF CreateGroup, Decided, LiveTypes
    <3>2. Decide(g, "in", "group_created")
      BY <2>1 DEF CreateGroup
    <3> QED BY <1>1, <2>0, <3>1, <3>2
  <2>2. CASE AddToGroup(g)
    <3>1. "group_added_to" \in LiveTypes /\ \A f : f.type = "group_added_to" /\ srv'[g] = "in" => Decided(f, g)
      BY <1>4, <2>2 DEF AddToGroup, Decided, LiveTypes
    <3>2. Decide(g, "in", "group_added_to")
      BY <2>2 DEF AddToGroup
    <3> QED BY <1>1, <2>0, <3>1, <3>2
  <2>3. CASE LeaveGroup(g)
    <3>1. "group_left" \in LiveTypes /\ \A f : f.type = "group_left" /\ srv'[g] = "left" => Decided(f, g)
      BY <1>4, <2>3 DEF LeaveGroup, Decided, LiveTypes
    <3>2. Decide(g, "left", "group_left")
      BY <2>3 DEF LeaveGroup
    <3> QED BY <1>1, <2>0, <3>1, <3>2
  <2>4. CASE DeleteGroup(g)
    <3>1. "group_deleted" \in LiveTypes /\ \A f : f.type = "group_deleted" /\ srv'[g] = "deleted" => Decided(f, g)
      BY <1>4, <2>4 DEF DeleteGroup, Decided, LiveTypes
    <3>2. Decide(g, "deleted", "group_deleted")
      BY <2>4 DEF DeleteGroup
    <3> QED BY <1>1, <2>0, <3>1, <3>2
  <2> QED BY <1>4, <2>1, <2>2, <2>3, <2>4
<1>5. ASSUME NEW e \in DMs, CreateDM(e) \/ LeaveDM(e)
      PROVE  \E f \in Frames, d \in Conv : Saying(f, d)
  <2>0. e \in Conv
    BY Kinds
  <2>1. CASE CreateDM(e)
    <3>1. "dm_created" \in LiveTypes /\ \A f : f.type = "dm_created" /\ srv'[e] = "in" => Decided(f, e)
      BY <1>5, <2>1 DEF CreateDM, Decided, LiveTypes
    <3>2. Decide(e, "in", "dm_created")
      BY <2>1 DEF CreateDM
    <3> QED BY <1>1, <2>0, <3>1, <3>2
  <2>2. CASE LeaveDM(e)
    <3>1. "dm_left" \in LiveTypes /\ \A f : f.type = "dm_left" /\ srv'[e] = "deleted" => Decided(f, e)
      BY <1>5, <2>2 DEF LeaveDM, Decided, LiveTypes
    <3>2. Decide(e, "deleted", "dm_left")
      BY <2>2 DEF LeaveDM
    <3> QED BY <1>1, <2>0, <3>1, <3>2
  <2> QED BY <1>5, <2>1, <2>2
<1>6. ASSUME NEW c \in Conv, Post(c)
      PROVE  \E f \in Frames, d \in Conv : Saying(f, d)
  <2>1. CASE Post(c)
    <3>1. "message" \in LiveTypes /\ \A f : f.type = "message" /\ srv'[c] = "in" => Decided(f, c)
      BY <1>6, <2>1 DEF Post, Decided, LiveTypes
    <3>2. Decide(c, "in", "message")
      BY <2>1 DEF Post
    <3> QED BY <1>1, <3>1, <3>2
  <2> QED BY <1>6, <2>1
<1> QED BY <1>2, <1>3, <1>4, <1>5, <1>6 DEF Server

(* Only the server moves.                                                  *)
LEMMA OnlyServer ==
  ASSUME TypeOK, Link \/ TUI
  PROVE  srv' = srv
BY DEF Link, TUI, Dial, ReadFrame, Drop, CrashInHandler, Start, Quit, Stop, Hydrate, Attach, Detach, Open,
   RequestRoomMembers, Show, ShowRoomList, ShowGroupList, ShowDMList, ShowRoomAddedTo, ShowAdded, ShowLeft,
   ShowRetired, ShowDeleted, ShowOther, Take, serverVars

(* Every step keeps what is known of the connection: only an attached or   *)
(* dialled TUI has frames waiting.                                         *)
LEMMA LinkStep ==
  ASSUME IInv, TypeOK, LinkInv, Next
  PROVE  LinkInv'
<1>1. CASE Server
  <2>1. PICK f, c : Saying(f, c)
    BY <1>1, ServerSays
  <2> QED BY <2>1 DEF Saying, LinkInv
<1>2. CASE Link
  <2>1. CASE Dial \/ Drop \/ Start \/ Quit \/ CrashInHandler
    BY <2>1 DEF Dial, Drop, Start, Quit, CrashInHandler, Stop, LinkInv, linkVars, serverVars
  <2>2. CASE ReadFrame
    BY <2>2 DEF ReadFrame, LinkInv, linkVars
  <2> QED BY <1>2, <2>1, <2>2 DEF Link
<1>3. CASE TUI
  <2>1. CASE Hydrate \/ Attach \/ Detach \/ RequestRoomMembers \/ \E c \in Conv : Open(c)
    BY <2>1 DEF Hydrate, Attach, Detach, RequestRoomMembers, Open, LinkInv, linkVars, serverVars
  <2>2. CASE Show
    <3>1. \E types : Take(types)
      BY <2>2 DEF Show, ShowRoomList, ShowGroupList, ShowDMList, ShowRoomAddedTo, ShowAdded, ShowLeft, ShowRetired, ShowDeleted, ShowOther
    <3> QED BY <3>1 DEF Take, LinkInv, linkVars, serverVars
  <2> QED BY <1>3, <2>1, <2>2 DEF TUI
<1> QED BY <1>1, <1>2, <1>3 DEF Next

(* Every step keeps the seal: nothing but a deletion takes a room out of   *)
(* its retirement.                                                         *)
LEMMA SealStep ==
  ASSUME IInv, TypeOK, SealInv, Next
  PROVE  SealInv'
<1>0. \A r \in Rooms : "retired" \in store[r] => srv[r] \in {"retired", "buried"}
  BY Kinds DEF IInv, StoreInv
<1>1. CASE Server
  <2>1. PICK f \in Frames, c \in Conv : Saying(f, c)
    BY <1>1, ServerSays
  <2>2. \A r \in Rooms : srv[r] \in {"retired", "buried"} => srv'[r] \in {"retired", "buried"}
    BY <2>1, Kinds DEF Saying, Decided
  <2> QED BY <2>1, <2>2 DEF Saying, SealInv, TypeOK
<1>2. ASSUME srv' = srv, \A r \in barred' : r \in barred \/ (r \in Rooms /\ srv[r] \in {"retired", "buried"}),
             \/ pane' \in {pane, NoPane, Synced, [pane EXCEPT !.left = TRUE]}
             \/ \E c \in Conv : pane' = Opened(c)
             \/ pane' = [pane EXCEPT !.retired = TRUE] /\ pane.conv \in Rooms /\ srv[pane.conv] \in {"retired", "buried"}
      PROVE  SealInv'
  <2>1. \A c \in Conv : Opened(c).retired => Opened(c).conv \in Rooms /\ srv[Opened(c).conv] \in {"retired", "buried"}
    BY <1>0 DEF Opened
  <2>2. Synced.retired => Synced.conv \in Rooms /\ srv[Synced.conv] \in {"retired", "buried"}
    BY <2>1 DEF Synced, NoPane, TypeOK
  <2>3. pane'.retired => pane'.conv \in Rooms /\ srv[pane'.conv] \in {"retired", "buried"}
    <3>1. CASE pane' \in {pane, NoPane, Synced, [pane EXCEPT !.left = TRUE]}
      BY <2>2, <3>1 DEF SealInv, NoPane, TypeOK
    <3>2. CASE \E c \in Conv : pane' = Opened(c)
      BY <2>1, <3>2
    <3>3. CASE pane' = [pane EXCEPT !.retired = TRUE] /\ pane.conv \in Rooms /\ srv[pane.conv] \in {"retired", "buried"}
      BY <3>3 DEF TypeOK
    <3> QED BY <1>2, <3>1, <3>2, <3>3
  <2> QED BY <1>2, <2>3 DEF SealInv
<1>3. CASE Link
  <2>1. srv' = srv /\ (barred' = barred \/ barred' = {}) /\ pane' \in {pane, NoPane}
    BY <1>3 DEF Link, Dial, Drop, Start, Quit, CrashInHandler, Stop, ReadFrame, serverVars, sidebarVars
  <2> QED BY <1>2, <2>1
<1>4. CASE TUI
  <2>0. srv' = srv
    BY <1>4, OnlyServer
  <2>a. \A S : \A r \in Retired(S) : r \in S /\ "retired" \in store[r]
    BY DEF Retired
  <2>1. CASE Hydrate
    <3>1. \A r \in barred' : r \in barred \/ (r \in Rooms /\ srv[r] \in {"retired", "buried"})
      BY <1>0, <2>1, <2>a DEF Hydrate
    <3>2. pane' = pane \/ \E c \in Conv : pane' = Opened(c)
      BY <2>1, Kinds DEF Hydrate, Rows
    <3> QED BY <1>2, <2>0, <3>1, <3>2
  <2>2. CASE Attach
    <3>1. barred' = barred /\ (pane' = pane \/ \E c \in Conv : pane' = Opened(c))
      BY <2>2, Kinds DEF Attach, TypeOK
    <3> QED BY <1>2, <2>0, <3>1
  <2>3. CASE Detach \/ RequestRoomMembers
    <3>1. barred' = barred /\ pane' = pane
      BY <2>3 DEF Detach, RequestRoomMembers, sidebarVars
    <3> QED BY <1>2, <2>0, <3>1
  <2>4. CASE \E c \in Conv : Open(c)
    <3>1. barred' = barred /\ \E c \in Conv : pane' = Opened(c)
      BY <2>4 DEF Open, sidebarVars
    <3> QED BY <1>2, <2>0, <3>1
  <2>5. CASE ShowRoomList
    <3>1. Named \subseteq Rooms
      <4>1. FrameInv(Head(inbox), srv) /\ Head(inbox).type = "room_list"
        BY <2>5, TookOne DEF ShowRoomList, Take
      <4> QED BY <4>1 DEF FrameInv, Suits, RoomTypes, Named
    <3>2. \A r \in barred' : r \in barred \/ (r \in Rooms /\ srv[r] \in {"retired", "buried"})
      BY <1>0, <2>5, <2>a, <3>1 DEF ShowRoomList, Left
    <3>3. pane' = Synced
      BY <2>5 DEF ShowRoomList
    <3> QED BY <1>2, <2>0, <3>2, <3>3
  <2>6. CASE ShowRetired
    <3>1. Named \subseteq Rooms /\ \A r \in Named : srv[r] \in {"retired", "buried"}
      <4>1. FrameInv(Head(inbox), srv) /\ Head(inbox).type \in Retires
        BY <2>6, TookOne DEF ShowRetired, Take, Retires
      <4> QED BY <4>1 DEF FrameInv, Suits, RoomTypes, Retires, Named
    <3>2. \A r \in barred' : r \in barred \/ (r \in Rooms /\ srv[r] \in {"retired", "buried"})
      BY <2>6, <3>1 DEF ShowRetired
    <3>3. pane' = pane \/ (pane' = [pane EXCEPT !.retired = TRUE] /\ pane.conv \in Rooms /\ srv[pane.conv] \in {"retired", "buried"})
      BY <2>6, <3>1 DEF ShowRetired
    <3> QED BY <1>2, <2>0, <3>2, <3>3
  <2>7. CASE ShowGroupList \/ ShowDMList \/ ShowRoomAddedTo \/ ShowAdded \/ ShowLeft \/ ShowDeleted \/ ShowOther
    <3>1. barred' \subseteq barred /\ pane' \in {pane, NoPane, Synced, [pane EXCEPT !.left = TRUE]}
      BY <2>7 DEF ShowGroupList, ShowDMList, ShowRoomAddedTo, ShowAdded, ShowLeft, ShowDeleted, ShowOther, sidebarVars
    <3> QED BY <1>2, <2>0, <3>1
  <2> QED BY <1>4, <2>1, <2>2, <2>3, <2>4, <2>5, <2>6, <2>7 DEF TUI, Show
<1> QED BY <1>1, <1>3, <1>4 DEF Next

(* Every step keeps the types, the connection and the seal.                *)
LEMMA GroundStep ==
  ASSUME IInv, IInv', Ground, [Next]_vars
  PROVE  Ground'
<1>1. TypeOK'
  BY TypedStep DEF Ground
<1>2. CASE UNCHANGED vars
  BY <1>1, <1>2 DEF Ground, LinkInv, SealInv, vars, serverVars, linkVars, clientVars, sidebarVars
<1> QED BY <1>1, <1>2, LinkStep, SealStep DEF Ground

(* No frame of s is in B; one is in M, and none after it is in B.          *)
Free(s, B) == \A n \in DOMAIN s : s[n] \notin B

(* See Free.                                                               *)
Last(s, M, B) == \E n \in DOMAIN s : s[n] \in M /\ \A m \in DOMAIN s : m > n => s[m] \notin B

(* The same of the frames in msgCh and, after them, on the wire.           *)
Clear(s, t, B) == Free(s, B) /\ Free(t, B)

(* See Clear.                                                              *)
Coming(s, t, M, B) == Last(t, M, B) \/ (Free(t, B) /\ Last(s, M, B))

(* One frame more, one less.                                               *)
LEMMA NoneLeft ==
  ASSUME NEW M, NEW B
  PROVE  Free(<<>>, B) /\ ~Last(<<>>, M, B)
BY Nothing DEF Free, Last

(* What one more frame at the end changes.                                 *)
LEMMA OneMore ==
  ASSUME NEW s, Queue(s), NEW f, NEW M, NEW B
  PROVE  /\ Free(Append(s, f), B) <=> Free(s, B) /\ f \notin B
         /\ Last(Append(s, f), M, B) <=> f \in M \/ (f \notin B /\ Last(s, M, B))
<1>1. PICK k \in Nat : k = Len(s)
  BY Appended
<1>2. PICK t : t = Append(s, f)
  OBVIOUS
<1>3. /\ DOMAIN s = 1..k /\ DOMAIN t = 1..(k + 1) /\ t[k + 1] = f
      /\ \A n \in 1..k : t[n] = s[n]
  BY <1>1, <1>2, Appended
<1>4. \A n \in 1..(k + 1) : n \in 1..k \/ n = k + 1
  OBVIOUS
<1>5. \A n \in 1..k : n \in 1..(k + 1) /\ k + 1 > n /\ ~(n > k + 1)
  OBVIOUS
<1>6. k + 1 \in 1..(k + 1) /\ ~(k + 1 > k + 1)
  OBVIOUS
<1>7. Free(t, B) <=> Free(s, B) /\ f \notin B
  BY <1>3, <1>4, <1>5, <1>6 DEF Free
<1>8. ASSUME Last(t, M, B) PROVE f \in M \/ (f \notin B /\ Last(s, M, B))
  <2>1. PICK n \in DOMAIN t : t[n] \in M /\ \A m \in DOMAIN t : m > n => t[m] \notin B
    BY <1>8 DEF Last
  <2> QED BY <1>3, <1>4, <1>5, <1>6, <2>1 DEF Last
<1>9. ASSUME f \in M PROVE Last(t, M, B)
  BY <1>3, <1>4, <1>5, <1>6, <1>9 DEF Last
<1>10. ASSUME f \notin B, Last(s, M, B) PROVE Last(t, M, B)
  <2>1. PICK n \in DOMAIN s : s[n] \in M /\ \A m \in DOMAIN s : m > n => s[m] \notin B
    BY <1>10 DEF Last
  <2>2. n \in DOMAIN t /\ t[n] \in M
    BY <1>3, <1>5, <2>1
  <2>3. \A m \in DOMAIN t : m > n => t[m] \notin B
    BY <1>3, <1>4, <1>10, <2>1
  <2> QED BY <2>2, <2>3 DEF Last
<1> QED BY <1>2, <1>7, <1>8, <1>9, <1>10

(* What taking the first frame changes.                                    *)
LEMMA OneLess ==
  ASSUME NEW s, Queue(s), s # <<>>, NEW M, NEW B
  PROVE  /\ Free(s, B) <=> Free(Tail(s), B) /\ Head(s) \notin B
         /\ Last(s, M, B) <=> Last(Tail(s), M, B) \/ (Head(s) \in M /\ Free(Tail(s), B))
<1>1. PICK k \in Nat \ {0} : k = Len(s)
  BY Taken
<1>2. PICK t : t = Tail(s)
  OBVIOUS
<1>3. /\ DOMAIN s = 1..k /\ DOMAIN t = 1..(k - 1) /\ Head(s) = s[1]
      /\ \A n \in 1..(k - 1) : t[n] = s[n + 1]
  BY <1>1, <1>2, Taken
<1>4. \A n \in 1..k : n = 1 \/ (n - 1 \in 1..(k - 1) /\ (n - 1) + 1 = n)
  OBVIOUS
<1>5. \A n \in 1..(k - 1) : n + 1 \in 1..k /\ n + 1 > 1
  OBVIOUS
<1>6. 1 \in 1..k
  OBVIOUS
<1>a. \A n \in 1..k : n = 1 \/ s[n] = t[n - 1]
  BY <1>3, <1>4
<1>7. Free(s, B) <=> Free(t, B) /\ Head(s) \notin B
  BY <1>3, <1>4, <1>5, <1>6, <1>a DEF Free
<1>8. ASSUME Last(s, M, B) PROVE Last(t, M, B) \/ (Head(s) \in M /\ Free(t, B))
  <2>1. PICK n \in DOMAIN s : s[n] \in M /\ \A m \in DOMAIN s : m > n => s[m] \notin B
    BY <1>8 DEF Last
  <2>2. CASE n = 1
    BY <1>3, <1>5, <2>1, <2>2 DEF Free
  <2>3. CASE n # 1
    <3>1. n - 1 \in DOMAIN t /\ t[n - 1] \in M
      BY <1>3, <1>4, <1>a, <2>1, <2>3
    <3>2. \A m \in 1..(k - 1) : m > n - 1 => m + 1 > n
      BY <1>3, <2>1
    <3>3. \A m \in DOMAIN t : m > n - 1 => t[m] \notin B
      BY <1>3, <1>5, <2>1, <3>2
    <3> QED BY <3>1, <3>3 DEF Last
  <2> QED BY <2>2, <2>3
<1>9. ASSUME Head(s) \in M, Free(t, B) PROVE Last(s, M, B)
  <2>1. \A m \in 1..k : m > 1 => s[m] \notin B
    BY <1>3, <1>4, <1>a, <1>9 DEF Free
  <2> QED BY <1>3, <1>6, <1>9, <2>1 DEF Last
<1>10. ASSUME Last(t, M, B) PROVE Last(s, M, B)
  <2>1. PICK n \in 1..(k - 1) : t[n] \in M /\ \A m \in 1..(k - 1) : m > n => t[m] \notin B
    BY <1>3, <1>10 DEF Last
  <2>2. n + 1 \in 1..k /\ s[n + 1] \in M
    BY <1>3, <1>5, <2>1
  <2>3. ASSUME NEW m \in 1..k, m > n + 1 PROVE s[m] \notin B
    <3>1. m - 1 \in 1..(k - 1) /\ m - 1 > n /\ m # 1
      BY <2>1, <2>3
    <3> QED BY <1>a, <2>1, <3>1
  <2> QED BY <1>3, <2>2, <2>3 DEF Last
<1> QED BY <1>2, <1>7, <1>8, <1>9, <1>10

(* The same of two queues: a frame is sent, read, handled.                 *)
LEMMA Sent ==
  ASSUME NEW s, NEW t, Queue(t), NEW f, NEW M, NEW B
  PROVE  /\ Clear(s, Append(t, f), B) <=> Clear(s, t, B) /\ f \notin B
         /\ Coming(s, Append(t, f), M, B) <=> f \in M \/ (f \notin B /\ Coming(s, t, M, B))
BY OneMore DEF Clear, Coming

(* A frame that passes from the wire to msgCh is still coming.             *)
LEMMA Moved ==
  ASSUME NEW s, NEW t, Queue(s), Queue(t), t # <<>>, NEW M, NEW B
  PROVE  /\ Clear(Append(s, Head(t)), Tail(t), B) <=> Clear(s, t, B)
         /\ Coming(Append(s, Head(t)), Tail(t), M, B) <=> Coming(s, t, M, B)
<1>1. PICK f : f = Head(t)
  OBVIOUS
<1>2. /\ Free(Append(s, f), B) <=> Free(s, B) /\ f \notin B
      /\ Last(Append(s, f), M, B) <=> f \in M \/ (f \notin B /\ Last(s, M, B))
  BY OneMore
<1>3. /\ Free(t, B) <=> Free(Tail(t), B) /\ f \notin B
      /\ Last(t, M, B) <=> Last(Tail(t), M, B) \/ (f \in M /\ Free(Tail(t), B))
  BY <1>1, OneLess
<1> QED BY <1>1, <1>2, <1>3 DEF Clear, Coming

(* What is lost when the TUI takes a frame of msgCh.                       *)
LEMMA Handled ==
  ASSUME NEW s, NEW t, Queue(s), s # <<>>, NEW M, NEW B
  PROVE  /\ Clear(s, t, B) <=> Clear(Tail(s), t, B) /\ Head(s) \notin B
         /\ Coming(s, t, M, B) <=> Coming(Tail(s), t, M, B) \/ (Head(s) \in M /\ Clear(Tail(s), t, B))
<1>1. PICK f : f = Head(s)
  OBVIOUS
<1>2. /\ Free(s, B) <=> Free(Tail(s), B) /\ f \notin B
      /\ Last(s, M, B) <=> Last(Tail(s), M, B) \/ (f \in M /\ Free(Tail(s), B))
  BY <1>1, OneLess
<1> QED BY <1>1, <1>2 DEF Clear, Coming

(* Nothing said.                                                           *)
LEMMA SaidIs ==
  ASSUME NEW s, NEW M, NEW B
  PROVE  /\ Free(s, B) <=> \A f \in Said(s) : f \notin B
         /\ Last(s, M, {}) <=> \E f \in Said(s) : f \in M
         /\ Last(s, M, B) => \E f \in Said(s) : f \in M
         /\ Free(s, B) /\ (\E f \in Said(s) : f \in M) => Last(s, M, B)
BY DEF Free, Last, Said

-----------------------------------------------------------------------------
(* After a frame of A none of L.                                           *)
Orderly(s, A, L) == \A n \in DOMAIN s : s[n] \in A => \A m \in DOMAIN s : m > n => s[m] \notin L

(* A frame added to an orderly queue leaves it orderly, if it is none of L *)
(* or comes after none of A.                                               *)
LEMMA OrderlyMore ==
  ASSUME NEW s, Queue(s), NEW f, NEW A, NEW L, Orderly(s, A, L), f \notin L \/ Free(s, A)
  PROVE  Orderly(Append(s, f), A, L)
<1>1. PICK k \in Nat : k = Len(s)
  BY Appended
<1>2. PICK t : t = Append(s, f)
  OBVIOUS
<1>3. /\ DOMAIN s = 1..k /\ DOMAIN t = 1..(k + 1) /\ t[k + 1] = f
      /\ \A n \in 1..k : t[n] = s[n]
  BY <1>1, <1>2, Appended
<1>4. \A n \in 1..(k + 1) : n \in 1..k \/ n = k + 1
  OBVIOUS
<1>5. \A n \in 1..(k + 1) : ~(n > k + 1)
  OBVIOUS
<1>6. ASSUME NEW n \in 1..(k + 1), t[n] \in A, NEW m \in 1..(k + 1), m > n PROVE t[m] \notin L
  <2>1. n \in 1..k
    BY <1>4, <1>5, <1>6
  <2>2. CASE m \in 1..k
    BY <1>3, <1>6, <2>1, <2>2 DEF Orderly
  <2>3. CASE m = k + 1
    BY <1>3, <1>6, <2>1, <2>3 DEF Free
  <2> QED BY <1>4, <2>2, <2>3
<1> QED BY <1>2, <1>3, <1>6 DEF Orderly

(* The rest of an orderly queue is orderly, and has none of L when the     *)
(* first was of A.                                                         *)
LEMMA OrderlyLess ==
  ASSUME NEW s, Queue(s), s # <<>>, NEW A, NEW L, Orderly(s, A, L)
  PROVE  Orderly(Tail(s), A, L) /\ (Head(s) \in A => Free(Tail(s), L))
<1>1. PICK k \in Nat \ {0} : k = Len(s)
  BY Taken
<1>2. PICK t : t = Tail(s)
  OBVIOUS
<1>3. /\ DOMAIN s = 1..k /\ DOMAIN t = 1..(k - 1) /\ Head(s) = s[1]
      /\ \A n \in 1..(k - 1) : t[n] = s[n + 1]
  BY <1>1, <1>2, Taken
<1>4. \A n \in 1..(k - 1) : n + 1 \in 1..k /\ n + 1 > 1
  OBVIOUS
<1>5. \A n, m \in 1..(k - 1) : m > n => m + 1 > n + 1
  OBVIOUS
<1>6. 1 \in 1..k
  OBVIOUS
<1>7. Orderly(t, A, L)
  BY <1>3, <1>4, <1>5 DEF Orderly
<1>8. Head(s) \in A => Free(t, L)
  BY <1>3, <1>4, <1>6 DEF Orderly, Free
<1> QED BY <1>2, <1>7, <1>8

(* In an orderly queue, no frame of L follows one of A.                    *)
LEMMA OrderlyLast ==
  ASSUME NEW s, NEW A, NEW L, Orderly(s, A, L), NEW M, NEW B, Last(s, M, B), M \subseteq A,
         NEW C, C \subseteq B \cup L
  PROVE  Last(s, M, C)
BY DEF Orderly, Last

(* Frames of W that come after one of M with none of B in between, or are  *)
(* followed by one of X; and those that also may have none of B before.    *)
Reached(s, k, M, B) ==
  \E n \in DOMAIN s : n < k /\ s[n] \in M /\ \A m \in DOMAIN s : n < m /\ m < k => s[m] \notin B
Untouched(s, k, B) == \A n \in DOMAIN s : n < k => s[n] \notin B
Follows(s, k, X) == \E n \in DOMAIN s : n > k /\ s[n] \in X
Secure(s, W, M, B, X) ==
  \A k \in DOMAIN s : s[k] \in W => Reached(s, k, M, B) \/ Follows(s, k, X)
Tenable(s, W, M, B, X) ==
  \A k \in DOMAIN s : s[k] \in W => Reached(s, k, M, B) \/ Untouched(s, k, B) \/ Follows(s, k, X)

(* What one more frame at the end asks of the guards.                      *)
LEMMA GuardMore ==
  ASSUME NEW s, Queue(s), NEW f, NEW W, NEW M, NEW B, NEW X
  PROVE  /\ Secure(s, W, M, B, X) /\ (f \in W => Last(s, M, B)) => Secure(Append(s, f), W, M, B, X)
         /\ Tenable(s, W, M, B, X) /\ (f \in W => Last(s, M, B) \/ Free(s, B)) => Tenable(Append(s, f), W, M, B, X)
         /\ f \in X /\ f \notin W => Secure(Append(s, f), W, M, B, X)
         /\ Secure(s, W, M, B, X) => Tenable(s, W, M, B, X)
<1>1. PICK k \in Nat : k = Len(s)
  BY Appended
<1>2. PICK t : t = Append(s, f)
  OBVIOUS
<1>3. /\ DOMAIN s = 1..k /\ DOMAIN t = 1..(k + 1) /\ t[k + 1] = f
      /\ \A n \in 1..k : t[n] = s[n]
  BY <1>1, <1>2, Appended
<1>4. \A n \in 1..(k + 1) : n \in 1..k \/ n = k + 1
  OBVIOUS
<1>5. \A n \in 1..k : n \in 1..(k + 1) /\ n < k + 1
  OBVIOUS
<1>6. ASSUME NEW n \in 1..k
      PROVE  /\ Reached(s, n, M, B) => Reached(t, n, M, B)
             /\ Untouched(s, n, B) => Untouched(t, n, B)
             /\ Follows(s, n, X) => Follows(t, n, X)
  <2>1. \A m \in 1..(k + 1) : m < n => m \in 1..k
    OBVIOUS
  <2> QED BY <1>3, <1>5, <2>1 DEF Reached, Untouched, Follows
<1>7. /\ Last(s, M, B) => Reached(t, k + 1, M, B)
      /\ Free(s, B) => Untouched(t, k + 1, B)
  <2>1. \A m \in 1..(k + 1) : m < k + 1 => m \in 1..k
    OBVIOUS
  <2>2. ASSUME Last(s, M, B) PROVE Reached(t, k + 1, M, B)
    <3>1. PICK n \in 1..k : s[n] \in M /\ \A m \in 1..k : m > n => s[m] \notin B
      BY <1>3, <2>2 DEF Last
    <3>2. n \in 1..(k + 1) /\ n < k + 1 /\ t[n] \in M
      BY <1>3, <1>5, <3>1
    <3>3. \A m \in 1..(k + 1) : n < m /\ m < k + 1 => t[m] \notin B
      BY <1>3, <2>1, <3>1
    <3> QED BY <1>3, <3>2, <3>3 DEF Reached
  <2>3. Free(s, B) => Untouched(t, k + 1, B)
    BY <1>3, <2>1 DEF Free, Untouched
  <2> QED BY <2>2, <2>3
<1>8. \A n \in 1..k : f \in X => Follows(t, n, X)
  BY <1>3, <1>5 DEF Follows
<1>9. Secure(s, W, M, B, X) /\ (f \in W => Last(s, M, B)) => Secure(t, W, M, B, X)
  BY <1>3, <1>4, <1>6, <1>7 DEF Secure
<1>10. Tenable(s, W, M, B, X) /\ (f \in W => Last(s, M, B) \/ Free(s, B)) => Tenable(t, W, M, B, X)
  BY <1>3, <1>4, <1>6, <1>7 DEF Tenable
<1>11. f \in X /\ f \notin W => Secure(t, W, M, B, X)
  BY <1>3, <1>4, <1>8 DEF Secure
<1> QED BY <1>2, <1>9, <1>10, <1>11 DEF Secure, Tenable

(* What the guards say of the rest of the queue when its first frame is    *)
(* taken.                                                                  *)
LEMMA GuardLess ==
  ASSUME NEW s, Queue(s), s # <<>>, NEW W, NEW M, NEW B, NEW X
  PROVE  /\ Tenable(s, W, M, B, X) => Tenable(Tail(s), W, M, B, X)
         /\ Secure(s, W, M, B, X) /\ Head(s) \notin M => Secure(Tail(s), W, M, B, X)
         /\ Tenable(s, W, M, B, X) /\ Head(s) \in B /\ Head(s) \notin M => Secure(Tail(s), W, M, B, X)
         /\ Secure(s, W, M, B, X) /\ Head(s) \in W => Last(Tail(s), X, {})
         /\ Secure(s, W, M, B, X) => Tenable(s, W, M, B, X)
<1>1. PICK k \in Nat \ {0} : k = Len(s)
  BY Taken
<1>2. PICK t : t = Tail(s)
  OBVIOUS
<1>3. /\ DOMAIN s = 1..k /\ DOMAIN t = 1..(k - 1) /\ Head(s) = s[1]
      /\ \A n \in 1..(k - 1) : t[n] = s[n + 1]
  BY <1>1, <1>2, Taken
<1>4. \A n \in 1..k : n = 1 \/ (n - 1 \in 1..(k - 1) /\ (n - 1) + 1 = n)
  OBVIOUS
<1>5. \A n \in 1..(k - 1) : n + 1 \in 1..k /\ n + 1 > 1
  OBVIOUS
<1>6. 1 \in 1..k
  OBVIOUS
<1>7. \A n \in 1..k : n = 1 \/ s[n] = t[n - 1]
  BY <1>3, <1>4
<1>8. ASSUME NEW n \in 1..(k - 1)
      PROVE  /\ Untouched(s, n + 1, B) => Untouched(t, n, B) /\ s[1] \notin B
             /\ Follows(s, n + 1, X) => Follows(t, n, X)
             /\ Reached(s, n + 1, M, B) => Reached(t, n, M, B) \/ (s[1] \in M /\ Untouched(t, n, B))
  <2>1. \A m \in 1..(k - 1) : m < n => m + 1 < n + 1
    OBVIOUS
  <2>2. \A m \in 1..k : m < n + 1 /\ m # 1 => m - 1 < n
    OBVIOUS
  <2>3. \A m \in 1..k : m > n + 1 => m # 1 /\ m - 1 > n
    OBVIOUS
  <2>4. Untouched(s, n + 1, B) => Untouched(t, n, B) /\ s[1] \notin B
    BY <1>3, <1>5, <1>6, <2>1 DEF Untouched
  <2>5. Follows(s, n + 1, X) => Follows(t, n, X)
    BY <1>3, <1>4, <1>7, <2>3 DEF Follows
  <2>6. ASSUME Reached(s, n + 1, M, B)
        PROVE  Reached(t, n, M, B) \/ (s[1] \in M /\ Untouched(t, n, B))
    <3>1. PICK i \in 1..k : i < n + 1 /\ s[i] \in M /\ \A m \in 1..k : i < m /\ m < n + 1 => s[m] \notin B
      BY <1>3, <2>6 DEF Reached
    <3>2. CASE i = 1
      BY <1>3, <1>5, <2>1, <3>1, <3>2 DEF Untouched
    <3>3. CASE i # 1
      <4>1. i - 1 \in 1..(k - 1) /\ i - 1 < n /\ t[i - 1] \in M
        BY <1>4, <1>7, <3>1, <3>3
      <4>2. \A m \in 1..(k - 1) : i - 1 < m /\ m < n => i < m + 1 /\ m + 1 < n + 1
        OBVIOUS
      <4>3. \A m \in 1..(k - 1) : i - 1 < m /\ m < n => t[m] \notin B
        BY <1>3, <1>5, <3>1, <4>2
      <4> QED BY <1>3, <4>1, <4>3 DEF Reached
    <3> QED BY <3>2, <3>3
  <2> QED BY <2>4, <2>5, <2>6
<1>9. Secure(s, W, M, B, X) => Tenable(s, W, M, B, X)
  BY DEF Secure, Tenable
<1>10. Tenable(s, W, M, B, X) => Tenable(t, W, M, B, X)
  BY <1>3, <1>5, <1>8 DEF Tenable
<1>11. Secure(s, W, M, B, X) /\ s[1] \notin M => Secure(t, W, M, B, X)
  BY <1>3, <1>5, <1>8 DEF Secure
<1>12. Tenable(s, W, M, B, X) /\ s[1] \in B /\ s[1] \notin M => Secure(t, W, M, B, X)
  BY <1>3, <1>5, <1>8 DEF Tenable, Secure
<1>13. ASSUME Secure(s, W, M, B, X), s[1] \in W PROVE Last(t, X, {})
  <2>1. ~Reached(s, 1, M, B)
    BY <1>3 DEF Reached
  <2>2. PICK n \in 1..k : n > 1 /\ s[n] \in X
    BY <1>3, <1>6, <1>13, <2>1 DEF Secure, Follows
  <2>3. n - 1 \in DOMAIN t /\ t[n - 1] \in X
    BY <1>3, <1>4, <1>7, <2>2
  <2> QED BY <2>3 DEF Last
<1> QED BY <1>2, <1>3, <1>9, <1>10, <1>11, <1>12, <1>13

(* f stands at k, after the frames of P and before some of Q.              *)
Splits(s, k, f, P, Q) ==
  /\ Queue(s) /\ k \in DOMAIN s /\ s[k] = f
  /\ \A n \in DOMAIN s : (n < k => s[n] \in P) /\ (n > k => s[n] \in Q)
  /\ \A g \in P : \E n \in DOMAIN s : n < k /\ s[n] = g

(* See Splits.                                                             *)
LEMMA SplitsLast ==
  ASSUME NEW a, Queue(a), NEW f
  PROVE  \E k : Splits(a \o <<f>>, k, f, Said(a), {})
<1>0. PICK p : p = a \o <<f>>
  OBVIOUS
<1>1. PICK S : S = Said(a) \cup {f}
  OBVIOUS
<1>2. a \in Seq(S) /\ <<f>> \in Seq(S)
  BY <1>1 DEF Queue, Said
<1>3. PICK i \in Nat : i = Len(a)
  BY <1>2, LenProperties
<1>4. p \in Seq(S) /\ Len(p) = i + 1 /\ p[i + 1] = f /\ \A n \in 1..i : p[n] = a[n]
  <2>1. Len(<<f>>) = 1 /\ <<f>>[1] = f
    OBVIOUS
  <2>2. /\ p \in Seq(S) /\ Len(p) = i + 1
        /\ \A n \in 1..(i + 1) : p[n] = IF n <= i THEN a[n] ELSE <<f>>[n - i]
    BY <1>0, <1>2, <1>3, <2>1, ConcatProperties
  <2>3. \A n \in 1..i : n \in 1..(i + 1) /\ n <= i
    OBVIOUS
  <2>4. i + 1 \in 1..(i + 1) /\ ~(i + 1 <= i) /\ (i + 1) - i = 1
    OBVIOUS
  <2> QED BY <2>1, <2>2, <2>3, <2>4
<1>5. DOMAIN p = 1..(i + 1) /\ DOMAIN a = 1..i /\ Queue(p)
  BY <1>2, <1>3, <1>4, LenProperties, QueueOf
<1>6. \A n \in 1..(i + 1) : (n < i + 1 => n \in 1..i) /\ ~(n > i + 1)
  OBVIOUS
<1>7. \A n \in 1..i : n \in 1..(i + 1) /\ n < i + 1
  OBVIOUS
<1>8. i + 1 \in DOMAIN p
  BY <1>5
<1>9. Splits(p, i + 1, f, Said(a), {})
  BY <1>4, <1>5, <1>6, <1>7, <1>8 DEF Splits, Said
<1> QED BY <1>0, <1>9

(* See Splits.                                                             *)
LEMMA SplitsMore ==
  ASSUME NEW s, NEW k, NEW f, NEW P, NEW Q, Splits(s, k, f, P, Q), NEW b, Queue(b)
  PROVE  Splits(s \o b, k, f, P, Q \cup Said(b))
<1>0. PICK t : t = s \o b
  OBVIOUS
<1>1. PICK S : S = Said(s) \cup Said(b)
  OBVIOUS
<1>2. s \in Seq(S) /\ b \in Seq(S)
  BY <1>1 DEF Queue, Said, Splits
<1>3. PICK i \in Nat, j \in Nat : i = Len(s) /\ j = Len(b)
  BY <1>2, LenProperties
<1>4. /\ t \in Seq(S) /\ Len(t) = i + j
      /\ \A n \in 1..(i + j) : t[n] = IF n <= i THEN s[n] ELSE b[n - i]
  BY <1>0, <1>2, <1>3, ConcatProperties
<1>5. DOMAIN t = 1..(i + j) /\ DOMAIN s = 1..i /\ DOMAIN b = 1..j /\ Queue(t)
  BY <1>2, <1>3, <1>4, LenProperties, QueueOf
<1>6. k \in 1..i
  BY <1>5 DEF Splits
<1>7. \A n \in 1..i : n \in 1..(i + j) /\ n <= i
  OBVIOUS
<1>8. \A n \in 1..(i + j) : n \in 1..i \/ (n - i \in 1..j /\ ~(n <= i) /\ n > k /\ ~(n < k))
  BY <1>6
<1>9. \A n \in 1..i : t[n] = s[n]
  BY <1>4, <1>7
<1>10. \A n \in 1..(i + j) : n \in 1..i \/ t[n] \in Said(b)
  BY <1>4, <1>5, <1>8 DEF Said
<1>11. Splits(t, k, f, P, Q \cup Said(b))
  BY <1>5, <1>6, <1>7, <1>8, <1>9, <1>10 DEF Splits
<1> QED BY <1>0, <1>11

(* The frames that speak of c, by type; the list of its kind.              *)
Naming(types, c) == {f \in Frames : f.type \in types /\ c \in f.convs}
Lists(type)      == {f \in Frames : f.type = type}
ListOf(c)        == IF c \in Rooms THEN "room_list" ELSE IF c \in Groups THEN "group_list" ELSE "dm_list"

(* The frames that put c in the sidebar, take it out, and list others.     *)
Adds(c)    == {f \in Frames : c \in f.convs /\ (f.type \in Joins \cup {"group_created"} \/ Shows(f, c))}
Drops(c)   == {f \in Frames : c \in f.convs /\ (f.type \in Deletes \/ Hides(f, c))}
Without(c) == {f \in Frames : f.type = ListOf(c) /\ c \notin f.convs}

(* The frames of a decision or an answer, never of a handshake.            *)
Live       == {f \in Frames : f.type \in LiveTypes}

(* The lists of the archived rooms, which a handshake sends before the     *)
(* rooms.                                                                  *)
Archives   == {f \in Frames : f.type \in {"retired_rooms", "left_rooms"}}

(* The frame the TUI takes.                                                *)
LEMMA Facing ==
  ASSUME IInv, TypeOK, NEW f, f = Head(inbox), inbox # <<>>
  PROVE  f \in Frames /\ FrameInv(f, srv) /\ Named = f.convs
<1>1. f \in Frames
  BY DEF TypeOK
<1>2. FrameInv(f, srv)
  BY Taken DEF IInv, WireInv
<1> QED BY <1>1, <1>2 DEF Named

(* What each frame does to the entry of a conversation in the sidebar.     *)
LEMMA ShowLists ==
  ASSUME IInv, TypeOK, Show, NEW f, f = Head(inbox), NEW c \in Conv
  PROVE  /\ f \in Adds(c) => c \in listed'
         /\ f \in Drops(c) => c \notin listed'
         /\ f \in Without(c) => (c \in listed' <=> c \notin DMs /\ ReadOnly(store[c]))
         /\ f \notin Adds(c) \cup Drops(c) \cup Without(c) => (c \in listed' <=> c \in listed)
<1>0. inbox # <<>>
  BY DEF Show, ShowRoomList, ShowGroupList, ShowDMList, ShowRoomAddedTo, ShowAdded, ShowLeft, ShowRetired, ShowDeleted, ShowOther, Take
<1>1. f \in Frames /\ FrameInv(f, srv) /\ Named = f.convs
  BY <1>0, Facing
<1>2. c \in f.convs => Suits(f.type, c)
  BY <1>1 DEF FrameInv
<1>3. /\ c \in Rooms \/ c \in Groups \/ c \in DMs
      /\ c \in Rooms => c \notin Groups /\ c \notin DMs
      /\ c \in Groups => c \notin Rooms /\ c \notin DMs
      /\ c \in DMs => c \notin Rooms /\ c \notin Groups
  BY Kinds DEF Conv
<1>4. store[c] \subseteq KindFlags(c)
  BY DEF IInv, StoreInv
<1>5. CASE ShowRoomList
  <2>1. f.type = "room_list" /\ listed' = (listed \ Rooms) \cup (f.convs \cup Left(Rooms) \cup Retired(Rooms))
    BY <1>1, <1>5 DEF ShowRoomList, Take
  <2>2. c \in listed' <=> (c \notin Rooms /\ c \in listed) \/ c \in f.convs \/ (c \in Rooms /\ ReadOnly(store[c]))
    BY <2>1 DEF Left, Retired, ReadOnly
  <2>3. c \in f.convs => c \in Rooms
    BY <1>2, <2>1 DEF Suits, RoomTypes
  <2> QED BY <1>1, <1>3, <2>1, <2>2, <2>3
          DEF Adds, Drops, Without, ListOf, Joins, Shows, Hides, Deletes
<1>6. CASE ShowGroupList
  <2>1. f.type = "group_list"
        /\ listed' = (listed \ Groups) \cup (f.convs \cup {g \in Groups : "left" \in Unarchived[g]})
    BY <1>1, <1>6 DEF ShowGroupList, Take
  <2>2. c \in f.convs => c \in Groups
    BY <1>2, <2>1 DEF Suits, GroupTypes
  <2>3. c \notin f.convs => Unarchived[c] = store[c]
    BY <1>1 DEF Unarchived
  <2>4. c \in Groups => (ReadOnly(store[c]) <=> "left" \in store[c])
    BY <1>3, <1>4 DEF ReadOnly, KindFlags
  <2>5. c \in listed' <=> (c \notin Groups /\ c \in listed) \/ c \in f.convs
                            \/ (c \in Groups /\ "left" \in Unarchived[c])
    BY <2>1
  <2> QED BY <1>1, <1>3, <2>1, <2>2, <2>3, <2>4, <2>5
          DEF Adds, Drops, Without, ListOf, Joins, Shows, Hides, Deletes
<1>7. CASE ShowDMList
  <2>1. f.type = "dm_list" /\ listed' = (listed \ DMs) \cup (f.convs \ f.hidden)
    BY <1>1, <1>7 DEF ShowDMList, Take
  <2>2. c \in f.convs => c \in DMs
    BY <1>2, <2>1 DEF Suits, DMTypes
  <2> QED BY <1>1, <1>3, <2>1, <2>2
          DEF Adds, Drops, Without, ListOf, Joins, Shows, Hides, Deletes
<1>8. CASE ShowRoomAddedTo \/ ShowAdded
  <2>1. f.type \in {"room_added_to", "group_created", "group_added_to", "dm_created"}
        /\ listed' = listed \cup f.convs
    BY <1>1, <1>8 DEF ShowRoomAddedTo, ShowAdded, Take
  <2> QED BY <1>1, <2>1 DEF Adds, Drops, Without, ListOf, Joins, Shows, Hides, Deletes
<1>9. CASE ShowLeft \/ ShowRetired \/ ShowOther
  <2>1. f.type \in {"room_left", "group_left", "room_retired", "retired_rooms", "left_rooms", "left_groups",
                    "room_members_list", "message"}
        /\ listed' = listed
    BY <1>1, <1>9 DEF ShowLeft, ShowRetired, ShowOther, Take, sidebarVars
  <2> QED BY <1>1, <2>1 DEF Adds, Drops, Without, ListOf, Joins, Shows, Hides, Deletes
<1>10. CASE ShowDeleted
  <2>1. f.type \in {"room_deleted", "deleted_rooms", "group_deleted", "deleted_groups", "dm_left"}
        /\ listed' = listed \ f.convs
    BY <1>1, <1>10 DEF ShowDeleted, Take
  <2> QED BY <1>1, <2>1 DEF Adds, Drops, Without, ListOf, Joins, Shows, Hides, Deletes
<1> QED BY <1>5, <1>6, <1>7, <1>8, <1>9, <1>10 DEF Show

(* What each frame does to the markers of a room.                          *)
LEMMA ShowGreys ==
  ASSUME IInv, TypeOK, Show, NEW f, f = Head(inbox), NEW c \in Rooms
  PROVE  /\ f.type = "room_list" =>
              IF c \in f.convs \/ ReadOnly(store[c]) THEN c \in grey' <=> "left" \in store[c]
                                                     ELSE c \in grey' <=> c \in grey
         /\ f \in Naming({"room_added_to"} \cup Deletes, c) => c \notin grey'
         /\ f \in Naming({"room_left"}, c) => c \in grey'
         /\ f \notin Lists("room_list") \cup Naming({"room_left", "room_added_to"} \cup Deletes, c)
              => (c \in grey' <=> c \in grey)
         /\ f \in Naming(Retires, c) => c \in barred'
         /\ f \notin Naming({"room_added_to"} \cup Deletes, c) /\ c \in barred => c \in barred'
<1>0. inbox # <<>>
  BY DEF Show, ShowRoomList, ShowGroupList, ShowDMList, ShowRoomAddedTo, ShowAdded, ShowLeft, ShowRetired, ShowDeleted, ShowOther, Take
<1>1. f \in Frames /\ FrameInv(f, srv) /\ Named = f.convs
  BY <1>0, Facing
<1>2. c \in f.convs => Suits(f.type, c)
  BY <1>1 DEF FrameInv
<1>3. c \notin Groups /\ c \notin DMs
  BY Kinds
<1>5. CASE ShowRoomList
  <2>1. f.type = "room_list"
        /\ grey' = (grey \ (f.convs \cup Left(Rooms) \cup Retired(Rooms)))
                     \cup Left(f.convs \cup Left(Rooms) \cup Retired(Rooms))
        /\ barred \subseteq barred'
    BY <1>1, <1>5 DEF ShowRoomList, Take
  <2>2. c \in grey' <=> IF c \in f.convs \/ ReadOnly(store[c]) THEN "left" \in store[c] ELSE c \in grey
    BY <2>1 DEF Left, Retired, ReadOnly
  <2> QED BY <1>1, <2>1, <2>2 DEF Naming, Lists, Deletes, Retires
<1>6. CASE ShowGroupList \/ ShowDMList
  <2>1. f.type \in {"group_list", "dm_list"}
    BY <1>6 DEF ShowGroupList, ShowDMList, Take
  <2>2. c \notin f.convs
    BY <1>2, <1>3, <2>1 DEF Suits, GroupTypes, DMTypes
  <2>3. (c \in grey' <=> c \in grey) /\ barred' = barred
    BY <1>1, <1>3, <1>6, <2>2 DEF ShowGroupList, ShowDMList
  <2> QED BY <1>1, <2>1, <2>2, <2>3 DEF Naming, Lists, Deletes, Retires
<1>8. CASE ShowRoomAddedTo
  <2>1. f.type = "room_added_to" /\ grey' = grey \ f.convs /\ barred' = barred \ f.convs
    BY <1>1, <1>8 DEF ShowRoomAddedTo, Take
  <2> QED BY <1>1, <2>1 DEF Naming, Lists, Deletes, Retires
<1>9. CASE ShowAdded \/ ShowOther
  <2>1. f.type \in {"group_created", "group_added_to", "dm_created", "left_rooms", "left_groups",
                    "room_members_list", "message"}
        /\ grey' = grey /\ barred' = barred
    BY <1>1, <1>9 DEF ShowAdded, ShowOther, Take, sidebarVars
  <2> QED BY <1>1, <2>1 DEF Naming, Lists, Deletes, Retires
<1>10. CASE ShowDeleted
  <2>1. f.type \in {"room_deleted", "deleted_rooms", "group_deleted", "deleted_groups", "dm_left"}
        /\ grey' = grey \ f.convs /\ barred' = barred \ f.convs
    BY <1>1, <1>10 DEF ShowDeleted, Take
  <2>2. c \in f.convs => f.type # "dm_left"
    BY <1>2, <1>3 DEF Suits, DMTypes
  <2> QED BY <1>1, <2>1, <2>2 DEF Naming, Lists, Deletes, Retires
<1>11. CASE ShowLeft
  <2>1. f.type \in {"room_left", "group_left"} /\ grey' = grey \cup f.convs /\ barred' = barred
    BY <1>1, <1>11 DEF ShowLeft, Take
  <2>2. c \in f.convs => f.type # "group_left"
    BY <1>2, <1>3 DEF Suits, GroupTypes
  <2> QED BY <1>1, <2>1, <2>2 DEF Naming, Lists, Deletes, Retires
<1>12. CASE ShowRetired
  <2>1. f.type \in {"room_retired", "retired_rooms"} /\ grey' = grey /\ barred' = barred \cup f.convs
    BY <1>1, <1>12 DEF ShowRetired, Take
  <2> QED BY <1>1, <2>1 DEF Naming, Lists, Deletes, Retires
<1> QED BY <1>5, <1>6, <1>8, <1>9, <1>10, <1>11, <1>12 DEF Show

(* A room or group shown as left stays so until a frame adds it again.     *)
LEMMA ShowMarks ==
  ASSUME IInv, TypeOK, Show, NEW f, f = Head(inbox), NEW c \in Rooms \cup Groups,
         "retired" \notin store[c]
  PROVE  /\ f \in Naming({"room_left", "group_left"}, c) \cup Without(c) => (c \in listed' => c \in grey')
         /\ f \notin Adds(c) /\ (c \in listed => c \in grey) => (c \in listed' => c \in grey')
<1>0. inbox # <<>>
  BY DEF Show, ShowRoomList, ShowGroupList, ShowDMList, ShowRoomAddedTo, ShowAdded, ShowLeft, ShowRetired, ShowDeleted, ShowOther, Take
<1>1. f \in Frames /\ FrameInv(f, srv) /\ Named = f.convs
  BY <1>0, Facing
<1>2. c \in f.convs => Suits(f.type, c)
  BY <1>1 DEF FrameInv
<1>3. /\ c \in Conv /\ c \notin DMs
      /\ c \in Rooms => c \notin Groups
      /\ c \in Groups => c \notin Rooms
  BY Kinds
<1>5. CASE ShowRoomList
  <2>1. f.type = "room_list"
        /\ listed' = (listed \ Rooms) \cup (f.convs \cup Left(Rooms) \cup Retired(Rooms))
        /\ grey' = (grey \ (f.convs \cup Left(Rooms) \cup Retired(Rooms)))
                     \cup Left(f.convs \cup Left(Rooms) \cup Retired(Rooms))
    BY <1>1, <1>5 DEF ShowRoomList, Take
  <2>2. c \in f.convs => c \in Rooms /\ f \in Adds(c)
    BY <1>1, <1>2, <2>1 DEF Suits, RoomTypes, Adds, Joins
  <2>3. c \in Rooms /\ c \notin f.convs => (c \in listed' => c \in grey')
    BY <2>1 DEF Left, Retired
  <2>4. c \notin Rooms => (c \in listed' => c \in listed) /\ (c \in grey => c \in grey')
    BY <2>1, <2>2 DEF Left, Retired
  <2> QED BY <1>1, <1>3, <2>1, <2>2, <2>3, <2>4 DEF Naming, Without, ListOf
<1>6. CASE ShowGroupList
  <2>1. f.type = "group_list"
        /\ listed' = (listed \ Groups) \cup (f.convs \cup {g \in Groups : "left" \in Unarchived[g]})
        /\ grey' = grey \cup {g \in (f.convs \cup {h \in Groups : "left" \in Unarchived[h]}) : "left" \in Unarchived[g]}
    BY <1>1, <1>6 DEF ShowGroupList, Take
  <2>2. c \in f.convs => c \in Groups /\ f \in Adds(c)
    BY <1>1, <1>2, <2>1 DEF Suits, GroupTypes, Adds, Joins
  <2>3. c \in Groups /\ c \notin f.convs => (c \in listed' => c \in grey')
    BY <2>1
  <2>4. c \notin Groups => (c \in listed' => c \in listed) /\ (c \in grey => c \in grey')
    BY <2>1, <2>2
  <2> QED BY <1>1, <1>3, <2>1, <2>2, <2>3, <2>4 DEF Naming, Without, ListOf
<1>7. CASE ShowDMList
  <2>1. f.type = "dm_list" /\ listed' = (listed \ DMs) \cup (f.convs \ f.hidden) /\ grey' = grey
    BY <1>1, <1>7 DEF ShowDMList, Take
  <2>2. c \notin f.convs
    BY <1>2, <1>3, <2>1 DEF Suits, DMTypes
  <2> QED BY <1>1, <1>3, <2>1, <2>2 DEF Naming, Without, ListOf
<1>8. CASE ShowRoomAddedTo \/ ShowAdded
  <2>1. f.type \in {"room_added_to", "group_created", "group_added_to", "dm_created"}
        /\ listed' = listed \cup f.convs /\ (c \notin f.convs => (c \in grey' <=> c \in grey))
    BY <1>1, <1>8 DEF ShowRoomAddedTo, ShowAdded, Take
  <2>2. c \in f.convs => f \in Adds(c)
    BY <1>1, <2>1 DEF Adds, Joins, Shows
  <2> QED BY <1>1, <2>1, <2>2 DEF Naming, Without, ListOf
<1>9. CASE ShowLeft \/ ShowRetired \/ ShowOther
  <2>1. f.type \in {"room_left", "group_left", "room_retired", "retired_rooms", "left_rooms", "left_groups",
                    "room_members_list", "message"}
        /\ listed' = listed /\ (c \in grey => c \in grey')
        /\ (f.type \in {"room_left", "group_left"} /\ c \in f.convs => c \in grey')
    BY <1>1, <1>9 DEF ShowLeft, ShowRetired, ShowOther, Take, sidebarVars
  <2> QED BY <1>1, <2>1 DEF Naming, Without, ListOf
<1>10. CASE ShowDeleted
  <2>1. f.type \in {"room_deleted", "deleted_rooms", "group_deleted", "deleted_groups", "dm_left"}
        /\ listed' = listed \ f.convs /\ grey' = grey \ f.convs
    BY <1>1, <1>10 DEF ShowDeleted, Take
  <2> QED BY <1>1, <2>1 DEF Naming, Without, ListOf
<1> QED BY <1>5, <1>6, <1>7, <1>8, <1>9, <1>10 DEF Show

(* What each frame does to the open conversation and its read-only flags.  *)
LEMMA ShowPanes ==
  ASSUME IInv, TypeOK, Show, NEW f, f = Head(inbox), NEW c \in Conv, pane'.conv = c
  PROVE  /\ pane.conv = c /\ f \notin Naming(Deletes, c)
         /\ c \in Rooms /\ f \in Lists("room_list") \cup Naming({"room_added_to"}, c) =>
              /\ pane'.left <=> "left" \in store[c]
              /\ pane'.retired <=> "retired" \in store[c]
         /\ f \notin Lists("room_list") \cup Naming({"room_added_to"}, c) =>
              /\ f \in Naming({"room_left"}, c) => pane'.left
              /\ f \notin Naming({"room_left", "group_left"}, c) => (pane'.left <=> pane.left)
              /\ f \in Naming(Retires, c) => pane'.retired
              /\ pane.retired => pane'.retired
<1>0. inbox # <<>>
  BY DEF Show, ShowRoomList, ShowGroupList, ShowDMList, ShowRoomAddedTo, ShowAdded, ShowLeft, ShowRetired, ShowDeleted, ShowOther, Take
<1>1. f \in Frames /\ FrameInv(f, srv) /\ Named = f.convs
  BY <1>0, Facing
<1>2. c # NoConv
  BY KindsDisjoint
<1>3. /\ Synced.conv = pane.conv
      /\ c \in Rooms /\ pane.conv = c => /\ Synced.left <=> "left" \in store[c]
                                         /\ Synced.retired <=> "retired" \in store[c]
  BY <1>2 DEF Synced, Opened, NoPane
<1>5. CASE ShowRoomList
  <2>1. f.type = "room_list" /\ pane' = Synced
    BY <1>5 DEF ShowRoomList, Take
  <2> QED BY <1>1, <1>3, <2>1 DEF Naming, Lists, Deletes
<1>6. CASE ShowRoomAddedTo
  <2>1. f.type = "room_added_to" /\ pane' = IF pane.conv \in f.convs THEN Synced ELSE pane
    BY <1>1, <1>6 DEF ShowRoomAddedTo, Take
  <2>2. pane.conv = c
    BY <1>3, <2>1
  <2>3. CASE c \in f.convs
    BY <1>1, <1>3, <2>1, <2>2, <2>3 DEF Naming, Lists, Deletes
  <2>4. CASE c \notin f.convs
    BY <1>1, <1>3, <2>1, <2>2, <2>4 DEF Naming, Lists, Deletes
  <2> QED BY <2>3, <2>4
<1>7. CASE ShowGroupList \/ ShowDMList \/ ShowAdded \/ ShowOther
  <2>1. f.type \in {"group_list", "dm_list", "group_created", "group_added_to", "dm_created", "left_rooms",
                    "left_groups", "room_members_list", "message"}
        /\ pane' = pane
    BY <1>7 DEF ShowGroupList, ShowDMList, ShowAdded, ShowOther, Take
  <2> QED BY <1>1, <2>1 DEF Naming, Lists, Deletes, Retires
<1>8. CASE ShowLeft
  <2>1. f.type \in {"room_left", "group_left"}
        /\ pane' = IF pane.conv \in f.convs THEN [pane EXCEPT !.left = TRUE] ELSE pane
    BY <1>1, <1>8 DEF ShowLeft, Take
  <2>2. pane.conv = c /\ (c \in f.convs => pane'.left) /\ (c \notin f.convs => pane' = pane)
        /\ pane'.retired = pane.retired
    BY <2>1 DEF TypeOK
  <2> QED BY <1>1, <2>1, <2>2 DEF Naming, Lists, Deletes, Retires
<1>9. CASE ShowRetired
  <2>1. f.type \in {"room_retired", "retired_rooms"}
        /\ pane' = IF pane.conv \in f.convs THEN [pane EXCEPT !.retired = TRUE] ELSE pane
    BY <1>1, <1>9 DEF ShowRetired, Take
  <2>2. pane.conv = c /\ (c \in f.convs => pane'.retired) /\ (c \notin f.convs => pane' = pane)
        /\ pane'.left = pane.left
    BY <2>1 DEF TypeOK
  <2> QED BY <1>1, <2>1, <2>2 DEF Naming, Lists, Deletes, Retires
<1>10. CASE ShowDeleted
  <2>1. f.type \in {"room_deleted", "deleted_rooms", "group_deleted", "deleted_groups", "dm_left"}
        /\ pane' = IF pane.conv \in f.convs THEN NoPane ELSE pane
    BY <1>1, <1>10 DEF ShowDeleted, Take
  <2>2. pane.conv = c /\ c \notin f.convs /\ pane' = pane
    BY <1>2, <2>1 DEF NoPane
  <2> QED BY <1>1, <2>1, <2>2 DEF Naming, Lists, Deletes, Retires
<1> QED BY <1>5, <1>6, <1>7, <1>8, <1>9, <1>10 DEF Show

(* The steps that end with a connection.                                   *)
Idle ==
  /\ UNCHANGED <<srv, up, welcome, wire, store, roster, inbox, ui, listed, grey, barred, pane>>
  /\ \A r \in asked' : r \in asked \/ (r \in Rooms /\ srv[r] = "in")

(* The steps after which there is a connection.                            *)
LEMMA UpSteps ==
  ASSUME Ground, [Next]_vars, up'
  PROVE  \/ up /\ \E f \in Frames, c \in Conv : Saying(f, c)
         \/ Dial /\ inbox = <<>> /\ asked = {}
         \/ up /\ (ReadFrame \/ Attach \/ Show \/ Idle \/ \E c \in Conv : Open(c))
<1>1. CASE UNCHANGED vars
  BY <1>1 DEF vars, serverVars, linkVars, clientVars, sidebarVars, Idle
<1>2. CASE Server
  <2>1. PICK f \in Frames, c \in Conv : Saying(f, c)
    BY <1>2, ServerSays DEF Ground
  <2> QED BY <2>1 DEF Saying
<1>3. CASE Link
  <2>1. ~(Drop \/ CrashInHandler \/ Quit)
    BY DEF Drop, CrashInHandler, Quit, Stop, Start, linkVars
  <2>2. CASE Dial
    BY <2>2 DEF Dial, Ground, LinkInv
  <2>3. CASE Start
    BY <2>3 DEF Start, Ground, LinkInv, linkVars
  <2>4. ReadFrame => up
    BY DEF ReadFrame
  <2> QED BY <1>3, <2>1, <2>2, <2>3, <2>4 DEF Link
<1>4. CASE TUI
  <2>1. CASE Hydrate
    BY <2>1 DEF Hydrate, Ground, LinkInv, linkVars
  <2>2. CASE Detach
    BY <2>2 DEF Detach, linkVars
  <2>3. CASE RequestRoomMembers
    BY <2>3 DEF RequestRoomMembers, Idle, linkVars, clientVars, sidebarVars
  <2>4. CASE Attach \/ \E c \in Conv : Open(c)
    BY <2>4 DEF Attach, Open, linkVars
  <2>5. CASE Show
    <3>1. \E types : Take(types)
      BY <2>5 DEF Show, ShowRoomList, ShowGroupList, ShowDMList, ShowRoomAddedTo, ShowAdded, ShowLeft, ShowRetired, ShowDeleted, ShowOther
    <3>2. up' = up
      BY <3>1 DEF Take, linkVars
    <3> QED BY <2>5, <3>2
  <2> QED BY <1>4, <2>1, <2>2, <2>3, <2>4, <2>5 DEF TUI
<1> QED BY <1>1, <1>2, <1>3, <1>4 DEF Next

(* What each does to the queues.                                           *)
LEMMA SentStep ==
  ASSUME IInv, up, NEW f, NEW d, Saying(f, d)
  PROVE  /\ \A B : Clear(inbox', wire', B) <=> Clear(inbox, wire, B) /\ f \notin B
         /\ \A M, B : Coming(inbox', wire', M, B) <=> f \in M \/ (f \notin B /\ Coming(inbox, wire, M, B))
         /\ \A B : Free(wire', B) <=> Free(wire, B) /\ f \notin B
         /\ \A M, B : Last(wire', M, B) <=> f \in M \/ (f \notin B /\ Last(wire, M, B))
<1>1. inbox' = inbox /\ wire' = Append(wire, f) /\ Queue(wire)
  BY DEF Saying, IInv, WireInv
<1>2. \A M, B : /\ Clear(inbox, Append(wire, f), B) <=> Clear(inbox, wire, B) /\ f \notin B
                /\ Coming(inbox, Append(wire, f), M, B) <=> f \in M \/ (f \notin B /\ Coming(inbox, wire, M, B))
  BY <1>1, Sent
<1>3. \A M, B : /\ Free(Append(wire, f), B) <=> Free(wire, B) /\ f \notin B
                /\ Last(Append(wire, f), M, B) <=> f \in M \/ (f \notin B /\ Last(wire, M, B))
  BY <1>1, OneMore
<1> QED BY <1>1, <1>2, <1>3

(* What the readLoop does to the queues: a frame moves from the wire to    *)
(* msgCh.                                                                  *)
LEMMA ReadStep ==
  ASSUME IInv, ReadFrame, NEW h, h = Head(wire)
  PROVE  /\ \A B : Clear(inbox', wire', B) <=> Clear(inbox, wire, B)
         /\ \A M, B : Coming(inbox', wire', M, B) <=> Coming(inbox, wire, M, B)
         /\ \A B : Free(wire, B) <=> Free(wire', B) /\ h \notin B
         /\ \A M, B : Last(wire, M, B) <=> Last(wire', M, B) \/ (h \in M /\ Free(wire', B))
         /\ \A B : Free(inbox', B) <=> Free(inbox, B) /\ h \notin B
         /\ \A M, B : Last(inbox', M, B) <=> h \in M \/ (h \notin B /\ Last(inbox, M, B))
<1>1. inbox' = Append(inbox, h) /\ wire' = Tail(wire) /\ Queue(wire) /\ Queue(inbox) /\ wire # <<>>
  BY DEF ReadFrame, IInv, WireInv
<1>2. \A M, B : /\ Clear(Append(inbox, h), Tail(wire), B) <=> Clear(inbox, wire, B)
                /\ Coming(Append(inbox, h), Tail(wire), M, B) <=> Coming(inbox, wire, M, B)
  BY <1>1, Moved
<1>3. \A M, B : /\ Free(wire, B) <=> Free(Tail(wire), B) /\ h \notin B
                /\ Last(wire, M, B) <=> Last(Tail(wire), M, B) \/ (h \in M /\ Free(Tail(wire), B))
  BY <1>1, OneLess
<1>4. \A M, B : /\ Free(Append(inbox, h), B) <=> Free(inbox, B) /\ h \notin B
                /\ Last(Append(inbox, h), M, B) <=> h \in M \/ (h \notin B /\ Last(inbox, M, B))
  BY <1>1, OneMore
<1> QED BY <1>1, <1>2, <1>3, <1>4

(* What the TUI does to the queues: the first frame of msgCh is gone.      *)
LEMMA ShowStep ==
  ASSUME IInv, Show, NEW h, h = Head(inbox)
  PROVE  /\ \A B : Clear(inbox, wire, B) <=> Clear(inbox', wire', B) /\ h \notin B
         /\ \A M, B : Coming(inbox, wire, M, B) <=> Coming(inbox', wire', M, B) \/ (h \in M /\ Clear(inbox', wire', B))
         /\ \A B : Free(inbox, B) <=> Free(inbox', B) /\ h \notin B
         /\ \A M, B : Last(inbox, M, B) <=> Last(inbox', M, B) \/ (h \in M /\ Free(inbox', B))
         /\ ui = "attached" /\ inbox # <<>> /\ inbox' = Tail(inbox)
         /\ UNCHANGED <<srv, asked, up, dials, welcome, wire, roster, ui>>
<1>1. \E types : Take(types)
  BY DEF Show, ShowRoomList, ShowGroupList, ShowDMList, ShowRoomAddedTo, ShowAdded, ShowLeft, ShowRetired, ShowDeleted, ShowOther
<1>2. ui = "attached" /\ inbox # <<>> /\ inbox' = Tail(inbox) /\ Queue(inbox)
      /\ UNCHANGED <<srv, asked, up, dials, welcome, wire, roster, ui>>
  BY <1>1 DEF Take, serverVars, linkVars, IInv, WireInv
<1>3. \A M, B : /\ Clear(inbox, wire, B) <=> Clear(Tail(inbox), wire, B) /\ h \notin B
                /\ Coming(inbox, wire, M, B) <=> Coming(Tail(inbox), wire, M, B) \/ (h \in M /\ Clear(Tail(inbox), wire, B))
  BY <1>2, Handled
<1>4. \A M, B : /\ Free(inbox, B) <=> Free(Tail(inbox), B) /\ h \notin B
                /\ Last(inbox, M, B) <=> Last(Tail(inbox), M, B) \/ (h \in M /\ Free(Tail(inbox), B))
  BY <1>2, OneLess
<1> QED BY <1>2, <1>3, <1>4

(* What a new connection does to the queues: they hold its handshake.      *)
LEMMA DialStep ==
  ASSUME IInv, Dial, inbox = <<>>
  PROVE  /\ Queue(Handshake) /\ wire' = Handshake /\ inbox' = <<>> /\ inbox = <<>>
         /\ \A f \in Said(Handshake) : f.type \in FrameTypes /\ \A c \in f.convs : c \in Conv /\ Places(f, c)
         /\ \A c \in Conv : srv[c] # "none" => \E f \in Said(Handshake) : c \in f.convs
         /\ \A B : Free(wire', B) <=> \A f \in Said(Handshake) : f \notin B
         /\ \A B : Free(inbox', B) /\ \A M : ~Last(inbox', M, B)
         /\ \A M, B : (\A f \in Said(Handshake) : f \notin B) /\ (\E f \in Said(Handshake) : f \in M)
                        => Coming(inbox', wire', M, B) /\ Last(wire', M, B)
         /\ UNCHANGED <<srv, asked, store>>
         /\ welcome' = In(Rooms, {"in"}) /\ ui' = "dialled"
<1>1. wire' = Handshake /\ inbox' = <<>> /\ UNCHANGED <<srv, asked, store>> /\ ui' = "dialled"
      /\ welcome' = In(Rooms, {"in"})
  BY DEF Dial, serverVars
<1>2. \A f \in Said(Handshake) : f.type \in FrameTypes /\ \A c \in f.convs : c \in Conv /\ Places(f, c)
  BY HandshakeFrames DEF IInv, FrameInv
<1>3. \A c \in Conv : srv[c] # "none" => \E f \in Said(Handshake) : c \in f.convs
  BY HandshakeFrames DEF IInv
<1>4. \A B : Free(Handshake, B) <=> \A f \in Said(Handshake) : f \notin B
  BY SaidIs
<1>5. \A M, B : (\A f \in Said(Handshake) : f \notin B) /\ (\E f \in Said(Handshake) : f \in M)
                  => Last(Handshake, M, B)
  BY SaidIs
<1>6. \A B : Free(<<>>, B) /\ \A M : ~Last(<<>>, M, B)
  BY NoneLeft
<1>7. Queue(Handshake)
  BY HandshakeSays
<1> QED BY <1>1, <1>2, <1>3, <1>4, <1>5, <1>6, <1>7 DEF Coming

(* What a live frame says of c.                                            *)
Turn(f, c) ==
  \/ srv'[c] = "in" /\ f.type \in {"room_added_to", "group_created", "group_added_to", "dm_created"}
       /\ (c \in Rooms => f.type = "room_added_to")
  \/ srv'[c] = "left" /\ srv[c] = "in" /\ f.type \in {"room_left", "group_left"} /\ c \notin DMs
       /\ (c \in Rooms => f.type = "room_left")
  \/ srv'[c] = "retired" /\ srv[c] = "in" /\ f.type = "room_retired" /\ c \in Rooms
  \/ srv'[c] \in Dead /\ f.type \in {"room_deleted", "group_deleted", "dm_left"}
       /\ (c \notin DMs => f.type \in Deletes)
  \/ srv'[c] = srv[c] /\ f.type = "room_members_list" /\ c \in Rooms /\ c \in asked
  \/ srv'[c] = srv[c] /\ f.type = "message" /\ srv[c] = "in"

(* What the frame of a decision says of each conversation.                 *)
LEMMA SaidOf ==
  ASSUME NEW f \in Frames, NEW d, Saying(f, d), NEW c \in Conv
  PROVE  /\ f \notin Without(c) /\ f \in Live /\ f \notin Archives
         /\ \A type \in {"room_list", "group_list", "dm_list"} : f \notin Lists(type)
         /\ d # c => srv'[c] = srv[c] /\ f \notin Adds(c) \cup Drops(c) /\ \A types : f \notin Naming(types, c)
         /\ d = c => /\ Turn(f, c)
                     /\ \A types : f \in Naming(types, c) <=> f.type \in types
                     /\ f \in Adds(c) <=> f.type \in {"room_added_to", "group_created", "group_added_to", "dm_created"}
                     /\ f \in Drops(c) <=> f.type \in {"room_deleted", "group_deleted", "dm_left"}
<1>1. f.type \in LiveTypes /\ f.convs = {d} /\ Decided(f, d) /\ \A e \in Conv : e # d => srv'[e] = srv[e]
  BY DEF Saying
<1>2. f \notin Without(c) /\ f \in Live /\ f \notin Archives
      /\ \A type \in {"room_list", "group_list", "dm_list"} : f \notin Lists(type)
  BY <1>1 DEF Without, ListOf, Live, LiveTypes, Archives, Lists
<1>3. d # c => srv'[c] = srv[c] /\ f \notin Adds(c) \cup Drops(c) /\ \A types : f \notin Naming(types, c)
  BY <1>1 DEF Adds, Drops, Naming
<1>4. ASSUME d = c PROVE Turn(f, c)
  <2>1. c \in Rooms => c \notin DMs
    BY Kinds
  <2>2. c \in Groups => c \notin DMs /\ c \notin Rooms
    BY Kinds
  <2>3. c \in DMs => c \notin Rooms
    BY Kinds
  <2> QED BY <1>1, <1>4, <2>1, <2>2, <2>3 DEF Decided, Turn, Dead, Deletes
<1>5. ASSUME d = c
      PROVE  /\ \A types : f \in Naming(types, c) <=> f.type \in types
             /\ f \in Adds(c) <=> f.type \in {"room_added_to", "group_created", "group_added_to", "dm_created"}
             /\ f \in Drops(c) <=> f.type \in {"room_deleted", "group_deleted", "dm_left"}
  BY <1>1, <1>5 DEF Naming, Adds, Drops, Joins, Deletes, Shows, Hides, LiveTypes
<1> QED BY <1>2, <1>3, <1>4, <1>5

(* Where the lists stand in a handshake.                                   *)
LEMMA ListsStand ==
  /\ \E k, P, Q :
       /\ Splits(Handshake, k, Frame("room_list", In(Rooms, {"in"})), P, Q)
       /\ \A g \in P : g.type \in {"deleted_rooms", "retired_rooms", "left_rooms"}
       /\ \A g \in Q : g.type \in {"deleted_groups", "left_groups", "group_list", "dm_list"}
  /\ \E k, P, Q :
       /\ Splits(Handshake, k, Frame("group_list", In(Groups, {"in"})), P, Q)
       /\ \A g \in P : g.type \in {"deleted_rooms", "retired_rooms", "left_rooms", "room_list",
                                   "deleted_groups", "left_groups"}
       /\ \A g \in Q : g.type = "dm_list"
<1>1. PICK a, b, c, d, e, f, g, h, rl, gl :
        /\ a = ListFrame("deleted_rooms", In(Rooms, Dead))
        /\ b = ListFrame("retired_rooms", In(Rooms, {"retired"}))
        /\ c = ListFrame("left_rooms", In(Rooms, {"left"}))
        /\ rl = Frame("room_list", In(Rooms, {"in"})) /\ d = <<rl>>
        /\ e = ListFrame("deleted_groups", In(Groups, Dead))
        /\ f = ListFrame("left_groups", In(Groups, {"left"}))
        /\ gl = Frame("group_list", In(Groups, {"in"})) /\ g = <<gl>>
        /\ h = <<DMList>>
  OBVIOUS
<1>2. Queue(a) /\ Queue(b) /\ Queue(c) /\ Queue(d) /\ Queue(e) /\ Queue(f) /\ Queue(g) /\ Queue(h)
  BY <1>1, Listing, Singly
<1>3. /\ Said(d) = {rl} /\ Said(g) = {gl} /\ Said(h) = {DMList}
  BY <1>1, Singly
<1>4. Handshake = a \o b \o c \o d \o e \o f \o g \o h
  BY <1>1 DEF Handshake, DMList
<1>5. PICK p2, p3, p4, p5, p6, p7 :
        /\ p2 = a \o b /\ p3 = p2 \o c /\ p4 = p3 \o d /\ p5 = p4 \o e /\ p6 = p5 \o f /\ p7 = p6 \o g
  OBVIOUS
<1>6. Queue(p2) /\ Said(p2) = Said(a) \cup Said(b)
  BY <1>2, <1>5, SaidBoth
<1>7. Queue(p3) /\ Said(p3) = Said(p2) \cup Said(c)
  BY <1>2, <1>5, <1>6, SaidBoth
<1>8. Queue(p4) /\ Said(p4) = Said(p3) \cup Said(d)
  BY <1>2, <1>5, <1>7, SaidBoth
<1>9. Queue(p5) /\ Said(p5) = Said(p4) \cup Said(e)
  BY <1>2, <1>5, <1>8, SaidBoth
<1>10. Queue(p6) /\ Said(p6) = Said(p5) \cup Said(f)
  BY <1>2, <1>5, <1>9, SaidBoth
<1>11. Handshake = p7 \o h
  BY <1>4, <1>5
<1>12. PICK k : Splits(p4, k, rl, Said(p3), {})
  BY <1>1, <1>5, <1>7, SplitsLast
<1>13. Splits(p5, k, rl, Said(p3), Said(e))
  <2>1. Splits(p5, k, rl, Said(p3), {} \cup Said(e))
    BY <1>2, <1>5, <1>12, SplitsMore
  <2> QED BY <2>1
<1>14. Splits(p6, k, rl, Said(p3), Said(e) \cup Said(f))
  BY <1>2, <1>5, <1>13, SplitsMore
<1>15. Splits(p7, k, rl, Said(p3), (Said(e) \cup Said(f)) \cup Said(g))
  BY <1>2, <1>5, <1>14, SplitsMore
<1>16. Splits(Handshake, k, rl, Said(p3), ((Said(e) \cup Said(f)) \cup Said(g)) \cup Said(h))
  BY <1>2, <1>11, <1>15, SplitsMore
<1>17. PICK i : Splits(p7, i, gl, Said(p6), {})
  BY <1>1, <1>5, <1>10, SplitsLast
<1>18. Splits(Handshake, i, gl, Said(p6), {} \cup Said(h))
  BY <1>2, <1>11, <1>17, SplitsMore
<1>19. /\ \A x \in Said(a) : x.type = "deleted_rooms"
       /\ \A x \in Said(b) : x.type = "retired_rooms"
       /\ \A x \in Said(c) : x.type = "left_rooms"
       /\ \A x \in Said(d) : x.type = "room_list"
       /\ \A x \in Said(e) : x.type = "deleted_groups"
       /\ \A x \in Said(f) : x.type = "left_groups"
       /\ \A x \in Said(g) : x.type = "group_list"
       /\ \A x \in Said(h) : x.type = "dm_list"
  <2>1. \A type, S : Frame(type, S).type = type
    BY DEF Frame
  <2>2. \A type, S : \A x \in Said(ListFrame(type, S)) : x.type = type
    BY <2>1, Listing
  <2>3. DMList.type = "dm_list"
    BY DEF DMList
  <2> QED BY <1>1, <1>3, <2>1, <2>2, <2>3
<1>20. \A x \in Said(p3) : x.type \in {"deleted_rooms", "retired_rooms", "left_rooms"}
  BY <1>6, <1>7, <1>19
<1>21. \A x \in Said(p6) : x.type \in {"deleted_rooms", "retired_rooms", "left_rooms", "room_list",
                                       "deleted_groups", "left_groups"}
  BY <1>8, <1>9, <1>10, <1>19, <1>20
<1>22. /\ \A x \in ((Said(e) \cup Said(f)) \cup Said(g)) \cup Said(h) :
            x.type \in {"deleted_groups", "left_groups", "group_list", "dm_list"}
       /\ \A x \in {} \cup Said(h) : x.type = "dm_list"
  BY <1>19
<1> QED BY <1>1, <1>16, <1>18, <1>20, <1>21, <1>22

(* The lists of a handshake come once, before every live frame.            *)
Ordered(type) ==
  /\ Orderly(inbox, Live \cup Lists(type), Lists(type))
  /\ Orderly(wire, Live \cup Lists(type), Lists(type))
  /\ ~Free(inbox, Live \cup Lists(type)) => Free(wire, Lists(type))

(* After the last archive list comes the list of the rooms.                *)
ArchivesListed ==
  Coming(inbox, wire, Lists("room_list"), Archives) \/ Clear(inbox, wire, Archives)

(* The list of the rooms of the welcome is not shown before it.            *)
Welcomes == {f \in Frames : f.type = "room_list" /\ f.convs = welcome}

(* What the order of the frames guarantees while there is a connection.    *)
OrderInv ==
  up => /\ \A type \in {"room_list", "group_list"} : Ordered(type)
        /\ ArchivesListed
        /\ ui = "dialled" => Coming(inbox, wire, Welcomes, {})

(* Only one frame of a handshake is such a list.                           *)
LEMMA OrderlyOnce ==
  ASSUME NEW type \in {"room_list", "group_list"}
  PROVE  Orderly(Handshake, Live \cup Lists(type), Lists(type))
<1>1. PICK k, f, P, Q : /\ Splits(Handshake, k, f, P, Q)
                        /\ \A g \in P \cup Q : g.type \notin LiveTypes \cup {type}
  BY ListsStand DEF LiveTypes
<1>2. \A n \in DOMAIN Handshake : n < k \/ n > k => Handshake[n].type \notin LiveTypes \cup {type}
  BY <1>1 DEF Splits
<1>3. k \in Nat /\ \A n \in DOMAIN Handshake : n \in Nat
  <2>1. PICK s : s = Handshake
    OBVIOUS
  <2>2. \A n \in DOMAIN s : n \in Nat
    BY <2>1, HandshakeSays, LenProperties DEF Queue
  <2> QED BY <1>1, <2>1, <2>2 DEF Splits
<1>4. \A n \in DOMAIN Handshake : Handshake[n].type \in LiveTypes \cup {type} => n = k
  BY <1>2, <1>3
<1>5. \A n, m \in DOMAIN Handshake : n = k /\ m > n => m # k
  BY <1>3
<1> QED BY <1>4, <1>5 DEF Orderly, Live, Lists

(* Every step keeps the order.                                             *)
LEMMA OrderStep ==
  ASSUME IInv, IInv', Ground, Ground', OrderInv, [Next]_vars
  PROVE  OrderInv'
<1> SUFFICES ASSUME up'
             PROVE  /\ \A type \in {"room_list", "group_list"} : Ordered(type)'
                    /\ ArchivesListed'
                    /\ ui' = "dialled" => Coming(inbox', wire', Welcomes', {})
  BY DEF OrderInv
<1>q. Queue(inbox) /\ Queue(wire)
  BY DEF IInv, WireInv
<1>t. \A type \in {"room_list", "group_list"} : \A f \in Lists(type) : f \in Live \cup Lists(type)
  OBVIOUS
<1>1. ASSUME up, NEW f \in Frames, NEW d \in Conv, Saying(f, d)
      PROVE  OrderInv'
  <2>1. f \notin Archives /\ \A type \in {"room_list", "group_list"} : f \notin Lists(type)
    BY <1>1, SaidOf
  <2>2. wire' = Append(wire, f) /\ UNCHANGED <<inbox, welcome, ui>>
    BY <1>1 DEF Saying
  <2>3. ASSUME NEW type \in {"room_list", "group_list"} PROVE Ordered(type)'
    <3>1. Ordered(type) /\ f \notin Lists(type)
      BY <1>1, <2>1 DEF OrderInv
    <3>2. Orderly(Append(wire, f), Live \cup Lists(type), Lists(type))
      BY <1>q, <3>1, OrderlyMore DEF Ordered
    <3>3. Free(wire', Lists(type)) <=> Free(wire, Lists(type))
      BY <1>1, <3>1, SentStep
    <3> QED BY <2>2, <3>1, <3>2, <3>3 DEF Ordered
  <2>4. ArchivesListed'
    BY <1>1, <2>1, SentStep DEF OrderInv, ArchivesListed
  <2>5. ui' = "dialled" => Coming(inbox', wire', Welcomes', {})
    BY <1>1, <2>2, SentStep DEF OrderInv, Welcomes
  <2> QED BY <2>3, <2>4, <2>5 DEF OrderInv
<1>2. ASSUME Dial, inbox = <<>> PROVE OrderInv'
  <2>1. wire' = Handshake /\ inbox' = <<>> /\ welcome' = In(Rooms, {"in"})
    BY <1>2, DialStep
  <2>2. ASSUME NEW type \in {"room_list", "group_list"} PROVE Ordered(type)'
    <3>1. Orderly(<<>>, Live \cup Lists(type), Lists(type)) /\ Free(<<>>, Live \cup Lists(type))
      BY Nothing, NoneLeft DEF Orderly
    <3> QED BY <2>1, <3>1, OrderlyOnce DEF Ordered
  <2>f. Frame("room_list", In(Rooms, {"in"})) \in Frames
        /\ Frame("room_list", In(Rooms, {"in"})).type = "room_list"
        /\ Frame("room_list", In(Rooms, {"in"})).convs = In(Rooms, {"in"})
    <3>1. In(Rooms, {"in"}) \subseteq Conv
      BY Kinds DEF In
    <3> QED BY <3>1, FrameTyped DEF FrameTypes, Frame
  <2>3. ArchivesListed'
    <3>1. PICK k, P, Q :
            /\ Splits(Handshake, k, Frame("room_list", In(Rooms, {"in"})), P, Q)
            /\ \A g \in P : g.type \in {"deleted_rooms", "retired_rooms", "left_rooms"}
            /\ \A g \in Q : g.type \in {"deleted_groups", "left_groups", "group_list", "dm_list"}
      BY ListsStand
    <3>2. k \in DOMAIN Handshake /\ Handshake[k] \in Lists("room_list")
      BY <2>f, <3>1 DEF Splits, Lists
    <3>3. \A m \in DOMAIN Handshake : m > k => Handshake[m] \notin Archives
      BY <3>1 DEF Splits, Archives
    <3>4. Last(Handshake, Lists("room_list"), Archives)
      BY <3>2, <3>3 DEF Last
    <3> QED BY <2>1, <3>4 DEF ArchivesListed, Coming
  <2>4. Coming(inbox', wire', Welcomes', {})
    <3>1. Frame("room_list", In(Rooms, {"in"})) \in Said(Handshake)
      BY HandshakeSays
    <3>2. Frame("room_list", In(Rooms, {"in"})) \in Welcomes'
      BY <2>1, <2>f DEF Welcomes
    <3> QED BY <1>2, <3>1, <3>2, DialStep
  <2> QED BY <2>2, <2>3, <2>4 DEF OrderInv
<1>3. ASSUME up, ReadFrame PROVE OrderInv'
  <2>0. PICK h : h = Head(wire)
    OBVIOUS
  <2>2. wire' = Tail(wire) /\ inbox' = Append(inbox, h) /\ wire # <<>> /\ UNCHANGED <<welcome, ui>>
    BY <1>3, <2>0 DEF ReadFrame, linkVars
  <2>3. ASSUME NEW type \in {"room_list", "group_list"} PROVE Ordered(type)'
    <3>0. PICK A, L : A = Live \cup Lists(type) /\ L = Lists(type)
      OBVIOUS
    <3>1. /\ Orderly(inbox, A, L) /\ Orderly(wire, A, L) /\ (~Free(inbox, A) => Free(wire, L))
      BY <1>3, <3>0 DEF OrderInv, Ordered
    <3>2. Orderly(Tail(wire), A, L) /\ (h \in A => Free(Tail(wire), L))
      BY <1>q, <2>0, <2>2, <3>1, OrderlyLess
    <3>3. /\ Free(wire, L) <=> Free(wire', L) /\ h \notin L
          /\ Free(inbox', A) <=> Free(inbox, A) /\ h \notin A
      BY <1>3, <2>0, ReadStep
    <3>4. Orderly(Append(inbox, h), A, L)
      BY <1>q, <3>1, <3>3, OrderlyMore
    <3>5. ~Free(inbox', A) => Free(wire', L)
      BY <2>2, <3>1, <3>2, <3>3
    <3> QED BY <2>2, <3>0, <3>2, <3>4, <3>5 DEF Ordered
  <2>4. ArchivesListed'
    BY <1>3, <2>0, ReadStep DEF OrderInv, ArchivesListed
  <2>5. ui' = "dialled" => Coming(inbox', wire', Welcomes', {})
    BY <1>3, <2>0, <2>2, ReadStep DEF OrderInv, Welcomes
  <2> QED BY <2>3, <2>4, <2>5 DEF OrderInv
<1>4. ASSUME up, Show PROVE OrderInv'
  <2>0. PICK h : h = Head(inbox)
    OBVIOUS
  <2>2. inbox' = Tail(inbox) /\ inbox # <<>> /\ UNCHANGED <<wire, welcome, ui>> /\ ui = "attached"
    BY <1>4, <2>0, ShowStep
  <2>3. ASSUME NEW type \in {"room_list", "group_list"} PROVE Ordered(type)'
    <3>0. PICK A, L : A = Live \cup Lists(type) /\ L = Lists(type)
      OBVIOUS
    <3>1. /\ Orderly(inbox, A, L) /\ Orderly(wire, A, L) /\ (~Free(inbox, A) => Free(wire, L))
      BY <1>4, <3>0 DEF OrderInv, Ordered
    <3>2. Orderly(Tail(inbox), A, L)
      BY <1>q, <2>2, <3>1, OrderlyLess
    <3>3. Free(inbox, A) <=> Free(inbox', A) /\ h \notin A
      BY <1>4, <2>0, ShowStep
    <3> QED BY <2>2, <3>0, <3>1, <3>2, <3>3 DEF Ordered
  <2>4. ArchivesListed'
    BY <1>4, <2>0, ShowStep DEF OrderInv, ArchivesListed
  <2> QED BY <2>2, <2>3, <2>4 DEF OrderInv
<1>5. ASSUME up, Attach \/ Idle \/ \E c \in Conv : Open(c) PROVE OrderInv'
  <2>1. UNCHANGED <<inbox, wire, welcome>> /\ (ui' = "dialled" => ui = "dialled")
    BY <1>5 DEF Attach, Open, Idle, linkVars
  <2> QED BY <1>5, <2>1 DEF OrderInv, Ordered, ArchivesListed, Welcomes
<1> QED BY <1>1, <1>2, <1>3, <1>4, <1>5, UpSteps DEF OrderInv

(* With no connection there is no order to keep.                           *)
LEMMA OrderInit ==
  ASSUME Init
  PROVE  OrderInv
BY DEF Init, OrderInv

(* What DueInv says of the wire.                                           *)
LEMMA DueQueue ==
  ASSUME NEW s, \A n \in DOMAIN s : s[n] \in Frames, NEW c, NEW goal, NEW flags, Due(goal, flags, s, c),
         NEW M, \A f \in Frames : Makes(goal, f, c) => f.type \in M,
         NEW B, \A f \in Frames : c \in f.convs /\ f.type \in B => Breaks(goal, f, c)
  PROVE  \/ Last(s, Naming(M, c), Naming(B, c))
         \/ Holds(goal, flags) /\ Free(s, Naming(B, c))
<1>1. \A f \in Frames : Makes(goal, f, c) => f \in Naming(M, c)
  BY DEF Makes, Naming
<1>2. \A f \in Frames : f \in Naming(B, c) => Breaks(goal, f, c)
  BY DEF Naming
<1>3. CASE Holds(goal, flags) /\ \A n \in DOMAIN s : ~Breaks(goal, s[n], c)
  BY <1>2, <1>3 DEF Free
<1>4. CASE \E n \in DOMAIN s : /\ Makes(goal, s[n], c)
                               /\ \A m \in DOMAIN s : m > n => ~Breaks(goal, s[m], c)
  BY <1>1, <1>2, <1>4 DEF Last
<1> QED BY <1>3, <1>4 DEF Due

(* What the store is owed, as frames on the wire, for each standing of a   *)
(* conversation.                                                           *)
LEMMA DueIs ==
  ASSUME IInv, TypeOK, up, NEW c \in Conv
  PROVE  /\ srv[c] \in {"in", "retired"} =>
              \/ Last(wire, Naming(Stores, c), Naming(Deletes, c))
              \/ "row" \in store[c] /\ Free(wire, Naming(Deletes, c))
         /\ srv[c] = "in" /\ c \notin DMs =>
              \/ Last(wire, Naming(Joins \cup Deletes, c), Naming(Leaves, c))
              \/ "left" \notin store[c] /\ Free(wire, Naming(Leaves, c))
         /\ srv[c] = "left" /\ c \in Rooms =>
              \/ Last(wire, Naming(Leaves, c), Naming(Stores \cup Deletes, c))
              \/ ("row" \in store[c] => "left" \in store[c]) /\ Free(wire, Naming(Stores \cup Deletes, c))
         /\ srv[c] = "retired" =>
              \/ Last(wire, Naming(Retires, c), Naming(Deletes, c))
              \/ "retired" \in store[c] /\ Free(wire, Naming(Deletes, c))
         /\ srv[c] \in Dead /\ c \notin DMs =>
              \/ Last(wire, Naming(Deletes, c), Naming(Stores, c))
              \/ "row" \notin store[c] /\ Free(wire, Naming(Stores, c))
<1>1. \A n \in DOMAIN wire : wire[n] \in Frames
  BY DEF TypeOK
<1>2. \A goal \in Wanted(srv[c], c) : Due(goal, store[c], wire, c)
  BY DEF IInv, DueInv
<1>3. ASSUME srv[c] \in {"in", "retired"}
      PROVE  \/ Last(wire, Naming(Stores, c), Naming(Deletes, c))
             \/ "row" \in store[c] /\ Free(wire, Naming(Deletes, c))
  <2>1. Due("row", store[c], wire, c)
    BY <1>2, <1>3, WantedIs
  <2>2. /\ \A f \in Frames : Makes("row", f, c) => f.type \in Stores
        /\ \A f \in Frames : c \in f.convs /\ f.type \in Deletes => Breaks("row", f, c)
        /\ Holds("row", store[c]) => "row" \in store[c]
    BY DEF Makes, Breaks, Holds
  <2>3. \/ Last(wire, Naming(Stores, c), Naming(Deletes, c))
        \/ Holds("row", store[c]) /\ Free(wire, Naming(Deletes, c))
    BY <1>1, <2>1, <2>2, DueQueue
  <2> QED BY <2>2, <2>3
<1>4. ASSUME srv[c] = "in", c \notin DMs
      PROVE  \/ Last(wire, Naming(Joins \cup Deletes, c), Naming(Leaves, c))
             \/ "left" \notin store[c] /\ Free(wire, Naming(Leaves, c))
  <2>1. Due("joined", store[c], wire, c)
    BY <1>2, <1>4, WantedIs
  <2>2. /\ \A f \in Frames : Makes("joined", f, c) => f.type \in Joins \cup Deletes
        /\ \A f \in Frames : c \in f.convs /\ f.type \in Leaves => Breaks("joined", f, c)
        /\ Holds("joined", store[c]) => "left" \notin store[c]
    BY DEF Makes, Breaks, Holds
  <2>3. \/ Last(wire, Naming(Joins \cup Deletes, c), Naming(Leaves, c))
        \/ Holds("joined", store[c]) /\ Free(wire, Naming(Leaves, c))
    BY <1>1, <2>1, <2>2, DueQueue
  <2> QED BY <2>2, <2>3
<1>5. ASSUME srv[c] = "left", c \in Rooms
      PROVE  \/ Last(wire, Naming(Leaves, c), Naming(Stores \cup Deletes, c))
             \/ ("row" \in store[c] => "left" \in store[c]) /\ Free(wire, Naming(Stores \cup Deletes, c))
  <2>1. Due("inactive", store[c], wire, c)
    BY <1>2, <1>5, WantedIs
  <2>2. /\ \A f \in Frames : Makes("inactive", f, c) => f.type \in Leaves
        /\ \A f \in Frames : c \in f.convs /\ f.type \in Stores \cup Deletes => Breaks("inactive", f, c)
        /\ Holds("inactive", store[c]) => ("row" \in store[c] => "left" \in store[c])
    BY DEF Makes, Breaks, Holds
  <2>3. \/ Last(wire, Naming(Leaves, c), Naming(Stores \cup Deletes, c))
        \/ Holds("inactive", store[c]) /\ Free(wire, Naming(Stores \cup Deletes, c))
    BY <1>1, <2>1, <2>2, DueQueue
  <2> QED BY <2>2, <2>3
<1>6. ASSUME srv[c] = "retired"
      PROVE  \/ Last(wire, Naming(Retires, c), Naming(Deletes, c))
             \/ "retired" \in store[c] /\ Free(wire, Naming(Deletes, c))
  <2>1. Due("retired", store[c], wire, c)
    BY <1>2, <1>6, WantedIs
  <2>2. /\ \A f \in Frames : Makes("retired", f, c) => f.type \in Retires
        /\ \A f \in Frames : c \in f.convs /\ f.type \in Deletes => Breaks("retired", f, c)
        /\ Holds("retired", store[c]) => "retired" \in store[c]
    BY DEF Makes, Breaks, Holds
  <2>3. \/ Last(wire, Naming(Retires, c), Naming(Deletes, c))
        \/ Holds("retired", store[c]) /\ Free(wire, Naming(Deletes, c))
    BY <1>1, <2>1, <2>2, DueQueue
  <2> QED BY <2>2, <2>3
<1>7. ASSUME srv[c] \in Dead, c \notin DMs
      PROVE  \/ Last(wire, Naming(Deletes, c), Naming(Stores, c))
             \/ "row" \notin store[c] /\ Free(wire, Naming(Stores, c))
  <2>1. Due("gone", store[c], wire, c)
    BY <1>2, <1>7, WantedIs
  <2>2. /\ \A f \in Frames : Makes("gone", f, c) => f.type \in Deletes
        /\ \A f \in Frames : c \in f.convs /\ f.type \in Stores => Breaks("gone", f, c)
        /\ Holds("gone", store[c]) => "row" \notin store[c]
    BY DEF Makes, Breaks, Holds
  <2>3. \/ Last(wire, Naming(Deletes, c), Naming(Stores, c))
        \/ Holds("gone", store[c]) /\ Free(wire, Naming(Stores, c))
    BY <1>1, <2>1, <2>2, DueQueue
  <2> QED BY <2>2, <2>3
<1> QED BY <1>3, <1>4, <1>5, <1>6, <1>7

(* A room the user is in is not archived, or the frame that opens it is on *)
(* the wire.                                                               *)
LEMMA OpenOrComing ==
  ASSUME IInv, TypeOK, OrderInv, up, NEW r \in Rooms, srv[r] = "in"
  PROVE  \/ "left" \notin store[r]
         \/ Last(wire, Naming({"room_list", "room_added_to"}, r), Naming(Leaves, r) \cup Without(r))
<1>1. r \in Conv /\ r \notin DMs /\ r \notin Groups
  BY Kinds
<1>2. PICK k \in Nat : DOMAIN wire = 1..k
  <2>1. Queue(wire)
    BY DEF IInv, WireInv
  <2> QED BY <2>1, Appended
<1>3. ASSUME NEW n \in DOMAIN wire, wire[n] \in Naming(Stores, r)
      PROVE  wire[n] \in Naming({"room_list", "room_added_to"}, r)
  <2>1. FrameInv(wire[n], srv) /\ r \in wire[n].convs /\ wire[n].type \in Stores /\ wire[n] \in Frames
    BY <1>3 DEF IInv, WireInv, Naming
  <2>2. wire[n].type \notin Retires /\ Suits(wire[n].type, r)
    BY <2>1 DEF FrameInv
  <2>3. wire[n].type \in {"room_list", "room_added_to"}
    BY <1>1, <2>1, <2>2 DEF Suits, Stores, Joins, GroupTypes, DMTypes
  <2> QED BY <2>1, <2>3 DEF Naming
<1>4. ASSUME NEW n \in DOMAIN wire, wire[n] \in Naming(Stores, r),
             \A m \in DOMAIN wire : m > n => wire[m] \notin Naming(Leaves, r)
      PROVE  Last(wire, Naming({"room_list", "room_added_to"}, r), Naming(Leaves, r) \cup Without(r))
  <2>1. Last(wire, Naming({"room_list", "room_added_to"}, r), Naming(Leaves, r))
    BY <1>3, <1>4 DEF Last
  <2>2. Orderly(wire, Live \cup Lists("room_list"), Lists("room_list"))
    BY DEF OrderInv, Ordered
  <2>3. Naming({"room_list", "room_added_to"}, r) \subseteq Live \cup Lists("room_list")
    BY DEF Naming, Live, LiveTypes, Lists
  <2>4. Naming(Leaves, r) \cup Without(r) \subseteq Naming(Leaves, r) \cup Lists("room_list")
    BY DEF Without, ListOf, Lists
  <2> QED BY <2>1, <2>2, <2>3, <2>4, OrderlyLast
<1>5. CASE Last(wire, Naming(Joins \cup Deletes, r), Naming(Leaves, r)) /\ "left" \in store[r]
  <2>1. PICK n \in DOMAIN wire : /\ wire[n] \in Naming(Joins \cup Deletes, r)
                                 /\ \A m \in DOMAIN wire : m > n => wire[m] \notin Naming(Leaves, r)
    BY <1>5 DEF Last
  <2>2. CASE wire[n] \in Naming(Joins, r)
    <3>1. wire[n] \in Naming(Stores, r)
      BY <2>2 DEF Naming, Stores
    <3> QED BY <1>4, <2>1, <3>1
  <2>3. CASE wire[n] \in Naming(Deletes, r)
    <3>1. Last(wire, Naming(Stores, r), Naming(Deletes, r))
      BY <1>1, <2>3, DueIs DEF Free
    <3>2. PICK m \in DOMAIN wire : /\ wire[m] \in Naming(Stores, r)
                                   /\ \A i \in DOMAIN wire : i > m => wire[i] \notin Naming(Deletes, r)
      BY <3>1 DEF Last
    <3>3. m # n
      BY <2>3, <3>2 DEF Naming, Stores, Joins, Retires, Deletes
    <3>4. ~(n > m)
      BY <2>3, <3>2
    <3>5. m > n /\ \A i \in DOMAIN wire : i > m => i > n
      BY <1>2, <3>3, <3>4
    <3> QED BY <1>4, <2>1, <3>2, <3>5
  <2> QED BY <2>1, <2>2, <2>3 DEF Naming
<1> QED BY <1>1, <1>5, DueIs

(* A room left is archived, or its leave or the list of the rooms comes.   *)
LEMMA LeftOrComing ==
  ASSUME IInv, TypeOK, up, NEW r \in Rooms, srv[r] = "left", NEW s,
         Coming(s, wire, Lists("room_list"), Archives) \/ Clear(s, wire, Archives)
  PROVE  \/ ("row" \in store[r] => "left" \in store[r]) /\ Free(wire, Naming(Stores \cup Deletes, r))
         \/ Coming(s, wire, Naming({"room_left"}, r) \cup Lists("room_list"), {})
<1>1. r \in Conv /\ r \notin Groups
  BY Kinds
<1>2. ASSUME Last(wire, Naming(Leaves, r), Naming(Stores \cup Deletes, r))
      PROVE  Coming(s, wire, Naming({"room_left"}, r) \cup Lists("room_list"), {})
  <2>1. PICK n \in DOMAIN wire : wire[n] \in Naming(Leaves, r)
    BY <1>2 DEF Last
  <2>2. FrameInv(wire[n], srv) /\ r \in wire[n].convs /\ wire[n].type \in Leaves /\ wire[n] \in Frames
    BY <2>1 DEF IInv, WireInv, Naming
  <2>3. wire[n].type \in {"room_left", "left_rooms"}
    BY <1>1, <2>2 DEF FrameInv, Suits, Leaves, GroupTypes
  <2>4. CASE wire[n].type = "room_left"
    BY <2>2, <2>4 DEF Coming, Last, Naming
  <2>5. CASE wire[n].type = "left_rooms"
    <3>1. ~Free(wire, Archives)
      BY <2>1, <2>2, <2>5 DEF Free, Archives
    <3>2. Coming(s, wire, Lists("room_list"), Archives)
      BY <3>1 DEF Clear
    <3> QED BY <3>2 DEF Coming, Last, Free
  <2> QED BY <2>3, <2>4, <2>5
<1> QED BY <1>1, <1>2, DueIs

(* A retired room is read-only, or the frame that says so comes.           *)
LEMMA RetiredOrComing ==
  ASSUME IInv, TypeOK, up, NEW r \in Rooms, srv[r] = "retired", NEW s
  PROVE  "retired" \in store[r] \/ Coming(s, wire, Naming(Retires, r), {})
<1>1. r \in Conv
  BY Kinds
<1> QED BY <1>1, DueIs DEF Coming, Last

(* A deleted conversation has no archived row, or its deletion comes.      *)
LEMMA GoneOrComing ==
  ASSUME IInv, TypeOK, up, NEW c \in Conv, c \notin DMs, srv[c] \in Dead, NEW s
  PROVE  ~ReadOnly(store[c]) \/ Coming(s, wire, Drops(c), Adds(c))
<1>1. CASE "row" \notin store[c]
  <2>1. store[c] \cap RowFlags = {}
    BY <1>1 DEF IInv, StoreInv, OfRow
  <2> QED BY <2>1 DEF ReadOnly, RowFlags, Flags
<1>2. CASE Last(wire, Naming(Deletes, c), Naming(Stores, c))
  <2>1. PICK n \in DOMAIN wire : /\ wire[n] \in Naming(Deletes, c)
                                 /\ \A m \in DOMAIN wire : m > n => wire[m] \notin Naming(Stores, c)
    BY <1>2 DEF Last
  <2>2. \A f \in Naming(Deletes, c) : f \in Drops(c)
    BY DEF Naming, Drops
  <2>3. \A f \in Adds(c) : f \in Naming(Stores, c)
    BY DEF Naming, Adds, Stores, Shows
  <2> QED BY <2>1, <2>2, <2>3 DEF Coming, Last
<1> QED BY <1>1, <1>2, DueIs

(* What a handshake says of c.                                             *)
LEMMA DialOf ==
  ASSUME IInv, NEW c \in Conv
  PROVE  /\ \A f \in Said(Handshake) :
              /\ f \in Frames /\ f \notin Live
              /\ f \in Adds(c) => srv[c] = "in"
              /\ f \in Drops(c) \cup Naming(Deletes, c) => srv[c] \in Dead
              /\ f \in Naming(Leaves, c) => srv[c] = "left"
              /\ f \in Naming(Retires, c) => srv[c] = "retired"
              /\ f \in Naming(Stores \ Retires, c) => srv[c] = "in" \/ c \in DMs
              /\ f \in Without(c) => srv[c] # "in" /\ (c \in DMs => srv[c] \notin Dead)
         /\ srv[c] = "in" => \E f \in Said(Handshake) : f \in Adds(c) /\ (c \in Rooms => f.type = "room_list")
         /\ srv[c] = "left" => \E f \in Said(Handshake) : f \in Naming(Leaves, c)
         /\ srv[c] = "retired" => \E f \in Said(Handshake) : f \in Naming(Retires, c)
         /\ srv[c] \in Dead => \E f \in Said(Handshake) : f \in Drops(c) /\ (c \notin DMs => f \in Naming(Deletes, c))
         /\ \E f \in Said(Handshake) : f \in Lists(ListOf(c))
         /\ \E f \in Said(Handshake) : f \in Lists("room_list")
<1>1. \A f \in Said(Handshake) : f \in Frames
  <2>1. PICK s : s = Handshake
    OBVIOUS
  <2>2. \A n \in DOMAIN s : s[n] \in Frames
    BY <2>1, HandshakeTyped
  <2> QED BY <2>1, <2>2 DEF Said
<1>2. \A f \in Said(Handshake) : \A d \in f.convs : Places(f, d)
  BY HandshakeFrames DEF IInv
<1>3. \A d \in Conv : srv[d] # "none" => \E f \in Said(Handshake) : d \in f.convs
  BY HandshakeFrames DEF IInv
<1>4. \A f \in Said(Handshake) :
        \/ f = DMList
        \/ f.type = "deleted_rooms" /\ f.convs = In(Rooms, Dead)
        \/ f.type = "retired_rooms" /\ f.convs = In(Rooms, {"retired"})
        \/ f.type = "left_rooms" /\ f.convs = In(Rooms, {"left"})
        \/ f.type = "room_list" /\ f.convs = In(Rooms, {"in"})
        \/ f.type = "deleted_groups" /\ f.convs = In(Groups, Dead)
        \/ f.type = "left_groups" /\ f.convs = In(Groups, {"left"})
        \/ f.type = "group_list" /\ f.convs = In(Groups, {"in"})
  <2>1. \A type, S : Frame(type, S).type = type /\ Frame(type, S).convs = S
    BY DEF Frame
  <2> QED BY <2>1, HandshakeSays, Listing
<1>5. DMList.type = "dm_list" /\ DMList.convs = In(DMs, {"in"} \cup Dead)
  BY DEF DMList
<1>6. c \in Rooms \/ c \in Groups \/ c \in DMs
  BY DEF Conv
<1>7. /\ c \in Rooms => c \notin Groups /\ c \notin DMs
      /\ c \in Groups => c \notin Rooms /\ c \notin DMs
      /\ c \in DMs => c \notin Rooms /\ c \notin Groups
  BY Kinds
<1>8. ASSUME NEW f \in Said(Handshake)
      PROVE  /\ f \in Frames /\ f \notin Live
             /\ f \in Adds(c) => srv[c] = "in"
             /\ f \in Drops(c) \cup Naming(Deletes, c) => srv[c] \in Dead
             /\ f \in Naming(Leaves, c) => srv[c] = "left"
             /\ f \in Naming(Retires, c) => srv[c] = "retired"
             /\ f \in Naming(Stores \ Retires, c) => srv[c] = "in" \/ c \in DMs
             /\ f \in Without(c) => srv[c] # "in" /\ (c \in DMs => srv[c] \notin Dead)
  <2>1. f \in Frames /\ f \notin Live
    BY <1>1, <1>4, <1>5 DEF Live, LiveTypes
  <2>2. c \in f.convs => Places(f, c)
    BY <1>2
  <2>3. f \in Adds(c) => srv[c] = "in"
    BY <2>2 DEF Places, Adds, Joins, Shows
  <2>4. f \in Drops(c) \cup Naming(Deletes, c) => srv[c] \in Dead
    BY <2>2 DEF Places, Drops, Naming, Deletes, Hides
  <2>5. f \in Naming(Leaves, c) => srv[c] = "left"
    BY <2>2 DEF Places, Naming, Leaves
  <2>6. f \in Naming(Retires, c) => srv[c] = "retired"
    BY <2>2 DEF Places, Naming, Retires
  <2>7. f \in Naming(Stores \ Retires, c) => srv[c] = "in" \/ c \in DMs
    BY <2>2 DEF Places, Naming, Retires, Stores, Joins
  <2>8. f \in Without(c) => srv[c] # "in" /\ (c \in DMs => srv[c] \notin Dead)
    BY <1>4, <1>5, <1>6, <1>7 DEF Without, ListOf, In
  <2> QED BY <2>1, <2>3, <2>4, <2>5, <2>6, <2>7, <2>8
<1>9. ASSUME srv[c] # "none"
      PROVE  \E f \in Said(Handshake) :
               /\ srv[c] = "in" => f \in Adds(c) /\ (c \in Rooms => f.type = "room_list")
               /\ srv[c] = "left" => f \in Naming(Leaves, c)
               /\ srv[c] = "retired" => f \in Naming(Retires, c)
               /\ srv[c] \in Dead => f \in Drops(c) /\ (c \notin DMs => f \in Naming(Deletes, c))
  <2>1. PICK f \in Said(Handshake) : c \in f.convs
    BY <1>3, <1>9
  <2>2. f \in Frames /\ Places(f, c)
    BY <1>1, <1>2, <2>1
  <2>3. srv[c] = "in" => f \in Adds(c) /\ (c \in Rooms => f.type = "room_list")
    BY <1>7, <2>1, <2>2 DEF Places, Adds, Joins, Shows, Dead
  <2>4. srv[c] = "left" => f \in Naming(Leaves, c)
    BY <2>1, <2>2 DEF Places, Naming, Leaves, Dead
  <2>5. srv[c] = "retired" => f \in Naming(Retires, c)
    BY <2>1, <2>2 DEF Places, Naming, Retires, Dead
  <2>6. srv[c] \in Dead => f \in Drops(c) /\ (c \notin DMs => f \in Naming(Deletes, c))
    BY <1>7, <2>1, <2>2 DEF Places, Naming, Drops, Deletes, Hides, Dead
  <2> QED BY <2>3, <2>4, <2>5, <2>6
<1>10. /\ \E f \in Said(Handshake) : f \in Lists(ListOf(c))
       /\ \E f \in Said(Handshake) : f \in Lists("room_list")
  <2>1. /\ Frame("room_list", In(Rooms, {"in"})) \in Said(Handshake)
        /\ Frame("group_list", In(Groups, {"in"})) \in Said(Handshake)
        /\ DMList \in Said(Handshake)
    BY HandshakeSays
  <2>2. \A type, S : Frame(type, S).type = type
    BY DEF Frame
  <2>3. /\ Frame("room_list", In(Rooms, {"in"})) \in Lists("room_list")
        /\ Frame("group_list", In(Groups, {"in"})) \in Lists("group_list")
        /\ DMList \in Lists("dm_list")
    BY <1>1, <1>5, <2>1, <2>2 DEF Lists
  <2> QED BY <2>1, <2>3 DEF ListOf
<1>11. /\ "in" # "none" /\ "left" # "none" /\ "retired" # "none" /\ \A st \in Dead : st # "none"
  BY DEF Dead
<1> QED BY <1>8, <1>9, <1>10, <1>11

-----------------------------------------------------------------------------
(* A conversation the user is in is in the sidebar, or the frame that puts *)
(* it there comes.                                                         *)
Listed(c) ==
  srv[c] = "in" =>
    \/ Coming(inbox, wire, Adds(c), Drops(c) \cup Without(c))
    \/ c \in listed /\ Clear(inbox, wire, Drops(c) \cup Without(c))

(* A deleted conversation is not in the sidebar, or the frame that takes   *)
(* it out comes.                                                           *)
Unlisted(c) ==
  srv[c] \in Dead =>
    \/ Coming(inbox, wire, Drops(c), Adds(c))
    \/ c \notin listed /\ Clear(inbox, wire, Adds(c))

(* The frames that open a conversation with members; those that open a     *)
(* room the user may have left.                                            *)
Opens(c) == Naming(Joins \cup {"group_created"}, c)
Entries(r) == Naming({"room_list", "room_added_to"}, r)

(* A room the user is in is not shown as left, in the sidebar or in the    *)
(* pane, or the frame that puts it right comes.                            *)
LiveRoom(r) ==
  srv[r] = "in" =>
    \/ Coming(inbox, wire, Entries(r), Naming(Leaves, r) \cup Without(r))
    \/ /\ r \notin grey /\ (pane.conv = r => ~pane.left)
       /\ Clear(inbox, wire, Naming(Leaves, r) \cup Without(r))

(* The frames after which the TUI shows c as left, if it shows it.         *)
Exits(c) == Naming({"room_left", "group_left"}, c) \cup Without(c)

(* A room or group the user has left is shown as left if it is shown, or   *)
(* the frame that marks it comes.                                          *)
Marked(c) ==
  srv[c] = "left" =>
    \/ Coming(inbox, wire, Exits(c), Adds(c))
    \/ (c \in listed => c \in grey) /\ Clear(inbox, wire, Adds(c))

(* The frames that clear the retirement marker of a room.                  *)
Reopens(r) == Naming({"room_added_to"} \cup Deletes, r)

(* A retired room is shown as retired, or the frame that marks it comes.   *)
Barred(r) ==
  srv[r] = "retired" =>
    \/ Coming(inbox, wire, Naming(Retires, r), Reopens(r))
    \/ r \in barred /\ Clear(inbox, wire, Reopens(r))

(* The pane of a retired room is read-only, or the frame that makes it so  *)
(* comes.                                                                  *)
PaneRetired(r) ==
  srv[r] = "retired" =>
    \/ Coming(inbox, wire, Naming(Retires, r), {})
    \/ pane.conv = r => pane.retired

(* The pane of a room that was left, and that this device has stored, is   *)
(* read-only, or a frame that makes it so comes.                           *)
PaneLeft(r) ==
  srv[r] = "left" =>
    \/ Coming(inbox, wire, Naming({"room_left"}, r) \cup Lists("room_list"), {})
    \/ pane.conv = r /\ "row" \in store[r] => pane.left

(* A deleted conversation is not open, or the frame that closes it comes.  *)
PaneDead(c) ==
  srv[c] \in Dead => Coming(inbox, wire, Naming(Deletes, c), {}) \/ pane.conv # c

(* Everything the screen is owed while there is a connection: it is right, *)
(* or the last frame to come about it puts it right.                       *)
ScreenInv ==
  up => /\ \A c \in Conv : Listed(c) /\ Unlisted(c)
        /\ \A c \in Rooms \cup Groups : Marked(c) /\ PaneDead(c)
        /\ \A r \in Rooms : LiveRoom(r) /\ Barred(r) /\ PaneRetired(r) /\ PaneLeft(r)

(* The server says something.                                              *)
LEMMA ScreenSaid ==
  ASSUME IInv, TypeOK, up, ScreenInv, NEW f \in Frames, NEW d \in Conv, Saying(f, d)
  PROVE  ScreenInv'
<1>0. UNCHANGED <<up, store, listed, grey, barred, pane>>
  BY DEF Saying
<1>q. /\ \A B : Clear(inbox', wire', B) <=> Clear(inbox, wire, B) /\ f \notin B
      /\ \A M, B : Coming(inbox', wire', M, B) <=> f \in M \/ (f \notin B /\ Coming(inbox, wire, M, B))
  BY SentStep
<1>d. \A S : S \in {"deleted", "buried"} => S \notin {"in", "left", "retired", "none"}
  OBVIOUS
<1>1. ASSUME NEW c \in Conv PROVE Listed(c)'
  <2>1. srv'[c] = "in" => f \in Adds(c) \/ (srv[c] = "in" /\ f \notin Drops(c) \cup Without(c))
    BY SaidOf DEF Turn, Dead
  <2> QED BY <1>0, <1>q, <2>1 DEF ScreenInv, Listed
<1>2. ASSUME NEW c \in Conv PROVE Unlisted(c)'
  <2>1. srv'[c] \in Dead => f \in Drops(c) \/ (srv[c] \in Dead /\ f \notin Adds(c))
    BY SaidOf DEF Turn, Dead
  <2> QED BY <1>0, <1>q, <2>1 DEF ScreenInv, Unlisted
<1>3. ASSUME NEW c \in Rooms \cup Groups PROVE Marked(c)' /\ PaneDead(c)'
  <2>0. c \in Conv /\ c \notin DMs
    BY <1>3, Kinds
  <2>1. srv'[c] = "left" => f \in Exits(c) \/ (srv[c] = "left" /\ f \notin Adds(c))
    BY <2>0, SaidOf DEF Turn, Dead, Exits
  <2>2. srv'[c] \in Dead => f \in Naming(Deletes, c) \/ srv[c] \in Dead
    BY <2>0, SaidOf DEF Turn, Dead
  <2> QED BY <1>0, <1>3, <1>q, <2>1, <2>2 DEF ScreenInv, Marked, PaneDead
<1>4. ASSUME NEW r \in Rooms PROVE LiveRoom(r)' /\ Barred(r)' /\ PaneRetired(r)' /\ PaneLeft(r)'
  <2>0. r \in Conv /\ r \notin DMs
    BY <1>4, Kinds
  <2>1. srv'[r] = "in" => f \in Entries(r) \/ (srv[r] = "in" /\ f \notin Naming(Leaves, r) \cup Without(r))
    BY <1>4, <2>0, SaidOf DEF Turn, Dead, Entries, Leaves
  <2>2. srv'[r] = "retired" => f \in Naming(Retires, r) \/ (srv[r] = "retired" /\ f \notin Reopens(r))
    BY <2>0, SaidOf DEF Turn, Dead, Retires, Reopens, Deletes
  <2>3. srv'[r] = "left" => f \in Naming({"room_left"}, r) \/ srv[r] = "left"
    BY <1>4, <2>0, SaidOf DEF Turn, Dead
  <2>4. LiveRoom(r)'
    BY <1>0, <1>4, <1>q, <2>1 DEF ScreenInv, LiveRoom, Entries
  <2>5. Barred(r)' /\ PaneRetired(r)'
    BY <1>0, <1>4, <1>q, <2>2 DEF ScreenInv, Barred, PaneRetired, Reopens
  <2>6. PaneLeft(r)'
    BY <1>0, <1>4, <1>q, <2>3 DEF ScreenInv, PaneLeft
  <2> QED BY <2>4, <2>5, <2>6
<1> QED BY <1>1, <1>2, <1>3, <1>4 DEF ScreenInv

(* A new connection.                                                       *)
LEMMA ScreenDialed ==
  ASSUME IInv, TypeOK, Dial, inbox = <<>>
  PROVE  ScreenInv'
<1>0. srv' = srv
  BY DialStep
<1>q. \A M, B : (\A f \in Said(Handshake) : f \notin B) /\ (\E f \in Said(Handshake) : f \in M)
                  => Coming(inbox', wire', M, B)
  BY DialStep
<1>d. "in" \notin Dead /\ "left" \notin Dead /\ "retired" \notin Dead
  BY DEF Dead
<1>1. ASSUME NEW c \in Conv PROVE Listed(c)' /\ Unlisted(c)'
  <2>1. srv[c] = "in" => /\ \A f \in Said(Handshake) : f \notin Drops(c) \cup Without(c)
                         /\ \E f \in Said(Handshake) : f \in Adds(c)
    BY <1>d, DialOf
  <2>2. srv[c] \in Dead => /\ \A f \in Said(Handshake) : f \notin Adds(c)
                           /\ \E f \in Said(Handshake) : f \in Drops(c)
    BY <1>d, DialOf
  <2> QED BY <1>0, <1>q, <2>1, <2>2 DEF Listed, Unlisted
<1>3. ASSUME NEW c \in Rooms \cup Groups PROVE Marked(c)' /\ PaneDead(c)'
  <2>0. c \in Conv /\ c \notin DMs
    BY <1>3, Kinds
  <2>1. srv[c] = "left" => /\ \A f \in Said(Handshake) : f \notin Adds(c)
                           /\ \E f \in Said(Handshake) : f \in Exits(c)
    <3>1. ASSUME srv[c] = "left" PROVE \A f \in Said(Handshake) : f \notin Adds(c)
      BY <2>0, <3>1, DialOf
    <3>2. PICK f \in Said(Handshake) : f \in Lists(ListOf(c))
      BY <2>0, DialOf
    <3>3. ASSUME srv[c] = "left" PROVE c \notin f.convs
      <4>1. c \in f.convs => Places(f, c)
        BY <2>0, <3>2, DialStep
      <4> QED BY <2>0, <3>2, <3>3, <4>1 DEF Places, Lists, ListOf
    <3> QED BY <3>1, <3>2, <3>3 DEF Exits, Without, Lists
  <2>2. srv[c] \in Dead => \E f \in Said(Handshake) : f \in Naming(Deletes, c)
    BY <2>0, DialOf
  <2> QED BY <1>0, <1>q, <2>1, <2>2 DEF Marked, PaneDead
<1>4. ASSUME NEW r \in Rooms PROVE LiveRoom(r)' /\ Barred(r)' /\ PaneRetired(r)' /\ PaneLeft(r)'
  <2>0. r \in Conv
    BY <1>4, Kinds
  <2>1. srv[r] = "in" => /\ \A f \in Said(Handshake) : f \notin Naming(Leaves, r) \cup Without(r)
                         /\ \E f \in Said(Handshake) : f \in Entries(r)
    <3>1. \A f \in Frames : f \in Adds(r) /\ f.type = "room_list" => f \in Entries(r)
      BY DEF Adds, Entries, Naming
    <3> QED BY <1>4, <2>0, <3>1, DialOf
  <2>2. srv[r] = "retired" => /\ \A f \in Said(Handshake) : f \notin Reopens(r)
                              /\ \E f \in Said(Handshake) : f \in Naming(Retires, r)
    <3>1. \A f \in Said(Handshake) : f \in Reopens(r) => f \in Live \/ f \in Naming(Deletes, r)
      BY DEF Reopens, Naming, Live, LiveTypes
    <3> QED BY <1>d, <2>0, <3>1, DialOf
  <2>3. \E f \in Said(Handshake) : f \in Naming({"room_left"}, r) \cup Lists("room_list")
    BY <2>0, DialOf
  <2> QED BY <1>0, <1>q, <2>1, <2>2, <2>3 DEF LiveRoom, Barred, PaneRetired, PaneLeft, Entries, Reopens
<1> QED BY <1>1, <1>3, <1>4 DEF ScreenInv

(* What the pane that is opened says.                                      *)
LEMMA PaneOpened ==
  ASSUME NEW c
  PROVE  /\ Opened(c).conv = c
         /\ Opened(c).left <=> c \in Rooms \cup Groups /\ "left" \in store[c]
         /\ Opened(c).retired <=> c \in Rooms /\ "retired" \in store[c]
BY DEF Opened

(* The user opens a conversation, or the TUI the first of the welcome.     *)
LEMMA ScreenOpened ==
  ASSUME IInv, TypeOK, up, OrderInv, ScreenInv,
         UNCHANGED <<srv, up, store, wire, inbox, grey, barred>>,
         \/ pane' = pane
         \/ \E c \in Conv : pane' = Opened(c) /\ (~Free(inbox, Adds(c)) \/ ~Free(wire, Adds(c)) \/ c \in listed),
         \A c \in Conv : \/ c \in listed' <=> c \in listed
                         \/ c \in listed' /\ (~Free(inbox, Adds(c)) \/ ~Free(wire, Adds(c)))
                         \/ c \notin listed' /\ (~Free(inbox, Without(c)) \/ ~Free(wire, Without(c)))
  PROVE  ScreenInv'
<1>f. \A s, M, B : ~Free(s, M) => ~Free(s, M \cup B) /\ ~Free(s, B \cup M)
  BY DEF Free
<1>k. ASSUME NEW s, NEW t, NEW M, NEW B, Coming(s, t, M, B) PROVE Coming(s, t, M, {})
  BY <1>k DEF Coming, Free, Last
<1>1. ASSUME NEW c \in Conv PROVE Listed(c)' /\ Unlisted(c)'
  <2>1. \/ c \in listed' <=> c \in listed
        \/ c \in listed' /\ ~Clear(inbox, wire, Adds(c))
        \/ c \notin listed' /\ ~Clear(inbox, wire, Drops(c) \cup Without(c))
    BY <1>f DEF Clear
  <2> QED BY <2>1 DEF ScreenInv, Listed, Unlisted
<1>2. ASSUME NEW c \in Rooms \cup Groups PROVE Marked(c)' /\ PaneDead(c)'
  <2>0. c \in Conv /\ c \notin DMs
    BY <1>2, Kinds
  <2>1. Marked(c)'
    <3>1. (c \in listed' => c \in listed) \/ ~Clear(inbox, wire, Adds(c))
      BY <2>0 DEF Clear
    <3> QED BY <1>2, <3>1 DEF ScreenInv, Marked, Exits
  <2>2. PaneDead(c)'
    <3> SUFFICES ASSUME srv[c] \in Dead, ~Coming(inbox, wire, Naming(Deletes, c), {}), pane'.conv = c
                 PROVE  FALSE
      BY DEF PaneDead
    <3>1. \A f \in Drops(c) : f \notin Naming({"dm_left", "dm_list"}, c) => f \in Naming(Deletes, c)
      BY DEF Drops, Naming, Hides
    <3>2. ~Coming(inbox, wire, Drops(c), Adds(c))
      <4>1. SUFFICES ASSUME Coming(inbox, wire, Drops(c), Adds(c)) PROVE FALSE
        OBVIOUS
      <4>2. Coming(inbox, wire, Drops(c), {})
        BY <1>k, <4>1
      <4>3. \A n \in DOMAIN inbox : inbox[n] \in Drops(c) => inbox[n] \in Naming(Deletes, c)
        BY <2>0, <3>1 DEF IInv, WireInv, FrameInv, Naming, Suits, DMTypes
      <4>4. \A n \in DOMAIN wire : wire[n] \in Drops(c) => wire[n] \in Naming(Deletes, c)
        BY <2>0, <3>1 DEF IInv, WireInv, FrameInv, Naming, Suits, DMTypes
      <4> QED BY <4>2, <4>3, <4>4 DEF Coming, Last, Free
    <3>3. c \notin listed /\ Clear(inbox, wire, Adds(c))
      BY <2>0, <3>2 DEF ScreenInv, Unlisted
    <3>4. pane.conv # c
      BY <1>2 DEF ScreenInv, PaneDead
    <3> QED BY <3>3, <3>4, PaneOpened DEF Clear
  <2> QED BY <2>1, <2>2
<1>3. ASSUME NEW r \in Rooms PROVE LiveRoom(r)' /\ Barred(r)' /\ PaneRetired(r)' /\ PaneLeft(r)'
  <2>1. \/ pane'.conv = r => pane' = pane
        \/ /\ pane'.left <=> "left" \in store[r]
           /\ pane'.retired <=> "retired" \in store[r]
    BY PaneOpened
  <2>2. Barred(r)'
    BY <1>3 DEF ScreenInv, Barred, Reopens
  <2>3. LiveRoom(r)'
    <3>1. srv[r] = "in" => "left" \notin store[r] \/ Coming(inbox, wire, Entries(r), Naming(Leaves, r) \cup Without(r))
      BY <1>3, OpenOrComing DEF Coming, Entries
    <3> QED BY <1>3, <2>1, <3>1 DEF ScreenInv, LiveRoom, Entries
  <2>4. PaneRetired(r)'
    BY <1>3, <2>1, RetiredOrComing DEF ScreenInv, PaneRetired
  <2>5. PaneLeft(r)'
    BY <1>3, <2>1, LeftOrComing DEF ScreenInv, PaneLeft, OrderInv, ArchivesListed
  <2> QED BY <2>2, <2>3, <2>4, <2>5
<1> QED BY <1>1, <1>2, <1>3 DEF ScreenInv

(* Attaching, opening a conversation and asking for a roster keep what the *)
(* screen is owed.                                                         *)
LEMMA ScreenUser ==
  ASSUME IInv, TypeOK, up, OrderInv, ScreenInv, Attach \/ Idle \/ \E c \in Conv : Open(c)
  PROVE  ScreenInv'
<1>1. CASE Attach
  <2>1. /\ UNCHANGED <<srv, up, store, wire, inbox, grey, barred>>
        /\ ui = "dialled" /\ listed' = (listed \ Rooms) \cup welcome
        /\ pane' = pane \/ \E r \in welcome : pane' = Opened(r)
        /\ welcome \subseteq Rooms
    BY <1>1 DEF Attach, serverVars, linkVars, clientVars, TypeOK
  <2>2. Coming(inbox, wire, Welcomes, {})
    BY <2>1 DEF OrderInv
  <2>3. ASSUME NEW M, Welcomes \subseteq M PROVE ~Free(inbox, M) \/ ~Free(wire, M)
    BY <2>2, <2>3 DEF Coming, Last, Free
  <2>4. ASSUME NEW r \in Rooms
        PROVE  /\ r \in welcome => ~Free(inbox, Adds(r)) \/ ~Free(wire, Adds(r))
               /\ r \notin welcome => ~Free(inbox, Without(r)) \/ ~Free(wire, Without(r))
    <3>1. r \in welcome => Welcomes \subseteq Adds(r)
      BY DEF Welcomes, Adds, Joins
    <3>2. r \notin welcome => Welcomes \subseteq Without(r)
      BY DEF Welcomes, Without, ListOf
    <3> QED BY <2>3, <3>1, <3>2
  <2>5. ASSUME NEW c \in Conv
        PROVE  \/ c \in listed' <=> c \in listed
               \/ c \in listed' /\ (~Free(inbox, Adds(c)) \/ ~Free(wire, Adds(c)))
               \/ c \notin listed' /\ (~Free(inbox, Without(c)) \/ ~Free(wire, Without(c)))
    BY <2>1, <2>4
  <2>6. \/ pane' = pane
        \/ \E c \in Conv : pane' = Opened(c) /\ (~Free(inbox, Adds(c)) \/ ~Free(wire, Adds(c)) \/ c \in listed)
    BY <2>1, <2>4, Kinds
  <2> QED BY <2>1, <2>5, <2>6, ScreenOpened
<1>2. CASE Idle
  BY <1>2 DEF Idle, ScreenInv, Listed, Unlisted, Marked, PaneDead, LiveRoom, Barred, PaneRetired, PaneLeft,
     Exits, Entries, Reopens
<1>3. CASE \E c \in Conv : Open(c)
  <2>1. /\ UNCHANGED <<srv, up, store, wire, inbox, grey, barred, listed>>
        /\ \E c \in Conv : pane' = Opened(c) /\ c \in listed
    BY <1>3 DEF Open, serverVars, linkVars, clientVars, sidebarVars
  <2> QED BY <2>1, ScreenOpened
<1> QED BY <1>1, <1>2, <1>3

(* The readLoop takes a frame.                                             *)
LEMMA ScreenRead ==
  ASSUME IInv, IInv', TypeOK, up, OrderInv, ScreenInv, ReadFrame
  PROVE  ScreenInv'
<1>0. UNCHANGED <<srv, up, listed, grey, barred, pane>>
  BY DEF ReadFrame, serverVars, linkVars, sidebarVars
<1>1. PICK h : h = Head(wire)
  OBVIOUS
<1>q. /\ \A B : Clear(inbox', wire', B) <=> Clear(inbox, wire, B)
      /\ \A M, B : Coming(inbox', wire', M, B) <=> Coming(inbox, wire, M, B)
      /\ \A B : Free(wire, B) <=> Free(wire', B) /\ h \notin B
  BY <1>1, ReadStep
<1>2. ASSUME NEW c \in Conv PROVE Listed(c)' /\ Unlisted(c)'
  BY <1>0, <1>q DEF ScreenInv, Listed, Unlisted
<1>3. ASSUME NEW c \in Rooms \cup Groups PROVE Marked(c)' /\ PaneDead(c)'
  BY <1>0, <1>3, <1>q DEF ScreenInv, Marked, PaneDead
<1>4. ASSUME NEW r \in Rooms PROVE LiveRoom(r)' /\ Barred(r)' /\ PaneRetired(r)'
  BY <1>0, <1>4, <1>q DEF ScreenInv, LiveRoom, Barred, PaneRetired
<1>5. ASSUME NEW r \in Rooms PROVE PaneLeft(r)'
  <2> SUFFICES ASSUME srv[r] = "left", pane.conv = r, "row" \in store'[r], ~pane.left,
                      ~Coming(inbox, wire, Naming({"room_left"}, r) \cup Lists("room_list"), {})
               PROVE  FALSE
    BY <1>0, <1>q DEF PaneLeft
  <2>1. "row" \notin store[r]
    BY <1>5 DEF ScreenInv, PaneLeft
  <2>2. Free(wire, Naming(Stores \cup Deletes, r))
    BY <1>5, LeftOrComing DEF OrderInv, ArchivesListed
  <2>3. h \notin Naming(Stores \cup Deletes, r)
    BY <1>q, <2>2
  <2>4. r \in Conv /\ wire # <<>> /\ h \in Frames /\ FrameInv(h, srv)
    BY <1>1, Taken, Kinds DEF ReadFrame, IInv, WireInv, TypeOK
  <2>5. store'[r] = IF r \in h.convs THEN Run(store[r], Script(h, r)) ELSE store[r]
    BY <1>1, <2>4 DEF ReadFrame, Stored
  <2>6. r \in h.convs /\ h.type \notin Stores \cup Deletes
    BY <2>1, <2>3, <2>4, <2>5 DEF Naming
  <2>7. "row" \notin store'[r]
    <3>1. PICK is : is = store'[r]
      OBVIOUS
    <3>2. is = Run(store[r], Script(h, r)) /\ h.type \in FrameTypes
      BY <2>4, <2>5, <2>6, <3>1 DEF FrameInv
    <3>3. Effect(h, r, store[r], is)
      BY <2>6, <3>2, Effects
    <3>4. Holds("gone", store[r]) /\ ~Breaks("gone", h, r) /\ "gone" \in Goals
      BY <2>1, <2>6 DEF Holds, Breaks, Goals
    <3>5. Holds("gone", is)
      BY <3>3, <3>4 DEF Effect
    <3> QED BY <3>1, <3>5 DEF Holds
  <2> QED BY <2>7
<1> QED BY <1>2, <1>3, <1>4, <1>5 DEF ScreenInv

(* The TUI handles a frame.                                                *)
LEMMA ScreenShown ==
  ASSUME IInv, IInv', TypeOK, up, OrderInv, OrderInv', ScreenInv, Show
  PROVE  ScreenInv'
<1>1. PICK h : h = Head(inbox)
  OBVIOUS
<1>q. /\ \A B : Clear(inbox, wire, B) <=> Clear(inbox', wire', B) /\ h \notin B
      /\ \A M, B : Coming(inbox, wire, M, B) <=> Coming(inbox', wire', M, B) \/ (h \in M /\ Clear(inbox', wire', B))
      /\ UNCHANGED <<srv, up, wire>> /\ inbox # <<>>
  BY <1>1, ShowStep
<1>w. \A s, M, B : Last(wire, M, B) => Coming(s, wire, M, B)
  BY DEF Coming
<1>h. h \in Frames
  BY <1>1, <1>q, Facing
<1>2. ASSUME NEW c \in Conv PROVE Listed(c)' /\ Unlisted(c)'
  <2>1. /\ h \in Adds(c) => c \in listed'
        /\ h \in Drops(c) => c \notin listed'
        /\ h \in Without(c) => (c \in listed' <=> c \notin DMs /\ ReadOnly(store[c]))
        /\ h \notin Adds(c) \cup Drops(c) \cup Without(c) => (c \in listed' <=> c \in listed)
    BY <1>1, ShowLists
  <2>2. Listed(c)'
    BY <1>q, <2>1 DEF ScreenInv, Listed
  <2>3. srv[c] \in Dead /\ c \notin DMs => ~ReadOnly(store[c]) \/ Coming(inbox', wire, Drops(c), Adds(c))
    BY GoneOrComing
  <2>4. Unlisted(c)'
    BY <1>q, <2>1, <2>3 DEF ScreenInv, Unlisted
  <2> QED BY <2>2, <2>4
<1>3. ASSUME NEW c \in Rooms \cup Groups PROVE Marked(c)' /\ PaneDead(c)'
  <2>0. c \in Conv
    BY <1>3, Kinds
  <2>1. srv[c] = "left" => "retired" \notin store[c]
    BY <2>0 DEF IInv, StoreInv
  <2>2. srv[c] = "left" =>
          /\ h \in Exits(c) => (c \in listed' => c \in grey')
          /\ h \notin Adds(c) /\ (c \in listed => c \in grey) => (c \in listed' => c \in grey')
    BY <1>1, <1>3, <2>1, ShowMarks DEF Exits
  <2>3. Marked(c)'
    BY <1>3, <1>q, <2>2 DEF ScreenInv, Marked, Exits
  <2>4. pane'.conv = c => pane.conv = c /\ h \notin Naming(Deletes, c)
    BY <1>1, <2>0, ShowPanes
  <2>5. PaneDead(c)'
    BY <1>3, <1>q, <2>4 DEF ScreenInv, PaneDead
  <2> QED BY <2>3, <2>5
<1>4. ASSUME NEW r \in Rooms PROVE LiveRoom(r)' /\ Barred(r)' /\ PaneRetired(r)' /\ PaneLeft(r)'
  <2>0. r \in Conv
    BY <1>4, Kinds
  <2>1. /\ h.type = "room_list" =>
             IF r \in h.convs \/ ReadOnly(store[r]) THEN r \in grey' <=> "left" \in store[r]
                                                    ELSE r \in grey' <=> r \in grey
        /\ h \in Naming({"room_added_to"} \cup Deletes, r) => r \notin grey'
        /\ h \in Naming({"room_left"}, r) => r \in grey'
        /\ h \notin Lists("room_list") \cup Naming({"room_left", "room_added_to"} \cup Deletes, r)
              => (r \in grey' <=> r \in grey)
        /\ h \in Naming(Retires, r) => r \in barred'
        /\ h \notin Naming({"room_added_to"} \cup Deletes, r) /\ r \in barred => r \in barred'
    BY <1>1, <1>4, ShowGreys
  <2>2. pane'.conv = r =>
         /\ pane.conv = r
         /\ h \in Lists("room_list") \cup Entries(r) =>
              /\ pane'.left <=> "left" \in store[r]
              /\ pane'.retired <=> "retired" \in store[r]
         /\ h \notin Lists("room_list") \cup Entries(r) =>
              /\ h \in Naming({"room_left"}, r) => pane'.left
              /\ h \notin Naming({"room_left", "group_left"}, r) => (pane'.left <=> pane.left)
              /\ h \in Naming(Retires, r) => pane'.retired
              /\ pane.retired => pane'.retired
    <3>1. Entries(r) = Naming({"room_added_to"}, r) \cup {f \in Lists("room_list") : r \in f.convs}
      BY DEF Entries, Naming, Lists
    <3>2. Lists("room_list") \cup Entries(r) = Lists("room_list") \cup Naming({"room_added_to"}, r)
      BY <3>1
    <3> QED BY <1>1, <1>4, <2>0, <3>2, ShowPanes
  <2>3. Barred(r)'
    BY <1>4, <1>q, <2>1 DEF ScreenInv, Barred, Reopens
  <2>4. PaneRetired(r)'
    <3>1. srv[r] = "retired" => "retired" \in store[r] \/ Coming(inbox', wire, Naming(Retires, r), {})
      BY <1>4, RetiredOrComing
    <3>2. Naming(Retires, r) \cap (Lists("room_list") \cup Entries(r)) = {}
      BY DEF Naming, Retires, Lists, Entries
    <3> QED BY <1>4, <1>q, <2>2, <3>1, <3>2 DEF ScreenInv, PaneRetired
  <2>5. PaneLeft(r)'
    <3>1. srv[r] = "left" => \/ "row" \in store[r] => "left" \in store[r]
                             \/ Coming(inbox', wire, Naming({"room_left"}, r) \cup Lists("room_list"), {})
      BY <1>4, <1>q, LeftOrComing DEF OrderInv, ArchivesListed
    <3>2. "row" \in store'[r] => "row" \in store[r]
      <4>1. store' = store \/ store' = Unarchived
        BY DEF Show, ShowRoomList, ShowGroupList, ShowDMList, ShowRoomAddedTo, ShowAdded, ShowLeft, ShowRetired,
           ShowDeleted, ShowOther
      <4> QED BY <2>0, <4>1 DEF Unarchived, Exec, MarkGroupRejoined, Update
    <3>3. srv[r] = "left" /\ h \in Entries(r) => h \in Lists("room_list") \/ h \in Naming({"room_added_to"}, r)
      BY DEF Entries, Naming, Lists
    <3>4. Naming({"room_left"}, r) \cap (Lists("room_list") \cup Entries(r)) = {}
      BY DEF Naming, Lists, Entries
    <3>5. h \notin Naming({"group_left"}, r)
      BY <1>1, <1>4, <1>q, Facing, Kinds DEF FrameInv, Suits, GroupTypes, Naming
    <3>6. h \in Naming({"room_left", "group_left"}, r) <=> h \in Naming({"room_left"}, r) \/ h \in Naming({"group_left"}, r)
      BY DEF Naming
    <3> QED BY <1>4, <1>q, <2>2, <3>1, <3>2, <3>4, <3>5, <3>6 DEF ScreenInv, PaneLeft
  <2>6. LiveRoom(r)'
    <3>1. srv[r] = "in" => "left" \notin store[r] \/ Coming(inbox', wire, Entries(r), Naming(Leaves, r) \cup Without(r))
      BY <1>4, <1>w, OpenOrComing DEF Entries
    <3>2. h \in Entries(r) => \/ h.type = "room_list" /\ r \in h.convs
                              \/ h \in Naming({"room_added_to"} \cup Deletes, r)
      BY DEF Entries, Naming, Lists
    <3>3. h \in Lists("room_list") /\ h \notin Entries(r) => h \in Without(r)
      BY <1>4 DEF Entries, Naming, Lists, Without, ListOf
    <3>4. h \in Naming({"room_left", "group_left"}, r) => h \in Naming(Leaves, r)
      BY DEF Naming, Leaves
    <3>5. h \in Naming({"room_left", "room_added_to"} \cup Deletes, r) =>
             \/ h \in Naming({"room_added_to"} \cup Deletes, r)
             \/ h \in Naming(Leaves, r)
      BY DEF Naming, Leaves
    <3>6. h \in Entries(r) /\ r \in grey' => "left" \in store[r]
      BY <2>1, <3>2
    <3>7. h \notin Naming(Leaves, r) \cup Without(r) /\ h \notin Entries(r) /\ r \notin grey => r \notin grey'
      BY <2>1, <3>3, <3>5
    <3>8. h \notin Naming(Leaves, r) \cup Without(r) /\ h \notin Entries(r) /\ (pane.conv = r => ~pane.left)
            => (pane'.conv = r => ~pane'.left)
      BY <2>2, <3>3, <3>4
    <3>9. h \in Entries(r) /\ "left" \notin store[r] => r \notin grey' /\ (pane'.conv = r => ~pane'.left)
      BY <2>2, <3>6
    <3> QED BY <1>4, <1>q, <3>1, <3>7, <3>8, <3>9 DEF ScreenInv, LiveRoom
  <2> QED BY <2>3, <2>4, <2>5, <2>6
<1> QED BY <1>2, <1>3, <1>4, <1>q DEF ScreenInv

(* A row the sidebar shows.                                                *)
ShownIn(flags) == "row" \in flags /\ "hidden" \notin flags

(* A row that is there is read-only: it may only be shown as an archive. A *)
(* DM has no such state.                                                   *)
Archived(c, flags) == "row" \in flags => c \notin DMs /\ ReadOnly(flags)

(* The frames whose handler ends the membership of c.                      *)
Closes(c) == Naming(Leaves \cup Retires \cup Deletes, c)

(* What the handler of f leaves of the row of c.                           *)
Ran(f, c, was, is) ==
  \/ c \notin f.convs /\ is = was
  \/ c \in f.convs /\ c \in Rooms /\ f.type \in {"room_list", "room_added_to"}
       /\ is = (was \cup {"row", "members"}) \ {"left"}
  \/ c \in f.convs /\ c \in Rooms /\ f.type \in {"room_left", "left_rooms"}
       /\ is = IF "row" \in was THEN (was \cup {"left"}) \ {"members"} ELSE was
  \/ c \in f.convs /\ c \in Rooms /\ f.type \in Retires /\ is = (was \cup {"row", "retired"}) \ {"members"}
  \/ c \in f.convs /\ c \in Rooms /\ f.type \in {"room_deleted", "deleted_rooms"} /\ is = was \ Flags
  \/ c \in f.convs /\ c \in Rooms /\ f.type = "room_members_list"
       /\ \/ is = was
          \/ is = was \cup {"members"} /\ "row" \in was /\ ~ReadOnly(was)
  \/ c \in f.convs /\ c \in Groups /\ f.type \in {"group_list", "group_added_to"} /\ is = (was \cup {"row"}) \ {"left"}
  \/ c \in f.convs /\ c \in Groups /\ f.type = "group_created" /\ is = was \cup {"row"}
  \/ c \in f.convs /\ c \in Groups /\ f.type \in {"group_left", "left_groups"}
       /\ is = IF "row" \in was THEN was \cup {"left"} ELSE was
  \/ c \in f.convs /\ c \in Groups /\ f.type \in {"group_deleted", "deleted_groups"} /\ is = was \ Flags
  \/ c \in f.convs /\ c \in DMs /\ f.type = "dm_list" /\ c \in f.hidden
       /\ is = (was \cup {"row", "hidden"}) \ {"msgs"}
  \/ c \in f.convs /\ c \in DMs /\ Shows(f, c) /\ is = (was \cup {"row"}) \ {"hidden"}
  \/ c \in f.convs /\ c \in DMs /\ f.type = "dm_left"
       /\ is = IF "row" \in was THEN (was \cup {"hidden"}) \ {"msgs"} ELSE was \ {"msgs"}
  \/ c \in f.convs /\ f.type = "message" /\ is = was \cup {"msgs"}

(* What the readLoop makes of the row of each conversation.                *)
LEMMA ReadOf ==
  ASSUME IInv, TypeOK, ReadFrame, NEW f, f = Head(wire), NEW c \in Conv
  PROVE  f \in Frames /\ FrameInv(f, srv) /\ Ran(f, c, store[c], store'[c])
<1>1. wire # <<>> /\ f \in Frames /\ FrameInv(f, srv)
  BY Taken DEF ReadFrame, IInv, WireInv, TypeOK
<1>2. store'[c] = IF c \in f.convs THEN Run(store[c], Script(f, c)) ELSE store[c]
  BY <1>1 DEF ReadFrame, Stored
<1>3. PICK is, was : is = store'[c] /\ was = store[c]
  OBVIOUS
<1>4. CASE c \in f.convs
  <2>1. is = Run(was, Script(f, c)) /\ f.type \in FrameTypes /\ Suits(f.type, c)
    BY <1>1, <1>2, <1>3, <1>4 DEF FrameInv
  <2>2. /\ f.type \in {"room_list", "room_added_to"} => (is = (was \cup {"row", "members"}) \ {"left"})
        /\ f.type \in {"room_left", "left_rooms"}
             => (is = IF "row" \in was THEN (was \cup {"left"}) \ {"members"} ELSE was)
        /\ f.type \in Retires => (is = (was \cup {"row", "retired"}) \ {"members"})
        /\ f.type \in {"room_deleted", "deleted_rooms"} => (is = was \ Flags)
        /\ f.type = "room_members_list"
             => (is = was \/ (is = was \cup {"members"} /\ "row" \in was /\ ~ReadOnly(store[c])))
        /\ f.type \in {"group_list", "group_added_to"} => (is = (was \cup {"row"}) \ {"left"})
        /\ f.type = "group_created" => (is = was \cup {"row"})
        /\ f.type \in {"group_left", "left_groups"}
             => (is = IF "row" \in was THEN was \cup {"left"} ELSE was)
        /\ f.type \in {"group_deleted", "deleted_groups"} => (is = was \ Flags)
        /\ f.type = "dm_list" /\ c \in f.hidden => (is = (was \cup {"row", "hidden"}) \ {"msgs"})
        /\ ((f.type = "dm_list" /\ c \notin f.hidden) \/ f.type = "dm_created")
             => (is = (was \cup {"row"}) \ {"hidden"})
        /\ f.type = "dm_left"
             => (is = IF "row" \in was THEN (was \cup {"hidden"}) \ {"msgs"} ELSE was \ {"msgs"})
        /\ f.type = "message" => (is = was \cup {"msgs"})
    BY <1>4, <2>1, Runs
  <2>3. /\ f.type \in {"room_list", "room_added_to", "room_left", "left_rooms", "room_deleted", "deleted_rooms",
                       "room_members_list"} \cup Retires => c \in Rooms
        /\ f.type \in {"group_list", "group_added_to", "group_created", "group_left", "left_groups",
                       "group_deleted", "deleted_groups"} => c \in Groups
        /\ f.type \in {"dm_list", "dm_created", "dm_left"} => c \in DMs
    BY <2>1 DEF Suits, RoomTypes, GroupTypes, DMTypes, Retires
  <2>4. f.type \in {"room_list", "room_added_to", "room_left", "left_rooms", "room_deleted", "deleted_rooms",
                    "room_members_list", "group_list", "group_added_to", "group_created", "group_left",
                    "left_groups", "group_deleted", "deleted_groups", "dm_list", "dm_created", "dm_left",
                    "message"} \cup Retires
    BY <2>1 DEF FrameTypes, Retires
  <2> HIDE DEF Retires
  <2>5. Ran(f, c, was, is)
    <3> USE <1>3, <1>4, <2>3 DEF Ran
    <3>1. CASE f.type \in {"room_list", "room_added_to"}
      BY <2>2, <3>1
    <3>2. CASE f.type \in {"room_left", "left_rooms"}
      BY <2>2, <3>2
    <3>3. CASE f.type \in Retires
      BY <2>2, <3>3
    <3>4. CASE f.type \in {"room_deleted", "deleted_rooms"}
      BY <2>2, <3>4
    <3>5. CASE f.type = "room_members_list"
      BY <2>2, <3>5
    <3>6. CASE f.type \in {"group_list", "group_added_to"}
      BY <2>2, <3>6
    <3>7. CASE f.type = "group_created"
      BY <2>2, <3>7
    <3>8. CASE f.type \in {"group_left", "left_groups"}
      BY <2>2, <3>8
    <3>9. CASE f.type \in {"group_deleted", "deleted_groups"}
      BY <2>2, <3>9
    <3>10. CASE f.type = "dm_list" /\ c \in f.hidden
      BY <2>2, <3>10
    <3>11. CASE (f.type = "dm_list" /\ c \notin f.hidden) \/ f.type = "dm_created"
      BY <2>2, <3>11 DEF Shows
    <3>12. CASE f.type = "dm_left"
      BY <2>2, <3>12
    <3>13. CASE f.type = "message"
      BY <2>2, <3>13
    <3> QED BY <2>4, <3>1, <3>2, <3>3, <3>4, <3>5, <3>6, <3>7, <3>8, <3>9, <3>10, <3>11, <3>12, <3>13
  <2> QED BY <1>1, <1>3, <2>5
<1>5. CASE c \notin f.convs
  BY <1>1, <1>2, <1>3, <1>5 DEF Ran
<1> QED BY <1>4, <1>5

(* What that says of the row, its markers and its members.                 *)
LEMMA RanRow ==
  ASSUME NEW f \in Frames, NEW c \in Conv, NEW was, NEW is, Ran(f, c, was, is)
  PROVE  /\ f \in Naming(Stores, c) => "row" \in is
         /\ f \in Naming(Deletes, c) => "row" \notin is /\ "left" \notin is
         /\ f \notin Naming(Deletes, c) /\ "row" \in was => "row" \in is
         /\ f \notin Naming(Stores, c) /\ "row" \notin was => "row" \notin is
         /\ c \in Rooms =>
              /\ f \in Naming({"room_left", "left_rooms"}, c) /\ "row" \in was => "left" \in is
              /\ f \in Entries(c) => "left" \notin is
              /\ f \notin Entries(c) \cup Naming({"room_left", "left_rooms"} \cup Deletes, c)
                   => ("left" \in is <=> "left" \in was)
         /\ f \in Closes(c) => "members" \notin is \/ (is = was /\ "row" \notin was) \/ c \in Groups
         /\ f \notin Opens(c) /\ "members" \notin was =>
              \/ "members" \notin is
              \/ f \in Naming({"room_members_list"}, c) /\ "row" \in was /\ ~ReadOnly(was)
<1>1. /\ c \in Rooms => c \notin Groups /\ c \notin DMs
      /\ c \in Groups => c \notin Rooms /\ c \notin DMs
      /\ c \in DMs => c \notin Rooms /\ c \notin Groups
  BY Kinds
<1>2. /\ f \in Naming(Stores, c) => "row" \in is
      /\ f \notin Naming(Stores, c) /\ "row" \notin was => "row" \notin is
  BY <1>1 DEF Ran, Naming, Stores, Joins, Retires, Shows, Flags
<1>3. /\ f \in Naming(Deletes, c) => "row" \notin is /\ "left" \notin is
      /\ f \notin Naming(Deletes, c) /\ "row" \in was => "row" \in is
  BY <1>1 DEF Ran, Naming, Deletes, Retires, Shows, Flags
<1>4. c \in Rooms =>
        /\ f \in Naming({"room_left", "left_rooms"}, c) /\ "row" \in was => "left" \in is
        /\ f \in Entries(c) => "left" \notin is
  BY <1>1 DEF Ran, Naming, Entries, Retires, Shows, Flags
<1>5. c \in Rooms => (f \notin Entries(c) \cup Naming({"room_left", "left_rooms"} \cup Deletes, c)
                        => ("left" \in is <=> "left" \in was))
  BY <1>1 DEF Ran, Naming, Entries, Retires, Deletes, Flags
<1>6. f \in Closes(c) => "members" \notin is \/ (is = was /\ "row" \notin was) \/ c \in Groups
  BY <1>1 DEF Ran, Naming, Closes, Leaves, Retires, Deletes, Shows, Flags
<1>7. f \notin Opens(c) /\ "members" \notin was =>
              \/ "members" \notin is
              \/ f \in Naming({"room_members_list"}, c) /\ "row" \in was /\ ~ReadOnly(was)
  BY <1>1 DEF Ran, Naming, Opens, Joins
<1> QED BY <1>2, <1>3, <1>4, <1>5, <1>6, <1>7

(* The same of what the sidebar shows of it.                               *)
LEMMA RanShown ==
  ASSUME NEW f \in Frames, NEW c \in Conv, NEW was, NEW is, Ran(f, c, was, is),
         was \subseteq KindFlags(c)
  PROVE  /\ f \in Adds(c) => ShownIn(is)
         /\ f \in Drops(c) => ~ShownIn(is)
         /\ f \in Naming(Retires, c) => ShownIn(is)
         /\ f \notin Adds(c) \cup Drops(c) \cup Naming(Retires, c) => (ShownIn(is) <=> ShownIn(was))
         /\ f \in Closes(c) => Archived(c, is)
         /\ f \notin Naming(Stores \ Retires, c) /\ Archived(c, was) => Archived(c, is)
<1>1. /\ c \in Rooms => c \notin Groups /\ c \notin DMs
      /\ c \in Groups => c \notin Rooms /\ c \notin DMs
      /\ c \in DMs => c \notin Rooms /\ c \notin Groups
  BY Kinds
<1>2. c \notin DMs => "hidden" \notin was
  BY <1>1 DEF KindFlags, Conv
<1>3. f \in Adds(c) => ShownIn(is)
  BY <1>1, <1>2 DEF Ran, Adds, Joins, Shows, Hides, ShownIn, Retires
<1>4. f \in Drops(c) => ~ShownIn(is)
  BY <1>1, <1>2 DEF Ran, Drops, Deletes, Shows, Hides, ShownIn, Retires, Flags
<1>5. f \in Naming(Retires, c) => ShownIn(is)
  BY <1>1, <1>2 DEF Ran, Naming, Shows, ShownIn, Retires
<1>6. f \notin Adds(c) \cup Drops(c) \cup Naming(Retires, c) => (ShownIn(is) <=> ShownIn(was))
  BY <1>1, <1>2 DEF Ran, Naming, Adds, Drops, Joins, Deletes, Shows, Hides, ShownIn
<1>7. f \in Closes(c) => Archived(c, is)
  BY <1>1 DEF Ran, Naming, Closes, Leaves, Retires, Deletes, Shows, Archived, ReadOnly, Flags
<1>8. f \notin Naming(Stores \ Retires, c) /\ Archived(c, was) => Archived(c, is)
  BY <1>1 DEF Ran, Naming, Stores, Joins, Retires, Shows, Archived, ReadOnly, Flags
<1> QED BY <1>3, <1>4, <1>5, <1>6, <1>7, <1>8

(* Every step keeps it.                                                    *)
LEMMA ScreenStep ==
  ASSUME IInv, IInv', Ground, Ground', OrderInv, OrderInv', ScreenInv, [Next]_vars
  PROVE  ScreenInv'
<1> SUFFICES ASSUME up' PROVE ScreenInv'
  BY DEF ScreenInv
<1>0. TypeOK
  BY DEF Ground
<1>1. ASSUME up, NEW f \in Frames, NEW c \in Conv, Saying(f, c) PROVE ScreenInv'
  BY <1>0, <1>1, ScreenSaid
<1>2. ASSUME Dial, inbox = <<>> PROVE ScreenInv'
  BY <1>0, <1>2, ScreenDialed
<1>3. ASSUME up, ReadFrame PROVE ScreenInv'
  BY <1>0, <1>3, ScreenRead
<1>4. ASSUME up, Show PROVE ScreenInv'
  BY <1>0, <1>4, ScreenShown
<1>5. ASSUME up, Attach \/ Idle \/ \E c \in Conv : Open(c) PROVE ScreenInv'
  BY <1>0, <1>5, ScreenUser
<1> QED BY <1>1, <1>2, <1>3, <1>4, <1>5, UpSteps

(* With no connection the screen is owed nothing.                          *)
LEMMA ScreenInit ==
  ASSUME Init
  PROVE  ScreenInv
BY DEF Init, ScreenInv

-----------------------------------------------------------------------------
(* A list on the wire that leaves c out finds it archived; a leave or a    *)
(* retirement finds a row; so does the answer the server owes; and an      *)
(* answer that comes after a leave or a retirement finds it, or is before  *)
(* the frame that says so.                                                 *)
Sealed(c) ==
  \/ Secure(wire, Without(c), Closes(c), Naming(Stores \ Retires, c), {})
  \/ /\ Archived(c, store[c])
     /\ Tenable(wire, Without(c), Closes(c), Naming(Stores \ Retires, c), {})

(* A leave or a retirement of a room finds its row in the store.           *)
Backed(r) ==
  \/ Secure(wire, Naming({"room_left", "room_retired"}, r), Naming(Stores, r), Naming(Deletes, r), {})
  \/ /\ "row" \in store[r]
     /\ Tenable(wire, Naming({"room_left", "room_retired"}, r), Naming(Stores, r), Naming(Deletes, r), {})

(* While the server owes the answer to a roster request, the room has a    *)
(* row in the store, or the frame that stores it comes.                    *)
Answered(r) ==
  r \in asked /\ srv[r] \in {"in", "left", "retired"} =>
    \/ Last(wire, Naming(Stores, r), Naming(Deletes, r))
    \/ "row" \in store[r] /\ Free(wire, Naming(Deletes, r))

(* The answer to a roster request finds the row of a room left or retired  *)
(* meanwhile, or is followed by the frame that ends the membership.        *)
Late(r) ==
  srv[r] \in {"left", "retired"} =>
    \/ Secure(wire, Naming({"room_members_list"}, r), Naming(Stores, r), Naming(Deletes, r), Closes(r))
    \/ /\ "row" \in store[r]
       /\ Tenable(wire, Naming({"room_members_list"}, r), Naming(Stores, r), Naming(Deletes, r), Closes(r))

(* The frames on the wire find the rows they need when they are read.      *)
GuardInv ==
  up => /\ \A c \in Conv : Sealed(c)
        /\ \A r \in Rooms : Backed(r) /\ Answered(r) /\ Late(r)

(* The server says something.                                              *)
LEMMA GuardSaid ==
  ASSUME IInv, TypeOK, up, GuardInv, NEW f \in Frames, NEW d \in Conv, Saying(f, d)
  PROVE  GuardInv'
<1>0. UNCHANGED <<up, store>> /\ wire' = Append(wire, f) /\ Queue(wire) /\ asked' \subseteq asked
  BY DEF Saying, IInv, WireInv
<1>q. /\ \A B : Free(wire', B) <=> Free(wire, B) /\ f \notin B
      /\ \A M, B : Last(wire', M, B) <=> f \in M \/ (f \notin B /\ Last(wire, M, B))
  BY SentStep
<1>1. ASSUME NEW c \in Conv PROVE Sealed(c)'
  <2>1. f \notin Without(c)
    BY SaidOf
  <2>2. /\ Secure(wire, Without(c), Closes(c), Naming(Stores \ Retires, c), {})
             => Secure(Append(wire, f), Without(c), Closes(c), Naming(Stores \ Retires, c), {})
        /\ Tenable(wire, Without(c), Closes(c), Naming(Stores \ Retires, c), {})
             => Tenable(Append(wire, f), Without(c), Closes(c), Naming(Stores \ Retires, c), {})
    BY <1>0, <2>1, GuardMore
  <2> QED BY <1>0, <2>2 DEF GuardInv, Sealed
<1>2. ASSUME NEW r \in Rooms, NEW W, NEW X,
             \/ f \notin W
             \/ Last(wire, Naming(Stores, r), Naming(Deletes, r))
             \/ "row" \in store[r] /\ Free(wire, Naming(Deletes, r)),
             \/ Secure(wire, W, Naming(Stores, r), Naming(Deletes, r), X)
             \/ "row" \in store[r] /\ Tenable(wire, W, Naming(Stores, r), Naming(Deletes, r), X)
      PROVE  \/ Secure(wire', W, Naming(Stores, r), Naming(Deletes, r), X)
             \/ "row" \in store'[r] /\ Tenable(wire', W, Naming(Stores, r), Naming(Deletes, r), X)
  <2>1. PICK M, B : M = Naming(Stores, r) /\ B = Naming(Deletes, r)
    OBVIOUS
  <2>2. /\ Secure(wire, W, M, B, X) /\ (f \in W => Last(wire, M, B)) => Secure(Append(wire, f), W, M, B, X)
        /\ Tenable(wire, W, M, B, X) /\ (f \in W => Last(wire, M, B) \/ Free(wire, B)) => Tenable(Append(wire, f), W, M, B, X)
        /\ Secure(wire, W, M, B, X) => Tenable(wire, W, M, B, X)
    BY <1>0, GuardMore
  <2> QED BY <1>0, <1>2, <2>1, <2>2
<1>3. ASSUME NEW r \in Rooms PROVE Backed(r)' /\ Answered(r)' /\ Late(r)'
  <2>0. r \in Conv /\ r \notin DMs
    BY <1>3, Kinds
  <2>1. srv[r] = "in" => \/ Last(wire, Naming(Stores, r), Naming(Deletes, r))
                         \/ "row" \in store[r] /\ Free(wire, Naming(Deletes, r))
    BY <2>0, DueIs
  <2>2. Backed(r)'
    <3>1. f \in Naming({"room_left", "room_retired"}, r) => srv[r] = "in"
      BY <1>3, <2>0, SaidOf DEF Turn, Deletes
    <3> QED BY <1>2, <1>3, <2>1, <3>1 DEF GuardInv, Backed
  <2>3. Answered(r)'
    <3>1. srv'[r] \in {"in", "left", "retired"} =>
            \/ f \in Naming(Stores, r)
            \/ f \notin Naming(Deletes, r) /\ srv[r] \in {"in", "left", "retired"}
      BY <1>3, <2>0, SaidOf DEF Turn, Deletes, Stores, Joins, Dead
    <3> QED BY <1>0, <1>3, <1>q, <3>1 DEF GuardInv, Answered
  <2>4. Late(r)'
    <3> SUFFICES ASSUME srv'[r] \in {"left", "retired"} PROVE Late(r)'
      BY DEF Late
    <3>1. \/ f \in Closes(r) /\ f \notin Naming({"room_members_list"}, r)
          \/ srv'[r] = srv[r] /\ (f \in Naming({"room_members_list"}, r) => r \in asked)
      <4>1. CASE d = r
        <5>1. Turn(f, r) /\ \A types : f \in Naming(types, r) <=> f.type \in types
          BY <2>0, <4>1, SaidOf
        <5> QED BY <5>1 DEF Turn, Closes, Leaves, Retires, Dead
      <4>2. CASE d # r
        BY <2>0, <4>2, SaidOf
      <4> QED BY <4>1, <4>2
    <3>2. CASE f \in Closes(r) /\ f \notin Naming({"room_members_list"}, r)
      <4>1. Secure(Append(wire, f), Naming({"room_members_list"}, r), Naming(Stores, r), Naming(Deletes, r), Closes(r))
        BY <1>0, <3>2, GuardMore
      <4> QED BY <1>0, <4>1 DEF Late
    <3>3. CASE srv'[r] = srv[r] /\ (f \in Naming({"room_members_list"}, r) => r \in asked)
      <4>1. \/ f \notin Naming({"room_members_list"}, r)
            \/ Last(wire, Naming(Stores, r), Naming(Deletes, r))
            \/ "row" \in store[r] /\ Free(wire, Naming(Deletes, r))
        BY <1>3, <3>3 DEF GuardInv, Answered
      <4>2. \/ Secure(wire, Naming({"room_members_list"}, r), Naming(Stores, r), Naming(Deletes, r), Closes(r))
            \/ /\ "row" \in store[r]
               /\ Tenable(wire, Naming({"room_members_list"}, r), Naming(Stores, r), Naming(Deletes, r), Closes(r))
        BY <1>3, <3>3 DEF GuardInv, Late
      <4> QED BY <1>2, <1>3, <4>1, <4>2 DEF Late
    <3> QED BY <3>1, <3>2, <3>3
  <2> QED BY <2>2, <2>3, <2>4
<1> QED BY <1>1, <1>3 DEF GuardInv

(* A new connection: the list of a kind comes after its archives.          *)
LEMMA SealedDialed ==
  ASSUME IInv, TypeOK, Dial, inbox = <<>>, NEW c \in Conv
  PROVE  Sealed(c)'
<1>0. wire' = Handshake /\ store' = store /\ Queue(Handshake)
      /\ \A n \in DOMAIN Handshake : Handshake[n] \in Said(Handshake)
  BY DialStep DEF Said
<1>1. CASE \A f \in Said(Handshake) : f \notin Without(c)
  BY <1>0, <1>1 DEF Sealed, Secure
<1>2. CASE srv[c] = "none"
  <2>1. \A f \in Said(Handshake) : c \notin f.convs
    BY <1>2, DialStep DEF Places, Dead
  <2>2. store[c] = {}
    BY <1>2 DEF IInv, StoreInv
  <2>3. \A n \in DOMAIN Handshake : Handshake[n] \notin Naming(Stores \ Retires, c)
    BY <1>0, <2>1 DEF Naming
  <2> QED BY <1>0, <2>2, <2>3 DEF Sealed, Archived, Tenable, Untouched
<1>3. CASE srv[c] # "none" /\ \E f \in Said(Handshake) : f \in Without(c)
  <2>1. srv[c] # "in" /\ (c \in DMs => srv[c] \notin Dead)
    BY <1>3, DialOf
  <2>2. c \notin DMs /\ srv[c] \in {"left", "retired"} \cup Dead
    BY <1>3, <2>1, Kinds DEF IInv, KindInv, Standing, Dead
  <2>3. \A f \in Said(Handshake) : f \notin Naming(Stores \ Retires, c)
    BY <2>1, <2>2, DialOf
  <2>4. PICK g \in Said(Handshake) : g \in Closes(c)
    <3>1. \E f \in Said(Handshake) : f \in Naming(Leaves, c) \cup Naming(Retires, c) \cup Naming(Deletes, c)
      BY <2>2, DialOf
    <3>2. Naming(Leaves, c) \cup Naming(Retires, c) \cup Naming(Deletes, c) \subseteq Closes(c)
      BY DEF Naming, Closes
    <3> QED BY <3>1, <3>2
  <2>5. PICK k, l, P, Q : /\ Splits(Handshake, k, l, P, Q)
                          /\ \A x \in P : x.type # ListOf(c)
                          /\ \A x \in Q : x.type # ListOf(c)
                          /\ l \notin Closes(c) /\ \A x \in Q : x \notin Closes(c)
    <3>1. CASE c \in Rooms
      <4>1. PICK k, P, Q :
              /\ Splits(Handshake, k, Frame("room_list", In(Rooms, {"in"})), P, Q)
              /\ \A x \in P : x.type \in {"deleted_rooms", "retired_rooms", "left_rooms"}
              /\ \A x \in Q : x.type \in {"deleted_groups", "left_groups", "group_list", "dm_list"}
        BY ListsStand
      <4>2. /\ \A x \in P : x.type # ListOf(c)
            /\ \A x \in Q : x.type # ListOf(c)
        BY <3>1, <4>1 DEF ListOf
      <4>3. Frame("room_list", In(Rooms, {"in"})) \notin Closes(c)
        BY DEF Closes, Naming, Frame, Leaves, Retires, Deletes
      <4>4. \A n \in DOMAIN Handshake : n > k => Handshake[n] \notin Closes(c)
        <5>1. \A f \in Said(Handshake) : c \in f.convs => Places(f, c)
          BY DialStep
        <5>2. c \notin Groups
          BY <3>1, Kinds
        <5> QED BY <1>0, <4>1, <5>1, <5>2 DEF Splits, Places, Closes, Naming, Leaves, Retires, Deletes
      <4>5. Splits(Handshake, k, Frame("room_list", In(Rooms, {"in"})), P, {x \in Q : x \notin Closes(c)})
        BY <4>1, <4>4 DEF Splits
      <4>6. PICK R : R = {x \in Q : x \notin Closes(c)}
        OBVIOUS
      <4>7. /\ \A x \in R : x.type # ListOf(c)
            /\ \A x \in R : x \notin Closes(c)
        BY <4>2, <4>6
      <4> QED BY <4>2, <4>3, <4>5, <4>6, <4>7
    <3>2. CASE c \in Groups
      <4>1. PICK k, P, Q :
              /\ Splits(Handshake, k, Frame("group_list", In(Groups, {"in"})), P, Q)
              /\ \A x \in P : x.type \in {"deleted_rooms", "retired_rooms", "left_rooms", "room_list",
                                          "deleted_groups", "left_groups"}
              /\ \A x \in Q : x.type = "dm_list"
        BY ListsStand
      <4>2. /\ \A x \in P : x.type # ListOf(c)
            /\ \A x \in Q : x.type # ListOf(c)
        BY <3>2, <4>1, Kinds DEF ListOf
      <4>3. Frame("group_list", In(Groups, {"in"})) \notin Closes(c) /\ \A x \in Q : x \notin Closes(c)
        BY <4>1 DEF Closes, Naming, Frame, Leaves, Retires, Deletes
      <4> QED BY <4>1, <4>2, <4>3
    <3> QED BY <2>2, <3>1, <3>2 DEF Conv
  <2>6. PICK j \in DOMAIN Handshake : Handshake[j] = g
    BY <2>4 DEF Said
  <2>7. \A n \in DOMAIN Handshake : n \in Nat
    <3>1. PICK s : s = Handshake
      OBVIOUS
    <3>2. \A n \in DOMAIN s : n \in Nat
      BY <1>0, <3>1, LenProperties DEF Queue
    <3> QED BY <3>1, <3>2
  <2>8. \A n \in DOMAIN Handshake : Handshake[n] \in Without(c) => n = k
    BY <2>5, <2>7 DEF Splits, Without
  <2>9. j < k
    BY <2>4, <2>5, <2>6, <2>7 DEF Splits
  <2>10. Reached(Handshake, k, Closes(c), Naming(Stores \ Retires, c))
    BY <1>0, <2>3, <2>4, <2>6, <2>9 DEF Reached
  <2> QED BY <1>0, <2>8, <2>10 DEF Sealed, Secure
<1> QED BY <1>1, <1>2, <1>3

(* The frames of a handshake find the rows they need.                      *)
LEMMA GuardDialed ==
  ASSUME IInv, TypeOK, Dial, inbox = <<>>, asked = {}
  PROVE  GuardInv'
<1>0. wire' = Handshake /\ asked' = {} /\ \A n \in DOMAIN Handshake : Handshake[n] \in Said(Handshake)
  BY DialStep DEF Said
<1>1. ASSUME NEW c \in Conv PROVE Sealed(c)'
  BY SealedDialed
<1>2. ASSUME NEW r \in Rooms PROVE Backed(r)' /\ Answered(r)' /\ Late(r)'
  <2>1. \A f \in Said(Handshake) : f \notin Live
    BY <1>2, DialOf, Kinds
  <2>2. \A f : f \in Naming({"room_left", "room_retired"}, r) \cup Naming({"room_members_list"}, r) => f \in Live
    BY DEF Naming, Live, LiveTypes
  <2>3. Backed(r)' /\ Late(r)'
    BY <1>0, <2>1, <2>2 DEF Backed, Late, Secure
  <2>4. Answered(r)'
    BY <1>0 DEF Answered
  <2> QED BY <2>3, <2>4
<1> QED BY <1>1, <1>2 DEF GuardInv

(* The readLoop takes a frame.                                             *)
LEMMA GuardRead ==
  ASSUME IInv, TypeOK, up, GuardInv, ReadFrame
  PROVE  GuardInv'
<1>0. PICK h : h = Head(wire)
  OBVIOUS
<1>1. wire' = Tail(wire) /\ wire # <<>> /\ Queue(wire) /\ UNCHANGED <<srv, asked, up>>
  BY DEF ReadFrame, serverVars, linkVars, IInv, WireInv
<1>2. ASSUME NEW c \in Conv PROVE h \in Frames /\ Ran(h, c, store[c], store'[c]) /\ store[c] \subseteq KindFlags(c)
  BY <1>0, <1>2, ReadOf DEF IInv, StoreInv
<1>3. ASSUME NEW c \in Conv PROVE Sealed(c)'
  <2>1. PICK W, M, B : W = Without(c) /\ M = Closes(c) /\ B = Naming(Stores \ Retires, c)
    OBVIOUS
  <2>2. /\ Tenable(wire, W, M, B, {}) => Tenable(wire', W, M, B, {})
        /\ Secure(wire, W, M, B, {}) /\ h \notin M => Secure(wire', W, M, B, {})
        /\ Tenable(wire, W, M, B, {}) /\ h \in B /\ h \notin M => Secure(wire', W, M, B, {})
        /\ Secure(wire, W, M, B, {}) => Tenable(wire, W, M, B, {})
    BY <1>0, <1>1, GuardLess
  <2>3. h \in M => Archived(c, store'[c])
    BY <1>2, <2>1, RanShown
  <2>4. h \notin B /\ Archived(c, store[c]) => Archived(c, store'[c])
    BY <1>2, <2>1, RanShown
  <2>5. h \in B => h \notin M
    BY <2>1 DEF Closes, Naming, Stores, Joins, Leaves, Retires, Deletes
  <2>6. \/ Secure(wire, W, M, B, {})
        \/ Archived(c, store[c]) /\ Tenable(wire, W, M, B, {})
    BY <1>3, <2>1 DEF GuardInv, Sealed
  <2> QED BY <2>1, <2>2, <2>3, <2>4, <2>5, <2>6 DEF Sealed
<1>4. ASSUME NEW r \in Rooms
      PROVE  /\ h \in Naming(Stores, r) => "row" \in store'[r]
             /\ h \notin Naming(Deletes, r) /\ "row" \in store[r] => "row" \in store'[r]
             /\ h \in Naming(Deletes, r) => h \notin Naming(Stores, r)
  <2>1. r \in Conv
    BY <1>4, Kinds
  <2>2. h \in Naming(Deletes, r) => h \notin Naming(Stores, r)
    BY DEF Naming, Stores, Joins, Retires, Deletes
  <2> QED BY <1>2, <2>1, <2>2, RanRow
<1>5. ASSUME NEW r \in Rooms, NEW W, NEW X,
             \/ Secure(wire, W, Naming(Stores, r), Naming(Deletes, r), X)
             \/ "row" \in store[r] /\ Tenable(wire, W, Naming(Stores, r), Naming(Deletes, r), X)
      PROVE  \/ Secure(wire', W, Naming(Stores, r), Naming(Deletes, r), X)
             \/ "row" \in store'[r] /\ Tenable(wire', W, Naming(Stores, r), Naming(Deletes, r), X)
  <2>1. PICK M, B : M = Naming(Stores, r) /\ B = Naming(Deletes, r)
    OBVIOUS
  <2>2. /\ Tenable(wire, W, M, B, X) => Tenable(wire', W, M, B, X)
        /\ Secure(wire, W, M, B, X) /\ h \notin M => Secure(wire', W, M, B, X)
        /\ Tenable(wire, W, M, B, X) /\ h \in B /\ h \notin M => Secure(wire', W, M, B, X)
        /\ Secure(wire, W, M, B, X) => Tenable(wire, W, M, B, X)
    BY <1>0, <1>1, GuardLess
  <2> QED BY <1>4, <1>5, <2>1, <2>2
<1>6. ASSUME NEW r \in Rooms PROVE Backed(r)' /\ Late(r)'
  BY <1>1, <1>5, <1>6 DEF GuardInv, Backed, Late
<1>7. ASSUME NEW r \in Rooms PROVE Answered(r)'
  <2>1. /\ \A B : Free(wire, B) <=> Free(wire', B) /\ h \notin B
        /\ \A M, B : Last(wire, M, B) <=> Last(wire', M, B) \/ (h \in M /\ Free(wire', B))
    BY <1>0, ReadStep
  <2> QED BY <1>1, <1>4, <1>7, <2>1 DEF GuardInv, Answered
<1> QED BY <1>3, <1>6, <1>7 DEF GuardInv

(* What the TUI writes.                                                    *)
LEMMA ShowWrites ==
  ASSUME IInv, TypeOK, Show, NEW h, h = Head(inbox), NEW c \in Conv
  PROVE  \/ store'[c] = store[c]
         \/ h \in Lists("group_list") /\ c \in Groups /\ c \in h.convs /\ "left" \in store[c]
              /\ store'[c] = store[c] \ {"left"}
<1>0. inbox # <<>>
  BY DEF Show, ShowRoomList, ShowGroupList, ShowDMList, ShowRoomAddedTo, ShowAdded, ShowLeft, ShowRetired, ShowDeleted, ShowOther, Take
<1>1. h \in Frames /\ FrameInv(h, srv) /\ Named = h.convs
  BY <1>0, Facing
<1>2. CASE ShowGroupList
  <2>1. h.type = "group_list" /\ store' = Unarchived
    BY <1>2 DEF ShowGroupList, Take
  <2>2. c \in h.convs => c \in Groups
    BY <1>1, <2>1 DEF FrameInv, Suits, GroupTypes
  <2>3. Exec(store[c], MarkGroupRejoined) \in {store[c], store[c] \ {"left"}}
    BY DEF Exec, MarkGroupRejoined, Update
  <2> QED BY <1>1, <2>1, <2>2, <2>3 DEF Unarchived, Lists
<1>3. CASE ~ShowGroupList
  BY <1>3 DEF Show, ShowRoomList, ShowDMList, ShowRoomAddedTo, ShowAdded, ShowLeft, ShowRetired, ShowDeleted, ShowOther
<1> QED BY <1>2, <1>3

(* What the TUI shows, and group_list clears, disturbs no guard.           *)
LEMMA GuardShown ==
  ASSUME IInv, TypeOK, up, OrderInv, GuardInv, Show
  PROVE  GuardInv'
<1>0. PICK h : h = Head(inbox)
  OBVIOUS
<1>1. UNCHANGED <<srv, asked, up, wire>>
  BY <1>0, ShowStep
<1>2. ASSUME NEW r \in Rooms PROVE "row" \in store[r] => "row" \in store'[r]
  BY <1>0, <1>2, ShowWrites, Kinds
<1>3. ASSUME NEW r \in Rooms PROVE Backed(r)' /\ Answered(r)' /\ Late(r)'
  BY <1>1, <1>2, <1>3 DEF GuardInv, Backed, Answered, Late
<1>4. ASSUME NEW c \in Conv PROVE Sealed(c)'
  <2>1. CASE store'[c] = store[c]
    BY <1>1, <1>4, <2>1 DEF GuardInv, Sealed
  <2>2. CASE h \in Lists("group_list") /\ c \in Groups
    <3>1. ~Free(inbox, Live \cup Lists("group_list"))
      BY <1>0, <2>2, ShowStep
    <3>2. Free(wire, Lists("group_list"))
      BY <3>1 DEF OrderInv, Ordered
    <3>3. Without(c) \subseteq Lists("group_list")
      BY <2>2, Kinds DEF Without, Lists, ListOf
    <3> QED BY <1>1, <3>2, <3>3 DEF Sealed, Secure, Free
  <2> QED BY <1>0, <2>1, <2>2, ShowWrites
<1> QED BY <1>3, <1>4 DEF GuardInv

(* Every step keeps the guards.                                            *)
LEMMA GuardStep ==
  ASSUME IInv, Ground, Ground', OrderInv, GuardInv, [Next]_vars
  PROVE  GuardInv'
<1> SUFFICES ASSUME up' PROVE GuardInv'
  BY DEF GuardInv
<1>0. TypeOK
  BY DEF Ground
<1>1. ASSUME up, NEW f \in Frames, NEW c \in Conv, Saying(f, c) PROVE GuardInv'
  BY <1>0, <1>1, GuardSaid
<1>2. ASSUME Dial, inbox = <<>>, asked = {} PROVE GuardInv'
  BY <1>0, <1>2, GuardDialed
<1>3. ASSUME up, ReadFrame PROVE GuardInv'
  BY <1>0, <1>3, GuardRead
<1>4. ASSUME up, Show PROVE GuardInv'
  BY <1>0, <1>4, GuardShown
<1>5. ASSUME up, Attach \/ \E c \in Conv : Open(c) PROVE GuardInv'
  BY <1>5 DEF Attach, Open, GuardInv, Sealed, Backed, Answered, Late, serverVars, linkVars, clientVars
<1>6. ASSUME up, Idle PROVE GuardInv'
  <2>1. ASSUME NEW r \in Rooms PROVE Answered(r)'
    <3>1. r \in Conv /\ r \notin DMs
      BY <2>1, Kinds
    <3>2. srv[r] = "in" => \/ Last(wire, Naming(Stores, r), Naming(Deletes, r))
                           \/ "row" \in store[r] /\ Free(wire, Naming(Deletes, r))
      BY <1>0, <1>6, <3>1, DueIs
    <3> QED BY <1>6, <2>1, <3>2 DEF Idle, GuardInv, Answered
  <2>2. \A c \in Conv : Sealed(c)'
    BY <1>6 DEF Idle, GuardInv, Sealed
  <2>3. \A r \in Rooms : Backed(r)' /\ Late(r)'
    BY <1>6 DEF Idle, GuardInv, Backed, Late
  <2> QED BY <2>1, <2>2, <2>3 DEF GuardInv
<1> QED BY <1>1, <1>2, <1>3, <1>4, <1>5, <1>6, UpSteps

(* With no connection there is nothing to guard.                           *)
LEMMA GuardInit ==
  ASSUME Init
  PROVE  GuardInv
BY DEF Init, GuardInv

(* The frames that change what the sidebar lists, or come with a list of   *)
(* its kind. After the last of them in msgCh the store is what the TUI     *)
(* will make of the entry; after none of them it is what the entry shows.  *)
Returns(c) == Naming({"retired_rooms"}, c)
Changes(c) == Adds(c) \cup Drops(c) \cup Without(c) \cup Returns(c)

Added(c) == Last(inbox, Adds(c), Drops(c) \cup Without(c) \cup Returns(c)) => ShownIn(store[c])
Dropped(c) == Last(inbox, Drops(c), Adds(c) \cup Without(c) \cup Returns(c)) => ~ShownIn(store[c])
LeftOut(c) == Last(inbox, Without(c), Adds(c) \cup Drops(c) \cup Returns(c)) => Archived(c, store[c])
Agreed(c) ==
  Free(inbox, Changes(c)) /\ Free(wire, Lists(ListOf(c))) => (ShownIn(store[c]) <=> c \in listed)

(* The store and the sidebar agree on what is listed, up to the frames the *)
(* TUI has yet to take.                                                    *)
MirrorInv == up => \A c \in Conv : Added(c) /\ Dropped(c) /\ LeftOut(c) /\ Agreed(c)

(* A list of the kind of c lists it, drops it or leaves it out.            *)
LEMMA ListsChange ==
  ASSUME NEW c \in Conv, NEW f \in Lists(ListOf(c))
  PROVE  f \in Adds(c) \cup Drops(c) \cup Without(c)
BY DEF Lists, ListOf, Adds, Drops, Without, Joins, Shows, Hides, Deletes

(* A room or a group with a row is shown; a read-only mark needs a row.    *)
LEMMA ShownRow ==
  ASSUME IInv, NEW c \in Conv
  PROVE  /\ c \notin DMs => (ShownIn(store[c]) <=> "row" \in store[c])
         /\ ReadOnly(store[c]) => "row" \in store[c]
<1>1. store[c] \subseteq KindFlags(c) /\ OfRow(store[c])
  BY DEF IInv, StoreInv
<1>2. c \notin DMs => "hidden" \notin store[c]
  BY <1>1 DEF KindFlags, Conv
<1>3. ReadOnly(store[c]) => "row" \in store[c]
  BY <1>1 DEF OfRow, ReadOnly, RowFlags, Flags
<1> QED BY <1>2, <1>3 DEF ShownIn

(* The readLoop keeps the agreement of the store with the sidebar.         *)
LEMMA MirrorRead ==
  ASSUME IInv, TypeOK, up, GuardInv, MirrorInv, ReadFrame
  PROVE  MirrorInv'
<1>0. PICK h : h = Head(wire)
  OBVIOUS
<1>1. wire' = Tail(wire) /\ wire # <<>> /\ Queue(wire) /\ UNCHANGED <<srv, asked, up, listed>>
  BY DEF ReadFrame, serverVars, linkVars, sidebarVars, IInv, WireInv
<1>2. /\ \A B : Free(wire, B) <=> Free(wire', B) /\ h \notin B
      /\ \A B : Free(inbox', B) <=> Free(inbox, B) /\ h \notin B
      /\ \A M, B : Last(inbox', M, B) <=> h \in M \/ (h \notin B /\ Last(inbox, M, B))
  BY <1>0, ReadStep
<1> SUFFICES ASSUME NEW c \in Conv PROVE Added(c)' /\ Dropped(c)' /\ LeftOut(c)' /\ Agreed(c)'
  BY DEF MirrorInv
<1>3. Added(c) /\ Dropped(c) /\ LeftOut(c) /\ Agreed(c)
  BY DEF MirrorInv
<1>4. h \in Frames /\ FrameInv(h, srv) /\ Ran(h, c, store[c], store'[c]) /\ store[c] \subseteq KindFlags(c)
  BY <1>0, ReadOf DEF IInv, StoreInv
<1>5. /\ h \in Adds(c) => ShownIn(store'[c])
      /\ h \in Drops(c) => ~ShownIn(store'[c])
      /\ h \in Naming(Retires, c) => ShownIn(store'[c])
      /\ h \notin Adds(c) \cup Drops(c) \cup Naming(Retires, c) => (ShownIn(store'[c]) <=> ShownIn(store[c]))
      /\ h \notin Naming(Stores \ Retires, c) /\ Archived(c, store[c]) => Archived(c, store'[c])
  BY <1>4, RanShown
<1>6. h \in Naming(Retires, c) => h \in Returns(c) \/ ShownIn(store[c])
  <2> SUFFICES ASSUME h \in Naming({"room_retired"}, c) PROVE ShownIn(store[c])
    BY DEF Naming, Retires, Returns
  <2>1. c \in Rooms
    BY <1>4 DEF Naming, FrameInv, Suits, RoomTypes
  <2>2. ~Last(Tail(wire), {}, {})
    BY DEF Last
  <2>3. h \in Naming({"room_left", "room_retired"}, c)
    BY DEF Naming
  <2>4. ~Secure(wire, Naming({"room_left", "room_retired"}, c), Naming(Stores, c), Naming(Deletes, c), {})
    BY <1>0, <1>1, <2>2, <2>3, GuardLess
  <2>5. "row" \in store[c]
    BY <2>1, <2>4 DEF GuardInv, Backed
  <2> QED BY <2>1, <2>5, ShownRow, Kinds
<1>7. h \in Without(c) => Archived(c, store'[c])
  <2> SUFFICES ASSUME h \in Without(c) PROVE Archived(c, store'[c])
    OBVIOUS
  <2>1. ~Last(Tail(wire), {}, {})
    BY DEF Last
  <2>2. ~Secure(wire, Without(c), Closes(c), Naming(Stores \ Retires, c), {})
    BY <1>0, <1>1, <2>1, GuardLess
  <2>3. Archived(c, store[c])
    BY <2>2 DEF GuardInv, Sealed
  <2>4. h \notin Naming(Stores \ Retires, c)
    BY DEF Naming, Without
  <2> QED BY <1>5, <2>3, <2>4
<1>8. h \in Naming(Stores \ Retires, c) => h \in Adds(c) \cup Drops(c)
  BY <1>4 DEF Naming, Stores, Joins, Retires, Adds, Drops, Shows, Hides
<1>9. h \in Lists(ListOf(c)) => h \in Changes(c)
  BY ListsChange DEF Changes
<1>a. Added(c)'
  BY <1>2, <1>3, <1>5, <1>6 DEF Added
<1>b. Dropped(c)'
  BY <1>2, <1>3, <1>5, <1>6 DEF Dropped
<1>c. LeftOut(c)'
  BY <1>2, <1>3, <1>5, <1>7, <1>8 DEF LeftOut
<1>d. Agreed(c)'
  <2>1. /\ Free(inbox', Changes(c)) => Free(inbox, Changes(c)) /\ h \notin Changes(c)
        /\ h \notin Changes(c) => h \notin Adds(c) \cup Drops(c) \cup Returns(c)
    BY <1>2 DEF Changes
  <2>2. Free(wire', Lists(ListOf(c))) /\ h \notin Changes(c) => Free(wire, Lists(ListOf(c)))
    BY <1>2, <1>9
  <2>3. h \notin Changes(c) => (ShownIn(store'[c]) <=> ShownIn(store[c]))
    BY <1>5, <1>6, <2>1
  <2> QED BY <1>1, <1>3, <2>1, <2>2, <2>3 DEF Agreed
<1> QED BY <1>a, <1>b, <1>c, <1>d

(* The TUI handles a frame.                                                *)
LEMMA MirrorShown ==
  ASSUME IInv, IInv', TypeOK, up, OrderInv, MirrorInv, Show
  PROVE  MirrorInv'
<1>0. PICK h : h = Head(inbox)
  OBVIOUS
<1>1. inbox # <<>> /\ inbox' = Tail(inbox) /\ Queue(inbox) /\ UNCHANGED <<srv, asked, up, wire>>
  BY <1>0, ShowStep DEF IInv, WireInv
<1>2. /\ \A B : Free(inbox, B) <=> Free(inbox', B) /\ h \notin B
      /\ \A M, B : Last(inbox, M, B) <=> Last(inbox', M, B) \/ (h \in M /\ Free(inbox', B))
  BY <1>0, ShowStep
<1> SUFFICES ASSUME NEW c \in Conv PROVE Added(c)' /\ Dropped(c)' /\ LeftOut(c)' /\ Agreed(c)'
  BY DEF MirrorInv
<1>3. Added(c) /\ Dropped(c) /\ LeftOut(c) /\ Agreed(c)
  BY DEF MirrorInv
<1>4. \/ store'[c] = store[c]
      \/ h \in Lists("group_list") /\ c \in Groups /\ c \in h.convs /\ store'[c] = store[c] \ {"left"}
  BY <1>0, ShowWrites
<1>5. ShownIn(store'[c]) <=> ShownIn(store[c])
  BY <1>4 DEF ShownIn
<1>6. /\ h \in Adds(c) => c \in listed'
      /\ h \in Drops(c) => c \notin listed'
      /\ h \in Without(c) => (c \in listed' <=> c \notin DMs /\ ReadOnly(store[c]))
      /\ h \notin Adds(c) \cup Drops(c) \cup Without(c) => (c \in listed' <=> c \in listed)
  BY <1>0, ShowLists
<1>a. Added(c)'
  BY <1>2, <1>3, <1>5 DEF Added
<1>b. Dropped(c)'
  BY <1>2, <1>3, <1>5 DEF Dropped
<1>c. LeftOut(c)'
  <2> SUFFICES ASSUME Last(inbox', Without(c), Adds(c) \cup Drops(c) \cup Returns(c))
               PROVE  Archived(c, store'[c])
    BY DEF LeftOut
  <2>1. Archived(c, store[c])
    BY <1>2, <1>3 DEF LeftOut
  <2>2. CASE h \in Lists("group_list") /\ c \in Groups
    <3>1. Orderly(inbox, Live \cup Lists("group_list"), Lists("group_list"))
      BY DEF OrderInv, Ordered
    <3>2. Free(inbox', Lists("group_list"))
      BY <1>0, <1>1, <2>2, <3>1, OrderlyLess
    <3>3. Without(c) \subseteq Lists("group_list")
      BY <2>2, Kinds DEF Without, Lists, ListOf
    <3> QED BY <3>2, <3>3 DEF Last, Free
  <2> QED BY <1>4, <2>1, <2>2
<1>d. Agreed(c)'
  <2> SUFFICES ASSUME Free(inbox', Changes(c)), Free(wire, Lists(ListOf(c)))
               PROVE  ShownIn(store[c]) <=> c \in listed'
    BY <1>1, <1>5 DEF Agreed
  <2>1. CASE h \notin Changes(c)
    <3>1. ShownIn(store[c]) <=> c \in listed
      BY <1>2, <1>3, <2>1 DEF Agreed
    <3> QED BY <1>6, <2>1, <3>1 DEF Changes
  <2>2. \A M : M \subseteq Changes(c) => Free(inbox', M)
    BY DEF Free
  <2>3. CASE h \in Adds(c)
    <3>1. Free(inbox', Drops(c) \cup Without(c) \cup Returns(c))
      BY <2>2 DEF Changes
    <3> QED BY <1>2, <1>3, <1>6, <2>3, <3>1 DEF Added
  <2>4. CASE h \in Drops(c)
    <3>1. Free(inbox', Adds(c) \cup Without(c) \cup Returns(c))
      BY <2>2 DEF Changes
    <3> QED BY <1>2, <1>3, <1>6, <2>4, <3>1 DEF Dropped
  <2>5. CASE h \in Without(c)
    <3>1. Free(inbox', Adds(c) \cup Drops(c) \cup Returns(c))
      BY <2>2 DEF Changes
    <3>2. Archived(c, store[c])
      BY <1>2, <1>3, <2>5, <3>1 DEF LeftOut
    <3>3. c \in DMs => ~ShownIn(store[c])
      BY <3>2 DEF Archived, ShownIn
    <3>4. c \notin DMs => (ShownIn(store[c]) <=> ReadOnly(store[c]))
      BY <3>2, ShownRow DEF Archived
    <3> QED BY <1>6, <2>5, <3>3, <3>4
  <2>6. CASE h \in Returns(c)
    <3>1. h \in Archives /\ h \notin Lists("room_list") /\ c \in Rooms
      <4>1. FrameInv(h, srv)
        BY <1>0, <1>1, Facing
      <4> QED BY <2>6, <4>1 DEF Returns, Naming, Archives, Lists, FrameInv, Suits, RoomTypes
    <3>2. ~Free(inbox, Archives)
      BY <1>2, <3>1
    <3>3. Coming(inbox, wire, Lists("room_list"), Archives)
      BY <3>2 DEF OrderInv, ArchivesListed, Clear
    <3>4. ListOf(c) = "room_list"
      BY <3>1 DEF ListOf
    <3>5. Last(inbox', Lists("room_list"), Archives)
      BY <1>2, <3>1, <3>3, <3>4 DEF Coming, Last, Free
    <3>6. \A f \in Lists("room_list") : f \in Changes(c)
      BY <3>4, ListsChange DEF Changes
    <3> QED BY <3>5, <3>6 DEF Last, Free
  <2> QED BY <2>1, <2>3, <2>4, <2>5, <2>6 DEF Changes
<1> QED BY <1>a, <1>b, <1>c, <1>d

(* Every step keeps the agreement of the store with the sidebar.           *)
LEMMA MirrorStep ==
  ASSUME IInv, IInv', Ground, Ground', OrderInv, GuardInv, MirrorInv, [Next]_vars
  PROVE  MirrorInv'
<1> SUFFICES ASSUME up' PROVE MirrorInv'
  BY DEF MirrorInv
<1>0. TypeOK
  BY DEF Ground
<1>1. ASSUME up, NEW f \in Frames, NEW d \in Conv, Saying(f, d) PROVE MirrorInv'
  <2>1. UNCHANGED <<up, store, inbox, listed>> /\ \A B : Free(wire', B) => Free(wire, B)
    BY <1>1, SentStep DEF Saying
  <2> QED BY <2>1 DEF MirrorInv, Added, Dropped, LeftOut, Agreed
<1>2. ASSUME Dial, inbox = <<>> PROVE MirrorInv'
  <2>1. /\ \A B : Free(wire', B) <=> \A f \in Said(Handshake) : f \notin B
        /\ \A M, B : ~Last(inbox', M, B)
    BY <1>2, DialStep
  <2>2. \A c \in Conv : ~Free(wire', Lists(ListOf(c)))
    BY <2>1, DialOf
  <2> QED BY <2>1, <2>2 DEF MirrorInv, Added, Dropped, LeftOut, Agreed
<1>3. ASSUME up, ReadFrame PROVE MirrorInv'
  BY <1>0, <1>3, MirrorRead
<1>4. ASSUME up, Show PROVE MirrorInv'
  BY <1>0, <1>4, MirrorShown
<1>5. ASSUME up, Attach PROVE MirrorInv'
  <2>1. /\ UNCHANGED <<up, store, wire, inbox>> /\ ui = "dialled"
        /\ listed' = (listed \ Rooms) \cup welcome /\ welcome \subseteq Rooms
    BY <1>0, <1>5 DEF Attach, linkVars, clientVars, TypeOK
  <2>2. Coming(inbox, wire, Welcomes, {})
    BY <1>5, <2>1 DEF OrderInv
  <2>3. ASSUME NEW c \in Conv PROVE Agreed(c)'
    <3>1. CASE c \notin Rooms
      BY <1>5, <2>1, <3>1 DEF MirrorInv, Agreed
    <3>2. CASE c \in Rooms
      <4>1. ListOf(c) = "room_list" /\ Welcomes \subseteq Lists("room_list")
        BY <3>2 DEF ListOf, Welcomes, Lists
      <4>2. \A f \in Lists("room_list") : f \in Changes(c)
        BY <4>1, ListsChange DEF Changes
      <4>3. ~Free(inbox, Changes(c)) \/ ~Free(wire, Lists(ListOf(c)))
        BY <2>2, <4>1, <4>2 DEF Coming, Last, Free
      <4> QED BY <2>1, <4>3 DEF Agreed
    <3> QED BY <3>1, <3>2
  <2> QED BY <1>5, <2>1, <2>3 DEF MirrorInv, Added, Dropped, LeftOut
<1>6. ASSUME up, Idle \/ \E c \in Conv : Open(c) PROVE MirrorInv'
  BY <1>6 DEF Idle, Open, MirrorInv, Added, Dropped, LeftOut, Agreed, serverVars, linkVars, clientVars, sidebarVars
<1> QED BY <1>1, <1>2, <1>3, <1>4, <1>5, <1>6, UpSteps

(* With no connection there is nothing to agree on.                        *)
LEMMA MirrorInit ==
  ASSUME Init
  PROVE  MirrorInv
BY DEF Init, MirrorInv

(* The same of the marker of a room that was left.                         *)
Regreys(r) ==
  Changes(r) \cup Lists("room_list") \cup Naming({"room_left", "left_rooms", "room_added_to"} \cup Deletes, r)

(* After the last frame in msgCh that regreys r, the store says what the   *)
(* TUI will show; after none of them, the marker shows what the store      *)
(* says.                                                                   *)
GreyLeft(r) ==
  Last(inbox, Naming({"room_left"}, r), Regreys(r) \ Naming({"room_left"}, r)) => {"row", "left"} \subseteq store[r]
GreyJoined(r) ==
  Last(inbox, Naming({"room_added_to"}, r), Regreys(r) \ Naming({"room_added_to"}, r)) => "left" \notin store[r]
GreyGone(r) ==
  Last(inbox, Naming(Deletes, r), Regreys(r) \ Naming(Deletes, r)) => "row" \notin store[r]
GreyAgreed(r) ==
  Free(inbox, Regreys(r)) /\ Free(wire, Lists("room_list"))
    => ("left" \in store[r] <=> "row" \in store[r] /\ r \in grey)

(* The store and the sidebar agree on the rooms that were left, up to the  *)
(* frames the TUI has yet to take.                                         *)
GreyInv == up => \A r \in Rooms : GreyLeft(r) /\ GreyJoined(r) /\ GreyGone(r) /\ GreyAgreed(r)

(* The frames that touch the marker of a room, by what they do to it.      *)
LEMMA RegreysAre ==
  ASSUME NEW r \in Rooms, NEW f \in Frames, FrameInv(f, srv)
  PROVE  /\ f \in Regreys(r) =>
              \/ f \in Lists("room_list")
              \/ f \in Naming({"room_left", "room_added_to"} \cup Deletes, r)
              \/ f \in Archives
         /\ f \in Naming(Stores, r) => f \in Regreys(r) \/ f \in Naming({"room_retired"}, r)
         /\ f \in Entries(r) \cup Naming({"room_left", "left_rooms"} \cup Deletes, r) => f \in Regreys(r)
         /\ f \in Naming({"room_left"}, r) \cup Naming({"room_added_to"}, r) \cup Naming(Deletes, r) => f \in Regreys(r)
<1>1. r \in f.convs => f.type \notin GroupTypes \cup DMTypes
  BY Kinds DEF FrameInv, Suits
<1>2. f \in Changes(r) => \/ f \in Lists("room_list")
                          \/ f \in Naming({"room_left", "room_added_to"} \cup Deletes, r)
                          \/ f \in Archives
  BY <1>1 DEF Changes, Adds, Drops, Without, Returns, ListOf, Naming, Lists, Archives, Joins, Shows, Hides,
     GroupTypes, DMTypes
<1>3. f \in Naming({"left_rooms"}, r) => f \in Archives
  BY DEF Naming, Archives
<1>4. f \in Naming({"room_left", "left_rooms", "room_added_to"} \cup Deletes, r) =>
        f \in Naming({"left_rooms"}, r) \/ f \in Naming({"room_left", "room_added_to"} \cup Deletes, r)
  BY DEF Naming
<1>5. f \in Naming(Stores, r) => f \in Regreys(r) \/ f \in Naming({"room_retired"}, r)
  BY <1>1 DEF Regreys, Changes, Returns, Naming, Stores, Joins, Retires, Lists, GroupTypes, DMTypes
<1>6. f \in Entries(r) \cup Naming({"room_left", "left_rooms"} \cup Deletes, r) => f \in Regreys(r)
  BY DEF Entries, Regreys, Naming, Lists
<1>7. f \in Naming({"room_left"}, r) \cup Naming({"room_added_to"}, r) \cup Naming(Deletes, r) => f \in Regreys(r)
  BY DEF Regreys, Naming
<1> QED BY <1>2, <1>3, <1>4, <1>5, <1>6, <1>7 DEF Regreys

(* A room_left or a room_retired that is read finds a row.                 *)
LEMMA BackedHead ==
  ASSUME IInv, up, GuardInv, wire # <<>>, NEW r \in Rooms,
         Head(wire) \in Naming({"room_left", "room_retired"}, r)
  PROVE  "row" \in store[r]
<1>1. ~Last(Tail(wire), {}, {})
  BY DEF Last
<1>2. Queue(wire)
  BY DEF IInv, WireInv
<1>3. ~Secure(wire, Naming({"room_left", "room_retired"}, r), Naming(Stores, r), Naming(Deletes, r), {})
  BY <1>1, <1>2, GuardLess
<1> QED BY <1>3 DEF GuardInv, Backed

(* The readLoop keeps the agreement on the rooms that were left.           *)
LEMMA GreyRead ==
  ASSUME IInv, TypeOK, up, GuardInv, GreyInv, ReadFrame
  PROVE  GreyInv'
<1>0. PICK h : h = Head(wire)
  OBVIOUS
<1>1. wire # <<>> /\ UNCHANGED <<srv, up, grey>>
  BY DEF ReadFrame, serverVars, linkVars, sidebarVars
<1>2. /\ \A B : Free(wire, B) <=> Free(wire', B) /\ h \notin B
      /\ \A B : Free(inbox', B) <=> Free(inbox, B) /\ h \notin B
      /\ \A M, B : Last(inbox', M, B) <=> h \in M \/ (h \notin B /\ Last(inbox, M, B))
  BY <1>0, ReadStep
<1> SUFFICES ASSUME NEW r \in Rooms PROVE GreyLeft(r)' /\ GreyJoined(r)' /\ GreyGone(r)' /\ GreyAgreed(r)'
  BY DEF GreyInv
<1>3. GreyLeft(r) /\ GreyJoined(r) /\ GreyGone(r) /\ GreyAgreed(r) /\ r \in Conv
  BY Kinds DEF GreyInv
<1>4. h \in Frames /\ FrameInv(h, srv) /\ Ran(h, r, store[r], store'[r])
  BY <1>0, <1>3, ReadOf
<1>5. h \in Naming({"room_left", "room_retired"}, r) => "row" \in store[r]
  BY <1>0, <1>1, BackedHead
<1>6. /\ h \in Naming(Deletes, r) => "row" \notin store'[r]
      /\ h \in Naming({"room_left", "left_rooms"}, r) /\ "row" \in store[r] => "left" \in store'[r]
      /\ h \in Entries(r) => "left" \notin store'[r]
      /\ h \notin Naming(Deletes, r) /\ "row" \in store[r] => "row" \in store'[r]
      /\ h \notin Naming(Stores, r) /\ "row" \notin store[r] => "row" \notin store'[r]
      /\ h \notin Entries(r) \cup Naming({"room_left", "left_rooms"} \cup Deletes, r)
           => ("left" \in store'[r] <=> "left" \in store[r])
  BY <1>3, <1>4, RanRow
<1>7. h \notin Regreys(r) => /\ "left" \in store'[r] <=> "left" \in store[r]
                             /\ "row" \in store'[r] <=> "row" \in store[r]
  <2>1. h \notin Regreys(r) => /\ h \notin Entries(r) \cup Naming({"room_left", "left_rooms"} \cup Deletes, r)
                               /\ h \notin Naming(Deletes, r)
                               /\ h \in Naming(Stores, r) => h \in Naming({"room_retired"}, r)
    BY <1>4, RegreysAre
  <2>2. h \in Naming({"room_retired"}, r) => h \in Naming({"room_left", "room_retired"}, r)
    BY DEF Naming
  <2> QED BY <1>5, <1>6, <2>1, <2>2
<1>a. GreyLeft(r)'
  <2>1. h \in Naming({"room_left"}, r) =>
           /\ h \in Naming({"room_left", "left_rooms"}, r) /\ h \in Naming({"room_left", "room_retired"}, r)
           /\ h \notin Naming(Deletes, r)
    BY DEF Naming, Deletes
  <2> QED BY <1>2, <1>3, <1>5, <1>6, <1>7, <2>1 DEF GreyLeft
<1>b. GreyJoined(r)'
  <2>1. h \in Naming({"room_added_to"}, r) => h \in Entries(r)
    BY DEF Naming, Entries
  <2> QED BY <1>2, <1>3, <1>6, <1>7, <2>1 DEF GreyJoined
<1>c. GreyGone(r)'
  BY <1>2, <1>3, <1>6, <1>7 DEF GreyGone
<1>d. GreyAgreed(r)'
  <2>1. h \in Lists("room_list") => h \in Regreys(r)
    BY DEF Regreys
  <2> QED BY <1>1, <1>2, <1>3, <1>7, <2>1 DEF GreyAgreed
<1> QED BY <1>a, <1>b, <1>c, <1>d

(* The TUI keeps the agreement on the rooms that were left.                *)
LEMMA GreyShown ==
  ASSUME IInv, IInv', TypeOK, up, OrderInv, MirrorInv, GreyInv, Show
  PROVE  GreyInv'
<1>0. PICK h : h = Head(inbox)
  OBVIOUS
<1>1. inbox # <<>> /\ UNCHANGED <<srv, up, wire>>
  BY <1>0, ShowStep
<1>2. /\ \A B : Free(inbox, B) <=> Free(inbox', B) /\ h \notin B
      /\ \A M, B : Last(inbox, M, B) <=> Last(inbox', M, B) \/ (h \in M /\ Free(inbox', B))
  BY <1>0, ShowStep
<1> SUFFICES ASSUME NEW r \in Rooms PROVE GreyLeft(r)' /\ GreyJoined(r)' /\ GreyGone(r)' /\ GreyAgreed(r)'
  BY DEF GreyInv
<1>3. GreyLeft(r) /\ GreyJoined(r) /\ GreyGone(r) /\ GreyAgreed(r) /\ r \in Conv /\ r \notin DMs /\ r \notin Groups
  BY Kinds DEF GreyInv
<1>4. h \in Frames /\ FrameInv(h, srv)
  BY <1>0, <1>1, Facing
<1>5. store'[r] = store[r]
  BY <1>0, <1>3, ShowWrites
<1>a. GreyLeft(r)'
  BY <1>2, <1>3, <1>5 DEF GreyLeft
<1>b. GreyJoined(r)'
  BY <1>2, <1>3, <1>5 DEF GreyJoined
<1>c. GreyGone(r)'
  BY <1>2, <1>3, <1>5 DEF GreyGone
<1>d. GreyAgreed(r)'
  <2> SUFFICES ASSUME Free(inbox', Regreys(r)), Free(wire, Lists("room_list"))
               PROVE  "left" \in store[r] <=> "row" \in store[r] /\ r \in grey'
    BY <1>1, <1>5 DEF GreyAgreed
  <2>1. /\ h.type = "room_list" =>
             IF r \in h.convs \/ ReadOnly(store[r]) THEN r \in grey' <=> "left" \in store[r]
                                                    ELSE r \in grey' <=> r \in grey
        /\ h \in Naming({"room_added_to"} \cup Deletes, r) => r \notin grey'
        /\ h \in Naming({"room_left"}, r) => r \in grey'
        /\ h \notin Lists("room_list") \cup Naming({"room_left", "room_added_to"} \cup Deletes, r)
              => (r \in grey' <=> r \in grey)
    BY <1>0, ShowGreys
  <2>2. \A M : M \subseteq Regreys(r) => Free(inbox', M)
    BY DEF Free
  <2>3. "left" \in store[r] => "row" \in store[r]
    BY <1>3 DEF IInv, StoreInv, OfRow, RowFlags, Flags
  <2>4. CASE h \notin Regreys(r)
    <3>1. "left" \in store[r] <=> "row" \in store[r] /\ r \in grey
      BY <1>2, <1>3, <2>4 DEF GreyAgreed
    <3>2. h \notin Lists("room_list") \cup Naming({"room_left", "room_added_to"} \cup Deletes, r)
      BY <2>4 DEF Regreys, Naming
    <3> QED BY <2>1, <3>1, <3>2
  <2>5. CASE h \in Lists("room_list")
    <3>1. h.type = "room_list"
      BY <2>5 DEF Lists
    <3>2. CASE r \in h.convs \/ ReadOnly(store[r])
      BY <2>1, <2>3, <3>1, <3>2
    <3>3. CASE r \notin h.convs /\ ~ReadOnly(store[r])
      <4>1. h \in Without(r)
        BY <1>4, <3>1, <3>3 DEF Without, ListOf
      <4>2. Free(inbox', Adds(r) \cup Drops(r) \cup Returns(r))
        BY <2>2 DEF Regreys, Changes
      <4>3. Archived(r, store[r])
        BY <1>2, <1>3, <4>1, <4>2 DEF MirrorInv, LeftOut
      <4> QED BY <2>3, <3>3, <4>3 DEF Archived
    <3> QED BY <3>2, <3>3
  <2>6. CASE h \in Naming({"room_left"}, r)
    <3>1. Free(inbox', Regreys(r) \ Naming({"room_left"}, r))
      BY <2>2
    <3> QED BY <1>2, <1>3, <2>1, <2>6, <3>1 DEF GreyLeft
  <2>7. CASE h \in Naming({"room_added_to"}, r)
    <3>1. Free(inbox', Regreys(r) \ Naming({"room_added_to"}, r))
      BY <2>2
    <3>2. h \in Naming({"room_added_to"} \cup Deletes, r)
      BY <2>7 DEF Naming
    <3> QED BY <1>2, <1>3, <2>1, <2>7, <3>1, <3>2 DEF GreyJoined
  <2>8. CASE h \in Naming(Deletes, r)
    <3>1. Free(inbox', Regreys(r) \ Naming(Deletes, r))
      BY <2>2
    <3> QED BY <1>2, <1>3, <2>3, <2>8, <3>1 DEF GreyGone
  <2>9. CASE h \in Archives
    <3>1. ~Free(inbox, Archives) /\ h \notin Lists("room_list")
      BY <1>2, <2>9 DEF Archives, Lists
    <3>2. Coming(inbox, wire, Lists("room_list"), Archives)
      BY <3>1 DEF OrderInv, ArchivesListed, Clear
    <3>3. Last(inbox', Lists("room_list"), Archives)
      BY <1>2, <3>1, <3>2 DEF Coming, Last, Free
    <3>4. Free(inbox', Lists("room_list"))
      BY <2>2 DEF Regreys
    <3> QED BY <3>3, <3>4 DEF Last, Free
  <2>10. h \in Regreys(r) =>
           \/ h \in Lists("room_list") \/ h \in Archives
           \/ h \in Naming({"room_left"}, r) \/ h \in Naming({"room_added_to"}, r) \/ h \in Naming(Deletes, r)
    <3>1. h \in Naming({"room_left", "room_added_to"} \cup Deletes, r) =>
            \/ h \in Naming({"room_left"}, r) \/ h \in Naming({"room_added_to"}, r) \/ h \in Naming(Deletes, r)
      BY DEF Naming
    <3> QED BY <1>4, <3>1, RegreysAre
  <2> QED BY <2>4, <2>5, <2>6, <2>7, <2>8, <2>9, <2>10
<1> QED BY <1>a, <1>b, <1>c, <1>d

(* Every step keeps the agreement on the rooms that were left.             *)
LEMMA GreyStep ==
  ASSUME IInv, IInv', Ground, Ground', OrderInv, GuardInv, MirrorInv, GreyInv, [Next]_vars
  PROVE  GreyInv'
<1> SUFFICES ASSUME up' PROVE GreyInv'
  BY DEF GreyInv
<1>0. TypeOK
  BY DEF Ground
<1>1. ASSUME up, NEW f \in Frames, NEW d \in Conv, Saying(f, d) PROVE GreyInv'
  <2>1. UNCHANGED <<up, store, inbox, grey>> /\ \A B : Free(wire', B) => Free(wire, B)
    BY <1>1, SentStep DEF Saying
  <2> QED BY <2>1 DEF GreyInv, GreyLeft, GreyJoined, GreyGone, GreyAgreed
<1>2. ASSUME Dial, inbox = <<>> PROVE GreyInv'
  <2>1. /\ \A B : Free(wire', B) <=> \A f \in Said(Handshake) : f \notin B
        /\ \A M, B : ~Last(inbox', M, B)
    BY <1>2, DialStep
  <2>2. \A r \in Rooms : ~Free(wire', Lists("room_list"))
    BY <2>1, DialOf, Kinds
  <2> QED BY <2>1, <2>2 DEF GreyInv, GreyLeft, GreyJoined, GreyGone, GreyAgreed
<1>3. ASSUME up, ReadFrame PROVE GreyInv'
  BY <1>0, <1>3, GreyRead
<1>4. ASSUME up, Show PROVE GreyInv'
  BY <1>0, <1>4, GreyShown
<1>5. ASSUME up, Attach \/ Idle \/ \E c \in Conv : Open(c) PROVE GreyInv'
  <2>1. UNCHANGED <<up, store, wire, inbox, grey>>
    BY <1>5 DEF Attach, Idle, Open, linkVars, clientVars, sidebarVars
  <2> QED BY <1>5, <2>1 DEF GreyInv, GreyLeft, GreyJoined, GreyGone, GreyAgreed
<1> QED BY <1>1, <1>2, <1>3, <1>4, <1>5, UpSteps

(* With no connection there are no markers to agree on.                    *)
LEMMA GreyInit ==
  ASSUME Init
  PROVE  GreyInv
BY DEF Init, GreyInv

(* There is no member list of c, in memory or in the database, and no row  *)
(* of a room that could take one.                                          *)
Shut(c) ==
  /\ c \notin roster /\ "members" \notin store[c]
  /\ c \in Rooms => Archived(c, store[c])

(* A room or group the user is only reading has no member list, or the     *)
(* last frame on the wire about its membership ends it.                    *)
Emptied(c) ==
  srv[c] \in {"left", "retired"} =>
    \/ Last(wire, Closes(c), Opens(c))
    \/ Shut(c) /\ Free(wire, Opens(c))

(* No member list outlives the membership once its end was read.           *)
RosterInv == up => \A c \in Rooms \cup Groups : Emptied(c)

(* A decision of the server keeps what is said of the member lists.        *)
LEMMA RosterSaid ==
  ASSUME IInv, TypeOK, up, RosterInv, NEW f \in Frames, NEW d \in Conv, Saying(f, d)
  PROVE  RosterInv'
<1> SUFFICES ASSUME NEW c \in Rooms \cup Groups, srv'[c] \in {"left", "retired"} PROVE Emptied(c)'
  BY DEF RosterInv, Emptied
<1>0. UNCHANGED <<up, store, roster>> /\ c \in Conv
  BY Kinds DEF Saying
<1>1. \/ f \in Closes(c)
      \/ srv'[c] = srv[c] /\ f \notin Opens(c)
  <2>1. CASE d = c
    <3>1. Turn(f, c) /\ \A types : f \in Naming(types, c) <=> f.type \in types
      BY <1>0, <2>1, SaidOf
    <3> QED BY <3>1 DEF Turn, Closes, Opens, Leaves, Retires, Dead, Joins
  <2>2. CASE d # c
    BY <1>0, <2>2, SaidOf DEF Opens
  <2> QED BY <2>1, <2>2
<1>2. /\ \A B : Free(wire', B) <=> Free(wire, B) /\ f \notin B
      /\ \A M, B : Last(wire', M, B) <=> f \in M \/ (f \notin B /\ Last(wire, M, B))
  BY SentStep
<1> QED BY <1>0, <1>1, <1>2 DEF RosterInv, Emptied, Shut

(* So does a new connection.                                               *)
LEMMA RosterDialed ==
  ASSUME IInv, TypeOK, Dial, inbox = <<>>
  PROVE  RosterInv'
<1> SUFFICES ASSUME NEW c \in Rooms \cup Groups, srv'[c] \in {"left", "retired"} PROVE Emptied(c)'
  BY DEF RosterInv, Emptied
<1>0. c \in Conv /\ c \notin DMs /\ srv' = srv
  BY Kinds, DialStep
<1>1. \A f \in Frames : f \in Opens(c) => f \in Naming(Stores \ Retires, c)
  BY DEF Opens, Naming, Stores, Joins, Retires
<1>2. \A f \in Said(Handshake) : f \notin Opens(c)
  BY <1>0, <1>1, DialOf
<1>3. \E f \in Said(Handshake) : f \in Closes(c)
  <2>1. \E f \in Said(Handshake) : f \in Naming(Leaves, c) \cup Naming(Retires, c)
    BY <1>0, DialOf
  <2>2. Naming(Leaves, c) \cup Naming(Retires, c) \subseteq Closes(c)
    BY DEF Naming, Closes
  <2> QED BY <2>1, <2>2
<1>4. Last(wire', Closes(c), Opens(c))
  BY <1>2, <1>3, DialStep
<1> QED BY <1>4 DEF Emptied

(* So does the readLoop, which empties a list and refuses the answer that  *)
(* comes late.                                                             *)
LEMMA RosterRead ==
  ASSUME IInv, IInv', TypeOK, up, GuardInv, RosterInv, ReadFrame
  PROVE  RosterInv'
<1> SUFFICES ASSUME NEW c \in Rooms \cup Groups, srv'[c] \in {"left", "retired"}, ~Last(wire', Closes(c), Opens(c))
             PROVE  Shut(c)' /\ Free(wire', Opens(c))
  BY DEF RosterInv, Emptied
<1>0. PICK h : h = Head(wire)
  OBVIOUS
<1>1. wire' = Tail(wire) /\ wire # <<>> /\ Queue(wire) /\ srv' = srv /\ roster' = RosterAfter(h)
      /\ c \in Conv /\ c \notin DMs
  BY <1>0, Kinds DEF ReadFrame, serverVars, IInv, WireInv
<1>2. /\ \A B : Free(wire, B) <=> Free(wire', B) /\ h \notin B
      /\ \A M, B : Last(wire, M, B) <=> Last(wire', M, B) \/ (h \in M /\ Free(wire', B))
  BY <1>0, ReadStep
<1>3. h \in Frames /\ FrameInv(h, srv) /\ Ran(h, c, store[c], store'[c]) /\ store[c] \subseteq KindFlags(c)
  BY <1>0, <1>1, ReadOf DEF IInv, StoreInv
<1>4. /\ c \in Groups => "members" \notin store[c] /\ "members" \notin store'[c]
      /\ "row" \notin store[c] => "members" \notin store[c]
  <2>1. c \in Groups => store[c] \subseteq {"row", "msgs", "left"} /\ store'[c] \subseteq {"row", "msgs", "left"}
    BY <1>1, Kinds DEF IInv, StoreInv, KindFlags
  <2>2. OfRow(store[c])
    BY <1>1 DEF IInv, StoreInv
  <2> QED BY <2>1, <2>2 DEF OfRow, RowFlags, Flags
<1>5. h \in Closes(c) \/ (Shut(c) /\ h \notin Opens(c))
  BY <1>1, <1>2 DEF RosterInv, Emptied
<1>6. Free(wire', Opens(c))
  BY <1>1, <1>2 DEF RosterInv, Emptied
<1>7. CASE h \in Closes(c)
  <2>1. c \notin roster'
    BY <1>1, <1>7 DEF RosterAfter, Closes, Naming, Leaves, Retires, Deletes
  <2>2. "members" \notin store'[c]
    BY <1>1, <1>3, <1>4, <1>7, RanRow
  <2>3. Archived(c, store'[c])
    BY <1>1, <1>3, <1>7, RanShown
  <2> QED BY <1>6, <2>1, <2>2, <2>3 DEF Shut
<1>8. CASE h \notin Closes(c) /\ Shut(c) /\ h \notin Opens(c)
  <2>1. c \in Rooms /\ h \in Naming({"room_members_list"}, c) => ReadOnly(store[c])
    <3> SUFFICES ASSUME c \in Rooms, h \in Naming({"room_members_list"}, c), ~ReadOnly(store[c]) PROVE FALSE
      OBVIOUS
    <3>1. "row" \notin store[c]
      BY <1>8 DEF Shut, Archived
    <3>2. Secure(wire, Naming({"room_members_list"}, c), Naming(Stores, c), Naming(Deletes, c), Closes(c))
      BY <1>1, <3>1 DEF GuardInv, Late
    <3>3. Last(wire', Closes(c), {})
      BY <1>0, <1>1, <3>2, GuardLess
    <3> QED BY <1>6, <3>3 DEF Last, Free
  <2>2. h \in Naming({"room_members_list"}, c) => c \in Rooms
    BY <1>3 DEF Naming, FrameInv, Suits, RoomTypes
  <2>3. c \notin roster'
    <3>1. c \in h.convs => h.type \notin {"room_list", "room_added_to", "group_list", "group_created", "group_added_to"}
      BY <1>3, <1>8 DEF Opens, Naming, Joins
    <3>2. c \in h.convs /\ h.type = "room_members_list" => ReadOnly(store[c])
      BY <1>3, <2>1, <2>2 DEF Naming
    <3>3. c \notin roster
      BY <1>8 DEF Shut
    <3> QED BY <1>1, <3>1, <3>2, <3>3 DEF RosterAfter
  <2>4. "members" \notin store'[c]
    BY <1>1, <1>3, <1>8, <2>1, <2>2, RanRow DEF Shut
  <2>5. c \in Rooms => Archived(c, store'[c])
    <3>1. c \in Rooms => h \notin Naming(Stores \ Retires, c)
      BY <1>1, <1>3, <1>8 DEF Naming, Opens, Stores, Joins, Retires, FrameInv, Suits, DMTypes
    <3> QED BY <1>1, <1>3, <1>8, <3>1, RanShown DEF Shut
  <2> QED BY <1>6, <2>3, <2>4, <2>5 DEF Shut
<1> QED BY <1>5, <1>7, <1>8

(* Every step keeps what is said of the member lists.                      *)
LEMMA RosterStep ==
  ASSUME IInv, IInv', Ground, Ground', GuardInv, RosterInv, [Next]_vars
  PROVE  RosterInv'
<1> SUFFICES ASSUME up' PROVE RosterInv'
  BY DEF RosterInv
<1>0. TypeOK
  BY DEF Ground
<1>1. ASSUME up, NEW f \in Frames, NEW d \in Conv, Saying(f, d) PROVE RosterInv'
  BY <1>0, <1>1, RosterSaid
<1>2. ASSUME Dial, inbox = <<>> PROVE RosterInv'
  BY <1>0, <1>2, RosterDialed
<1>3. ASSUME up, ReadFrame PROVE RosterInv'
  BY <1>0, <1>3, RosterRead
<1>4. ASSUME up, Show PROVE RosterInv'
  <2>0. PICK h : h = Head(inbox)
    OBVIOUS
  <2>1. UNCHANGED <<srv, wire, roster>>
    BY <1>4, <2>0, ShowStep
  <2>2. ASSUME NEW c \in Rooms \cup Groups
        PROVE  Shut(c) => Shut(c)'
    <3>1. \/ store'[c] = store[c]
          \/ c \in Groups /\ store'[c] = store[c] \ {"left"}
      BY <1>0, <1>4, <2>0, <2>2, ShowWrites, Kinds
    <3> QED BY <2>1, <3>1, Kinds DEF Shut
  <2> QED BY <1>4, <2>1, <2>2 DEF RosterInv, Emptied
<1>5. ASSUME up, Attach \/ Idle \/ \E c \in Conv : Open(c) PROVE RosterInv'
  <2>1. UNCHANGED <<srv, up, store, wire, roster>>
    BY <1>5 DEF Attach, Idle, Open, serverVars, linkVars, clientVars
  <2> QED BY <1>5, <2>1 DEF RosterInv, Emptied, Shut
<1> QED BY <1>1, <1>2, <1>3, <1>4, <1>5, UpSteps

(* With no connection nothing is said of the member lists.                 *)
LEMMA RosterInit ==
  ASSUME Init
  PROVE  RosterInv
BY DEF Init, RosterInv

(* The process starts with no connection, and with no marker shown.        *)
LEMMA GroundInit ==
  ASSUME Init
  PROVE  Ground
<1>1. TypeOK
  BY TypedInit
<1>2. LinkInv
  BY DEF Init, LinkInv
<1>3. SealInv
  BY DEF Init, SealInv, NoPane
<1> QED BY <1>1, <1>2, <1>3 DEF Ground

(* Everything the screen rests on: what the store is owed (IInv), the      *)
(* types and the state of the connection, the order of the lists, what the *)
(* screen is owed, the frames that write to a row, the agreement of the    *)
(* store with the sidebar and with its markers, and the member lists.      *)
ViewInv ==
  /\ IInv /\ Ground
  /\ OrderInv /\ ScreenInv /\ GuardInv
  /\ MirrorInv /\ GreyInv /\ RosterInv

(* Every step keeps the invariant of the screen.                           *)
LEMMA ViewStep ==
  ASSUME ViewInv, [Next]_vars
  PROVE  ViewInv'
<1> USE DEF ViewInv
<1>1. IInv'
  BY StepInv
<1>2. Ground'
  BY <1>1, GroundStep
<1>3. OrderInv'
  BY <1>1, <1>2, OrderStep
<1>4. ScreenInv'
  BY <1>1, <1>2, <1>3, ScreenStep
<1>5. GuardInv'
  BY <1>2, GuardStep
<1>6. MirrorInv'
  BY <1>1, <1>2, MirrorStep
<1>7. GreyInv'
  BY <1>1, <1>2, GreyStep
<1>8. RosterInv'
  BY <1>1, <1>2, RosterStep
<1> QED BY <1>1, <1>2, <1>3, <1>4, <1>5, <1>6, <1>7, <1>8

(* The invariant of the screen is inductive: it holds whatever the order   *)
(* in which the server, the readLoop and the TUI thread run, and wherever  *)
(* the connection breaks or the process dies.                              *)
THEOREM ViewInductive == Spec => []ViewInv
<1>1. Init => ViewInv
  BY InitInv, GroundInit, OrderInit, ScreenInit, GuardInit, MirrorInit, GreyInit, RosterInit DEF ViewInv
<1>2. ViewInv /\ [Next]_vars => ViewInv'
  BY ViewStep
<1> QED BY <1>1, <1>2, PTL DEF Spec

(* The variables of the client and of the server keep their types.         *)
THEOREM Typed == Spec => []TypeOK
<1>1. ViewInv => TypeOK
  BY DEF ViewInv, Ground
<1> QED BY <1>1, ViewInductive, PTL

(* With nothing on the wire or in msgCh, nothing is coming.                *)
LEMMA Quieted ==
  ASSUME Settled
  PROVE  /\ up
         /\ \A B : Free(wire, B) /\ Free(inbox, B)
         /\ \A M, B : ~Last(wire, M, B) /\ ~Coming(inbox, wire, M, B)
<1>1. up /\ wire = <<>> /\ inbox = <<>>
  BY DEF Settled
<1>2. \A M, B : Free(<<>>, B) /\ ~Last(<<>>, M, B)
  BY NoneLeft
<1>3. \A M, B : ~Coming(<<>>, <<>>, M, B)
  BY <1>2 DEF Coming
<1> QED BY <1>1, <1>2, <1>3

(* Once settled, a conversation is listed exactly when its row is shown.   *)
LEMMA ListedIsShown ==
  ASSUME ViewInv, Settled, NEW c \in Conv
  PROVE  /\ c \in listed <=> ShownIn(store[c])
         /\ c \notin DMs => (c \in listed <=> "row" \in store[c])
<1>1. c \in listed <=> ShownIn(store[c])
  BY Quieted DEF ViewInv, MirrorInv, Agreed
<1>2. c \notin DMs => (ShownIn(store[c]) <=> "row" \in store[c])
  BY ShownRow DEF ViewInv
<1> QED BY <1>1, <1>2

(* What the invariant says of the sidebar when nothing is coming.          *)
LEMMA SettledSidebar ==
  ASSUME ViewInv
  PROVE  SidebarMirrorsStore
<1> SUFFICES ASSUME Settled
             PROVE  /\ listed = Rows(Rooms) \cup Rows(Groups) \cup Visible(DMs)
                    /\ grey \cap listed \cap Rooms = Left(Rooms)
                    /\ barred \cap listed = Retired(Rooms)
                    /\ In(Groups, {"left"}) \cap listed \subseteq grey
  BY DEF SidebarMirrorsStore
<1>1. /\ listed \subseteq Conv /\ barred \subseteq Rooms /\ srv \in [Conv -> Standing]
      /\ IInv /\ TypeOK /\ SealInv
  BY DEF ViewInv, Ground, TypeOK
<1>2. listed = Rows(Rooms) \cup Rows(Groups) \cup Visible(DMs)
  <2>1. \A c \in Rooms \cup Groups : c \in listed <=> "row" \in store[c]
    BY Kinds, ListedIsShown
  <2>2. \A c \in DMs : c \in listed <=> ShownIn(store[c])
    BY Kinds, ListedIsShown
  <2> QED BY <1>1, <2>1, <2>2, Kinds DEF Rows, Visible, ShownIn, Conv
<1>3. grey \cap listed \cap Rooms = Left(Rooms)
  <2>1. \A r \in Rooms : "left" \in store[r] <=> "row" \in store[r] /\ r \in grey
    BY Quieted DEF ViewInv, GreyInv, GreyAgreed
  <2>2. \A r \in Rooms : r \in listed <=> "row" \in store[r]
    BY Kinds, ListedIsShown
  <2> QED BY <2>1, <2>2 DEF Left
<1>4. ASSUME NEW r \in Rooms
      PROVE  r \in barred \cap listed <=> "retired" \in store[r]
  <2>1. r \in Conv /\ r \notin DMs /\ srv[r] \in Standing
    BY <1>1, Kinds
  <2>2. srv[r] \in Dead => r \notin listed /\ "row" \notin store[r]
    <3>1. srv[r] \in Dead => r \notin listed
      BY <2>1, Quieted DEF ViewInv, ScreenInv, Unlisted
    <3>2. srv[r] \in Dead => "row" \notin store[r]
      BY <1>1, <2>1, Quieted, DueIs
    <3> QED BY <3>1, <3>2
  <2>3. srv[r] = "retired" => r \in barred /\ "retired" \in store[r]
    <3>1. srv[r] = "retired" => r \in barred
      BY <2>1, Quieted DEF ViewInv, ScreenInv, Barred
    <3>2. srv[r] = "retired" => "retired" \in store[r]
      BY <1>1, <2>1, Quieted, DueIs
    <3> QED BY <3>1, <3>2
  <2>4. /\ "retired" \in store[r] => srv[r] \in {"retired", "buried"} /\ "row" \in store[r]
        /\ r \in listed <=> "row" \in store[r]
    <3>1. "retired" \in store[r] => "row" \in store[r] /\ srv[r] \in {"retired", "buried"}
      BY <1>1, <2>1 DEF IInv, StoreInv, OfRow, RowFlags, Flags
    <3>2. r \in listed <=> "row" \in store[r]
      BY <2>1, ListedIsShown
    <3> QED BY <3>1, <3>2
  <2>5. r \in barred => srv[r] \in {"retired", "buried"}
    BY <1>1 DEF SealInv
  <2> QED BY <2>2, <2>3, <2>4, <2>5 DEF Dead
<1>5. barred \cap listed = Retired(Rooms)
  BY <1>1, <1>4 DEF Retired
<1>6. In(Groups, {"left"}) \cap listed \subseteq grey
  BY Quieted DEF ViewInv, ScreenInv, Marked, In
<1> QED BY <1>2, <1>3, <1>5, <1>6

(* A frame that is coming is in msgCh or on the wire, and is a frame the   *)
(* server could send.                                                      *)
LEMMA ComingIsQueued ==
  ASSUME IInv, TypeOK, NEW M, NEW B, Coming(inbox, wire, M, B)
  PROVE  \E f \in Seqs!ToSet(inbox \o wire) : f \in M /\ f \in Frames /\ FrameInv(f, srv)
<1>1. /\ Queue(inbox) /\ Queue(wire)
      /\ \A n \in DOMAIN wire : wire[n] \in Frames /\ FrameInv(wire[n], srv)
      /\ \A n \in DOMAIN inbox : inbox[n] \in Frames /\ FrameInv(inbox[n], srv)
  BY DEF IInv, WireInv, TypeOK
<1>2. \E f \in Said(inbox) \cup Said(wire) : f \in M
  BY SaidIs DEF Coming
<1>3. \A f \in Said(inbox) \cup Said(wire) : f \in Frames /\ FrameInv(f, srv)
  BY <1>1 DEF Said
<1>4. Said(inbox \o wire) = Said(inbox) \cup Said(wire)
  BY <1>1, SaidBoth
<1>5. PICK s : s = inbox \o wire
  OBVIOUS
<1>6. Seqs!ToSet(s) = Said(s)
  BY DEF Seqs!ToSet, Said
<1> QED BY <1>2, <1>3, <1>4, <1>5, <1>6

(* What the invariant says of an entry that is out of date.                *)
LEMMA OutOfDateIsQueued ==
  ASSUME ViewInv
  PROVE  OutOfDateOnlyWithFrame
<1> SUFFICES ASSUME up, ui = "attached"
             PROVE  /\ \A c \in listed \cap In(Conv, Dead) :
                         Queued({"room_deleted", "deleted_rooms", "group_deleted", "deleted_groups",
                                 "dm_left", "dm_list"}, c)
                    /\ \A c \in In(Conv, {"in"}) \ listed :
                         Queued({"room_list", "room_added_to", "group_list", "group_created",
                                 "group_added_to", "dm_list", "dm_created"}, c)
                    /\ \A r \in In(Rooms, {"in"}) \cap grey : Queued({"room_list", "room_added_to"}, r)
                    /\ \A r \in (In(Rooms, {"left"}) \cap listed) \ grey :
                         Queued({"room_left", "left_rooms"}, r)
                           \/ \E f \in Seqs!ToSet(inbox \o wire) : f.type = "room_list"
                    /\ \A r \in (In(Rooms, {"retired"}) \cap listed) \ barred :
                         Queued({"room_retired", "retired_rooms"}, r)
  BY DEF OutOfDateOnlyWithFrame
<1>1. IInv /\ TypeOK /\ ScreenInv
  BY DEF ViewInv, Ground
<1>2. ASSUME NEW c \in listed \cap In(Conv, Dead)
      PROVE  Queued({"room_deleted", "deleted_rooms", "group_deleted", "deleted_groups", "dm_left", "dm_list"}, c)
  <2>1. Coming(inbox, wire, Drops(c), Adds(c))
    BY <1>1, <1>2 DEF ScreenInv, Unlisted, In
  <2>2. PICK f \in Seqs!ToSet(inbox \o wire) : f \in Drops(c)
    BY <1>1, <2>1, ComingIsQueued
  <2> QED BY <2>2 DEF Queued, Drops, Deletes, Hides
<1>3. ASSUME NEW c \in In(Conv, {"in"}) \ listed
      PROVE  Queued({"room_list", "room_added_to", "group_list", "group_created", "group_added_to",
                     "dm_list", "dm_created"}, c)
  <2>1. Coming(inbox, wire, Adds(c), Drops(c) \cup Without(c))
    BY <1>1, <1>3 DEF ScreenInv, Listed, In
  <2>2. PICK f \in Seqs!ToSet(inbox \o wire) : f \in Adds(c)
    BY <1>1, <2>1, ComingIsQueued
  <2> QED BY <2>2 DEF Queued, Adds, Joins, Shows
<1>4. ASSUME NEW r \in In(Rooms, {"in"}) \cap grey
      PROVE  Queued({"room_list", "room_added_to"}, r)
  <2>1. Coming(inbox, wire, Entries(r), Naming(Leaves, r) \cup Without(r))
    BY <1>1, <1>4 DEF ScreenInv, LiveRoom, In
  <2>2. PICK f \in Seqs!ToSet(inbox \o wire) : f \in Entries(r)
    BY <1>1, <2>1, ComingIsQueued
  <2> QED BY <2>2 DEF Queued, Entries, Naming
<1>5. ASSUME NEW r \in (In(Rooms, {"left"}) \cap listed) \ grey
      PROVE  Queued({"room_left", "left_rooms"}, r) \/ \E f \in Seqs!ToSet(inbox \o wire) : f.type = "room_list"
  <2>1. r \in Rooms /\ r \notin Groups
    BY <1>5, Kinds DEF In
  <2>2. Coming(inbox, wire, Exits(r), Adds(r))
    BY <1>1, <1>5 DEF ScreenInv, Marked, In
  <2>3. PICK f \in Seqs!ToSet(inbox \o wire) : f \in Exits(r) /\ FrameInv(f, srv)
    BY <1>1, <2>2, ComingIsQueued
  <2>4. CASE f \in Without(r)
    BY <2>1, <2>3, <2>4 DEF Without, ListOf
  <2>5. CASE f \in Naming({"room_left", "group_left"}, r)
    <3>1. r \in f.convs /\ f.type \in {"room_left", "group_left"} /\ Suits(f.type, r)
      BY <2>3, <2>5 DEF Naming, FrameInv
    <3>2. f.type = "room_left"
      BY <2>1, <3>1 DEF Suits, GroupTypes
    <3> QED BY <2>3, <3>1, <3>2 DEF Queued
  <2> QED BY <2>3, <2>4, <2>5 DEF Exits
<1>6. ASSUME NEW r \in (In(Rooms, {"retired"}) \cap listed) \ barred
      PROVE  Queued({"room_retired", "retired_rooms"}, r)
  <2>1. Coming(inbox, wire, Naming(Retires, r), Reopens(r))
    BY <1>1, <1>6 DEF ScreenInv, Barred, In
  <2>2. PICK f \in Seqs!ToSet(inbox \o wire) : f \in Naming(Retires, r)
    BY <1>1, <2>1, ComingIsQueued
  <2> QED BY <2>2 DEF Queued, Naming, Retires
<1> QED BY <1>2, <1>3, <1>4, <1>5, <1>6

(* What the invariant says of the pane when nothing is coming.             *)
LEMMA SettledPane ==
  ASSUME ViewInv
  PROVE  PaneMirrorsServer
<1> SUFFICES ASSUME Settled
             PROVE  /\ pane.conv \notin In(Rooms \cup Groups, Dead)
                    /\ pane.conv \in Rows(Rooms) =>
                         /\ pane.conv \in listed
                         /\ (pane.left \/ pane.retired) <=> srv[pane.conv] # "in"
  BY DEF PaneMirrorsServer
<1>1. IInv /\ TypeOK /\ SealInv /\ ScreenInv
  BY DEF ViewInv, Ground
<1>2. pane.conv \notin In(Rooms \cup Groups, Dead)
  BY <1>1, Quieted DEF ScreenInv, PaneDead, In
<1>3. ASSUME NEW r \in Rooms, pane.conv = r, "row" \in store[r]
      PROVE  r \in listed /\ ((pane.left \/ pane.retired) <=> srv[r] # "in")
  <2>1. r \in Conv /\ r \notin DMs /\ srv[r] \in Standing
    BY <1>1, Kinds DEF TypeOK
  <2>2. r \in listed
    BY <1>3, <2>1, ListedIsShown
  <2>3. srv[r] \notin Dead
    BY <1>2, <1>3 DEF In
  <2>4. srv[r] # "none"
    BY <1>1, <1>3, <2>1 DEF IInv, StoreInv
  <2>5. srv[r] = "in" => ~pane.left /\ ~pane.retired
    <3>1. srv[r] = "in" => ~pane.left
      BY <1>1, <1>3, Quieted DEF ScreenInv, LiveRoom
    <3>2. pane.retired => srv[r] \in {"retired", "buried"}
      BY <1>1, <1>3 DEF SealInv
    <3> QED BY <3>1, <3>2
  <2>6. srv[r] = "left" => pane.left
    BY <1>1, <1>3, Quieted DEF ScreenInv, PaneLeft
  <2>7. srv[r] = "retired" => pane.retired
    BY <1>1, <1>3, Quieted DEF ScreenInv, PaneRetired
  <2> QED BY <2>1, <2>2, <2>3, <2>4, <2>5, <2>6, <2>7 DEF Standing, Dead
<1> QED BY <1>2, <1>3 DEF Rows

(* What the invariant says of the member lists when nothing is coming.     *)
LEMMA SettledRoster ==
  ASSUME ViewInv
  PROVE  NoRosterForReadOnly
BY Quieted DEF ViewInv, RosterInv, Emptied, Shut, In, NoRosterForReadOnly

(* The sidebar says what the database says, once everything was shown.     *)
THEOREM SidebarIsTheStores == Spec => []SidebarMirrorsStore
<1>1. ViewInv => SidebarMirrorsStore
  BY SettledSidebar
<1> QED BY <1>1, ViewInductive, PTL

(* Until then, every entry out of date has its correction on the way.      *)
THEOREM OutOfDateHasItsFrame == Spec => []OutOfDateOnlyWithFrame
<1>1. ViewInv => OutOfDateOnlyWithFrame
  BY OutOfDateIsQueued
<1> QED BY <1>1, ViewInductive, PTL

(* The open room can be written to exactly while the user is in it.        *)
THEOREM PaneIsTheServers == Spec => []PaneMirrorsServer
<1>1. ViewInv => PaneMirrorsServer
  BY SettledPane
<1> QED BY <1>1, ViewInductive, PTL

(* A room or group the user has left keeps no member list.                 *)
THEOREM LeftHasNoRoster == Spec => []NoRosterForReadOnly
<1>1. ViewInv => NoRosterForReadOnly
  BY SettledRoster
<1> QED BY <1>1, ViewInductive, PTL

(* The sidebar, the pane and the member list mirror the server, and until  *)
(* then nothing on the screen is wrong without its correction on the way.  *)
THEOREM ScreenIsTheServers == Spec => []ScreenMirrorsServer
<1>1. ViewInv => ScreenMirrorsServer
  BY SettledSidebar, OutOfDateIsQueued, SettledPane, SettledRoster DEF ScreenMirrorsServer
<1> QED BY <1>1, ViewInductive, PTL
=============================================================================
