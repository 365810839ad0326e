--------------------------- MODULE StudyRoomProofs ---------------------------
(***************************************************************************)
(* Theorems about StudyRoom, for any accounts, handlers, capacity and      *)
(* dates.                                                                  *)
(***************************************************************************)
EXTENDS StudyRoom, FiniteSetTheorems, TLAPS

USE RoomAssumption DEF rows, handler

-----------------------------------------------------------------------------
(* Type correctness, with what a snapshot still says of the room *)

\* updatedAt did not move, so the room is as it was read, and its members but for
\* accounts deleted since.
Faithful(w) ==
    room.status # "deleted" =>
        /\ seen[w].room = room
        /\ \A u \in Users : \/ members[u] = seen[w].members[u]
                            \/ u \in gone /\ members[u] = NoMember

\* What was judged of a snapshot stays true of it while the clock goes on.
Judged(w) ==
    LET o == op[w]
        s == seen[w]
    IN  /\ o.kind = "join" => o.user \in Present(s) \/ Cardinality(Present(s)) < CAPACITY
        /\ o.kind = "start" => \/ s.room.status = "active"
                               \/ /\ Cardinality(Present(s)) >= 2
                                  /\ \A u \in Present(s) : s.members[u].ready
        /\ o.kind = "leave" => ~(Running(s) /\ s.room.hard)
        /\ o.kind = "leave2" /\ s.members[o.user].id = o.member => ~(Running(s) /\ s.room.hard)

SnapInv == \A w \in current : room.status # "none" /\ Faithful(w) /\ Judged(w)

LEMMA InitTypes == Init => TypeOK
<1> SUFFICES ASSUME Init PROVE TypeOK
    OBVIOUS
<1>1. NoMember \in Member /\ NoRoom \in Room /\ NoOp \in Op
    BY DEF NoMember, Member, NoRoom, Room, NoOp, Op
<1>2. Nothing \in Snapshots
    BY <1>1 DEF Nothing, Snapshots
<1>3. members = [u \in Users |-> NoMember]
    BY DEF Init, Nothing
<1> QED BY <1>1, <1>2, <1>3 DEF Init, TypeOK, NoRoom

\* A handler that ends leaves everything it carried typed, and nobody current but keep.
LEMMA EndsType ==
    ASSUME TypeOK, NEW w \in Workers, NEW keep \in SUBSET current, Ends(w, keep)
    PROVE  /\ op' \in [Workers -> Op] /\ seen' \in [Workers -> Snapshots]
           /\ current' \subseteq Workers /\ current' = keep
           /\ pc' \in [Workers -> {"idle", "commit"}]
           /\ w \notin keep => \A x \in keep : op'[x] = op[x] /\ seen'[x] = seen[x]
<1>1. NoOp \in Op /\ Nothing \in Snapshots
    BY DEF NoOp, Op, Nothing, Snapshots, NoRoom, Room, NoMember, Member
<1> QED BY <1>1 DEF TypeOK, Ends, Forget

LEMMA CommitsType ==
    ASSUME TypeOK, NEW w \in Workers, NEW kind, Commits(w, kind)
    PROVE  /\ op' \in [Workers -> Op] /\ seen' \in [Workers -> Snapshots]
           /\ current' \subseteq Workers /\ current' = {}
           /\ pc' \in [Workers -> {"idle", "commit"}]
BY EndsType DEF Commits

\* The members a handler writes: one membership more, one less, or a word given.
LEMMA MembersType ==
    ASSUME TypeOK, NEW u \in Users
    PROVE  /\ [members EXCEPT ![u] = NoMember] \in [Users -> Member]
           /\ Nothing.members \in [Users -> Member]
           /\ \A flag \in BOOLEAN : [members EXCEPT ![u].ready = flag] \in [Users -> Member]
           /\ ids < MaxMembers =>
                [members EXCEPT ![u] = [NoMember EXCEPT !.id = ids + 1]] \in [Users -> Member]
<1>1. NoMember \in Member /\ Nothing.members = [v \in Users |-> NoMember]
    BY DEF NoMember, Member, Nothing
<1>2. ASSUME NEW flag \in BOOLEAN PROVE [members EXCEPT ![u].ready = flag] \in [Users -> Member]
    <2>1. [members[u] EXCEPT !.ready = flag] \in Member
        BY DEF TypeOK, Member
    <2>2. [members EXCEPT ![u].ready = flag] = [members EXCEPT ![u] = [members[u] EXCEPT !.ready = flag]]
        OBVIOUS
    <2> QED BY <2>1, <2>2 DEF TypeOK
<1>3. ASSUME ids < MaxMembers PROVE [NoMember EXCEPT !.id = ids + 1] \in Member
    <2>1. ids + 1 \in 0..MaxMembers
        BY <1>3 DEF TypeOK
    <2> QED BY <2>1 DEF NoMember, Member
<1>4. members \in [Users -> Member]
    BY DEF TypeOK
<1>5. \A m \in Member : [members EXCEPT ![u] = m] \in [Users -> Member]
    BY <1>4
<1>6. Nothing.members \in [Users -> Member]
    BY <1>1
<1> QED BY <1>1, <1>2, <1>3, <1>5, <1>6

LEMMA TypeStep == TypeOK /\ SnapInv /\ [Next]_vars => TypeOK'
<1> SUFFICES ASSUME TypeOK, SnapInv, [Next]_vars PROVE TypeOK'
    OBVIOUS
<1>1. ASSUME NEW u \in Users, NEW hard \in BOOLEAN, Create(u, hard) PROVE TypeOK'
    <2>1. room' \in Room /\ room'.status = "waiting" /\ room'.starts = 0
        BY <1>1 DEF Create, NoRoom, Room
    <2>2. members' \in [Users -> Member] /\ ids' \in 0..MaxMembers
        BY <1>1, MembersType DEF Create, TypeOK
    <2> QED BY <1>1, <2>1, <2>2 DEF Create, TypeOK
<1>2. ASSUME NEW w \in Workers, NEW o \in Op, Begin(w, o) PROVE TypeOK'
    <2>1. Now \in Snapshots
        BY DEF Now, Snapshots, TypeOK
    <2> QED BY <1>2, <2>1 DEF Begin, TypeOK
<1>3. ASSUME NEW w \in Workers, Lose(w) PROVE TypeOK'
    <2>1. Ends(w, current \ {w}) /\ UNCHANGED <<clock, room, members, gone, ids>>
        BY <1>3 DEF Lose
    <2> QED BY <2>1, EndsType DEF TypeOK
<1>4. ASSUME NEW w \in Workers, Ready(w) PROVE TypeOK'
    <2>1. op[w] \in Op
        BY DEF TypeOK
    <2>2. op[w].user \in Users /\ op[w].flag \in BOOLEAN
        BY <2>1 DEF Op
    <2>3. members' \in [Users -> Member]
        BY <1>4, <2>2, MembersType DEF Ready
    <2> QED BY <1>4, <2>3, CommitsType DEF Ready, TypeOK
<1>5. ASSUME NEW w \in Workers, Start(w) PROVE TypeOK'
    <2>1. CASE room' = room
        BY <1>5, <2>1, CommitsType DEF Start, TypeOK
    <2>2. CASE room.status = "waiting" /\ room' = [room EXCEPT !.status = "active", !.starts = clock,
                                                             !.ends = clock + DURATION]
        <3>1. clock \in Nat \ {0} /\ clock + DURATION \in Nat
            BY DEF TypeOK
        <3>2. room' \in Room /\ room'.status = "active" /\ room'.starts = clock
              /\ room'.ends = clock + DURATION
            BY <2>2, <3>1 DEF TypeOK, Room
        <3> QED BY <1>5, <3>1, <3>2, CommitsType DEF Start, TypeOK
    <2> QED BY <1>5, <2>1, <2>2 DEF Start
<1>6. ASSUME NEW w \in Workers, NEW kind, Commits(w, kind), UNCHANGED <<clock, gone, ids>>,
             UNCHANGED <<room, members>> \/ Departs(op[w].user, seen[w])
      PROVE  TypeOK'
    <2>1. op[w].user \in Users
        BY DEF TypeOK, Op
    <2>2. CASE UNCHANGED <<room, members>>
        BY <1>6, <2>2, CommitsType DEF TypeOK
    <2>3. CASE seen[w].room.status = "waiting" /\ room' = [room EXCEPT !.status = "ended"]
               /\ UNCHANGED members
        <3>1. room.status = "waiting"
            BY <1>6, <2>3 DEF Commits, Unchallenged, SnapInv, Faithful
        <3>2. room' \in Room /\ room'.status = "ended" /\ room'.starts = 0
            BY <2>3, <3>1 DEF TypeOK, Room
        <3> QED BY <1>6, <2>3, <3>2, CommitsType DEF TypeOK
    <2>4. CASE members' = [members EXCEPT ![op[w].user] = NoMember] /\ UNCHANGED room
        <3>1. members' \in [Users -> Member]
            BY <2>1, <2>4, MembersType
        <3> QED BY <1>6, <2>4, <3>1, CommitsType DEF TypeOK
    <2> QED BY <1>6, <2>2, <2>3, <2>4 DEF Departs
<1>7. ASSUME NEW w \in Workers, LeaveRoom(w) PROVE TypeOK'
    BY <1>6, <1>7 DEF LeaveRoom
<1>8. ASSUME NEW w \in Workers, LeaveV2(w) PROVE TypeOK'
    BY <1>6, <1>8 DEF LeaveV2
<1>9. ASSUME NEW w \in Workers, Join(w) PROVE TypeOK'
    <2>1. op[w].user \in Users
        BY DEF TypeOK, Op
    <2>2. members' \in [Users -> Member] /\ ids' \in 0..MaxMembers
        BY <1>9, <2>1, MembersType DEF Join, TypeOK
    <2> QED BY <1>9, <2>2, CommitsType DEF Join, TypeOK
<1>10. ASSUME NEW u \in Users, AccountDeleted(u) PROVE TypeOK'
    <2>1. members' \in [Users -> Member]
        BY <1>10, MembersType DEF AccountDeleted
    <2>2. room' = room \/ (room' \in Room /\ room'.status = "deleted")
        BY <1>10 DEF AccountDeleted, TypeOK, Room
    <2> QED BY <1>10, <2>1, <2>2 DEF AccountDeleted, TypeOK
<1>11. CASE Tick
    BY <1>11 DEF Tick, TypeOK
<1>12. CASE UNCHANGED vars
    BY <1>12 DEF vars, TypeOK
<1> QED BY <1>1, <1>2, <1>3, <1>4, <1>5, <1>7, <1>8, <1>9, <1>10, <1>11, <1>12 DEF Next, Handler

-----------------------------------------------------------------------------
(* Snapshots *)

\* What a handler read, and judged, is as good as it was: nobody wrote the room.
LEMMA SnapshotsKeep ==
    ASSUME TypeOK, SnapInv, UNCHANGED <<room, members, gone>>, clock' \in Nat, clock <= clock',
           NEW w \in current, op'[w] = op[w], seen'[w] = seen[w]
    PROVE  room'.status # "none" /\ Faithful(w)' /\ Judged(w)'
<1>1. Faithful(w)'
    BY DEF SnapInv, Faithful
<1>2. w \in Workers /\ seen[w].room.ends \in Nat
    BY DEF TypeOK, Snapshots, Room
<1>3. Running(seen[w])' => Running(seen[w])
    BY <1>2 DEF Running, TypeOK
<1>4. Present(seen[w])' = Present(seen[w])
    BY DEF Present
<1>5. Judged(w)'
    BY <1>3, <1>4 DEF SnapInv, Judged
<1> QED BY <1>1, <1>5 DEF SnapInv

LEMMA SnapStep == TypeOK /\ SnapInv /\ [Next]_vars => SnapInv'
<1> SUFFICES ASSUME TypeOK, SnapInv, [Next]_vars PROVE SnapInv'
    OBVIOUS
<1>1. ASSUME NEW u \in Users, NEW hard \in BOOLEAN, Create(u, hard) PROVE SnapInv'
    BY <1>1 DEF Create, SnapInv
<1>2. ASSUME NEW w \in Workers, NEW o \in Op, Begin(w, o) PROVE SnapInv'
    <2>1. /\ op' = [op EXCEPT ![w] = o] /\ seen' = [seen EXCEPT ![w] = Now]
          /\ current' = current \union {w} /\ room.status # "none" /\ Allowed(o, Now)
          /\ UNCHANGED <<clock, room, members, gone>>
        BY <1>2 DEF Begin
    <2>2. ASSUME NEW x \in current, x # w PROVE room'.status # "none" /\ Faithful(x)' /\ Judged(x)'
        <3>1. op'[x] = op[x] /\ seen'[x] = seen[x] /\ clock' \in Nat /\ clock <= clock'
            BY <2>1, <2>2 DEF TypeOK
        <3> QED BY <2>1, <3>1, SnapshotsKeep
    <2>3. op'[w] = o /\ seen'[w] = Now
        BY <2>1 DEF TypeOK
    <2>4. Faithful(w)'
        BY <2>1, <2>3 DEF Faithful, Now
    <2>5. Judged(w)'
        <3>1. Running(seen[w])' <=> Running(Now)
            BY <2>1, <2>3 DEF Running
        <3>2. Present(seen[w])' = Present(Now)
            BY <2>3 DEF Present
        <3>3. /\ o.kind = "join" => o.user \in Present(Now) \/ Cardinality(Present(Now)) < CAPACITY
              /\ o.kind = "start" => \/ Now.room.status = "active"
                                     \/ /\ Cardinality(Present(Now)) >= 2
                                        /\ \A u \in Present(Now) : Now.members[u].ready
              /\ o.kind = "leave" => ~(Running(Now) /\ Now.room.hard)
              /\ o.kind = "leave2" /\ Now.members[o.user].id = o.member
                     => ~(Running(Now) /\ Now.room.hard)
            BY <2>1 DEF Allowed, MayReady, MayStart, MayLeave, MayLeaveV2, MayJoin
        <3> QED BY <2>3, <3>1, <3>2, <3>3 DEF Judged
    <2> QED BY <2>1, <2>2, <2>4, <2>5 DEF SnapInv
<1>3. ASSUME NEW w \in Workers, Lose(w) PROVE SnapInv'
    <2>1. Ends(w, current \ {w}) /\ UNCHANGED <<clock, room, members, gone>>
        BY <1>3 DEF Lose
    <2>2. current' = current \ {w} /\ \A x \in current' : op'[x] = op[x] /\ seen'[x] = seen[x]
        BY <2>1, EndsType
    <2> QED BY <2>1, <2>2, SnapshotsKeep DEF SnapInv, TypeOK
<1>4. ASSUME NEW w \in Workers, NEW kind, Commits(w, kind) PROVE SnapInv'
    BY <1>4, CommitsType DEF SnapInv
<1>5. ASSUME NEW u \in Users, AccountDeleted(u) PROVE SnapInv'
    <2>1. /\ UNCHANGED <<clock, op, seen, current>> /\ gone' = gone \union {u}
          /\ members' = IF u = Host THEN Nothing.members ELSE [members EXCEPT ![u] = NoMember]
          /\ room' = IF u = Host /\ room.status # "none" THEN [room EXCEPT !.status = "deleted"]
                     ELSE room
        BY <1>5 DEF AccountDeleted
    <2> SUFFICES ASSUME NEW w \in current' PROVE room'.status # "none" /\ Faithful(w)' /\ Judged(w)'
        BY DEF SnapInv
    <2>2. w \in current /\ room.status # "none" /\ Faithful(w) /\ Judged(w)
        BY <2>1 DEF SnapInv
    <2>3. Judged(w)'
        BY <2>1, <2>2 DEF Judged, Present, Running
    <2>4. CASE u = Host
        <3>1. room'.status = "deleted"
            BY <2>1, <2>2, <2>4 DEF TypeOK, Room
        <3> QED BY <2>3, <3>1 DEF Faithful
    <2>5. CASE u # Host
        BY <2>1, <2>2, <2>3, <2>5 DEF Faithful, TypeOK
    <2> QED BY <2>4, <2>5
<1>6. CASE Tick
    <2>1. clock' \in Nat /\ clock <= clock' /\ UNCHANGED <<room, members, gone, op, seen, current>>
        BY <1>6 DEF Tick, TypeOK
    <2> QED BY <2>1, SnapshotsKeep DEF SnapInv
<1>7. CASE UNCHANGED vars
    <2>1. clock' \in Nat /\ clock <= clock' /\ UNCHANGED <<room, members, gone, op, seen, current>>
        BY <1>7 DEF vars, TypeOK
    <2> QED BY <2>1, SnapshotsKeep DEF SnapInv
<1> QED BY <1>1, <1>2, <1>3, <1>4, <1>5, <1>6, <1>7
        DEF Next, Handler, Ready, Start, LeaveRoom, LeaveV2, Join

LEMMA InitSnap == Init => SnapInv
BY DEF Init, SnapInv

\* The room and what every handler carries keep their types; a room that started is
\* never ended by a write.
THEOREM TypeCorrect == Spec => []TypeOK
<1>1. Init => TypeOK /\ SnapInv
    BY InitTypes, InitSnap
<1>2. TypeOK /\ SnapInv /\ [Next]_vars => (TypeOK /\ SnapInv)'
    BY TypeStep, SnapStep
<1> QED BY <1>1, <1>2, PTL DEF Spec

-----------------------------------------------------------------------------
(* Capacity *)

LEMMA PresentIsFinite ==
    ASSUME NEW s PROVE IsFiniteSet(Present(s)) /\ Cardinality(Present(s)) \in Nat
BY FS_Subset, FS_CardinalityType DEF Present

\* Whoever is in the room was there when it was read.
LEMMA NobodyCameSince ==
    ASSUME NEW w \in current, Faithful(w), room.status # "deleted"
    PROVE  Present(Now) \subseteq Present(seen[w])
BY DEF Faithful, Present, Now, NoMember

\* Before it is created nobody is in it.
Founded == room.status = "none" => \A u \in Users : members[u] = NoMember

LEMMA FoundedStep == TypeOK /\ SnapInv /\ Founded /\ [Next]_vars => Founded'
<1> SUFFICES ASSUME TypeOK, SnapInv, Founded, [Next]_vars, room'.status = "none"
             PROVE  \A u \in Users : members'[u] = NoMember
    BY DEF Founded
<1>2. ASSUME NEW w \in Workers,
             Ready(w) \/ Start(w) \/ LeaveRoom(w) \/ LeaveV2(w) \/ Join(w)
      PROVE  FALSE
    <2>1. room.status # "none"
        BY <1>2 DEF Ready, Start, LeaveRoom, LeaveV2, Join, Commits, Unchallenged, SnapInv
    <2>2. room' = room \/ room'.status \in {"active", "ended"}
        BY <1>2 DEF Ready, Start, LeaveRoom, LeaveV2, Departs, Join, TypeOK, Room
    <2> QED BY <2>1, <2>2
<1>3. ASSUME NEW u \in Users, NEW hard \in BOOLEAN, Create(u, hard) PROVE FALSE
    BY <1>3 DEF Create, NoRoom
<1>4. ASSUME NEW u \in Users, AccountDeleted(u) PROVE \A v \in Users : members'[v] = NoMember
    <2>1. room.status = "none"
        BY <1>4 DEF AccountDeleted, TypeOK, Room
    <2> QED BY <1>4, <2>1 DEF AccountDeleted, Founded, TypeOK, Nothing
<1>5. CASE UNCHANGED <<room, members>>
    BY <1>5 DEF Founded
<1> QED BY <1>2, <1>3, <1>4, <1>5 DEF Next, Handler, Begin, Lose, Tick, vars

LEMMA FitsStep == TypeOK /\ SnapInv /\ Founded /\ RoomFits /\ [Next]_vars => RoomFits'
<1> SUFFICES ASSUME TypeOK, SnapInv, Founded, RoomFits, [Next]_vars PROVE RoomFits'
    OBVIOUS
<1>1. ASSUME Present(Now)' \subseteq Present(Now) PROVE RoomFits'
    <2>1. Cardinality(Present(Now)') <= Cardinality(Present(Now))
        BY <1>1, PresentIsFinite, FS_Subset
    <2>2. Cardinality(Present(Now)') \in Nat /\ Cardinality(Present(Now)) \in Nat
        BY <1>1, PresentIsFinite, FS_Subset, FS_CardinalityType
    <2> QED BY <2>1, <2>2 DEF RoomFits
<1>2. ASSUME NEW u \in Users, NEW S \in SUBSET Users, Present(Now)' \subseteq S \union {u},
             u \in S \/ Cardinality(S) < CAPACITY, Cardinality(S) <= CAPACITY
      PROVE  RoomFits'
    <2>1. IsFiniteSet(S) /\ IsFiniteSet(S \union {u})
        BY FS_Subset, FS_AddElement
    <2>2. Cardinality(S \union {u}) <= CAPACITY
        BY <1>2, <2>1, FS_AddElement, FS_CardinalityType
    <2>3. IsFiniteSet(Present(Now)') /\ Cardinality(Present(Now)') <= Cardinality(S \union {u})
        BY <1>2, <2>1, FS_Subset
    <2>4. Cardinality(Present(Now)') \in Nat /\ Cardinality(S \union {u}) \in Nat
        BY <2>1, <2>3, FS_CardinalityType
    <2> QED BY <2>2, <2>3, <2>4 DEF RoomFits
<1>3. ASSUME NEW u \in Users, NEW hard \in BOOLEAN, Create(u, hard) PROVE RoomFits'
    <2>1. \A v \in Users \ {u} : members'[v] = members[v]
        BY <1>3 DEF Create, TypeOK
    <2>2. Present(Now)' \subseteq Present(Now) \union {u}
        BY <2>1 DEF Present, Now
    <2>3. Present(Now) = {}
        BY <1>3 DEF Create, Founded, Present, Now, NoMember
    <2> QED BY <1>2, <2>2, <2>3, FS_EmptySet
<1>4. ASSUME NEW w \in Workers, Join(w) PROVE RoomFits'
    <2>1. /\ w \in current /\ room.status # "deleted" /\ op[w].kind = "join"
          /\ op[w].user \in Users
        BY <1>4 DEF Join, Commits, Unchallenged, TypeOK, Op
    <2>2. CASE UNCHANGED members
        BY <1>1, <2>2 DEF Present, Now
    <2>3. CASE /\ seen[w].members[op[w].user].id = 0
               /\ members' = [members EXCEPT ![op[w].user] = [NoMember EXCEPT !.id = ids + 1]]
        <3>1. op[w].user \notin Present(seen[w])
            BY <2>3 DEF Present
        <3>2. Cardinality(Present(seen[w])) < CAPACITY
            BY <2>1, <3>1 DEF SnapInv, Judged
        <3>3. Present(Now)' \subseteq Present(Now) \union {op[w].user}
            BY <2>1, <2>3 DEF Present, Now, TypeOK
        <3>4. Present(Now) \subseteq Present(seen[w])
            BY <2>1, NobodyCameSince DEF SnapInv
        <3>5. Present(seen[w]) \in SUBSET Users
            BY DEF Present
        <3>6. Cardinality(Present(seen[w])) <= CAPACITY
            BY <3>2, PresentIsFinite
        <3> QED BY <1>2, <2>1, <3>2, <3>3, <3>4, <3>5, <3>6
    <2> QED BY <1>4, <2>2, <2>3 DEF Join
<1>5. ASSUME \A u \in Users : members'[u].id # 0 => members[u].id # 0 PROVE RoomFits'
    BY <1>1, <1>5 DEF Present, Now
<1>6. ASSUME NEW w \in Workers, Ready(w) PROVE RoomFits'
    <2>1. \A u \in Users : members'[u].id = members[u].id
        BY <1>6 DEF Ready, TypeOK, Member
    <2> QED BY <1>5, <2>1
<1>7. ASSUME NEW w \in Workers, LeaveRoom(w) \/ LeaveV2(w) PROVE RoomFits'
    <2>1. members' = members \/ members' = [members EXCEPT ![op[w].user] = NoMember]
        BY <1>7 DEF LeaveRoom, LeaveV2, Departs
    <2> QED BY <1>5, <2>1 DEF TypeOK, NoMember
<1>8. ASSUME NEW u \in Users, AccountDeleted(u) PROVE RoomFits'
    BY <1>5, <1>8 DEF AccountDeleted, TypeOK, Nothing, NoMember
<1>9. CASE UNCHANGED members
    BY <1>5, <1>9
<1> QED BY <1>3, <1>4, <1>6, <1>7, <1>8, <1>9 DEF Next, Handler, Begin, Lose, Start, Tick, vars

\* Concurrent joins never overfill the room, however many read one free place.
THEOREM RoomsFit == Spec => []RoomFits
<1>1. Init => TypeOK /\ SnapInv /\ Founded /\ RoomFits
    <2> SUFFICES ASSUME Init PROVE Founded /\ RoomFits
        BY InitTypes, InitSnap
    <2>1. \A u \in Users : members[u] = NoMember
        BY DEF Init, Nothing
    <2>2. Present(Now) = {}
        BY <2>1 DEF Present, Now, NoMember
    <2> QED BY <2>1, <2>2, FS_EmptySet DEF Founded, RoomFits
<1>2. TypeOK /\ SnapInv /\ Founded /\ RoomFits /\ [Next]_vars
          => (TypeOK /\ SnapInv /\ Founded /\ RoomFits)'
    BY TypeStep, SnapStep, FoundedStep, FitsStep
<1> QED BY <1>1, <1>2, PTL DEF Spec

-----------------------------------------------------------------------------
(* Starts and departures *)

\* The start writes the room it read, in which everybody was ready.
LEMMA StartedTogether ==
    ASSUME TypeOK, SnapInv, NEW w \in Workers, Start(w), room.status # "active",
           room'.status = "active"
    PROVE  /\ room.status = "waiting" /\ clock < LIFETIME
           /\ Cardinality(Present(Now)) >= 2 \/ gone # {}
           /\ \A u \in Present(Now) : members[u].ready
<1>1. w \in current /\ room.status # "deleted" /\ op[w].kind = "start"
    BY DEF Start, Commits, Unchallenged
<1>2. seen[w].room = room /\ Faithful(w)
    BY <1>1 DEF SnapInv, Faithful
<1>3. room.status = "waiting" /\ clock < LIFETIME
    BY <1>2 DEF Start
<1>4. Cardinality(Present(seen[w])) >= 2 /\ \A u \in Present(seen[w]) : seen[w].members[u].ready
    BY <1>1, <1>2 DEF SnapInv, Judged
<1>5. \A u \in Present(Now) : members[u].ready
    BY <1>1, <1>2, <1>4 DEF Faithful, Present, Now, NoMember
<1>6. CASE gone = {}
    <2>1. \A u \in Users : members[u] = seen[w].members[u]
        BY <1>1, <1>2, <1>6 DEF Faithful
    <2>2. Present(Now) = Present(seen[w])
        BY <2>1 DEF Present, Now
    <2> QED BY <1>3, <1>4, <1>5, <2>2
<1> QED BY <1>3, <1>5, <1>6

\* Once started, the timer stays.
LEMMA TimerStands ==
    TypeOK /\ SnapInv /\ [Next]_vars /\ room.starts # 0
        => room'.starts = room.starts /\ room'.ends = room.ends
<1> SUFFICES ASSUME TypeOK, SnapInv, [Next]_vars, room.starts # 0
             PROVE  room'.starts = room.starts /\ room'.ends = room.ends
    OBVIOUS
<1>1. room.status \in {"active", "deleted"}
    BY DEF TypeOK, Room
<1>2. ASSUME NEW w \in Workers, Start(w) PROVE room' = room
    BY <1>1, <1>2 DEF Start
<1>3. ASSUME NEW w \in Workers, LeaveRoom(w) \/ LeaveV2(w)
      PROVE  room' = room \/ room' = [room EXCEPT !.status = "ended"]
    BY <1>3 DEF LeaveRoom, LeaveV2, Departs
<1>4. ASSUME NEW u \in Users, AccountDeleted(u)
      PROVE  room' = room \/ room' = [room EXCEPT !.status = "deleted"]
    BY <1>4 DEF AccountDeleted
<1> DEFINE TimerKept == \/ room' = room
                        \/ \E over \in {"ended", "deleted"} : room' = [room EXCEPT !.status = over]
<1>5. TimerKept
    <2>1. ASSUME NEW w \in Workers, Handler(w) PROVE TimerKept
        BY <1>2, <1>3, <2>1 DEF Handler, Begin, Lose, Ready, Join
    <2>2. ASSUME NEW u \in Users, NEW hard \in BOOLEAN, Create(u, hard) PROVE FALSE
        BY <1>1, <2>2 DEF Create
    <2> QED BY <1>4, <2>1, <2>2 DEF Next, Tick, vars
<1> QED BY <1>5 DEF TypeOK, Room

LEMMA TogetherStep ==
    ASSUME TypeOK, SnapInv, [Next]_vars, room.status # "active", room'.status = "active"
    PROVE  \E w \in Workers : Start(w)
<1>1. ASSUME NEW w \in Workers, LeaveRoom(w) \/ LeaveV2(w) PROVE room'.status # "active"
    BY <1>1 DEF LeaveRoom, LeaveV2, Departs, TypeOK, Room
<1>2. ASSUME NEW u \in Users, AccountDeleted(u) PROVE room'.status # "active"
    BY <1>2 DEF AccountDeleted, TypeOK, Room
<1>3. ASSUME NEW u \in Users, NEW hard \in BOOLEAN, Create(u, hard) PROVE room'.status # "active"
    BY <1>3 DEF Create, NoRoom
<1> QED BY <1>1, <1>2, <1>3 DEF Next, Handler, Begin, Lose, Ready, Join, Tick, vars

\* The room goes active once, with everybody in it ready at that moment, and its
\* timer never moves again.
THEOREM RoomsStartTogether == Spec => StartsTogether
<1>1. Init => TypeOK /\ SnapInv
    BY InitTypes, InitSnap
<1>2. TypeOK /\ SnapInv /\ [Next]_vars => (TypeOK /\ SnapInv)'
    BY TypeStep, SnapStep
<1>3. TypeOK /\ SnapInv /\ [Next]_vars =>
          [ /\ room.status # "active" /\ room'.status = "active" =>
                  /\ room.status = "waiting" /\ clock < LIFETIME
                  /\ Cardinality(Present(Now)) >= 2 \/ gone # {}
                  /\ \A u \in Present(Now) : members[u].ready
            /\ room.starts # 0 => room'.starts = room.starts /\ room'.ends = room.ends ]_vars
    BY TogetherStep, StartedTogether, TimerStands
<1> QED BY <1>1, <1>2, <1>3, PTL DEF Spec, StartsTogether

\* A step by which an account leaves, without being deleted.
Leaves(u) == members[u].id # 0 /\ members'[u].id = 0 /\ gone' = gone

\* It was asked for by that account, of a room its mode let it leave.
LEMMA Meant ==
    ASSUME TypeOK, SnapInv, [Next]_vars, NEW u \in Users, Leaves(u)
    PROVE  /\ ~(Running(Now) /\ room.hard)
           /\ \E w \in Workers : /\ op[w].user = u /\ pc[w] = "commit"
                                 /\ \/ op[w].kind = "leave"
                                    \/ op[w].kind = "leave2" /\ op[w].member = members[u].id
<1>1. ASSUME NEW w \in Workers, NEW kind \in {"leave", "leave2"}, Commits(w, kind),
             Departs(op[w].user, seen[w]),
             kind = "leave2" => seen[w].members[op[w].user].id = op[w].member
      PROVE  /\ ~(Running(Now) /\ room.hard)
             /\ op[w].user = u /\ pc[w] = "commit"
             /\ \/ op[w].kind = "leave"
                \/ op[w].kind = "leave2" /\ op[w].member = members[u].id
    <2>1. /\ pc[w] = "commit" /\ op[w].kind = kind /\ w \in current /\ room.status # "deleted"
          /\ op[w].user = u
        BY <1>1 DEF Leaves, Departs, Commits, Unchallenged, TypeOK
    <2>2. seen[w].room = room /\ members[u] = seen[w].members[u]
        BY <2>1 DEF SnapInv, Faithful, Leaves, NoMember
    <2>3. ~(Running(seen[w]) /\ seen[w].room.hard)
        BY <1>1, <2>1 DEF SnapInv, Judged
    <2>4. ~(Running(Now) /\ room.hard)
        BY <2>2, <2>3 DEF Running, Now
    <2> QED BY <1>1, <2>1, <2>2, <2>4
<1>2. ASSUME NEW w \in Workers, LeaveRoom(w) PROVE Commits(w, "leave") /\ Departs(op[w].user, seen[w])
    BY <1>2 DEF LeaveRoom
<1>3. ASSUME NEW w \in Workers, LeaveV2(w)
      PROVE  /\ Commits(w, "leave2") /\ Departs(op[w].user, seen[w])
             /\ seen[w].members[op[w].user].id = op[w].member
    BY <1>3 DEF LeaveV2, Leaves
<1>4. ASSUME NEW w \in Workers, Ready(w) \/ Join(w) PROVE FALSE
    <2>1. CASE Ready(w)
        BY <2>1 DEF Ready, Leaves, TypeOK, Member
    <2>2. CASE Join(w)
        <3>1. \/ members' = members
              \/ ids < MaxMembers /\ members' = [members EXCEPT ![op[w].user] = [NoMember EXCEPT !.id = ids + 1]]
            BY <2>2 DEF Join
        <3>2. ids + 1 # 0 /\ [NoMember EXCEPT !.id = ids + 1].id = ids + 1
            BY DEF TypeOK, NoMember
        <3> QED BY <3>1, <3>2 DEF Leaves, TypeOK
    <2> QED BY <1>4, <2>1, <2>2
<1>5. ASSUME NEW v \in Users, NEW hard \in BOOLEAN, Create(v, hard) PROVE FALSE
    <2>1. members' = [members EXCEPT ![v] = [NoMember EXCEPT !.id = ids + 1]]
        BY <1>5 DEF Create
    <2>2. ids + 1 # 0 /\ [NoMember EXCEPT !.id = ids + 1].id = ids + 1
        BY DEF TypeOK, NoMember
    <2> QED BY <2>1, <2>2 DEF Leaves, TypeOK
<1>6. ASSUME NEW v \in Users, AccountDeleted(v) PROVE FALSE
    BY <1>6 DEF AccountDeleted, Leaves
<1>7. ~UNCHANGED members
    BY DEF Leaves
<1>8. \E w \in Workers : LeaveRoom(w) \/ LeaveV2(w)
    BY <1>4, <1>5, <1>6, <1>7 DEF Next, Handler, Begin, Lose, Start, Tick, vars
<1> QED BY <1>1, <1>2, <1>3, <1>8

\* Nobody drops out of a running Hard Lock room, and a departure retried after its
\* account joined again does not remove the new membership.
THEOREM DeparturesAreMeant == Spec => LeavesAreMeant
<1>1. Init => TypeOK /\ SnapInv
    BY InitTypes, InitSnap
<1>2. TypeOK /\ SnapInv /\ [Next]_vars => (TypeOK /\ SnapInv)'
    BY TypeStep, SnapStep
<1>3. TypeOK /\ SnapInv /\ [Next]_vars =>
          [\A u \in Users : members[u].id # 0 /\ members'[u].id = 0 /\ gone' = gone =>
              /\ ~(Running(Now) /\ room.hard)
              /\ \E w \in Workers : /\ op[w].user = u /\ pc[w] = "commit"
                                    /\ \/ op[w].kind = "leave"
                                       \/ op[w].kind = "leave2" /\ op[w].member = members[u].id]_vars
    BY Meant DEF Leaves
<1> QED BY <1>1, <1>2, <1>3, PTL DEF Spec, LeavesAreMeant

-----------------------------------------------------------------------------
(* StudyRoom implements SharedRoom *)

\* A departure that names a membership names one, and a room outlives its host's
\* account only as a deleted one.
Named ==
    /\ \A w \in current : op[w].kind = "leave2" => op[w].member # 0
    /\ Host \in gone => room.status \in {"none", "deleted"}
    /\ room.status = "none" => room.ends = 0

LEMMA NamedStep == TypeOK /\ SnapInv /\ Named /\ [Next]_vars => Named'
<1> SUFFICES ASSUME TypeOK, SnapInv, Named, [Next]_vars PROVE Named'
    OBVIOUS
<1> USE DEF Named
<1>1. ASSUME NEW u \in Users, NEW hard \in BOOLEAN, Create(u, hard) PROVE Named'
    <2>1. room'.status = "waiting" /\ Host \notin gone' /\ UNCHANGED <<op, current>>
        BY <1>1 DEF Create, NoRoom
    <2> QED BY <2>1
<1>2. ASSUME NEW w \in Workers, NEW o \in Op, Begin(w, o) PROVE Named'
    <2>1. o.kind = "leave2" => o.member # 0
        BY <1>2 DEF Begin, Wellformed, TypeOK
    <2>2. /\ op' = [op EXCEPT ![w] = o] /\ current' = current \union {w}
          /\ UNCHANGED <<room, gone>>
        BY <1>2 DEF Begin
    <2> QED BY <2>1, <2>2 DEF TypeOK
<1>3. ASSUME NEW w \in Workers, Lose(w) PROVE Named'
    <2>1. /\ current' = current \ {w} /\ UNCHANGED <<room, gone>>
          /\ \A x \in current' : op'[x] = op[x]
        BY <1>3, EndsType DEF Lose
    <2> QED BY <2>1
<1>4. ASSUME NEW w \in Workers,
             Ready(w) \/ Start(w) \/ LeaveRoom(w) \/ LeaveV2(w) \/ Join(w)
      PROVE  Named'
    <2>1. current' = {} /\ room.status # "deleted" /\ gone' = gone
        BY <1>4, CommitsType DEF Ready, Start, LeaveRoom, LeaveV2, Join, Commits, Unchallenged
    <2>2. room.status # "none" /\ Host \notin gone
        BY <1>4, <2>1 DEF Ready, Start, LeaveRoom, LeaveV2, Join, Commits, Unchallenged, SnapInv
    <2>3. room'.status # "none"
        <3>1. \/ room' = room
              \/ room' = [room EXCEPT !.status = "ended"]
              \/ room' = [room EXCEPT !.status = "active", !.starts = clock, !.ends = clock + DURATION]
            BY <1>4 DEF Ready, Start, LeaveRoom, LeaveV2, Join, Departs
        <3> QED BY <2>2, <3>1 DEF TypeOK, Room
    <2> QED BY <2>1, <2>2, <2>3
<1>5. ASSUME NEW u \in Users, AccountDeleted(u) PROVE Named'
    BY <1>5 DEF AccountDeleted, TypeOK, Room
<1>6. CASE Tick \/ UNCHANGED vars
    BY <1>6 DEF Tick, vars
<1> QED BY <1>1, <1>2, <1>3, <1>4, <1>5, <1>6 DEF Next, Handler

PlaceOf(m) == IF m.id = 0 THEN "none" ELSE IF m.ready THEN "ready" ELSE "here"

\* One membership written is one place changed.
LEMMA PlaceChanges ==
    ASSUME TypeOK, NEW u \in Users, NEW m \in Member, members' = [members EXCEPT ![u] = m]
    PROVE  [v \in Users |-> Place(v)]' = [[v \in Users |-> Place(v)] EXCEPT ![u] = PlaceOf(m)]
<1>1. \A v \in Users : members'[v] = IF v = u THEN m ELSE members[v]
    BY DEF TypeOK
<1>2. \A v \in Users : Place(v)' = IF v = u THEN PlaceOf(m) ELSE Place(v)
    BY <1>1 DEF Place, PlaceOf
<1> QED BY <1>2

\* Both modules count alike.
LEMMA SameCount == \A S : Shared!Cardinality(S) = Cardinality(S)
BY DEF Shared!Cardinality, Cardinality

LEMMA Ins == Shared!In = Present(Now)
BY DEF Shared!In, Place, Present, Now

\* What a handler that commits knows of the room as it is.
LEMMA Knows ==
    ASSUME TypeOK, SnapInv, Named, NEW w \in Workers, NEW kind, Commits(w, kind)
    PROVE  LET o == op[w]
               s == seen[w]
           IN  /\ s.room = room /\ o.kind = kind /\ Judged(w)
               /\ o.user \in Users /\ o.flag \in BOOLEAN
               /\ kind = "leave2" => o.member # 0
               /\ \A u \in Users : members[u] = s.members[u] \/ (u \in gone /\ members[u] = NoMember)
               /\ members[Host] = s.members[Host]
               /\ Present(Now) \subseteq Present(s)
<1>1. w \in current /\ room.status # "deleted" /\ op[w].kind = kind
    BY DEF Commits, Unchallenged
<1>2. Faithful(w) /\ Judged(w) /\ room.status # "none"
    BY <1>1 DEF SnapInv
<1>3. op[w] \in Op
    BY DEF TypeOK
<1>4. Host \notin gone
    BY <1>1, <1>2 DEF Named
<1>5. \A u \in Users : members[u] = seen[w].members[u] \/ (u \in gone /\ members[u] = NoMember)
    BY <1>1, <1>2 DEF Faithful
<1>6. Present(Now) \subseteq Present(seen[w])
    BY <1>5 DEF Present, Now, NoMember
<1> QED BY <1>1, <1>2, <1>3, <1>4, <1>5, <1>6 DEF Faithful, Named, Op

LEMMA SharedStep == TypeOK /\ SnapInv /\ Named /\ [Next]_vars => [Shared!Next]_Shared!vars
<1> SUFFICES ASSUME TypeOK, SnapInv, Named, [Next]_vars PROVE Shared!Next \/ UNCHANGED Shared!vars
    OBVIOUS
<1> DEFINE place == [v \in Users |-> Place(v)]
<1>a. ASSUME UNCHANGED <<clock, room, members, gone>> PROVE UNCHANGED Shared!vars
    BY <1>a DEF Shared!vars, Place
<1>b. members' = members => place' = place
    BY DEF Place
<1>1. ASSUME NEW u \in Users, NEW hard \in BOOLEAN, Create(u, hard) PROVE Shared!Open
    <2> DEFINE m == [NoMember EXCEPT !.id = ids + 1]
    <2>1. /\ u = Host /\ room.status = "none" /\ UNCHANGED <<clock, gone>>
          /\ room' = [NoRoom EXCEPT !.status = "waiting", !.hard = hard]
          /\ members' = [members EXCEPT ![Host] = m] /\ ids < MaxMembers
        BY <1>1 DEF Create
    <2>2. m \in Member /\ PlaceOf(m) = "here"
        <3>1. ids + 1 \in 0..MaxMembers /\ ids + 1 # 0
            BY <2>1 DEF TypeOK
        <3> QED BY <3>1 DEF NoMember, Member, PlaceOf
    <2>3. place' = [place EXCEPT ![Host] = "here"]
        BY <2>1, <2>2, PlaceChanges
    <2>4. room'.status = "waiting" /\ room'.hard \in BOOLEAN /\ room'.ends = room.ends
        <3>1. room.ends = 0
            BY <2>1 DEF Named
        <3> QED BY <2>1, <3>1 DEF NoRoom
    <2> QED BY <2>1, <2>3, <2>4 DEF Shared!Open
<1>2. ASSUME NEW w \in Workers, NEW o \in Op, Begin(w, o) PROVE UNCHANGED Shared!vars
    BY <1>2, <1>a DEF Begin
<1>3. ASSUME NEW w \in Workers, Lose(w) PROVE UNCHANGED Shared!vars
    BY <1>3, <1>a DEF Lose
<1>4. ASSUME NEW w \in Workers, Ready(w) PROVE \E u \in Users : Shared!Decides(u)
    <2> DEFINE u == op[w].user
               m == [members[u] EXCEPT !.ready = op[w].flag]
    <2>1. /\ Commits(w, "ready") /\ Joinable(seen[w]) /\ members[u].id # 0
          /\ members' = [members EXCEPT ![u] = m] /\ UNCHANGED <<clock, room, gone>>
        BY <1>4 DEF Ready
    <2>2. u \in Users /\ op[w].flag \in BOOLEAN /\ seen[w].room = room
        BY <2>1, Knows
    <2>3. m \in Member /\ PlaceOf(m) \in {"here", "ready"}
        BY <2>1, <2>2 DEF TypeOK, Member, PlaceOf
    <2>4. place' = [place EXCEPT ![u] = PlaceOf(m)]
        BY <2>1, <2>2, <2>3, PlaceChanges
    <2>5. Shared!Waits /\ u \in Shared!In
        BY <2>1, <2>2, Ins DEF Shared!Waits, Joinable, Present, Now
    <2> QED BY <2>1, <2>2, <2>3, <2>4, <2>5 DEF Shared!Decides
<1>5. ASSUME NEW w \in Workers, Start(w) PROVE Shared!Starts \/ UNCHANGED Shared!vars
    <2>1. UNCHANGED <<clock, members, gone>>
        BY <1>5 DEF Start
    <2>2. CASE room' = room
        BY <1>a, <2>1, <2>2
    <2>3. CASE room' # room
        <3>1. /\ room.status = "waiting" /\ clock < LIFETIME
              /\ room' = [room EXCEPT !.status = "active", !.starts = clock, !.ends = clock + DURATION]
            BY <1>5, <2>3 DEF Start
        <3>2. room'.status = "active" /\ room'.hard = room.hard /\ room'.ends = clock + DURATION
            BY <3>1 DEF TypeOK, Room
        <3>3. /\ Cardinality(Present(Now)) >= 2 \/ gone # {}
              /\ \A u \in Present(Now) : members[u].ready
            BY <1>5, <3>1, <3>2, StartedTogether
        <3>4. \A u \in Shared!In : place[u] = "ready"
            BY <3>3, Ins DEF Place, Present, Now
        <3>5. Shared!Cardinality(Shared!In) >= 2 \/ gone # {}
            BY <3>3, Ins, SameCount
        <3>6. place' = place
            BY <1>b, <2>1
        <3>7. Shared!Starts
            BY <2>1, <3>1, <3>2, <3>4, <3>5, <3>6 DEF Shared!Starts, Shared!Waits
        <3> QED BY <3>7
    <2> QED BY <2>2, <2>3
<1>6. ASSUME NEW w \in Workers, NEW kind \in {"leave", "leave2"}, Commits(w, kind), UNCHANGED <<clock, gone>>,
             Departs(op[w].user, seen[w]),
             kind = "leave" => members[op[w].user].id # 0,
             kind = "leave2" => seen[w].members[op[w].user].id = op[w].member
      PROVE  (\E u \in Users : Shared!Leaves(u)) \/ UNCHANGED Shared!vars
    <2> DEFINE u == op[w].user
    <2>1. /\ u \in Users /\ seen[w].room = room /\ Judged(w) /\ op[w].kind = kind
          /\ members[u] = seen[w].members[u] \/ (u # Host /\ members[u] = NoMember)
          /\ members[Host] = seen[w].members[Host]
          /\ kind = "leave2" => op[w].member # 0
        BY <1>6, Knows
    <2>2. NoMember \in Member /\ PlaceOf(NoMember) = "none"
        BY DEF NoMember, Member, PlaceOf
    <2>3. CASE members[u].id = 0
        <3>1. u # Host /\ members[u] = NoMember
            BY <1>6, <2>1, <2>3
        <3>2. members' = [members EXCEPT ![u] = NoMember] /\ room' = room
            BY <1>6, <3>1 DEF Departs
        <3>3. members' = members
            BY <2>1, <3>1, <3>2 DEF TypeOK
        <3> QED BY <1>6, <1>a, <3>2, <3>3
    <2>4. CASE members[u].id # 0
        <3>1. u \in Shared!In
            BY <2>1, <2>4, Ins DEF Present, Now
        <3>2. ~Shared!Locked
            <4>1. members[u] = seen[w].members[u]
                BY <2>1, <2>4 DEF NoMember
            <4>2. ~(Running(seen[w]) /\ seen[w].room.hard)
                BY <1>6, <2>1 DEF Judged
            <4> QED BY <2>1, <4>2 DEF Shared!Locked, Running
        <3>3. CASE u = Host /\ room.status = "waiting"
            <4>1. room' = [room EXCEPT !.status = "ended"] /\ members' = members
                BY <1>6, <2>1, <3>3 DEF Departs
            <4>2. room'.status = "ended" /\ room'.hard = room.hard /\ room'.ends = room.ends
                BY <4>1 DEF TypeOK, Room
            <4> QED BY <1>6, <1>b, <2>1, <3>1, <3>2, <3>3, <4>1, <4>2 DEF Shared!Leaves
        <3>4. CASE ~(u = Host /\ room.status = "waiting")
            <4>1. room' = room /\ members' = [members EXCEPT ![u] = NoMember]
                BY <1>6, <2>1, <3>4 DEF Departs
            <4>2. place' = [place EXCEPT ![u] = "none"]
                BY <2>1, <2>2, <4>1, PlaceChanges
            <4> QED BY <1>6, <2>1, <3>1, <3>2, <3>4, <4>1, <4>2 DEF Shared!Leaves
        <3> QED BY <3>3, <3>4
    <2> QED BY <2>3, <2>4
<1>7. ASSUME NEW w \in Workers, LeaveRoom(w)
      PROVE  (\E u \in Users : Shared!Leaves(u)) \/ UNCHANGED Shared!vars
    BY <1>6, <1>7 DEF LeaveRoom
<1>8. ASSUME NEW w \in Workers, LeaveV2(w)
      PROVE  (\E u \in Users : Shared!Leaves(u)) \/ UNCHANGED Shared!vars
    <2>1. CASE UNCHANGED <<room, members>>
        BY <1>8, <1>a, <2>1 DEF LeaveV2
    <2>2. CASE seen[w].members[op[w].user].id = op[w].member /\ Departs(op[w].user, seen[w])
        BY <1>6, <1>8, <2>2 DEF LeaveV2
    <2> QED BY <1>8, <2>1, <2>2 DEF LeaveV2
<1>9. ASSUME NEW w \in Workers, Join(w)
      PROVE  (\E u \in Users : Shared!Joins(u)) \/ UNCHANGED Shared!vars
    <2> DEFINE u == op[w].user
               m == [NoMember EXCEPT !.id = ids + 1]
    <2>1. Commits(w, "join") /\ Joinable(seen[w]) /\ UNCHANGED <<clock, room, gone>>
        BY <1>9 DEF Join
    <2>2. CASE members' = members
        BY <1>a, <2>1, <2>2
    <2>3. CASE seen[w].members[u].id = 0 /\ ids < MaxMembers /\ members' = [members EXCEPT ![u] = m]
        <3>1. /\ u \in Users /\ seen[w].room = room /\ Judged(w) /\ op[w].kind = "join"
              /\ members[u] = seen[w].members[u] \/ members[u] = NoMember
              /\ Present(Now) \subseteq Present(seen[w])
            BY <2>1, Knows
        <3>2. u \notin Shared!In /\ Shared!Waits
            BY <2>1, <2>3, <3>1, Ins DEF Present, Now, NoMember, Joinable, Shared!Waits
        <3>3. Shared!Cardinality(Shared!In) < CAPACITY
            <4>1. Cardinality(Present(seen[w])) < CAPACITY
                BY <2>3, <3>1 DEF Judged, Present
            <4>2. IsFiniteSet(Present(seen[w]))
                BY FS_Subset DEF Present
            <4>3. /\ Cardinality(Present(Now)) <= Cardinality(Present(seen[w]))
                  /\ IsFiniteSet(Present(Now))
                BY <3>1, <4>2, FS_Subset
            <4>4. Cardinality(Present(Now)) \in Nat /\ Cardinality(Present(seen[w])) \in Nat
                BY <4>2, <4>3, FS_CardinalityType
            <4>5. Cardinality(Present(Now)) < CAPACITY
                BY <4>1, <4>3, <4>4
            <4> QED BY <4>5, Ins, SameCount
        <3>4. m \in Member /\ PlaceOf(m) = "here"
            <4>1. ids + 1 \in 0..MaxMembers /\ ids + 1 # 0
                BY <2>3 DEF TypeOK
            <4> QED BY <4>1 DEF NoMember, Member, PlaceOf
        <3>5. place' = [place EXCEPT ![u] = "here"]
            <4>1. u \in Users /\ members' = [members EXCEPT ![u] = m]
                BY <2>3, <3>1
            <4>2. place' = [place EXCEPT ![u] = PlaceOf(m)]
                BY <3>4, <4>1, PlaceChanges
            <4> QED BY <3>4, <4>2
        <3>6. u \in Users
            BY <3>1
        <3> QED BY <2>1, <3>2, <3>3, <3>5, <3>6 DEF Shared!Joins
    <2> QED BY <1>9, <2>2, <2>3 DEF Join
<1>10. ASSUME NEW u \in Users, AccountDeleted(u) PROVE Shared!Vanishes(u)
    <2>1. /\ UNCHANGED clock /\ gone' = gone \union {u}
          /\ members' = IF u = Host THEN Nothing.members ELSE [members EXCEPT ![u] = NoMember]
          /\ room' = IF u = Host /\ room.status # "none" THEN [room EXCEPT !.status = "deleted"]
                     ELSE room
        BY <1>10 DEF AccountDeleted
    <2>2. NoMember \in Member /\ PlaceOf(NoMember) = "none" /\ NoMember.id = 0
        BY DEF NoMember, Member, PlaceOf
    <2>3. u # Host => place' = [place EXCEPT ![u] = "none"]
        BY <2>1, <2>2, PlaceChanges
    <2>4. u = Host => place' = [v \in Users |-> "none"]
        BY <2>1, <2>2 DEF Nothing, Place
    <2>5. /\ room'.status = IF u = Host /\ room.status # "none" THEN "deleted" ELSE room.status
          /\ room'.hard = room.hard /\ room'.ends = room.ends
        BY <2>1 DEF TypeOK, Room
    <2> QED BY <2>1, <2>3, <2>4, <2>5 DEF Shared!Vanishes
<1>11. ASSUME Tick PROVE Shared!Tick
    <2>1. place' = place
        BY <1>11, <1>b DEF Tick
    <2>2. clock' = clock + 1 /\ UNCHANGED <<room, gone>>
        BY <1>11 DEF Tick
    <2> QED BY <2>1, <2>2 DEF Shared!Tick
<1>12. CASE UNCHANGED vars
    BY <1>12, <1>a DEF vars
<1> QED BY <1>1, <1>2, <1>3, <1>4, <1>5, <1>7, <1>8, <1>9, <1>10, <1>11, <1>12
        DEF Next, Handler, Shared!Next

\* Whatever interleaves, each handler changes the room at one instant and as the room
\* of that instant allows.
THEOREM RoomIsShared == Spec => ImplementsSharedRoom
<1>1. Init => TypeOK /\ SnapInv /\ Named
    <2> SUFFICES ASSUME Init PROVE Named
        BY InitTypes, InitSnap
    <2>1. room = NoRoom /\ current = {} /\ gone = {}
        BY DEF Init
    <2> QED BY <2>1 DEF Named, NoRoom
<1>2. TypeOK /\ SnapInv /\ Named /\ [Next]_vars => (TypeOK /\ SnapInv /\ Named)'
    BY TypeStep, SnapStep, NamedStep
<1>3. Init => Shared!Init
    <2> SUFFICES ASSUME Init PROVE Shared!Init
        OBVIOUS
    <2>1. \A u \in Users : Place(u) = "none"
        BY DEF Init, Nothing, NoMember, Place
    <2> QED BY <2>1 DEF Init, Shared!Init, NoRoom
<1> QED BY <1>1, <1>2, <1>3, SharedStep, PTL DEF Spec, ImplementsSharedRoom, Shared!Spec
=============================================================================
