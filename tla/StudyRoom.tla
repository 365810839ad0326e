------------------------------ MODULE StudyRoom ------------------------------
(***************************************************************************)
(* Focus with friends: one shared room and its members, from its creation  *)
(* to its end.  Every change is a transaction that reads the room and its  *)
(* members, validates, and writes only if nobody wrote the room in between *)
(* (changeRoom).  RoomAlerts.tla has what happens inside a running room.   *)
(*                                                                         *)
(* A handler whose write lost the race reads again, at most five times;    *)
(* that is the same as the request being made again, so Lose ends it here. *)
(* What updatedAt compares is the set current: the handlers whose snapshot *)
(* is still the room; a snapshot that is not can only lose, and is dropped.*)
(***************************************************************************)
EXTENDS Naturals, FiniteSets

CONSTANTS
    Users,          \* accounts that may be in the room
    Host,           \* the one that creates it
    Workers,        \* handlers running at once
    CAPACITY,       \* ROOM_CAPACITY
    LIFETIME,       \* the instant a room that still waits expires
    DURATION,       \* durationMinutes
    Horizon,        \* bound on the clock
    MaxMembers      \* bound on the memberships ever created

ASSUME RoomAssumption ==
    /\ Host \in Users /\ IsFiniteSet(Users)
    /\ CAPACITY \in Nat \ {0} /\ LIFETIME \in Nat /\ DURATION \in Nat \ {0}
    /\ Horizon \in Nat \ {0} /\ MaxMembers \in Nat

VARIABLES
    clock,
    room,           \* the FriendFocusRoom row
    members,        \* its FriendFocusMember rows, by account; id 0: none
    op,             \* what each handler was asked
    seen,           \* the room and members it read
    current,        \* the handlers whose snapshot updatedAt still matches
    pc,
    gone,           \* accounts that were deleted
    ids             \* memberships created so far

rows == <<room, members>>
handler == <<op, seen, current, pc>>
vars == <<clock, rows, handler, gone, ids>>

Member == [id : 0..MaxMembers, ready : BOOLEAN]
NoMember == [id |-> 0, ready |-> FALSE]

\* starts and ends are 0 until the room starts.
Room == [status : {"none", "waiting", "active", "ended", "deleted"}, hard : BOOLEAN,
         starts : Nat, ends : Nat]
NoRoom == [status |-> "none", hard |-> FALSE, starts |-> 0, ends |-> 0]

Op == [kind : {"ready", "start", "leave", "leave2", "join"}, user : Users, flag : BOOLEAN,
       member : 0..MaxMembers]
NoOp == [kind |-> "start", user |-> Host, flag |-> FALSE, member |-> 0]
Snapshots == [room : Room, members : [Users -> Member]]
Nothing == [room |-> NoRoom, members |-> [u \in Users |-> NoMember]]

TypeOK ==
    /\ clock \in 1..Horizon
    /\ room \in Room
    /\ members \in [Users -> Member]
    /\ op \in [Workers -> Op]
    /\ seen \in [Workers -> Snapshots]
    /\ current \subseteq Workers
    /\ pc \in [Workers -> {"idle", "commit"}]
    /\ gone \subseteq Users
    /\ ids \in 0..MaxMembers
    \* a room that started is never ended by a write, only by its clock
    /\ room.status \in {"none", "waiting", "ended"} => room.starts = 0
    /\ room.status = "active" => room.starts # 0 /\ room.ends = room.starts + DURATION

Init ==
    /\ clock = 1
    /\ room = NoRoom
    /\ members = Nothing.members
    /\ op = [w \in Workers |-> NoOp]
    /\ seen = [w \in Workers |-> Nothing]
    /\ current = {}
    /\ pc = [w \in Workers |-> "idle"]
    /\ gone = {}
    /\ ids = 0

-----------------------------------------------------------------------------
(* What the handlers decide on: a snapshot s and the clock *)

Present(s) == {u \in Users : s.members[u].id # 0}
Joinable(s) == s.room.status = "waiting" /\ clock < LIFETIME
Running(s) == s.room.status = "active" /\ clock < s.room.ends
Now == [room |-> room, members |-> members]

\* What each request checks of the room it read.
MayReady(o, s) == o.user \in Present(s) /\ Joinable(s)

\* mutant: the host decides alone
MayStartUnready(o, s) ==
    /\ o.user = Host /\ Host \in Present(s)
    /\ s.room.status = "active" \/ (Joinable(s) /\ Cardinality(Present(s)) >= 2)

MayStart(o, s) ==
    /\ o.user = Host /\ Host \in Present(s)
    /\ \/ s.room.status = "active"
       \/ /\ Joinable(s)
          /\ Cardinality(Present(s)) >= 2
          /\ \A u \in Present(s) : s.members[u].ready

MayLeave(o, s) == o.user \in Present(s) /\ ~(Running(s) /\ s.room.hard)

MayLeaveV2(o, s) == s.members[o.user].id = o.member => ~(Running(s) /\ s.room.hard)

MayJoin(o, s) ==
    /\ Joinable(s)
    /\ o.flag = s.room.hard
    /\ o.user \in Present(s) \/ Cardinality(Present(s)) < CAPACITY

Allowed(o, s) ==
    \/ o.kind = "ready" /\ MayReady(o, s)
    \/ o.kind = "start" /\ MayStart(o, s)
    \/ o.kind = "leave" /\ MayLeave(o, s)
    \/ o.kind = "leave2" /\ MayLeaveV2(o, s)
    \/ o.kind = "join" /\ MayJoin(o, s)

\* A request as a client may make it: a membership it was once told, or none.
Wellformed(o) ==
    /\ o.user \notin gone
    /\ o.kind \notin {"ready", "join"} => ~o.flag
    /\ IF o.kind = "leave2" THEN o.member \in 1..ids ELSE o.member = 0

-----------------------------------------------------------------------------
(* POST /rooms, and changeRoom under everything else *)

Create(u, hard) ==
    /\ room.status = "none"
    /\ u = Host /\ u \notin gone
    /\ ids < MaxMembers
    /\ room' = [NoRoom EXCEPT !.status = "waiting", !.hard = hard]
    /\ members' = [members EXCEPT ![u] = [NoMember EXCEPT !.id = ids + 1]]
    /\ ids' = ids + 1
    /\ UNCHANGED <<clock, handler, gone>>

\* The transaction opens: read, validate.
Begin(w, o) ==
    /\ pc[w] = "idle"
    /\ room.status \notin {"none", "deleted"}
    /\ Wellformed(o)
    /\ Allowed(o, Now)
    /\ op' = [op EXCEPT ![w] = o]
    /\ seen' = [seen EXCEPT ![w] = Now]
    /\ current' = current \union {w}
    /\ pc' = [pc EXCEPT ![w] = "commit"]
    /\ UNCHANGED <<clock, rows, gone, ids>>

\* Nobody wrote the room since it was read.
Unchallenged(w) == w \in current /\ room.status # "deleted"

Forget(ws) == seen' = [x \in Workers |-> IF x \in ws THEN Nothing ELSE seen[x]]

\* The handler w is done; of the others, those in keep go on.
Ends(w, keep) ==
    /\ pc' = [pc EXCEPT ![w] = "idle"]
    /\ op' = [op EXCEPT ![w] = NoOp]
    /\ current' = keep
    /\ Forget(Workers \ keep)

\* mutant: the parent room is neither compared nor written
CommitsUnlocked(w, kind) ==
    /\ pc[w] = "commit" /\ op[w].kind = kind
    /\ room.status # "deleted"
    /\ Ends(w, current \ {w})

\* The parent write advances updatedAt: every other snapshot is stale.
Commits(w, kind) ==
    /\ pc[w] = "commit" /\ op[w].kind = kind
    /\ Unchallenged(w)
    /\ Ends(w, {})

\* Somebody wrote first (RoomWriteConflict, P2034), the room is gone, or the
\* process died; a transaction leaves nothing behind.
Lose(w) ==
    /\ pc[w] = "commit"
    /\ Ends(w, current \ {w})
    /\ UNCHANGED <<clock, rows, gone, ids>>

-----------------------------------------------------------------------------
(* The handlers' writes *)

\* mutant: the room may have expired since it was read
ReadyWhenRead(w) ==
    /\ Commits(w, "ready")
    /\ members[op[w].user].id # 0
    /\ members' = [members EXCEPT ![op[w].user].ready = op[w].flag]
    /\ UNCHANGED <<clock, room, gone, ids>>

Ready(w) ==
    /\ Commits(w, "ready")
    /\ Joinable(seen[w])
    /\ members[op[w].user].id # 0
    /\ members' = [members EXCEPT ![op[w].user].ready = op[w].flag]
    /\ UNCHANGED <<clock, room, gone, ids>>

\* A room that runs already is answered as it is.
Start(w) ==
    /\ Commits(w, "start")
    /\ \/ /\ seen[w].room.status = "active"
          /\ UNCHANGED room
       \/ /\ seen[w].room.status # "active"
          /\ clock < LIFETIME
          /\ room' = IF room.status # "waiting" THEN room
                     ELSE [room EXCEPT !.status = "active", !.starts = clock,
                                       !.ends = clock + DURATION]
    /\ UNCHANGED <<clock, members, gone, ids>>

\* The host ends a room that waits and stays in it; anybody else's row goes.
Departs(u, s) ==
    IF u = Host /\ s.room.status = "waiting"
    THEN /\ room' = [room EXCEPT !.status = "ended"]
         /\ UNCHANGED members
    ELSE /\ members' = [members EXCEPT ![u] = NoMember]
         /\ UNCHANGED room

LeaveRoom(w) ==
    /\ Commits(w, "leave")
    /\ members[op[w].user].id # 0
    /\ Departs(op[w].user, seen[w])
    /\ UNCHANGED <<clock, gone, ids>>

\* mutant: whoever asks leaves, whichever membership the request named
LeaveV2AnyMembership(w) ==
    /\ Commits(w, "leave2")
    /\ Departs(op[w].user, seen[w])
    /\ UNCHANGED <<clock, gone, ids>>

\* Leaving names the membership; already_left and superseded change nothing.
LeaveV2(w) ==
    LET o == op[w]
        s == seen[w]
        over == o.user = Host /\ s.room.status = "ended" /\ s.room.starts = 0
    IN  /\ Commits(w, "leave2")
        /\ IF s.members[o.user].id # o.member \/ over
           THEN UNCHANGED rows
           ELSE Departs(o.user, s)
        /\ UNCHANGED <<clock, gone, ids>>

Join(w) ==
    LET u == op[w].user
    IN  /\ Commits(w, "join")
        /\ Joinable(seen[w])
        /\ IF seen[w].members[u].id # 0
           THEN UNCHANGED <<members, ids>>
           ELSE /\ ids < MaxMembers
                /\ members' = [members EXCEPT ![u] = [NoMember EXCEPT !.id = ids + 1]]
                /\ ids' = ids + 1
        /\ UNCHANGED <<clock, room, gone>>

-----------------------------------------------------------------------------
(* The world around the room *)

\* A deleted account takes its memberships along, the host's the room; neither
\* is a write of changeRoom.
AccountDeleted(u) ==
    /\ u \notin gone
    /\ gone' = gone \union {u}
    /\ members' = IF u = Host THEN Nothing.members ELSE [members EXCEPT ![u] = NoMember]
    /\ room' = IF u = Host /\ room.status # "none"
               THEN [room EXCEPT !.status = "deleted"] ELSE room
    /\ UNCHANGED <<clock, handler, ids>>

Tick ==
    /\ clock < Horizon
    /\ clock' = clock + 1
    /\ UNCHANGED <<rows, handler, gone, ids>>

Handler(w) ==
    \/ \E o \in Op : Begin(w, o)
    \/ Lose(w) \/ Ready(w) \/ Start(w) \/ LeaveRoom(w) \/ LeaveV2(w) \/ Join(w)

Next ==
    \/ \E u \in Users, hard \in BOOLEAN : Create(u, hard)
    \/ \E w \in Workers : Handler(w)
    \/ \E u \in Users : AccountDeleted(u)
    \/ Tick

Spec == Init /\ [][Next]_vars

-----------------------------------------------------------------------------
(* Properties *)

\* Concurrent joins never overfill the room: two of them read one free place,
\* and the one whose write comes second must look again.
RoomFits == Cardinality(Present(Now)) <= CAPACITY

\* The room goes active once, before it expires, with at least two members (but
\* for accounts deleted) who all say they are ready at that very moment: whoever
\* joined, left or took back their word after the host's snapshot stops the
\* start.  From then on the shared timer never moves.
StartsTogether ==
    [][ /\ room.status # "active" /\ room'.status = "active" =>
              /\ room.status = "waiting" /\ clock < LIFETIME
              /\ Cardinality(Present(Now)) >= 2 \/ gone # {}
              /\ \A u \in Present(Now) : members[u].ready
        /\ room.starts # 0 => room'.starts = room.starts /\ room'.ends = room.ends ]_vars

\* Nobody drops out of a running Hard Lock room before the shared end, whatever
\* they asked for while it still waited; and a departure retried after its
\* account joined again does not remove the new membership.
LeavesAreMeant ==
    [][\A u \in Users : members[u].id # 0 /\ members'[u].id = 0 /\ gone' = gone =>
          /\ ~(Running(Now) /\ room.hard)
          /\ \E w \in Workers : /\ op[w].user = u /\ pc[w] = "commit"
                                /\ \/ op[w].kind = "leave"
                                   \/ op[w].kind = "leave2" /\ op[w].member = members[u].id]_vars

\* The room as the people in it see it: SharedRoom.
Place(u) == IF members[u].id = 0 THEN "none" ELSE IF members[u].ready THEN "ready" ELSE "here"

Shared == INSTANCE SharedRoom WITH
    status <- room.status, hard <- room.hard, ends <- room.ends,
    place <- [u \in Users |-> Place(u)]

\* Every handler of changeRoom, whatever runs beside it, does at most one thing to
\* the room, at once, and judges it by the room it changes, not by the one it read.
ImplementsSharedRoom == Shared!Spec
=============================================================================
