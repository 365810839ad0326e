----------------------------- MODULE SharedRoom -----------------------------
(***************************************************************************)
(* What changeRoom promises the people in a room, without transactions,    *)
(* snapshots or retries: there is one room, and whatever anybody does to   *)
(* it happens at one instant and is judged by the room of that instant.    *)
(* StudyRoom.tla is shown to implement this specification.                 *)
(***************************************************************************)
EXTENDS Naturals, FiniteSets

CONSTANTS Users, Host, CAPACITY, LIFETIME, DURATION

VARIABLES
    clock,
    status, hard, ends,     \* the room: what it is, its mode, when it ends
    place,                  \* what each account is to it
    gone                    \* accounts that were deleted

vars == <<clock, status, hard, ends, place, gone>>

In == {u \in Users : place[u] # "none"}
Waits == status = "waiting" /\ clock < LIFETIME
Locked == status = "active" /\ clock < ends /\ hard

Init ==
    /\ clock = 1
    /\ status = "none" /\ hard = FALSE /\ ends = 0
    /\ place = [u \in Users |-> "none"]
    /\ gone = {}

Open ==
    /\ status = "none" /\ status' = "waiting"
    /\ hard' \in BOOLEAN
    /\ place' = [place EXCEPT ![Host] = "here"]
    /\ UNCHANGED <<clock, ends, gone>>

\* An account deleted while it joins may still get its place.
Joins(u) ==
    /\ Waits
    /\ u \notin In /\ Cardinality(In) < CAPACITY
    /\ place' = [place EXCEPT ![u] = "here"]
    /\ UNCHANGED <<clock, status, hard, ends, gone>>

Decides(u) ==
    /\ Waits
    /\ u \in In
    /\ \E word \in {"here", "ready"} : place' = [place EXCEPT ![u] = word]
    /\ UNCHANGED <<clock, status, hard, ends, gone>>

\* Who is deleted meanwhile is not missed.
Starts ==
    /\ Waits
    /\ Cardinality(In) >= 2 \/ gone # {}
    /\ \A u \in In : place[u] = "ready"
    /\ status' = "active" /\ ends' = clock + DURATION
    /\ UNCHANGED <<clock, hard, place, gone>>

\* The host of a room that waits ends it; of a Hard Lock room that runs nobody
\* leaves.
Leaves(u) ==
    /\ u \in In /\ ~Locked
    /\ IF u = Host /\ status = "waiting"
       THEN status' = "ended" /\ UNCHANGED place
       ELSE place' = [place EXCEPT ![u] = "none"] /\ UNCHANGED status
    /\ UNCHANGED <<clock, hard, ends, gone>>

\* A deleted account takes its place along, the host the room.
Vanishes(u) ==
    /\ gone' = gone \union {u}
    /\ place' = IF u = Host THEN [v \in Users |-> "none"] ELSE [place EXCEPT ![u] = "none"]
    /\ status' = IF u = Host /\ status # "none" THEN "deleted" ELSE status
    /\ UNCHANGED <<clock, hard, ends>>

Tick ==
    /\ clock' = clock + 1
    /\ UNCHANGED <<status, hard, ends, place, gone>>

Next ==
    \/ \E u \in Users : Joins(u) \/ Decides(u) \/ Leaves(u) \/ Vanishes(u)
    \/ Open \/ Starts \/ Tick

Spec == Init /\ [][Next]_vars
=============================================================================
