----------------------------- MODULE RoomAlerts -----------------------------
(***************************************************************************)
(* Inside a running room of StudyRoom.tla: a member's blocked attempt      *)
(* becomes an event, numbered unless the same member's last one is too     *)
(* recent; the others poll the numbered ones behind a cursor, and the      *)
(* handler that reported one pushes it to their phones behind a claim.     *)
(*                                                                         *)
(* The room runs from instant 1 and nobody can join any more.  Recording   *)
(* is a transaction of changeRoom, as in StudyRoom: current are the        *)
(* handlers whose snapshot is still the room.                              *)
(*                                                                         *)
(* PushSendsProofs.tla extends this module beside the other pushes, whose  *)
(* names it therefore leaves alone.                                        *)
(***************************************************************************)
EXTENDS Naturals, FiniteSets, Sequences, SequencesExt

CONSTANTS
    Users,          \* the members the room started with
    Pollers,        \* those of them whose client polls
    Reporters,      \* those of them who are stopped at something blocked
    Workers,        \* handlers running at once
    Requests,       \* event ids the clients make up
    Host,           \* the member whose account the room hangs on
    HardLock,       \* the room's mode: members stay until the end
    ENDS,           \* endsAt
    RETENTION,      \* EVENT_RETENTION_MS: how long after that events are kept
    COOLDOWN,       \* ATTEMPT_COOLDOWN_MS
    PAGE,           \* EVENT_PAGE_SIZE
    AlertHorizon,   \* bound on the clock
    MaxEvents,      \* bound on the events recorded
    MaxFaults       \* bound on crashes, failed calls and lost replies

ASSUME AlertAssumption ==
    /\ Pollers \subseteq Users /\ Reporters \subseteq Users /\ Host \in Users /\ HardLock \in BOOLEAN
    /\ Requests \intersect (0..AlertHorizon) = {}
    /\ ENDS \in Nat /\ RETENTION \in Nat /\ COOLDOWN \in Nat \ {0} /\ PAGE \in Nat \ {0}
    /\ AlertHorizon \in Nat \ {0} /\ MaxEvents \in Nat /\ MaxFaults \in Nat

VARIABLES
    clock,
    seq,            \* FriendFocusRoom.eventSequence
    members,        \* those still in the room
    erased,         \* those whose events went with an account or the room
    last,           \* lastAttemptAt of each member; 0: never
    events,         \* the FriendFocusEvent rows ever created, in order
    op,             \* the report each handler works on
    seen,           \* the room it read
    current,        \* the handlers whose snapshot updatedAt still matches
    pc,
    cursor,         \* what each member's client polls with; 0: nothing yet
    polling,        \* the high-water mark a poll under way has read; 0: none
    since,          \* observed: the cursor each client began with
    heard,          \* observed: the sequences each client was handed, in order
    sent,           \* <<event, member>> with a delivery row that says "sent"
    pushed,         \* observed: how often the provider took an event for a member
    lost,           \* observed: where the provider's answer was lost
    faults

handler == <<op, seen, current, pc>>
polls == <<cursor, polling, since, heard>>
deliveries == <<sent, pushed, lost>>
alertVars == <<clock, seq, members, erased, last, events, handler, polls, deliveries, faults>>

\* A client's own id, or the minute in which Screen Time's extension reported.
Keys == Requests \union (0..AlertHorizon)

Ops == [actor : Users, key : Keys]

\* seq 0: suppressed; push: free, claimed (pushClaimedAt), done (pushCompletedAt).
Event == [actor : Users, key : Keys, seq : Nat, at : 1..AlertHorizon,
          push : {"free", "claimed", "done"}]
Addressed == (1..MaxEvents) \X Users

Snapshots == [seq : Nat, members : SUBSET Users, last : [Users -> 0..AlertHorizon]]
NoRoom == [seq |-> 0, members |-> {}, last |-> [u \in Users |-> 0]]
Now == [seq |-> seq, members |-> members, last |-> last]

AlertPlaces == {"idle", "commit", "claim", "look", "dispatch", "sent", "refused"}

AlertTypeOK ==
    /\ clock \in 1..AlertHorizon
    /\ seq \in Nat
    /\ members \subseteq Users /\ erased \subseteq Users
    /\ last \in [Users -> 0..AlertHorizon]
    /\ events \in Seq(Event) /\ Len(events) <= MaxEvents
    /\ pc \in [Workers -> AlertPlaces]
    /\ DOMAIN op = Workers /\ \A w \in Workers : pc[w] # "idle" => op[w] \in Ops
    /\ seen \in [Workers -> Snapshots]
    /\ current \subseteq Workers
    /\ cursor \in [Users -> Nat] /\ polling \in [Users -> Nat] /\ since \in [Users -> Nat]
    /\ \A u \in Users : cursor[u] <= seq + 1 /\ polling[u] <= seq + 1
    /\ heard \in [Users -> Seq(Nat \ {0})]
    /\ sent \subseteq Addressed /\ lost \subseteq Addressed
    /\ pushed \in [Addressed -> Nat]
    /\ faults \in 0..MaxFaults
    \* eventSequence is the highest number given, and a request has one row
    /\ \A i \in DOMAIN events : events[i].seq <= seq
    /\ \A i, j \in DOMAIN events :
          events[i].actor = events[j].actor /\ events[i].key = events[j].key => i = j

AlertInit ==
    /\ clock = 1 /\ seq = 0 /\ members = Users /\ erased = {}
    /\ last = [u \in Users |-> 0]
    /\ events = <<>>
    /\ op = [w \in Workers |-> <<>>]
    /\ seen = [w \in Workers |-> NoRoom]
    /\ current = {}
    /\ pc = [w \in Workers |-> "idle"]
    /\ cursor = [u \in Users |-> 0] /\ polling = [u \in Users |-> 0]
    /\ since = [u \in Users |-> 0]
    /\ heard = [u \in Users |-> <<>>]
    /\ sent = {} /\ lost = {}
    /\ pushed = [p \in Addressed |-> 0]
    /\ faults = 0

Running == clock < ENDS

\* The rows of a room expire together, on expiresAt.
Kept == clock < ENDS + RETENTION

Goto(w, where) ==
    /\ pc' = [pc EXCEPT ![w] = where]
    /\ op' = [op EXCEPT ![w] = IF where = "idle" THEN <<>> ELSE @]

\* The parent room is written: the snapshots of all transactions are stale, and
\* only good for losing; the one of w is used up.
Advance ==
    /\ current' = {}
    /\ seen' = [x \in Workers |-> IF pc[x] = "commit" THEN NoRoom ELSE seen[x]]

Fault == faults < MaxFaults /\ faults' = faults + 1

-----------------------------------------------------------------------------
(* recordAttempt *)

\* A member reports with an event id of its own, or Screen Time's extension with
\* the member's token and no id but the minute; the transaction opens.  (One
\* that starts after the end changes nothing but updatedAt.)
Begin(w, o) ==
    /\ pc[w] = "idle" /\ Running
    /\ o.actor \in members \intersect Reporters
    /\ o.key \in Requests \union {clock \div COOLDOWN}
    /\ op' = [op EXCEPT ![w] = o]
    /\ seen' = [seen EXCEPT ![w] = Now]
    /\ current' = current \union {w}
    /\ pc' = [pc EXCEPT ![w] = "commit"]
    /\ UNCHANGED <<clock, seq, members, erased, last, events, polls, deliveries, faults>>

\* As the transaction sees it: an account deleted meanwhile still has its rows there.
EventOf(o) == {i \in DOMAIN events : events[i].actor = o.actor /\ events[i].key = o.key}

Unchallenged(w) == w \in current

\* Less than a cooldown after the actor's last numbered attempt.
TooSoon(s, u) == s.last[u] # 0 /\ clock < s.last[u] + COOLDOWN

\* mutant: the room's counter is not written with the event
RecordUncounted(w) ==
    LET u == op[w].actor
        n == IF TooSoon(seen[w], u) THEN 0 ELSE seen[w].seq + 1
    IN  /\ pc[w] = "commit" /\ Unchallenged(w)
        /\ Running /\ EventOf(op[w]) = {} /\ Len(events) < MaxEvents /\ (n = 0 \/ u \in members)
        /\ events' = Append(events, [actor |-> u, key |-> op[w].key, seq |-> n,
                                     at |-> clock, push |-> "free"])
        /\ last' = IF n = 0 THEN last ELSE [last EXCEPT ![u] = clock]
        /\ Goto(w, "claim") /\ Advance
        /\ UNCHANGED <<clock, seq, members, erased, polls, deliveries, faults>>

\* An event per request, numbered unless it is suppressed; a number is the member's
\* too, whose row must still be there.
Record(w) ==
    LET u == op[w].actor
        n == IF TooSoon(seen[w], u) THEN 0 ELSE seen[w].seq + 1
    IN  /\ pc[w] = "commit" /\ Unchallenged(w)
        /\ Running /\ EventOf(op[w]) = {}
        /\ Len(events) < MaxEvents
        /\ n = 0 \/ u \in members
        /\ events' = Append(events, [actor |-> u, key |-> op[w].key, seq |-> n,
                                     at |-> clock, push |-> "free"])
        /\ seq' = IF n = 0 THEN seq ELSE n
        /\ last' = IF n = 0 THEN last ELSE [last EXCEPT ![u] = clock]
        /\ Goto(w, "claim")
        /\ Advance
        /\ UNCHANGED <<clock, members, erased, polls, deliveries, faults>>

\* The room is over, or the request was recorded before.
RecordKnown(w) ==
    /\ pc[w] = "commit" /\ Unchallenged(w)
    /\ ~Running \/ EventOf(op[w]) # {}
    /\ Goto(w, IF Running THEN "claim" ELSE "idle")
    /\ Advance
    /\ UNCHANGED <<clock, seq, members, erased, last, events, polls, deliveries, faults>>

\* The room was written in between, or the process died: nothing was committed.
Lose(w) ==
    /\ pc[w] = "commit"
    /\ Goto(w, "idle")
    /\ current' = current \ {w}
    /\ seen' = [seen EXCEPT ![w] = NoRoom]
    /\ UNCHANGED <<clock, seq, members, erased, last, events, polls, deliveries, faults>>

-----------------------------------------------------------------------------
(* pushAttempt and deliver *)

Alert(w) == CHOOSE i \in EventOf(op[w]) : TRUE
SetPush(w, state) == events' = [events EXCEPT ![Alert(w)].push = state]

ClaimPush(w) ==
    /\ pc[w] = "claim"
    /\ IF \/ events[Alert(w)].seq = 0 \/ events[Alert(w)].push # "free"
          \/ op[w].actor \in erased
       THEN Goto(w, "idle") /\ UNCHANGED events
       ELSE Goto(w, "look") /\ SetPush(w, "claimed")
    /\ UNCHANGED <<clock, seq, members, erased, last, seen, current, polls, deliveries, faults>>

\* The room is read again: it must still run, with the actor in it.
LookAgain(w) ==
    /\ pc[w] = "look"
    /\ IF Running /\ op[w].actor \in members
       THEN /\ seen' = [seen EXCEPT ![w] = Now]
            /\ Goto(w, "dispatch")
            /\ UNCHANGED events
       ELSE /\ Goto(w, "idle")
            /\ SetPush(w, "done")
            /\ UNCHANGED seen
    /\ UNCHANGED <<clock, seq, members, erased, last, current, polls, deliveries, faults>>

\* The other members, but for those with a delivery that went out.
Addressees(w) == {u \in seen[w].members \ {op[w].actor} : <<Alert(w), u>> \notin sent}

Reaches(w, us) == pushed' = [p \in Addressed |->
                               IF p[1] = Alert(w) /\ p[2] \in us THEN pushed[p] + 1 ELSE pushed[p]]

\* The provider takes, or rejects, the push for each addressee; where it takes
\* it and its answer is lost the delivery counts as an error.
Dispatch(w) ==
    /\ pc[w] = "dispatch"
    /\ \E ok \in SUBSET Addressees(w) : \E mute \in SUBSET (Addressees(w) \ ok) :
        /\ IF mute = {} THEN UNCHANGED faults ELSE Fault
        /\ Reaches(w, ok \union mute)
        /\ sent' = sent \union ({Alert(w)} \X ok)
        /\ lost' = lost \union ({Alert(w)} \X mute)
        /\ Goto(w, IF ok = Addressees(w) THEN "sent" ELSE "refused")
    /\ seen' = [seen EXCEPT ![w] = NoRoom]
    /\ UNCHANGED <<clock, seq, members, erased, last, current, events, polls>>

\* mutant: the claim is given back although the dispatch had begun
DispatchUnrecordedReleasing(w) ==
    /\ pc[w] = "dispatch"
    /\ Fault
    /\ Reaches(w, Addressees(w))
    /\ SetPush(w, "free")
    /\ Goto(w, "idle")
    /\ seen' = [seen EXCEPT ![w] = NoRoom]
    /\ UNCHANGED <<clock, seq, members, erased, last, current, polls, sent, lost>>

\* The provider took it all and the delivery rows could not be written: the
\* claim stays.
DispatchUnrecorded(w) ==
    /\ pc[w] = "dispatch"
    /\ Fault
    /\ Reaches(w, Addressees(w))
    /\ Goto(w, "idle")
    /\ seen' = [seen EXCEPT ![w] = NoRoom]
    /\ UNCHANGED <<clock, seq, members, erased, last, current, events, polls, sent, lost>>

\* Completed, or released by a completed failure.
Acknowledge(w) ==
    /\ pc[w] \in {"sent", "refused"}
    /\ SetPush(w, IF pc[w] = "sent" THEN "done" ELSE "free")
    /\ Goto(w, "idle")
    /\ UNCHANGED <<clock, seq, members, erased, last, seen, current, polls, deliveries, faults>>

\* A database call fails: only before the dispatch is the claim given back.
PushFails(w) ==
    /\ pc[w] \in {"look", "sent", "refused"}
    /\ Fault
    /\ IF pc[w] = "look" THEN SetPush(w, "free") ELSE UNCHANGED events
    /\ Goto(w, "idle")
    /\ UNCHANGED <<clock, seq, members, erased, last, seen, current, polls, deliveries>>

\* The process dies: the claim stays (before it, nothing was written).
PushDies(w) ==
    /\ pc[w] \in {"look", "dispatch"}
    /\ Fault
    /\ Goto(w, "idle")
    /\ seen' = [seen EXCEPT ![w] = NoRoom]
    /\ UNCHANGED <<clock, seq, members, erased, last, current, events, polls, deliveries>>

-----------------------------------------------------------------------------
(* GET /rooms/:id/events, by one client per member.  A cursor or mark c stands
   for the sequence c - 1. *)

\* Without a cursor the history is skipped.
PollFirst(u) ==
    /\ cursor[u] = 0 /\ u \in members \intersect Pollers
    /\ cursor' = [cursor EXCEPT ![u] = seq + 1]
    /\ since' = [since EXCEPT ![u] = seq + 1]
    /\ UNCHANGED <<clock, seq, members, erased, last, events, handler, polling, heard, deliveries, faults>>

PollReads(u) ==
    /\ cursor[u] # 0 /\ polling[u] = 0 /\ u \in members
    /\ polling' = [polling EXCEPT ![u] = seq + 1]
    /\ UNCHANGED <<clock, seq, members, erased, last, events, handler, cursor, since, heard, deliveries,
                   faults>>

\* mutant: the rows are not limited to the mark that was read
WaitingAny(u) == {events[i].seq : i \in {j \in DOMAIN events :
                     /\ events[j].actor # u /\ events[j].actor \notin erased /\ Kept
                     /\ cursor[u] <= events[j].seq}}

\* Numbered events of others that are still there, after the cursor and up to the
\* mark that was read.
Waiting(u) == {events[i].seq : i \in {j \in DOMAIN events :
                  /\ events[j].actor # u /\ events[j].actor \notin erased /\ Kept
                  /\ cursor[u] <= events[j].seq /\ events[j].seq < polling[u]}}

\* A page of them: the lowest ones, as many as it holds, in ascending order.
Pages(u) ==
    {page \in UNION {[1..n -> Waiting(u) \ {0}] : n \in 0..PAGE} :
        /\ \A i, j \in DOMAIN page : i < j => page[i] < page[j]
        /\ \A s \in Waiting(u) \ ({0} \union Range(page)) : Len(page) = PAGE /\ page[PAGE] < s}

\* mutant: the cursor moves to the mark although more are waiting
PollRowsToMark(u) ==
    /\ polling[u] # 0
    /\ \E page \in Pages(u) : heard' = [heard EXCEPT ![u] = @ \o page]
    /\ cursor' = [cursor EXCEPT ![u] = polling[u]]
    /\ polling' = [polling EXCEPT ![u] = 0]
    /\ UNCHANGED <<clock, seq, members, erased, last, events, handler, since, deliveries, faults>>

\* The cursor moves behind the last row of the page when more are waiting, to
\* the mark that was read otherwise.
PollRows(u) ==
    /\ polling[u] # 0
    /\ \E page \in Pages(u) :
        LET more == Waiting(u) \ {0} # Range(page)
        IN  /\ heard' = [heard EXCEPT ![u] = @ \o page]
            /\ cursor' = [cursor EXCEPT ![u] = IF more THEN page[PAGE] + 1 ELSE polling[u]]
    /\ polling' = [polling EXCEPT ![u] = 0]
    /\ UNCHANGED <<clock, seq, members, erased, last, events, handler, since, deliveries, faults>>

-----------------------------------------------------------------------------
(* The rest of the room *)

\* A member leaves, where the mode allows it (a write of the room), ...
Departs(u) ==
    /\ u \in members
    /\ ~(Running /\ HardLock)
    /\ members' = members \ {u}
    /\ last' = [last EXCEPT ![u] = 0]
    /\ Advance
    /\ UNCHANGED <<clock, seq, erased, events, op, pc, polls, deliveries, faults>>

\* ... or an account is deleted, and with it the member and the events it reported;
\* with the host's the room goes and all that hangs on it.
AccountDeleted(u) ==
    /\ u \notin erased
    /\ members' = IF u = Host THEN {} ELSE members \ {u}
    /\ erased' = IF u = Host THEN Users ELSE erased \union {u}
    /\ last' = [x \in Users |-> IF x \in members' THEN last[x] ELSE 0]
    /\ IF u = Host THEN Advance ELSE UNCHANGED <<seen, current>>
    /\ UNCHANGED <<clock, seq, events, op, pc, polls, deliveries, faults>>

AlertTick ==
    /\ clock < AlertHorizon
    /\ clock' = clock + 1
    /\ UNCHANGED <<seq, members, erased, last, events, handler, polls, deliveries, faults>>

Reporting(w) ==
    \/ \E o \in Ops : Begin(w, o)
    \/ Record(w) \/ RecordKnown(w) \/ Lose(w)
    \/ ClaimPush(w) \/ LookAgain(w) \/ Dispatch(w) \/ DispatchUnrecorded(w)
    \/ Acknowledge(w) \/ PushFails(w) \/ PushDies(w)

AlertNext ==
    \/ \E w \in Workers : Reporting(w)
    \/ \E u \in Users : PollFirst(u) \/ PollReads(u) \/ PollRows(u)
                        \/ Departs(u) \/ AccountDeleted(u)
    \/ AlertTick

AlertSpec == AlertInit /\ [][AlertNext]_alertVars

-----------------------------------------------------------------------------
(* Properties *)

\* Whatever others did since a client's first poll and its cursor has passed was shown
\* to that client, once and in order, as long as events are kept at all: however many
\* pages it took and however polls and reports interleave, no number appears behind a
\* cursor.  What is lost is what expired, or went with an account, before it was read.
PollersMissNothing ==
    \A u \in Users :
        /\ \A i, j \in DOMAIN heard[u] : i < j => heard[u][i] < heard[u][j]
        /\ Kept => \A k \in DOMAIN events :
              (/\ events[k].actor # u /\ events[k].actor \notin erased
               /\ since[u] <= events[k].seq /\ events[k].seq < cursor[u])
                 => events[k].seq \in Range(heard[u])

\* The provider takes an event for a member at most once, through retried
\* reports, failures and crashes, but for an answer of the provider that was lost.
PushedOnce == \A p \in Addressed : pushed[p] <= 1 \/ p \in lost

=============================================================================
