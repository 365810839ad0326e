------------------------ MODULE BillingOutboxProofs -------------------------
(***************************************************************************)
(* Theorems about BillingOutbox, for any number of handlers, drains and    *)
(* faults, and any MAX_ATTEMPTS.                                           *)
(***************************************************************************)
EXTENDS BillingOutbox, TLAPS

USE DEF workerVars, outcome, debt, counters, Goto

-----------------------------------------------------------------------------
(* Type correctness: whoever attempts the task has a row under its feet. *)

Attempting == {"claim", "call", "confirmed", "refused"}

Rooted == \A w \in Workers : pc[w] \in Attempting => task.exists

RowInv == TypeOK /\ Rooted

LEMMA RowFacts ==
    /\ NoRow \in Rows
    /\ FreshRow \in Rows
    /\ ~NoRow.exists /\ ~NoRow.locked
    /\ FreshRow.exists /\ ~FreshRow.done /\ ~FreshRow.locked /\ ~FreshRow.stale
BY DEF Rows, NoRow, FreshRow

\* The three ways an attempt writes the row keep it well formed, and existing.
LEMMA WrittenRow ==
    ASSUME TypeOK, task.exists
    PROVE  /\ ~task.done => Claimed \in Rows /\ Claimed.exists
           /\ Settled \in Rows /\ Settled.exists
           /\ ~task.done /\ task.locked => [task EXCEPT !.stale = TRUE] \in Rows
           /\ [task EXCEPT !.due = TRUE] \in Rows
           /\ \A n \in Nat : [task EXCEPT !.attempts = n, !.locked = FALSE, !.stale = FALSE,
                                          !.due = FALSE] \in Rows
BY DEF TypeOK, Rows, Claimed, Settled

\* Leaving an attempt is well typed, and leaves nobody else anywhere new.
LEMMA LeaveType ==
    ASSUME TypeOK, NEW w \in Workers, Leave(w)
    PROVE  /\ pc' \in [Workers -> Places] /\ snap' \in [Workers -> Nat]
           /\ pc'[w] \in {"idle", "finish"}
           /\ \A v \in Workers \ {w} : pc'[v] = pc[v]
BY DEF TypeOK, Leave, Places

LEMMA RowStep == RowInv /\ [Next]_vars => RowInv'
<1> SUFFICES ASSUME RowInv, [Next]_vars PROVE RowInv'
    OBVIOUS
<1> USE RowFacts DEF RowInv, Rooted, Attempting
<1>1. ASSUME NEW w \in Workers, EnqueueReads(w) PROVE RowInv'
    BY <1>1 DEF TypeOK, EnqueueReads, Standing, Places
<1>2. ASSUME NEW w \in Workers, EnqueueWrites(w) PROVE RowInv'
    <2>1. task' \in {task, FreshRow} /\ pc' = [pc EXCEPT ![w] = "find"]
        BY <1>2 DEF EnqueueWrites
    <2>2. TypeOK'
        BY <1>2, <2>1 DEF TypeOK, EnqueueWrites, Accept, Crossing, Places
    <2> QED BY <2>1, <2>2 DEF TypeOK
<1>3. ASSUME NEW w \in Workers, EnqueueFails(w) PROVE RowInv'
    <2>1. found' \in [Callers -> {"unread", "none", "pending", "done"}]
        BY <1>3 DEF TypeOK, EnqueueFails
    <2>2. pc' \in [Workers -> Places] /\ faults' \in Nat
        BY <1>3 DEF TypeOK, EnqueueFails, Places
    <2>3. task' = task /\ \A v \in Workers : pc'[v] \in Attempting => pc[v] \in Attempting
        BY <1>3 DEF TypeOK, EnqueueFails
    <2> QED BY <1>3, <2>1, <2>2, <2>3 DEF TypeOK, EnqueueFails
<1>4. ASSUME NEW w \in Workers, InlineFinds(w) PROVE RowInv'
    <2>1. CASE Pending /\ snap' = [snap EXCEPT ![w] = task.attempts] /\ Goto(w, "claim")
        <3>1. task.attempts \in Nat /\ task.exists
            BY <2>1 DEF TypeOK, Rows, Pending
        <3> QED BY <1>4, <2>1, <3>1 DEF TypeOK, InlineFinds, Places
    <2>2. CASE Leave(w)
        BY <1>4, <2>2, LeaveType DEF TypeOK, InlineFinds
    <2> QED BY <1>4, <2>1, <2>2 DEF InlineFinds
<1>5. ASSUME NEW w \in Workers, Claim(w) PROVE RowInv'
    <2>1. CASE Claimable /\ task' = Claimed /\ pc' = [pc EXCEPT ![w] = "call"] /\ UNCHANGED snap
        BY <1>5, <2>1, WrittenRow DEF TypeOK, Claim, Claimable, Pending, Places
    <2>2. CASE Leave(w) /\ UNCHANGED task
        BY <1>5, <2>2 DEF TypeOK, Claim, Leave, Places
    <2> QED BY <1>5, <2>1, <2>2 DEF Claim
<1>6. ASSUME NEW w \in Workers, ProviderConfirms(w) \/ ProviderFails(w) PROVE RowInv'
    BY <1>6 DEF TypeOK, ProviderConfirms, ProviderFails, CancelledAtProvider, Places
<1>7. ASSUME NEW w \in Workers, Record(w) PROVE RowInv'
    <2>1. task.exists /\ snap[w] + 1 \in Nat
        BY <1>7 DEF Record, TypeOK
    <2>2. task' \in Rows /\ task'.exists
        <3>1. CASE task' = Settled
            BY <2>1, <3>1, WrittenRow
        <3>2. CASE task' = [task EXCEPT !.attempts = snap[w] + 1, !.locked = FALSE,
                                        !.stale = FALSE, !.due = FALSE]
            BY <2>1, <3>2, WrittenRow DEF TypeOK, Rows
        <3> QED BY <1>7, <3>1, <3>2 DEF Record
    <2>3. Leave(w)
        BY <1>7 DEF Record
    <2>4. pc' \in [Workers -> Places] /\ snap' \in [Workers -> Nat]
        BY <2>3, LeaveType
    <2>5. UNCHANGED <<sub, found, recorded, outcome, debt, disturbed, counters>>
        BY <1>7 DEF Record
    <2>6. TypeOK'
        BY <2>2, <2>4, <2>5 DEF TypeOK
    <2> QED BY <2>2, <2>6
<1>8. ASSUME NEW w \in Workers, RecordFails(w) \/ InlineFails(w) \/ DrainCrashes(w) PROVE RowInv'
    BY <1>8 DEF TypeOK, RecordFails, InlineFails, DrainCrashes, Leave, Places
<1>9. ASSUME NEW w \in Workers, SelfDelete(w) \/ AdminDelete(w) \/ LifetimeGranted(w)
      PROVE  RowInv'
    BY <1>9 DEF TypeOK, SelfDelete, AdminDelete, LifetimeGranted, Places
<1>10. ASSUME NEW w \in Workers, AdminCalls(w) PROVE RowInv'
    BY <1>10 DEF TypeOK, AdminCalls, CancelledAtProvider, Places
<1>11. ASSUME NEW w \in Workers, AdminRevokes(w) \/ AdminQueues(w) PROVE RowInv'
    BY <1>11 DEF TypeOK, AdminRevokes, AdminQueues, Accept, Crossing, Places
<1>12. ASSUME NEW w \in Workers, DrainLists(w) PROVE RowInv'
    BY <1>12 DEF TypeOK, DrainLists, Claimable, Pending, Rows, Places
<1>13. ASSUME NEW w \in Workers, HandlerCrashes(w) PROVE RowInv'
    BY <1>13 DEF TypeOK, HandlerCrashes, Places
<1>14. CASE Replay
    BY <1>14 DEF TypeOK, Replay
<1>15. CASE LockGoesStale \/ BackoffElapses
    <2>1. task' \in Rows /\ task'.exists
        BY <1>15, WrittenRow DEF TypeOK, LockGoesStale, BackoffElapses, Pending, Rows
    <2> QED BY <1>15, <2>1 DEF TypeOK, LockGoesStale, BackoffElapses
<1>16. CASE Resume
    BY <1>16 DEF TypeOK, Resume
<1>17. CASE UNCHANGED vars
    BY <1>17 DEF TypeOK, vars
<1> QED
    BY <1>1, <1>2, <1>3, <1>4, <1>5, <1>6, <1>7, <1>8, <1>9, <1>10, <1>11, <1>12, <1>13, <1>14,
       <1>15, <1>16, <1>17 DEF Next, Attempt, Handler, Drain

LEMMA InitRow == Init => RowInv
<1> SUFFICES ASSUME Init PROVE RowInv
    OBVIOUS
<1>1. /\ pc \in [Workers -> Places] /\ \A w \in Workers : pc[w] = "idle"
      /\ found \in [Callers -> {"unread", "none", "pending", "done"}]
      /\ snap \in [Workers -> Nat] /\ recorded \in [Callers -> BOOLEAN]
    BY DEF Init, Places
<1> QED BY <1>1, RowFacts DEF Init, RowInv, Rooted, Attempting, TypeOK

\* The variables of the outbox keep their types, and the row its shape: a settled
\* row is unclaimed, an absent one is nobody's.
THEOREM TypeCorrect == Spec => []TypeOK
<1>1. Init => RowInv
    BY InitRow
<1>2. RowInv /\ [Next]_vars => RowInv'
    BY RowStep
<1> QED BY <1>1, <1>2, PTL DEF Spec, RowInv

-----------------------------------------------------------------------------
(* Deletion *)

\* What enqueueCancel reported is what the row says, and rows are never removed.
Recorded == /\ \A w \in Callers : recorded[w] => task.exists
            /\ LeavingMeansRecorded

LEMMA RowsAreNeverRemoved == RowInv /\ [Next]_vars => (task.exists => task'.exists)
<1> SUFFICES ASSUME RowInv, [Next]_vars, task.exists PROVE task'.exists
    OBVIOUS
<1>1. task' \in {task, FreshRow, Claimed, Settled,
                 [task EXCEPT !.stale = TRUE], [task EXCEPT !.due = TRUE]}
          \union {[task EXCEPT !.attempts = snap[w] + 1, !.locked = FALSE, !.stale = FALSE,
                                !.due = FALSE] : w \in Workers}
    BY DEF Next, Attempt, Handler, Drain, vars, EnqueueReads, EnqueueWrites, EnqueueFails,
       InlineFinds, InlineFails, Claim, ProviderConfirms, ProviderFails, Record, RecordFails,
       SelfDelete, AdminDelete, LifetimeGranted, AdminCalls, AdminRevokes, AdminQueues,
       DrainLists, DrainCrashes, HandlerCrashes, Replay, LockGoesStale, BackoffElapses, Resume
<1> QED BY <1>1, RowFacts DEF RowInv, TypeOK, Rows, Claimed, Settled

\* A caller about to write has read the row, and a row it has seen is still there.
Readings ==
    \A w \in Workers : pc[w] = "write" =>
        /\ w \in Callers
        /\ found[w] # "unread"
        /\ found[w] = "pending" => task.exists

\* Only a reading brings a caller to the write, which then keeps what it read.
LEMMA WritersHaveRead ==
    ASSUME RowInv, [Next]_vars, NEW v \in Workers, pc'[v] = "write", ~EnqueueReads(v)
    PROVE  pc[v] = "write" /\ found'[v] = found[v]
<1> USE DEF RowInv, TypeOK
<1>1. ASSUME NEW w \in Workers, Attempt(w) \/ Drain(w) PROVE pc[v] = "write" /\ found' = found
    BY <1>1 DEF Attempt, Drain, Claim, ProviderConfirms, ProviderFails, Record, RecordFails,
       DrainLists, DrainCrashes, Leave
<1>2. ASSUME NEW w \in Workers, EnqueueReads(w) \/ EnqueueWrites(w) \/ EnqueueFails(w)
      PROVE  pc[v] = "write" /\ found'[v] = found[v]
    <2>1. w # v
        <3>1. CASE EnqueueReads(w)
            BY <3>1
        <3>2. CASE EnqueueWrites(w) \/ EnqueueFails(w)
            BY <3>2 DEF EnqueueWrites, EnqueueFails
        <3> QED BY <1>2, <3>1, <3>2
    <2>2. PICK p, f : pc' = [pc EXCEPT ![w] = p] /\ found' = [found EXCEPT ![w] = f]
        BY <1>2 DEF EnqueueReads, EnqueueWrites, EnqueueFails
    <2>3. pc'[v] = pc[v]
        BY <2>1, <2>2
    <2>4. found'[v] = found[v]
        BY <2>1, <2>2
    <2> QED BY <2>3, <2>4
<1>3. ASSUME NEW w \in Workers,
             InlineFinds(w) \/ InlineFails(w) \/ SelfDelete(w) \/ AdminDelete(w)
                 \/ LifetimeGranted(w) \/ AdminCalls(w) \/ AdminRevokes(w) \/ AdminQueues(w)
                 \/ HandlerCrashes(w)
      PROVE  pc[v] = "write" /\ found' = found
    BY <1>3 DEF InlineFinds, InlineFails, SelfDelete, AdminDelete, LifetimeGranted, AdminCalls,
       AdminRevokes, AdminQueues, HandlerCrashes, Leave
<1>4. CASE Replay \/ LockGoesStale \/ BackoffElapses \/ Resume \/ UNCHANGED vars
    BY <1>4 DEF Replay, LockGoesStale, BackoffElapses, Resume, vars
<1> QED BY <1>1, <1>2, <1>3, <1>4 DEF Next, Handler

LEMMA ReadingsStep == RowInv /\ Readings /\ [Next]_vars => Readings'
<1> SUFFICES ASSUME RowInv, Readings, [Next]_vars, NEW v \in Workers, pc'[v] = "write"
             PROVE  v \in Callers /\ found'[v] # "unread" /\ (found'[v] = "pending" => task'.exists)
    BY DEF Readings
<1>1. CASE EnqueueReads(v)
    <2>1. v \in Callers /\ found' = [found EXCEPT ![v] = Standing] /\ task' = task
        BY <1>1 DEF EnqueueReads
    <2>2. Standing # "unread" /\ (Standing = "pending" => task.exists)
        BY DEF Standing
    <2>3. found'[v] = Standing
        BY <2>1 DEF RowInv, TypeOK
    <2> QED BY <2>1, <2>2, <2>3
<1>2. CASE ~EnqueueReads(v)
    BY <1>2, WritersHaveRead, RowsAreNeverRemoved DEF Readings
<1> QED BY <1>1, <1>2

LEMMA RecordedStep ==
    ASSUME RowInv, Readings, Recorded, [Next]_vars
    PROVE  Recorded'
<1> USE RowsAreNeverRemoved DEF Recorded, LeavingMeansRecorded
<1>1. ASSUME NEW w \in Workers, EnqueueWrites(w) PROVE Recorded'
    <2>1. recorded' = [recorded EXCEPT ![w] = TRUE] /\ account' = account
        BY <1>1 DEF EnqueueWrites
    <2>2. pc[w] = "write" /\ (w \in Callers => task'.exists)
        <3>1. pc[w] = "write" /\ task' \in {task, FreshRow}
            BY <1>1 DEF EnqueueWrites
        <3>2. CASE w \in Callers /\ task' = task /\ ~task.exists
            <4>1. found[w] \in {"none", "done"}
                BY <3>1, <3>2 DEF Readings, RowInv, TypeOK
            <4>2. task' = FreshRow
                <5>1. task' = IF found[w] = "done" \/ (found[w] = "none" /\ ~task.exists)
                              THEN FreshRow ELSE task
                    BY <1>1 DEF EnqueueWrites
                <5> QED BY <3>2, <4>1, <5>1
            <4> QED BY <3>1, <4>2, RowFacts
        <3> QED BY <3>1, <3>2, RowFacts
    <2> QED BY <2>1, <2>2 DEF RowInv, TypeOK
<1>2. ASSUME NEW w \in Workers, SelfDelete(w) PROVE Recorded'
    BY <1>2 DEF SelfDelete, Callers, RowInv, TypeOK
<1>3. CASE recorded' = recorded /\ account' \in {account, "removed"}
    BY <1>3
<1> QED
    BY <1>1, <1>2, <1>3 DEF Next, Attempt, Handler, Drain, vars, EnqueueReads, EnqueueFails,
       InlineFinds, InlineFails, Claim, ProviderConfirms, ProviderFails, Record, RecordFails,
       AdminDelete, LifetimeGranted, AdminCalls, AdminRevokes, AdminQueues,
       DrainLists, DrainCrashes, HandlerCrashes, Replay, LockGoesStale, BackoffElapses, Resume

\* An account its owner deletes goes only after its cancellation is on record:
\* DELETE /api/me stops when enqueueCancel reports a failure.
THEOREM LeavingIsRecorded == Spec => []LeavingMeansRecorded
<1>1. Init => RowInv /\ Readings /\ Recorded
    BY InitRow DEF Init, Readings, Recorded, LeavingMeansRecorded
<1>2. RowInv /\ Readings /\ Recorded /\ [Next]_vars => (RowInv /\ Readings /\ Recorded)'
    BY RowStep, ReadingsStep, RecordedStep
<1> QED BY <1>1, <1>2, PTL DEF Spec, Recorded

-----------------------------------------------------------------------------
(* Nothing is lost *)

\* An instruction is owed only of a live subscription; and one that did not cross
\* has its task, with no confirmation left that could settle it.
Honest ==
    /\ owed => sub = "live"
    /\ owed /\ ~crossed => Pending /\ \A w \in Workers : pc[w] # "confirmed"

\* A step that brings nobody a confirmation and settles nothing keeps what is owed.
LEMMA HonestAround ==
    ASSUME Honest, UNCHANGED <<sub, debt>>, Pending => Pending',
           \A w \in Workers : pc'[w] = "confirmed" => pc[w] = "confirmed"
    PROVE  Honest'
BY DEF Honest

LEMMA HonestStep ==
    ASSUME RowInv, Readings, Honest, [Next]_vars
    PROVE  Honest'
<1>1. ASSUME NEW v \in Workers, EnqueueWrites(v) PROVE Honest'
    <2>1. /\ task' = IF found[v] = "done" \/ (found[v] = "none" /\ ~task.exists)
                     THEN FreshRow ELSE task
          /\ owed' = (owed \/ sub = "live") /\ sub' = sub
          /\ crossed' = IF sub = "live" THEN Crossing(v) ELSE crossed
          /\ pc[v] = "write" /\ pc' = [pc EXCEPT ![v] = "find"]
        BY <1>1 DEF EnqueueWrites, Accept
    <2>2. v \in Callers /\ found[v] \in {"none", "pending", "done"}
          /\ (found[v] = "pending" => task.exists)
        BY <2>1 DEF Readings, RowInv, TypeOK
    <2>3. ASSUME owed', ~crossed' PROVE Pending' /\ \A w \in Workers : pc'[w] # "confirmed"
        <3>1. sub = "live"
            BY <2>1, <2>3 DEF Honest
        <3>2. /\ \A w \in Workers : pc[w] # "confirmed"
              /\ found[v] \in {"none", "pending"} => ~task.done
            BY <2>1, <2>2, <2>3, <3>1 DEF Crossing
        <3>3. CASE task' = FreshRow
            BY <2>1, <3>2, <3>3, RowFacts DEF Pending, RowInv, TypeOK
        <3>4. CASE task' = task /\ found[v] # "done" /\ task.exists
            BY <2>1, <2>2, <3>2, <3>4 DEF Pending, RowInv, TypeOK
        <3> QED BY <2>1, <2>2, <3>3, <3>4
    <2> QED BY <2>1, <2>3 DEF Honest
<1>2. ASSUME NEW v \in Workers, AdminQueues(v) PROVE Honest'
    <2>1. /\ task' = IF Pending THEN task ELSE FreshRow
          /\ owed' = (owed \/ sub = "live") /\ sub' = sub
          /\ crossed' = IF sub = "live" THEN Crossing(v) ELSE crossed
          /\ pc' = [pc EXCEPT ![v] = "done"]
        BY <1>2 DEF AdminQueues, Accept
    <2>2. Pending'
        BY <2>1, RowFacts DEF Pending
    <2>3. ASSUME owed', ~crossed' PROVE \A w \in Workers : pc'[w] # "confirmed"
        <3>1. sub = "live"
            BY <2>1, <2>3 DEF Honest
        <3> QED BY <2>1, <2>3, <3>1 DEF Crossing, RowInv, TypeOK
    <2> QED BY <2>1, <2>2, <2>3 DEF Honest
<1>3. ASSUME NEW v \in Workers, ProviderConfirms(v) \/ ProviderFails(v) \/ AdminCalls(v)
      PROVE  Honest'
    <2>1. /\ UNCHANGED task
          /\ \/ sub' = "cancelled" /\ owed' = FALSE
             \/ /\ UNCHANGED <<sub, debt>>
                /\ \E p \in {"refused", "queue", "done"} : pc' = [pc EXCEPT ![v] = p]
        BY <1>3 DEF ProviderConfirms, ProviderFails, AdminCalls, CancelledAtProvider
    <2>2. CASE sub' = "cancelled" /\ owed' = FALSE
        BY <2>2 DEF Honest
    <2>3. CASE UNCHANGED <<sub, debt>> /\ \E p \in {"refused", "queue", "done"} : pc' = [pc EXCEPT ![v] = p]
        BY <2>1, <2>3, HonestAround DEF Pending, RowInv, TypeOK
    <2> QED BY <2>1, <2>2, <2>3
<1>4. ASSUME NEW v \in Workers, Record(v) PROVE Honest'
    <2>1. UNCHANGED <<sub, debt>> /\ Leave(v)
        BY <1>4 DEF Record
    <2>2. \A w \in Workers : pc'[w] = "confirmed" => pc[w] = "confirmed"
        BY <2>1, LeaveType DEF RowInv
    <2>3. CASE pc[v] = "confirmed"
        BY <2>1, <2>3 DEF Honest
    <2>4. CASE pc[v] = "refused"
        <3>1. task'.exists = task.exists /\ task'.done = task.done
            BY <1>4, <2>4 DEF Record, RowInv, TypeOK, Rows
        <3> QED BY <2>1, <2>2, <3>1, HonestAround DEF Pending
    <2> QED BY <1>4, <2>3, <2>4 DEF Record
<1>5. ASSUME NEW v \in Workers, Claim(v) PROVE Honest'
    <2>1. UNCHANGED <<sub, debt>> /\ task' \in {task, Claimed}
        BY <1>5 DEF Claim
    <2>2. Pending => Pending'
        BY <2>1 DEF Pending, Claimed, RowInv, TypeOK, Rows
    <2>3. PICK p \in {"call", "idle", "finish"} : pc' = [pc EXCEPT ![v] = p]
        BY <1>5 DEF Claim, Leave
    <2> QED BY <2>1, <2>2, <2>3, HonestAround DEF RowInv, TypeOK
<1>6. ASSUME NEW v \in Workers,
             EnqueueReads(v) \/ EnqueueFails(v) \/ InlineFinds(v) \/ InlineFails(v) \/ RecordFails(v)
                 \/ DrainLists(v) \/ DrainCrashes(v) \/ HandlerCrashes(v) \/ SelfDelete(v)
                 \/ AdminDelete(v) \/ LifetimeGranted(v) \/ AdminRevokes(v)
      PROVE  Honest'
    <2>1. UNCHANGED <<task, sub, debt>>
        BY <1>6 DEF EnqueueReads, EnqueueFails, InlineFinds, InlineFails, RecordFails, DrainLists,
           DrainCrashes, HandlerCrashes, SelfDelete, AdminDelete, LifetimeGranted, AdminRevokes
    <2>2. PICK p \in Places \ {"confirmed"} : pc' = [pc EXCEPT ![v] = p]
        BY <1>6 DEF EnqueueReads, EnqueueFails, InlineFinds, InlineFails, RecordFails, DrainLists,
           DrainCrashes, HandlerCrashes, SelfDelete, AdminDelete, LifetimeGranted, AdminRevokes,
           Leave, Places
    <2> QED BY <2>1, <2>2, HonestAround DEF Pending, RowInv, TypeOK
<1>7. CASE Replay \/ LockGoesStale \/ BackoffElapses \/ UNCHANGED vars
    <2>1. UNCHANGED <<sub, debt, pc>>
        BY <1>7 DEF Replay, LockGoesStale, BackoffElapses, vars
    <2>2. Pending => Pending'
        BY <1>7, RowFacts DEF Replay, LockGoesStale, BackoffElapses, vars, Pending, RowInv, TypeOK,
           Rows
    <2> QED BY <2>1, <2>2, HonestAround
<1>8. CASE Resume
    <2>1. sub = "cancelled" /\ UNCHANGED debt
        BY <1>8 DEF Resume
    <2> QED BY <2>1 DEF Honest
<1> QED
    BY <1>1, <1>2, <1>3, <1>4, <1>5, <1>6, <1>7, <1>8 DEF Next, Attempt, Handler, Drain

\* "Never lose the instruction": whatever crashes, fails or interleaves, and whenever
\* the customer resumes, an accepted cancellation the provider has not answered is
\* pending in the outbox, unless it crossed with a confirmation (runCancel) or a reading
\* (enqueueCancel) from before the resumption.
THEOREM InstructionsAreNeverLost == Spec => []NeverLost
<1>1. Init => RowInv /\ Readings /\ Honest
    BY InitRow DEF Init, Readings, Honest
<1>2. RowInv /\ Readings /\ Honest /\ [Next]_vars => (RowInv /\ Readings /\ Honest)'
    BY RowStep, ReadingsStep, HonestStep
<1>3. Honest => NeverLost
    BY DEF Honest, NeverLost
<1> QED BY <1>1, <1>2, <1>3, PTL DEF Spec

-----------------------------------------------------------------------------
(* Attempts do not overlap *)

\* As long as no claim went stale or was swept away, an attempt in flight holds
\* the claim, and it is the only one.
Undisturbed ==
    ~disturbed => /\ ~task.stale
                  /\ \A w \in InFlight : task.locked
                  /\ \A v, w \in InFlight : v = w

\* A step that starts no attempt and takes no claim away keeps attempts apart.
LEMMA UndisturbedAround ==
    ASSUME Undisturbed, InFlight' \subseteq InFlight, ~disturbed' => ~disturbed,
           ~disturbed' /\ ~task.stale => ~task'.stale,
           ~disturbed' /\ InFlight' # {} /\ task.locked => task'.locked
    PROVE  Undisturbed'
BY DEF Undisturbed

LEMMA UndisturbedStep == RowInv /\ Undisturbed /\ [Next]_vars => Undisturbed'
<1> SUFFICES ASSUME RowInv, Undisturbed, [Next]_vars PROVE Undisturbed'
    OBVIOUS
<1>1. ASSUME NEW v \in Workers, Claim(v) PROVE Undisturbed'
    <2>1. CASE Claimable /\ task' = Claimed /\ pc' = [pc EXCEPT ![v] = "call"]
        <3>1. disturbed' = disturbed
            BY <1>1 DEF Claim
        <3>2. task'.locked /\ ~task'.stale
            BY <2>1 DEF Claimed, RowInv, TypeOK, Rows
        <3>3. ~disturbed => InFlight = {}
            BY <2>1 DEF Claimable, Undisturbed
        <3>4. InFlight' = InFlight \union {v}
            BY <2>1 DEF InFlight, RowInv, TypeOK
        <3> QED BY <3>1, <3>2, <3>3, <3>4 DEF Undisturbed
    <2>2. CASE Leave(v) /\ UNCHANGED task
        <3>1. InFlight' \subseteq InFlight /\ disturbed' = disturbed
            BY <1>1, <2>2, LeaveType DEF Claim, InFlight, RowInv
        <3> QED BY <2>2, <3>1, UndisturbedAround
    <2> QED BY <1>1, <2>1, <2>2 DEF Claim
<1>2. ASSUME NEW v \in Workers, Record(v) PROVE Undisturbed'
    <2>1. InFlight' = InFlight \ {v} /\ v \in InFlight /\ disturbed' = disturbed
        BY <1>2, LeaveType DEF Record, InFlight, RowInv, TypeOK
    <2>2. ~task'.stale
        BY <1>2 DEF Record, Settled, RowInv, TypeOK, Rows
    <2>3. ~disturbed' => InFlight' = {}
        BY <2>1 DEF Undisturbed
    <2> QED BY <2>2, <2>3 DEF Undisturbed
<1>3. ASSUME NEW v \in Workers, EnqueueWrites(v) PROVE Undisturbed'
    <2>1. /\ task' \in {task, FreshRow}
          /\ disturbed' = (disturbed \/ (task.locked /\ ~task'.locked))
          /\ pc' = [pc EXCEPT ![v] = "find"]
        BY <1>3 DEF EnqueueWrites
    <2>2. InFlight' \subseteq InFlight
        BY <2>1 DEF InFlight, RowInv, TypeOK
    <2> QED BY <2>1, <2>2, RowFacts, UndisturbedAround
<1>4. ASSUME NEW v \in Workers, AdminQueues(v) PROVE Undisturbed'
    <2>1. /\ task' = task \/ (~Pending /\ task' = FreshRow)
          /\ disturbed' = disturbed
          /\ pc' = [pc EXCEPT ![v] = "done"]
        BY <1>4 DEF AdminQueues
    <2>2. InFlight' \subseteq InFlight
        BY <2>1 DEF InFlight, RowInv, TypeOK
    <2>3. task.locked => Pending
        BY DEF RowInv, TypeOK, Rows, Pending
    <2> QED BY <2>1, <2>2, <2>3, RowFacts, UndisturbedAround
<1>5. CASE Replay
    <2>1. /\ task' = FreshRow /\ disturbed' = (disturbed \/ task.locked)
          /\ InFlight' = InFlight
        BY <1>5 DEF Replay, InFlight
    <2> QED BY <2>1, RowFacts, UndisturbedAround
<1>6. CASE LockGoesStale
    BY <1>6 DEF LockGoesStale, Undisturbed
<1>7. CASE BackoffElapses \/ Resume \/ UNCHANGED vars
    <2>1. InFlight' = InFlight /\ disturbed' = disturbed
        BY <1>7 DEF BackoffElapses, Resume, vars, InFlight
    <2>2. task'.locked = task.locked /\ task'.stale = task.stale
        BY <1>7 DEF BackoffElapses, Resume, vars, RowInv, TypeOK, Rows
    <2> QED BY <2>1, <2>2, UndisturbedAround
<1>8. ASSUME NEW v \in Workers, ProviderConfirms(v) \/ ProviderFails(v) PROVE Undisturbed'
    <2>1. /\ UNCHANGED <<task, disturbed>> /\ pc[v] = "call"
          /\ \E p \in {"confirmed", "refused"} : pc' = [pc EXCEPT ![v] = p]
        BY <1>8 DEF ProviderConfirms, ProviderFails
    <2>2. InFlight' \subseteq InFlight
        BY <2>1 DEF InFlight, RowInv, TypeOK
    <2> QED BY <2>1, <2>2, UndisturbedAround
<1>9. ASSUME NEW v \in Workers,
             EnqueueReads(v) \/ EnqueueFails(v) \/ InlineFinds(v) \/ InlineFails(v)
                 \/ RecordFails(v) \/ DrainLists(v) \/ DrainCrashes(v) \/ HandlerCrashes(v)
                 \/ SelfDelete(v) \/ AdminDelete(v) \/ LifetimeGranted(v) \/ AdminCalls(v)
                 \/ AdminRevokes(v)
      PROVE  Undisturbed'
    <2>1. UNCHANGED <<task, disturbed>>
        BY <1>9 DEF EnqueueReads, EnqueueFails, InlineFinds, InlineFails, RecordFails, DrainLists,
           DrainCrashes, HandlerCrashes, SelfDelete, AdminDelete, LifetimeGranted, AdminCalls,
           AdminRevokes
    <2>2. PICK p \in Places \ {"call", "confirmed", "refused"} : pc' = [pc EXCEPT ![v] = p]
        BY <1>9 DEF EnqueueReads, EnqueueFails, InlineFinds, InlineFails, RecordFails, DrainLists,
           DrainCrashes, HandlerCrashes, SelfDelete, AdminDelete, LifetimeGranted, AdminCalls,
           AdminRevokes, Leave, Places
    <2>3. InFlight' \subseteq InFlight
        BY <2>2 DEF InFlight, RowInv, TypeOK
    <2> QED BY <2>1, <2>3, UndisturbedAround
<1> QED
    BY <1>1, <1>2, <1>3, <1>4, <1>5, <1>6, <1>7, <1>8, <1>9 DEF Next, Attempt, Handler, Drain

\* The claim keeps attempts apart, callers' and drains' alike, until one goes
\* stale or is swept away.
THEOREM AttemptsAreAlone == Spec => []AttemptsDoNotOverlap
<1>1. Init => RowInv /\ Undisturbed
    BY InitRow DEF Init, Undisturbed, InFlight, NoRow
<1>2. RowInv /\ Undisturbed /\ [Next]_vars => (RowInv /\ Undisturbed)'
    BY RowStep, UndisturbedStep
<1>3. Undisturbed => AttemptsDoNotOverlap
    BY DEF Undisturbed, AttemptsDoNotOverlap
<1> QED BY <1>1, <1>2, <1>3, PTL DEF Spec

-----------------------------------------------------------------------------
(* Whoever is cut off is being stopped *)

\* Until the customer takes the subscription up again, what the provider confirmed
\* stays true, to the attempt and to the console alike; and a trial cut off
\* without a confirmation has the task that will stop it.
Stopping ==
    resumes = 0 => /\ \A w \in Workers : pc[w] \in {"confirmed", "revoke"} => sub = "cancelled"
                   /\ revoked => Pending \/ sub = "cancelled"

\* A step that brings nobody a confirmation, cuts nobody off and settles nothing
\* leaves what was promised as it was.
LEMMA StoppingAround ==
    ASSUME Stopping, UNCHANGED <<sub, revoked>>, resumes' = 0 => resumes = 0,
           Pending => Pending',
           \A w \in Workers : pc'[w] \in {"confirmed", "revoke"} => pc[w] \in {"confirmed", "revoke"}
    PROVE  Stopping'
BY DEF Stopping

LEMMA StoppingStep == RowInv /\ Stopping /\ [Next]_vars => Stopping'
<1> SUFFICES ASSUME RowInv, Stopping, [Next]_vars PROVE Stopping'
    OBVIOUS
<1>1. ASSUME NEW v \in Workers, ProviderConfirms(v) \/ ProviderFails(v) PROVE Stopping'
    <2>1. \/ sub' = "cancelled"
          \/ UNCHANGED sub /\ pc' = [pc EXCEPT ![v] = "refused"]
        BY <1>1 DEF ProviderConfirms, ProviderFails, CancelledAtProvider
    <2>2. UNCHANGED <<task, revoked, resumes>>
        BY <1>1 DEF ProviderConfirms, ProviderFails
    <2> QED BY <2>1, <2>2 DEF Stopping, Pending, RowInv, TypeOK
<1>2. ASSUME NEW v \in Workers, AdminCalls(v) PROVE Stopping'
    <2>1. \/ sub' = "cancelled"
          \/ /\ UNCHANGED sub
             /\ \E p \in {"queue", "done"} : pc' = [pc EXCEPT ![v] = p]
        BY <1>2 DEF AdminCalls, CancelledAtProvider
    <2>2. UNCHANGED <<task, revoked, resumes>>
        BY <1>2 DEF AdminCalls
    <2> QED BY <2>1, <2>2 DEF Stopping, Pending, RowInv, TypeOK
<1>3. ASSUME NEW v \in Workers, AdminRevokes(v) PROVE Stopping'
    <2>1. /\ pc[v] = "revoke" /\ pc' = [pc EXCEPT ![v] = "done"]
          /\ UNCHANGED <<task, sub, resumes>>
        BY <1>3 DEF AdminRevokes
    <2> QED BY <2>1 DEF Stopping, RowInv, TypeOK
<1>4. ASSUME NEW v \in Workers, AdminQueues(v) PROVE Stopping'
    <2>1. /\ task' = IF Pending THEN task ELSE FreshRow
          /\ pc' = [pc EXCEPT ![v] = "done"] /\ UNCHANGED <<sub, resumes>>
        BY <1>4 DEF AdminQueues
    <2>2. Pending'
        BY <2>1, RowFacts DEF Pending
    <2> QED BY <2>1, <2>2 DEF Stopping, RowInv, TypeOK
<1>5. ASSUME NEW v \in Workers, Record(v) PROVE Stopping'
    <2>1. /\ UNCHANGED <<sub, revoked, resumes>> /\ Leave(v)
        BY <1>5 DEF Record
    <2>2. \A w \in Workers : pc'[w] \in {"confirmed", "revoke"} => pc[w] \in {"confirmed", "revoke"}
        BY <2>1, LeaveType DEF RowInv
    <2>3. CASE pc[v] = "confirmed"
        BY <2>1, <2>2, <2>3 DEF Stopping
    <2>4. CASE pc[v] = "refused"
        <3>1. task'.exists = task.exists /\ task'.done = task.done
            BY <1>5, <2>4 DEF Record, RowInv, TypeOK, Rows
        <3> QED BY <2>1, <2>2, <3>1, StoppingAround DEF Pending
    <2> QED BY <1>5, <2>3, <2>4 DEF Record
<1>6. ASSUME NEW v \in Workers, EnqueueWrites(v) PROVE Stopping'
    <2>1. /\ task' \in {task, FreshRow} /\ pc' = [pc EXCEPT ![v] = "find"]
          /\ UNCHANGED <<sub, revoked, resumes>>
        BY <1>6 DEF EnqueueWrites
    <2>2. Pending => Pending'
        BY <2>1, RowFacts DEF Pending
    <2> QED BY <2>1, <2>2, StoppingAround DEF RowInv, TypeOK
<1>7. ASSUME NEW v \in Workers, Claim(v) PROVE Stopping'
    <2>1. UNCHANGED <<sub, revoked, resumes>> /\ task' \in {task, Claimed}
        BY <1>7 DEF Claim
    <2>2. PICK p \in {"call", "idle", "finish"} : pc' = [pc EXCEPT ![v] = p]
        BY <1>7 DEF Claim, Leave
    <2>3. Pending => Pending'
        BY <2>1 DEF Pending, Claimed, RowInv, TypeOK, Rows
    <2> QED BY <2>1, <2>2, <2>3, StoppingAround DEF RowInv, TypeOK
<1>8. ASSUME NEW v \in Workers,
             EnqueueReads(v) \/ EnqueueFails(v) \/ InlineFinds(v) \/ InlineFails(v)
                 \/ RecordFails(v) \/ DrainLists(v) \/ DrainCrashes(v) \/ HandlerCrashes(v)
                 \/ SelfDelete(v) \/ AdminDelete(v) \/ LifetimeGranted(v)
      PROVE  Stopping'
    <2>1. UNCHANGED <<task, sub, revoked, resumes>>
        BY <1>8 DEF EnqueueReads, EnqueueFails, InlineFinds, InlineFails, RecordFails, DrainLists,
           DrainCrashes, HandlerCrashes, SelfDelete, AdminDelete, LifetimeGranted
    <2>2. PICK p \in Places \ {"confirmed", "revoke"} : pc' = [pc EXCEPT ![v] = p]
        BY <1>8 DEF EnqueueReads, EnqueueFails, InlineFinds, InlineFails, RecordFails, DrainLists,
           DrainCrashes, HandlerCrashes, SelfDelete, AdminDelete, LifetimeGranted, Leave, Places
    <2> QED BY <2>1, <2>2, StoppingAround DEF Pending, RowInv, TypeOK
<1>9. CASE Replay \/ LockGoesStale \/ BackoffElapses \/ UNCHANGED vars
    <2>1. UNCHANGED <<sub, revoked, resumes, pc>>
        BY <1>9 DEF Replay, LockGoesStale, BackoffElapses, vars
    <2>2. Pending => Pending'
        BY <1>9, RowFacts DEF Replay, LockGoesStale, BackoffElapses, vars, Pending, RowInv, TypeOK,
           Rows
    <2> QED BY <2>1, <2>2, StoppingAround
<1>10. CASE Resume
    BY <1>10 DEF Resume, Stopping, RowInv, TypeOK
<1> QED
    BY <1>1, <1>2, <1>3, <1>4, <1>5, <1>6, <1>7, <1>8, <1>9, <1>10
    DEF Next, Attempt, Handler, Drain

\* A trial the console cut off is cancelled at the provider or has a pending task
\* that says it must be, until the customer takes the subscription up again.
THEOREM CutOffMeansStopping == Spec => []RevokedMeansStopping
<1>1. Init => RowInv /\ Stopping
    BY InitRow DEF Init, Stopping
<1>2. RowInv /\ Stopping /\ [Next]_vars => (RowInv /\ Stopping)'
    BY RowStep, StoppingStep
<1>3. Stopping => RevokedMeansStopping
    BY DEF Stopping, RevokedMeansStopping
<1> QED BY <1>1, <1>2, <1>3, PTL DEF Spec
=============================================================================
