--------------------------- MODULE BillingOutbox ----------------------------
(***************************************************************************)
(* The outbox of cancellations owed to Lemon Squeezy, for one              *)
(* subscription: its BillingTask row (unique on the provider's id), the    *)
(* handlers that write the instruction down and try it at once (account    *)
(* deletion, console deletion, a lifetime purchase), the console's direct  *)
(* cancel with its queued fallback, the scheduled drains, the operator's   *)
(* replay, and the subscription as Lemon Squeezy knows it.                 *)
(*                                                                         *)
(* A claim goes stale when its holder stalls past LOCK_TTL_MS; the model   *)
(* lets any claim do so, since nothing bounds how long a process may stop  *)
(* between its claim and its last write.                                   *)
(***************************************************************************)
EXTENDS Naturals, FiniteSets

CONSTANTS
    SelfDeletes,    \* runs of DELETE /api/me
    AdminDeletes,   \* runs of DELETE /admin/users/:id
    LifetimeBuys,   \* first recordings of a lifetime order
    AdminCancels,   \* runs of POST /admin/users/:id/cancel-subscription
    Drains,         \* processes that run drainCancels, over and over
    MAX_ATTEMPTS,
    MaxHandlers,    \* bound on the handlers that run in one behaviour
    MaxResumes,     \* bound on resumptions in the customer portal
    MaxReplays,     \* bound on operator replays
    MaxFaults       \* bound on crashes and failed database calls

Callers == SelfDeletes \union AdminDeletes \union LifetimeBuys
Workers == Callers \union AdminCancels \union Drains

ASSUME OutboxAssumption ==
    /\ MAX_ATTEMPTS \in Nat \ {0}
    /\ MaxHandlers \in Nat
    /\ MaxResumes \in Nat /\ MaxReplays \in Nat /\ MaxFaults \in Nat

VARIABLES
    task,           \* the BillingTask row
    sub,            \* the subscription at Lemon Squeezy
    pc,             \* where each worker stands
    found,          \* what enqueueCancel read of the row
    snap,           \* the attempts a worker read before claiming
    recorded,       \* what enqueueCancel returned
    account,        \* the account: there, deleted by its owner, deleted by the console
    revoked,        \* the tombstone trialCancelledAt of the subscription's trial
    owed,           \* an accepted instruction no cancellation has answered yet
    crossed,        \* observed: did the last one cross with what was known before a resumption?
    disturbed,      \* has a claim gone stale, or been swept away?
    resumes, replays, faults

workerVars == <<pc, found, snap, recorded>>
outcome == <<account, revoked>>
debt == <<owed, crossed>>
counters == <<resumes, replays, faults>>
vars == <<task, sub, workerVars, outcome, debt, disturbed, counters>>

\* due: nextAttemptAt has come; locked: lockedAt is set, and stale: long ago.
Rows == {r \in [exists : BOOLEAN, done : BOOLEAN, attempts : Nat,
                locked : BOOLEAN, stale : BOOLEAN, due : BOOLEAN] :
            /\ r.stale => r.locked
            /\ r.locked => r.exists /\ ~r.done
            /\ r.done => r.exists}

Places == {"idle", "write", "find", "claim", "call", "confirmed", "refused",
           "finish", "queue", "revoke", "done"}

TypeOK ==
    /\ task \in Rows
    /\ sub \in {"live", "cancelled"}
    /\ pc \in [Workers -> Places]
    /\ found \in [Callers -> {"unread", "none", "pending", "done"}]
    /\ snap \in [Workers -> Nat]
    /\ recorded \in [Callers -> BOOLEAN]
    /\ account \in {"present", "left", "removed"}
    /\ revoked \in BOOLEAN
    /\ owed \in BOOLEAN /\ crossed \in BOOLEAN
    /\ disturbed \in BOOLEAN
    /\ resumes \in Nat /\ replays \in Nat /\ faults \in Nat

NoRow == [exists |-> FALSE, done |-> FALSE, attempts |-> 0,
          locked |-> FALSE, stale |-> FALSE, due |-> TRUE]

\* A row as enqueueCancel creates or reopens it, and as replayTask resets it.
FreshRow == [NoRow EXCEPT !.exists = TRUE]

Init ==
    /\ task = NoRow
    /\ sub = "live"
    /\ pc = [w \in Workers |-> "idle"]
    /\ found = [w \in Callers |-> "unread"]
    /\ snap = [w \in Workers |-> 0]
    /\ recorded = [w \in Callers |-> FALSE]
    /\ account = "present"
    /\ revoked = FALSE
    /\ owed = FALSE /\ crossed = FALSE
    /\ disturbed = FALSE
    /\ resumes = 0 /\ replays = 0 /\ faults = 0

Goto(w, where) == pc' = [pc EXCEPT ![w] = where]

\* A worker's attempt at the task is over: a drain is free again, a caller goes
\* on with what it was asked for.
Leave(w) == /\ Goto(w, IF w \in Drains THEN "idle" ELSE "finish")
            /\ snap' = [snap EXCEPT ![w] = 0]

Standing == IF ~task.exists THEN "none" ELSE IF task.done THEN "done" ELSE "pending"

Pending == task.exists /\ ~task.done
DeadLettered == Pending /\ task.attempts >= MAX_ATTEMPTS
\* mutant: a claim is honoured for ever, its holder dead or not
ClaimableUnlocked == Pending /\ ~task.locked

Claimable == Pending /\ (~task.locked \/ task.stale)
Claimed == [task EXCEPT !.locked = TRUE, !.stale = FALSE]

Settled == [task EXCEPT !.done = TRUE, !.locked = FALSE, !.stale = FALSE]

CancelledAtProvider == sub' = "cancelled" /\ owed' = FALSE /\ crossed' = FALSE

\* What is known of the subscription from before it was resumed: a confirmation still
\* to be recorded, or a caller's reading of a row that has been settled since.
Crossing(w) ==
    \/ \E v \in Workers : pc[v] = "confirmed"
    \/ w \in Callers /\ found[w] \in {"none", "pending"} /\ task.done

\* An accepted instruction is owed unless the provider has cancelled already.
Accept(w) ==
    /\ owed' = (owed \/ sub = "live")
    /\ crossed' = IF sub = "live" THEN Crossing(w) ELSE crossed

-----------------------------------------------------------------------------
(* enqueueCancel, and enqueueAndAttemptCancel around it *)

\* Another handler may start.
Room == Cardinality({w \in Callers \union AdminCancels : pc[w] # "idle"}) < MaxHandlers

\* Look the row up.
EnqueueReads(w) ==
    /\ w \in Callers
    /\ pc[w] = "idle" /\ Room
    /\ account = "present"
    /\ found' = [found EXCEPT ![w] = Standing]
    /\ Goto(w, "write")
    /\ UNCHANGED <<disturbed, task, sub, snap, recorded, outcome, debt, counters>>

\* mutant: an instruction already given once is not reopened
EnqueueWritesOnce(w) ==
    /\ pc[w] = "write"
    /\ task' = IF task.exists THEN task ELSE FreshRow
    /\ recorded' = [recorded EXCEPT ![w] = TRUE]
    /\ found' = [found EXCEPT ![w] = "unread"]
    /\ Accept(w)
    /\ Goto(w, "find")
    /\ UNCHANGED <<disturbed, sub, snap, outcome, counters>>

\* No row: create it (losing the insert to a concurrent caller is a success);
\* a pending row is left alone; a settled one is reopened.
EnqueueWrites(w) ==
    /\ pc[w] = "write"
    /\ task' = IF found[w] = "done" \/ (found[w] = "none" /\ ~task.exists) THEN FreshRow
               ELSE task
    /\ disturbed' = (disturbed \/ (task.locked /\ ~task'.locked))
    /\ recorded' = [recorded EXCEPT ![w] = TRUE]
    /\ found' = [found EXCEPT ![w] = "unread"]
    /\ Accept(w)
    /\ Goto(w, "find")
    /\ UNCHANGED <<sub, snap, outcome, counters>>

\* The read or the write failed: swallowed, and reported by the result.
EnqueueFails(w) ==
    /\ pc[w] = "write"
    /\ faults < MaxFaults
    /\ faults' = faults + 1
    /\ found' = [found EXCEPT ![w] = "unread"]
    /\ Goto(w, "find")
    /\ UNCHANGED <<disturbed, task, sub, snap, recorded, outcome, debt, resumes, replays>>

\* The inline attempt: find the task whoever wrote it, dead-lettered or not.
InlineFinds(w) ==
    /\ pc[w] = "find"
    /\ \/ /\ Pending
          /\ snap' = [snap EXCEPT ![w] = task.attempts]
          /\ Goto(w, "claim")
       \/ ~Pending /\ Leave(w)
    /\ UNCHANGED <<disturbed, task, sub, found, recorded, outcome, debt, counters>>

-----------------------------------------------------------------------------
(* claim and runCancel, shared by the inline attempt and the drains *)

\* mutant: whoever asks gets the task
ClaimWithoutLock(w) ==
    /\ pc[w] = "claim"
    /\ task' = Claimed
    /\ Goto(w, "call")
    /\ UNCHANGED <<disturbed, sub, found, snap, recorded, outcome, debt, counters>>

Claim(w) ==
    /\ pc[w] = "claim"
    /\ \/ Claimable /\ task' = Claimed /\ Goto(w, "call") /\ UNCHANGED snap
       \/ ~Claimable /\ Leave(w) /\ UNCHANGED task
    /\ UNCHANGED <<disturbed, sub, found, recorded, outcome, debt, counters>>

\* cancelAtProvider: confirmed (cancelled now, or long gone)...
ProviderConfirms(w) ==
    /\ pc[w] = "call"
    /\ CancelledAtProvider
    /\ Goto(w, "confirmed")
    /\ UNCHANGED <<disturbed, task, found, snap, recorded, outcome, counters>>

\* ... or refused, unreachable, or cancelled with the answer lost.
ProviderFails(w) ==
    /\ pc[w] = "call"
    /\ CancelledAtProvider \/ UNCHANGED <<sub, debt>>
    /\ Goto(w, "refused")
    /\ UNCHANGED <<disturbed, task, found, snap, recorded, outcome, counters>>

\* The row is written by id: nothing checks that the claim is still this
\* worker's, and a failure writes the attempts read before the call, plus one.
Record(w) ==
    /\ \/ /\ pc[w] = "confirmed"
          /\ task' = Settled
       \/ /\ pc[w] = "refused"
          /\ task' = [task EXCEPT !.attempts = snap[w] + 1, !.locked = FALSE, !.stale = FALSE,
                                  !.due = FALSE]
    /\ Leave(w)
    /\ UNCHANGED <<disturbed, sub, found, recorded, outcome, debt, counters>>

\* The write failed: logged, the claim stays until it goes stale.
RecordFails(w) ==
    /\ pc[w] \in {"confirmed", "refused"}
    /\ faults < MaxFaults
    /\ faults' = faults + 1
    /\ Leave(w)
    /\ UNCHANGED <<disturbed, task, sub, found, recorded, outcome, debt, resumes, replays>>

\* A database call before the provider failed: for the inline attempt it is
\* logged, and so it is when a lifetime buyer's subscriptions cannot be read.
InlineFails(w) ==
    /\ \/ w \in Callers /\ pc[w] \in {"find", "claim"}
       \/ w \in LifetimeBuys /\ pc[w] = "idle"
    /\ faults < MaxFaults
    /\ faults' = faults + 1
    /\ Leave(w)
    /\ UNCHANGED <<disturbed, task, sub, found, recorded, outcome, debt, resumes, replays>>

-----------------------------------------------------------------------------
(* What the callers do next *)

\* mutant: deletion goes on whether or not the instruction was written
SelfDeleteRegardless(w) ==
    /\ w \in SelfDeletes
    /\ pc[w] = "finish"
    /\ account' = "left"
    /\ Goto(w, "done")
    /\ UNCHANGED <<disturbed, task, sub, found, snap, recorded, revoked, debt, counters>>

\* DELETE /api/me aborts when the instruction was not recorded.
SelfDelete(w) ==
    /\ w \in SelfDeletes
    /\ pc[w] = "finish"
    /\ account' = IF recorded[w] THEN "left" ELSE account
    /\ Goto(w, "done")
    /\ UNCHANGED <<disturbed, task, sub, found, snap, recorded, revoked, debt, counters>>

\* enqueueLiveLsCancels ignores the result; the account row goes.
AdminDelete(w) ==
    /\ w \in AdminDeletes
    /\ pc[w] = "finish"
    /\ account' = "removed"
    /\ Goto(w, "done")
    /\ UNCHANGED <<disturbed, task, sub, found, snap, recorded, revoked, debt, counters>>

\* recordPaidOrder writes the Purchase whatever became of the cancellation; a
\* later delivery of the order finds it and asks for no cancellation again.
LifetimeGranted(w) ==
    /\ w \in LifetimeBuys
    /\ pc[w] = "finish"
    /\ Goto(w, "done")
    /\ UNCHANGED <<disturbed, task, sub, found, snap, recorded, outcome, debt, counters>>

-----------------------------------------------------------------------------
(* The console's cancel: the provider first, the outbox when it is unsure.  *)
(* The subscription is on its unpaid trial, which a cancellation cuts off.  *)

\* Lemon Squeezy answers the console directly, claiming no task: confirmed,
\* refused for good, or a "come back later" with or without effect.
AdminCalls(w) ==
    /\ w \in AdminCancels
    /\ pc[w] = "idle" /\ Room
    /\ account = "present"
    /\ \/ CancelledAtProvider /\ Goto(w, "revoke")
       \/ CancelledAtProvider /\ Goto(w, "queue")
       \/ UNCHANGED <<sub, debt>> /\ pc' \in {[pc EXCEPT ![w] = p] : p \in {"queue", "done"}}
    /\ UNCHANGED <<disturbed, task, found, snap, recorded, outcome, counters>>

\* markTrialCancelled, after the confirmation.
AdminRevokes(w) ==
    /\ pc[w] = "revoke"
    /\ revoked' = TRUE
    /\ Goto(w, "done")
    /\ UNCHANGED <<disturbed, task, sub, found, snap, recorded, account, debt, counters>>

\* mutant: the trial is cut off, the cancellation forgotten
AdminQueuesNothing(w) ==
    /\ pc[w] = "queue"
    /\ revoked' = TRUE
    /\ Goto(w, "done")
    /\ UNCHANGED <<disturbed, task, sub, found, snap, recorded, account, debt, counters>>

\* queueCancelAndRevokeTrial: one transaction, replayed on a lost race.
AdminQueues(w) ==
    /\ pc[w] = "queue"
    /\ \/ Pending /\ UNCHANGED task
       \/ ~Pending /\ task' = FreshRow
    /\ revoked' = TRUE
    /\ Accept(w)
    /\ Goto(w, "done")
    /\ UNCHANGED <<disturbed, sub, found, snap, recorded, account, counters>>

-----------------------------------------------------------------------------
(* The drains, the operator and the environment *)

\* drainCancels lists the row when it is due, not dead-lettered and unclaimed.
DrainLists(w) ==
    /\ w \in Drains
    /\ pc[w] = "idle"
    /\ Claimable
    /\ task.due
    /\ task.attempts < MAX_ATTEMPTS
    /\ snap' = [snap EXCEPT ![w] = task.attempts]
    /\ Goto(w, "claim")
    /\ UNCHANGED <<disturbed, task, sub, found, recorded, outcome, debt, counters>>

\* A drain dies, or a database call of it throws; the next scheduled run starts over.
DrainCrashes(w) ==
    /\ w \in Drains
    /\ pc[w] \in {"claim", "call", "confirmed", "refused"}
    /\ faults < MaxFaults
    /\ faults' = faults + 1
    /\ Leave(w)
    /\ UNCHANGED <<disturbed, task, sub, found, recorded, outcome, debt, resumes, replays>>

\* A handler dies, or answers an error, before it did what it was asked for.
HandlerCrashes(w) ==
    /\ w \in Callers \union AdminCancels
    /\ pc[w] \notin {"idle", "done"}
    /\ faults < MaxFaults
    /\ faults' = faults + 1
    /\ Goto(w, "done")
    /\ snap' = [snap EXCEPT ![w] = 0]
    /\ UNCHANGED <<disturbed, task, sub, found, recorded, outcome, debt, resumes, replays>>

\* replayTask: whatever is not settled starts over, claimed or not.
Replay ==
    /\ Pending
    /\ replays < MaxReplays
    /\ replays' = replays + 1
    /\ task' = FreshRow
    /\ disturbed' = (disturbed \/ task.locked)
    /\ UNCHANGED <<sub, workerVars, outcome, debt, resumes, faults>>

\* LOCK_TTL_MS goes by.
LockGoesStale ==
    /\ Pending /\ task.locked /\ ~task.stale
    /\ task' = [task EXCEPT !.stale = TRUE]
    /\ disturbed' = TRUE
    /\ UNCHANGED <<sub, workerVars, outcome, debt, counters>>

\* nextAttemptAt is reached.
BackoffElapses ==
    /\ Pending /\ ~task.due
    /\ task' = [task EXCEPT !.due = TRUE]
    /\ UNCHANGED <<disturbed, sub, workerVars, outcome, debt, counters>>

\* The customer resumes the subscription in Lemon Squeezy's portal.
Resume ==
    /\ sub = "cancelled"
    /\ resumes < MaxResumes
    /\ resumes' = resumes + 1
    /\ sub' = "live"
    /\ UNCHANGED <<disturbed, task, workerVars, outcome, debt, replays, faults>>

-----------------------------------------------------------------------------

Attempt(w) == \/ Claim(w) \/ ProviderConfirms(w) \/ ProviderFails(w)
              \/ Record(w) \/ RecordFails(w)

Handler(w) == \/ EnqueueReads(w) \/ EnqueueWrites(w) \/ EnqueueFails(w)
              \/ InlineFinds(w) \/ InlineFails(w)
              \/ SelfDelete(w) \/ AdminDelete(w) \/ LifetimeGranted(w)
              \/ AdminCalls(w) \/ AdminRevokes(w) \/ AdminQueues(w) \/ HandlerCrashes(w)

Drain(w) == DrainLists(w) \/ DrainCrashes(w)

Next == \/ \E w \in Workers : Attempt(w) \/ Handler(w) \/ Drain(w)
        \/ Replay \/ LockGoesStale \/ BackoffElapses \/ Resume

Spec == Init /\ [][Next]_vars

\* The scheduled drains keep running (every 15 minutes), time passes, and a
\* started attempt ends one way or another. Nothing is assumed of the handlers,
\* which may die at any point, nor of the provider, which may refuse for ever.
Fairness ==
    /\ WF_vars(LockGoesStale) /\ WF_vars(BackoffElapses)
    /\ \A w \in Drains :
           /\ WF_vars(DrainLists(w)) /\ WF_vars(Claim(w)) /\ WF_vars(Record(w))
           /\ WF_vars(ProviderConfirms(w) \/ ProviderFails(w))

FairSpec == Spec /\ Fairness

-----------------------------------------------------------------------------
(* Properties *)

\* "Never lose the instruction": while an accepted cancellation is unanswered by the
\* provider, a pending task still says so, through crashes, failed writes, stale claims
\* and resumptions at any moment; except for one given after a resumption while a handler
\* was still to act on what it knew from before (runCancel settles by the row's id,
\* enqueueCancel leaves alone what it read as pending), until it is given again.
NeverLost == owed /\ ~crossed => Pending

\* An account its owner deletes goes only once its cancellation is on record, so
\* no live charge is left with nothing pointing at it.
LeavingMeansRecorded == account = "left" => task.exists

\* A trial the console cut off is stopped, or is still going to be, unless the
\* customer took the subscription up again.
RevokedMeansStopping == revoked /\ resumes = 0 => Pending \/ sub = "cancelled"

\* Two attempts run at once only after a claim went stale, or was swept away by an
\* operator's replay or by a caller that reopens the row on an older reading of it.
InFlight == {w \in Workers : pc[w] \in {"call", "confirmed", "refused"}}

AttemptsDoNotOverlap ==
    ~disturbed => \A v, w \in InFlight : v = w

\* A pending cancellation does not stay pending for ever: it settles, or it is
\* dead-lettered where the operator sees it -- also after a crash that left its
\* claim behind, a failed write, a stalled worker.
OwedIsSettled == Pending ~> (~Pending \/ DeadLettered)
=============================================================================
