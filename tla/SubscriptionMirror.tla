------------------------- MODULE SubscriptionMirror -------------------------
(***************************************************************************)
(* One Lemon Squeezy subscription and our mirror of it: the provider's     *)
(* successive states, the deliveries of their webhooks (claimed in the     *)
(* WebhookEvent table, retried, duplicated, out of order), POST            *)
(* /checkout/confirm, which reads the provider and writes the same row,    *)
(* the optimistic writes of /subscription/cancel and /reactivate, and the  *)
(* deletion of the account with the ConsumedOrder ledger that outlives it. *)
(*                                                                         *)
(* A state's version stands for its updated_at, which the model takes to   *)
(* be strictly increasing. The trial window is fixed.                      *)
(***************************************************************************)
EXTENDS Naturals, Sequences, FiniteSets

CONSTANTS
    Deliveries,     \* processes that serve webhook deliveries
    Confirms,       \* runs of POST /checkout/confirm
    Handlers,       \* processes that serve POST /subscription/cancel and /reactivate
    MaxVersions,    \* bound on the provider's states
    MaxFaults       \* bound on crashes and swallowed write failures

Mirrors == Deliveries \union Confirms
Workers == Mirrors \union Handlers

ASSUME MirrorAssumption ==
    /\ MaxVersions \in Nat \ {0}
    /\ MaxFaults \in Nat
    /\ Deliveries \intersect Confirms = {}
    /\ Mirrors \intersect Handlers = {}

VARIABLES
    history,        \* the provider's states of the subscription, oldest first
    trialRunning,   \* is trial_ends_at still to come?
    row,            \* our Subscription row
    event,          \* the WebhookEvent of each version
    consumed,       \* is the subscription in the ConsumedOrder ledger?
    account,        \* the buyer's account, and how far its deletion has come
    pc,             \* where each worker stands
    carried,        \* the version a worker read or caused
    user,           \* the account a worker writes for
    asked,          \* what a handler is to ask of the provider
    owners,         \* every account that ever held the row
    mishaps,        \* the races the code leaves open that have happened
    faults

provider == <<history, trialRunning>>
tables == <<row, event, consumed, account>>
work == <<pc, carried, user, asked>>
ghosts == <<owners, mishaps>>
vars == <<provider, tables, work, ghosts, faults>>

Statuses == {"on_trial", "active", "cancelled"}
People == {"buyer", "heir"}     \* heir: whoever holds the buyer's address later
Mishaps == {"crowded", "overtaken", "unmarked", "missed"}
Places == {"idle", "reclaim", "resolve", "tombstone", "update", "lookup", "ledger",
           "create", "note", "retry", "mark", "call", "write"}

Rows == [exists : BOOLEAN, version : Nat, status : Statuses, tombstone : BOOLEAN,
         owner : People]
NoRow == [exists |-> FALSE, version |-> 0, status |-> "cancelled", tombstone |-> FALSE,
          owner |-> "buyer"]

\* end_trial: cancel, of a subscription whose row was on trial
Requests == {"nothing", "cancel", "end_trial", "reactivate"}

Latest == Len(history)
LatestStatus == history[Latest]

TypeOK ==
    /\ history \in Seq(Statuses) /\ history # <<>> /\ Len(history) <= MaxVersions
    /\ trialRunning \in BOOLEAN
    /\ row \in Rows /\ row.version <= Latest
    /\ event \in [1 .. MaxVersions -> {"none", "owed", "done"}]
    /\ \A v \in 1 .. MaxVersions : event[v] # "none" => v <= Latest
    /\ consumed \in BOOLEAN
    /\ account \in {"here", "leaving", "emptied", "gone"}
    /\ pc \in [Workers -> Places]
    /\ carried \in [Workers -> 0 .. Latest]
    /\ \A w \in Mirrors : pc[w] # "idle" => carried[w] > 0
    /\ user \in [Workers -> People]
    /\ asked \in [Workers -> Requests]
    /\ owners \subseteq People
    /\ mishaps \subseteq Mishaps
    /\ faults \in 0 .. MaxFaults

Init ==
    /\ trialRunning \in BOOLEAN
    /\ history = <<IF trialRunning THEN "on_trial" ELSE "active">>
    /\ row = NoRow
    /\ event = [v \in 1 .. MaxVersions |-> "none"]
    /\ consumed = FALSE
    /\ account = "here"
    /\ pc = [w \in Workers |-> "idle"]
    /\ carried = [w \in Workers |-> 0]
    /\ user = [w \in Workers |-> "buyer"]
    /\ asked = [w \in Workers |-> "nothing"]
    /\ owners = {}
    /\ mishaps = {}
    /\ faults = 0

Goto(w, where) == pc' = [pc EXCEPT ![w] = where]

\* A worker's request is answered.
Leave(w) == /\ Goto(w, "idle")
            /\ carried' = [carried EXCEPT ![w] = 0]
            /\ user' = [user EXCEPT ![w] = "buyer"]
            /\ asked' = [asked EXCEPT ![w] = "nothing"]

\* The writer answers, one way or another: a delivery goes on to mark its event,
\* /confirm is done.
Answer(w) ==
    IF w \in Confirms THEN Leave(w)
    ELSE Goto(w, "mark") /\ UNCHANGED <<carried, user, asked>>

Goes(w, where) == Goto(w, where) /\ UNCHANGED <<carried, user, asked>>

Happened(mishap, condition) ==
    mishaps' = IF condition THEN mishaps \union {mishap} ELSE mishaps

Fault == faults < MaxFaults /\ faults' = faults + 1

\* The state a worker carries.
Payload(w) == history[carried[w]]

-----------------------------------------------------------------------------
(* The provider *)

\* The customer cancels or resumes in the portal, or a charge goes through.
Moves == {<<"on_trial", "cancelled">>, <<"active", "cancelled">>, <<"cancelled", "active">>,
          <<"cancelled", "on_trial">>}

ProviderChanges(status) ==
    /\ Latest < MaxVersions
    /\ <<LatestStatus, status>> \in Moves
    /\ status = "on_trial" => trialRunning
    /\ status = "active" => ~trialRunning
    /\ history' = Append(history, status)
    /\ UNCHANGED <<trialRunning, tables, work, ghosts, faults>>

\* trial_ends_at goes by: a trial still on becomes a paid subscription.
TrialEnds ==
    /\ trialRunning
    /\ trialRunning' = FALSE
    /\ \/ LatestStatus # "on_trial" /\ UNCHANGED history
       \/ /\ LatestStatus = "on_trial" /\ Latest < MaxVersions
          /\ history' = Append(history, "active")
    /\ UNCHANGED <<tables, work, ghosts, faults>>

-----------------------------------------------------------------------------
(* Deliveries: claim, work, mark *)

\* Any state's event may be delivered at any time, and again after it was finished
\* with. claimWebhookEvent: the unique index decides who processes a new one; a
\* processed or skipped one is answered at once; one still owed (being processed,
\* or failed) is claimed again.
Claim(w) ==
    /\ w \in Deliveries
    /\ pc[w] = "idle"
    /\ \E v \in 1 .. Latest :
           /\ carried' = [carried EXCEPT ![w] = v]
           /\ \/ /\ event[v] = "none"
                 /\ event' = [event EXCEPT ![v] = "owed"]
                 /\ Goto(w, "resolve")
              \/ /\ event[v] = "owed"
                 /\ Goto(w, "reclaim")
                 /\ UNCHANGED event
    /\ UNCHANGED <<provider, row, consumed, account, user, asked, ghosts, faults>>

\* The status read a call ago is not looked at again.
Reclaim(w) ==
    /\ pc[w] = "reclaim"
    /\ event' = [event EXCEPT ![carried[w]] = "owed"]
    /\ Goes(w, "resolve")
    /\ UNCHANGED <<provider, row, consumed, account, ghosts, faults>>

\* resolveSubscriptionUser: the account our checkout named, else the row's, else
\* whoever has the address now, else nobody (the event is marked failed).
Resolve(w) ==
    /\ pc[w] = "resolve"
    /\ \/ /\ account # "gone" \/ row.exists
          /\ user' = [user EXCEPT ![w] = IF account # "gone" THEN "buyer" ELSE row.owner]
          /\ Goto(w, "tombstone")
          /\ UNCHANGED <<carried, asked>>
       \/ /\ account = "gone" /\ ~row.exists
          /\ user' = [user EXCEPT ![w] = "heir"]
          /\ Goto(w, "tombstone")
          /\ UNCHANGED <<carried, asked>>
       \/ /\ account = "gone" /\ ~row.exists
          /\ Leave(w)
    /\ UNCHANGED <<provider, tables, ghosts, faults>>

\* markWebhookEvent: processed or skipped, for good.
Mark(w) ==
    /\ pc[w] = "mark"
    /\ event' = [event EXCEPT ![carried[w]] = "done"]
    /\ Leave(w)
    /\ UNCHANGED <<provider, row, consumed, account, ghosts, faults>>

\* A worker dies, or an error ends its request, or its mark is not written: an
\* event not finished stays owed, one finished by somebody else stays finished.
Abandon(w) ==
    /\ pc[w] # "idle"
    /\ Fault
    /\ Leave(w)
    /\ UNCHANGED <<provider, tables, ghosts>>

-----------------------------------------------------------------------------
(* POST /checkout/confirm reads the provider's present state of an order of  *)
(* the caller's, whose address is the one on the order.                      *)

Confirm(w) ==
    /\ w \in Confirms
    /\ pc[w] = "idle"
    /\ carried' = [carried EXCEPT ![w] = Latest]
    /\ user' = [user EXCEPT ![w] = IF account # "gone" THEN "buyer" ELSE "heir"]
    /\ Goto(w, "tombstone")
    /\ UNCHANGED <<provider, tables, asked, ghosts, faults>>
-----------------------------------------------------------------------------
(* mirrorSubscriptionState, the one writer of provider state *)

CancelledInTrial(w) == Payload(w) = "cancelled" /\ trialRunning

\* mutant: the tombstone falls under the staleness guard
TombstoneIfNewer(w) ==
    /\ pc[w] = "tombstone"
    /\ row' = [row EXCEPT !.tombstone = @ \/ (row.exists /\ CancelledInTrial(w)
                                              /\ row.version <= carried[w])]
    /\ Happened("missed", CancelledInTrial(w) /\ ~row.exists)
    /\ Goes(w, "update")
    /\ UNCHANGED <<provider, event, consumed, account, owners, faults>>

\* A cancellation in the trial is recorded whatever its age, on a row that exists.
Tombstone(w) ==
    /\ pc[w] = "tombstone"
    /\ row' = [row EXCEPT !.tombstone = @ \/ (row.exists /\ CancelledInTrial(w))]
    /\ Happened("missed", CancelledInTrial(w) /\ ~row.exists)
    /\ Goes(w, "update")
    /\ UNCHANGED <<provider, event, consumed, account, owners, faults>>

\* That write failed: logged.
TombstoneFails(w) ==
    /\ pc[w] = "tombstone"
    /\ CancelledInTrial(w)
    /\ Fault
    /\ Happened("missed", TRUE)
    /\ Goes(w, "update")
    /\ UNCHANGED <<provider, tables, owners>>

\* The staleness guard: nothing newer is recorded.
NotNewer(w) == row.version <= carried[w]

Mirrored(w) == [row EXCEPT !.version = carried[w], !.status = Payload(w)]

Update(w) ==
    /\ pc[w] = "update"
    /\ \/ /\ row.exists /\ NotNewer(w)
          /\ row' = Mirrored(w)
          /\ Answer(w)
       \/ /\ ~(row.exists /\ NotNewer(w))
          /\ Goes(w, "lookup")
          /\ UNCHANGED row
    /\ UNCHANGED <<provider, event, consumed, account, ghosts, faults>>

\* Nothing updated: a row there now is taken for newer, else it is missing.
Lookup(w) ==
    /\ pc[w] = "lookup"
    /\ \/ /\ row.exists
          /\ Answer(w)
          /\ Happened("crowded", row.version < carried[w])
       \/ ~row.exists /\ Goes(w, "ledger") /\ UNCHANGED mishaps
    /\ UNCHANGED <<provider, tables, owners, faults>>

\* A subscription mirrored before, whose row is gone, is not mirrored again.
Ledger(w) ==
    /\ pc[w] = "ledger"
    /\ \/ consumed /\ Answer(w) /\ Happened("crowded", row.exists /\ row.version < carried[w])
       \/ ~consumed /\ Goes(w, "create") /\ UNCHANGED mishaps
    /\ UNCHANGED <<provider, tables, owners, faults>>

Create(w) ==
    /\ pc[w] = "create"
    /\ \/ row.exists /\ Goes(w, "retry") /\ UNCHANGED <<row, owners>>
       \/ /\ ~row.exists
          /\ row' = [exists |-> TRUE, version |-> carried[w], status |-> Payload(w),
                     tombstone |-> FALSE, owner |-> user[w]]
          /\ owners' = owners \union {user[w]}
          /\ Goes(w, "note")
    /\ UNCHANGED <<provider, event, consumed, account, mishaps, faults>>

\* markOrderConsumed, after the creation.
NoteConsumed(w) ==
    /\ pc[w] = "note"
    /\ consumed' = TRUE
    /\ Answer(w)
    /\ UNCHANGED <<provider, row, event, account, ghosts, faults>>

NoteFails(w) ==
    /\ pc[w] = "note"
    /\ Fault
    /\ Answer(w)
    /\ UNCHANGED <<provider, tables, ghosts>>

\* mutant: a racing creation is taken for success
RetryUnread(w) ==
    /\ pc[w] = "retry"
    /\ Answer(w)
    /\ UNCHANGED <<provider, tables, ghosts, faults>>

\* Another delivery created the row first: the guarded update, once more.
Retry(w) ==
    /\ pc[w] = "retry"
    /\ \/ /\ row.exists /\ NotNewer(w)
          /\ row' = Mirrored(w)
          /\ Answer(w)
       \/ /\ ~(row.exists /\ NotNewer(w))
          /\ Answer(w)
          /\ UNCHANGED row
    /\ UNCHANGED <<provider, event, consumed, account, ghosts, faults>>

-----------------------------------------------------------------------------
(* POST /subscription/cancel and /reactivate: read the row, ask the          *)
(* provider, then write the row at once, leaving its version alone.          *)

\* A subscription is cancelled unless it is already; one that is cancelled and
\* still grants access, so whose trial is over, is reactivated.
HandlerReads(w) ==
    /\ w \in Handlers
    /\ pc[w] = "idle"
    /\ account # "gone" /\ row.exists
    /\ \/ /\ row.status # "cancelled"
          /\ asked' = [asked EXCEPT ![w] = IF row.status = "on_trial" THEN "end_trial" ELSE "cancel"]
       \/ /\ row.status = "cancelled" /\ ~trialRunning
          /\ asked' = [asked EXCEPT ![w] = "reactivate"]
    /\ Goto(w, "call")
    /\ UNCHANGED <<provider, tables, carried, user, ghosts, faults>>

Wanted(w) == IF asked[w] = "reactivate" THEN "active" ELSE "cancelled"

\* The provider does as asked, or had already.
ProviderAgrees(w) ==
    /\ pc[w] = "call"
    /\ \/ LatestStatus = Wanted(w) /\ UNCHANGED history
       \/ /\ LatestStatus # Wanted(w) /\ Latest < MaxVersions
          /\ history' = Append(history, Wanted(w))
    /\ carried' = [carried EXCEPT ![w] = Len(history')]
    /\ Goto(w, "write")
    /\ UNCHANGED <<trialRunning, tables, user, asked, ghosts, faults>>

\* It refused, or could not be reached: the customer is told to try again.
ProviderRefuses(w) ==
    /\ pc[w] = "call"
    /\ Leave(w)
    /\ UNCHANGED <<provider, tables, ghosts, faults>>

\* The optimistic write; a cancelled trial gets its tombstone. The row is written
\* by its own id, so not one created after the account was gone.
WriteBack(w) ==
    /\ pc[w] = "write"
    /\ row' = IF ~row.exists \/ account = "gone" THEN row
              ELSE [row EXCEPT !.status = Wanted(w), !.tombstone = @ \/ asked[w] = "end_trial"]
    /\ Leave(w)
    /\ Happened("overtaken", row.exists /\ row.version > carried[w])
    /\ UNCHANGED <<provider, event, consumed, account, owners, faults>>

-----------------------------------------------------------------------------
(* Deletion of the account: by its owner, with a ledger entry for each       *)
(* subscription found; or from the console, without.                         *)

DeletionFinds ==
    /\ account = "here"
    /\ account' = IF row.exists THEN "leaving" ELSE "emptied"
    /\ UNCHANGED <<provider, row, event, consumed, work, ghosts, faults>>

DeletionNotes ==
    /\ account = "leaving"
    /\ account' = "emptied"
    /\ \/ consumed' = TRUE /\ UNCHANGED faults
       \/ Fault /\ UNCHANGED consumed
    /\ UNCHANGED <<provider, row, event, work, ghosts>>

\* The user row goes, and the subscription row with it.
AccountGoes ==
    /\ account \in {"here", "emptied"}
    /\ account' = "gone"
    /\ row' = NoRow
    /\ Happened("unmarked", row.exists /\ ~consumed)
    /\ UNCHANGED <<provider, event, consumed, work, owners, faults>>

-----------------------------------------------------------------------------

Delivering(w) == \/ Claim(w) \/ Reclaim(w) \/ Resolve(w) \/ Mark(w)

Mirroring(w) == \/ Tombstone(w) \/ TombstoneFails(w) \/ Update(w) \/ Lookup(w)
                \/ Ledger(w) \/ Create(w) \/ NoteConsumed(w) \/ NoteFails(w) \/ Retry(w)

Handling(w) == \/ HandlerReads(w) \/ ProviderAgrees(w)
               \/ ProviderRefuses(w) \/ WriteBack(w)

Next == \/ \E w \in Workers : Delivering(w) \/ Confirm(w) \/ Mirroring(w)
                              \/ Handling(w) \/ Abandon(w)
        \/ \E s \in Statuses : ProviderChanges(s)
        \/ TrialEnds \/ DeletionFinds \/ DeletionNotes \/ AccountGoes

Spec == Init /\ [][Next]_vars

-----------------------------------------------------------------------------
(* Properties *)

Finished(v) == event[v] = "done"

\* An event that is finished with, and will not be redone, is in the row: as it
\* was, or overtaken by a newer state. Excused: two first deliveries at once.
DoneMeansMirrored ==
    account = "here" /\ "crowded" \notin mishaps =>
        \A v \in 1 .. Latest : Finished(v) => row.exists /\ row.version >= v

\* Once every event is finished and nobody is at work, the row shows the provider's
\* state, through optimistic writes, duplicates and deliveries out of order. Excused:
\* a state dropped as above, and an optimistic write that lands after newer news.
QuietMeansEqual ==
    /\ account = "here" /\ mishaps \intersect {"crowded", "overtaken"} = {}
    /\ \A w \in Workers : pc[w] = "idle"
    /\ \A v \in 1 .. Latest : Finished(v)
    => row.exists /\ row.version = Latest /\ row.status = LatestStatus

Grants == row.exists /\ ~(trialRunning /\ (row.tombstone \/ row.status = "cancelled"))

\* A trial whose cancellation we have dealt with grants nothing for the rest of its
\* window, whatever is resumed or delivered later. Excused: the cancellation met
\* no row, or its tombstone could not be written.
TrialStaysCancelled ==
    account = "here" /\ trialRunning /\ "missed" \notin mishaps =>
        \A v \in 1 .. Latest : Finished(v) /\ history[v] = "cancelled" => ~Grants

\* A subscription is owned once: no later holder of the buyer's address gets it.
\* Excused: the account went before the ledger knew of its row.
OwnedOnce == "unmarked" \notin mishaps => \A p, q \in owners : p = q
=============================================================================
