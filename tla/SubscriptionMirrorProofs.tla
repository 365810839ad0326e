---------------------- MODULE SubscriptionMirrorProofs ----------------------
(***************************************************************************)
(* Theorems about the two mirrors of what was paid elsewhere, the rows of  *)
(* Lemon Squeezy and those of RevenueCat.  SubscriptionMirror, for any     *)
(* number of deliveries, confirmations, handlers, provider states and      *)
(* faults; then RevenueCatSync, for any accounts, handlers and events.     *)
(***************************************************************************)
EXTENDS SubscriptionMirror, RevenueCatSync, SequenceTheorems, TLAPS

USE DEF provider, tables, work, ghosts, Goto, Goes, Latest, Fault

-----------------------------------------------------------------------------
(* Type correctness: whoever may write the row carries a state to write.     *)

HistoryType == history \in Seq(Statuses) /\ history # <<>> /\ Len(history) <= MaxVersions

\* What a worker's move may disturb ...
WorkType ==
    /\ pc \in [Workers -> Places]
    /\ carried \in [Workers -> 0 .. Len(history)]
    /\ user \in [Workers -> People]
    /\ asked \in [Workers -> Requests]
    /\ \A w \in Mirrors : pc[w] # "idle" => carried[w] > 0
    /\ \A w \in Workers : pc[w] \notin {"idle", "call"} => carried[w] > 0

\* ... and the rest.
EventType ==
    /\ event \in [1 .. MaxVersions -> {"none", "owed", "done"}]
    /\ \A v \in 1 .. MaxVersions : event[v] # "none" => v <= Len(history)

TableType ==
    /\ trialRunning \in BOOLEAN
    /\ row \in Rows /\ row.version <= Len(history)
    /\ consumed \in BOOLEAN
    /\ account \in {"here", "leaving", "emptied", "gone"}
    /\ owners \subseteq People
    /\ mishaps \subseteq Mishaps
    /\ faults \in 0 .. MaxFaults

TypeInv == HistoryType /\ WorkType /\ EventType /\ TableType

LEMMA TypeInvImplies == TypeInv => TypeOK
BY DEF TypeInv, TypeOK, HistoryType, WorkType, EventType, TableType

LEMMA LatestIsPositive == HistoryType => Len(history) \in Nat \ {0}
BY DEF HistoryType

\* A new provider state leaves the earlier ones where they were.
LEMMA HistoryGrows ==
    ASSUME HistoryType, NEW s \in Statuses, history' = Append(history, s)
    PROVE  /\ history' \in Seq(Statuses) /\ history' # <<>>
           /\ Len(history') = Len(history) + 1
           /\ \A v \in 1 .. Len(history) : history'[v] = history[v]
           /\ history'[Len(history')] = s
BY DEF HistoryType

\* A worker's step that leaves the provider alone: nobody else moves, and the
\* worker is idle, or about to call, or carries a state.
Moved(w) ==
    /\ UNCHANGED history
    /\ pc' \in [Workers -> Places]
    /\ carried' \in [Workers -> 0 .. Len(history)]
    /\ user' \in [Workers -> People]
    /\ asked' \in [Workers -> Requests]
    /\ \A v \in Workers \ {w} : pc'[v] = pc[v] /\ carried'[v] = carried[v]
    /\ pc'[w] # "idle" => carried'[w] > 0 \/ (w \in Handlers /\ pc'[w] = "call")

LEMMA MovedType ==
    ASSUME HistoryType, WorkType, NEW w \in Workers, Moved(w)
    PROVE  HistoryType' /\ WorkType'
<1>1. w \in Handlers => w \notin Mirrors
    BY MirrorAssumption
<1> QED BY <1>1 DEF HistoryType, WorkType, Moved, Workers, Mirrors

LEMMA LeaveMoves ==
    ASSUME HistoryType, WorkType, NEW w \in Workers, Leave(w), UNCHANGED history
    PROVE  Moved(w)
BY LatestIsPositive DEF WorkType, Leave, Moved, Places, People, Requests

LEMMA GoesMoves ==
    ASSUME HistoryType, WorkType, NEW w \in Workers, NEW p \in Places, Goes(w, p), UNCHANGED history,
           pc[w] \notin {"idle", "call"}
    PROVE  Moved(w)
BY DEF WorkType, Moved

LEMMA AnswerMoves ==
    ASSUME HistoryType, WorkType, NEW w \in Workers, Answer(w), UNCHANGED history,
           pc[w] \notin {"idle", "call"}
    PROVE  Moved(w)
<1>1. CASE w \in Confirms
    BY <1>1, LeaveMoves DEF Answer
<1>2. CASE w \notin Confirms
    <2>1. Goes(w, "mark") /\ "mark" \in Places
        BY <1>2 DEF Answer, Places
    <2> QED BY <2>1, GoesMoves
<1> QED BY <1>1, <1>2

LEMMA EventStays == EventType /\ UNCHANGED <<event, history>> => EventType'
BY DEF EventType

LEMMA TableStays ==
    ASSUME TableType, UNCHANGED <<history, trialRunning, row, consumed, account, owners, mishaps>>,
           faults' = faults \/ (faults < MaxFaults /\ faults' = faults + 1)
    PROVE  TableType'
BY MirrorAssumption DEF TableType

LEMMA FaultCounted ==
    ASSUME TableType, faults' = faults \/ (faults < MaxFaults /\ faults' = faults + 1)
    PROVE  faults' \in 0 .. MaxFaults
BY MirrorAssumption DEF TableType

LEMMA EventWritten ==
    ASSUME EventType, HistoryType, UNCHANGED history,
           NEW u \in 0 .. Len(history), NEW e \in {"owed", "done"}, event' = [event EXCEPT ![u] = e]
    PROVE  EventType'
<1>1. event' \in [1 .. MaxVersions -> {"none", "owed", "done"}]
    BY DEF EventType
<1>2. ASSUME NEW v \in 1 .. MaxVersions, event'[v] # "none" PROVE v <= Len(history)
    <2>1. CASE v = u
        BY <2>1, LatestIsPositive
    <2>2. CASE v # u
        <3>1. event'[v] = event[v]
            BY <2>2 DEF EventType
        <3> QED BY <3>1, <1>2 DEF EventType
    <2> QED BY <2>1, <2>2
<1> QED BY <1>1, <1>2 DEF EventType

LEMMA RowWritten ==
    ASSUME TableType, row' \in Rows, row'.version <= Len(history), owners' \subseteq People,
           UNCHANGED <<history, trialRunning, consumed, account, mishaps, faults>>
    PROVE  TableType'
BY DEF TableType

LEMMA TypeInit == Init => TypeInv
<1> SUFFICES ASSUME Init PROVE TypeInv
    OBVIOUS
<1>1. history \in Seq(Statuses) /\ Len(history) = 1 /\ history # <<>>
    BY DEF Init, Statuses
<1>2. HistoryType
    BY <1>1, MirrorAssumption DEF HistoryType
<1>3. WorkType
    BY <1>1 DEF Init, WorkType, Places, Requests, People, Mirrors, Workers
<1>4. EventType
    BY DEF Init, EventType
<1>5. NoRow \in Rows /\ NoRow.version = 0
    BY DEF Rows, NoRow, Statuses, People
<1>6. faults = 0 /\ 0 \in 0 .. MaxFaults
    BY MirrorAssumption DEF Init
<1>7. row = NoRow /\ row.version <= Len(history)
    BY <1>1, <1>5 DEF Init
<1>8. trialRunning \in BOOLEAN /\ consumed = FALSE /\ account = "here" /\ owners = {} /\ mishaps = {}
    BY DEF Init
<1>9. TableType
    BY <1>5, <1>6, <1>7, <1>8 DEF TableType
<1> QED BY <1>2, <1>3, <1>4, <1>9 DEF TypeInv

LEMMA TypeStep == TypeInv /\ [Next]_vars => TypeInv'
<1> SUFFICES ASSUME TypeInv, [Next]_vars PROVE TypeInv'
    OBVIOUS
<1>0. HistoryType /\ WorkType /\ EventType /\ TableType /\ Len(history) \in Nat \ {0}
    BY LatestIsPositive DEF TypeInv
<1> USE <1>0
<1>1. ASSUME NEW w \in Workers, Claim(w) PROVE TypeInv'
    <2>1. PICK v \in 1 .. Len(history) :
              /\ carried' = [carried EXCEPT ![w] = v]
              /\ \/ event' = [event EXCEPT ![v] = "owed"] /\ pc' = [pc EXCEPT ![w] = "resolve"]
                 \/ event' = event /\ pc' = [pc EXCEPT ![w] = "reclaim"]
        BY <1>1 DEF Claim
    <2>2. UNCHANGED <<history, trialRunning, row, consumed, account, user, asked, owners, mishaps, faults>>
        BY <1>1 DEF Claim
    <2>3. v \in 0 .. Len(history) /\ v > 0
        OBVIOUS
    <2>4. Moved(w)
        BY <2>1, <2>2, <2>3 DEF Moved, WorkType, Places
    <2>5. EventType'
        BY <2>1, <2>2, <2>3, EventWritten, EventStays
    <2> QED BY <2>2, <2>4, <2>5, MovedType, TableStays DEF TypeInv
<1>2. ASSUME NEW w \in Workers, Reclaim(w) PROVE TypeInv'
    <2>1. Moved(w)
        BY <1>2, GoesMoves DEF Reclaim, Places
    <2>2. UNCHANGED <<history, trialRunning, row, consumed, account, owners, mishaps, faults>>
        BY <1>2 DEF Reclaim
    <2>3. event' = [event EXCEPT ![carried[w]] = "owed"] /\ carried[w] \in 0 .. Len(history)
        BY <1>2 DEF Reclaim, WorkType
    <2>4. EventType'
        BY <2>2, <2>3, EventWritten
    <2> QED BY <2>1, <2>2, <2>4, MovedType, TableStays DEF TypeInv
<1>3. ASSUME NEW w \in Workers, Resolve(w) PROVE TypeInv'
    <2>1. UNCHANGED <<history, trialRunning, row, event, consumed, account, owners, mishaps, faults>>
        BY <1>3 DEF Resolve
    <2>2. CASE Leave(w)
        BY <2>1, <2>2, LeaveMoves, MovedType, TableStays, EventStays DEF TypeInv
    <2>3. CASE ~Leave(w)
        <3>1. row.owner \in People /\ "buyer" \in People /\ "heir" \in People
            BY DEF TableType, Rows, People
        <3>2. PICK p \in People : user' = [user EXCEPT ![w] = p]
            BY <1>3, <2>3, <3>1 DEF Resolve
        <3>3. pc[w] = "resolve" /\ pc' = [pc EXCEPT ![w] = "tombstone"] /\ UNCHANGED <<carried, asked>>
            BY <1>3, <2>3 DEF Resolve
        <3>4. Moved(w)
            BY <2>1, <3>2, <3>3 DEF Moved, WorkType, Places
        <3> QED BY <2>1, <3>4, MovedType, TableStays, EventStays DEF TypeInv
    <2> QED BY <2>2, <2>3
<1>4. ASSUME NEW w \in Workers, Mark(w) PROVE TypeInv'
    <2>1. UNCHANGED <<history, trialRunning, row, consumed, account, owners, mishaps, faults>>
        BY <1>4 DEF Mark
    <2>2. Moved(w)
        BY <1>4, <2>1, LeaveMoves DEF Mark
    <2>3. event' = [event EXCEPT ![carried[w]] = "done"] /\ carried[w] \in 0 .. Len(history)
        BY <1>4 DEF Mark, WorkType
    <2>4. EventType'
        BY <2>1, <2>3, EventWritten
    <2> QED BY <2>1, <2>2, <2>4, MovedType, TableStays DEF TypeInv
<1>5. ASSUME NEW w \in Workers, Abandon(w) \/ ProviderRefuses(w) PROVE TypeInv'
    <2>1. /\ Leave(w)
          /\ UNCHANGED <<history, trialRunning, row, event, consumed, account, owners, mishaps>>
          /\ faults' = faults \/ (faults < MaxFaults /\ faults' = faults + 1)
        BY <1>5 DEF Abandon, ProviderRefuses
    <2> QED BY <2>1, LeaveMoves, MovedType, TableStays, EventStays DEF TypeInv
<1>6. ASSUME NEW w \in Workers, Confirm(w) PROVE TypeInv'
    <2>1. UNCHANGED <<history, trialRunning, row, event, consumed, account, owners, mishaps, faults>>
        BY <1>6 DEF Confirm
    <2>2. Moved(w)
        BY <1>6 DEF Confirm, Moved, WorkType, Places, People
    <2> QED BY <2>1, <2>2, MovedType, TableStays, EventStays DEF TypeInv
<1>7. ASSUME NEW w \in Workers, Tombstone(w) \/ TombstoneFails(w) PROVE TypeInv'
    <2>1. Moved(w) /\ UNCHANGED event
        BY <1>7, GoesMoves DEF Tombstone, TombstoneFails, Places
    <2>2. row' \in Rows /\ row'.version = row.version
        BY <1>7 DEF Tombstone, TombstoneFails, TableType, Rows, CancelledInTrial
    <2>3. mishaps' \subseteq Mishaps
        BY <1>7 DEF Tombstone, TombstoneFails, TableType, Happened, Mishaps
    <2>4. /\ UNCHANGED <<history, trialRunning, consumed, account, owners>>
          /\ faults' = faults \/ (faults < MaxFaults /\ faults' = faults + 1)
        BY <1>7 DEF Tombstone, TombstoneFails
    <2>5. TableType'
        BY <2>2, <2>3, <2>4, MirrorAssumption DEF TableType
    <2> QED BY <2>1, <2>4, <2>5, MovedType, EventStays DEF TypeInv
<1>8. ASSUME NEW w \in Workers, Update(w) \/ Retry(w) PROVE TypeInv'
    <2>1. carried[w] \in 1 .. Len(history) /\ Payload(w) \in Statuses
        BY <1>8 DEF Update, Retry, WorkType, HistoryType, Payload
    <2>2. UNCHANGED <<history, trialRunning, event, consumed, account, owners, mishaps, faults>>
        BY <1>8 DEF Update, Retry
    <2>3. Moved(w)
        BY <1>8, <2>2, GoesMoves, AnswerMoves DEF Update, Retry, Places
    <2>4. row' = row \/ row' = [row EXCEPT !.version = carried[w], !.status = Payload(w)]
        BY <1>8 DEF Update, Retry, Mirrored
    <2>5. row' \in Rows /\ row'.version <= Len(history)
        <3>1. carried[w] \in Nat /\ carried[w] <= Len(history)
            BY <2>1
        <3> QED BY <2>1, <2>4, <3>1 DEF TableType, Rows
    <2>6. owners' \subseteq People
        BY <2>2 DEF TableType
    <2> QED BY <2>2, <2>3, <2>5, <2>6, RowWritten, MovedType, EventStays DEF TypeInv
<1>9. ASSUME NEW w \in Workers, Lookup(w) \/ Ledger(w) PROVE TypeInv'
    <2>1. UNCHANGED <<history, trialRunning, row, event, consumed, account, owners, faults>>
        BY <1>9 DEF Lookup, Ledger
    <2>2. Moved(w)
        BY <1>9, <2>1, GoesMoves, AnswerMoves DEF Lookup, Ledger, Places
    <2>3. mishaps' \subseteq Mishaps
        BY <1>9 DEF Lookup, Ledger, TableType, Happened, Mishaps
    <2>4. TableType'
        BY <2>1, <2>3 DEF TableType
    <2> QED BY <2>1, <2>2, <2>4, MovedType, EventStays DEF TypeInv
<1>10. ASSUME NEW w \in Workers, Create(w) PROVE TypeInv'
    <2>1. carried[w] \in 1 .. Len(history) /\ Payload(w) \in Statuses /\ user[w] \in People
        BY <1>10 DEF Create, WorkType, HistoryType, Payload
    <2>2. UNCHANGED <<history, trialRunning, event, consumed, account, mishaps, faults>>
        BY <1>10 DEF Create
    <2>3. Moved(w)
        BY <1>10, <2>2, GoesMoves DEF Create, Places
    <2>4. \/ row' = row /\ owners' = owners
          \/ /\ row' = [exists |-> TRUE, version |-> carried[w], status |-> Payload(w),
                        tombstone |-> FALSE, owner |-> user[w]]
             /\ owners' = owners \union {user[w]}
        BY <1>10 DEF Create
    <2>5. row' \in Rows /\ row'.version <= Len(history)
        <3>1. carried[w] \in Nat /\ carried[w] <= Len(history)
            BY <2>1
        <3>2. CASE row' = row
            BY <3>2 DEF TableType
        <3>3. CASE row' = [exists |-> TRUE, version |-> carried[w], status |-> Payload(w),
                           tombstone |-> FALSE, owner |-> user[w]]
            <4>1. row' \in Rows
                BY <2>1, <3>1, <3>3 DEF Rows
            <4>2. row'.version = carried[w]
                BY <3>3
            <4> QED BY <3>1, <4>1, <4>2
        <3> QED BY <2>4, <3>2, <3>3
    <2>6. owners' \subseteq People
        BY <2>1, <2>4 DEF TableType
    <2> QED BY <2>2, <2>3, <2>5, <2>6, RowWritten, MovedType, EventStays DEF TypeInv
<1>11. ASSUME NEW w \in Workers, NoteConsumed(w) \/ NoteFails(w) PROVE TypeInv'
    <2>1. /\ UNCHANGED <<history, trialRunning, row, event, account, owners, mishaps>>
          /\ consumed' = consumed \/ consumed' = TRUE
          /\ faults' = faults \/ (faults < MaxFaults /\ faults' = faults + 1)
        BY <1>11 DEF NoteConsumed, NoteFails
    <2>2. Moved(w)
        BY <1>11, <2>1, AnswerMoves DEF NoteConsumed, NoteFails
    <2>3. consumed' \in BOOLEAN /\ faults' \in 0 .. MaxFaults
        BY <2>1, FaultCounted DEF TableType
    <2>4. TableType'
        BY <2>1, <2>3 DEF TableType
    <2> QED BY <2>1, <2>2, <2>4, MovedType, EventStays DEF TypeInv
<1>12. ASSUME NEW w \in Workers, HandlerReads(w) PROVE TypeInv'
    <2>1. UNCHANGED <<history, trialRunning, row, event, consumed, account, owners, mishaps, faults>>
        BY <1>12 DEF HandlerReads
    <2>2. Moved(w)
        BY <1>12 DEF HandlerReads, Moved, WorkType, Places, Requests
    <2> QED BY <2>1, <2>2, MovedType, TableStays, EventStays DEF TypeInv
<1>13. ASSUME NEW w \in Workers, ProviderAgrees(w) PROVE TypeInv'
    <2>1. Wanted(w) \in Statuses
        BY DEF Wanted, Statuses
    <2>2. history' = history \/ (history' = Append(history, Wanted(w)) /\ Len(history) < MaxVersions)
        BY <1>13 DEF ProviderAgrees
    <2>3. HistoryType' /\ Len(history') \in Nat \ {0} /\ Len(history') >= Len(history)
        BY <2>1, <2>2, HistoryGrows, MirrorAssumption DEF HistoryType
    <2>4. /\ carried' = [carried EXCEPT ![w] = Len(history')] /\ pc' = [pc EXCEPT ![w] = "write"]
          /\ UNCHANGED <<trialRunning, row, event, consumed, account, user, asked, owners, mishaps, faults>>
        BY <1>13 DEF ProviderAgrees
    <2>5. WorkType'
        BY <2>3, <2>4 DEF WorkType, Places, Workers
    <2>6. EventType' /\ TableType'
        BY <2>3, <2>4 DEF EventType, TableType, Rows
    <2> QED BY <2>3, <2>5, <2>6 DEF TypeInv
<1>14. ASSUME NEW w \in Workers, WriteBack(w) PROVE TypeInv'
    <2>1. UNCHANGED <<history, trialRunning, event, consumed, account, owners, faults>>
        BY <1>14 DEF WriteBack
    <2>2. Moved(w)
        BY <1>14, <2>1, LeaveMoves DEF WriteBack
    <2>3. row' \in Rows /\ row'.version = row.version
        BY <1>14 DEF WriteBack, Wanted, TableType, Rows, Statuses
    <2>4. mishaps' \subseteq Mishaps
        BY <1>14 DEF WriteBack, TableType, Happened, Mishaps
    <2>5. TableType'
        BY <2>1, <2>3, <2>4 DEF TableType
    <2> QED BY <2>1, <2>2, <2>5, MovedType, EventStays DEF TypeInv
<1>15. CASE (\E s \in Statuses : ProviderChanges(s)) \/ TrialEnds
    <2>1. \/ history' = history
          \/ \E s \in Statuses : history' = Append(history, s) /\ Len(history) < MaxVersions
        BY <1>15 DEF ProviderChanges, TrialEnds, Statuses
    <2>2. HistoryType' /\ Len(history') \in Nat \ {0} /\ Len(history') >= Len(history)
        BY <2>1, HistoryGrows, MirrorAssumption DEF HistoryType
    <2>3. /\ trialRunning' \in BOOLEAN
          /\ UNCHANGED <<row, event, consumed, account, pc, carried, user, asked, owners, mishaps, faults>>
        BY <1>15 DEF ProviderChanges, TrialEnds, TableType
    <2>4. WorkType'
        BY <2>2, <2>3 DEF WorkType
    <2>5. EventType' /\ TableType'
        BY <2>2, <2>3 DEF EventType, TableType, Rows
    <2> QED BY <2>2, <2>4, <2>5 DEF TypeInv
<1>16. CASE DeletionFinds \/ DeletionNotes \/ AccountGoes
    <2>1. UNCHANGED <<history, trialRunning, event, pc, carried, user, asked, owners>>
        BY <1>16 DEF DeletionFinds, DeletionNotes, AccountGoes
    <2>2. NoRow \in Rows /\ NoRow.version = 0
        BY DEF NoRow, Rows, Statuses, People
    <2>3. mishaps' \subseteq Mishaps
        BY <1>16 DEF DeletionFinds, DeletionNotes, AccountGoes, TableType, Happened, Mishaps
    <2>4. faults' \in 0 .. MaxFaults /\ consumed' \in BOOLEAN
        <3>1. faults' = faults \/ (faults < MaxFaults /\ faults' = faults + 1)
            BY <1>16 DEF DeletionFinds, DeletionNotes, AccountGoes
        <3>2. consumed' = consumed \/ consumed' = TRUE
            BY <1>16 DEF DeletionFinds, DeletionNotes, AccountGoes
        <3> QED BY <3>1, <3>2, FaultCounted DEF TableType
    <2>5. account' \in {"here", "leaving", "emptied", "gone"} /\ row' \in {row, NoRow}
        BY <1>16 DEF DeletionFinds, DeletionNotes, AccountGoes
    <2>6. TableType'
        BY <2>1, <2>2, <2>3, <2>4, <2>5 DEF TableType
    <2> QED BY <2>1, <2>6, EventStays DEF TypeInv, HistoryType, WorkType
<1>17. CASE UNCHANGED vars
    BY <1>17 DEF vars, TypeInv, HistoryType, WorkType, EventType, TableType
<1> QED
    BY <1>1, <1>2, <1>3, <1>4, <1>5, <1>6, <1>7, <1>8, <1>9, <1>10, <1>11, <1>12, <1>13, <1>14,
       <1>15, <1>16, <1>17 DEF Next, Delivering, Mirroring, Handling

\* The variables of the mirror keep their types: the row and every worker carry
\* states the provider has really been in.
THEOREM TypeCorrect == Spec => []TypeOK
<1>1. Init => TypeInv
    BY TypeInit
<1>2. TypeInv /\ [Next]_vars => TypeInv'
    BY TypeStep
<1> QED BY <1>1, <1>2, TypeInvImplies, PTL DEF Spec

-----------------------------------------------------------------------------
(* Where a step leaves its worker. *)

WorkerStep(w) == Delivering(w) \/ Confirm(w) \/ Mirroring(w) \/ Handling(w) \/ Abandon(w)

Undisturbed(w) == /\ pc'[w] = pc[w] /\ carried'[w] = carried[w]
                  /\ user'[w] = user[w] /\ asked'[w] = asked[w]

LEMMA Landing ==
    ASSUME TypeInv, NEW w \in Workers
    PROVE  /\ Leave(w) => pc'[w] = "idle"
           /\ \A p : Goes(w, p) => /\ pc'[w] = p /\ carried'[w] = carried[w]
                                   /\ user'[w] = user[w] /\ asked'[w] = asked[w]
           /\ Answer(w) => pc'[w] = "idle" \/ (pc'[w] = "mark" /\ carried'[w] = carried[w])
BY DEF TypeInv, WorkType, Leave, Answer

LEMMA LeavesOthers ==
    ASSUME TypeInv, NEW w \in Workers, NEW v \in Workers \ {w}
    PROVE  /\ Leave(w) => Undisturbed(v)
           /\ \A p : Goes(w, p) => Undisturbed(v)
           /\ Answer(w) => Undisturbed(v)
BY DEF TypeInv, WorkType, Leave, Answer, Undisturbed

HIDE DEF Goes

LEMMA OthersStay ==
    ASSUME TypeInv, NEW w \in Workers, WorkerStep(w), NEW v \in Workers \ {w}
    PROVE  Undisturbed(v)
<1>1. CASE Reclaim(w) \/ Mark(w) \/ Mirroring(w) \/ ProviderRefuses(w) \/ WriteBack(w) \/ Abandon(w)
    BY <1>1, LeavesOthers DEF Reclaim, Mark, Mirroring, Tombstone, TombstoneFails, Update, Lookup, Ledger,
       Create, NoteConsumed, NoteFails, Retry, ProviderRefuses, WriteBack, Abandon
<1>2. CASE Claim(w) \/ Confirm(w) \/ HandlerReads(w) \/ ProviderAgrees(w)
    BY <1>2 DEF TypeInv, WorkType, Undisturbed, Claim, Confirm, HandlerReads, ProviderAgrees
<1>3. CASE Resolve(w)
    <2>1. CASE Leave(w)
        BY <2>1, LeavesOthers
    <2>2. CASE ~Leave(w)
        BY <1>3, <2>2 DEF TypeInv, WorkType, Undisturbed, Resolve
    <2> QED BY <2>1, <2>2
<1> QED BY <1>1, <1>2, <1>3 DEF WorkerStep, Delivering, Handling

\* Without a worker's step nobody moves.
LEMMA Idling ==
    ASSUME [Next]_vars, \A w \in Workers : ~WorkerStep(w)
    PROVE  /\ UNCHANGED <<pc, carried, user, asked, event, owners>>
           /\ \/ (\E s \in Statuses : ProviderChanges(s)) \/ TrialEnds
              \/ DeletionFinds \/ DeletionNotes \/ AccountGoes \/ UNCHANGED vars
BY DEF WorkerStep, Next, vars, ProviderChanges, TrialEnds, DeletionFinds, DeletionNotes, AccountGoes

\* The tables and who writes them.
LEMMA WhoWrites ==
    ASSUME [Next]_vars
    PROVE  /\ row' = row \/ AccountGoes
              \/ \E w \in Workers : Tombstone(w) \/ WriteBack(w) \/ Update(w) \/ Retry(w) \/ Create(w)
           /\ account' = account \/ DeletionFinds \/ DeletionNotes \/ AccountGoes
           /\ consumed' = consumed \/ DeletionNotes \/ \E w \in Workers : NoteConsumed(w)
           /\ owners' = owners \/ \E w \in Workers : Create(w)
           /\ event' = event \/ \E w \in Workers : Claim(w) \/ Reclaim(w) \/ Mark(w)
           /\ \A m \in mishaps : m \in mishaps'
           /\ trialRunning' = trialRunning \/ TrialEnds
BY DEF Next, Delivering, Mirroring, Handling, vars, Claim, Reclaim, Resolve, Mark, Confirm,
   Tombstone, TombstoneFails, Update, Lookup, Ledger, Create, NoteConsumed, NoteFails, Retry,
   HandlerReads, ProviderAgrees, ProviderRefuses, WriteBack, Abandon, ProviderChanges,
   TrialEnds, DeletionFinds, DeletionNotes, AccountGoes, Happened

-----------------------------------------------------------------------------
(* States are mirrored: while the account is there, what has been seen to is *)
(* in the row, which only ever moves on to newer states.                     *)

Shown(v) == row.exists /\ row.version >= v
ShownNext(v) == row'.exists /\ row'.version >= v

Tracked ==
    account = "here" =>
        /\ consumed => row.exists
        /\ \A w \in Workers : pc[w] = "retry" => row.exists
        /\ \A w \in Workers : pc[w] = "note" => Shown(carried[w])
        /\ "crowded" \notin mishaps =>
               /\ \A w \in Workers : pc[w] = "mark" => Shown(carried[w])
               /\ \A v \in 1 .. MaxVersions : event[v] = "done" => Shown(v)

\* An account that is still there was there before, and its row did not go back.
LEMMA RowMovesOn ==
    ASSUME TypeInv, [Next]_vars, account' = "here"
    PROVE  /\ account = "here"
           /\ row.exists => row'.exists /\ row'.version >= row.version
<1>1. account = "here" /\ ~AccountGoes
    BY WhoWrites DEF DeletionFinds, DeletionNotes, AccountGoes
<1>2. row \in Rows /\ row.version \in Nat
    BY DEF TypeInv, TableType, Rows
<1>3. ASSUME NEW w \in Workers, Tombstone(w) \/ WriteBack(w) PROVE row'.exists = row.exists /\ row'.version = row.version
    BY <1>2, <1>3 DEF Rows, Tombstone, WriteBack
<1>4. ASSUME NEW w \in Workers, Update(w) \/ Retry(w)
      PROVE  row' = row \/ (row'.exists = row.exists /\ row'.version >= row.version)
    <2>1. row' = row \/ (row' = Mirrored(w) /\ NotNewer(w))
        BY <1>4 DEF Update, Retry
    <2>2. Mirrored(w).exists = row.exists /\ Mirrored(w).version = carried[w]
        BY <1>2 DEF Mirrored, Rows
    <2> QED BY <2>1, <2>2 DEF NotNewer
<1>5. ASSUME NEW w \in Workers, Create(w), row.exists PROVE row' = row
    BY <1>5 DEF Create
<1> QED BY <1>1, <1>2, <1>3, <1>4, <1>5, WhoWrites

LEMMA TrackedStep == TypeInv /\ Tracked /\ [Next]_vars => Tracked'
<1> SUFFICES ASSUME TypeInv, Tracked, [Next]_vars, account' = "here" PROVE Tracked'
    BY DEF Tracked
<1>1. /\ account = "here"
      /\ row.exists => row'.exists
      /\ row.version \in Nat /\ row'.version \in Nat
    BY RowMovesOn, TypeStep DEF TypeInv, TableType, Rows
<1>2. \A v \in Nat : Shown(v) => ShownNext(v)
    BY <1>1, RowMovesOn DEF Shown, ShownNext
<1>3. \A w \in Workers : carried[w] \in Nat
    BY LatestIsPositive DEF TypeInv, WorkType
<1>4. consumed' => consumed \/ \E w \in Workers : NoteConsumed(w)
    BY <1>1, WhoWrites DEF DeletionNotes
<1>5. ASSUME NEW w \in Workers, WorkerStep(w),
             consumed' => row'.exists,
             pc'[w] = "retry" => row'.exists,
             pc'[w] = "note" => ShownNext(carried'[w]),
             "crowded" \notin mishaps' /\ pc'[w] = "mark" => ShownNext(carried'[w]),
             "crowded" \notin mishaps =>
                 \A v \in 1 .. MaxVersions : event'[v] = "done" => event[v] = "done" \/ ShownNext(v)
      PROVE  Tracked'
    <2>1. \A v \in Workers \ {w} : Undisturbed(v)
        BY <1>5, OthersStay
    <2>2. "crowded" \notin mishaps' => "crowded" \notin mishaps
        BY WhoWrites
    <2>3. ASSUME NEW v \in 1 .. MaxVersions, "crowded" \notin mishaps, event[v] = "done"
          PROVE  ShownNext(v)
        BY <2>3, <1>1, <1>2 DEF Tracked
    <2>4. \A v \in Workers \ {w} : carried'[v] = carried[v] /\ carried[v] \in Nat
        BY <2>1, <1>3 DEF Undisturbed
    <2> QED BY <1>1, <1>2, <1>5, <2>1, <2>2, <2>3, <2>4 DEF Tracked, Undisturbed, Shown, ShownNext
<1> USE <1>1, Landing
<1>6. ASSUME NEW w \in Workers, Tombstone(w) \/ TombstoneFails(w) \/ HandlerReads(w)
                                 \/ ProviderAgrees(w) \/ ProviderRefuses(w) \/ WriteBack(w)
                                 \/ Claim(w) \/ Reclaim(w) \/ Resolve(w) \/ Confirm(w) \/ Abandon(w)
      PROVE  Tracked'
    <2>1. pc'[w] \notin {"retry", "note", "mark"}
        <3>1. CASE Claim(w) \/ HandlerReads(w) \/ Confirm(w) \/ ProviderAgrees(w)
            BY <3>1 DEF TypeInv, WorkType, Claim, HandlerReads, Confirm, ProviderAgrees
        <3>2. CASE Resolve(w)
            <4>1. Leave(w) \/ Goto(w, "tombstone")
                BY <3>2 DEF Resolve
            <4> QED BY <4>1 DEF TypeInv, WorkType
        <3>3. CASE Tombstone(w) \/ TombstoneFails(w) \/ Reclaim(w)
            <4>1. Goes(w, "update") \/ Goes(w, "resolve")
                BY <3>3 DEF Tombstone, TombstoneFails, Reclaim
            <4> QED BY <4>1
        <3>4. CASE ProviderRefuses(w) \/ WriteBack(w) \/ Abandon(w)
            BY <3>4 DEF ProviderRefuses, WriteBack, Abandon
        <3> QED BY <1>6, <3>1, <3>2, <3>3, <3>4
    <2>2. \A v \in 1 .. MaxVersions : event'[v] = "done" => event[v] = "done"
        BY <1>6 DEF TypeInv, EventType, Tombstone, TombstoneFails, HandlerReads, ProviderAgrees,
           ProviderRefuses, WriteBack, Claim, Reclaim, Resolve, Confirm, Abandon
    <2>3. consumed' = consumed
        BY <1>6 DEF Tombstone, TombstoneFails, HandlerReads, ProviderAgrees,
           ProviderRefuses, WriteBack, Claim, Reclaim, Resolve, Confirm, Abandon
    <2> QED BY <1>5, <1>6, <2>1, <2>2, <2>3
        DEF Tracked, WorkerStep, Delivering, Mirroring, Handling
<1>7. ASSUME NEW w \in Workers, Mark(w) PROVE Tracked'
    <2>1. pc'[w] = "idle" /\ pc[w] = "mark" /\ UNCHANGED <<consumed, row>>
        BY <1>7 DEF Mark
    <2>2. ASSUME NEW v \in 1 .. MaxVersions, event'[v] = "done", "crowded" \notin mishaps
          PROVE  event[v] = "done" \/ ShownNext(v)
        <3>1. v = carried[w] \/ event'[v] = event[v]
            BY <1>7 DEF Mark, TypeInv, EventType
        <3> QED BY <2>1, <2>2, <3>1 DEF Tracked, Shown, ShownNext
    <2> QED BY <1>5, <1>7, <2>1, <2>2 DEF Tracked, WorkerStep, Delivering
<1>8. ASSUME NEW w \in Workers, Update(w) \/ Retry(w) PROVE Tracked'
    <2>1. UNCHANGED <<event, consumed, mishaps>> /\ pc'[w] \notin {"retry", "note"}
        BY <1>8 DEF Update, Retry
    <2>2. ASSUME pc'[w] = "mark" PROVE ShownNext(carried'[w])
        <3>1. carried'[w] = carried[w]
            BY <1>8, <2>2 DEF Update, Retry
        <3>2. CASE row' = Mirrored(w) /\ row.exists
            <4>1. row'.exists /\ row'.version = carried[w]
                BY <3>2 DEF Mirrored, TypeInv, TableType, Rows
            <4> QED BY <3>1, <4>1, <1>3 DEF ShownNext
        <3>3. CASE Retry(w) /\ row' = row /\ ~(row.exists /\ NotNewer(w))
            BY <3>1, <3>3, <1>3 DEF Tracked, Retry, NotNewer, ShownNext
        <3> QED BY <1>8, <2>2, <3>2, <3>3 DEF Update, Retry
    <2> QED BY <1>5, <1>8, <2>1, <2>2 DEF Tracked, WorkerStep, Mirroring
<1>9. ASSUME NEW w \in Workers, Lookup(w) PROVE Tracked'
    <2>1. UNCHANGED <<row, event, consumed>> /\ pc'[w] \notin {"retry", "note"}
        BY <1>9 DEF Lookup
    <2>2. ASSUME pc'[w] = "mark", "crowded" \notin mishaps' PROVE ShownNext(carried'[w])
        <3>1. row.exists /\ carried'[w] = carried[w] /\ ~(row.version < carried[w])
            BY <1>9, <2>2 DEF Lookup, Happened
        <3> QED BY <2>1, <3>1, <1>3 DEF ShownNext
    <2> QED BY <1>5, <1>9, <2>1, <2>2 DEF Tracked, WorkerStep, Mirroring
<1>10. ASSUME NEW w \in Workers, Ledger(w) PROVE Tracked'
    <2>1. UNCHANGED <<row, event, consumed>> /\ pc'[w] \notin {"retry", "note"}
        BY <1>10 DEF Ledger
    <2>2. ASSUME pc'[w] = "mark", "crowded" \notin mishaps' PROVE ShownNext(carried'[w])
        <3>1. consumed /\ carried'[w] = carried[w] /\ ~(row.exists /\ row.version < carried[w])
            BY <1>10, <2>2 DEF Ledger, Happened
        <3> QED BY <2>1, <3>1, <1>3 DEF ShownNext, Tracked
    <2> QED BY <1>5, <1>10, <2>1, <2>2 DEF Tracked, WorkerStep, Mirroring
<1>11. ASSUME NEW w \in Workers, Create(w) PROVE Tracked'
    <2>1. /\ UNCHANGED <<event, consumed, mishaps>> /\ row'.exists
          /\ pc'[w] = "retry" \/ (pc'[w] = "note" /\ row'.version = carried[w] /\ carried'[w] = carried[w])
        BY <1>11 DEF Create
    <2> QED BY <1>3, <1>5, <1>11, <2>1 DEF Tracked, WorkerStep, Mirroring, ShownNext
<1>12. ASSUME NEW w \in Workers, NoteConsumed(w) \/ NoteFails(w) PROVE Tracked'
    <2>1. /\ UNCHANGED <<row, event, mishaps>> /\ pc[w] = "note"
          /\ pc'[w] = "idle" \/ (pc'[w] = "mark" /\ carried'[w] = carried[w])
        BY <1>12 DEF NoteConsumed, NoteFails
    <2> QED BY <1>5, <1>12, <2>1 DEF Tracked, WorkerStep, Mirroring, Shown, ShownNext
<1>13. CASE \A w \in Workers : ~WorkerStep(w)
    <2>1. UNCHANGED <<pc, carried, event>>
        BY <1>13, Idling
    <2>2. ~DeletionFinds /\ ~DeletionNotes /\ ~AccountGoes
        BY DEF DeletionFinds, DeletionNotes, AccountGoes
    <2>3. UNCHANGED <<row, consumed, mishaps>>
        BY <1>13, <2>2, Idling DEF ProviderChanges, TrialEnds, vars
    <2> QED BY <2>1, <2>3 DEF Tracked, Shown
<1> QED
    BY <1>6, <1>7, <1>8, <1>9, <1>10, <1>11, <1>12, <1>13
    DEF WorkerStep, Delivering, Mirroring, Handling

\* While the account is there, an event that is finished with is in the row, as it
\* was or overtaken by a newer state, unless two first deliveries crowded each other.
THEOREM StatesAreMirrored == Spec => []DoneMeansMirrored
<1>1. Init => TypeInv /\ Tracked
    BY TypeInit DEF Init, Tracked, TypeInv, WorkType, EventType
<1>2. TypeInv /\ Tracked /\ [Next]_vars => TypeInv' /\ Tracked'
    BY TypeStep, TrackedStep
<1>3. TypeInv /\ Tracked => DoneMeansMirrored
    BY LatestIsPositive, MirrorAssumption
    DEF TypeInv, HistoryType, Tracked, Shown, DoneMeansMirrored, Finished
<1> QED BY <1>1, <1>2, <1>3, PTL DEF Spec

-----------------------------------------------------------------------------
(* Ownership: an heir gets a subscription only while it was never anybody's. *)

\* A row, once the account is gone, stays; a row of the account is either in the
\* ledger when it goes or never was.
Inherited ==
    /\ owners # {} => row.exists \/ account = "gone"
    /\ row.exists => row.owner \in owners
    /\ "heir" \in owners => account = "gone"
    /\ \A w \in Workers : user[w] = "heir" => account = "gone"
    /\ "unmarked" \notin mishaps =>
           /\ "heir" \in owners => row.exists
           /\ account = "gone" /\ owners # {} => row.exists \/ consumed
           /\ \A w \in Workers : pc[w] = "create" /\ user[w] = "heir" => owners = {} \/ row.exists
           /\ \A p, q \in owners : p = q

\* Writes to a row keep it there, its owner's.
LEMMA RowStaysOwned ==
    ASSUME TypeInv, [Next]_vars, ~AccountGoes, row.exists
    PROVE  row'.exists /\ row'.owner = row.owner
<1>1. row \in Rows
    BY DEF TypeInv, TableType
<1>2. ASSUME NEW w \in Workers, Tombstone(w) \/ WriteBack(w) \/ Update(w) \/ Retry(w) \/ Create(w)
      PROVE  row'.exists /\ row'.owner = row.owner
    BY <1>1, <1>2 DEF Rows, Tombstone, WriteBack, Update, Retry, Create, Mirrored
<1> QED BY <1>2, WhoWrites

\* Only a creation makes a row, and it makes an owner.
LEMMA RowsAreCreated ==
    ASSUME TypeInv, [Next]_vars, ~row.exists, \A w \in Workers : ~Create(w)
    PROVE  ~row'.exists
<1>1. row \in Rows
    BY DEF TypeInv, TableType
<1>2. ASSUME NEW w \in Workers, Tombstone(w) \/ WriteBack(w) \/ Update(w) \/ Retry(w)
      PROVE  ~row'.exists
    BY <1>1, <1>2 DEF Rows, Tombstone, WriteBack, Update, Retry
<1>3. AccountGoes => ~row'.exists
    BY DEF AccountGoes, NoRow
<1> QED BY <1>2, <1>3, WhoWrites

LEMMA InheritedStep == TypeInv /\ Inherited /\ [Next]_vars => Inherited'
<1> SUFFICES ASSUME TypeInv, Inherited, [Next]_vars PROVE Inherited'
    OBVIOUS
<1>1. /\ ~AccountGoes /\ row.exists => row'.exists /\ row'.owner = row.owner
      /\ ~row.exists /\ (\A w \in Workers : ~Create(w)) => ~row'.exists
      /\ "unmarked" \notin mishaps' => "unmarked" \notin mishaps
    BY RowStaysOwned, RowsAreCreated, WhoWrites
<1>2. /\ account' = "gone" => account = "gone" \/ AccountGoes
      /\ account = "gone" => account' = "gone"
      /\ AccountGoes => account # "gone"
      /\ consumed => consumed'
    <2>1. (account' = account \/ account' # "gone" \/ AccountGoes) /\ (AccountGoes => account # "gone")
        BY WhoWrites DEF DeletionFinds, DeletionNotes, AccountGoes
    <2>2. account = "gone" => account' = account
        BY WhoWrites DEF DeletionFinds, DeletionNotes, AccountGoes
    <2>3. consumed => consumed'
        BY WhoWrites DEF DeletionNotes, NoteConsumed
    <2> QED BY <2>1, <2>2, <2>3
<1>3. \A w \in Workers : user[w] \in People
    BY DEF TypeInv, WorkType
<1> USE Landing
\* No new owner, and nobody reaches a creation but through the ledger.
<1>4. ASSUME NEW w \in Workers, WorkerStep(w), ~Create(w),
             user'[w] = "heir" => account = "gone",
             pc'[w] = "create" /\ user'[w] = "heir" =>
                 \/ pc[w] = "create" /\ user[w] = "heir"
                 \/ account = "gone" /\ ~consumed,
             UNCHANGED <<account, owners>>, ~AccountGoes
      PROVE  Inherited'
    <2>1. \A v \in Workers \ {w} : Undisturbed(v)
        BY <1>4, OthersStay
    <2>2. row.exists <=> row'.exists
        <3>1. \A v \in Workers : Create(v) => v = w
            <4> SUFFICES ASSUME NEW v \in Workers, Create(v), v # w PROVE FALSE
                OBVIOUS
            <4>1. Undisturbed(v) /\ pc[v] = "create" /\ pc'[v] \in {"retry", "note"}
                BY <2>1, Landing DEF Create
            <4> QED BY <4>1 DEF Undisturbed
        <3> QED BY <1>1, <1>4, <3>1
    <2>3. row'.exists => row'.owner \in owners'
        BY <1>1, <1>4, <2>2 DEF Inherited
    <2>4. \A v \in Workers : user'[v] = "heir" => account' = "gone"
        BY <1>4, <2>1 DEF Inherited, Undisturbed
    <2>5. ASSUME "unmarked" \notin mishaps', NEW v \in Workers, pc'[v] = "create", user'[v] = "heir"
          PROVE  owners = {} \/ row.exists
        BY <1>1, <1>4, <2>1, <2>5 DEF Inherited, Undisturbed
    <2> QED BY <1>1, <1>2, <1>4, <2>2, <2>3, <2>4, <2>5 DEF Inherited
<1>5. ASSUME NEW w \in Workers,
             Tombstone(w) \/ TombstoneFails(w) \/ Update(w) \/ Lookup(w) \/ NoteConsumed(w)
             \/ NoteFails(w) \/ Retry(w) \/ Reclaim(w) \/ Mark(w) \/ Abandon(w)
             \/ ProviderRefuses(w) \/ WriteBack(w)
      PROVE  Inherited'
    <2>1. \/ Leave(w) \/ Answer(w)
          \/ \E p \in {"update", "lookup", "ledger", "resolve"} : Goes(w, p)
        BY <1>5 DEF Tombstone, TombstoneFails, Update, Lookup, NoteConsumed, NoteFails, Retry,
           Reclaim, Mark, Abandon, ProviderRefuses, WriteBack
    <2>2. pc'[w] \notin {"create", "retry", "note"} /\ user'[w] \in {user[w], "buyer"}
        BY <2>1 DEF Leave, Answer, TypeInv, WorkType
    <2>3. UNCHANGED <<account, owners>> /\ ~Create(w) /\ ~AccountGoes
        BY <1>5, <2>2 DEF Tombstone, TombstoneFails, Update, Lookup, NoteConsumed, NoteFails, Retry,
           Reclaim, Mark, Abandon, ProviderRefuses, WriteBack, Create, AccountGoes
    <2> QED BY <1>4, <1>5, <2>2, <2>3 DEF Inherited, WorkerStep, Delivering, Mirroring, Handling
<1>6. ASSUME NEW w \in Workers, Claim(w) \/ HandlerReads(w) \/ ProviderAgrees(w) \/ Confirm(w)
      PROVE  Inherited'
    <2>1. pc'[w] \notin {"create", "retry", "note"} /\ (user'[w] = "heir" => account = "gone")
        BY <1>6 DEF Claim, HandlerReads, ProviderAgrees, Confirm, TypeInv, WorkType, Inherited
    <2>2. UNCHANGED <<account, owners>> /\ ~Create(w) /\ ~AccountGoes
        BY <1>6, <2>1 DEF Claim, HandlerReads, ProviderAgrees, Confirm, Create, AccountGoes
    <2> QED BY <1>4, <1>6, <2>1, <2>2 DEF WorkerStep, Delivering, Handling
<1>7. ASSUME NEW w \in Workers, Resolve(w) PROVE Inherited'
    <2>1. Leave(w) \/ (Goto(w, "tombstone") /\ user' \in {[user EXCEPT ![w] = p] : p \in People})
        BY <1>7 DEF Resolve, People, TypeInv, TableType, Rows
    <2>2. pc'[w] \in {"idle", "tombstone"}
        BY <2>1 DEF TypeInv, WorkType
    <2>3. user'[w] = "heir" => account = "gone"
        BY <1>7 DEF Resolve, Leave, TypeInv, WorkType
    <2>4. UNCHANGED <<account, owners>> /\ ~Create(w) /\ ~AccountGoes
        BY <1>7, <2>2 DEF Resolve, Create, AccountGoes
    <2> QED BY <1>4, <1>7, <2>2, <2>3, <2>4 DEF WorkerStep, Delivering
<1>8. ASSUME NEW w \in Workers, Ledger(w) PROVE Inherited'
    <2>1. UNCHANGED <<account, owners, row>> /\ ~AccountGoes /\ ~Create(w)
        BY <1>8 DEF Ledger, AccountGoes, Create
    <2>2. \/ pc'[w] \in {"idle", "mark"} /\ user'[w] \in {user[w], "buyer"}
          \/ pc'[w] = "create" /\ user'[w] = user[w] /\ ~consumed
        BY <1>8 DEF Ledger, Answer, Leave, TypeInv, WorkType
    <2> QED BY <1>4, <1>8, <2>1, <2>2 DEF Inherited, WorkerStep, Mirroring
<1>9. ASSUME NEW w \in Workers, Create(w) PROVE Inherited'
    <2>1. /\ UNCHANGED <<account, consumed, mishaps>> /\ pc[w] = "create"
          /\ pc'[w] \in {"retry", "note"} /\ user'[w] = user[w]
        BY <1>9 DEF Create
    <2>2. \A v \in Workers \ {w} : Undisturbed(v)
        BY <1>9, OthersStay DEF WorkerStep, Mirroring
    <2>3. CASE row.exists /\ UNCHANGED <<row, owners>>
        BY <2>1, <2>2, <2>3 DEF Inherited, Undisturbed
    <2>4. CASE ~row.exists /\ row'.exists /\ row'.owner = user[w] /\ owners' = owners \union {user[w]}
        <3>1. ASSUME "unmarked" \notin mishaps PROVE owners \subseteq {user[w]}
            <4>1. CASE user[w] = "heir"
                BY <2>1, <2>4, <3>1, <4>1 DEF Inherited
            <4>2. CASE user[w] = "buyer"
                BY <2>4, <3>1, <4>2 DEF Inherited, TypeInv, TableType, People
            <4> QED BY <1>3, <4>1, <4>2 DEF People
        <3>2. "heir" \in owners' => account = "gone"
            BY <2>4 DEF Inherited
        <3>3. \A v \in Workers : user'[v] = user[v]
            BY <2>1, <2>2 DEF Undisturbed
        <3> QED BY <2>1, <2>4, <3>1, <3>2, <3>3 DEF Inherited
    <2> QED BY <1>9, <2>3, <2>4 DEF Create
<1>10. CASE AccountGoes
    <2>1. /\ account # "gone" /\ account' = "gone" /\ ~row'.exists
          /\ UNCHANGED <<pc, user, owners, consumed>>
          /\ "unmarked" \notin mishaps' => "unmarked" \notin mishaps /\ (row.exists => consumed)
        BY <1>10 DEF AccountGoes, NoRow, Happened
    <2> QED BY <2>1 DEF Inherited
<1>11. CASE ~AccountGoes /\ \A w \in Workers : ~WorkerStep(w)
    <2>1. UNCHANGED <<pc, user, owners>>
        BY <1>11, Idling
    <2>2. UNCHANGED <<row, mishaps>>
        BY <1>11, Idling DEF ProviderChanges, TrialEnds, DeletionFinds, DeletionNotes, vars
    <2> QED BY <1>2, <1>11, <2>1, <2>2 DEF Inherited
<1> QED
    BY <1>5, <1>6, <1>7, <1>8, <1>9, <1>10, <1>11 DEF WorkerStep, Delivering, Mirroring, Handling

\* A subscription never has two owners: no later holder of the buyer's address is
\* given it, unless its account went before the ledger knew of its row.
THEOREM SubscriptionsAreOwnedOnce == Spec => []OwnedOnce
<1>1. Init => TypeInv /\ Inherited
    BY TypeInit DEF Init, Inherited, NoRow
<1>2. TypeInv /\ Inherited /\ [Next]_vars => TypeInv' /\ Inherited'
    BY TypeStep, InheritedStep
<1>3. Inherited => OwnedOnce
    BY DEF Inherited, OwnedOnce
<1> QED BY <1>1, <1>2, <1>3, PTL DEF Spec

-----------------------------------------------------------------------------
(* Cancelled trials: whoever is past the tombstone with a cancellation of a  *)
(* running trial left one, and no later write takes it away.                 *)

PastTombstone == {"update", "lookup", "ledger", "create", "note", "retry", "mark"}

Cut ==
    account = "here" /\ trialRunning /\ "missed" \notin mishaps =>
        /\ \A w \in Workers : pc[w] \in PastTombstone /\ history[carried[w]] = "cancelled"
               => row.exists /\ row.tombstone
        /\ \A v \in 1 .. MaxVersions : event[v] = "done" /\ history[v] = "cancelled"
               => row.exists /\ row.tombstone

LEMMA TombstonesStay ==
    ASSUME TypeInv, [Next]_vars, account' = "here", row.exists, row.tombstone
    PROVE  row'.exists /\ row'.tombstone
<1>1. row \in Rows /\ ~AccountGoes
    BY DEF TypeInv, TableType, AccountGoes
<1>2. row'.exists
    BY RowMovesOn
<1>3. ASSUME NEW w \in Workers, Update(w) \/ Retry(w) \/ Create(w) PROVE row'.tombstone
    BY <1>1, <1>3 DEF Rows, Update, Retry, Create, Mirrored
<1>4. ASSUME NEW w \in Workers, Tombstone(w) PROVE row'.tombstone
    BY <1>1, <1>4 DEF Rows, Tombstone
<1>5. ASSUME NEW w \in Workers, WriteBack(w) PROVE row'.tombstone
    BY <1>1, <1>5 DEF Rows, WriteBack
<1> QED BY <1>1, <1>2, <1>3, <1>4, <1>5, WhoWrites

\* The provider's states are there to stay.
LEMMA StatesStay ==
    ASSUME TypeInv, [Next]_vars, NEW v \in 1 .. Len(history)
    PROVE  history'[v] = history[v]
<1>1. history' = history \/ \E s \in Statuses : history' = Append(history, s)
    <2>1. \A w \in Workers : Wanted(w) \in Statuses
        BY DEF Wanted, Statuses
    <2> QED BY <2>1 DEF Next, Delivering, Mirroring, Handling, vars, Claim, Reclaim, Resolve, Mark, Confirm,
           Tombstone, TombstoneFails, Update, Lookup, Ledger, Create, NoteConsumed, NoteFails, Retry,
           HandlerReads, ProviderAgrees, ProviderRefuses, WriteBack, Abandon, ProviderChanges,
           TrialEnds, DeletionFinds, DeletionNotes, AccountGoes, Statuses
<1> QED BY <1>1, HistoryGrows DEF TypeInv

LEMMA CutStep == TypeInv /\ Cut /\ [Next]_vars => Cut'
<1> SUFFICES ASSUME TypeInv, Cut, [Next]_vars, account' = "here", trialRunning', "missed" \notin mishaps'
             PROVE  Cut'
    BY DEF Cut
<1>1. account = "here" /\ trialRunning /\ "missed" \notin mishaps
    BY RowMovesOn, WhoWrites DEF TrialEnds
<1>2. row.exists /\ row.tombstone => row'.exists /\ row'.tombstone
    BY TombstonesStay
<1>3. \A w \in Workers : pc[w] \in PastTombstone => carried[w] \in 1 .. Len(history)
    BY LatestIsPositive DEF TypeInv, WorkType, PastTombstone
<1>4. \A v \in 1 .. MaxVersions : event[v] = "done" => v \in 1 .. Len(history)
    BY LatestIsPositive, MirrorAssumption DEF TypeInv, EventType
\* A step that brings no cancellation past the tombstone, nor finishes one.
<1>5. ASSUME NEW w \in Workers, WorkerStep(w),
             pc'[w] \in PastTombstone /\ history'[carried'[w]] = "cancelled" =>
                 (pc[w] \in PastTombstone /\ carried'[w] = carried[w]) \/ (row'.exists /\ row'.tombstone),
             \A v \in 1 .. MaxVersions : event'[v] = "done" =>
                 event[v] = "done" \/ (pc[w] \in PastTombstone /\ carried[w] = v)
      PROVE  Cut'
    <2>1. \A v \in Workers \ {w} : Undisturbed(v)
        BY <1>5, OthersStay
    <2>2. ASSUME NEW v \in Workers, pc'[v] \in PastTombstone, history'[carried'[v]] = "cancelled"
          PROVE  row'.exists /\ row'.tombstone
        <3>1. CASE pc[v] \in PastTombstone /\ carried'[v] = carried[v]
            BY <1>1, <1>2, <1>3, <2>2, <3>1, StatesStay DEF Cut
        <3>2. CASE row'.exists /\ row'.tombstone
            BY <3>2
        <3> QED BY <1>5, <2>1, <2>2, <3>1, <3>2 DEF Undisturbed
    <2>3. ASSUME NEW v \in 1 .. MaxVersions, event'[v] = "done", history'[v] = "cancelled"
          PROVE  row'.exists /\ row'.tombstone
        <3>1. v \in 1 .. Len(history)
            BY <1>3, <1>4, <1>5, <2>3
        <3>2. history[v] = "cancelled"
            BY <2>3, <3>1, StatesStay
        <3> QED BY <1>1, <1>2, <1>5, <2>3, <3>2 DEF Cut
    <2> QED BY <2>2, <2>3 DEF Cut
<1> USE Landing
<1>6. ASSUME NEW w \in Workers, Tombstone(w) PROVE Cut'
    <2>1. UNCHANGED <<event, history>> /\ carried'[w] = carried[w] /\ Payload(w) = history[carried[w]]
        BY <1>6 DEF Tombstone, Payload
    <2>2. CancelledInTrial(w) => row.exists
        BY <1>6 DEF Tombstone, Happened
    <2>3. CancelledInTrial(w) /\ row.exists => row'.exists /\ row'.tombstone
        BY <1>6 DEF Tombstone, TypeInv, TableType, Rows
    <2> QED BY <1>1, <1>5, <1>6, <2>1, <2>2, <2>3 DEF CancelledInTrial, WorkerStep, Mirroring
<1>7. ASSUME NEW w \in Workers, TombstoneFails(w) PROVE Cut'
    BY <1>7 DEF TombstoneFails, Happened
<1>8. ASSUME NEW w \in Workers, Update(w) \/ Retry(w) \/ Lookup(w) \/ Ledger(w) \/ Create(w)
                                \/ NoteConsumed(w) \/ NoteFails(w) PROVE Cut'
    <2>1. UNCHANGED event /\ pc[w] \in PastTombstone
        BY <1>8 DEF Update, Retry, Lookup, Ledger, Create, NoteConsumed, NoteFails, PastTombstone
    <2>2. Answer(w) \/ \E p \in PastTombstone : Goes(w, p)
        BY <1>8 DEF Update, Retry, Lookup, Ledger, Create, NoteConsumed, NoteFails, PastTombstone
    <2>3. pc'[w] \in PastTombstone => carried'[w] = carried[w]
        BY <2>2 DEF PastTombstone
    <2> QED BY <1>5, <1>8, <2>1, <2>3 DEF WorkerStep, Mirroring
<1>9. ASSUME NEW w \in Workers, Mark(w) PROVE Cut'
    <2>1. pc[w] \in PastTombstone /\ pc'[w] \notin PastTombstone
        BY <1>9 DEF Mark, PastTombstone
    <2>2. ASSUME NEW v \in 1 .. MaxVersions PROVE v = carried[w] \/ event'[v] = event[v]
        BY <1>9 DEF Mark, TypeInv, EventType
    <2> QED BY <1>5, <1>9, <2>1, <2>2 DEF WorkerStep, Delivering
<1>10. ASSUME NEW w \in Workers,
              Claim(w) \/ Reclaim(w) \/ Resolve(w) \/ Confirm(w) \/ Abandon(w) \/ Handling(w)
       PROVE  Cut'
    <2>1. pc'[w] \notin PastTombstone
        <3>1. CASE Claim(w) \/ HandlerReads(w) \/ Confirm(w) \/ ProviderAgrees(w)
            BY <3>1 DEF TypeInv, WorkType, Claim, HandlerReads, Confirm, ProviderAgrees, PastTombstone
        <3>2. CASE Resolve(w)
            <4>1. Leave(w) \/ Goto(w, "tombstone")
                BY <3>2 DEF Resolve
            <4> QED BY <4>1 DEF TypeInv, WorkType, PastTombstone
        <3>3. CASE Reclaim(w) \/ ProviderRefuses(w) \/ WriteBack(w) \/ Abandon(w)
            <4>1. Goes(w, "resolve") \/ Leave(w)
                BY <3>3 DEF Reclaim, ProviderRefuses, WriteBack, Abandon
            <4> QED BY <4>1 DEF PastTombstone
        <3> QED BY <1>10, <3>1, <3>2, <3>3 DEF Handling
    <2>2. \A v \in 1 .. MaxVersions : event'[v] = "done" => event[v] = "done"
        BY <1>10 DEF TypeInv, EventType, Handling, HandlerReads, ProviderAgrees,
           ProviderRefuses, WriteBack, Claim, Reclaim, Resolve, Confirm, Abandon
    <2> QED BY <1>5, <1>10, <2>1, <2>2 DEF WorkerStep, Delivering
<1>11. CASE \A w \in Workers : ~WorkerStep(w)
    <2>1. UNCHANGED <<pc, carried, event>>
        BY <1>11, Idling
    <2> QED BY <1>1, <1>2, <1>3, <1>4, <2>1, StatesStay DEF Cut
<1> QED BY <1>6, <1>7, <1>8, <1>9, <1>10, <1>11 DEF WorkerStep, Delivering, Mirroring

\* A trial whose cancellation has been dealt with grants nothing for the rest of its
\* window, unless that cancellation met no row or its tombstone was not written.
THEOREM TrialsStayCancelled == Spec => []TrialStaysCancelled
<1>1. Init => TypeInv /\ Cut
    <2> SUFFICES ASSUME Init PROVE TypeInv /\ Cut
        OBVIOUS
    <2>1. (\A w \in Workers : pc[w] = "idle") /\ (\A v \in 1 .. MaxVersions : event[v] = "none")
        BY DEF Init
    <2> QED BY <2>1, TypeInit DEF Cut, PastTombstone
<1>2. TypeInv /\ Cut /\ [Next]_vars => TypeInv' /\ Cut'
    BY TypeStep, CutStep
<1>3. TypeInv /\ Cut => TrialStaysCancelled
    BY LatestIsPositive, MirrorAssumption
    DEF TypeInv, HistoryType, Cut, TrialStaysCancelled, Finished, Grants
<1> QED BY <1>1, <1>2, <1>3, PTL DEF Spec

-----------------------------------------------------------------------------
(* At rest: a row that is up to date tells the provider's state.             *)

Faithful ==
    account = "here" =>
        /\ \A w \in Workers : pc[w] = "write" => carried[w] \in 1 .. Len(history)
                                                 /\ history[carried[w]] = Wanted(w)
        /\ "overtaken" \notin mishaps /\ row.exists /\ row.version = Len(history)
               => row.status = history[Len(history)]

LEMMA FaithfulStep == TypeInv /\ Faithful /\ [Next]_vars => Faithful'
<1> SUFFICES ASSUME TypeInv, Faithful, [Next]_vars, account' = "here" PROVE Faithful'
    BY DEF Faithful
<1>1. /\ account = "here" /\ ("overtaken" \notin mishaps' => "overtaken" \notin mishaps)
      /\ row \in Rows /\ row.version <= Len(history) /\ Len(history) \in Nat \ {0}
      /\ carried \in [Workers -> 0 .. Len(history)]
    BY RowMovesOn, WhoWrites, LatestIsPositive DEF TypeInv, TableType, WorkType
<1>2. \A v \in 1 .. Len(history) : history'[v] = history[v]
    BY StatesStay
\* A step that sends nobody to write, and leaves the row as true as it was.
<1>3. ASSUME NEW w \in Workers, WorkerStep(w), UNCHANGED history, pc'[w] # "write",
             "overtaken" \notin mishaps' /\ row'.exists /\ row'.version = Len(history) =>
                 \/ row.exists /\ row.version = row'.version /\ row.status = row'.status
                 \/ row'.status = history[row'.version]
      PROVE  Faithful'
    <2>1. \A v \in Workers \ {w} : Undisturbed(v)
        BY <1>3, OthersStay
    <2> QED BY <1>1, <1>3, <2>1 DEF Faithful, Undisturbed, Wanted
<1> USE Landing
<1>4. ASSUME NEW w \in Workers, Update(w) \/ Retry(w) \/ Create(w) PROVE Faithful'
    <2>1. UNCHANGED <<history, mishaps>> /\ pc'[w] # "write"
        BY <1>4 DEF Update, Retry, Create
    <2>2. row' = row \/ (row'.version = carried[w] /\ row'.status = history[carried[w]])
        <3>1. Mirrored(w).version = carried[w] /\ Mirrored(w).status = Payload(w)
            BY <1>1 DEF Mirrored, Rows
        <3>2. \/ row' = row \/ row' = Mirrored(w)
              \/ row' = [exists |-> TRUE, version |-> carried[w], status |-> Payload(w),
                         tombstone |-> FALSE, owner |-> user[w]]
            BY <1>4 DEF Update, Retry, Create
        <3> QED BY <3>1, <3>2 DEF Payload
    <2> QED BY <1>3, <1>4, <2>1, <2>2 DEF WorkerStep, Mirroring
<1>5. ASSUME NEW w \in Workers, Tombstone(w) PROVE Faithful'
    <2>1. UNCHANGED history /\ pc'[w] # "write"
        BY <1>5 DEF Tombstone
    <2>2. row'.exists = row.exists /\ row'.version = row.version /\ row'.status = row.status
        BY <1>1, <1>5 DEF Tombstone, Rows
    <2> QED BY <1>3, <1>5, <2>1, <2>2 DEF WorkerStep, Mirroring
<1>6. ASSUME NEW w \in Workers, TombstoneFails(w) \/ Lookup(w) \/ Ledger(w) \/ NoteConsumed(w)
                                \/ NoteFails(w) \/ Claim(w) \/ Reclaim(w) \/ Resolve(w) \/ Mark(w)
                                \/ Confirm(w) \/ Abandon(w) \/ HandlerReads(w) \/ ProviderRefuses(w)
      PROVE  Faithful'
    <2>1. UNCHANGED <<history, row>>
        BY <1>6 DEF TombstoneFails, Lookup, Ledger, NoteConsumed, NoteFails, Claim, Reclaim, Resolve,
           Mark, Confirm, Abandon, HandlerReads, ProviderRefuses
    <2>2. pc'[w] # "write"
        <3>1. CASE Claim(w) \/ Confirm(w) \/ HandlerReads(w)
            BY <3>1 DEF TypeInv, WorkType, Claim, Confirm, HandlerReads
        <3>2. CASE Resolve(w)
            <4>1. Leave(w) \/ Goto(w, "tombstone")
                BY <3>2 DEF Resolve
            <4> QED BY <4>1 DEF TypeInv, WorkType
        <3>3. CASE Reclaim(w) \/ Mark(w) \/ Abandon(w) \/ ProviderRefuses(w)
            BY <3>3 DEF Reclaim, Mark, Abandon, ProviderRefuses
        <3>4. CASE TombstoneFails(w) \/ Lookup(w) \/ Ledger(w) \/ NoteConsumed(w) \/ NoteFails(w)
            <4>1. Answer(w) \/ \E p \in {"update", "ledger", "create"} : Goes(w, p)
                BY <3>4 DEF TombstoneFails, Lookup, Ledger, NoteConsumed, NoteFails
            <4> QED BY <4>1
        <3> QED BY <1>6, <3>1, <3>2, <3>3, <3>4
    <2> QED BY <1>3, <1>6, <2>1, <2>2 DEF WorkerStep, Delivering, Mirroring, Handling
<1>7. ASSUME NEW w \in Workers, WriteBack(w) PROVE Faithful'
    <2>1. UNCHANGED history /\ pc[w] = "write" /\ pc'[w] # "write"
        BY <1>7 DEF WriteBack
    <2>2. history[carried[w]] = Wanted(w) /\ carried[w] \in 1 .. Len(history)
        BY <1>1, <2>1 DEF Faithful
    <2>3. row' = row \/ (row.exists /\ row'.version = row.version /\ row'.status = Wanted(w))
        BY <1>1, <1>7 DEF WriteBack, Rows
    <2>4. "overtaken" \notin mishaps' => ~(row.exists /\ row.version > carried[w])
        BY <1>7 DEF WriteBack, Happened
    <2>5. row.version \in Nat
        BY <1>1 DEF Rows
    <2>6. ASSUME "overtaken" \notin mishaps', row'.exists, row'.version = Len(history), row' # row
          PROVE  row'.status = history[row'.version]
        <3>1. row.version = Len(history) /\ carried[w] = Len(history)
            BY <1>1, <2>2, <2>3, <2>4, <2>5, <2>6
        <3> QED BY <2>2, <2>3, <2>6, <3>1
    <2> QED BY <1>3, <1>7, <2>1, <2>6 DEF WorkerStep, Handling
<1>8. ASSUME NEW w \in Workers, ProviderAgrees(w) PROVE Faithful'
    <2>1. \A v \in Workers \ {w} : Undisturbed(v)
        BY <1>8, OthersStay DEF WorkerStep, Handling
    <2>2. /\ carried'[w] = Len(history') /\ pc'[w] = "write" /\ asked' = asked
          /\ UNCHANGED <<row, mishaps>>
        BY <1>8 DEF ProviderAgrees, TypeInv, WorkType
    <2>3. /\ history' = history \/ Len(history') = Len(history) + 1
          /\ history'[Len(history')] = Wanted(w)
        <3>1. Wanted(w) \in Statuses
            BY DEF Wanted, Statuses
        <3> QED BY <1>8, <3>1, HistoryGrows DEF ProviderAgrees, LatestStatus, TypeInv
    <2>4. Wanted(w)' = Wanted(w) /\ \A v \in Workers : Wanted(v)' = Wanted(v)
        BY <2>2 DEF Wanted
    <2>5. ASSUME NEW v \in Workers, pc'[v] = "write"
          PROVE  carried'[v] \in 1 .. Len(history') /\ history'[carried'[v]] = Wanted(v)
        <3>1. CASE v = w
            BY <1>1, <2>2, <2>3, <3>1
        <3>2. CASE v # w
            <4>1. carried'[v] = carried[v] /\ carried[v] \in 1 .. Len(history) /\ history[carried[v]] = Wanted(v)
                BY <1>1, <2>1, <2>5, <3>2 DEF Undisturbed, Faithful
            <4> QED BY <1>1, <1>2, <2>3, <4>1
        <3> QED BY <3>1, <3>2
    <2>6. row'.exists /\ row'.version = Len(history') /\ "overtaken" \notin mishaps'
              => row'.status = history'[Len(history')]
        <3>1. row.version \in Nat
            BY <1>1 DEF Rows
        <3> QED BY <1>1, <2>2, <2>3, <3>1 DEF Faithful
    <2> QED BY <2>4, <2>5, <2>6 DEF Faithful
<1>9. CASE \A w \in Workers : ~WorkerStep(w)
    <2>1. UNCHANGED <<pc, carried, asked>>
        BY <1>9, Idling
    <2>2. \/ UNCHANGED <<history, row, mishaps>>
          \/ UNCHANGED <<row, mishaps>> /\ \E s \in Statuses : history' = Append(history, s)
        <3>1. ~DeletionFinds /\ ~DeletionNotes /\ ~AccountGoes
            BY DEF DeletionFinds, DeletionNotes, AccountGoes
        <3> QED BY <1>9, <3>1, Idling DEF ProviderChanges, TrialEnds, vars, Statuses
    <2>3. CASE UNCHANGED <<history, row, mishaps>>
        BY <1>1, <2>1, <2>3 DEF Faithful, Wanted
    <2>4. CASE UNCHANGED <<row, mishaps>> /\ \E s \in Statuses : history' = Append(history, s)
        <3>1. Len(history') = Len(history) + 1
            BY <2>4, HistoryGrows DEF TypeInv
        <3>2. ~(row'.version = Len(history')) /\ 1 .. Len(history) \subseteq 1 .. Len(history')
            BY <1>1, <2>4, <3>1 DEF Rows
        <3> QED BY <1>1, <1>2, <2>1, <3>2 DEF Faithful, Wanted
    <2> QED BY <2>2, <2>3, <2>4
<1> QED BY <1>4, <1>5, <1>6, <1>7, <1>8, <1>9 DEF WorkerStep, Delivering, Mirroring, Handling

\* Once every event is finished and nobody is at work, the row shows the provider's
\* state, unless first deliveries crowded or a write was overtaken.
THEOREM RestIsFaithful == Spec => []QuietMeansEqual
<1>1. Init => TypeInv /\ Tracked /\ Faithful
    BY TypeInit DEF Init, Tracked, TypeInv, WorkType, EventType, Faithful, NoRow
<1>2. TypeInv /\ Tracked /\ Faithful /\ [Next]_vars => TypeInv' /\ Tracked' /\ Faithful'
    BY TypeStep, TrackedStep, FaithfulStep
<1>3. TypeInv /\ Tracked /\ Faithful => QuietMeansEqual
    <2> SUFFICES ASSUME TypeInv, Tracked, Faithful, account = "here",
                        "crowded" \notin mishaps, "overtaken" \notin mishaps,
                        \A v \in 1 .. Len(history) : event[v] = "done"
                 PROVE  row.exists /\ row.version = Len(history) /\ row.status = history[Len(history)]
        BY DEF QuietMeansEqual, Finished, LatestStatus
    <2>1. Len(history) \in 1 .. MaxVersions /\ Len(history) \in 1 .. Len(history)
        BY LatestIsPositive, MirrorAssumption DEF TypeInv, HistoryType
    <2>2. Shown(Len(history))
        BY <2>1 DEF Tracked
    <2>3. row.version <= Len(history) /\ row.version \in Nat
        BY DEF TypeInv, TableType, Rows
    <2>4. row.exists /\ row.version = Len(history)
        BY <2>1, <2>2, <2>3 DEF Shown
    <2> QED BY <2>4 DEF Faithful
<1> QED BY <1>1, <1>2, <1>3, PTL DEF Spec
HIDE DEF provider, tables, work, ghosts, Goto, Goes, Latest, Fault
USE SyncAssumption

-----------------------------------------------------------------------------
(* The invariant of the App Store sync.                                      *)

Holding == {"claim", "judge", "mirror"}     \* the places of a handler that has a snapshot

\* Whom an event names, and whose subscriber it is about; what RevenueCat has now.
Names(e, u) == u \in {events[e].from, events[e].to}
Concerns(e, u) == u \in Aliases(events[e].from) \union Aliases(events[e].to)
Life(u) == IF ~Has(u) THEN "absent" ELSE IF refunded THEN "refunded" ELSE "granting"

\* A handler still has the account to sync, or has an event and is past the account.
InTodo(w, u) == \E i \in 1..Len(todo[w]) : todo[w][i] = u
Past(w, e, u) == place[w] # "idle" /\ ev[w] = e /\ ~InTodo(w, u)

\* For this account the event was handled; or it still will be: by a delivery to
\* come, or by one under way.
Over(e, u) == status[e] \in Done \/ \E w \in Syncers : Past(w, e, u)
Awaited(u) == \/ \E e \in 1..Len(events) : Names(e, u) /\ ~Over(e, u)
              \/ \E w \in Syncers : InTodo(w, u)

HandlersOK == \A w \in Syncers :
    /\ place[w] = "idle" => todo[w] = <<>>
    /\ ev[w] <= Len(events)

\* What was fetched is how things are, or an event has happened since.  It is as
\* late as the event it is fetched for.
SnapOK(w) ==
    LET u == Head(todo[w])
        s == snap[w]
    IN  /\ s.at <= Len(events)
        /\ s.read /\ s.life # Life(u) => \E e \in 1..Len(events) : s.at < e /\ Concerns(e, u)
        /\ s.read => ev[w] <= s.at
        /\ ~s.read => s.life = "absent"
        /\ place[w] # "mirror" => s.life # "absent"
        /\ place[w] = "judge" => owner[w] \notin {u, Nobody}
Snaps == \A w \in Syncers : place[w] \in Holding => SnapOK(w)

\* An account was synced from a fetch that knew of the events handled for it, and
\* of those it was not named by.
Settled == \A e \in 1..Len(events) : \A u \in Users \ (gone \union unread) :
    Names(e, u) /\ Over(e, u) => e <= written[u]
Heard == \A e \in 1..Len(events) : \A u \in Users \ unread :
    Concerns(e, u) /\ ~Names(e, u) => e <= written[u]

\* All accounts have one subscriber, or each its own; only between two of these
\* is there a TRANSFER.
Shared == \A u, v \in Users : origin[u] = origin[v]
Origins ==
    /\ Shared \/ \A u \in Users : origin[u] = u
    /\ Shared => \A e \in 1..Len(events) : events[e].kind # "TRANSFER"
    /\ \A e \in 1..Len(events) : events[e].kind # "TRANSFER" => events[e].from = events[e].to

\* A row is as RestIsTrue has it, or its account is still to be synced.  While TRANSFERs
\* were delivered in order and none is left behind, the claim does not matter between
\* accounts with a subscriber each.
Transfer(e) == events[e].kind = "TRANSFER"
Late(e) == Transfer(e) /\ e < moved /\ status[e] = "none"
Ordered == ~Shared /\ ~disordered /\ \A e \in 1..Len(events) : ~Late(e)
Owed(u) == Bought(u) /\ (claim[origin[u]] = u \/ Ordered)
RowIsTrue(u) == (Granted(u) => Bought(u)) /\ (Owed(u) => Granted(u))
RowsTrue == \A u \in Users \ (gone \union unread) : RowIsTrue(u) \/ Awaited(u)

\* Of the accounts of one subscriber only the one with the claim is granted it.
Funded == Shared => \A u \in Users \ (gone \union unread) : Granted(u) => claim[origin[u]] = u

SyncInv ==
    /\ SyncTypeOK /\ HandlersOK /\ Snaps /\ Settled /\ Heard /\ RowsTrue /\ Origins /\ Funded

\* TRANSFERs follow each other: whoever one was to has the purchase, or the next one is
\* from it; and the last one is to the holder.
Chain ==
    /\ holder = Nobody => \A m \in 1..Len(events) : ~Transfer(m)
    /\ \A m \in 1..Len(events) : Transfer(m) =>
          /\ \/ holder = events[m].to
             \/ /\ \E g \in m + 1..Len(events) : Transfer(g) /\ events[g].from = events[m].to
                /\ \E g \in m + 1..Len(events) : Transfer(g) /\ events[g].to = holder
          /\ \A e \in m + 1..Len(events) : Transfer(e) =>
                \/ events[e].from = events[m].to
                \/ \E g \in m + 1..e - 1 : Transfer(g) /\ events[g].from = events[m].to

\* TRANSFERs later than the one whose claims were moved last are to be delivered,
\* unless they name nobody any more.
Delivered ==
    /\ moved = 0 \/ (moved \in 1..Len(events) /\ Transfer(moved))
    /\ \A g \in 1..Len(events) : Transfer(g) /\ moved < g =>
          \/ status[g] = "none"
          \/ status[g] = "skipped" /\ {events[g].from, events[g].to} \subseteq gone
    /\ \A w \in Syncers : ev[w] \in 1..Len(events) => status[ev[w]] # "none"

\* Whose claim it is that an account does not have, as long as they come in order.
Whose == ~Shared /\ ~disordered => \A u \in Users :
    \/ claim[u] \in {Nobody, u} \union gone
    \/ moved # 0 /\ claim[u] = events[moved].to
    \/ \E g \in 1..Len(events) : Late(g) /\ claim[u] = events[g].from

Lawful == Chain /\ Delivered /\ Whose

-----------------------------------------------------------------------------
(* What is in hand *)

\* The account a handler syncs and those it has yet to.
LEMMA TodoFacts ==
    ASSUME SyncTypeOK, NEW w \in Syncers, todo[w] # <<>>
    PROVE  /\ Head(todo[w]) \in Users /\ Tail(todo[w]) \in Seq(Users)
           /\ Len(todo[w]) \in Nat \ {0} /\ Head(todo[w]) = todo[w][1]
           /\ Len(Tail(todo[w])) = Len(todo[w]) - 1
           /\ \A i \in 1..Len(Tail(todo[w])) : Tail(todo[w])[i] = todo[w][i + 1]
           /\ Tail(todo[w]) = <<>> <=> ~(Len(todo[w]) > 1)
<1>1. todo[w] \in Seq(Users)
    BY DEF SyncTypeOK
<1>2. /\ Head(todo[w]) \in Users /\ Tail(todo[w]) \in Seq(Users)
      /\ Len(Tail(todo[w])) = Len(todo[w]) - 1
      /\ \A i \in 1..Len(Tail(todo[w])) : Tail(todo[w])[i] = todo[w][i + 1]
    BY <1>1, HeadTailProperties
<1>3. Len(todo[w]) \in Nat \ {0}
    BY <1>1, EmptySeq
<1>4. Tail(todo[w]) = <<>> <=> Len(Tail(todo[w])) = 0
    BY <1>2, EmptySeq
<1>5. Len(Tail(todo[w])) = 0 <=> ~(Len(todo[w]) > 1)
    <2>1. Len(Tail(todo[w])) = Len(todo[w]) - 1
        BY <1>2
    <2>2. \A n \in Nat \ {0} : n - 1 = 0 <=> ~(n > 1)
        OBVIOUS
    <2>3. Len(todo[w]) - 1 = 0 <=> ~(Len(todo[w]) > 1)
        BY <1>3, <2>2
    <2> QED BY <2>1, <2>3
<1>6. Head(todo[w]) = todo[w][1]
    BY <1>1, HeadTailProperties
<1> QED BY <1>2, <1>3, <1>4, <1>5, <1>6

LEMMA LivingFacts ==
    ASSUME NEW u \in Users
    PROVE  /\ Living(u) \in Seq(Users)
           /\ \A i \in 1..Len(Living(u)) : Living(u)[i] = u
           /\ u \notin gone => 1 \in 1..Len(Living(u))
           /\ Living(u) = <<>> <=> u \in gone
<1>1. CASE u \in gone
    <2>1. Living(u) = <<>> /\ Living(u) \in Seq(Users) /\ Len(Living(u)) = 0
        BY <1>1, EmptySeq DEF Living
    <2> QED BY <1>1, <2>1
<1>2. CASE u \notin gone
    <2>1. Living(u) = <<u>>
        BY <1>2 DEF Living
    <2>2. <<u>> \in Seq(Users) /\ Len(<<u>>) = 1 /\ <<u>>[1] = u /\ <<u>> # <<>>
        OBVIOUS
    <2> QED BY <1>2, <2>1, <2>2
<1> QED BY <1>1, <1>2

LEMMA EventFacts ==
    ASSUME SyncTypeOK
    PROVE  /\ Len(events) \in Nat /\ Len(events) <= MaxEvents /\ DOMAIN events = 1..Len(events)
           /\ \A e \in 1..Len(events) : /\ events[e] \in Event
                                        /\ events[e].from \in Users /\ events[e].to \in Users
<1>1. events \in Seq(Event) /\ Len(events) <= MaxEvents
    BY DEF SyncTypeOK
<1>2. Len(events) \in Nat /\ DOMAIN events = 1..Len(events)
    BY <1>1, LenProperties
<1>3. \A e \in 1..Len(events) : events[e] \in Event
    BY <1>1, ElementOfSeq
<1> QED BY <1>1, <1>2, <1>3 DEF Event

\* The accounts to sync are those an event names and that exist.
LEMMA KnownFacts ==
    ASSUME SyncTypeOK, NEW e \in 1..Len(events)
    PROVE  /\ Known(e) \in Seq(Users)
           /\ \A i \in 1..Len(Known(e)) : Known(e)[i] \in {events[e].from, events[e].to}
           /\ events[e].to \notin gone => \E i \in 1..Len(Known(e)) : Known(e)[i] = events[e].to
           /\ events[e].kind = "TRANSFER" /\ events[e].from \notin gone =>
                 \E i \in 1..Len(Known(e)) : Known(e)[i] = events[e].from
<1> DEFINE to == events[e].to
           from == events[e].from
           a == Living(to)
           b == Living(from)
<1>1. to \in Users /\ from \in Users
    BY EventFacts
<1>2. /\ a \in Seq(Users) /\ b \in Seq(Users)
      /\ \A i \in 1..Len(a) : a[i] = to
      /\ \A i \in 1..Len(b) : b[i] = from
      /\ to \notin gone => 1 \in 1..Len(a)
      /\ from \notin gone => 1 \in 1..Len(b)
    BY <1>1, LivingFacts
<1>3. CASE events[e].kind # "TRANSFER"
    <2>1. Known(e) = a
        BY <1>3 DEF Known
    <2> QED BY <1>2, <1>3, <2>1
<1>4. CASE events[e].kind = "TRANSFER"
    <2>1. Known(e) = a \o b
        BY <1>4 DEF Known
    <2> HIDE DEF a, b
    <2>2. Len(a) \in Nat /\ Len(b) \in Nat
        BY <1>2, LenProperties
    <2>3. /\ a \o b \in Seq(Users) /\ Len(a \o b) = Len(a) + Len(b)
          /\ \A i \in 1..Len(a) + Len(b) : (a \o b)[i] = IF i <= Len(a) THEN a[i] ELSE b[i - Len(a)]
        BY <1>2, ConcatProperties
    <2>4. ASSUME NEW i \in 1..Len(a \o b) PROVE (a \o b)[i] \in {from, to}
        <3>1. CASE i <= Len(a)
            BY <1>2, <2>2, <2>3, <3>1
        <3>2. CASE ~(i <= Len(a))
            <4>1. i - Len(a) \in 1..Len(b) /\ (a \o b)[i] = b[i - Len(a)]
                BY <2>2, <2>3, <3>2
            <4> QED BY <1>2, <4>1
        <3> QED BY <3>1, <3>2
    <2>5. ASSUME to \notin gone PROVE 1 \in 1..Len(a \o b) /\ (a \o b)[1] = to
        <3>1. 1 \in 1..Len(a) /\ 1 \in 1..Len(a) + Len(b) /\ 1 <= Len(a)
            BY <1>2, <2>2, <2>5
        <3> QED BY <1>2, <2>3, <3>1
    <2>6. ASSUME from \notin gone PROVE Len(a) + 1 \in 1..Len(a \o b) /\ (a \o b)[Len(a) + 1] = from
        <3>1. 1 \in 1..Len(b) /\ Len(a) + 1 \in 1..Len(a) + Len(b) /\ ~(Len(a) + 1 <= Len(a))
              /\ (Len(a) + 1) - Len(a) = 1
            BY <1>2, <2>2, <2>6
        <3> QED BY <1>2, <2>3, <3>1
    <2> QED BY <2>1, <2>3, <2>4, <2>5, <2>6
<1> QED BY <1>3, <1>4

LEMMA NewEvent ==
    ASSUME SyncTypeOK, NEW kind \in {"PURCHASE", "REFUND", "TRANSFER"},
           NEW from \in Users, NEW to \in Users, Happens(kind, from, to)
    PROVE  /\ events' \in Seq(Event) /\ Len(events') = Len(events) + 1 /\ Len(events') <= MaxEvents
           /\ \A e \in 1..Len(events) : events'[e] = events[e]
           /\ events'[Len(events) + 1] = [kind |-> kind, from |-> from, to |-> to]
           /\ MaxEvents \in Nat
<1> DEFINE new == [kind |-> kind, from |-> from, to |-> to]
<1>1. new \in Event
    BY DEF Event
<1>2. events' = Append(events, new) /\ events \in Seq(Event) /\ Len(events) < MaxEvents
    BY DEF Happens, SyncTypeOK
<1> HIDE DEF new
<1>3. /\ events' \in Seq(Event) /\ Len(events') = Len(events) + 1
      /\ \A e \in 1..Len(events) : events'[e] = events[e]
      /\ events'[Len(events) + 1] = new
    BY <1>1, <1>2, AppendProperties
<1>4. Len(events) \in Nat /\ MaxEvents \in Nat
    BY EventFacts 
<1> QED BY <1>2, <1>3, <1>4 DEF new

-----------------------------------------------------------------------------
(* Types *)

LEMMA TypeHappens ==
    ASSUME SyncTypeOK, NEW kind \in {"PURCHASE", "REFUND", "TRANSFER"},
           NEW from \in Users, NEW to \in Users, Happens(kind, from, to),
           holder' \in Users \union {Nobody}, refunded' \in BOOLEAN
    PROVE  SyncTypeOK'
<1>1. events' \in Seq(Event) /\ Len(events') = Len(events) + 1 /\ Len(events') <= MaxEvents
    BY NewEvent
<1>2. Len(events) \in Nat
    BY EventFacts
<1>3. unread' \subseteq Users
    BY DEF SyncTypeOK, Happens, Aliases
<1>4. /\ UNCHANGED <<origin, status, claim, purchase, gone, handler, written, moved, disordered>>
    BY DEF Happens
<1>5. \A e \in 1..MaxEvents : status'[e] # "none" => e <= Len(events')
    <2>1. \A e \in 1..MaxEvents : status[e] # "none" => e <= Len(events)
        BY DEF SyncTypeOK
    <2> QED BY <1>1, <1>2, <1>4, <2>1
<1> QED BY <1>1, <1>3, <1>4, <1>5 DEF SyncTypeOK, handler

LEMMA TypeStart ==
    ASSUME SyncTypeOK, NEW w \in Syncers, NEW e \in 1..MaxEvents,
           Skip(w, e) \/ Deliver(w, e)
    PROVE  SyncTypeOK'
<1>1. e \in 1..Len(events) /\ Len(events) \in Nat
    BY EventFacts DEF Skip, Deliver
<1>2. CASE Skip(w, e)
    BY <1>1, <1>2 DEF Skip, SyncTypeOK, handler, hindsight, revenuecat, Done
<1>3. CASE Deliver(w, e)
    <2>1. Known(e) \in Seq(Users) /\ Known(e) # <<>>
        BY <1>1, <1>3, KnownFacts DEF Deliver
    <2>2. claim' \in [Users -> Users \union {Nobody}]
        BY <1>1, <1>3, EventFacts DEF Deliver, ClaimsMoved, SyncTypeOK
    <2>3. status' \in [1..MaxEvents -> {"none", "open"} \union Done]
          /\ \A d \in 1..MaxEvents : status'[d] # "none" => d <= Len(events)
        BY <1>1, <1>3 DEF Deliver, SyncTypeOK
    <2>4. moved' \in 0..MaxEvents /\ disordered' \in BOOLEAN
        BY <1>3, <1>1 DEF Deliver, SyncTypeOK, OutOfOrder
    <2>5. /\ place' \in [Syncers -> {"idle", "fetch", "claim", "judge", "mirror", "mark"}]
          /\ ev' \in [Syncers -> 0..MaxEvents]
          /\ todo' \in [Syncers -> Seq(Users)]
        BY <1>3, <2>1 DEF Deliver, SyncTypeOK, MovesTo
    <2>6. \A v \in Syncers : place'[v] = "mark" <=> place'[v] # "idle" /\ todo'[v] = <<>>
        BY <1>3, <2>1 DEF Deliver, SyncTypeOK, MovesTo
    <2>7. UNCHANGED <<revenuecat, purchase, gone, snap, owner, written, unread>>
        BY <1>3 DEF Deliver
    <2> HIDE DEF Done
    <2> QED BY <2>2, <2>3, <2>4, <2>5, <2>6, <2>7 DEF SyncTypeOK, revenuecat
<1> QED BY <1>2, <1>3

LEMMA TypeOther ==
    ASSUME SyncTypeOK, HandlersOK, NEW w \in Syncers,
           (\E u \in Users : Refresh(w, u)) \/ MarkEvent(w) \/ Fail(w)
    PROVE  SyncTypeOK'
<1>1. CASE \E u \in Users : Refresh(w, u)
    <2>1. PICK u \in Users : Refresh(w, u)
        BY <1>1
    <2>2. <<u>> \in Seq(Users) /\ <<u>> # <<>>
        OBVIOUS
    <2>3. /\ place' \in [Syncers -> {"idle", "fetch", "claim", "judge", "mirror", "mark"}]
          /\ ev' \in [Syncers -> 0..MaxEvents]
          /\ todo' \in [Syncers -> Seq(Users)]
        BY <2>1, <2>2 DEF Refresh, SyncTypeOK, MovesTo
    <2>4. \A v \in Syncers : place'[v] = "mark" <=> place'[v] # "idle" /\ todo'[v] = <<>>
        BY <2>1, <2>2 DEF Refresh, SyncTypeOK, MovesTo
    <2> QED BY <2>1, <2>3, <2>4 DEF Refresh, SyncTypeOK, revenuecat, hindsight
<1>2. CASE MarkEvent(w)
    <2>1. status' \in [1..MaxEvents -> {"none", "open"} \union Done]
        BY <1>2 DEF MarkEvent, SyncTypeOK, Done
    <2>2. \A d \in 1..MaxEvents : status'[d] # "none" => d <= Len(events)
        <3>1. ASSUME NEW d \in 1..MaxEvents PROVE d # ev[w] => status'[d] = status[d]
            BY <1>2 DEF MarkEvent, SyncTypeOK
        <3> QED BY <3>1 DEF SyncTypeOK, HandlersOK
    <2>3. /\ place' \in [Syncers -> {"idle", "fetch", "claim", "judge", "mirror", "mark"}]
          /\ ev' \in [Syncers -> 0..MaxEvents]
        BY <1>2 DEF MarkEvent, SyncTypeOK, MovesTo
    <2>4. \A v \in Syncers : place'[v] = "mark" <=> place'[v] # "idle" /\ todo'[v] = <<>>
        BY <1>2 DEF MarkEvent, SyncTypeOK, MovesTo
    <2> QED BY <1>2, <2>1, <2>2, <2>3, <2>4 DEF MarkEvent, SyncTypeOK, revenuecat, hindsight
<1>3. CASE Fail(w)
    <2>1. {todo[w][i] : i \in 1..Len(todo[w])} \subseteq Users
        BY DEF SyncTypeOK
    <2>2. /\ place' \in [Syncers -> {"idle", "fetch", "claim", "judge", "mirror", "mark"}]
          /\ ev' \in [Syncers -> 0..MaxEvents]
          /\ todo' \in [Syncers -> Seq(Users)]
          /\ snap' \in [Syncers -> Snapshot]
          /\ owner' \in [Syncers -> Users \union {Nobody}]
        BY <1>3 DEF Fail, SyncTypeOK, MovesTo, Unfetched, Snapshot
    <2>3. \A v \in Syncers : place'[v] = "mark" <=> place'[v] # "idle" /\ todo'[v] = <<>>
        BY <1>3 DEF Fail, SyncTypeOK, MovesTo
    <2> QED BY <1>3, <2>1, <2>2, <2>3 DEF Fail, SyncTypeOK, revenuecat
<1> QED BY <1>1, <1>2, <1>3

\* A handler that has an account at the head of its list is not done.
LEMMA HeadKnown ==
    ASSUME SyncTypeOK, NEW w \in Syncers, place[w] \in {"fetch", "claim", "judge", "mirror"}
    PROVE  todo[w] # <<>> /\ Head(todo[w]) \in Users
<1>1. todo[w] # <<>>
    BY DEF SyncTypeOK
<1> QED BY <1>1, TodoFacts

LEMMA TypeSync ==
    ASSUME SyncTypeOK, NEW w \in Syncers,
           Fetch(w) \/ ClaimSubscriber(w) \/ Adopt(w)
    PROVE  SyncTypeOK'
<1> DEFINE u == Head(todo[w])
<1>1. todo[w] # <<>> /\ u \in Users
    BY HeadKnown DEF Fetch, ClaimSubscriber, Adopt
<1>2. origin[u] \in Users
    BY <1>1 DEF SyncTypeOK
<1>3. \A p \in {"fetch", "claim", "judge", "mirror"} :
        place' = [place EXCEPT ![w] = p] /\ todo' = todo =>
            /\ place' \in [Syncers -> {"idle", "fetch", "claim", "judge", "mirror", "mark"}]
            /\ \A v \in Syncers : place'[v] = "mark" <=> place'[v] # "idle" /\ todo'[v] = <<>>
    BY <1>1 DEF SyncTypeOK
<1>4. CASE Fetch(w)
    <2>1. \A a \in Fetched(u) : a \in Snapshot
        <3>1. Unfetched \in Snapshot
            BY DEF Unfetched, Snapshot
        <3>2. Len(events) \in 0..MaxEvents
            BY EventFacts 
        <3>3. ASSUME NEW a \in Fetched(u), a # Unfetched PROVE a \in Snapshot
            <4>1. \E life \in {"absent", "granting", "refunded"} :
                    a = [life |-> life, read |-> TRUE, at |-> Len(events)]
                BY <3>3 DEF Fetched
            <4> QED BY <3>2, <4>1 DEF Snapshot
        <3> QED BY <3>1, <3>3
    <2>2. snap' \in [Syncers -> Snapshot]
        BY <1>4, <2>1 DEF Fetch, SyncTypeOK
    <2>3. \E p \in {"fetch", "claim", "judge", "mirror"} : place' = [place EXCEPT ![w] = p]
        BY <1>4 DEF Fetch, MovesTo
    <2> QED BY <1>3, <1>4, <2>2, <2>3 DEF Fetch, SyncTypeOK, revenuecat, hindsight
<1>5. CASE ClaimSubscriber(w)
    <2>1. claim' \in [Users -> Users \union {Nobody}]
        BY <1>1, <1>2, <1>5 DEF ClaimSubscriber, SyncTypeOK
    <2>2. owner' \in [Syncers -> Users \union {Nobody}]
        BY <1>2, <1>5, <2>1 DEF ClaimSubscriber, SyncTypeOK
    <2>3. \E p \in {"fetch", "claim", "judge", "mirror"} : place' = [place EXCEPT ![w] = p]
        BY <1>5 DEF ClaimSubscriber, MovesTo
    <2> QED BY <1>3, <1>5, <2>1, <2>2, <2>3 DEF ClaimSubscriber, SyncTypeOK, revenuecat, hindsight
<1>6. CASE Adopt(w)
    <2>1. claim' \in [Users -> Users \union {Nobody}]
        BY <1>1, <1>2, <1>6 DEF Adopt, SyncTypeOK
    <2>2. \E p \in {"fetch", "claim", "judge", "mirror"} : place' = [place EXCEPT ![w] = p]
        BY <1>6 DEF Adopt, MovesTo
    <2>3. unread' \subseteq Users
        <3>1. claim[origin[u]] \in Users \union {Nobody}
            BY <1>2 DEF SyncTypeOK
        <3> QED BY <1>6, <3>1 DEF Adopt, SyncTypeOK
    <2> QED BY <1>3, <1>6, <2>1, <2>2, <2>3 DEF Adopt, SyncTypeOK, revenuecat
<1> QED BY <1>4, <1>5, <1>6

\* What the end of a sync does to the handler and to the ghosts.
LEMMA SyncedFacts ==
    ASSUME SyncTypeOK, NEW w \in Syncers, place[w] \in {"judge", "mirror"},
           Synced(w, snap[w])
    PROVE  /\ UNCHANGED <<revenuecat, status, gone, ev, moved, disordered>>
           /\ place'[w] \in {"fetch", "idle", "mark"}
           /\ place'[w] = "idle" => ev[w] = 0
           /\ place'[w] = "fetch" <=> todo'[w] # <<>>
           /\ todo'[w] = Tail(todo[w])
           /\ \A v \in Syncers \ {w} : /\ place'[v] = place[v] /\ todo'[v] = todo[v]
                                       /\ snap'[v] = snap[v] /\ owner'[v] = owner[v]
           /\ place' \in [Syncers -> {"idle", "fetch", "claim", "judge", "mirror", "mark"}]
           /\ todo' \in [Syncers -> Seq(Users)]
           /\ snap' \in [Syncers -> Snapshot]
           /\ owner' \in [Syncers -> Users \union {Nobody}]
           /\ unread' \subseteq Users
           /\ written' \in [Users -> 0..MaxEvents]
<1> DEFINE u == Head(todo[w])
<1>1. todo[w] # <<>> /\ u \in Users
    BY HeadKnown
<1>2. Tail(todo[w]) \in Seq(Users) /\ (Tail(todo[w]) = <<>> <=> ~(Len(todo[w]) > 1))
    BY <1>1, TodoFacts
<1>3. UNCHANGED <<revenuecat, status, gone, ev, moved, disordered>>
    BY DEF Synced
<1>4. /\ todo' = [todo EXCEPT ![w] = Tail(todo[w])]
      /\ place' = [place EXCEPT ![w] = IF Len(todo[w]) > 1 THEN "fetch"
                                 ELSE IF ev[w] = 0 THEN "idle" ELSE "mark"]
      /\ snap' = [snap EXCEPT ![w] = Unfetched]
      /\ owner' = [owner EXCEPT ![w] = Nobody]
    BY DEF Synced, MovesTo
<1>5. /\ todo' \in [Syncers -> Seq(Users)] /\ todo'[w] = Tail(todo[w])
      /\ \A v \in Syncers \ {w} : todo'[v] = todo[v]
    BY <1>2, <1>4 DEF SyncTypeOK
<1>6. /\ place' \in [Syncers -> {"idle", "fetch", "claim", "judge", "mirror", "mark"}]
      /\ place'[w] = IF Len(todo[w]) > 1 THEN "fetch" ELSE IF ev[w] = 0 THEN "idle" ELSE "mark"
      /\ \A v \in Syncers \ {w} : place'[v] = place[v]
    BY <1>4 DEF SyncTypeOK
<1>7. /\ snap' \in [Syncers -> Snapshot] /\ owner' \in [Syncers -> Users \union {Nobody}]
      /\ \A v \in Syncers \ {w} : snap'[v] = snap[v] /\ owner'[v] = owner[v]
    BY <1>4 DEF SyncTypeOK, Unfetched, Snapshot
<1>8. unread' \subseteq Users
    BY <1>1 DEF Synced, SyncTypeOK
<1>9. snap[w].at \in 0..MaxEvents
    BY DEF SyncTypeOK, Snapshot
<1>10. written' \in [Users -> 0..MaxEvents]
    BY <1>1, <1>9 DEF Synced, SyncTypeOK
<1> QED BY <1>2, <1>3, <1>5, <1>6, <1>7, <1>8, <1>10

LEMMA TypeSynced ==
    ASSUME SyncTypeOK, NEW w \in Syncers, Conflict(w) \/ Mirror(w)
    PROVE  SyncTypeOK'
<1> DEFINE u == Head(todo[w])
<1>1. place[w] \in {"judge", "mirror"} /\ Synced(w, snap[w]) /\ claim' = claim
    BY DEF Conflict, Mirror
<1>2. u \in Users
    BY <1>1, HeadKnown
<1>3. purchase' \in [Users -> {"none", "granting", "revoked"}]
    BY <1>2 DEF Conflict, Mirror, SyncTypeOK
<1>5. \A v \in Syncers : place'[v] = "mark" <=> place'[v] # "idle" /\ todo'[v] = <<>>
    <2>1. place'[w] = "mark" <=> place'[w] # "idle" /\ todo'[w] = <<>>
        BY <1>1, SyncedFacts
    <2>2. \A v \in Syncers \ {w} : place'[v] = place[v] /\ todo'[v] = todo[v]
        BY <1>1, SyncedFacts
    <2>3. \A v \in Syncers : place[v] = "mark" <=> place[v] # "idle" /\ todo[v] = <<>>
        BY DEF SyncTypeOK
    <2> QED BY <2>1, <2>2, <2>3
<1>6. /\ UNCHANGED <<revenuecat, status, gone, ev, moved, disordered>>
      /\ place' \in [Syncers -> {"idle", "fetch", "claim", "judge", "mirror", "mark"}]
      /\ todo' \in [Syncers -> Seq(Users)]
      /\ snap' \in [Syncers -> Snapshot]
      /\ owner' \in [Syncers -> Users \union {Nobody}]
      /\ unread' \subseteq Users
      /\ written' \in [Users -> 0..MaxEvents]
    BY <1>1, SyncedFacts
<1> QED BY <1>1, <1>3, <1>5, <1>6 DEF SyncTypeOK, revenuecat

-----------------------------------------------------------------------------
(* What happens at RevenueCat *)

LEMMA OldEvents ==
    ASSUME SyncTypeOK, NEW kind \in {"PURCHASE", "REFUND", "TRANSFER"},
           NEW from \in Users, NEW to \in Users, Happens(kind, from, to)
    PROVE  /\ Len(events') = Len(events) + 1 /\ Len(events) \in Nat /\ Len(events) + 1 <= MaxEvents
           /\ 1..Len(events') = 1..Len(events) \union {Len(events) + 1}
           /\ \A e \in 1..Len(events), u \in Users :
                 (Names(e, u)' <=> Names(e, u)) /\ (Concerns(e, u)' <=> Concerns(e, u))
           /\ \A e \in {Len(events) + 1}, u \in Users :
                 /\ Names(e, u)' <=> u \in {from, to}
                 /\ Concerns(e, u)' <=> u \in Aliases(from) \union Aliases(to)
           /\ \A e \in 1..Len(events), u \in Users : Over(e, u)' <=> Over(e, u)
           /\ \A w \in Syncers, u \in Users : InTodo(w, u)' <=> InTodo(w, u)
<1>1. /\ Len(events') = Len(events) + 1 /\ Len(events) + 1 <= MaxEvents
      /\ \A e \in 1..Len(events) : events'[e] = events[e]
      /\ events'[Len(events) + 1] = [kind |-> kind, from |-> from, to |-> to]
    BY NewEvent
<1>2. Len(events) \in Nat
    BY EventFacts
<1>3. 1..Len(events') = 1..Len(events) \union {Len(events) + 1}
    BY <1>1, <1>2
<1>4. UNCHANGED <<origin, status, place, ev, todo>>
    BY DEF Happens, handler
<1>5. \A v \in Users : Aliases(v)' = Aliases(v)
    BY <1>4 DEF Aliases
<1>6. \A e \in 1..Len(events), u \in Users :
         (Names(e, u)' <=> Names(e, u)) /\ (Concerns(e, u)' <=> Concerns(e, u))
    <2>1. \A e \in 1..Len(events) : events'[e] = events[e]
        BY <1>1
    <2> QED BY <2>1, <1>4 DEF Names, Concerns, Aliases
<1>7. ASSUME NEW e \in {Len(events) + 1}, NEW u \in Users
      PROVE  /\ Names(e, u)' <=> u \in {from, to}
             /\ Concerns(e, u)' <=> u \in Aliases(from) \union Aliases(to)
    <2>1. events'[e].from = from /\ events'[e].to = to
        BY <1>1
    <2> QED BY <1>4, <2>1 DEF Names, Concerns, Aliases
<1>8. \A w \in Syncers, u \in Users : InTodo(w, u)' <=> InTodo(w, u)
    BY <1>4 DEF InTodo
<1>9. \A e \in 1..Len(events), u \in Users : Over(e, u)' <=> Over(e, u)
    BY <1>4 DEF Over, Past, InTodo
<1> QED BY <1>1, <1>2, <1>3, <1>6, <1>7, <1>8, <1>9

LEMMA HappensKeeps ==
    ASSUME SyncInv, SyncTypeOK',
           NEW kind \in {"PURCHASE", "REFUND", "TRANSFER"},
           NEW from \in Users, NEW to \in Users, Happens(kind, from, to),
           kind # "TRANSFER" => from = to,
           kind = "TRANSFER" => ~Shared,
           \A u \in Users \ (Aliases(from) \union Aliases(to)) : Life(u)' = Life(u),
           Ordered' => Ordered
    PROVE  SyncInv'
<1> DEFINE n == Len(events) + 1
<1>1. SyncTypeOK
    BY DEF SyncInv
<1>2. UNCHANGED <<origin, status, claim, purchase, gone, handler, written, moved, disordered>>
    BY DEF Happens
<1>3. unread' = unread \union ((Aliases(from) \union Aliases(to)) \ {from, to})
    BY DEF Happens
<1>4. /\ Len(events') = n /\ Len(events) \in Nat /\ n <= MaxEvents
      /\ 1..Len(events') = 1..Len(events) \union {n}
      /\ n \in 1..MaxEvents
    BY <1>1, OldEvents 
<1>5. \A e \in 1..Len(events), u \in Users :
         /\ Names(e, u)' <=> Names(e, u)
         /\ Concerns(e, u)' <=> Concerns(e, u)
         /\ Over(e, u)' <=> Over(e, u)
    BY <1>1, OldEvents
<1>6. \A e \in {n}, u \in Users : /\ Names(e, u)' <=> u \in {from, to}
                                  /\ Concerns(e, u)' <=> u \in Aliases(from) \union Aliases(to)
    BY <1>1, OldEvents
<1>7. \A w \in Syncers, u \in Users : InTodo(w, u)' <=> InTodo(w, u)
    BY <1>1, OldEvents
<1>8. \A w \in Syncers : ev[w] \in Nat /\ ev[w] <= Len(events)
    BY DEF SyncInv, HandlersOK, SyncTypeOK
<1>9. \A e \in {n}, u \in Users : ~Over(e, u)'
    <2>1. status[n] \notin Done
        <3>1. ~(n <= Len(events))
            BY <1>4
        <3>2. status[n] = "none"
            BY <1>1, <1>4, <3>1 DEF SyncTypeOK
        <3> QED BY <3>2 DEF Done
    <2>2. \A w \in Syncers : ev[w] # n
        BY <1>4, <1>8
    <2> QED BY <1>2, <2>1, <2>2 DEF Over, Past, handler
<1>10. \A u \in Users : /\ Aliases(u)' = Aliases(u)
                        /\ Granted(u)' <=> Granted(u)
    BY <1>2 DEF Aliases, Granted
<1> HIDE DEF n
<1>11. HandlersOK'
    <2>1. HandlersOK
        BY DEF SyncInv
    <2> QED BY <1>2, <1>4, <1>8, <2>1 DEF HandlersOK, handler, n
<1>12. Snaps'
    <2> SUFFICES ASSUME NEW w \in Syncers, place'[w] \in Holding PROVE SnapOK(w)'
        BY DEF Snaps
    <2>1. UNCHANGED <<place, ev, todo, snap, owner>>
        BY <1>2 DEF handler
    <2>2. SnapOK(w)
        BY <2>1 DEF SyncInv, Snaps
    <2>3. PICK u \in Users : u = Head(todo[w])
        BY <1>1, <2>1, HeadKnown DEF Holding
    <2> DEFINE s == snap[w]
    <2>4. /\ s.at <= Len(events) /\ s.at \in Nat
          /\ s.read /\ s.life # Life(u) => \E e \in 1..Len(events) : s.at < e /\ Concerns(e, u)
          /\ s.read => ev[w] <= s.at
          /\ ~s.read => s.life = "absent"
          /\ place[w] # "mirror" => s.life # "absent"
          /\ place[w] = "judge" => owner[w] \notin {u, Nobody}
        BY <1>1, <2>2, <2>3 DEF SnapOK, SyncTypeOK, Snapshot
    <2>5. s.at <= Len(events') /\ s.at < n
        BY <1>4, <2>4 DEF n
    <2>6. ASSUME s.read, s.life # Life(u)'
          PROVE  \E e \in 1..Len(events') : s.at < e /\ Concerns(e, u)'
        <3>1. CASE s.life # Life(u)
            <4>1. PICK e \in 1..Len(events) : s.at < e /\ Concerns(e, u)
                BY <2>4, <2>6, <3>1
            <4>2. e \in 1..Len(events') /\ Concerns(e, u)'
                BY <1>4, <1>5, <4>1
            <4> QED BY <4>1, <4>2
        <3>2. CASE s.life = Life(u)
            <4>1. u \in Aliases(from) \union Aliases(to)
                BY <2>6, <3>2
            <4>2. n \in 1..Len(events')
                BY <1>4
            <4>3. \A e \in {n} : Concerns(e, u)'
                BY <1>6, <4>1
            <4> QED BY <2>5, <4>2, <4>3
        <3> QED BY <3>1, <3>2
    <2> QED BY <2>1, <2>3, <2>4, <2>5, <2>6 DEF SnapOK
<1>13. Settled'
    <2> SUFFICES ASSUME NEW e \in 1..Len(events'), NEW u \in Users \ (gone' \union unread'),
                        Names(e, u)', Over(e, u)'
                 PROVE  e <= written'[u]
        BY DEF Settled
    <2>1. e \in 1..Len(events)
        BY <1>4, <1>9
    <2>2. u \in Users \ (gone \union unread)
        BY <1>2, <1>3
    <2>3. Names(e, u) /\ Over(e, u)
        BY <1>5, <2>1
    <2> QED BY <1>2, <2>1, <2>2, <2>3 DEF SyncInv, Settled
<1>14. Heard'
    <2> SUFFICES ASSUME NEW e \in 1..Len(events'), NEW u \in Users \ unread',
                        Concerns(e, u)', ~Names(e, u)'
                 PROVE  e <= written'[u]
        BY DEF Heard
    <2>1. e # n
        BY <1>3, <1>6
    <2>2. e \in 1..Len(events)
        BY <1>4, <2>1
    <2>3. u \in Users \ unread /\ Concerns(e, u) /\ ~Names(e, u)
        BY <1>3, <1>5, <2>2
    <2> QED BY <1>2, <2>2, <2>3 DEF SyncInv, Heard
<1>15. RowsTrue'
    <2> SUFFICES ASSUME NEW u \in Users \ (gone' \union unread')
                 PROVE  RowIsTrue(u)' \/ Awaited(u)'
        BY DEF RowsTrue
    <2>1. u \in Users \ (gone \union unread)
        BY <1>2, <1>3
    <2>2. CASE u \in {from, to}
        <3>1. n \in 1..Len(events')
            BY <1>4
        <3>2. \A e \in {n} : Names(e, u)' /\ ~Over(e, u)'
            BY <1>6, <1>9, <2>2
        <3> QED BY <3>1, <3>2 DEF Awaited
    <2>3. CASE u \notin {from, to}
        <3>1. Life(u)' = Life(u)
            BY <1>3, <2>3
        <3>2. RowIsTrue(u) \/ Awaited(u)
            BY <2>1 DEF SyncInv, RowsTrue
        <3>3. CASE Awaited(u)
            BY <1>4, <1>5, <1>7, <3>3 DEF Awaited
        <3>4. CASE RowIsTrue(u)
            <4>1. Bought(u)' <=> Bought(u)
                BY <3>1 DEF Life, Bought
            <4>2. Owed(u)' => Owed(u)
                BY <1>2, <4>1 DEF Owed
            <4> QED BY <1>10, <3>4, <4>1, <4>2 DEF RowIsTrue
        <3> QED BY <3>2, <3>3, <3>4
    <2> QED BY <2>2, <2>3
<1>16. Origins'
    <2>1. events'[n] = [kind |-> kind, from |-> from, to |-> to] /\ \A e \in 1..Len(events) : events'[e] = events[e]
        BY <1>1, NewEvent DEF n
    <2>2. events'[n].kind = kind /\ events'[n].from = from /\ events'[n].to = to
        BY <2>1
    <2>3. Shared' <=> Shared
        BY <1>2 DEF Shared
    <2>4. ASSUME NEW e \in 1..Len(events')
          PROVE  /\ Shared => events'[e].kind # "TRANSFER"
                 /\ events'[e].kind # "TRANSFER" => events'[e].from = events'[e].to
        BY <1>4, <2>1, <2>2 DEF SyncInv, Origins
    <2>5. Shared \/ \A u \in Users : origin[u] = u
        BY DEF SyncInv, Origins
    <2> QED BY <1>2, <2>3, <2>4, <2>5 DEF Origins
<1>17. Funded'
    <2>1. Shared' <=> Shared
        BY <1>2 DEF Shared
    <2>2. Funded
        BY DEF SyncInv
    <2> QED BY <1>2, <1>3, <1>10, <2>1, <2>2 DEF Funded
<1> QED BY <1>11, <1>12, <1>13, <1>14, <1>15, <1>16, <1>17 DEF SyncInv

LEMMA RevenueCatKeeps ==
    ASSUME SyncInv,
           NEW u \in Users, NEW v \in Users, Buy(u) \/ Refund(u) \/ Restore(u, v),
           Ordered' => Ordered
    PROVE  SyncInv'
<1>1. SyncTypeOK /\ origin \in [Users -> Users] /\ Nobody \notin Users /\ holder \in Users \union {Nobody}
    BY DEF SyncInv, SyncTypeOK
<1>2. UNCHANGED origin
    BY DEF Buy, Refund, Restore, Happens
<1>3. CASE Buy(u)
    <2>1. Happens("PURCHASE", u, u) /\ holder = Nobody /\ holder' = origin[u] /\ refunded' = refunded
        BY <1>3 DEF Buy
    <2>2. \A x \in Users \ (Aliases(u) \union Aliases(u)) : Life(x)' = Life(x)
        BY <1>1, <1>2, <2>1 DEF Life, Has, Aliases
    <2>3. SyncTypeOK'
        BY <1>1, <2>1, TypeHappens DEF SyncTypeOK
    <2> QED BY <2>1, <2>2, <2>3, HappensKeeps
<1>4. CASE Refund(u)
    <2>1. Happens("REFUND", u, u) /\ holder' = holder /\ holder = origin[u] /\ refunded' = TRUE
        BY <1>4 DEF Refund, Has
    <2>2. \A x \in Users \ (Aliases(u) \union Aliases(u)) : Life(x)' = Life(x)
        BY <1>1, <1>2, <2>1 DEF Life, Has, Aliases
    <2>3. SyncTypeOK'
        BY <1>1, <2>1, TypeHappens
    <2> QED BY <2>1, <2>2, <2>3, HappensKeeps
<1>5. CASE Restore(u, v)
    <2>1. /\ Happens("TRANSFER", v, u) /\ holder' = origin[u] /\ holder # origin[u]
          /\ holder = origin[v] /\ refunded' = refunded
        BY <1>5 DEF Restore, Has
    <2>2. \A x \in Users \ (Aliases(v) \union Aliases(u)) : Life(x)' = Life(x)
        BY <1>1, <1>2, <2>1 DEF Life, Has, Aliases
    <2>3. ~Shared
        BY <2>1 DEF Shared
    <2>4. SyncTypeOK'
        BY <1>1, <2>1, TypeHappens DEF SyncTypeOK
    <2> QED BY <2>1, <2>2, <2>3, <2>4, HappensKeeps
<1> QED BY <1>3, <1>4, <1>5

-----------------------------------------------------------------------------
(* The handlers, and deleted accounts: RevenueCat stands still *)

LEMMA Still ==
    ASSUME UNCHANGED revenuecat
    PROVE  /\ UNCHANGED <<origin, holder, refunded, events>>
           /\ \A e \in 1..Len(events), u \in Users :
                 (Names(e, u)' <=> Names(e, u)) /\ (Concerns(e, u)' <=> Concerns(e, u))
           /\ \A u \in Users : Life(u)' = Life(u) /\ (Has(u)' <=> Has(u))
           /\ (Shared' <=> Shared) /\ (Origins => Origins')
BY DEF revenuecat, Names, Concerns, Aliases, Life, Has, Shared, Origins

\* What was synced is remembered as long as what is handled newly is in it.
LEMMA SettledKeeps ==
    ASSUME SyncTypeOK, Settled, Heard, UNCHANGED revenuecat, gone \subseteq gone',
           written' \in [Users -> Nat],
           \A u \in Users : written[u] <= written'[u],
           \A u \in unread \ unread' : Len(events) <= written'[u],
           \A e \in 1..Len(events) : \A u \in Users \ (gone' \union unread') :
              Names(e, u) /\ Over(e, u)' => Over(e, u) \/ e <= written'[u]
    PROVE  Settled' /\ Heard'
<1>1. /\ events' = events
      /\ \A e \in 1..Len(events), u \in Users :
            (Names(e, u)' <=> Names(e, u)) /\ (Concerns(e, u)' <=> Concerns(e, u))
    BY Still
<1>2. \A u \in Users : written[u] \in Nat /\ written'[u] \in Nat
    BY DEF SyncTypeOK
<1>3. Len(events) \in Nat
    BY EventFacts
<1>4. Settled'
    <2> SUFFICES ASSUME NEW e \in 1..Len(events), NEW u \in Users \ (gone' \union unread'),
                        Names(e, u)', Over(e, u)'
                 PROVE  e <= written'[u]
        BY <1>1 DEF Settled
    <2>1. Names(e, u)
        BY <1>1
    <2>2. CASE u \in unread
        BY <1>2, <1>3, <2>2
    <2>3. CASE u \notin unread
        <3>1. u \in Users \ (gone \union unread)
            BY <2>3
        <3>2. CASE Over(e, u)
            <4>1. e <= written[u] /\ written[u] <= written'[u]
                BY <2>1, <3>1, <3>2 DEF Settled
            <4> QED BY <1>2, <4>1
        <3>3. CASE ~Over(e, u)
            BY <2>1, <3>3
        <3> QED BY <3>2, <3>3
    <2> QED BY <2>2, <2>3
<1>5. Heard'
    <2> SUFFICES ASSUME NEW e \in 1..Len(events), NEW u \in Users \ unread',
                        Concerns(e, u)', ~Names(e, u)'
                 PROVE  e <= written'[u]
        BY <1>1 DEF Heard
    <2>1. Concerns(e, u) /\ ~Names(e, u)
        BY <1>1
    <2>2. CASE u \in unread
        BY <1>2, <1>3, <2>2
    <2>3. CASE u \notin unread
        <3>1. e <= written[u] /\ written[u] <= written'[u]
            BY <2>1, <2>3 DEF Heard
        <3> QED BY <1>2, <3>1
    <2> QED BY <2>2, <2>3
<1> QED BY <1>4, <1>5

\* A row that is not written is as true as it was, and an account that takes the
\* claim or loses its event to a handler is still to be synced.
LEMMA RowsKeep ==
    ASSUME SyncTypeOK, RowsTrue, UNCHANGED revenuecat, gone \subseteq gone', unread \subseteq unread',
           Ordered' => Ordered,
           \A u \in Users \ gone' : purchase'[u] = purchase[u],
           \A u \in Users \ (gone' \union unread') : Awaited(u) => Awaited(u)',
           \A u \in Users \ (gone' \union unread') :
              claim'[origin[u]] = u => claim[origin[u]] = u \/ Awaited(u)'
    PROVE  RowsTrue'
<1> SUFFICES ASSUME NEW u \in Users \ (gone' \union unread')
             PROVE  RowIsTrue(u)' \/ Awaited(u)'
    BY DEF RowsTrue
<1>1. RowIsTrue(u) \/ Awaited(u)
    BY DEF RowsTrue
<1>2. CASE Awaited(u)'
    BY <1>2
<1>3. CASE ~Awaited(u)'
    <2>1. RowIsTrue(u)
        BY <1>1, <1>3
    <2>2. Granted(u)' <=> Granted(u)
        BY DEF Granted
    <2>3. Bought(u)' <=> Bought(u)
        BY Still DEF Bought
    <2>4. Owed(u)' => Owed(u)
        BY <1>3, <2>3, Still DEF Owed
    <2> QED BY <2>1, <2>2, <2>3, <2>4 DEF RowIsTrue
<1> QED BY <1>2, <1>3

\* The snapshots of the other handlers are as good as they were.
LEMMA SnapsKeep ==
    ASSUME SyncTypeOK, Snaps, UNCHANGED revenuecat, NEW w \in Syncers,
           \A v \in Syncers \ {w} : /\ place'[v] = place[v] /\ ev'[v] = ev[v] /\ todo'[v] = todo[v]
                                    /\ snap'[v] = snap[v] /\ owner'[v] = owner[v],
           place'[w] \in Holding => SnapOK(w)'
    PROVE  Snaps'
<1> SUFFICES ASSUME NEW v \in Syncers, place'[v] \in Holding, v # w PROVE SnapOK(v)'
    BY DEF Snaps
<1>1. SnapOK(v)
    BY DEF Snaps
<1>2. PICK u \in Users : u = Head(todo[v])
    BY HeadKnown DEF Holding
<1>3. UNCHANGED <<place[v], ev[v], todo[v], snap[v], owner[v]>>
    OBVIOUS
<1>4. /\ events' = events /\ Life(u)' = Life(u)
      /\ \A e \in 1..Len(events) : Concerns(e, u)' <=> Concerns(e, u)
    BY Still
<1> HIDE DEF Life, Concerns
<1> QED BY <1>1, <1>2, <1>3, <1>4 DEF SnapOK

\* What another handler does not touch.
LEMMA OthersPast ==
    ASSUME NEW w \in Syncers,
           \A v \in Syncers \ {w} : place'[v] = place[v] /\ ev'[v] = ev[v] /\ todo'[v] = todo[v]
    PROVE  \A v \in Syncers \ {w} : \A u \in Users :
              /\ InTodo(v, u)' <=> InTodo(v, u)
              /\ \A e \in Nat : Past(v, e, u)' <=> Past(v, e, u)
BY DEF InTodo, Past

\* Who is named by an event that is started, and exists, is in its list.
LEMMA NamedIsKnown ==
    ASSUME SyncTypeOK, Origins, NEW e \in 1..Len(events), NEW u \in Users \ gone, Names(e, u)
    PROVE  \E i \in 1..Len(Known(e)) : Known(e)[i] = u
<1>1. CASE events[e].to = u
    BY <1>1, KnownFacts
<1>2. CASE events[e].to # u
    <2>1. events[e].from = u
        BY <1>2 DEF Names
    <2>2. events[e].kind = "TRANSFER"
        BY <1>2, <2>1 DEF Origins
    <2> QED BY <2>1, <2>2, KnownFacts
<1> QED BY <1>1, <1>2

LEMMA SkipKeeps ==
    ASSUME SyncInv, NEW w \in Syncers, NEW e \in 1..MaxEvents, Skip(w, e), Ordered' => Ordered
    PROVE  SyncInv'
<1>1. /\ SyncTypeOK /\ HandlersOK /\ Snaps /\ Settled /\ Heard /\ RowsTrue /\ Origins /\ Funded
    BY DEF SyncInv
<1>2. SyncTypeOK'
    BY <1>1, TypeStart
<1>3. /\ UNCHANGED <<revenuecat, claim, purchase, gone, place, ev, todo, snap, owner, written, moved,
                     unread>>
      /\ status' = [status EXCEPT ![e] = "skipped"]
    BY DEF Skip, handler, hindsight
<1>4. UNCHANGED <<origin, holder, refunded, events>>
    BY <1>3 DEF revenuecat
<1>5. e \in 1..Len(events) /\ Known(e) = <<>> /\ Len(events) \in Nat /\ Len(events) <= MaxEvents
    BY <1>1, EventFacts DEF Skip
<1>6. \A u \in Users \ gone : ~Names(e, u)
    <2> SUFFICES ASSUME NEW u \in Users \ gone, Names(e, u) PROVE FALSE
        OBVIOUS
    <2>1. PICK i \in 1..Len(Known(e)) : TRUE
        BY <1>1, <1>5, NamedIsKnown
    <2>2. Len(Known(e)) = 0
        BY <1>5, EmptySeq
    <2> QED BY <2>1, <2>2
<1>7. \A d \in 1..Len(events), u \in Users : d # e => (Over(d, u)' <=> Over(d, u))
    <2>1. \A d \in 1..Len(events) : d # e => status'[d] = status[d]
        BY <1>1, <1>3, <1>5 DEF SyncTypeOK
    <2> QED BY <1>3, <2>1 DEF Over, Past, InTodo
<1>8. \A v \in Syncers, u \in Users : InTodo(v, u)' <=> InTodo(v, u)
    BY <1>3 DEF InTodo
<1>9. HandlersOK'
    BY <1>1, <1>3, <1>4 DEF HandlersOK
<1>10. Snaps'
    BY <1>1, <1>3, SnapsKeep DEF Snaps, SnapOK, Life, Concerns, Has, Aliases, revenuecat
<1>11. written \in [Users -> Nat] /\ \A u \in Users : written[u] <= written'[u]
    BY <1>1, <1>3 DEF SyncTypeOK
<1>12. Settled' /\ Heard'
    BY <1>1, <1>3, <1>6, <1>7, <1>11, SettledKeeps
<1>13. \A u \in Users \ (gone' \union unread') : Awaited(u) => Awaited(u)'
    <2> SUFFICES ASSUME NEW u \in Users \ gone, Awaited(u) PROVE Awaited(u)'
        BY <1>3
    <2>1. CASE \E v \in Syncers : InTodo(v, u)
        BY <1>8, <2>1 DEF Awaited
    <2>2. CASE \E d \in 1..Len(events) : Names(d, u) /\ ~Over(d, u)
        <3>1. PICK d \in 1..Len(events) : Names(d, u) /\ ~Over(d, u)
            BY <2>2
        <3>2. Names(d, u)' /\ ~Over(d, u)'
            BY <1>3, <1>6, <1>7, <3>1, Still
        <3> QED BY <1>4, <3>2 DEF Awaited
    <2> QED BY <2>1, <2>2 DEF Awaited
<1>14. RowsTrue'
    BY <1>1, <1>3, <1>4, <1>13, RowsKeep
<1>15. Origins'
    BY <1>1, <1>3, Still
<1>16. Funded'
    BY <1>1, <1>3, <1>4 DEF Funded, Granted, Shared
<1> QED BY <1>2, <1>9, <1>10, <1>12, <1>14, <1>15, <1>16 DEF SyncInv

LEMMA DeliverKeeps ==
    ASSUME SyncInv, NEW w \in Syncers, NEW e \in 1..MaxEvents, Deliver(w, e), Ordered' => Ordered
    PROVE  SyncInv'
<1>1. /\ SyncTypeOK /\ HandlersOK /\ Snaps /\ Settled /\ Heard /\ RowsTrue /\ Origins /\ Funded
    BY DEF SyncInv
<1>2. SyncTypeOK'
    BY <1>1, TypeStart
<1>3. /\ UNCHANGED <<revenuecat, purchase, gone, snap, owner, written, unread>>
      /\ status' = [status EXCEPT ![e] = "open"]
      /\ place[w] = "idle" /\ status[e] \notin Done
      /\ place' = [place EXCEPT ![w] = "fetch"]
      /\ ev' = [ev EXCEPT ![w] = e]
      /\ todo' = [todo EXCEPT ![w] = Known(e)]
    BY DEF Deliver, MovesTo
<1>4. UNCHANGED <<origin, holder, refunded, events>>
    BY <1>3 DEF revenuecat
<1>5. e \in 1..Len(events) /\ Len(events) \in Nat /\ Len(events) <= MaxEvents
    BY <1>1, EventFacts DEF Deliver
<1>6. /\ place'[w] = "fetch" /\ ev'[w] = e /\ todo'[w] = Known(e)
      /\ \A v \in Syncers \ {w} : /\ place'[v] = place[v] /\ ev'[v] = ev[v] /\ todo'[v] = todo[v]
                                  /\ snap'[v] = snap[v] /\ owner'[v] = owner[v]
    BY <1>1, <1>3 DEF SyncTypeOK
<1>7. \A u \in Users \ gone : Names(e, u) => InTodo(w, u)'
    BY <1>1, <1>5, <1>6, NamedIsKnown DEF InTodo
<1>8. \A u \in Users : ~InTodo(w, u)
    <2>1. todo[w] = <<>>
        BY <1>1, <1>3 DEF HandlersOK
    <2> QED BY <2>1, EmptySeq DEF InTodo
<1>9. \A v \in Syncers \ {w} : \A u \in Users :
         /\ InTodo(v, u)' <=> InTodo(v, u)
         /\ \A d \in Nat : Past(v, d, u)' <=> Past(v, d, u)
    BY <1>6, OthersPast
<1>10. \A d \in 1..Len(events), u \in Users \ gone :
          Names(d, u) => (Over(d, u)' <=> Over(d, u))
    <2> SUFFICES ASSUME NEW d \in 1..Len(events), NEW u \in Users \ gone, Names(d, u)
                 PROVE  Over(d, u)' <=> Over(d, u)
        OBVIOUS
    <2>1. status'[d] \in Done <=> status[d] \in Done
        BY <1>1, <1>3, <1>5 DEF SyncTypeOK, Done
    <2>2. ~Past(w, d, u)
        BY <1>3 DEF Past
    <2>3. ~Past(w, d, u)'
        <3>1. CASE d = e
            BY <1>7, <3>1 DEF Past
        <3>2. CASE d # e
            BY <1>6, <3>2 DEF Past
        <3> QED BY <3>1, <3>2
    <2>4. d \in Nat
        BY <1>5
    <2>5. (\E v \in Syncers : Past(v, d, u)') <=> \E v \in Syncers : Past(v, d, u)
        BY <1>9, <2>2, <2>3, <2>4
    <2> QED BY <2>1, <2>5 DEF Over
<1>11. HandlersOK'
    BY <1>1, <1>4, <1>5, <1>6 DEF HandlersOK
<1>12. Snaps'
    BY <1>1, <1>3, <1>6, SnapsKeep DEF Holding
<1>13. written \in [Users -> Nat] /\ \A u \in Users : written[u] <= written'[u]
    BY <1>1, <1>3 DEF SyncTypeOK
<1>14. Settled' /\ Heard'
    BY <1>1, <1>3, <1>10, <1>13, SettledKeeps
<1>15. \A u \in Users \ (gone' \union unread') : Awaited(u) => Awaited(u)'
    <2> SUFFICES ASSUME NEW u \in Users \ gone, Awaited(u) PROVE Awaited(u)'
        BY <1>3
    <2>1. CASE \E v \in Syncers : InTodo(v, u)
        BY <1>8, <1>9, <2>1 DEF Awaited
    <2>2. CASE \E d \in 1..Len(events) : Names(d, u) /\ ~Over(d, u)
        <3>1. PICK d \in 1..Len(events) : Names(d, u) /\ ~Over(d, u)
            BY <2>2
        <3>2. Names(d, u)' /\ ~Over(d, u)'
            BY <1>3, <1>10, <3>1, Still
        <3> QED BY <1>4, <3>2 DEF Awaited
    <2> QED BY <2>1, <2>2 DEF Awaited
<1>16. \A u \in Users \ gone : claim'[origin[u]] = u => claim[origin[u]] = u \/ Awaited(u)'
    <2> SUFFICES ASSUME NEW u \in Users \ gone, claim'[origin[u]] = u, claim[origin[u]] # u
                 PROVE  Awaited(u)'
        OBVIOUS
    <2>1. origin[u] \in Users
        BY <1>1 DEF SyncTypeOK
    <2>2. u = events[e].to
        BY <2>1 DEF Deliver, ClaimsMoved
    <2>3. InTodo(w, u)'
        BY <1>7, <2>2 DEF Names
    <2> QED BY <2>3 DEF Awaited
<1>17. RowsTrue'
    BY <1>1, <1>3, <1>15, <1>16, RowsKeep
<1>18. Origins'
    BY <1>1, <1>3, Still
<1>19. Funded'
    <2>1. Shared => events[e].kind # "TRANSFER"
        BY <1>1, <1>5 DEF Origins
    <2>2. Shared => claim' = claim
        BY <2>1 DEF Deliver
    <2> QED BY <1>1, <1>3, <1>4, <2>2, Still DEF Funded, Granted
<1> QED BY <1>2, <1>11, <1>12, <1>14, <1>17, <1>18, <1>19 DEF SyncInv

LEMMA RefreshKeeps ==
    ASSUME SyncInv, NEW w \in Syncers, NEW r \in Users, Refresh(w, r), Ordered' => Ordered
    PROVE  SyncInv'
<1>1. /\ SyncTypeOK /\ HandlersOK /\ Snaps /\ Settled /\ Heard /\ RowsTrue /\ Origins /\ Funded
    BY DEF SyncInv
<1>2. SyncTypeOK'
    BY <1>1, TypeOther
<1>3. /\ UNCHANGED <<revenuecat, status, claim, purchase, gone, snap, owner, written, moved,
                     unread>>
      /\ place[w] = "idle"
      /\ place' = [place EXCEPT ![w] = "fetch"]
      /\ ev' = [ev EXCEPT ![w] = 0]
      /\ todo' = [todo EXCEPT ![w] = <<r>>]
    BY DEF Refresh, MovesTo, hindsight
<1>4. UNCHANGED <<origin, holder, refunded, events>>
    BY <1>3 DEF revenuecat
<1>5. Len(events) \in Nat
    BY <1>1, EventFacts
<1>6. /\ place'[w] = "fetch" /\ ev'[w] = 0 /\ todo'[w] = <<r>>
      /\ \A v \in Syncers \ {w} : /\ place'[v] = place[v] /\ ev'[v] = ev[v] /\ todo'[v] = todo[v]
                                  /\ snap'[v] = snap[v] /\ owner'[v] = owner[v]
    BY <1>1, <1>3 DEF SyncTypeOK
<1>7. \A u \in Users : ~InTodo(w, u)
    <2>1. todo[w] = <<>>
        BY <1>1, <1>3 DEF HandlersOK
    <2> QED BY <2>1, EmptySeq DEF InTodo
<1>8. \A v \in Syncers \ {w} : \A u \in Users :
         /\ InTodo(v, u)' <=> InTodo(v, u)
         /\ \A d \in Nat : Past(v, d, u)' <=> Past(v, d, u)
    BY <1>6, OthersPast
<1>9. \A d \in 1..Len(events), u \in Users : Over(d, u)' <=> Over(d, u)
    <2> SUFFICES ASSUME NEW d \in 1..Len(events), NEW u \in Users
                 PROVE  Over(d, u)' <=> Over(d, u)
        OBVIOUS
    <2>1. ~Past(w, d, u) /\ ~Past(w, d, u)'
        BY <1>3, <1>5, <1>6 DEF Past
    <2>2. (\E v \in Syncers : Past(v, d, u)') <=> \E v \in Syncers : Past(v, d, u)
        BY <1>5, <1>8, <2>1
    <2> QED BY <1>3, <2>2 DEF Over
<1>10. HandlersOK'
    BY <1>1, <1>4, <1>5, <1>6 DEF HandlersOK
<1>11. Snaps'
    BY <1>1, <1>3, <1>6, SnapsKeep DEF Holding
<1>12. written \in [Users -> Nat] /\ \A u \in Users : written[u] <= written'[u]
    BY <1>1, <1>3 DEF SyncTypeOK
<1>13. Settled' /\ Heard'
    BY <1>1, <1>3, <1>9, <1>12, SettledKeeps
<1>14. \A u \in Users : Awaited(u) => Awaited(u)'
    BY <1>3, <1>4, <1>7, <1>8, <1>9, Still DEF Awaited
<1>15. RowsTrue'
    BY <1>1, <1>3, <1>4, <1>14, RowsKeep
<1>16. Origins'
    BY <1>1, <1>3, Still
<1>17. Funded'
    BY <1>1, <1>3, <1>4, Still DEF Funded, Granted
<1> QED BY <1>2, <1>10, <1>11, <1>13, <1>15, <1>16, <1>17 DEF SyncInv

\* Within the sync of an account, what is awaited stays so.
LEMMA InHand ==
    ASSUME NEW w \in Syncers, place[w] # "idle", place'[w] # "idle",
           \A v \in Syncers \ {w} : place'[v] = place[v],
           UNCHANGED <<revenuecat, status, ev, todo>>
    PROVE  /\ \A e \in 1..Len(events), u \in Users : Over(e, u)' <=> Over(e, u)
           /\ \A u \in Users : Awaited(u)' <=> Awaited(u)
<1>1. \A v \in Syncers, u \in Users : InTodo(v, u)' <=> InTodo(v, u)
    BY DEF InTodo
<1>2. \A v \in Syncers : place'[v] = "idle" <=> place[v] = "idle"
    OBVIOUS
<1>3. \A e \in 1..Len(events), u \in Users : Over(e, u)' <=> Over(e, u)
    BY <1>1, <1>2 DEF Over, Past
<1>4. \A u \in Users : Awaited(u)' <=> Awaited(u)
    BY <1>1, <1>3, Still DEF Awaited
<1> QED BY <1>3, <1>4

\* What keeps the invariant while an account is synced.
LEMMA SyncKeeps ==
    ASSUME SyncInv, SyncTypeOK', NEW w \in Syncers,
           place[w] # "idle", place'[w] \in Holding,
           \A v \in Syncers \ {w} : /\ place'[v] = place[v] /\ snap'[v] = snap[v]
                                    /\ owner'[v] = owner[v],
           UNCHANGED <<revenuecat, status, purchase, gone, ev, todo, written, moved>>,
           unread \subseteq unread', Ordered' => Ordered,
           SnapOK(w)',
           \A u \in Users \ gone : claim'[origin[u]] = u =>
              claim[origin[u]] = u \/ Awaited(u),
           Funded'
    PROVE  SyncInv'
<1>1. /\ SyncTypeOK /\ HandlersOK /\ Snaps /\ Settled /\ Heard /\ RowsTrue /\ Origins
    BY DEF SyncInv
<1>2. UNCHANGED <<origin, holder, refunded, events>>
    BY DEF revenuecat
<1>3. /\ \A e \in 1..Len(events), u \in Users : Over(e, u)' <=> Over(e, u)
      /\ \A u \in Users : Awaited(u)' <=> Awaited(u)
    BY InHand DEF Holding
<1>4. HandlersOK'
    BY <1>1, <1>2 DEF HandlersOK, Holding
<1>5. Snaps'
    BY <1>1, SnapsKeep
<1>6. written \in [Users -> Nat] /\ \A u \in Users : written[u] <= written'[u]
    BY <1>1 DEF SyncTypeOK
<1>7. Settled' /\ Heard'
    BY <1>1, <1>3, <1>6, SettledKeeps
<1>8. RowsTrue'
    BY <1>1, <1>3, RowsKeep
<1>9. Origins'
    BY <1>1, Still
<1> QED BY <1>4, <1>5, <1>7, <1>8, <1>9 DEF SyncInv

\* The account in hand is still to be synced.
LEMMA HeadAwaited ==
    ASSUME SyncTypeOK, NEW w \in Syncers, place[w] \in {"fetch", "claim", "judge", "mirror"}
    PROVE  InTodo(w, Head(todo[w])) /\ Awaited(Head(todo[w]))
<1>1. 1 \in 1..Len(todo[w]) /\ todo[w][1] = Head(todo[w])
    BY HeadKnown, TodoFacts
<1>2. InTodo(w, Head(todo[w]))
    BY <1>1 DEF InTodo
<1> QED BY <1>2 DEF Awaited

LEMMA FetchKeeps ==
    ASSUME SyncInv, NEW w \in Syncers, Fetch(w), Ordered' => Ordered
    PROVE  SyncInv'
<1>1. SyncTypeOK /\ HandlersOK /\ Funded
    BY DEF SyncInv
<1>2. SyncTypeOK'
    BY <1>1, TypeSync
<1>3. PICK u \in Users : u = Head(todo[w])
    BY <1>1, HeadKnown DEF Fetch
<1>4. PICK a \in Fetched(u) : /\ snap' = [snap EXCEPT ![w] = a]
                              /\ place' = [place EXCEPT ![w] = IF a.life = "absent" THEN "mirror" ELSE "claim"]
    BY <1>3 DEF Fetch, MovesTo
<1>5. /\ UNCHANGED <<revenuecat, status, claim, purchase, gone, ev, todo, owner, written, moved,
                     unread>>
      /\ place[w] = "fetch"
    BY DEF Fetch, hindsight
<1>6. /\ snap'[w] = a /\ place'[w] = IF a.life = "absent" THEN "mirror" ELSE "claim"
      /\ \A v \in Syncers \ {w} : place'[v] = place[v] /\ snap'[v] = snap[v] /\ owner'[v] = owner[v]
    BY <1>1, <1>4, <1>5 DEF SyncTypeOK
<1>7. Len(events) \in Nat /\ ev[w] <= Len(events)
    BY <1>1, EventFacts DEF HandlersOK
<1>8. /\ a.at <= Len(events)
      /\ a.read => a.life = Life(u) /\ ev[w] <= a.at
      /\ ~a.read => a.life = "absent"
    <2>1. CASE a = Unfetched
        BY <1>7, <2>1 DEF Unfetched
    <2>2. CASE a # Unfetched
        <3>1. a = [life |-> Life(u), read |-> TRUE, at |-> Len(events)]
            BY <2>2 DEF Fetched, Life
        <3> HIDE DEF Life
        <3> QED BY <1>7, <3>1
    <2> QED BY <2>1, <2>2
<1>9. SnapOK(w)'
    <2>1. /\ Head(todo'[w]) = u /\ Life(u)' = Life(u) /\ events' = events /\ ev'[w] = ev[w]
        BY <1>3, <1>5, Still DEF revenuecat
    <2>2. place'[w] = "mirror" \/ (place'[w] = "claim" /\ a.life # "absent")
        BY <1>6
    <2> HIDE DEF Life
    <2> QED BY <1>6, <1>8, <2>1, <2>2 DEF SnapOK
<1>10. Funded'
    <2>1. UNCHANGED <<origin, holder, refunded, events>>
        BY <1>5 DEF revenuecat
    <2> QED BY <1>1, <1>5, <2>1, Still DEF Funded, Granted
<1>11. place'[w] \in Holding
    BY <1>6 DEF Holding
<1> QED BY <1>2, <1>5, <1>6, <1>9, <1>10, <1>11, SyncKeeps

LEMMA ClaimKeeps ==
    ASSUME SyncInv, NEW w \in Syncers, ClaimSubscriber(w), Ordered' => Ordered
    PROVE  SyncInv'
<1>1. SyncTypeOK /\ Snaps /\ Funded /\ Nobody \notin Users
    BY DEF SyncInv
<1>2. SyncTypeOK'
    BY <1>1, TypeSync
<1>3. PICK u \in Users : u = Head(todo[w])
    BY <1>1, HeadKnown DEF ClaimSubscriber
<1>4. origin[u] \in Users
    BY <1>1 DEF SyncTypeOK
<1>5. /\ UNCHANGED <<revenuecat, status, purchase, gone, ev, todo, snap, written, moved, unread>>
      /\ place[w] = "claim"
      /\ claim' = IF claim[origin[u]] = Nobody THEN [claim EXCEPT ![origin[u]] = u] ELSE claim
      /\ owner' = [owner EXCEPT ![w] = claim'[origin[u]]]
      /\ place' = [place EXCEPT ![w] = IF claim'[origin[u]] = u THEN "mirror" ELSE "judge"]
    BY <1>3 DEF ClaimSubscriber, MovesTo, hindsight
<1>6. /\ owner'[w] = claim'[origin[u]]
      /\ place'[w] = IF claim'[origin[u]] = u THEN "mirror" ELSE "judge"
      /\ \A v \in Syncers \ {w} : place'[v] = place[v] /\ snap'[v] = snap[v] /\ owner'[v] = owner[v]
    BY <1>1, <1>5 DEF SyncTypeOK
<1>7. UNCHANGED <<origin, holder, refunded, events>>
    BY <1>5 DEF revenuecat
<1>8. SnapOK(w)'
    <2>1. SnapOK(w)
        BY <1>1, <1>5 DEF Snaps, Holding
    <2>2. /\ Head(todo'[w]) = u /\ Life(u)' = Life(u)
          /\ \A e \in 1..Len(events) : Concerns(e, u)' <=> Concerns(e, u)
        BY <1>3, <1>5, Still
    <2>3. snap'[w] = snap[w] /\ ev'[w] = ev[w] /\ (place'[w] = "judge" => owner'[w] \notin {u, Nobody})
        BY <1>1, <1>4, <1>5, <1>6 DEF SyncTypeOK
    <2> HIDE DEF Life, Concerns
    <2> QED BY <1>3, <1>5, <1>7, <2>1, <2>2, <2>3 DEF SnapOK
<1>9. \A x \in Users : claim'[origin[x]] # claim[origin[x]] =>
         claim[origin[x]] = Nobody /\ claim'[origin[x]] = u
    BY <1>1, <1>4, <1>5 DEF SyncTypeOK
<1>10. \A x \in Users \ gone : claim'[origin[x]] = x => claim[origin[x]] = x \/ Awaited(x)
    <2>1. Awaited(u)
        BY <1>1, <1>3, <1>5, HeadAwaited
    <2> QED BY <1>9, <2>1
<1>11. Funded'
    <2> SUFFICES ASSUME Shared, NEW x \in Users \ (gone \union unread), Granted(x)
                 PROVE  claim'[origin[x]] = x
        BY <1>5, <1>7, Still DEF Funded, Granted
    <2>1. claim[origin[x]] = x
        BY <1>1 DEF Funded
    <2> QED BY <1>1, <1>9, <2>1
<1>12. place'[w] \in Holding
    BY <1>6 DEF Holding
<1> QED BY <1>2, <1>5, <1>6, <1>8, <1>10, <1>11, <1>12, SyncKeeps

LEMMA AdoptKeeps ==
    ASSUME SyncInv, NEW w \in Syncers, Adopt(w), Ordered' => Ordered
    PROVE  SyncInv'
<1>1. SyncTypeOK /\ Snaps /\ Funded /\ Nobody \notin Users
    BY DEF SyncInv
<1>2. SyncTypeOK'
    BY <1>1, TypeSync
<1>3. PICK u \in Users : u = Head(todo[w])
    BY <1>1, HeadKnown DEF Adopt
<1>4. origin[u] \in Users
    BY <1>1 DEF SyncTypeOK
<1>5. /\ UNCHANGED <<revenuecat, status, purchase, gone, ev, todo, snap, owner, written, moved>>
      /\ place[w] = "judge" /\ owner[w] \in gone
      /\ claim' = [claim EXCEPT ![origin[u]] = u]
      /\ place' = [place EXCEPT ![w] = "mirror"]
      /\ unread \subseteq unread'
      /\ claim[origin[u]] \in {owner[w], u, Nobody} \union unread'
    BY <1>3 DEF Adopt, MovesTo
<1>6. /\ place'[w] = "mirror"
      /\ \A v \in Syncers \ {w} : place'[v] = place[v] /\ snap'[v] = snap[v] /\ owner'[v] = owner[v]
    BY <1>1, <1>5 DEF SyncTypeOK
<1>7. UNCHANGED <<origin, holder, refunded, events>>
    BY <1>5 DEF revenuecat
<1>8. SnapOK(w)'
    <2>1. SnapOK(w)
        BY <1>1, <1>5 DEF Snaps, Holding
    <2>2. /\ Head(todo'[w]) = u /\ Life(u)' = Life(u)
          /\ \A e \in 1..Len(events) : Concerns(e, u)' <=> Concerns(e, u)
        BY <1>3, <1>5, Still
    <2>3. snap'[w] = snap[w] /\ ev'[w] = ev[w] /\ place'[w] # "judge"
        BY <1>5, <1>6
    <2> HIDE DEF Life, Concerns
    <2> QED BY <1>3, <1>5, <1>6, <1>7, <2>1, <2>2, <2>3 DEF SnapOK
<1>9. \A x \in Users : IF origin[x] = origin[u] THEN claim'[origin[x]] = u
                       ELSE claim'[origin[x]] = claim[origin[x]]
    BY <1>1, <1>4, <1>5 DEF SyncTypeOK
<1>10. \A x \in Users \ gone : claim'[origin[x]] = x => claim[origin[x]] = x \/ Awaited(x)
    <2>1. Awaited(u)
        BY <1>1, <1>3, <1>5, HeadAwaited
    <2> QED BY <1>9, <2>1
<1>11. Funded'
    <2> SUFFICES ASSUME Shared, NEW x \in Users \ (gone \union unread'), Granted(x)
                 PROVE  claim'[origin[x]] = x
        BY <1>5, <1>7, Still DEF Funded, Granted
    <2>1. claim[origin[x]] = x /\ origin[x] = origin[u]
        BY <1>1, <1>5 DEF Funded, Shared
    <2>2. x = u
        BY <1>1, <1>5, <2>1
    <2> QED BY <1>9, <2>2
<1>12. place'[w] \in Holding
    BY <1>6 DEF Holding
<1> QED BY <1>2, <1>5, <1>6, <1>8, <1>10, <1>11, <1>12, SyncKeeps

\* The end of a sync: the account is off the list, whatever else was awaited is,
\* and what was synced is remembered.
LEMMA SyncedOver ==
    ASSUME SyncInv, NEW w \in Syncers, place[w] \in {"judge", "mirror"},
           Synced(w, snap[w]), NEW u \in Users, u = Head(todo[w])
    PROVE  /\ \A e \in 1..Len(events), x \in Users :
                 x # u \/ e # ev[w] => (Over(e, x)' <=> Over(e, x))
           /\ \A x \in Users \ {u} : Awaited(x) => Awaited(x)'
<1>1. SyncTypeOK /\ Len(events) \in Nat
    BY EventFacts DEF SyncInv
<1>2. /\ UNCHANGED <<revenuecat, status, ev>>
      /\ place'[w] = "idle" => ev[w] = 0
      /\ todo'[w] = Tail(todo[w])
      /\ \A v \in Syncers \ {w} : place'[v] = place[v] /\ todo'[v] = todo[v]
    BY <1>1, SyncedFacts
<1>3. \A v \in Syncers \ {w} : \A x \in Users :
         /\ InTodo(v, x)' <=> InTodo(v, x)
         /\ \A d \in Nat : Past(v, d, x)' <=> Past(v, d, x)
    BY <1>2, OthersPast
<1>4. ASSUME NEW x \in Users \ {u} PROVE InTodo(w, x)' <=> InTodo(w, x)
    <2>1. /\ Len(todo[w]) \in Nat \ {0} /\ todo[w][1] = u
          /\ Len(Tail(todo[w])) = Len(todo[w]) - 1
          /\ \A i \in 1..Len(Tail(todo[w])) : Tail(todo[w])[i] = todo[w][i + 1]
        BY <1>1, HeadKnown, TodoFacts
    <2>2. ASSUME NEW i \in 1..Len(todo[w]), todo[w][i] = x
          PROVE  \E j \in 1..Len(Tail(todo[w])) : Tail(todo[w])[j] = x
        <3>1. i # 1
            BY <2>1, <2>2
        <3>2. i - 1 \in 1..Len(Tail(todo[w])) /\ (i - 1) + 1 = i
            BY <2>1, <3>1
        <3>3. Tail(todo[w])[i - 1] = todo[w][(i - 1) + 1]
            BY <2>1, <3>2
        <3> QED BY <2>2, <3>2, <3>3
    <2>3. ASSUME NEW j \in 1..Len(Tail(todo[w])), Tail(todo[w])[j] = x
          PROVE  \E i \in 1..Len(todo[w]) : todo[w][i] = x
        <3>1. j + 1 \in 1..Len(todo[w])
            BY <2>1
        <3> QED BY <2>1, <2>3, <3>1
    <2> QED BY <1>2, <2>2, <2>3 DEF InTodo
<1>5. ASSUME NEW e \in 1..Len(events), NEW x \in Users, x # u \/ e # ev[w]
      PROVE  Over(e, x)' <=> Over(e, x)
    <2>1. Past(w, e, x)' <=> Past(w, e, x)
        <3>1. CASE e # ev[w]
            BY <1>2, <3>1 DEF Past
        <3>2. CASE e = ev[w]
            <4>1. place[w] # "idle" /\ place'[w] # "idle"
                BY <1>1, <1>2, <3>2
            <4>2. InTodo(w, x)' <=> InTodo(w, x)
                BY <1>4, <1>5, <3>2
            <4> QED BY <1>2, <4>1, <4>2 DEF Past
        <3> QED BY <3>1, <3>2
    <2>2. e \in Nat
        BY <1>1
    <2>3. (\E v \in Syncers : Past(v, e, x)') <=> \E v \in Syncers : Past(v, e, x)
        BY <1>3, <2>1, <2>2
    <2> QED BY <1>2, <2>3 DEF Over
<1>6. ASSUME NEW x \in Users \ {u}, Awaited(x) PROVE Awaited(x)'
    <2>1. CASE \E v \in Syncers : InTodo(v, x)
        BY <1>3, <1>4, <2>1 DEF Awaited
    <2>2. CASE \E d \in 1..Len(events) : Names(d, x) /\ ~Over(d, x)
        <3>1. PICK d \in 1..Len(events) : Names(d, x) /\ ~Over(d, x)
            BY <2>2
        <3>2. Names(d, x)' /\ ~Over(d, x)' /\ events' = events
            BY <1>2, <1>5, <3>1, Still
        <3> QED BY <3>2 DEF Awaited
    <2> QED BY <1>6, <2>1, <2>2 DEF Awaited
<1> QED BY <1>5, <1>6

LEMMA SyncedReads ==
    ASSUME SyncInv, NEW w \in Syncers, place[w] \in {"judge", "mirror"},
           Synced(w, snap[w]), NEW u \in Users, u = Head(todo[w])
    PROVE  /\ \A x \in Users : written[x] <= written'[x]
           /\ \A x \in Users \ {u} : x \in unread' <=> x \in unread
           /\ \A x \in unread \ unread' : Len(events) <= written'[x]
           /\ u \notin unread' => snap[w].read /\ ~Stale(w)
           /\ u \notin unread' /\ snap[w].at # Len(events) => u \notin unread
           /\ snap[w].read => snap[w].at <= written'[u]
           /\ snap[w].at \in Nat
<1>1. SyncTypeOK
    BY DEF SyncInv
<1>2. snap[w].at \in Nat /\ written \in [Users -> Nat] /\ unread \subseteq Users
    BY <1>1 DEF SyncTypeOK, Snapshot
<1>3. /\ unread' = IF ~snap[w].read \/ Stale(w) THEN unread \union {u}
                   ELSE IF snap[w].at = Len(events) THEN unread \ {u} ELSE unread
      /\ written' = [written EXCEPT ![u] = IF snap[w].read /\ @ < snap[w].at THEN snap[w].at ELSE @]
    BY DEF Synced
<1>4. \A x \in Users : written'[x] = IF x = u /\ snap[w].read /\ written[x] < snap[w].at
                                     THEN snap[w].at ELSE written[x]
    BY <1>2, <1>3
<1>5. \A x \in Users : written[x] <= written'[x]
    BY <1>2, <1>4
<1>6. snap[w].read => snap[w].at <= written'[u]
    BY <1>2, <1>4
<1>7. ASSUME NEW x \in unread \ unread' PROVE Len(events) <= written'[x]
    <2>1. x = u /\ snap[w].read /\ snap[w].at = Len(events)
        BY <1>3, <1>7
    <2> QED BY <1>6, <2>1
<1> HIDE DEF Stale
<1> QED BY <1>2, <1>3, <1>5, <1>6, <1>7

LEMMA SyncedKeeps ==
    ASSUME SyncInv, SyncTypeOK', NEW w \in Syncers, place[w] \in {"judge", "mirror"},
           Synced(w, snap[w]), NEW u \in Users, u = Head(todo[w]),
           claim' = claim, Ordered' => Ordered,
           \A x \in Users \ {u} : purchase'[x] = purchase[x],
           u \notin gone \union unread' => RowIsTrue(u)' \/ Awaited(u)',
           u \notin gone \union unread' /\ Granted(u)' => claim[origin[u]] = u
    PROVE  SyncInv'
<1>1. /\ SyncTypeOK /\ HandlersOK /\ Snaps /\ Settled /\ Heard /\ RowsTrue /\ Origins /\ Funded
    BY DEF SyncInv
<1>2. /\ UNCHANGED <<revenuecat, status, gone, ev>>
      /\ place'[w] \in {"fetch", "idle", "mark"}
      /\ place'[w] = "fetch" <=> todo'[w] # <<>>
      /\ \A v \in Syncers \ {w} : /\ place'[v] = place[v] /\ todo'[v] = todo[v]
                                  /\ snap'[v] = snap[v] /\ owner'[v] = owner[v]
      /\ written' \in [Users -> 0..MaxEvents]
    BY <1>1, SyncedFacts
<1>3. UNCHANGED <<origin, holder, refunded, events>>
    BY <1>2 DEF revenuecat
<1>4. /\ \A x \in Users : written[x] <= written'[x]
      /\ \A x \in Users \ {u} : x \in unread' <=> x \in unread
      /\ \A x \in unread \ unread' : Len(events) <= written'[x]
      /\ u \notin unread' => snap[w].read
      /\ snap[w].read => snap[w].at <= written'[u]
      /\ snap[w].at \in Nat
    BY SyncedReads
<1>5. HandlersOK'
    BY <1>1, <1>2, <1>3 DEF HandlersOK
<1>6. Snaps'
    BY <1>1, <1>2, SnapsKeep DEF Holding
<1>7. snap[w].read => ev[w] <= snap[w].at
    BY <1>1 DEF Snaps, SnapOK, Holding
<1>8. Settled' /\ Heard'
    <2>1. written' \in [Users -> Nat]
        BY <1>2
    <2>2. ASSUME NEW e \in 1..Len(events), NEW x \in Users \ (gone' \union unread'),
                 Names(e, x), Over(e, x)'
          PROVE  Over(e, x) \/ e <= written'[x]
        <3>1. CASE x # u \/ e # ev[w]
            BY <2>2, <3>1, SyncedOver
        <3>2. CASE x = u /\ e = ev[w]
            <4>1. ev[w] <= snap[w].at /\ snap[w].at <= written'[u]
                BY <1>4, <1>7, <3>2
            <4>2. ev[w] \in Nat /\ written'[u] \in Nat
                BY <1>1, <2>1 DEF SyncTypeOK
            <4> QED BY <1>4, <3>2, <4>1, <4>2
        <3> QED BY <3>1, <3>2
    <2> QED BY <1>1, <1>2, <1>4, <2>1, <2>2, SettledKeeps
<1>9. RowsTrue'
    <2> SUFFICES ASSUME NEW x \in Users \ (gone \union unread'), x # u
                 PROVE  RowIsTrue(x)' \/ Awaited(x)'
        BY <1>2 DEF RowsTrue
    <2>1. RowIsTrue(x) \/ Awaited(x)
        BY <1>1, <1>4 DEF RowsTrue
    <2>2. Awaited(x) => Awaited(x)'
        BY SyncedOver
    <2>3. RowIsTrue(x) => RowIsTrue(x)'
        BY <1>3 DEF RowIsTrue, Granted, Owed, Bought, Has
    <2> QED BY <2>1, <2>2, <2>3
<1>10. Origins'
    BY <1>1, <1>2, Still
<1>11. Funded'
    <2> SUFFICES ASSUME Shared, NEW x \in Users \ (gone \union unread'), Granted(x)'
                 PROVE  claim[origin[x]] = x
        BY <1>2, <1>3, Still DEF Funded
    <2>1. CASE x = u
        BY <2>1
    <2>2. CASE x # u
        BY <1>1, <1>4, <2>2 DEF Funded, Granted
    <2> QED BY <2>1, <2>2
<1> QED BY <1>5, <1>6, <1>8, <1>9, <1>10, <1>11 DEF SyncInv

\* Whoever has the purchase and not the claim is still to hear of a TRANSFER.
LEMMA DisputeEnds ==
    ASSUME SyncInv, Lawful, Ordered, NEW u \in Users \ gone, Bought(u),
           claim[origin[u]] \notin {u, Nobody} \union gone
    PROVE  \E e \in 1..Len(events) : Names(e, u) /\ ~Over(e, u) /\ \A v \in Syncers : ev[v] # e
<1>1. SyncTypeOK /\ Len(events) \in Nat
    BY EventFacts DEF SyncInv
<1>2. origin[u] = u /\ holder = u
    BY DEF SyncInv, Origins, Ordered, Bought, Has
<1>3. moved \in 1..Len(events) /\ Transfer(moved) /\ claim[u] = events[moved].to
    BY <1>2 DEF Lawful, Whose, Delivered, Ordered
<1>4. PICK g \in moved + 1..Len(events) : Transfer(g) /\ events[g].to = u
    BY <1>2, <1>3 DEF Lawful, Chain
<1>5. g \in 1..Len(events) /\ moved < g
    BY <1>1, <1>3
<1>6. status[g] = "none"
    BY <1>4, <1>5 DEF Lawful, Delivered
<1>7. \A v \in Syncers : ev[v] # g
    BY <1>5, <1>6 DEF Lawful, Delivered
<1>8. Names(g, u)
    BY <1>4 DEF Names
<1>9. ~Over(g, u)
    BY <1>6, <1>7 DEF Over, Past, Done
<1> QED BY <1>5, <1>7, <1>8, <1>9

LEMMA ConflictKeeps ==
    ASSUME SyncInv, Lawful, NEW w \in Syncers, Conflict(w), Ordered' => Ordered
    PROVE  SyncInv'
<1>1. SyncTypeOK /\ Snaps
    BY DEF SyncInv
<1>2. SyncTypeOK'
    BY <1>1, TypeSynced
<1>3. PICK u \in Users : u = Head(todo[w])
    BY <1>1, HeadKnown DEF Conflict
<1>4. /\ place[w] = "judge" /\ owner[w] \notin gone /\ Synced(w, snap[w]) /\ claim' = claim
      /\ purchase' = [purchase EXCEPT ![u] = IF @ = "none" THEN @ ELSE "revoked"]
    BY <1>3 DEF Conflict
<1>5. purchase'[u] # "granting" /\ \A x \in Users \ {u} : purchase'[x] = purchase[x]
    BY <1>1, <1>4 DEF SyncTypeOK
<1>6. ~Granted(u)'
    BY <1>5 DEF Granted
<1>7. owner[w] \notin {u, Nobody}
    BY <1>1, <1>3, <1>4 DEF Snaps, SnapOK, Holding
<1>8. UNCHANGED <<revenuecat, origin, holder, refunded, events>>
    BY <1>4 DEF Synced, revenuecat
<1>9. ASSUME u \notin gone \union unread' PROVE RowIsTrue(u)' \/ Awaited(u)'
    <2>1. claim[origin[u]] = owner[w]
        BY <1>3, <1>4, <1>9, SyncedReads DEF Stale
    <2>2. CASE ~Ordered
        <3>1. ~Owed(u)'
            BY <1>4, <1>7, <1>8, <2>1, <2>2 DEF Owed
        <3> QED BY <1>6, <3>1 DEF RowIsTrue
    <2>3. CASE Ordered
        <3>1. CASE ~Bought(u)
            BY <1>6, <1>8, <3>1 DEF RowIsTrue, Owed, Bought, Has
        <3>2. CASE Bought(u)
            <4>1. PICK e \in 1..Len(events) : Names(e, u) /\ ~Over(e, u) /\ \A v \in Syncers : ev[v] # e
                BY <1>4, <1>7, <1>9, <2>1, <2>3, <3>2, DisputeEnds
            <4>2. Names(e, u)' /\ ~Over(e, u)'
                BY <1>3, <1>4, <1>8, <4>1, SyncedOver, Still
            <4> QED BY <1>8, <4>2 DEF Awaited
        <3> QED BY <3>1, <3>2
    <2> QED BY <2>2, <2>3
<1> QED BY <1>2, <1>3, <1>4, <1>5, <1>6, <1>9, SyncedKeeps

\* A snapshot that was not overtaken is how things are for an account that is
\* read: or an event of it, not handled yet, is later.
LEMMA FreshSnapshot ==
    ASSUME SyncInv, NEW w \in Syncers, place[w] = "mirror", Synced(w, snap[w]),
           NEW u \in Users \ gone, u = Head(todo[w]), u \notin unread',
           snap[w].life # Life(u)
    PROVE  \E e \in 1..Len(events) : Names(e, u) /\ ~Over(e, u) /\ ev[w] < e /\ u \notin unread
<1>1. /\ SyncTypeOK /\ Snaps /\ Settled /\ Heard
    BY DEF SyncInv
<1>2. /\ snap[w].read /\ snap[w].at \in Nat /\ ~Overtaken(w)
      /\ snap[w].at # Len(events) => u \notin unread
    BY SyncedReads DEF Stale
<1>3. PICK e \in 1..Len(events) : snap[w].at < e /\ Concerns(e, u)
    BY <1>1, <1>2 DEF Snaps, SnapOK, Holding
<1>4. /\ snap[w].at <= Len(events) /\ ev[w] <= snap[w].at
      /\ Len(events) \in Nat /\ ev[w] \in Nat
    BY <1>1, <1>2, EventFacts DEF Snaps, SnapOK, Holding, SyncTypeOK
<1>5. u \notin unread /\ ev[w] < e
    BY <1>2, <1>3, <1>4
<1>6. written[u] \in Nat /\ written[u] <= snap[w].at
    BY <1>1, <1>2 DEF Overtaken, SyncTypeOK
<1>7. ~(e <= written[u])
    BY <1>2, <1>3, <1>4, <1>6
<1>8. Names(e, u)
    BY <1>1, <1>3, <1>5, <1>7 DEF Heard
<1>9. ~Over(e, u)
    BY <1>1, <1>5, <1>7, <1>8 DEF Settled
<1> QED BY <1>5, <1>8, <1>9

LEMMA MirrorKeeps ==
    ASSUME SyncInv, NEW w \in Syncers, Mirror(w), Ordered' => Ordered
    PROVE  SyncInv'
<1>1. SyncTypeOK /\ Snaps
    BY DEF SyncInv
<1>2. SyncTypeOK'
    BY <1>1, TypeSynced
<1>3. PICK u \in Users : u = Head(todo[w])
    BY <1>1, HeadKnown DEF Mirror
<1> DEFINE s == snap[w]
<1>4. /\ place[w] = "mirror" /\ Synced(w, s) /\ claim' = claim
    BY <1>3 DEF Mirror
<1>5. purchase' = CASE s.life = "granting" -> [purchase EXCEPT ![u] = "granting"]
               [] s.life = "refunded" -> [purchase EXCEPT ![u] = "revoked"]
               [] s.life = "absent" /\ s.read /\ purchase[u] # "none" -> [purchase EXCEPT ![u] = "revoked"]
               [] OTHER -> purchase
    BY <1>3 DEF Mirror
<1>6. s.life \in {"absent", "granting", "refunded"} /\ (~s.read => s.life = "absent")
    BY <1>1, <1>4 DEF SyncTypeOK, Snapshot, Snaps, SnapOK, Holding
<1>7. purchase \in [Users -> {"none", "granting", "revoked"}]
    BY <1>1 DEF SyncTypeOK
<1>8. \A x \in Users \ {u} : purchase'[x] = purchase[x]
    BY <1>5, <1>6, <1>7
<1>9. s.read => (purchase'[u] = "granting" <=> s.life = "granting")
    BY <1>5, <1>6, <1>7
<1>10. ~s.read => purchase'[u] = purchase[u]
    BY <1>5, <1>6, <1>7
<1>11. UNCHANGED <<revenuecat, origin, holder, refunded, events, ev>>
    BY <1>4 DEF Synced, revenuecat
<1>12. ASSUME u \notin gone \union unread', Granted(u)' PROVE claim[origin[u]] = u
    <2>1. s.read /\ ~Stale(w)
        BY <1>3, <1>4, <1>12, SyncedReads
    <2>2. s.life = "granting"
        BY <1>9, <1>12, <2>1 DEF Granted
    <2> QED BY <1>3, <1>4, <2>1, <2>2 DEF Stale
<1>13. ASSUME u \notin gone \union unread' PROVE RowIsTrue(u)' \/ Awaited(u)'
    <2>1. CASE s.life = Life(u)
        <3>1. s.read
            BY <1>3, <1>4, <1>13, SyncedReads
        <3>2. Granted(u)' <=> Has(u) /\ ~refunded
            BY <1>9, <2>1, <3>1 DEF Granted, Life
        <3> QED BY <1>11, <3>2 DEF RowIsTrue, Owed, Bought, Has
    <2>2. CASE s.life # Life(u)
        <3>1. PICK e \in 1..Len(events) : Names(e, u) /\ ~Over(e, u) /\ ev[w] < e
            BY <1>3, <1>4, <1>13, <2>2, FreshSnapshot
        <3>2. e # ev[w]
            BY <1>1, <3>1, EventFacts DEF SyncTypeOK
        <3>3. Names(e, u)' /\ ~Over(e, u)'
            BY <1>3, <1>4, <1>11, <3>1, <3>2, SyncedOver, Still
        <3> QED BY <1>11, <3>3 DEF Awaited
    <2> QED BY <2>1, <2>2
<1> QED BY <1>2, <1>3, <1>4, <1>8, <1>12, <1>13, SyncedKeeps

LEMMA MarkKeeps ==
    ASSUME SyncInv, NEW w \in Syncers, MarkEvent(w), Ordered' => Ordered
    PROVE  SyncInv'
<1>1. /\ SyncTypeOK /\ HandlersOK /\ Snaps /\ Settled /\ Heard /\ RowsTrue /\ Origins /\ Funded
    BY DEF SyncInv
<1>2. SyncTypeOK'
    BY <1>1, TypeOther
<1>3. /\ UNCHANGED <<revenuecat, claim, purchase, gone, todo, snap, owner, written, moved, unread>>
      /\ place[w] = "mark"
      /\ place' = [place EXCEPT ![w] = "idle"]
      /\ ev' = [ev EXCEPT ![w] = 0]
      /\ status' = [status EXCEPT ![ev[w]] = IF @ \in Done THEN @ ELSE "processed"]
    BY DEF MarkEvent, MovesTo, hindsight
<1>4. UNCHANGED <<origin, holder, refunded, events>>
    BY <1>3 DEF revenuecat
<1>5. Len(events) \in Nat /\ Len(events) <= MaxEvents
    BY <1>1, EventFacts
<1>6. /\ place'[w] = "idle" /\ ev'[w] = 0 /\ todo'[w] = <<>> /\ todo[w] = <<>>
      /\ \A v \in Syncers \ {w} : /\ place'[v] = place[v] /\ ev'[v] = ev[v] /\ todo'[v] = todo[v]
                                  /\ snap'[v] = snap[v] /\ owner'[v] = owner[v]
    BY <1>1, <1>3 DEF SyncTypeOK
<1>7. \A v \in Syncers, u \in Users : InTodo(v, u)' <=> InTodo(v, u)
    BY <1>3 DEF InTodo
<1>8. \A v \in Syncers \ {w} : \A u \in Users :
         \A d \in Nat : Past(v, d, u)' <=> Past(v, d, u)
    BY <1>6, OthersPast
<1>9. \A u \in Users : ~InTodo(w, u)
    BY <1>6, EmptySeq DEF InTodo
<1>10. ASSUME NEW d \in 1..Len(events), NEW u \in Users, Over(d, u)' PROVE Over(d, u)
    <2>1. CASE d = ev[w]
        <3>1. Past(w, d, u)
            BY <1>3, <1>9, <2>1 DEF Past
        <3> QED BY <3>1 DEF Over
    <2>2. CASE d # ev[w]
        <3>1. status'[d] = status[d]
            BY <1>1, <1>3, <1>5, <2>2 DEF SyncTypeOK
        <3>2. ~Past(w, d, u)'
            BY <1>6 DEF Past
        <3>3. d \in Nat
            BY <1>5
        <3> QED BY <1>8, <1>10, <3>1, <3>2, <3>3 DEF Over
    <2> QED BY <2>1, <2>2
<1>11. HandlersOK'
    BY <1>1, <1>4, <1>5, <1>6 DEF HandlersOK
<1>12. Snaps'
    BY <1>1, <1>3, <1>6, SnapsKeep DEF Holding
<1>13. written \in [Users -> Nat] /\ \A u \in Users : written[u] <= written'[u]
    BY <1>1, <1>3 DEF SyncTypeOK
<1>14. Settled' /\ Heard'
    BY <1>1, <1>3, <1>10, <1>13, SettledKeeps
<1>15. \A u \in Users : Awaited(u) => Awaited(u)'
    BY <1>3, <1>4, <1>7, <1>10, Still DEF Awaited
<1>16. RowsTrue'
    BY <1>1, <1>3, <1>4, <1>15, RowsKeep
<1>17. Origins'
    BY <1>1, <1>3, Still
<1>18. Funded'
    BY <1>1, <1>3, <1>4, Still DEF Funded, Granted
<1> QED BY <1>2, <1>11, <1>12, <1>14, <1>16, <1>17, <1>18 DEF SyncInv

LEMMA FailKeeps ==
    ASSUME SyncInv, NEW w \in Syncers, Fail(w), Ordered' => Ordered
    PROVE  SyncInv'
<1>1. /\ SyncTypeOK /\ HandlersOK /\ Snaps /\ Settled /\ Heard /\ RowsTrue /\ Origins /\ Funded
    BY DEF SyncInv
<1>2. SyncTypeOK'
    BY <1>1, TypeOther
<1>3. /\ UNCHANGED <<revenuecat, status, claim, purchase, gone, written, moved>>
      /\ place' = [place EXCEPT ![w] = "idle"]
      /\ ev' = [ev EXCEPT ![w] = 0]
      /\ todo' = [todo EXCEPT ![w] = <<>>]
      /\ snap' = [snap EXCEPT ![w] = Unfetched]
      /\ owner' = [owner EXCEPT ![w] = Nobody]
      /\ unread' = unread \union {todo[w][i] : i \in 1..Len(todo[w])}
    BY DEF Fail, MovesTo
<1>4. UNCHANGED <<origin, holder, refunded, events>>
    BY <1>3 DEF revenuecat
<1>5. Len(events) \in Nat
    BY <1>1, EventFacts
<1>6. /\ place'[w] = "idle" /\ ev'[w] = 0 /\ todo'[w] = <<>>
      /\ \A v \in Syncers \ {w} : /\ place'[v] = place[v] /\ ev'[v] = ev[v] /\ todo'[v] = todo[v]
                                  /\ snap'[v] = snap[v] /\ owner'[v] = owner[v]
    BY <1>1, <1>3 DEF SyncTypeOK
<1>7. \A v \in Syncers \ {w} : \A u \in Users :
         /\ InTodo(v, u)' <=> InTodo(v, u)
         /\ \A d \in Nat : Past(v, d, u)' <=> Past(v, d, u)
    BY <1>6, OthersPast
<1>8. \A u \in Users \ unread' : ~InTodo(w, u)
    BY <1>3 DEF InTodo
<1>9. ASSUME NEW d \in 1..Len(events), NEW u \in Users, Over(d, u)' PROVE Over(d, u)
    <2>1. ~Past(w, d, u)'
        BY <1>6 DEF Past
    <2>2. d \in Nat
        BY <1>5
    <2> QED BY <1>3, <1>7, <1>9, <2>1, <2>2 DEF Over
<1>10. HandlersOK'
    BY <1>1, <1>4, <1>5, <1>6 DEF HandlersOK
<1>11. Snaps'
    BY <1>1, <1>3, <1>6, SnapsKeep DEF Holding
<1>12. /\ written \in [Users -> Nat] /\ \A u \in Users : written[u] <= written'[u]
       /\ unread \subseteq unread'
    BY <1>1, <1>3 DEF SyncTypeOK
<1>13. Settled' /\ Heard'
    BY <1>1, <1>3, <1>9, <1>12, SettledKeeps
<1>14. \A u \in Users \ (gone' \union unread') : Awaited(u) => Awaited(u)'
    <2> SUFFICES ASSUME NEW u \in Users \ unread', Awaited(u) PROVE Awaited(u)'
        OBVIOUS
    <2>1. CASE \E v \in Syncers : InTodo(v, u)
        BY <1>7, <1>8, <2>1 DEF Awaited
    <2>2. CASE \E d \in 1..Len(events) : Names(d, u) /\ ~Over(d, u)
        BY <1>3, <1>4, <1>9, <2>2, Still DEF Awaited
    <2> QED BY <2>1, <2>2 DEF Awaited
<1>15. RowsTrue'
    BY <1>1, <1>3, <1>4, <1>12, <1>14, RowsKeep
<1>16. Origins'
    BY <1>1, <1>3, Still
<1>17. Funded'
    BY <1>1, <1>3, <1>4, Still DEF Funded, Granted
<1> QED BY <1>2, <1>10, <1>11, <1>13, <1>15, <1>16, <1>17 DEF SyncInv

LEMMA DeletedKeeps ==
    ASSUME SyncInv, NEW r \in Users, AccountDeleted(r), Ordered' => Ordered
    PROVE  SyncInv'
<1>1. /\ SyncTypeOK /\ HandlersOK /\ Snaps /\ Settled /\ Heard /\ RowsTrue /\ Origins /\ Funded
    BY DEF SyncInv
<1>2. /\ UNCHANGED <<revenuecat, origin, holder, refunded, events, status, claim, place, ev, todo,
                     snap, owner, written, moved, unread, disordered>>
      /\ gone' = gone \union {r} /\ purchase' = [purchase EXCEPT ![r] = "none"]
    BY DEF AccountDeleted, revenuecat, handler, hindsight
<1>3. SyncTypeOK'
    BY <1>1, <1>2 DEF SyncTypeOK, Done
<1>4. \A u \in Users \ gone' : purchase'[u] = purchase[u]
    BY <1>1, <1>2 DEF SyncTypeOK
<1>5. /\ \A e \in 1..Len(events), u \in Users : Over(e, u)' <=> Over(e, u)
      /\ \A u \in Users : Awaited(u)' <=> Awaited(u)
    <2>1. \A v \in Syncers, u \in Users : InTodo(v, u)' <=> InTodo(v, u)
        BY <1>2 DEF InTodo
    <2>2. \A e \in 1..Len(events), u \in Users : Over(e, u)' <=> Over(e, u)
        BY <1>2, <2>1 DEF Over, Past
    <2> QED BY <1>2, <2>1, <2>2, Still DEF Awaited
<1>6. HandlersOK' /\ Snaps' /\ Origins'
    BY <1>1, <1>2, Still DEF HandlersOK, Snaps, SnapOK, Life, Has, Concerns, Aliases
<1>7. written \in [Users -> Nat] /\ \A u \in Users : written[u] <= written'[u]
    BY <1>1, <1>2 DEF SyncTypeOK
<1>8. Settled' /\ Heard'
    BY <1>1, <1>2, <1>5, <1>7, SettledKeeps
<1>9. RowsTrue'
    BY <1>1, <1>2, <1>4, <1>5, RowsKeep
<1>10. Funded'
    BY <1>1, <1>2, <1>4, Still DEF Funded, Granted
<1> QED BY <1>3, <1>6, <1>8, <1>9, <1>10 DEF SyncInv

-----------------------------------------------------------------------------
(* The order of TRANSFERs and of their deliveries *)

\* What a step that delivers nothing does to it.
LEMMA LawSame ==
    ASSUME SyncInv, Lawful, UNCHANGED <<revenuecat, status, moved, disordered>>, gone \subseteq gone',
           \A w \in Syncers : ev'[w] \in {ev[w], 0},
           \A u \in Users : claim'[u] \in {claim[u], u}
    PROVE  Lawful' /\ (Ordered' => Ordered)
<1>1. UNCHANGED <<origin, holder, events, status, moved, disordered>> /\ (Shared' <=> Shared)
    BY Still DEF revenuecat
<1>2. Chain'
    BY <1>1 DEF Lawful, Chain, Transfer
<1>3. Delivered'
    <2>1. 0 \notin 1..Len(events)
        OBVIOUS
    <2> QED BY <1>1, <2>1 DEF Lawful, Delivered, Transfer
<1>4. Whose'
    BY <1>1 DEF Lawful, Whose, Late, Transfer
<1>5. Ordered' => Ordered
    BY <1>1 DEF Ordered, Late, Transfer
<1> QED BY <1>2, <1>3, <1>4, <1>5 DEF Lawful

LEMMA LawHappens ==
    ASSUME SyncInv, Lawful, NEW u \in Users, NEW v \in Users, Buy(u) \/ Refund(u) \/ Restore(u, v)
    PROVE  Lawful' /\ (Ordered' => Ordered)
<1> DEFINE n == Len(events) + 1
<1>1. SyncTypeOK /\ HandlersOK /\ Origins
    BY DEF SyncInv
<1>2. PICK kind \in {"PURCHASE", "REFUND", "TRANSFER"}, from \in Users, to \in Users :
         /\ Happens(kind, from, to)
         /\ kind = "TRANSFER" => Restore(u, v) /\ from = v /\ to = u
         /\ kind # "TRANSFER" => Buy(u) \/ Refund(u)
    BY DEF Buy, Refund, Restore
<1>3. /\ Len(events') = n /\ n <= MaxEvents /\ Len(events) \in Nat
      /\ \A e \in 1..Len(events) : events'[e] = events[e]
      /\ events'[n] = [kind |-> kind, from |-> from, to |-> to]
      /\ 1..Len(events') = 1..Len(events) \union {n}
    BY <1>1, <1>2, NewEvent, OldEvents
<1>4. UNCHANGED <<origin, status, claim, gone, ev, moved, disordered>>
    BY <1>2 DEF Happens, handler
<1>5. /\ \A e \in 1..Len(events) : Transfer(e)' <=> Transfer(e)
      /\ \A e \in {n} : Transfer(e)' <=> kind = "TRANSFER"
      /\ events'[n].from = from /\ events'[n].to = to
    <2>1. events'[n].kind = kind /\ events'[n].from = from /\ events'[n].to = to
        BY <1>3
    <2>2. \A e \in 1..Len(events) : events'[e] = events[e]
        BY <1>3
    <2> QED BY <2>1, <2>2 DEF Transfer
<1>6. status[n] = "none"
    <2>1. n \in 1..MaxEvents /\ ~(n <= Len(events))
        BY <1>3
    <2> QED BY <1>1, <2>1 DEF SyncTypeOK
<1>7. moved \in 0..Len(events)
    BY <1>3 DEF Lawful, Delivered
<1> HIDE DEF n
<1>8. Chain'
    <2>1. CASE kind # "TRANSFER"
        <3>1. \A e \in {n} : ~Transfer(e)'
            BY <1>5, <2>1
        <3>2. holder = Nobody \/ holder' = holder
            BY <1>2, <2>1 DEF Buy, Refund
        <3>3. CASE holder = Nobody
            <4>1. \A m \in 1..Len(events') : ~Transfer(m)'
                BY <1>3, <1>5, <3>1, <3>3 DEF Lawful, Chain
            <4> QED BY <4>1 DEF Chain
        <3>4. CASE holder' = holder
            <4>1. holder' = Nobody => \A m \in 1..Len(events') : ~Transfer(m)'
                BY <1>3, <1>5, <3>1, <3>4 DEF Lawful, Chain
            <4>2. ASSUME NEW m \in 1..Len(events'), Transfer(m)'
                  PROVE  m \in 1..Len(events) /\ Transfer(m) /\ events'[m] = events[m]
                BY <1>3, <1>5, <3>1, <4>2
            <4>3. ASSUME NEW m \in 1..Len(events), NEW g \in m + 1..Len(events)
                  PROVE  /\ g \in m + 1..Len(events') /\ g \in 1..Len(events)
                         /\ (Transfer(g)' <=> Transfer(g)) /\ events'[g] = events[g]
                <5>1. g \in 1..Len(events) /\ g \in m + 1..Len(events')
                    BY <1>3 DEF n
                <5> QED BY <1>3, <1>5, <5>1
            <4>4. ASSUME NEW m \in 1..Len(events'), Transfer(m)'
                  PROVE  \/ holder' = events'[m].to
                         \/ /\ \E g \in m + 1..Len(events') : Transfer(g)' /\ events'[g].from = events'[m].to
                            /\ \E g \in m + 1..Len(events') : Transfer(g)' /\ events'[g].to = holder'
                BY <3>4, <4>2, <4>3, <4>4 DEF Lawful, Chain
            <4>5. ASSUME NEW m \in 1..Len(events'), Transfer(m)', NEW e \in m + 1..Len(events'), Transfer(e)'
                  PROVE  \/ events'[e].from = events'[m].to
                         \/ \E g \in m + 1..e - 1 : Transfer(g)' /\ events'[g].from = events'[m].to
                <5>1. m \in 1..Len(events) /\ Transfer(m) /\ events'[m] = events[m]
                    BY <4>2, <4>5
                <5>2. e \in 1..Len(events')
                    BY <1>3, <5>1 DEF n
                <5>3. e \in m + 1..Len(events) /\ Transfer(e) /\ events'[e] = events[e]
                    BY <4>2, <4>5, <5>1, <5>2
                <5>4. CASE events[e].from = events[m].to
                    BY <5>1, <5>3, <5>4
                <5>5. CASE \E g \in m + 1..e - 1 : Transfer(g) /\ events[g].from = events[m].to
                    <6>1. PICK g \in m + 1..e - 1 : Transfer(g) /\ events[g].from = events[m].to
                        BY <5>5
                    <6>2. g \in m + 1..Len(events)
                        BY <1>3, <5>1, <5>3
                    <6> QED BY <4>3, <5>1, <6>1, <6>2
                <5> QED BY <5>1, <5>3, <5>4, <5>5 DEF Lawful, Chain
            <4> QED BY <4>1, <4>4, <4>5 DEF Chain
        <3> QED BY <3>2, <3>3, <3>4
    <2>2. CASE kind = "TRANSFER"
        <3>1. /\ from = v /\ to = u /\ holder = origin[v] /\ holder' = origin[u] /\ holder # origin[u]
            BY <1>2, <2>2 DEF Restore, Has
        <3>2. origin[v] = v /\ origin[u] = u
            BY <1>1, <3>1 DEF Origins, Shared
        <3>3. holder = from /\ holder' = to /\ to # Nobody
            BY <3>1, <3>2
        <3>4. ASSUME NEW m \in 1..Len(events), Transfer(m)
              PROVE  /\ \E g \in m + 1..Len(events') : Transfer(g)' /\ events'[g].from = events'[m].to
                     /\ \E g \in m + 1..Len(events') : Transfer(g)' /\ events'[g].to = holder'
            <4>1. /\ n \in m + 1..Len(events') /\ events'[n].to = holder' /\ events'[n].from = from
                  /\ \A e \in {n} : Transfer(e)'
                <5>1. n \in m + 1..Len(events')
                    BY <1>3 DEF n
                <5> QED BY <1>5, <2>2, <3>3, <5>1
            <4>2. CASE holder = events[m].to
                BY <1>3, <3>3, <4>1, <4>2
            <4>3. CASE holder # events[m].to
                <5>1. PICK g \in m + 1..Len(events) : Transfer(g) /\ events[g].from = events[m].to
                    BY <3>4, <4>3 DEF Lawful, Chain
                <5>2. g \in 1..Len(events) /\ g \in m + 1..Len(events')
                    BY <1>3 DEF n
                <5>3. Transfer(g)' /\ events'[g].from = events'[m].to
                    BY <1>3, <1>5, <5>1, <5>2
                <5> QED BY <4>1, <5>2, <5>3
            <4> QED BY <4>2, <4>3
        <3>5. ASSUME NEW m \in 1..Len(events), Transfer(m), NEW e \in m + 1..Len(events'), Transfer(e)'
              PROVE  \/ events'[e].from = events'[m].to
                     \/ \E g \in m + 1..e - 1 : Transfer(g)' /\ events'[g].from = events'[m].to
            <4>1. CASE e = n
                <5>1. CASE holder = events[m].to
                    BY <1>3, <1>5, <3>3, <4>1, <5>1
                <5>2. CASE holder # events[m].to
                    <6>1. PICK g \in m + 1..Len(events) : Transfer(g) /\ events[g].from = events[m].to
                        BY <3>5, <5>2 DEF Lawful, Chain
                    <6>2. g \in 1..Len(events) /\ g \in m + 1..e - 1
                        BY <1>3, <4>1 DEF n
                    <6>3. Transfer(g)' /\ events'[g].from = events'[m].to
                        BY <1>3, <1>5, <6>1, <6>2
                    <6> QED BY <6>2, <6>3
                <5> QED BY <5>1, <5>2
            <4>2. CASE e # n
                <5>1. e \in m + 1..Len(events) /\ e \in 1..Len(events)
                    BY <1>3, <4>2 DEF n
                <5>2. Transfer(e) /\ events'[e] = events[e] /\ events'[m] = events[m]
                    BY <1>3, <1>5, <3>5, <5>1
                <5>3. CASE events[e].from = events[m].to
                    BY <5>2, <5>3
                <5>4. CASE \E g \in m + 1..e - 1 : Transfer(g) /\ events[g].from = events[m].to
                    <6>1. PICK g \in m + 1..e - 1 : Transfer(g) /\ events[g].from = events[m].to
                        BY <5>4
                    <6>2. g \in 1..Len(events)
                        BY <1>3, <5>1
                    <6>3. Transfer(g)' /\ events'[g].from = events'[m].to
                        BY <1>3, <1>5, <5>2, <6>1, <6>2
                    <6> QED BY <6>1, <6>3
                <5> QED BY <3>5, <5>1, <5>2, <5>3, <5>4 DEF Lawful, Chain
            <4> QED BY <4>1, <4>2
        <3>6. n + 1..Len(events') = {} /\ holder' = events'[n].to
            BY <1>3, <1>5, <3>3 DEF n
        <3>7. holder' # Nobody
            BY <3>3
        <3> QED BY <1>3, <1>5, <3>4, <3>5, <3>6, <3>7 DEF Chain
    <2> QED BY <2>1, <2>2
<1>9. Delivered'
    <2>1. moved = 0 \/ (moved \in 1..Len(events') /\ events'[moved].kind = "TRANSFER")
        BY <1>3 DEF Lawful, Delivered, Transfer
    <2>2. ASSUME NEW g \in 1..Len(events'), Transfer(g)', moved < g
          PROVE  \/ status[g] = "none"
                 \/ status[g] = "skipped" /\ {events'[g].from, events'[g].to} \subseteq gone
        BY <1>3, <1>5, <1>6, <2>2 DEF Lawful, Delivered
    <2>3. ASSUME NEW w \in Syncers, ev[w] \in 1..Len(events') PROVE status[ev[w]] # "none"
        <3>1. ev[w] <= Len(events) /\ ev[w] \in Nat
            BY <1>1 DEF HandlersOK, SyncTypeOK
        <3>2. ev[w] \in 1..Len(events)
            BY <1>3, <2>3, <3>1 DEF n
        <3> QED BY <3>2 DEF Lawful, Delivered
    <2> QED BY <1>4, <2>1, <2>2, <2>3 DEF Delivered, Transfer
<1>10. \A g \in 1..Len(events) : Late(g)' <=> Late(g)
    BY <1>4, <1>5 DEF Late
<1>11. Whose'
    <2> SUFFICES ASSUME ~Shared, ~disordered, NEW x \in Users
                 PROVE  \/ claim[x] \in {Nobody, x} \union gone
                        \/ moved # 0 /\ claim[x] = events'[moved].to
                        \/ \E g \in 1..Len(events') : Late(g)' /\ claim[x] = events'[g].from
        BY <1>4 DEF Whose, Shared
    <2>1. moved # 0 => events'[moved] = events[moved]
        BY <1>3, <1>7
    <2> QED BY <1>3, <1>10, <2>1 DEF Lawful, Whose
<1>12. Ordered' => Ordered
    BY <1>3, <1>4, <1>10 DEF Ordered, Shared
<1> QED BY <1>8, <1>9, <1>11, <1>12 DEF Lawful

\* A delivery: what it leaves behind is late, what it passes by has been named.
LEMMA LawDelivers ==
    ASSUME SyncInv, Lawful, NEW w \in Syncers, NEW e \in 1..MaxEvents, Skip(w, e) \/ Deliver(w, e)
    PROVE  Lawful' /\ (Ordered' => Ordered)
<1>1. SyncTypeOK /\ Origins
    BY DEF SyncInv
<1>2. e \in 1..Len(events) /\ Len(events) \in Nat /\ Len(events) <= MaxEvents
    BY <1>1, EventFacts DEF Skip, Deliver
<1>3. /\ UNCHANGED <<revenuecat, gone>>
      /\ disordered' = (disordered \/ OutOfOrder(e))
      /\ \E s \in {"skipped", "open"} : status' = [status EXCEPT ![e] = s]
    BY DEF Skip, Deliver, handler
<1>4. UNCHANGED <<origin, holder, events>> /\ (Shared' <=> Shared)
    BY <1>3, Still DEF revenuecat
<1>5. \A g \in 1..Len(events) : /\ g # e => status'[g] = status[g]
                                /\ status'[e] # "none"
    BY <1>1, <1>2, <1>3 DEF SyncTypeOK
<1>6. \A g \in 1..Len(events) : Transfer(g)' <=> Transfer(g)
    BY <1>4 DEF Transfer
<1>7. Chain'
    BY <1>4, <1>6 DEF Lawful, Chain, Transfer
<1>8. moved \in Nat /\ moved <= Len(events) /\ (moved # 0 => moved \in 1..Len(events))
    BY <1>1, <1>2 DEF Lawful, Delivered, SyncTypeOK
<1>9. CASE Skip(w, e)
    <2>1. UNCHANGED <<claim, ev, moved>> /\ status' = [status EXCEPT ![e] = "skipped"]
        BY <1>9 DEF Skip, handler
    <2>2. status'[e] = "skipped"
        BY <1>1, <1>2, <2>1 DEF SyncTypeOK
    <2>3. Names(e, events[e].from) /\ Names(e, events[e].to) /\ events[e].from \in Users /\ events[e].to \in Users
        BY <1>1, <1>2, EventFacts DEF Names
    <2>4. \A x \in Users \ gone : ~Names(e, x)
        <3> SUFFICES ASSUME NEW x \in Users \ gone, Names(e, x) PROVE FALSE
            OBVIOUS
        <3>1. PICK i \in 1..Len(Known(e)) : TRUE
            BY <1>1, <1>2, NamedIsKnown
        <3>2. Len(Known(e)) = 0
            BY <1>9, EmptySeq DEF Skip
        <3> QED BY <3>1, <3>2
    <2>5. {events[e].from, events[e].to} \subseteq gone
        BY <2>3, <2>4
    <2>6. Delivered'
        <3>1. moved = 0 \/ (moved \in 1..Len(events) /\ events[moved].kind = "TRANSFER")
            BY DEF Lawful, Delivered, Transfer
        <3>2. \A g \in 1..Len(events) : Transfer(g)' /\ moved < g =>
                 \/ status'[g] = "none"
                 \/ status'[g] = "skipped" /\ {events[g].from, events[g].to} \subseteq gone
            BY <1>5, <1>6, <2>2, <2>5 DEF Lawful, Delivered
        <3>3. \A v \in Syncers : ev[v] \in 1..Len(events) => status'[ev[v]] # "none"
            BY <1>5 DEF Lawful, Delivered
        <3> QED BY <1>3, <1>4, <2>1, <3>1, <3>2, <3>3 DEF Delivered, Transfer
    <2>7. ~disordered' => \A g \in 1..Len(events) : Late(g)' <=> Late(g)
        BY <1>3, <1>5, <1>6, <2>1 DEF Late, OutOfOrder, Transfer
    <2>8. Whose'
        <3>1. ~disordered' => ~disordered
            BY <1>3
        <3> QED BY <1>3, <1>4, <2>1, <2>7, <3>1 DEF Lawful, Whose
    <2>9. Ordered' => Ordered
        BY <1>3, <1>4, <2>7 DEF Ordered
    <2> QED BY <1>7, <2>6, <2>8, <2>9 DEF Lawful
<1>10. CASE Deliver(w, e)
    <2>1. /\ claim' = IF Transfer(e) THEN ClaimsMoved(e) ELSE claim
          /\ moved' = IF Transfer(e) /\ e > moved THEN e ELSE moved
          /\ ev' = [ev EXCEPT ![w] = e]
        BY <1>10 DEF Deliver, Transfer
    <2>2. moved <= moved' /\ moved' \in Nat
        BY <1>2, <1>8, <2>1
    <2>3. Delivered'
        <3>1. moved' = 0 \/ (moved' \in 1..Len(events) /\ events[moved'].kind = "TRANSFER")
            BY <1>2, <1>8, <2>1 DEF Lawful, Delivered, Transfer
        <3>2. ASSUME NEW g \in 1..Len(events), Transfer(g), moved' < g
              PROVE  \/ status'[g] = "none"
                     \/ status'[g] = "skipped" /\ {events[g].from, events[g].to} \subseteq gone
            <4>1. g # e /\ moved < g
                BY <1>2, <1>8, <2>1, <2>2, <3>2
            <4> QED BY <1>5, <3>2, <4>1 DEF Lawful, Delivered
        <3>3. ASSUME NEW v \in Syncers, ev'[v] \in 1..Len(events) PROVE status'[ev'[v]] # "none"
            <4>1. ev'[v] \in {e, ev[v]}
                BY <1>1, <2>1 DEF SyncTypeOK
            <4> QED BY <1>5, <3>3, <4>1 DEF Lawful, Delivered
        <3> QED BY <1>3, <1>4, <1>6, <3>1, <3>2, <3>3 DEF Delivered, Transfer
    <2>4. ASSUME ~disordered', NEW g \in 1..Len(events), Late(g) PROVE Late(g)'
        <3>1. g < moved'
            BY <1>2, <1>8, <2>2, <2>4 DEF Late
        <3>2. g # e
            BY <1>3, <2>4 DEF Late, OutOfOrder, Transfer
        <3> QED BY <1>5, <1>6, <2>4, <3>1, <3>2 DEF Late
    <2>5. ASSUME ~Shared, ~disordered', NEW u \in Users
          PROVE  \/ claim'[u] \in {Nobody, u} \union gone
                 \/ moved' # 0 /\ claim'[u] = events[moved'].to
                 \/ \E g \in 1..Len(events) : Late(g)' /\ claim'[u] = events[g].from
        <3>1. \/ claim[u] \in {Nobody, u} \union gone
              \/ moved # 0 /\ claim[u] = events[moved].to
              \/ \E g \in 1..Len(events) : Late(g) /\ claim[u] = events[g].from
            BY <1>3, <2>5 DEF Lawful, Whose
        <3>2. CASE ~Transfer(e)
            BY <2>1, <2>4, <2>5, <3>1, <3>2
        <3>3. CASE Transfer(e)
            <4>1. moved <= e
                <5>1. ~(e < moved)
                    BY <1>3, <2>5, <3>3 DEF OutOfOrder, Transfer
                <5> QED BY <1>2, <1>8, <5>1
            <4>2. moved' = e /\ moved' # 0
                BY <1>2, <1>8, <2>1, <3>3, <4>1
            <4>3. claim'[u] = IF claim[u] = events[e].from THEN events[e].to ELSE claim[u]
                BY <2>1, <3>3 DEF ClaimsMoved
            <4>4. CASE claim[u] = events[e].from
                BY <4>2, <4>3, <4>4
            <4>5. CASE claim[u] # events[e].from
                <5>1. CASE moved # 0 /\ claim[u] = events[moved].to
                    <6>1. CASE moved = e
                        BY <4>2, <4>3, <4>5, <5>1, <6>1
                    <6>2. CASE moved # e
                        <7>1. moved \in 1..Len(events) /\ Transfer(moved) /\ e \in moved + 1..Len(events)
                            BY <1>2, <1>8, <4>1, <5>1, <6>2 DEF Lawful, Delivered
                        <7>2. PICK g \in moved + 1..e - 1 : Transfer(g) /\ events[g].from = events[moved].to
                            BY <3>3, <4>5, <5>1, <7>1 DEF Lawful, Chain
                        <7>3. g \in 1..Len(events) /\ moved < g /\ g < e /\ g # e
                            BY <1>2, <7>1
                        <7>4. CASE status[g] = "none"
                            <8>1. Late(g)'
                                BY <1>5, <1>6, <4>2, <7>2, <7>3, <7>4 DEF Late
                            <8> QED BY <4>3, <4>5, <5>1, <7>2, <7>3, <8>1
                        <7>5. CASE status[g] # "none"
                            <8>1. events[g].from \in gone
                                BY <7>2, <7>3, <7>5 DEF Lawful, Delivered
                            <8> QED BY <4>3, <4>5, <5>1, <7>2, <8>1
                        <7> QED BY <7>4, <7>5
                    <6> QED BY <6>1, <6>2
                <5>2. CASE ~(moved # 0 /\ claim[u] = events[moved].to)
                    BY <2>4, <2>5, <3>1, <4>3, <4>5, <5>2
                <5> QED BY <5>1, <5>2
            <4> QED BY <4>4, <4>5
        <3> QED BY <3>2, <3>3
    <2>6. Whose'
        BY <1>3, <1>4, <2>5 DEF Whose
    <2>7. Ordered' => Ordered
        BY <1>3, <1>4, <2>4 DEF Ordered
    <2> QED BY <1>7, <2>3, <2>6, <2>7 DEF Lawful
<1> QED BY <1>9, <1>10

LEMMA LawMarks ==
    ASSUME SyncInv, Lawful, NEW w \in Syncers, MarkEvent(w)
    PROVE  Lawful' /\ (Ordered' => Ordered)
<1>1. SyncTypeOK /\ Len(events) \in Nat /\ Len(events) <= MaxEvents
    BY EventFacts DEF SyncInv
<1>2. /\ UNCHANGED <<revenuecat, claim, gone, moved, disordered>>
      /\ ev' = [ev EXCEPT ![w] = 0]
      /\ status' = [status EXCEPT ![ev[w]] = IF @ \in Done THEN @ ELSE "processed"]
    BY DEF MarkEvent, hindsight
<1>3. UNCHANGED <<origin, holder, events>> /\ (Shared' <=> Shared)
    BY <1>2, Still DEF revenuecat
<1>4. \A g \in 1..Len(events) :
         /\ status'[g] = "none" <=> status[g] = "none"
         /\ status[g] = "skipped" => status'[g] = "skipped"
    <2> SUFFICES ASSUME NEW g \in 1..Len(events)
                 PROVE  /\ status'[g] = "none" <=> status[g] = "none"
                        /\ status[g] = "skipped" => status'[g] = "skipped"
        OBVIOUS
    <2>1. g \in 1..MaxEvents
        BY <1>1
    <2>2. CASE g = ev[w]
        BY <1>1, <1>2, <2>1, <2>2 DEF SyncTypeOK, Lawful, Delivered, Done
    <2>3. CASE g # ev[w]
        BY <1>1, <1>2, <2>1, <2>3 DEF SyncTypeOK
    <2> QED BY <2>2, <2>3
<1>5. \A v \in Syncers : ev'[v] \in {ev[v], 0}
    BY <1>1, <1>2 DEF SyncTypeOK
<1>6. Chain'
    BY <1>3 DEF Lawful, Chain, Transfer
<1>7. Delivered'
    <2>1. 0 \notin 1..Len(events)
        OBVIOUS
    <2> QED BY <1>2, <1>3, <1>4, <1>5, <2>1 DEF Lawful, Delivered, Transfer
<1>8. \A g \in 1..Len(events) : Late(g)' <=> Late(g)
    BY <1>2, <1>3, <1>4 DEF Late, Transfer
<1>9. Whose' /\ (Ordered' => Ordered)
    BY <1>2, <1>3, <1>8 DEF Lawful, Whose, Ordered
<1> QED BY <1>6, <1>7, <1>9 DEF Lawful

LEMMA LawKeeps ==
    ASSUME SyncInv, Lawful, [SyncNext]_syncVars
    PROVE  Lawful' /\ (Ordered' => Ordered)
<1>1. SyncTypeOK
    BY DEF SyncInv
<1>2. ASSUME NEW w \in Syncers, Handler(w) PROVE Lawful' /\ (Ordered' => Ordered)
    <2>1. CASE \E u \in Users : Refresh(w, u)
        BY <1>1, <2>1, LawSame DEF Refresh, hindsight, SyncTypeOK
    <2>2. CASE Fetch(w)
        BY <1>1, <2>2, LawSame DEF Fetch, hindsight
    <2>3. CASE ClaimSubscriber(w) \/ Adopt(w)
        <3>1. PICK u \in Users : u = Head(todo[w])
            BY <1>1, <2>3, HeadKnown DEF ClaimSubscriber, Adopt
        <3>2. /\ UNCHANGED <<revenuecat, status, gone, ev, moved, disordered>>
              /\ claim' = claim \/ claim' = [claim EXCEPT ![origin[u]] = u]
            BY <2>3, <3>1 DEF ClaimSubscriber, Adopt, hindsight
        <3>3. CASE ~Shared
            <4>1. origin[u] = u
                BY <3>3 DEF SyncInv, Origins
            <4>2. \A x \in Users : claim'[x] \in {claim[x], x}
                BY <1>1, <3>2, <4>1 DEF SyncTypeOK
            <4> QED BY <3>2, <4>2, LawSame
        <3>4. CASE Shared
            <4>1. Chain' /\ Delivered'
                BY <3>2 DEF Lawful, Chain, Delivered, Transfer, revenuecat
            <4>2. Shared'
                BY <3>2, <3>4, Still
            <4> QED BY <4>1, <4>2 DEF Lawful, Whose, Ordered
        <3> QED BY <3>3, <3>4
    <2>4. CASE Conflict(w) \/ Mirror(w)
        BY <2>4, LawSame DEF Conflict, Mirror, Synced
    <2>5. CASE Fail(w)
        BY <1>1, <2>5, LawSame DEF Fail, SyncTypeOK
    <2> QED BY <1>2, <2>1, <2>2, <2>3, <2>4, <2>5, LawDelivers, LawMarks DEF Handler
<1>3. ASSUME NEW u \in Users, AccountDeleted(u) PROVE Lawful' /\ (Ordered' => Ordered)
    BY <1>3, LawSame DEF AccountDeleted, handler, hindsight
<1>4. CASE UNCHANGED syncVars
    BY <1>4, LawSame DEF syncVars, handler, hindsight
<1> QED BY <1>2, <1>3, <1>4, LawHappens DEF SyncNext

-----------------------------------------------------------------------------
(* The theorems *)

LEMMA StartInv == ASSUME SyncInit PROVE SyncInv
<1>1. Len(events) = 0 /\ events \in Seq(Event) /\ 1..Len(events) = {}
    BY EmptySeq DEF SyncInit
<1>2. \A w \in Syncers : todo[w] = <<>> /\ place[w] = "idle" /\ ev[w] = 0
    BY DEF SyncInit
<1>3. origin \in [Users -> Users]
    BY DEF SyncInit
<1>4. SyncTypeOK
    <2>1. snap \in [Syncers -> Snapshot]
        BY DEF SyncInit, Unfetched, Snapshot
    <2>2. todo \in [Syncers -> Seq(Users)]
        BY EmptySeq DEF SyncInit
    <2>3. status \in [1..MaxEvents -> {"none", "open"} \union Done]
          /\ \A e \in 1..MaxEvents : status[e] = "none"
        BY DEF SyncInit
    <2>4. /\ holder = Nobody /\ refunded = FALSE /\ gone = {} /\ unread = {}
          /\ claim = [u \in Users |-> Nobody] /\ purchase = [u \in Users |-> "none"]
          /\ place = [w \in Syncers |-> "idle"] /\ ev = [w \in Syncers |-> 0]
          /\ owner = [w \in Syncers |-> Nobody]
          /\ written = [u \in Users |-> 0] /\ moved = 0 /\ disordered = FALSE
        BY DEF SyncInit
    <2>5. 0 <= MaxEvents /\ 0 \in 0..MaxEvents
        OBVIOUS
    <2> QED BY <1>1, <1>2, <1>3, <2>1, <2>2, <2>3, <2>4, <2>5 DEF SyncTypeOK
<1>5. HandlersOK
    BY <1>1, <1>2 DEF HandlersOK
<1>6. Snaps
    BY <1>2 DEF Snaps, Holding
<1>7. Settled /\ Heard
    BY <1>1 DEF Settled, Heard
<1>8. Origins
    BY <1>1 DEF SyncInit, Origins, Shared
<1>9. \A u \in Users : ~Granted(u)
    BY DEF SyncInit, Granted
<1>10. Funded
    BY <1>9 DEF Funded
<1>11. RowsTrue
    <2>1. \A u \in Users : ~Has(u)
        BY <1>3 DEF SyncInit, Has
    <2> QED BY <1>9, <2>1 DEF RowsTrue, RowIsTrue, Owed, Bought
<1> QED BY <1>4, <1>5, <1>6, <1>7, <1>8, <1>10, <1>11 DEF SyncInv

LEMMA StepInv == ASSUME SyncInv, Lawful, [SyncNext]_syncVars PROVE SyncInv'
<1> USE LawKeeps
<1>1. ASSUME NEW u \in Users, Buy(u) \/ Refund(u) \/ AccountDeleted(u) PROVE SyncInv'
    BY <1>1, RevenueCatKeeps, DeletedKeeps
<1>2. ASSUME NEW u \in Users, NEW v \in Users, Restore(u, v) PROVE SyncInv'
    BY <1>2, RevenueCatKeeps
<1>3. ASSUME NEW w \in Syncers, Handler(w) PROVE SyncInv'
    <2>1. ASSUME NEW e \in 1..MaxEvents, Skip(w, e) \/ Deliver(w, e) PROVE SyncInv'
        BY <2>1, SkipKeeps, DeliverKeeps
    <2>2. ASSUME NEW u \in Users, Refresh(w, u) PROVE SyncInv'
        BY <2>2, RefreshKeeps
    <2>3. CASE Fetch(w) \/ ClaimSubscriber(w) \/ Adopt(w)
        BY <2>3, FetchKeeps, ClaimKeeps, AdoptKeeps
    <2>4. CASE Conflict(w) \/ Mirror(w)
        BY <2>4, ConflictKeeps, MirrorKeeps
    <2>5. CASE MarkEvent(w) \/ Fail(w)
        BY <2>5, MarkKeeps, FailKeeps
    <2> QED BY <1>3, <2>1, <2>2, <2>3, <2>4, <2>5 DEF Handler
<1>4. CASE UNCHANGED syncVars
    <2>1. UNCHANGED <<origin, holder, refunded, events, status, claim, purchase, gone, place, ev, todo,
                      snap, owner, written, moved, unread, disordered>>
        BY <1>4 DEF syncVars, revenuecat, handler, hindsight
    <2>2. SyncTypeOK' /\ HandlersOK' /\ Heard' /\ Origins'
        BY <2>1 DEF SyncInv, SyncTypeOK, HandlersOK, Heard, Concerns, Names, Aliases, Origins, Shared
    <2>3. Snaps'
        BY <2>1 DEF SyncInv, Snaps, SnapOK, Life, Has, Concerns, Aliases
    <2>4. Settled' /\ RowsTrue'
        BY <2>1 DEF SyncInv, Settled, RowsTrue, RowIsTrue, Granted, Owed, Bought, Has, Ordered,
                    Shared, Late, Transfer, Awaited, Names, Over, Past, InTodo
    <2>5. Funded'
        BY <2>1 DEF SyncInv, Funded, Granted, Shared
    <2> QED BY <2>2, <2>3, <2>4, <2>5 DEF SyncInv
<1> QED BY <1>1, <1>2, <1>3, <1>4 DEF SyncNext

\* The invariant of the App Store sync, for any accounts and handlers.
THEOREM SyncInvHolds == SyncSpec => []SyncInv
<1>1. SyncInit => SyncInv /\ Lawful
    <2>1. ASSUME SyncInit PROVE Lawful
        <3>1. Len(events) = 0 /\ 1..Len(events) = {} /\ moved = 0 /\ \A u \in Users : claim[u] = Nobody
            BY <2>1, EmptySeq DEF SyncInit
        <3> QED BY <3>1 DEF Lawful, Chain, Delivered, Whose
    <2> QED BY <2>1, StartInv
<1>2. SyncInv /\ Lawful /\ [SyncNext]_syncVars => SyncInv' /\ Lawful'
    BY StepInv, LawKeeps
<1> QED BY <1>1, <1>2, PTL DEF SyncSpec

\* Every variable has its type, and an event is never finished while it still has
\* accounts to sync.
THEOREM SyncTypeCorrect == SyncSpec => []SyncTypeOK
<1>1. SyncInv => SyncTypeOK
    BY DEF SyncInv
<1> QED BY <1>1, SyncInvHolds, PTL

\* Once RevenueCat's events are answered, a living account whose last sync was up to date
\* is granted the purchase only if its subscriber has it, is granted it then unless another
\* account has the claim, which between accounts with a subscriber each takes a TRANSFER
\* applied out of order, and one purchase never funds two accounts.
THEOREM RestIsTrueHolds == SyncSpec => []RestIsTrue
<1>1. SyncInv => RestIsTrue
    <2> SUFFICES ASSUME SyncInv, AtRest
                 PROVE  /\ \A u \in Users \ (gone \union unread) :
                              (Granted(u) => Bought(u)) /\ (Due(u) => Granted(u))
                        /\ \A u, v \in Users \ (gone \union unread) :
                              Granted(u) /\ Granted(v) => u = v
        BY DEF RestIsTrue
    <2>1. \A u \in Users : ~Awaited(u)
        <3> SUFFICES ASSUME NEW u \in Users, Awaited(u) PROVE FALSE
            OBVIOUS
        <3>1. \A e \in 1..Len(events) : Over(e, u)
            BY DEF AtRest, Answered, Over
        <3>2. \A w \in Syncers : todo[w] = <<>>
            BY DEF SyncInv, HandlersOK, AtRest
        <3>3. \A w \in Syncers : ~InTodo(w, u)
            BY <3>2, EmptySeq DEF InTodo
        <3> QED BY <3>1, <3>3 DEF Awaited
    <2>2. \A u \in Users \ (gone \union unread) : RowIsTrue(u)
        BY <2>1 DEF SyncInv, RowsTrue
    <2>3. ASSUME NEW u \in Users \ (gone \union unread), NEW v \in Users \ (gone \union unread),
                 Granted(u), Granted(v)
          PROVE  u = v
        <3>1. origin[u] = origin[v]
            BY <2>2, <2>3 DEF RowIsTrue, Bought, Has
        <3>2. CASE \A x \in Users : origin[x] = x
            BY <3>1, <3>2
        <3>3. CASE Shared
            <4>1. claim[origin[u]] = u /\ claim[origin[v]] = v
                BY <2>3, <3>3 DEF SyncInv, Funded
            <4> QED BY <3>1, <4>1
        <3> QED BY <3>2, <3>3 DEF SyncInv, Origins
    <2>4. ASSUME NEW u \in Users, Due(u) PROVE Owed(u)
        <3>1. \A e \in 1..Len(events) : ~Late(e)
            BY DEF AtRest, Answered, Late, Done
        <3> QED BY <2>4, <3>1 DEF Due, Owed, Unclaimable, Ordered, Shared
    <2> QED BY <2>2, <2>3, <2>4 DEF RowIsTrue
<1> QED BY <1>1, SyncInvHolds, PTL

\* Access that was paid for, all of whose events are answered, is only ever withdrawn by
\* a handler that writes what a later fetch or the claim has overtaken; the account then
\* counts as unread until a sync of it is up to date.
THEOREM PaidAccessStandsHolds == SyncSpec => PaidAccessStands
<1> DEFINE Stands ==
        \A u \in Users \ (gone \union unread) :
           (/\ Granted(u) /\ Bought(u) /\ claim[origin[u]] = u /\ purchase'[u] = "revoked"
            /\ \A e \in 1..Len(events) : u \in {events[e].from, events[e].to} => status[e] \in Done)
             => /\ u \in unread'
                /\ \E w \in Syncers : /\ todo[w] # <<>> /\ Head(todo[w]) = u /\ Stale(w)
                                      /\ todo'[w] = Tail(todo[w])
<1>1. SyncInv /\ [SyncNext]_syncVars => Stands
    <2> SUFFICES ASSUME SyncInv, [SyncNext]_syncVars, NEW u \in Users \ (gone \union unread),
                        Granted(u), Bought(u), claim[origin[u]] = u, purchase'[u] = "revoked",
                        \A e \in 1..Len(events) :
                           u \in {events[e].from, events[e].to} => status[e] \in Done
                 PROVE  /\ u \in unread'
                        /\ \E w \in Syncers : /\ todo[w] # <<>> /\ Head(todo[w]) = u /\ Stale(w)
                                              /\ todo'[w] = Tail(todo[w])
        OBVIOUS
    <2>1. SyncTypeOK /\ purchase \in [Users -> {"none", "granting", "revoked"}] /\ purchase[u] = "granting"
        BY DEF SyncInv, SyncTypeOK, Granted
    <2>2. PICK w \in Syncers : u = Head(todo[w]) /\ (Conflict(w) \/ Mirror(w))
        <3>1. purchase' # purchase
            BY <2>1
        <3>2. ~(\E x \in Users : Buy(x) \/ Refund(x))
            BY <3>1 DEF Buy, Refund, Happens
        <3>3. ~(\E x, y \in Users : Restore(x, y))
            BY <3>1 DEF Restore, Happens
        <3>4. ~(\E x \in Users : AccountDeleted(x))
            BY <2>1 DEF AccountDeleted
        <3>5. ~UNCHANGED syncVars
            BY <3>1 DEF syncVars
        <3>6. PICK w \in Syncers : Handler(w)
            BY <3>2, <3>3, <3>4, <3>5 DEF SyncNext
        <3>7. Conflict(w) \/ Mirror(w)
            BY <3>1, <3>6 DEF Handler, Skip, Deliver, Refresh, Fetch, ClaimSubscriber, Adopt, MarkEvent, Fail
        <3>8. u = Head(todo[w])
            BY <2>1, <3>7 DEF Conflict, Mirror
        <3> QED BY <3>7, <3>8
    <2>3. place[w] \in {"judge", "mirror"} /\ Synced(w, snap[w])
        BY <2>2 DEF Conflict, Mirror
    <2>4. todo[w] # <<>> /\ todo'[w] = Tail(todo[w])
        BY <2>1, <2>3, HeadKnown, SyncedFacts
    <2>5. snap[w].read
        <3>1. CASE Conflict(w)
            <4>1. snap[w].life # "absent" /\ (~snap[w].read => snap[w].life = "absent")
                BY <3>1 DEF SyncInv, Snaps, SnapOK, Holding, Conflict
            <4>2. snap[w].read \in BOOLEAN
                BY <2>1 DEF SyncTypeOK, Snapshot
            <4> QED BY <4>1, <4>2
        <3>2. CASE Mirror(w)
            <4>1. snap[w].life \in {"absent", "granting", "refunded"} /\ (~snap[w].read => snap[w].life = "absent")
                BY <2>1, <2>3 DEF SyncTypeOK, Snapshot, SyncInv, Snaps, SnapOK, Holding
            <4>2. purchase' = CASE snap[w].life = "granting" -> [purchase EXCEPT ![u] = "granting"]
                           [] snap[w].life = "refunded" -> [purchase EXCEPT ![u] = "revoked"]
                           [] snap[w].life = "absent" /\ snap[w].read /\ purchase[u] # "none" ->
                                  [purchase EXCEPT ![u] = "revoked"]
                           [] OTHER -> purchase
                BY <2>2, <3>2 DEF Mirror
            <4> QED BY <2>1, <4>1, <4>2
        <3> QED BY <2>2, <3>1, <3>2
    <2>6. Stale(w)
        <3>1. CASE Conflict(w)
            <4>1. owner[w] # u
                BY <2>2, <3>1 DEF SyncInv, Snaps, SnapOK, Holding, Conflict
            <4> QED BY <2>2, <3>1, <4>1 DEF Conflict, Stale
        <3>2. CASE Mirror(w) /\ ~Stale(w)
            <4>1. place[w] = "mirror" /\ snap[w].life # "granting"
                <5>1. snap[w].life = "granting" => purchase' = [purchase EXCEPT ![u] = "granting"]
                    BY <2>2, <3>2 DEF Mirror
                <5> QED BY <2>1, <3>2, <5>1 DEF Mirror
            <4>2. u \notin unread'
                <5>1. u \notin unread /\ u \in Users
                    OBVIOUS
                <5> HIDE DEF Stale
                <5> QED BY <2>2, <2>3, <2>5, <3>2, <5>1 DEF Synced
            <4>3. snap[w].life = Life(u)
                <5> SUFFICES ASSUME snap[w].life # Life(u) PROVE FALSE
                    OBVIOUS
                <5>1. PICK e \in 1..Len(events) : Names(e, u) /\ ~Over(e, u)
                    BY <2>2, <2>3, <4>1, <4>2, FreshSnapshot
                <5> QED BY <5>1 DEF Over, Names
            <4> QED BY <4>1, <4>3 DEF Bought, Life
        <3> QED BY <2>2, <3>1, <3>2
    <2>7. u \in unread'
        <3> HIDE DEF Stale
        <3> QED BY <2>2, <2>3, <2>6 DEF Synced
    <2> QED BY <2>2, <2>4, <2>6, <2>7
<1>2. PaidAccessStands <=> [][Stands]_syncVars
    BY DEF PaidAccessStands
<1> QED BY <1>1, <1>2, SyncInvHolds, PTL DEF SyncSpec
=============================================================================
