--------------------------- MODULE CheckoutProofs ---------------------------
(***************************************************************************)
(* Theorems about what may be bought and what is granted.  Checkout, for   *)
(* any number of requests, any keys, any TTL, any margin that covers the   *)
(* skew, and any horizon; then AccountAccess, for any lengths of periods,  *)
(* trials, graces and leases, and any number of changes.                   *)
(***************************************************************************)
EXTENDS Checkout, AccountAccess, TLAPS

USE DEF Answer

-----------------------------------------------------------------------------
(* Type correctness *)

LEMMA NewIntentIsRow ==
    ASSUME TypeOK, NEW r \in Requests
    PROVE  [state |-> "reserved", plan |-> ask[r].plan, key |-> ask[r].key,
            expiresAt |-> at[r] + TTL + MARGIN] \in IntentRow
BY ClockAssumption DEF TypeOK, IntentRow, IntentStates

\* The guarded write of a handler keeps the rows well formed.
LEMMA SettleType ==
    ASSUME TypeOK, NEW r \in Requests, NEW s \in IntentStates, NEW u \in Nat, Settle(r, s, u)
    PROVE  intent' \in [Requests -> IntentRow]
BY DEF TypeOK, Settle, IntentRow

\* Every step of a handler, the provider, a delivery or the clock keeps the type.
LEMMA TypeStep == TypeOK /\ [Next]_vars => TypeOK'
<1> SUFFICES ASSUME TypeOK, [Next]_vars PROVE TypeOK'
    OBVIOUS
<1>1. ASSUME NEW r \in Requests, Arrive(r) PROVE TypeOK'
    BY <1>1, NameAssumption DEF TypeOK, Arrive, storeVars, AllPlans, OwnsLifetime, BlocksRecurring
<1>2. ASSUME NEW r \in Requests, Decide(r) PROVE TypeOK'
    BY <1>2 DEF TypeOK, Decide, storeVars, NothingSeen
<1>3. ASSUME NEW r \in Requests, ReserveMeets(r) PROVE TypeOK'
    <2>1. MetIntents(r) \subseteq Requests
        BY DEF MetIntents, PriorIntents
    <2>2. \A q \in Requests : ClassifyExisting(q, ask[r].plan, at[r]) \in {"uncertain", "reused", "busy"}
        BY DEF ClassifyExisting
    <2>3. PICK q \in Requests :
              \/ Answer(r, "rejected") /\ UNCHANGED handed
              \/ /\ Answer(r, ClassifyExisting(q, ask[r].plan, at[r]))
                 /\ handed' \in {handed, [handed EXCEPT ![r] = q]}
        BY <1>3, <2>1 DEF ReserveMeets
    <2>4. answer' \in [Requests -> {"none", "rejected", "busy", "uncertain",
                                  "reused", "minted", "unknown", "failed"}]
        BY <2>2, <2>3 DEF TypeOK
    <2>5. handed' \in [Requests -> Requests \union {NoOne}]
        BY <2>3 DEF TypeOK
    <2>6. pc' \in [Requests -> {"idle", "decide", "reserve", "call", "done"}]
        BY <2>3 DEF TypeOK
    <2> QED BY <1>3, <2>4, <2>5, <2>6 DEF TypeOK, ReserveMeets, storeVars
<1>4. ASSUME NEW r \in Requests, ReserveTakes(r) PROVE TypeOK'
    <2>1. intent \in [Requests -> IntentRow]
        BY DEF TypeOK
    <2>2. \A q \in Requests : [intent[q] EXCEPT !.state = "expired"] \in IntentRow
        BY <2>1 DEF IntentRow, IntentStates
    <2>3. intent' \in [Requests -> IntentRow]
        BY <1>4, <2>1, <2>2, NewIntentIsRow DEF ReserveTakes, Sends
    <2> QED BY <1>4, <2>3, ClockAssumption DEF TypeOK, ReserveTakes, Sends
<1>5. ASSUME NEW r \in Requests, ReserveGivesUp(r) PROVE TypeOK'
    BY <1>5 DEF TypeOK, ReserveGivesUp, storeVars
<1>6. ASSUME NEW r \in Requests, MarkReady(r) PROVE TypeOK'
    <2>1. intent' \in [Requests -> IntentRow]
        BY <1>6, SettleType, ClockAssumption DEF TypeOK, MarkReady, IntentStates
    <2>2. heldUntil' \in Nat
        BY <1>6, ClockAssumption DEF TypeOK, MarkReady
    <2> QED BY <1>6, <2>1, <2>2 DEF TypeOK, MarkReady
<1>7. ASSUME NEW r \in Requests, MarkFailed(r) PROVE TypeOK'
    <2>1. intent[r].expiresAt \in Nat
        BY DEF TypeOK, IntentRow
    <2>2. intent' \in [Requests -> IntentRow]
        BY <1>7, <2>1, SettleType DEF MarkFailed, IntentStates
    <2> QED BY <1>7, <2>2 DEF TypeOK, MarkFailed
<1>8. ASSUME NEW r \in Requests, MarkUncertain(r) PROVE TypeOK'
    <2>1. intent' \in [Requests -> IntentRow]
        BY <1>8, SettleType, ClockAssumption DEF TypeOK, MarkUncertain, UNCERTAIN_HOLD, IntentStates
    <2>2. heldUntil' \in Nat
        BY <1>8, ClockAssumption DEF TypeOK, MarkUncertain, UNCERTAIN_HOLD
    <2> QED BY <1>8, <2>1, <2>2 DEF TypeOK, MarkUncertain
<1>9. ASSUME NEW r \in Requests, Provider(r) PROVE TypeOK'
    BY <1>9 DEF TypeOK, Provider, ProviderCreates, ProviderRefuses, Pay, handlerVars, storeVars
<1>10. ASSUME NEW r \in Requests, WebhookClose(r) PROVE TypeOK'
    <2>1. [intent EXCEPT ![r].state = "completed"] \in [Requests -> IntentRow]
        BY DEF TypeOK, IntentRow, IntentStates
    <2>2. intent' \in [Requests -> IntentRow]
        BY <1>10, <2>1 DEF TypeOK, WebhookClose
    <2> QED BY <1>10, <2>2 DEF TypeOK, WebhookClose, handlerVars
<1>11. ASSUME NEW r \in Requests, RecordPayment(r) \/ AccessEnds(r) PROVE TypeOK'
    BY <1>11 DEF TypeOK, RecordPayment, AccessEnds, handlerVars, storeVars
<1>12. CASE Tick
    BY <1>12 DEF TypeOK, Tick, handlerVars, storeVars
<1>13. CASE UNCHANGED vars
    BY <1>13 DEF TypeOK, vars, handlerVars, storeVars
<1> QED BY <1>1, <1>2, <1>3, <1>4, <1>5, <1>6, <1>7, <1>8, <1>9, <1>10, <1>11, <1>12, <1>13
        DEF Next, Handle, Fulfil

LEMMA TypeInit == Init => TypeOK
BY DEF Init, TypeOK, NoIntent, NothingSeen, IntentRow

\* The rows, the handlers and the provider's links stay well formed.
THEOREM TypeCorrect == Spec => []TypeOK
BY TypeInit, TypeStep, PTL DEF Spec

-----------------------------------------------------------------------------
(* The lock covers every link *)

\* What makes PayableIsHeld inductive: an instant is captured before the
\* reservation that uses it, a handler that has not reserved has no intent and
\* no link, and a handler awaiting the provider's answer that still holds the
\* lock still has a reserved intent with the expiry it was created with.
Captured == \A r \in Requests : at[r] <= now

Unreserved ==
    \A r \in Requests : pc[r] \in {"idle", "decide", "reserve"}
        => link[r] = "none" /\ intent[r].state = "none"

Waiting ==
    \A r \in Requests : pc[r] = "call" /\ holder = r => intent[r].state = "reserved"

HoldInv == TypeOK /\ Captured /\ Unreserved /\ Waiting /\ PayableIsHeld /\ LockAligned

LEMMA HoldInit == Init => HoldInv
<1> SUFFICES ASSUME Init PROVE HoldInv
    OBVIOUS
<1>1. TypeOK
    BY TypeInit
<1> QED BY <1>1 DEF Init, HoldInv, Captured, Unreserved, Waiting, PayableIsHeld, LockAligned, Alive, NoIntent

\* A reservation finds either no lock or one whose hold is over, so no other
\* request of the account can still turn into a payable link.
LEMMA TakesFindsNoLiveLink ==
    ASSUME HoldInv, NEW r \in Requests, ReserveTakes(r), NEW q \in Requests
    PROVE  ~Alive(q) /\ (holder = q => heldUntil <= at[r])
<1>1. holder = q => ~(heldUntil > at[r])
    BY DEF ReserveTakes, Sends, MetIntents
<1>2. at[r] \in Nat /\ at[q] \in Nat /\ heldUntil \in Nat /\ now \in Nat
    BY DEF HoldInv, TypeOK
<1>3. at[r] <= now
    BY DEF HoldInv, Captured
<1>4. Alive(q) => holder = q /\ heldUntil >= at[q] + TTL + SKEW
    BY DEF HoldInv, PayableIsHeld
<1> QED BY <1>1, <1>2, <1>3, <1>4, ClockAssumption DEF Alive

\* Reserving: the new intent takes over a lock nobody needs.
LEMMA HoldTakes == ASSUME HoldInv, TypeOK', NEW r \in Requests, ReserveTakes(r) PROVE HoldInv'
<1> USE DEF HoldInv, ReserveTakes, Sends
<1>1. at[r] \in Nat /\ at' = at /\ now' = now
    BY DEF TypeOK
<1>2. Captured'
    BY <1>1 DEF Captured
<1>3. \A q \in Requests : q # r => pc'[q] = pc[q] /\ link'[q] = link[q] /\ (intent[q].state = "none" => intent'[q] = intent[q])
    BY DEF TypeOK
<1>4. pc'[r] = "call" /\ link'[r] = "sent" /\ holder' = r /\ heldUntil' = at[r] + TTL + MARGIN
    BY DEF TypeOK
<1>5. intent'[r].state = "reserved" /\ intent'[r].expiresAt = at[r] + TTL + MARGIN
    OBVIOUS
<1>6. Unreserved'
    BY <1>3, <1>4 DEF Unreserved
<1>7. Waiting'
    BY <1>4, <1>5 DEF Waiting
<1>8. LockAligned'
    BY <1>4, <1>5 DEF LockAligned, HOLDING
<1>9. \A q \in Requests : q # r => ~Alive(q)'
    BY <1>1, <1>3, TakesFindsNoLiveLink DEF Alive
<1>10. PayableIsHeld'
    BY <1>1, <1>4, <1>9, ClockAssumption DEF PayableIsHeld
<1> QED BY <1>2, <1>6, <1>7, <1>8, <1>10

\* A handler settling its own intent moves the lock with it.
LEMMA HoldMarkReady == ASSUME HoldInv, TypeOK', NEW r \in Requests, MarkReady(r) PROVE HoldInv'
<1> USE DEF HoldInv, MarkReady, Settle
<1>1. \A q \in Requests : q # r => pc'[q] = pc[q] /\ intent'[q] = intent[q]
    BY DEF TypeOK
<1>2. pc'[r] = "done" /\ at[r] \in Nat
    BY DEF TypeOK
<1>3. Captured'
    BY DEF Captured
<1>4. Unreserved'
    BY <1>1, <1>2 DEF Unreserved
<1>5. Waiting'
    BY <1>1, <1>2 DEF Waiting
<1>6. holder = r => intent[r].state = "reserved"
    BY DEF Waiting
<1>7. LockAligned'
    <2>1. CASE holder = r
        BY <2>1, <1>6 DEF LockAligned, HOLDING, TypeOK, IntentRow
    <2>2. CASE holder # r
        BY <2>2, <1>1 DEF LockAligned, TypeOK
    <2> QED BY <2>1, <2>2
<1>8. PayableIsHeld'
    BY <1>2, ClockAssumption DEF PayableIsHeld, Alive
<1> QED BY <1>3, <1>4, <1>5, <1>7, <1>8

LEMMA HoldMarkUncertain == ASSUME HoldInv, TypeOK', NEW r \in Requests, MarkUncertain(r) PROVE HoldInv'
<1> USE DEF HoldInv, MarkUncertain, Settle
<1>1. \A q \in Requests : q # r => pc'[q] = pc[q] /\ intent'[q] = intent[q]
    BY DEF TypeOK
<1>2. pc'[r] = "done" /\ at[r] \in Nat
    BY DEF TypeOK
<1>3. Captured'
    BY DEF Captured
<1>4. Unreserved'
    BY <1>1, <1>2 DEF Unreserved
<1>5. Waiting'
    BY <1>1, <1>2 DEF Waiting
<1>6. holder = r => intent[r].state = "reserved"
    BY DEF Waiting
<1>7. LockAligned'
    <2>1. CASE holder = r
        BY <2>1, <1>6 DEF LockAligned, HOLDING, TypeOK, IntentRow
    <2>2. CASE holder # r
        BY <2>2, <1>1 DEF LockAligned, TypeOK
    <2> QED BY <2>1, <2>2
<1>8. PayableIsHeld'
    BY <1>2, ClockAssumption DEF PayableIsHeld, Alive, UNCERTAIN_HOLD
<1> QED BY <1>3, <1>4, <1>5, <1>7, <1>8

\* A refusal and a payment end the link they free the lock for.
LEMMA HoldMarkFailed == ASSUME HoldInv, TypeOK', NEW r \in Requests, MarkFailed(r) PROVE HoldInv'
<1> USE DEF HoldInv, MarkFailed, Settle
<1>1. \A q \in Requests : q # r => pc'[q] = pc[q] /\ intent'[q] = intent[q]
    BY DEF TypeOK
<1>2. pc'[r] = "done"
    BY DEF TypeOK
<1>3. holder' \in {holder, NoOne} /\ holder' # r
    BY NameAssumption
<1>4. Unreserved'
    BY <1>1, <1>2 DEF Unreserved
<1>5. Waiting'
    BY <1>1, <1>2, <1>3, NameAssumption DEF Waiting
<1>6. LockAligned'
    BY <1>1, <1>3 DEF LockAligned, TypeOK
<1>7. PayableIsHeld'
    BY DEF PayableIsHeld, Alive
<1> QED BY <1>4, <1>5, <1>6, <1>7 DEF Captured

LEMMA HoldWebhookClose == ASSUME HoldInv, TypeOK', NEW r \in Requests, WebhookClose(r) PROVE HoldInv'
<1> USE DEF HoldInv, WebhookClose, handlerVars
<1>1. CASE UNCHANGED <<intent, holder>>
    BY <1>1 DEF Captured, Unreserved, Waiting, PayableIsHeld, LockAligned, Alive
<1>2. CASE /\ intent' = IF intent[r].state \in HOLDING
                        THEN [intent EXCEPT ![r].state = "completed"] ELSE intent
           /\ holder' = IF holder = r THEN NoOne ELSE holder
    <2>1. \A q \in Requests : q # r => intent'[q] = intent[q]
        BY <1>2 DEF TypeOK
    <2>2. pc[r] \notin {"idle", "decide", "reserve"}
        BY DEF Unreserved
    <2>3. holder' \in {holder, NoOne} /\ holder' # r
        BY <1>2, NameAssumption
    <2>4. Unreserved'
        BY <2>1, <2>2 DEF Unreserved
    <2>5. Waiting'
        BY <2>1, <2>3, NameAssumption DEF Waiting
    <2>6. LockAligned'
        BY <2>1, <2>3 DEF LockAligned, TypeOK
    <2>7. PayableIsHeld'
        BY <1>2 DEF PayableIsHeld, Alive
    <2> QED BY <2>4, <2>5, <2>6, <2>7 DEF Captured
<1> QED BY <1>1, <1>2

\* Steps that touch neither the rows nor a link of another request.
LEMMA HoldQuiet ==
    ASSUME HoldInv, TypeOK', NEW r \in Requests,
           \/ Arrive(r) \/ Decide(r) \/ ReserveMeets(r) \/ ReserveGivesUp(r)
    PROVE  HoldInv'
<1> USE DEF HoldInv
<1>1. /\ UNCHANGED <<now, intent, holder, heldUntil, link>>
      /\ \A q \in Requests : q # r => pc'[q] = pc[q] /\ at'[q] = at[q]
      /\ pc'[r] \in {"decide", "reserve", "done"}
      /\ at'[r] \in {at[r], now}
    <2>1. CASE Arrive(r)
        BY <2>1 DEF Arrive, TypeOK, storeVars
    <2>2. CASE Decide(r)
        BY <2>2 DEF Decide, TypeOK, storeVars
    <2>3. CASE ReserveMeets(r)
        BY <2>3 DEF ReserveMeets, TypeOK, storeVars
    <2>4. CASE ReserveGivesUp(r)
        BY <2>4 DEF ReserveGivesUp, TypeOK, storeVars
    <2> QED BY <2>1, <2>2, <2>3, <2>4
<1>2. pc[r] \in {"idle", "decide", "reserve"}
    BY DEF Arrive, Decide, ReserveMeets, ReserveGivesUp
<1>3. link[r] = "none" /\ intent[r].state = "none"
    BY <1>2 DEF Unreserved
<1>4. Captured'
    <2>1. now <= now /\ \A q \in Requests : at[q] <= now
        BY DEF Captured, TypeOK
    <2>2. \A q \in Requests : at'[q] \in {at[q], now}
        BY <1>1
    <2> QED BY <1>1, <2>1, <2>2 DEF Captured
<1>5. Unreserved'
    BY <1>1, <1>3 DEF Unreserved
<1>6. Waiting'
    BY <1>1 DEF Waiting
<1>7. PayableIsHeld'
    BY <1>1, <1>3 DEF PayableIsHeld, Alive
<1>8. LockAligned'
    BY <1>1 DEF LockAligned
<1> QED BY <1>4, <1>5, <1>6, <1>7, <1>8

\* A link only becomes payable from a request already covered.
LEMMA HoldProvider == ASSUME HoldInv, TypeOK', NEW r \in Requests, Provider(r) PROVE HoldInv'
<1> USE DEF HoldInv, Provider, ProviderCreates, ProviderRefuses, Pay, Payable, handlerVars, storeVars
<1>1. \A q \in Requests : q # r => link'[q] = link[q]
    BY DEF TypeOK
<1>2. link[r] \in {"sent", "open"} /\ link'[r] \in {"open", "refused", "paid"}
    BY DEF TypeOK
<1>3. Unreserved'
    BY <1>1, <1>2 DEF Unreserved
<1>4. \A q \in Requests : Alive(q)' => Alive(q)
    BY <1>1, <1>2 DEF Alive
<1>5. PayableIsHeld'
    BY <1>4 DEF PayableIsHeld
<1> QED BY <1>3, <1>5 DEF Captured, Waiting, LockAligned

LEMMA HoldTick == ASSUME HoldInv, TypeOK', Tick PROVE HoldInv'
<1> USE DEF HoldInv, Tick, handlerVars, storeVars
<1>1. \A q \in Requests : at[q] \in Nat /\ now \in Nat
    BY DEF TypeOK
<1>2. Captured'
    BY <1>1 DEF Captured
<1>3. \A q \in Requests : Alive(q)' => Alive(q)
    BY <1>1, ClockAssumption DEF Alive
<1>4. PayableIsHeld'
    BY <1>3 DEF PayableIsHeld
<1> QED BY <1>2, <1>4 DEF Unreserved, Waiting, LockAligned

LEMMA HoldStep == HoldInv /\ [Next]_vars => HoldInv'
<1> SUFFICES ASSUME HoldInv, [Next]_vars PROVE HoldInv'
    OBVIOUS
<1>0. TypeOK'
    BY TypeStep DEF HoldInv
<1>1. ASSUME NEW r \in Requests, Handle(r) PROVE HoldInv'
    BY <1>0, <1>1, HoldQuiet, HoldTakes, HoldMarkReady, HoldMarkFailed, HoldMarkUncertain DEF Handle
<1>2. ASSUME NEW r \in Requests, Provider(r) PROVE HoldInv'
    BY <1>0, <1>2, HoldProvider
<1>3. ASSUME NEW r \in Requests, Fulfil(r) PROVE HoldInv'
    <2>1. CASE WebhookClose(r)
        BY <1>0, <2>1, HoldWebhookClose
    <2>2. CASE RecordPayment(r) \/ AccessEnds(r)
        BY <1>0, <2>2 DEF RecordPayment, AccessEnds, handlerVars, storeVars, HoldInv, Captured,
                          Unreserved, Waiting, PayableIsHeld, LockAligned, Alive
    <2> QED BY <1>3, <2>1, <2>2 DEF Fulfil
<1>4. CASE Tick
    BY <1>0, <1>4, HoldTick
<1>5. CASE UNCHANGED vars
    BY <1>0, <1>5 DEF vars, handlerVars, storeVars, HoldInv, Captured, Unreserved, Waiting,
                      PayableIsHeld, LockAligned, Alive
<1> QED BY <1>1, <1>2, <1>3, <1>4, <1>5 DEF Next

LEMMA HoldInvariant == Spec => []HoldInv
BY HoldInit, HoldStep, PTL DEF Spec

\* Every link that is payable, or may still become so when a lost or late
\* request reaches the provider, is covered by the account's lock.
THEOREM LinksAreHeld == Spec => []PayableIsHeld
<1>1. HoldInv => PayableIsHeld
    BY DEF HoldInv
<1> QED BY <1>1, HoldInvariant, PTL

\* The lock row and its intent row never tell different stories.
THEOREM LockIsAligned == Spec => []LockAligned
<1>1. HoldInv => LockAligned
    BY DEF HoldInv
<1> QED BY <1>1, HoldInvariant, PTL

LEMMA HeldImpliesOne == HoldInv => OnePayable
<1> SUFFICES ASSUME HoldInv, NEW r \in Requests, NEW q \in Requests, Payable(r), Payable(q)
             PROVE  r = q
    BY DEF OnePayable
<1>1. Alive(r) /\ Alive(q)
    BY DEF Payable, Alive
<1> QED BY <1>1 DEF HoldInv, PayableIsHeld

\* The account never has two links it could pay.
THEOREM AtMostOnePayable == Spec => []OnePayable
BY HeldImpliesOne, HoldInvariant, PTL

\* An unexpired lock leaves its intent only by a refusal or its own payment.
THEOREM LocksLeaveSafely == Spec => LockLeavesSafely
<1>1. HoldInv /\ [Next]_vars =>
          [\A r \in Requests : holder = r /\ holder' # r
               => heldUntil <= now \/ link[r] \in {"refused", "paid"}]_vars
    <2> SUFFICES ASSUME HoldInv, Next, NEW r \in Requests, holder = r, holder' # r
                 PROVE  heldUntil <= now \/ link[r] \in {"refused", "paid"}
        OBVIOUS
    <2>1. ASSUME NEW q \in Requests, ReserveTakes(q) PROVE heldUntil <= now
        <3>1. heldUntil <= at[q] /\ at[q] <= now
            BY <2>1, TakesFindsNoLiveLink DEF HoldInv, Captured
        <3>2. heldUntil \in Nat /\ at[q] \in Nat /\ now \in Nat
            BY DEF HoldInv, TypeOK
        <3> QED BY <3>1, <3>2
    <2>2. ASSUME NEW q \in Requests, MarkFailed(q) PROVE link[r] = "refused"
        BY <2>2 DEF MarkFailed
    <2>3. ASSUME NEW q \in Requests, WebhookClose(q) PROVE link[r] = "paid"
        BY <2>3 DEF WebhookClose
    <2>4. ASSUME NEW q \in Requests,
                 \/ Arrive(q) \/ Decide(q) \/ ReserveMeets(q) \/ ReserveGivesUp(q)
                 \/ MarkReady(q) \/ MarkUncertain(q) \/ Provider(q) \/ RecordPayment(q) \/ AccessEnds(q)
          PROVE  holder' = holder
        BY <2>4 DEF Arrive, Decide, ReserveMeets, ReserveGivesUp, MarkReady, MarkUncertain, Provider,
                    ProviderCreates, ProviderRefuses, Pay, RecordPayment, AccessEnds, storeVars
    <2>5. Tick => holder' = holder
        BY DEF Tick, storeVars
    <2> QED BY <2>1, <2>2, <2>3, <2>4, <2>5 DEF Next, Handle, Fulfil
<1> QED BY <1>1, HoldInvariant, PTL DEF Spec, LockLeavesSafely

\* A settled intent is never rewritten.
THEOREM SettledIsFinal == Spec => SettledForGood
<1>1. HoldInv /\ [Next]_vars =>
          [\A r \in Requests : intent[r].state \in {"completed", "failed", "expired"}
               => intent'[r] = intent[r]]_vars
    <2> SUFFICES ASSUME HoldInv, Next, NEW r \in Requests,
                        intent[r].state \in {"completed", "failed", "expired"}
                 PROVE  intent'[r] = intent[r]
        OBVIOUS
    <2>1. ASSUME NEW q \in Requests, ReserveTakes(q) PROVE intent'[r] = intent[r]
        <3>1. intent[q].state = "none"
            BY <2>1 DEF HoldInv, Unreserved, ReserveTakes, Sends
        <3> QED BY <2>1, <3>1 DEF ReserveTakes, Sends
    <2>2. ASSUME NEW q \in Requests, MarkReady(q) \/ MarkFailed(q) \/ MarkUncertain(q)
          PROVE  intent'[r] = intent[r]
        BY <2>2 DEF MarkReady, MarkFailed, MarkUncertain, Settle, HoldInv, TypeOK
    <2>3. ASSUME NEW q \in Requests, WebhookClose(q) PROVE intent'[r] = intent[r]
        BY <2>3 DEF WebhookClose, HOLDING, HoldInv, TypeOK
    <2>4. ASSUME NEW q \in Requests,
                 \/ Arrive(q) \/ Decide(q) \/ ReserveMeets(q) \/ ReserveGivesUp(q)
                 \/ Provider(q) \/ RecordPayment(q) \/ AccessEnds(q)
          PROVE  intent' = intent
        BY <2>4 DEF Arrive, Decide, ReserveMeets, ReserveGivesUp, Provider,
                    ProviderCreates, ProviderRefuses, Pay, RecordPayment, AccessEnds, storeVars
    <2>5. Tick => intent' = intent
        BY DEF Tick, storeVars
    <2> QED BY <2>1, <2>2, <2>3, <2>4, <2>5 DEF Next, Handle, Fulfil
<1> QED BY <1>1, HoldInvariant, PTL DEF Spec, SettledForGood

-----------------------------------------------------------------------------
(* Keys and plans: an intent keeps the key and the plan it was created with. *)

Created(q) == intent[q].state # "none"

LEMMA IntentsKeepTheirTerms ==
    ASSUME HoldInv, [Next]_vars, NEW q \in Requests
    PROVE  \/ /\ Created(q) <=> Created(q)'
              /\ intent'[q].key = intent[q].key /\ intent'[q].plan = intent[q].plan
           \/ ReserveTakes(q) /\ ~Created(q)
<1> USE DEF Created
<1>1. ASSUME NEW r \in Requests, ReserveTakes(r), r # q
      PROVE  Created(q) = Created(q)' /\ intent'[q].key = intent[q].key /\ intent'[q].plan = intent[q].plan
    <2>1. intent[q] \in IntentRow
        BY DEF HoldInv, TypeOK
    <2>2. intent'[q] = intent[q] \/ (Created(q) /\ intent'[q] = [intent[q] EXCEPT !.state = "expired"])
        BY <1>1 DEF ReserveTakes, Sends
    <2> QED BY <2>1, <2>2 DEF IntentRow
<1>2. ReserveTakes(q) => ~Created(q)
    BY DEF HoldInv, Unreserved, ReserveTakes, Sends
<1>3. ASSUME NEW r \in Requests, NEW s \in IntentStates, NEW u, Settle(r, s, u)
      PROVE  (Created(q) <=> Created(q)') /\ intent'[q].key = intent[q].key /\ intent'[q].plan = intent[q].plan
    BY <1>3 DEF Settle, HoldInv, TypeOK, IntentRow, IntentStates
<1>4. ASSUME NEW r \in Requests, MarkReady(r) \/ MarkFailed(r) \/ MarkUncertain(r)
      PROVE  (Created(q) <=> Created(q)') /\ intent'[q].key = intent[q].key /\ intent'[q].plan = intent[q].plan
    BY <1>3, <1>4 DEF MarkReady, MarkFailed, MarkUncertain, IntentStates
<1>5. ASSUME NEW r \in Requests, WebhookClose(r)
      PROVE  (Created(q) <=> Created(q)') /\ intent'[q].key = intent[q].key /\ intent'[q].plan = intent[q].plan
    <2>1. \/ intent' = intent
          \/ intent[r].state \in HOLDING /\ intent' = [intent EXCEPT ![r].state = "completed"]
        BY <1>5 DEF WebhookClose
    <2>2. CASE intent' = intent
        BY <2>2
    <2>3. CASE intent[r].state \in HOLDING /\ intent' = [intent EXCEPT ![r].state = "completed"]
        <3>1. intent \in [Requests -> IntentRow]
            BY DEF HoldInv, TypeOK
        <3>2. r # q => intent'[q] = intent[q]
            BY <2>3, <3>1
        <3>3. intent[r].state # "none"
            BY <2>3 DEF HOLDING
        <3> QED BY <2>3, <3>1, <3>2, <3>3 DEF IntentRow
    <2> QED BY <2>1, <2>2, <2>3
<1>6. ASSUME NEW r \in Requests,
             \/ Arrive(r) \/ Decide(r) \/ ReserveMeets(r) \/ ReserveGivesUp(r)
             \/ Provider(r) \/ RecordPayment(r) \/ AccessEnds(r)
      PROVE  intent' = intent
    BY <1>6 DEF Arrive, Decide, ReserveMeets, ReserveGivesUp, Provider,
                ProviderCreates, ProviderRefuses, Pay, RecordPayment, AccessEnds, storeVars
<1>7. Tick \/ UNCHANGED vars => intent' = intent
    BY DEF Tick, vars, storeVars
<1> QED BY <1>1, <1>2, <1>4, <1>5, <1>6, <1>7 DEF Next, Handle, Fulfil

\* Only a reservation creates, one intent at a time, on the terms asked for.
LEMMA TakesOnItsTerms ==
    ASSUME HoldInv, NEW r \in Requests, ReserveTakes(r)
    PROVE  /\ intent'[r].key = ask[r].key /\ intent'[r].plan = ask[r].plan /\ intent'[r].state = "reserved"
           /\ PriorIntents(ask[r].key) = {}
           /\ \A q \in Requests : ReserveTakes(q) => q = r
<1>1. intent'[r].key = ask[r].key /\ intent'[r].plan = ask[r].plan /\ intent'[r].state = "reserved"
    BY DEF ReserveTakes, Sends
<1>2. PriorIntents(ask[r].key) = {}
    BY DEF ReserveTakes, Sends, MetIntents
<1>3. \A q \in Requests : ReserveTakes(q) => q = r
    BY DEF ReserveTakes, Sends
<1> QED BY <1>1, <1>2, <1>3

\* An Idempotency-Key never creates two intents, so a retry never mints again.
THEOREM KeysCreateOnce == Spec => []OneIntentPerKey
<1>1. Init => OneIntentPerKey
    BY DEF Init, OneIntentPerKey, NoIntent
<1>2. HoldInv /\ OneIntentPerKey /\ [Next]_vars => OneIntentPerKey'
    <2> SUFFICES ASSUME HoldInv, OneIntentPerKey, [Next]_vars, NEW r \in Requests, NEW q \in Requests,
                        Created(r)', Created(q)', intent'[r].key = intent'[q].key,
                        intent'[r].key # NoKey, r # q
                 PROVE  FALSE
        BY DEF OneIntentPerKey, Created
    <2>1. CASE ReserveTakes(r)
        <3>1. Created(q) /\ intent[q].key = ask[r].key
            BY <2>1, IntentsKeepTheirTerms, TakesOnItsTerms
        <3> QED BY <2>1, <3>1, TakesOnItsTerms DEF PriorIntents, Created
    <2>2. CASE ReserveTakes(q)
        <3>1. Created(r) /\ intent[r].key = ask[q].key
            BY <2>2, IntentsKeepTheirTerms, TakesOnItsTerms
        <3> QED BY <2>2, <3>1, TakesOnItsTerms DEF PriorIntents, Created
    <2>3. CASE ~ReserveTakes(r) /\ ~ReserveTakes(q)
        BY <2>3, IntentsKeepTheirTerms DEF OneIntentPerKey, Created
    <2> QED BY <2>1, <2>2, <2>3
<1> QED BY <1>1, <1>2, HoldInvariant, PTL DEF Spec

\* An intent sells what its request asked for, and a link is handed out only of an
\* intent there is.
OnTerms ==
    /\ \A r \in Requests : Created(r) => intent[r].plan = ask[r].plan
    /\ \A r \in Requests : pc[r] = "call" => Created(r)
    /\ \A r \in Requests : handed[r] # NoOne => /\ pc[r] = "done"
                                                /\ Created(handed[r])
                                                /\ intent[handed[r]].plan = ask[r].plan

LEMMA OnTermsStep == HoldInv /\ OnTerms /\ [Next]_vars => OnTerms'
<1> SUFFICES ASSUME HoldInv, OnTerms, [Next]_vars PROVE OnTerms'
    OBVIOUS
<1>0. /\ pc \in [Requests -> {"idle", "decide", "reserve", "call", "done"}]
      /\ handed \in [Requests -> Requests \union {NoOne}] /\ DOMAIN ask = Requests
      /\ NoOne \notin Requests
    BY NameAssumption DEF HoldInv, TypeOK
<1>1. ASSUME NEW r \in Requests, ReserveTakes(r) PROVE OnTerms'
    <2>1. /\ UNCHANGED <<ask, handed>> /\ pc[r] = "reserve" /\ pc' = [pc EXCEPT ![r] = "call"]
          /\ Created(r)' /\ ~Created(r) /\ intent'[r].plan = ask[r].plan
        BY <1>1, TakesOnItsTerms DEF ReserveTakes, Sends, Created, HoldInv, Unreserved
    <2>2. \A q \in Requests \ {r} : (Created(q) <=> Created(q)') /\ intent'[q].plan = intent[q].plan
        BY <1>1, IntentsKeepTheirTerms, TakesOnItsTerms
    <2> QED BY <1>0, <2>1, <2>2 DEF OnTerms
<1>2. CASE \A r \in Requests : ~ReserveTakes(r)
    <2>1. \A q \in Requests : (Created(q) <=> Created(q)') /\ intent'[q].plan = intent[q].plan
        BY <1>2, IntentsKeepTheirTerms
    <2>2. ASSUME NEW r \in Requests, Arrive(r) PROVE OnTerms'
        <3>1. /\ pc[r] = "idle" /\ pc' = [pc EXCEPT ![r] = "decide"] /\ handed' = handed
              /\ \A q \in Requests \ {r} : ask'[q] = ask[q]
              /\ ~Created(r)
            BY <2>2, <1>0 DEF Arrive, HoldInv, Unreserved, Created
        <3> QED BY <1>0, <2>1, <3>1 DEF OnTerms
    <2>3. ASSUME NEW r \in Requests, ReserveMeets(r) PROVE OnTerms'
        <3>1. UNCHANGED ask /\ pc[r] = "reserve" /\ pc' = [pc EXCEPT ![r] = "done"]
            BY <2>3 DEF ReserveMeets
        <3>2. \/ handed' = handed
              \/ \E q \in Requests : /\ handed' = [handed EXCEPT ![r] = q]
                                     /\ Created(q) /\ intent[q].plan = ask[r].plan
            BY <2>3 DEF ReserveMeets, MetIntents, PriorIntents, ClassifyExisting, Created
        <3> QED BY <1>0, <2>1, <3>1, <3>2 DEF OnTerms
    <2>4. ASSUME NEW r \in Requests, MarkReady(r) PROVE OnTerms'
        <3>1. /\ UNCHANGED ask /\ pc[r] = "call" /\ pc' = [pc EXCEPT ![r] = "done"]
              /\ handed' = [handed EXCEPT ![r] = r]
            BY <2>4 DEF MarkReady
        <3> QED BY <1>0, <2>1, <3>1 DEF OnTerms
    <2>5. ASSUME NEW r \in Requests, Decide(r) \/ ReserveGivesUp(r) \/ MarkFailed(r) \/ MarkUncertain(r)
          PROVE  OnTerms'
        <3>1. /\ UNCHANGED <<ask, handed>> /\ pc[r] # "done"
              /\ \E p \in {"done", "reserve"} : pc' = [pc EXCEPT ![r] = p]
            BY <2>5 DEF Decide, ReserveGivesUp, MarkFailed, MarkUncertain
        <3>2. \A q \in Requests : (pc'[q] = "call" => pc[q] = "call") /\ (pc[q] = "done" => pc'[q] = "done")
            BY <1>0, <3>1
        <3> QED BY <1>0, <2>1, <3>1, <3>2 DEF OnTerms
    <2>6. ASSUME \/ \E r \in Requests : Provider(r) \/ Fulfil(r)
                 \/ Tick \/ UNCHANGED vars
          PROVE  OnTerms'
        <3>1. UNCHANGED <<pc, ask, handed>>
            BY <2>6 DEF Provider, ProviderCreates, ProviderRefuses, Pay, Fulfil, WebhookClose,
               RecordPayment, AccessEnds, Tick, vars, handlerVars
        <3> QED BY <1>0, <2>1, <3>1 DEF OnTerms
    <2> QED BY <1>2, <2>2, <2>3, <2>4, <2>5, <2>6 DEF Next, Handle
<1> QED BY <1>1, <1>2

\* Nobody is handed a link for a plan he did not ask for, reused or minted.
THEOREM LinksAreAsked == Spec => []HandedIsAsked
<1>1. Init => OnTerms
    BY DEF Init, OnTerms, Created, NoIntent
<1>2. HoldInv /\ OnTerms /\ [Next]_vars => OnTerms'
    BY OnTermsStep
<1>3. OnTerms => HandedIsAsked
    BY DEF OnTerms, HandedIsAsked
<1> QED BY <1>1, <1>2, <1>3, HoldInvariant, PTL DEF Spec

-----------------------------------------------------------------------------
(* Checkout implements Acquisition *)

PayableLinks == {r \in Requests : Payable(r)}
BornLinks == {r \in Requests : link[r] \in {"open", "paid"}}

\* The provider creating a checkout is the birth of one link, payable or dead.
LEMMA CreateMints ==
    ASSUME HoldInv, HoldInv', NEW r \in Requests, ProviderCreates(r)
    PROVE  Acq!Mint(r) \/ Acq!MintDead(r)
<1> USE DEF ProviderCreates, handlerVars
<1>1. /\ \A q \in Requests : q # r => link'[q] = link[q]
      /\ link[r] = "sent" /\ link'[r] = "open" /\ now' = now /\ at' = at
    BY DEF HoldInv, TypeOK
<1>2. r \notin BornLinks /\ BornLinks' = BornLinks \union {r}
    BY <1>1 DEF BornLinks
<1>3. \A q \in Requests : q # r => (Payable(q)' <=> Payable(q))
    BY <1>1 DEF Payable
<1>4. ~Payable(r)
    BY <1>1 DEF Payable
<1>5. CASE Payable(r)'
    <2>1. \A q \in Requests : Payable(q)' => q = r
        BY <1>5 DEF HoldInv, PayableIsHeld, Alive, Payable
    <2>2. PayableLinks = {} /\ PayableLinks' = {r}
        BY <1>3, <1>4, <1>5, <2>1 DEF PayableLinks
    <2> QED BY <1>2, <2>2 DEF Acq!Mint, PayableLinks, BornLinks
<1>6. CASE ~Payable(r)'
    <2>1. PayableLinks' = PayableLinks
        BY <1>3, <1>4, <1>6 DEF PayableLinks
    <2> QED BY <1>2, <2>1 DEF Acq!MintDead, PayableLinks, BornLinks
<1> QED BY <1>5, <1>6

\* Any other step creates no link and can only end the payability of one.
LEMMA OtherStepsRetire ==
    ASSUME HoldInv, BornLinks' = BornLinks,
           \A q \in Requests : Payable(q)' => Payable(q)
    PROVE  Acq!Retire \/ UNCHANGED Acq!vars
<1>1. \A q, p \in PayableLinks : q = p
    BY HeldImpliesOne DEF OnePayable, PayableLinks
<1>2. PayableLinks' \subseteq PayableLinks
    BY DEF PayableLinks
<1>3. PayableLinks' = PayableLinks \/ (PayableLinks # {} /\ PayableLinks' = {})
    BY <1>1, <1>2
<1> QED BY <1>3 DEF Acq!Retire, Acq!vars, PayableLinks, BornLinks

LEMMA AcquisitionStep == HoldInv /\ HoldInv' /\ [Next]_vars => [Acq!Next]_(Acq!vars)
<1> SUFFICES ASSUME HoldInv, HoldInv', [Next]_vars PROVE Acq!Next \/ UNCHANGED Acq!vars
    OBVIOUS
<1>1. ASSUME NEW r \in Requests, ProviderCreates(r) PROVE Acq!Next
    BY <1>1, CreateMints DEF Acq!Next
<1>2. ASSUME NEW r \in Requests, ReserveTakes(r)
      PROVE  BornLinks' = BornLinks /\ \A q \in Requests : Payable(q)' => Payable(q)
    <2>1. /\ \A q \in Requests : q # r => link'[q] = link[q]
          /\ link[r] = "none" /\ link'[r] = "sent" /\ UNCHANGED <<now, at>>
        BY <1>2 DEF ReserveTakes, Sends, HoldInv, TypeOK, Unreserved
    <2> QED BY <2>1 DEF BornLinks, Payable
<1>3. ASSUME NEW r \in Requests, Decide(r)
      PROVE  BornLinks' = BornLinks /\ \A q \in Requests : Payable(q)' => Payable(q)
    <2>1. /\ \A q \in Requests : q # r => at'[q] = at[q]
          /\ link[r] = "none" /\ UNCHANGED <<now, link>>
        BY <1>3 DEF Decide, HoldInv, TypeOK, Unreserved
    <2> QED BY <2>1 DEF BornLinks, Payable
<1>4. ASSUME NEW r \in Requests, ProviderRefuses(r) \/ Pay(r)
      PROVE  BornLinks' = BornLinks /\ \A q \in Requests : Payable(q)' => Payable(q)
    <2>1. /\ \A q \in Requests : q # r => link'[q] = link[q]
          /\ \/ link[r] = "sent" /\ link'[r] = "refused"
             \/ link[r] = "open" /\ link'[r] = "paid"
          /\ UNCHANGED <<now, at>>
        BY <1>4 DEF ProviderRefuses, Pay, Payable, handlerVars, HoldInv, TypeOK
    <2> QED BY <2>1 DEF BornLinks, Payable
<1>5. ASSUME NEW r \in Requests,
             \/ Arrive(r) \/ ReserveMeets(r) \/ ReserveGivesUp(r)
             \/ MarkReady(r) \/ MarkFailed(r) \/ MarkUncertain(r) \/ Fulfil(r)
      PROVE  UNCHANGED <<now, at, link>>
    BY <1>5 DEF Arrive, ReserveMeets, ReserveGivesUp, MarkReady, MarkFailed, MarkUncertain,
                Fulfil, WebhookClose, RecordPayment, AccessEnds, handlerVars
<1>6. CASE Tick
    <2>1. \A q \in Requests : Payable(q)' => Payable(q)
        BY <1>6, ClockAssumption DEF Tick, Payable, handlerVars, HoldInv, TypeOK
    <2>2. BornLinks' = BornLinks
        BY <1>6 DEF Tick, BornLinks
    <2> QED BY <2>1, <2>2, OtherStepsRetire DEF Acq!Next
<1>7. UNCHANGED <<now, at, link>> => UNCHANGED Acq!vars
    BY DEF Acq!vars, Payable
<1>8. UNCHANGED vars => UNCHANGED Acq!vars
    BY <1>7 DEF vars, handlerVars
<1> QED BY <1>1, <1>2, <1>3, <1>4, <1>5, <1>6, <1>7, <1>8, OtherStepsRetire
        DEF Next, Handle, Provider, Acq!Next

\* Seen from outside, the account's links come into being one at a time, and
\* one that stopped being payable never becomes payable again.
THEOREM CheckoutImplementsAcquisition == Spec => ImplementsAcquisition
<1>1. Init => Acq!Init
    BY DEF Init, Acq!Init, Payable
<1> QED BY <1>1, AcquisitionStep, HoldInvariant, PTL
        DEF Spec, ImplementsAcquisition, Acq!Spec

HIDE DEF Answer
USE AccessAssumption

-----------------------------------------------------------------------------
(* The invariant of an account's access.                                     *)

Charging == {"on_trial", "active", "past_due", "paused"}

\* Days of a trial are left only to one that runs, or to one that was cancelled
\* and ends with them.
GoodWeb(w) ==
    /\ w.trialEnds > clock => w.status \in {"on_trial", "cancelled"}
    /\ w.status = "on_trial" => w.trialEnds # 0 /\ w.ends = 0
    /\ w.status = "cancelled" => w.ends # 0 /\ (w.trialEnds > clock => w.ends = w.trialEnds)

\* The web row is the provider's subscription, as it is.
Mirrored ==
    LET r == subs["web"]
    IN  /\ r.status = web.status /\ r.mode = web.mode /\ r.ours = web.ours
        /\ r.trialEnds = web.trialEnds /\ r.until = validUntilFrom(web)
        /\ r.heard <= clock

\* Who was cut off and is still charged has a cancellation owed or given up, or has
\* taken the trial up again.
CutOffIsOwed ==
    subs["web"].tombstone /\ web.status \in Charging =>
        resumed \/ task \in {"pending", "dead_lettered"}

\* While Apple's subscription runs, its rows say so, and each lifetime says what
\* the snapshot does.
AppleTold ==
    apple.expires > clock /\ ~apple.refunded =>
        /\ subs["apple"].status \in {"past_due", "on_trial", "active"}
        /\ subs["apple"].ours /\ subs["apple"].until = effectiveEnd(apple)
        /\ \A l \in apple.life : owned[l] = IF l \in apple.taken THEN "refunded" ELSE "owned"

\* A row that grants, but for its dates.
Entitled(r) ==
    /\ r.status \in GRANTING /\ variantIsSellable(r)
    /\ ~(r.status = "paused" /\ r.mode = "void")
    /\ ~(r.trialEnds > clock /\ (r.tombstone \/ r.status = "cancelled"))

\* What a lease was signed for lasts as long as the lease.
LeaseFounded ==
    lease.pro =>
        /\ ~account.revoked
        /\ \/ Lifetime \/ Gifted(lease.on)
           \/ lease.expires <= account.comp \/ lease.expires <= account.claim
           \/ \E p \in DOMAIN subs :
                 Entitled(subs[p]) /\ lease.expires <= subscriptionGrantsUntil(subs[p])

AccessInv ==
    /\ AccessTypeOK
    /\ GoodWeb(web) /\ Mirrored /\ CutOffIsOwed
    /\ apple.expires < NoEnd /\ AppleTold
    /\ LeaseFounded

-----------------------------------------------------------------------------
(* Dates *)

LEMMA Constants ==
    /\ AccessHorizon \in Nat \ {0} /\ PERIOD \in Nat \ {0} /\ TRIAL \in Nat \ {0}
    /\ GRACE \in Nat \ {0} /\ ROPE \in Nat \ {0} /\ TRIALROPE \in Nat \ {0}
    /\ MaxChanges \in Nat /\ NoEnd \in Nat
BY DEF AccessAssumption, NoEnd

LEMMA MaxOfTwo ==
    ASSUME NEW a \in Nat, NEW b \in Nat
    PROVE  Max({a, b}) = IF a >= b THEN a ELSE b
<1> DEFINE m == IF a >= b THEN a ELSE b
<1>1. m \in {a, b} /\ \A y \in {a, b} : m >= y
    OBVIOUS
<1>2. \A x \in {a, b} : (\A y \in {a, b} : x >= y) => x = m
    OBVIOUS
<1> QED BY <1>1, <1>2 DEF Max

LEMMA DatesOfClock ==
    ASSUME AccessTypeOK
    PROVE  /\ clock \in Nat /\ clock > 0 /\ clock <= AccessHorizon
           /\ clock \in Dates /\ clock + 1 \in Dates
           /\ clock + PERIOD \in Dates /\ clock + PERIOD + 1 \in Dates
           /\ clock + TRIAL \in Dates /\ clock + TRIAL + 1 \in Dates
           /\ 0 \in Dates /\ NoEnd \in Dates /\ NoEnd > clock
BY Constants DEF AccessTypeOK, Dates, NoEnd

-----------------------------------------------------------------------------
(* What a change leaves: the lease is forgotten, and whichever of the two    *)
(* subscriptions it is not about stays as it was.                            *)

LeaseTyped == lease \in [on : Platforms, pro : BOOLEAN, expires : Dates]
WebTyped == web \in Web /\ subs["web"] \in Row
AppleTyped ==
    /\ apple \in Apple /\ subs["apple"] \in Row
    /\ subs["apple"].status # "cancelled" /\ ~subs["apple"].tombstone
    /\ apple.expires < NoEnd
WebTrue == WebTyped /\ GoodWeb(web) /\ Mirrored
AppleTrue == AppleTyped /\ AppleTold
Rest ==
    /\ DOMAIN subs = {"web", "apple"}
    /\ owned \in [Licences -> {"none", "owned", "refunded"}]
    /\ task \in CancellationState /\ account \in Account /\ resumed \in BOOLEAN

LEMMA Together ==
    ASSUME WebTrue', CutOffIsOwed', AppleTrue', Rest',
           clock' \in 1..AccessHorizon, cached' \in BOOLEAN, changes' \in 0..MaxChanges,
           subs' \in [{"web", "apple"} -> Row], LeaseTyped', LeaseFounded'
    PROVE  AccessInv'
BY DEF AccessInv, AccessTypeOK, WebTrue, WebTyped, AppleTrue, AppleTyped, Rest, LeaseTyped

LEMMA ChangesForget ==
    ASSUME AccessInv, Changes
    PROVE  /\ clock' = clock /\ clock' \in 1..AccessHorizon /\ cached' \in BOOLEAN
           /\ changes' \in 0..MaxChanges /\ LeaseTyped' /\ LeaseFounded'
<1>1. lease' = NoLease /\ clock' = clock /\ cached' = cached /\ changes' = changes + 1
      /\ changes < MaxChanges
    BY DEF Changes
<1>2. LeaseTyped'
    BY <1>1, DatesOfClock DEF LeaseTyped, NoLease, Platforms, AccessInv
<1>3. LeaseFounded'
    BY <1>1 DEF LeaseFounded, NoLease
<1> QED BY <1>1, <1>2, <1>3, Constants DEF AccessInv, AccessTypeOK

\* The web subscription is as it was, whatever else changes.
LEMMA WebStays ==
    ASSUME AccessInv, UNCHANGED <<clock, web>>, subs'["web"] = subs["web"]
    PROVE  WebTrue'
BY DEF AccessInv, AccessTypeOK, WebTrue, WebTyped, GoodWeb, Mirrored, validUntilFrom

LEMMA AppleStays ==
    ASSUME AccessInv, UNCHANGED <<clock, apple>>, subs'["apple"] = subs["apple"],
           \A l \in {"apple", "sandbox"} : owned'[l] = owned[l]
    PROVE  AppleTrue'
<1>1. apple.life \subseteq {"apple", "sandbox"}
    BY DEF AccessInv, AccessTypeOK, Apple
<1> QED BY <1>1 DEF AccessInv, AccessTypeOK, AppleTrue, AppleTyped, AppleTold, effectiveEnd

-----------------------------------------------------------------------------
(* The web subscription *)

LEMMA MirrorTyped ==
    ASSUME AccessInv, NEW v \in Web, NEW cut \in BOOLEAN
    PROVE  /\ validUntilFrom(v) \in Dates
           /\ Mirror(v, cut) \in Row
           /\ Mirror(v, cut).tombstone => cut \/ v.status = "cancelled"
<1>1. clock \in Dates
    BY DatesOfClock DEF AccessInv
<1>2. v.status \in Statuses /\ v.mode \in {"-", "free", "void"} /\ v.ours \in BOOLEAN
      /\ v.trialEnds \in Dates /\ v.renews \in Dates /\ v.ends \in Dates
    BY DEF Web
<1>3. validUntilFrom(v) \in Dates
    BY <1>2 DEF validUntilFrom
<1>4. (cut \/ (v.status = "cancelled" /\ v.trialEnds > clock)) \in BOOLEAN
    OBVIOUS
<1>5. Mirror(v, cut) \in Row
    BY <1>1, <1>2, <1>3, <1>4 DEF Mirror, Row
<1> QED BY <1>3, <1>5 DEF Mirror

\* The subscription becomes one that is sound, and the row its mirror.
LEMMA WebBecomesSound ==
    ASSUME AccessInv, NEW v \in Web, NEW cut \in BOOLEAN, WebBecomes(v, cut),
           GoodWeb(v), clock' = clock,
           cut /\ v.status \in Charging => resumed' \/ task' \in {"pending", "dead_lettered"}
    PROVE  /\ WebTrue' /\ CutOffIsOwed'
           /\ subs' \in [{"web", "apple"} -> Row] /\ subs'["apple"] = subs["apple"]
           /\ resumed' \in BOOLEAN
<1>1. web' = v /\ subs' = [subs EXCEPT !["web"] = Mirror(v, cut)]
    BY DEF WebBecomes
<1>2. subs \in [{"web", "apple"} -> Row] /\ clock \in Nat
    BY DatesOfClock DEF AccessInv, AccessTypeOK
<1>3. subs' \in [{"web", "apple"} -> Row] /\ subs'["apple"] = subs["apple"]
      /\ subs'["web"] = Mirror(v, cut)
    BY <1>1, <1>2, MirrorTyped
<1>4. GoodWeb(web)' /\ WebTyped'
    BY <1>1, <1>3, MirrorTyped DEF GoodWeb, WebTyped
<1>5. Mirrored'
    BY <1>1, <1>2, <1>3 DEF Mirrored, Mirror, validUntilFrom
<1>6. CutOffIsOwed'
    BY <1>1, <1>3, MirrorTyped DEF CutOffIsOwed, Charging
<1>7. resumed' \in BOOLEAN
    BY DEF WebBecomes, TakenUp
<1> QED BY <1>3, <1>4, <1>5, <1>6, <1>7 DEF WebTrue

\* The same of a change that is otherwise about nothing but the task and the account.
LEMMA WebChangeInv ==
    ASSUME AccessInv, Changes, NEW v \in Web, NEW cut \in BOOLEAN, WebBecomes(v, cut), GoodWeb(v),
           cut /\ v.status \in Charging => resumed' \/ task' \in {"pending", "dead_lettered"},
           apple' = apple, owned' = owned, task' \in CancellationState, account' \in Account
    PROVE  AccessInv'
<1>1. clock' = clock
    BY DEF Changes
<1>2. /\ WebTrue' /\ CutOffIsOwed'
      /\ subs' \in [{"web", "apple"} -> Row] /\ subs'["apple"] = subs["apple"]
      /\ resumed' \in BOOLEAN
    BY <1>1, WebBecomesSound
<1>3. AppleTrue'
    BY <1>1, <1>2, AppleStays
<1>4. Rest'
    BY <1>2 DEF Rest, AccessInv, AccessTypeOK
<1> QED BY <1>2, <1>3, <1>4, ChangesForget, Together

LEMMA WebIs ==
    ASSUME AccessInv
    PROVE  /\ web \in Web /\ GoodWeb(web) /\ subs["web"].tombstone \in BOOLEAN
           /\ web.status \in Statuses /\ web.trialEnds \in Nat /\ web.renews \in Nat /\ web.ends \in Nat
           /\ web.trialEnds \in Dates /\ web.renews \in Dates /\ web.ends \in Dates
           /\ subs["web"].status = web.status
           /\ task \in CancellationState /\ account \in Account /\ clock \in Nat
           /\ (subs["web"].tombstone /\ web.status \in Charging =>
                 resumed \/ task \in {"pending", "dead_lettered"})
BY DatesOfClock DEF AccessInv, AccessTypeOK, Web, Row, Dates, Mirrored, CutOffIsOwed

LEMMA StoppedSound ==
    ASSUME AccessInv, web.status \in Stoppable
    PROVE  Stopped(web) \in Web /\ GoodWeb(Stopped(web)) /\ Stopped(web).status = "cancelled"
<1>1. Stopped(web) = [web EXCEPT !.status = "cancelled", !.mode = "-", !.ends = Stopped(web).ends]
      /\ Stopped(web).ends = IF web.status = "on_trial" /\ web.trialEnds > clock THEN web.trialEnds
                             ELSE IF web.renews > clock THEN web.renews ELSE clock + 1
    BY WebIs DEF Stopped, Web
<1>2. Stopped(web).ends \in Dates /\ Stopped(web).ends # 0
      /\ (web.trialEnds > clock => Stopped(web).ends = web.trialEnds)
    <2>1. web.trialEnds > clock => web.status = "on_trial"
        BY WebIs DEF GoodWeb, Stoppable
    <2>2. clock + 1 \in Dates
        BY DatesOfClock DEF AccessInv
    <2>3. CASE web.trialEnds > clock
        <3>1. Stopped(web).ends = web.trialEnds
            BY <1>1, <2>1, <2>3
        <3> QED BY <2>3, <3>1, WebIs
    <2>4. CASE ~(web.trialEnds > clock) /\ web.renews > clock
        <3>1. Stopped(web).ends = web.renews
            BY <1>1, <2>4
        <3> QED BY <2>4, <3>1, WebIs
    <2>5. CASE ~(web.trialEnds > clock) /\ ~(web.renews > clock)
        <3>1. Stopped(web).ends = clock + 1
            BY <1>1, <2>5
        <3> QED BY <2>2, <2>5, <3>1, WebIs
    <2> QED BY <2>3, <2>4, <2>5
<1>3. /\ Stopped(web) \in Web /\ Stopped(web).status = "cancelled"
      /\ Stopped(web).trialEnds = web.trialEnds
    BY <1>1, <1>2, WebIs DEF Web, Statuses
<1> QED BY <1>2, <1>3 DEF GoodWeb

LEMMA PaidSound ==
    ASSUME AccessInv, NEW v \in Web, v.trialEnds <= clock
    PROVE  Paid(v) \in Web /\ GoodWeb(Paid(v)) /\ Paid(v).status = "active"
<1>1. Paid(v) \in Web
    BY DatesOfClock DEF Paid, Web, Statuses, AccessInv
<1>2. Paid(v).status = "active" /\ Paid(v).trialEnds = v.trialEnds
    BY DEF Paid, Web
<1>3. v.trialEnds \in Nat /\ clock \in Nat
    BY WebIs DEF Web, Dates
<1> QED BY <1>1, <1>2, <1>3 DEF GoodWeb

LEMMA ResumedSound ==
    ASSUME AccessInv, web.status = "cancelled", clock < web.ends
    PROVE  Resumed(web) \in Web /\ GoodWeb(Resumed(web)) /\ Resumed(web).status \in {"on_trial", "active"}
BY WebIs, DatesOfClock DEF Resumed, Web, Statuses, GoodWeb, AccessInv

LEMMA MovesAre ==
    ASSUME AccessInv, NEW v \in WebMoves(web)
    PROVE  \/ web.status \in {"on_trial", "active"} /\ web.trialEnds <= clock /\ v = Paid(web)
           \/ web.status = "active" /\ \E d \in {0, web.renews} : v = [web EXCEPT !.status = "past_due", !.renews = d]
           \/ web.status = "active" /\ \E m \in {"free", "void"} :
                 v = [web EXCEPT !.status = "paused", !.mode = m, !.renews = 0]
           \/ web.status \in {"past_due", "paused"} /\ v = Paid(web)
           \/ web.status = "past_due" /\ v = [web EXCEPT !.status = "unpaid"]
           \/ web.status \in Stoppable /\ v = Stopped(web)
           \/ web.status = "cancelled" /\ clock < web.ends /\ v = Resumed(web)
           \/ (web.status = "unpaid" \/ (web.status = "cancelled" /\ web.ends <= clock))
              /\ v = [web EXCEPT !.status = "expired"]
BY DEF WebMoves

LEMMA MoveSound ==
    ASSUME AccessInv, NEW v \in WebMoves(web)
    PROVE  /\ v \in Web /\ GoodWeb(v)
           /\ v.status \in Charging => web.status \in Charging \/ web.status = "cancelled"
<1>1. CASE web.status \in {"on_trial", "active"} /\ web.trialEnds <= clock /\ v = Paid(web)
    BY <1>1, WebIs, PaidSound DEF Charging
<1>2. CASE web.status = "active" /\ \E d \in {0, web.renews} : v = [web EXCEPT !.status = "past_due", !.renews = d]
    BY <1>2, WebIs, DatesOfClock DEF Web, Statuses, GoodWeb, Charging, AccessInv
<1>3. CASE web.status = "active" /\ \E m \in {"free", "void"} :
              v = [web EXCEPT !.status = "paused", !.mode = m, !.renews = 0]
    BY <1>3, WebIs, DatesOfClock DEF Web, Statuses, GoodWeb, Charging, AccessInv
<1>4. CASE web.status \in {"past_due", "paused"} /\ v = Paid(web)
    <2>1. web.trialEnds <= clock
        BY <1>4, WebIs DEF GoodWeb
    <2> QED BY <1>4, <2>1, WebIs, PaidSound DEF Charging
<1>5. CASE web.status = "past_due" /\ v = [web EXCEPT !.status = "unpaid"]
    BY <1>5, WebIs DEF Web, Statuses, GoodWeb, Charging
<1>6. CASE web.status \in Stoppable /\ v = Stopped(web)
    BY <1>6, StoppedSound DEF Charging
<1>7. CASE web.status = "cancelled" /\ clock < web.ends /\ v = Resumed(web)
    BY <1>7, ResumedSound
<1>8. CASE (web.status = "unpaid" \/ (web.status = "cancelled" /\ web.ends <= clock))
           /\ v = [web EXCEPT !.status = "expired"]
    BY <1>8, WebIs DEF Web, Statuses, GoodWeb, Charging
<1> QED BY <1>1, <1>2, <1>3, <1>4, <1>5, <1>6, <1>7, <1>8, MovesAre

\* What was cut off and charges now is owed a cancellation as before, or was taken up.
LEMMA GoesOnCharging ==
    ASSUME AccessInv, NEW v \in Web, NEW cut, WebBecomes(v, cut), subs["web"].tombstone,
           v.status \in Charging, web.status \in Charging \/ web.status = "cancelled"
    PROVE  resumed' \/ task \in {"pending", "dead_lettered"}
BY WebIs DEF WebBecomes, TakenUp, Charging

LEMMA WebChangesInv == ASSUME AccessInv, WebChanges PROVE AccessInv'
<1>1. Changes /\ apple' = apple /\ owned' = owned /\ task' = task /\ account' = account
    BY DEF WebChanges
<1>2. PICK v \in WebMoves(web) : WebBecomes(v, subs["web"].tombstone)
    BY DEF WebChanges
<1>3. v \in Web /\ GoodWeb(v) /\ (v.status \in Charging => web.status \in Charging \/ web.status = "cancelled")
    BY <1>2, MoveSound
<1>4. subs["web"].tombstone /\ v.status \in Charging => resumed' \/ task' \in {"pending", "dead_lettered"}
    BY <1>1, <1>2, <1>3, WebIs, GoesOnCharging
<1> QED BY <1>1, <1>2, <1>3, <1>4, WebIs, WebChangeInv

\* Whose product it is does not matter to the dates.
OfProduct(v, ours) == [v EXCEPT !.ours = ours]
LEMMA EitherProduct ==
    ASSUME NEW v \in Web, GoodWeb(v), NEW o \in BOOLEAN
    PROVE  OfProduct(v, o) \in Web /\ GoodWeb(OfProduct(v, o)) /\ OfProduct(v, o).status = v.status
BY DEF OfProduct, Web, GoodWeb

LEMMA WebBuysInv == ASSUME AccessInv, WebBuys PROVE AccessInv'
<1>1. Changes /\ task' = "none" /\ apple' = apple /\ owned' = owned
    BY DEF WebBuys
<1>2. PICK ours \in BOOLEAN, known \in BOOLEAN :
          IF TrialOffered("other")
          THEN /\ WebBecomes([NoWeb EXCEPT !.status = "on_trial", !.ours = ours,
                                          !.trialEnds = clock + TRIAL], FALSE)
               /\ account' = IF known THEN [account EXCEPT !.claim = clock + TRIAL] ELSE account
          ELSE WebBecomes([Paid(NoWeb) EXCEPT !.ours = ours], FALSE) /\ UNCHANGED account
    BY DEF WebBuys
<1>3. CASE TrialOffered("other")
    <2> DEFINE v == [NoWeb EXCEPT !.status = "on_trial", !.ours = ours, !.trialEnds = clock + TRIAL]
    <2>1. v = OfProduct([NoWeb EXCEPT !.status = "on_trial", !.trialEnds = clock + TRIAL], ours)
        BY DEF NoWeb, OfProduct
    <2>2. v \in Web /\ GoodWeb(v)
        <3>1. [NoWeb EXCEPT !.status = "on_trial", !.trialEnds = clock + TRIAL] \in Web
            BY DatesOfClock DEF NoWeb, Web, Statuses, AccessInv
        <3>2. GoodWeb([NoWeb EXCEPT !.status = "on_trial", !.trialEnds = clock + TRIAL])
            BY DatesOfClock, Constants DEF NoWeb, GoodWeb, AccessInv
        <3> QED BY <2>1, <3>1, <3>2, EitherProduct
    <2>3. account' \in Account
        BY <1>2, <1>3, WebIs, DatesOfClock DEF Account, AccessInv
    <2>4. WebBecomes(v, FALSE)
        BY <1>2, <1>3
    <2> HIDE DEF v
    <2> QED BY <1>1, <2>2, <2>3, <2>4, WebChangeInv DEF CancellationState
<1>4. CASE ~TrialOffered("other")
    <2> DEFINE v == [Paid(NoWeb) EXCEPT !.ours = ours]
    <2>1. v = OfProduct(Paid(NoWeb), ours)
        BY DEF OfProduct
    <2>2. NoWeb \in Web /\ NoWeb.trialEnds <= clock
        BY DatesOfClock DEF NoWeb, Web, Statuses, AccessInv
    <2>3. Paid(NoWeb) \in Web /\ GoodWeb(Paid(NoWeb))
        BY <2>2, PaidSound
    <2>4. v \in Web /\ GoodWeb(v)
        BY <2>1, <2>3, EitherProduct
    <2>5. account' \in Account /\ WebBecomes(v, FALSE)
        BY <1>2, <1>4, WebIs
    <2> HIDE DEF v
    <2> QED BY <1>1, <2>4, <2>5, WebChangeInv DEF CancellationState
<1> QED BY <1>3, <1>4

LEMMA CancelInv == ASSUME AccessInv, Cancel PROVE AccessInv'
<1>1. /\ Changes /\ web.status \in Stoppable
      /\ WebBecomes(Stopped(web), subs["web"].tombstone \/ subs["web"].status = "on_trial")
      /\ apple' = apple /\ owned' = owned /\ task' = task /\ account' = account
    BY DEF Cancel
<1>2. (subs["web"].tombstone \/ subs["web"].status = "on_trial") \in BOOLEAN
    OBVIOUS
<1> QED BY <1>1, <1>2, WebIs, StoppedSound, WebChangeInv DEF Charging

\* A cancellation is owed; the provider and the dates of the row stay.
LEMMA OwedInv ==
    ASSUME AccessInv, Changes, CanCancel, task' = "pending",
           subs' = [subs EXCEPT !["web"] = OwesCancel(@)], web' = web, resumed' = resumed, apple' = apple,
           account' = account, owned' \in [Licences -> {"none", "owned", "refunded"}],
           \A l \in {"apple", "sandbox"} : owned'[l] = owned[l]
    PROVE  AccessInv'
<1>1. clock' = clock
    BY DEF Changes
<1>2. subs \in [{"web", "apple"} -> Row] /\ subs["web"] \in Row
    BY DEF AccessInv, AccessTypeOK
<1>3. /\ OwesCancel(subs["web"]) \in Row
      /\ OwesCancel(subs["web"]) = [subs["web"] EXCEPT !.tombstone = OwesCancel(subs["web"]).tombstone]
    BY <1>2 DEF OwesCancel, Row, isLiveUnpaidTrial
<1>4. subs' \in [{"web", "apple"} -> Row] /\ subs'["apple"] = subs["apple"]
      /\ subs'["web"] = OwesCancel(subs["web"])
    BY <1>2, <1>3
<1>5. WebTrue'
    <2>1. WebTyped' /\ GoodWeb(web)'
        BY <1>1, <1>3, <1>4, WebIs DEF WebTyped, GoodWeb
    <2>2. Mirrored'
        BY <1>1, <1>2, <1>3, <1>4 DEF Mirrored, validUntilFrom, AccessInv, Row
    <2> QED BY <2>1, <2>2 DEF WebTrue
<1>6. AppleTrue'
    BY <1>1, <1>4, AppleStays
<1>7. Rest' /\ CutOffIsOwed'
    BY <1>4 DEF Rest, CutOffIsOwed, AccessInv, AccessTypeOK, CancellationState
<1> QED BY <1>4, <1>5, <1>6, <1>7, ChangesForget, Together

\* Nothing of either subscription changes.
LEMMA ElseInv ==
    ASSUME AccessInv, Changes, subs' = subs, web' = web, resumed' = resumed, apple' = apple,
           account' \in Account, owned' \in [Licences -> {"none", "owned", "refunded"}],
           \A l \in {"apple", "sandbox"} : owned'[l] = owned[l],
           task' \in CancellationState, task' = task \/ task' = "dead_lettered"
    PROVE  AccessInv'
<1>1. clock' = clock
    BY DEF Changes
<1>2. WebTrue' /\ AppleTrue'
    BY <1>1, WebStays, AppleStays
<1>3. Rest' /\ CutOffIsOwed'
    BY DEF Rest, CutOffIsOwed, AccessInv, AccessTypeOK
<1>4. subs' \in [{"web", "apple"} -> Row]
    BY DEF AccessInv, AccessTypeOK
<1> QED BY <1>2, <1>3, <1>4, ChangesForget, Together

LEMMA OwnedIs ==
    ASSUME AccessInv
    PROVE  /\ owned \in [Licences -> {"none", "owned", "refunded"}]
           /\ \A l \in {"apple", "sandbox"} : l # "web" /\ l \in Licences
BY DEF AccessInv, AccessTypeOK, Licences

LEMMA CancelOwedInv == ASSUME AccessInv, CancelOwed PROVE AccessInv'
BY OwedInv, OwnedIs DEF CancelOwed

LEMMA DrainedInv == ASSUME AccessInv, Drained PROVE AccessInv'
<1>1. /\ Changes /\ task = "pending"
      /\ apple' = apple /\ owned' = owned /\ account' = account
    BY DEF Drained
<1>2. CASE /\ task' = "settled" /\ web.status \in Stoppable
           /\ WebBecomes(Stopped(web), subs["web"].tombstone)
    BY <1>1, <1>2, WebIs, StoppedSound, WebChangeInv DEF Charging, CancellationState
<1>3. CASE task' = "settled" /\ web.status \notin Stoppable /\ web' = web /\ subs' = subs
           /\ resumed' = resumed
    <2>1. clock' = clock
        BY <1>1 DEF Changes
    <2>2. WebTrue' /\ AppleTrue'
        BY <1>1, <1>3, <2>1, WebStays, AppleStays
    <2>3. Rest' /\ CutOffIsOwed'
        BY <1>1, <1>3 DEF Rest, CutOffIsOwed, AccessInv, AccessTypeOK, CancellationState, Charging, Stoppable
    <2>4. subs' \in [{"web", "apple"} -> Row]
        BY <1>3 DEF AccessInv, AccessTypeOK
    <2> QED BY <1>1, <2>2, <2>3, <2>4, ChangesForget, Together
<1>4. CASE task' = "dead_lettered" /\ web' = web /\ resumed' = resumed /\ subs' = subs
    BY <1>1, <1>4, ElseInv, OwnedIs, WebIs DEF CancellationState
<1> QED BY <1>2, <1>3, <1>4 DEF Drained

LEMMA EndTrialInv == ASSUME AccessInv, EndTrial PROVE AccessInv'
<1> DEFINE v == [Paid(web) EXCEPT !.trialEnds = clock]
<1>1. /\ Changes /\ web.status = "on_trial" /\ WebBecomes(v, subs["web"].tombstone)
      /\ apple' = apple /\ owned' = owned /\ task' = task /\ account' = account
    BY DEF EndTrial
<1>2. v \in Web /\ v.status = "active" /\ v.trialEnds = clock
    BY WebIs, DatesOfClock DEF Paid, Web, Statuses, AccessInv
<1>3. GoodWeb(v)
    BY <1>2, WebIs DEF GoodWeb
<1> HIDE DEF v
<1>4. subs["web"].tombstone => resumed' \/ task' \in {"pending", "dead_lettered"}
    BY <1>1, <1>2, GoesOnCharging DEF Charging
<1> QED BY <1>1, <1>2, <1>3, <1>4, WebIs, WebChangeInv

LEMMA ReactivateInv == ASSUME AccessInv, Reactivate PROVE AccessInv'
<1>1. /\ Changes /\ web.status = "cancelled" /\ clock < web.ends
      /\ WebBecomes(Resumed(web), subs["web"].tombstone)
      /\ apple' = apple /\ owned' = owned /\ task' = task /\ account' = account
    BY DEF Reactivate
<1>2. subs["web"].tombstone => resumed' \/ task' \in {"pending", "dead_lettered"}
    BY <1>1, ResumedSound, GoesOnCharging DEF Charging
<1> QED BY <1>1, <1>2, WebIs, ResumedSound, WebChangeInv

LEMMA ChangePlanInv == ASSUME AccessInv, ChangePlan PROVE AccessInv'
<1>1. /\ Changes /\ web.status \in {"active", "past_due"}
      /\ apple' = apple /\ owned' = owned /\ task' = task /\ account' = account
    BY DEF ChangePlan
<1>2. PICK p \in {web, Paid(web)} : WebBecomes([p EXCEPT !.ours = TRUE], subs["web"].tombstone)
    BY DEF ChangePlan
<1>3. web.trialEnds <= clock
    BY <1>1, WebIs DEF GoodWeb
<1>4. p \in Web /\ GoodWeb(p) /\ p.status \in {"active", "past_due"}
    BY <1>1, <1>3, WebIs, PaidSound
<1> DEFINE v == [p EXCEPT !.ours = TRUE]
<1>5. v \in Web /\ GoodWeb(v) /\ v.status \in {"active", "past_due"}
    BY <1>4 DEF Web, GoodWeb
<1>6. WebBecomes(v, subs["web"].tombstone)
    BY <1>2
<1> HIDE DEF v
<1>7. subs["web"].tombstone => resumed' \/ task' \in {"pending", "dead_lettered"}
    BY <1>1, <1>5, <1>6, GoesOnCharging DEF Charging
<1> QED BY <1>1, <1>5, <1>6, <1>7, WebIs, WebChangeInv

LEMMA WebOrderInv == ASSUME AccessInv, WebOrder PROVE AccessInv'
<1>1. /\ Changes /\ owned' = [owned EXCEPT !["web"] = "owned"]
      /\ web' = web /\ resumed' = resumed /\ apple' = apple /\ account' = account
    BY DEF WebOrder
<1>2. /\ owned' \in [Licences -> {"none", "owned", "refunded"}]
      /\ \A l \in {"apple", "sandbox"} : owned'[l] = owned[l]
    BY <1>1, OwnedIs
<1>3. CASE CanCancel /\ task' = "pending" /\ subs' = [subs EXCEPT !["web"] = OwesCancel(@)]
    BY <1>1, <1>2, <1>3, OwedInv
<1>4. CASE task' = task /\ subs' = subs
    BY <1>1, <1>2, <1>4, ElseInv, WebIs
<1> QED BY <1>3, <1>4 DEF WebOrder

LEMMA WebRefundInv == ASSUME AccessInv, WebRefund PROVE AccessInv'
<1>1. /\ Changes /\ owned' = [owned EXCEPT !["web"] = "refunded"]
      /\ web' = web /\ resumed' = resumed /\ apple' = apple /\ account' = account /\ subs' = subs
      /\ task' = task
    BY DEF WebRefund
<1>2. /\ owned' \in [Licences -> {"none", "owned", "refunded"}]
      /\ \A l \in {"apple", "sandbox"} : owned'[l] = owned[l]
    BY <1>1, OwnedIs
<1> QED BY <1>1, <1>2, ElseInv, WebIs

-----------------------------------------------------------------------------
(* Apple *)

LEMMA SnapshotRow ==
    ASSUME AccessInv, NEW a \in Apple
    PROVE  /\ effectiveEnd(a) \in Dates /\ effectiveEnd(a) >= a.expires
           /\ AppleRow(a) \in Row
           /\ AppleRow(a).status # "cancelled" /\ ~AppleRow(a).tombstone
           /\ a.expires > clock /\ ~a.refunded =>
                /\ LiveSubElsewhere(a)
                /\ AppleRow(a).status \in {"past_due", "on_trial", "active"}
                /\ AppleRow(a).ours /\ AppleRow(a).until = effectiveEnd(a)
<1>1. /\ a.expires \in Dates /\ a.grace \in Dates /\ a.trial \in BOOLEAN
      /\ a.expires \in Nat /\ a.grace \in Nat
    BY DEF Apple, Dates
<1>2. effectiveEnd(a) = IF a.expires >= a.grace THEN a.expires ELSE a.grace
    BY <1>1, MaxOfTwo DEF effectiveEnd
<1>3. effectiveEnd(a) \in Dates /\ effectiveEnd(a) >= a.expires /\ effectiveEnd(a) \in Nat
    BY <1>1, <1>2
<1>4. /\ statusForSubscription(a) \in {"expired", "past_due", "on_trial", "active"}
      /\ ~a.refunded /\ effectiveEnd(a) > clock => statusForSubscription(a) # "expired"
    BY <1>3, WebIs DEF statusForSubscription
<1>5. CASE a.expires = 0
    BY <1>3, <1>5, DatesOfClock DEF AppleRow, NoRow, Row, Statuses, AccessInv
<1>6. CASE a.expires # 0
    <2> DEFINE r == [NoRow EXCEPT !.status = statusForSubscription(a), !.until = effectiveEnd(a),
                                  !.heard = clock, !.trialEnds = IF a.trial THEN effectiveEnd(a) ELSE 0]
    <2>1. AppleRow(a) = r
        BY <1>6 DEF AppleRow
    <2>2. clock \in Dates /\ 0 \in Dates /\ clock \in Nat
        BY DatesOfClock DEF AccessInv
    <2>3. NoRow \in Row /\ NoRow.ours /\ ~NoRow.tombstone
        BY <2>2 DEF NoRow, Row, Statuses
    <2> DEFINE ends == IF a.trial THEN effectiveEnd(a) ELSE 0
    <2>4. ends \in Dates /\ statusForSubscription(a) \in Statuses
        BY <1>3, <1>4, <2>2 DEF Statuses
    <2>5. r = [NoRow EXCEPT !.status = statusForSubscription(a), !.until = effectiveEnd(a),
                            !.heard = clock, !.trialEnds = ends]
        OBVIOUS
    <2> HIDE DEF r, ends
    <2>6. r \in Row /\ r.status = statusForSubscription(a) /\ ~r.tombstone /\ r.ours
          /\ r.until = effectiveEnd(a)
        BY <1>3, <2>2, <2>3, <2>4, <2>5 DEF Row
    <2>7. AppleRow(a) \in Row /\ AppleRow(a).status # "cancelled" /\ ~AppleRow(a).tombstone
          /\ AppleRow(a).ours /\ AppleRow(a).until = effectiveEnd(a)
          /\ AppleRow(a).status = statusForSubscription(a)
        BY <1>4, <2>1, <2>6
    <2>8. a.expires > clock /\ ~a.refunded => statusForSubscription(a) # "expired"
        BY <1>1, <1>3, <1>4, <2>2
    <2> QED BY <1>3, <1>4, <1>6, <2>7, <2>8 DEF LiveSubElsewhere
<1> QED BY <1>5, <1>6

LEMMA SyncInv ==
    ASSUME AccessInv, Changes, NEW a \in Apple, a.expires < NoEnd, Sync(a),
           web' = web, resumed' = resumed, task' = task, account' = account
    PROVE  AccessInv'
<1>1. clock' = clock
    BY DEF Changes
<1>2. /\ apple' = a /\ subs' = [subs EXCEPT !["apple"] = AppleRow(a)]
      /\ owned' = [l \in Licences |-> IF l = "web" THEN owned[l] ELSE LifetimeRow(a, l, owned[l])]
    BY DEF Sync
<1>3. /\ subs \in [{"web", "apple"} -> Row]
      /\ owned \in [Licences -> {"none", "owned", "refunded"}]
    BY DEF AccessInv, AccessTypeOK
<1>4. /\ subs' \in [{"web", "apple"} -> Row] /\ subs'["web"] = subs["web"]
      /\ subs'["apple"] = AppleRow(a)
    BY <1>2, <1>3, SnapshotRow
<1>5. owned' \in [Licences -> {"none", "owned", "refunded"}]
    BY <1>2, <1>3 DEF LifetimeRow
<1>6. WebTrue'
    BY <1>1, <1>4, WebStays
<1>7. AppleTrue'
    <2>1. AppleTyped'
        BY <1>2, <1>4, SnapshotRow DEF AppleTyped
    <2>2. AppleTold'
        <3> SUFFICES ASSUME a.expires > clock, ~a.refunded
                     PROVE  /\ subs'["apple"].status \in {"past_due", "on_trial", "active"}
                            /\ subs'["apple"].ours /\ subs'["apple"].until = effectiveEnd(a)
                            /\ \A l \in a.life : owned'[l] = IF l \in a.taken THEN "refunded" ELSE "owned"
            BY <1>1, <1>2 DEF AppleTold, effectiveEnd
        <3>1. LiveSubElsewhere(a)
            BY SnapshotRow
        <3>2. ASSUME NEW l \in a.life PROVE owned'[l] = IF l \in a.taken THEN "refunded" ELSE "owned"
            <4>1. l \in Licences /\ l # "web"
                BY DEF Apple, Licences
            <4> QED BY <1>2, <3>1, <3>2, <4>1 DEF LifetimeRow, Taken
        <3> QED BY <1>4, <3>2, SnapshotRow
    <2> QED BY <2>1, <2>2 DEF AppleTrue
<1>8. Rest' /\ CutOffIsOwed'
    BY <1>4, <1>5 DEF Rest, CutOffIsOwed, AccessInv, AccessTypeOK
<1> QED BY <1>4, <1>6, <1>7, <1>8, ChangesForget, Together

LEMMA AppleMovesAre ==
    ASSUME AccessInv, NEW a \in AppleMoves(apple)
    PROVE  \/ a = [apple EXCEPT !.expires = clock + TRIAL, !.trial = TRUE, !.grace = 0,
                                !.unsubscribed = FALSE, !.refunded = FALSE]
              /\ (apple.expires <= clock \/ apple.refunded)
           \/ a = [apple EXCEPT !.expires = clock + PERIOD, !.trial = FALSE, !.grace = 0,
                                !.unsubscribed = FALSE, !.refunded = FALSE]
              /\ (apple.expires <= clock \/ apple.refunded)
           \/ a = [apple EXCEPT !.grace = apple.expires + 1] /\ apple.grace = 0
           \/ a = [apple EXCEPT !.refunded = TRUE]
           \/ \E l \in {"apple", "sandbox"} \ (apple.life \ apple.taken) :
                 a = [apple EXCEPT !.life = @ \union {l}, !.taken = @ \ {l}, !.dropped = FALSE]
           \/ \E l \in apple.life \ apple.taken : a = [apple EXCEPT !.taken = @ \union {l}]
           \/ a = [apple EXCEPT !.dropped = TRUE]
BY DEF AppleMoves

LEMMA AppleIs ==
    ASSUME AccessInv
    PROVE  /\ apple \in Apple /\ apple.expires < NoEnd /\ apple.expires \in Nat /\ apple.grace \in Dates
           /\ apple.life \subseteq {"apple", "sandbox"} /\ apple.taken \subseteq {"apple", "sandbox"}
           /\ apple.unsubscribed \in BOOLEAN
BY DEF AccessInv, AccessTypeOK, Apple, Dates

LEMMA AppleMoveTyped ==
    ASSUME AccessInv, NEW a \in AppleMoves(apple)
    PROVE  a \in Apple /\ a.expires < NoEnd
<1>1. /\ clock + TRIAL \in Dates /\ clock + TRIAL < NoEnd
      /\ clock + PERIOD \in Dates /\ clock + PERIOD < NoEnd /\ 0 \in Dates
    BY DatesOfClock, Constants DEF AccessInv, NoEnd, Dates
<1>2. apple.expires + 1 \in Dates
    BY AppleIs, Constants DEF Dates
<1>3. CASE a = [apple EXCEPT !.expires = clock + TRIAL, !.trial = TRUE, !.grace = 0,
                                !.unsubscribed = FALSE, !.refunded = FALSE]
    BY <1>1, <1>3, AppleIs DEF Apple
<1>4. CASE a = [apple EXCEPT !.expires = clock + PERIOD, !.trial = FALSE, !.grace = 0,
                                !.unsubscribed = FALSE, !.refunded = FALSE]
    BY <1>1, <1>4, AppleIs DEF Apple
<1>5. CASE a = [apple EXCEPT !.grace = apple.expires + 1]
    BY <1>2, <1>5, AppleIs DEF Apple
<1>6. CASE a = [apple EXCEPT !.refunded = TRUE] \/ a = [apple EXCEPT !.dropped = TRUE]
    BY <1>6, AppleIs DEF Apple
<1>7. CASE \E l \in {"apple", "sandbox"} \ (apple.life \ apple.taken) :
              a = [apple EXCEPT !.life = @ \union {l}, !.taken = @ \ {l}, !.dropped = FALSE]
    <2>1. PICK l \in {"apple", "sandbox"} :
              a = [apple EXCEPT !.life = @ \union {l}, !.taken = @ \ {l}, !.dropped = FALSE]
        BY <1>7
    <2>2. apple.life \union {l} \in SUBSET {"apple", "sandbox"} /\ apple.taken \ {l} \in SUBSET {"apple", "sandbox"}
        BY AppleIs
    <2> QED BY <2>1, <2>2, AppleIs DEF Apple
<1>8. CASE \E l \in apple.life \ apple.taken : a = [apple EXCEPT !.taken = @ \union {l}]
    <2>1. PICK l \in apple.life : a = [apple EXCEPT !.taken = @ \union {l}]
        BY <1>8
    <2>2. apple.taken \union {l} \in SUBSET {"apple", "sandbox"}
        BY AppleIs
    <2> QED BY <2>1, <2>2, AppleIs DEF Apple
<1> QED BY <1>3, <1>4, <1>5, <1>6, <1>7, <1>8, AppleMovesAre

LEMMA AppleChangesInv == ASSUME AccessInv, AppleChanges PROVE AccessInv'
<1>1. Changes /\ web' = web /\ resumed' = resumed /\ task' = task /\ account' = account
    BY DEF AppleChanges
<1>2. PICK a \in AppleMoves(apple) \union {apple} : Sync(a)
    BY DEF AppleChanges
<1>3. a \in Apple /\ a.expires < NoEnd
    BY <1>2, AppleMoveTyped, AppleIs
<1> QED BY <1>1, <1>2, <1>3, SyncInv

Toggled == [apple EXCEPT !.unsubscribed = ~@]

LEMMA ToggledIs ==
    ASSUME AccessInv
    PROVE  /\ Toggled \in Apple /\ Toggled.expires = apple.expires /\ Toggled.refunded = apple.refunded
           /\ Toggled.life = apple.life /\ Toggled.taken = apple.taken /\ Toggled.grace = apple.grace
           /\ Toggled.dropped = apple.dropped /\ Toggled.trial = apple.trial
           /\ Toggled.unsubscribed # apple.unsubscribed
BY AppleIs DEF Toggled, Apple

LEMMA ToggleInv == ASSUME AccessInv, ToggleAutoRenew PROVE AccessInv'
<1>1. Changes /\ web' = web /\ resumed' = resumed /\ task' = task /\ account' = account /\ Sync(Toggled)
    BY DEF ToggleAutoRenew, Toggled
<1> QED BY <1>1, ToggledIs, AppleIs, SyncInv

-----------------------------------------------------------------------------
(* The account, the lease, the clock *)

LEMMA AccountInv ==
    ASSUME AccessInv, NEW a \in Account, AccountBecomes(a)
    PROVE  AccessInv'
<1>1. Changes /\ account' = a /\ web' = web /\ resumed' = resumed /\ apple' = apple /\ subs' = subs /\ owned' = owned
      /\ task' = task
    BY DEF AccountBecomes
<1> QED BY <1>1, ElseInv, OwnedIs, WebIs

LEMMA AccountActionsInv ==
    ASSUME AccessInv,
           Comp \/ WithdrawComp \/ Revoke \/ ClaimTrial \/ TrialReset \/ ListTester
    PROVE  AccessInv'
<1>1. /\ account \in Account /\ clock + 1 \in Dates /\ NoEnd \in Dates /\ 0 \in Dates
      /\ clock + TRIAL \in Dates
    BY DatesOfClock DEF AccessInv, AccessTypeOK
<1>2. CASE Comp
    <2>1. PICK until \in {clock + 1, NoEnd} : AccountBecomes([account EXCEPT !.comp = until])
        BY <1>2 DEF Comp
    <2>2. [account EXCEPT !.comp = until] \in Account
        BY <1>1 DEF Account
    <2> QED BY <2>1, <2>2, AccountInv
<1>3. CASE WithdrawComp
    <2>1. [account EXCEPT !.comp = 0] \in Account
        BY <1>1 DEF Account
    <2> QED BY <1>3, <2>1, AccountInv DEF WithdrawComp
<1>4. CASE Revoke
    <2>1. [account EXCEPT !.revoked = ~@] \in Account
        BY <1>1 DEF Account
    <2> QED BY <1>4, <2>1, AccountInv DEF Revoke
<1>5. CASE ClaimTrial
    <2>1. [account EXCEPT !.claim = clock + TRIAL] \in Account
        BY <1>1 DEF Account
    <2> QED BY <1>5, <2>1, AccountInv DEF ClaimTrial
<1>6. CASE TrialReset
    <2>1. [account EXCEPT !.claim = 0] \in Account
        BY <1>1 DEF Account
    <2> QED BY <1>6, <2>1, AccountInv DEF TrialReset
<1>7. CASE ListTester
    <2>1. [account EXCEPT !.tester = ~@] \in Account
        BY <1>1 DEF Account
    <2> QED BY <1>7, <2>1, AccountInv DEF ListTester
<1> QED BY <1>2, <1>3, <1>4, <1>5, <1>6, <1>7

LEMMA GrantersAre ==
    ASSUME AccessInv, NEW t
    PROVE  /\ Granters(t) \subseteq {"web", "apple"} /\ DOMAIN subs = {"web", "apple"}
           /\ \A p \in {"web", "apple"} :
                 /\ subs[p] \in Row /\ subs[p].heard \in Nat /\ subs[p].until \in Nat
                 /\ subs[p].trialEnds \in Nat
                 /\ subscriptionGrantsUntil(subs[p]) \in Nat
<1>1. DOMAIN subs = {"web", "apple"} /\ \A p \in {"web", "apple"} : subs[p] \in Row
    BY DEF AccessInv, AccessTypeOK
<1>2. \A p \in {"web", "apple"} :
         subs[p].heard \in Nat /\ subs[p].until \in Nat /\ subs[p].trialEnds \in Nat
    BY <1>1 DEF Row, Dates
<1> QED BY <1>1, <1>2, Constants DEF Granters, subscriptionGrantsUntil

\* The boundary of access that comes from subscriptions is the latest of theirs.
LEMMA LatestGranter ==
    ASSUME AccessInv, NEW t, Granters(t) # {}
    PROVE  LET ends == {subscriptionGrantsUntil(subs[p]) : p \in Granters(t)}
           IN  /\ \E p \in Granters(t) : Max(ends) = subscriptionGrantsUntil(subs[p])
               /\ \A p \in Granters(t) : subscriptionGrantsUntil(subs[p]) <= Max(ends)
<1> DEFINE ends == {subscriptionGrantsUntil(subs[p]) : p \in Granters(t)}
           w == subscriptionGrantsUntil(subs["web"])
           a == subscriptionGrantsUntil(subs["apple"])
<1>1. w \in Nat /\ a \in Nat
    BY GrantersAre
<1>2. Granters(t) = {"web"} \/ Granters(t) = {"apple"} \/ Granters(t) = {"web", "apple"}
    BY GrantersAre
<1>3. CASE Granters(t) = {"web"}
    <2>1. ends = {w, w}
        BY <1>3
    <2>2. Max(ends) = w
        BY <1>1, <2>1, MaxOfTwo
    <2> QED BY <1>1, <1>3, <2>2
<1>4. CASE Granters(t) = {"apple"}
    <2>1. ends = {a, a}
        BY <1>4
    <2>2. Max(ends) = a
        BY <1>1, <2>1, MaxOfTwo
    <2> QED BY <1>1, <1>4, <2>2
<1>5. CASE Granters(t) = {"web", "apple"}
    <2>1. ends = {w, a}
        BY <1>5
    <2>2. Max(ends) = IF w >= a THEN w ELSE a
        BY <1>1, <2>1, MaxOfTwo
    <2> QED BY <1>1, <1>5, <2>2
<1> QED BY <1>2, <1>3, <1>4, <1>5

LEMMA AccountIs ==
    ASSUME AccessInv
    PROVE  account.comp \in Nat /\ account.claim \in Nat /\ clock \in Nat /\ account.revoked \in BOOLEAN
BY WebIs DEF Account, Dates

\* Where the boundary of access comes from.
LEMMA Boundary ==
    ASSUME AccessInv, NEW on \in Platforms, Pro(on, clock)
    PROVE  /\ AccessNotAfter(on, clock) \in Nat
           /\ \/ (Lifetime \/ Gifted(on)) /\ AccessNotAfter(on, clock) = NoEnd
              \/ /\ \E p \in Granters(clock) : AccessNotAfter(on, clock) = subscriptionGrantsUntil(subs[p])
                 /\ \A p \in Granters(clock) : subscriptionGrantsUntil(subs[p]) <= AccessNotAfter(on, clock)
              \/ CompActive(clock) /\ AccessNotAfter(on, clock) = account.comp
              \/ TrialActive(clock) /\ AccessNotAfter(on, clock) = account.claim
<1>1. CASE Lifetime \/ Gifted(on)
    BY <1>1, Constants DEF AccessNotAfter
<1>2. CASE ~(Lifetime \/ Gifted(on)) /\ Granters(clock) # {}
    <2>1. AccessNotAfter(on, clock) = Max({subscriptionGrantsUntil(subs[p]) : p \in Granters(clock)})
        BY <1>2 DEF AccessNotAfter
    <2>2. \A p \in Granters(clock) : subscriptionGrantsUntil(subs[p]) \in Nat
        BY GrantersAre
    <2> QED BY <1>2, <2>1, <2>2, LatestGranter
<1>3. CASE ~(Lifetime \/ Gifted(on)) /\ Granters(clock) = {}
    <2>1. AccessNotAfter(on, clock) = IF CompActive(clock) THEN account.comp ELSE account.claim
        BY <1>3 DEF AccessNotAfter
    <2>2. CompActive(clock) \/ TrialActive(clock)
        BY <1>3 DEF Pro
    <2> QED BY <2>1, <2>2, AccountIs
<1> QED BY <1>1, <1>2, <1>3

LEMMA Expiry ==
    ASSUME AccessInv, NEW on \in Platforms, Pro(on, clock)
    PROVE  /\ expiryFor(on, clock) \in Dates
           /\ expiryFor(on, clock) <= AccessNotAfter(on, clock)
           /\ AccessNotAfter(on, clock) > clock => expiryFor(on, clock) > clock
<1> DEFINE rope == IF Trialing(on, clock) THEN TRIALROPE ELSE ROPE
<1>1. rope \in Nat /\ rope > 0 /\ clock + rope < NoEnd /\ clock \in Nat
    BY Constants, DatesOfClock DEF NoEnd, AccessInv
<1>2. expiryFor(on, clock) = Least(clock + rope, AccessNotAfter(on, clock))
    BY DEF expiryFor
<1>3. AccessNotAfter(on, clock) \in Nat
    BY Boundary
<1> HIDE DEF rope
<1> QED BY <1>1, <1>2, <1>3, Constants DEF Least, Dates

LEMMA ResolveInv == ASSUME AccessInv, NEW on \in Platforms, Resolve(on) PROVE AccessInv'
<1>1. /\ lease' = [on |-> on, pro |-> Pro(on, clock),
                   expires |-> IF Pro(on, clock) THEN expiryFor(on, clock) ELSE 0]
      /\ cached' = Pro("other", clock)
      /\ clock' = clock /\ changes' = changes /\ web' = web /\ apple' = apple /\ subs' = subs
      /\ owned' = owned /\ task' = task /\ account' = account /\ resumed' = resumed
    BY DEF Resolve, rows
<1>2. Pro(on, clock) \in BOOLEAN /\ Pro("other", clock) \in BOOLEAN
    BY DEF Pro
<1>3. lease'.on = on /\ lease'.pro = Pro(on, clock)
      /\ lease'.expires = IF Pro(on, clock) THEN expiryFor(on, clock) ELSE 0
    BY <1>1
<1>4. LeaseTyped'
    <2>1. (IF Pro(on, clock) THEN expiryFor(on, clock) ELSE 0) \in Dates
        BY Expiry, DatesOfClock DEF AccessInv
    <2> QED BY <1>1, <1>2, <2>1 DEF LeaseTyped
<1>5. LeaseFounded'
    <2> SUFFICES ASSUME Pro(on, clock)
                 PROVE  /\ ~account.revoked
                        /\ \/ Lifetime \/ Gifted(on)
                           \/ expiryFor(on, clock) <= account.comp
                           \/ expiryFor(on, clock) <= account.claim
                           \/ \E p \in DOMAIN subs :
                                 /\ Entitled(subs[p])
                                 /\ expiryFor(on, clock) <= subscriptionGrantsUntil(subs[p])
        BY <1>1, <1>3 DEF LeaseFounded, Lifetime, Visible, Gifted, Entitled, subscriptionGrantsUntil,
           variantIsSellable
    <2>1. expiryFor(on, clock) \in Nat /\ expiryFor(on, clock) <= AccessNotAfter(on, clock)
        BY Expiry DEF Dates
    <2>2. ~account.revoked
        BY DEF Pro
    <2>3. CASE \E p \in Granters(clock) : AccessNotAfter(on, clock) = subscriptionGrantsUntil(subs[p])
        <3>1. PICK p \in Granters(clock) : AccessNotAfter(on, clock) = subscriptionGrantsUntil(subs[p])
            BY <2>3
        <3>2. p \in DOMAIN subs /\ subscriptionGrants(subs[p], clock)
            BY DEF Granters
        <3>3. Entitled(subs[p])
            BY <3>2 DEF subscriptionGrants, Entitled
        <3> QED BY <2>1, <2>2, <3>1, <3>2, <3>3
    <2> QED BY <2>1, <2>2, <2>3, Boundary
<1>6. WebTrue' /\ AppleTrue'
    BY <1>1, WebStays, AppleStays
<1>7. Rest' /\ CutOffIsOwed' /\ subs' \in [{"web", "apple"} -> Row] /\ clock' \in 1..AccessHorizon
      /\ changes' \in 0..MaxChanges
    BY <1>1 DEF Rest, CutOffIsOwed, AccessInv, AccessTypeOK
<1> QED BY <1>1, <1>2, <1>4, <1>5, <1>6, <1>7, Together

LEMMA TickInv == ASSUME AccessInv, AccessTick PROVE AccessInv'
<1>1. /\ clock' = clock + 1 /\ clock < AccessHorizon /\ clock \in Nat /\ clock > 0
      /\ web' = web /\ apple' = apple /\ subs' = subs /\ owned' = owned /\ task' = task
      /\ account' = account /\ lease' = lease /\ cached' = cached /\ changes' = changes
      /\ resumed' = resumed
    BY WebIs, DatesOfClock DEF AccessTick, rows, AccessInv
<1>2. WebTrue'
    <2>1. GoodWeb(web)'
        BY <1>1, WebIs DEF GoodWeb
    <2>2. Mirrored'
        BY <1>1, GrantersAre DEF Mirrored, AccessInv, validUntilFrom
    <2>3. WebTyped'
        BY <1>1 DEF WebTyped, AccessInv, AccessTypeOK
    <2> QED BY <2>1, <2>2, <2>3 DEF WebTrue
<1>3. AppleTrue'
    <2>1. AppleTold'
        BY <1>1, AppleIs DEF AppleTold, effectiveEnd, AccessInv
    <2> QED BY <1>1, <2>1 DEF AppleTrue, AppleTyped, AccessInv, AccessTypeOK
<1>4. LeaseFounded'
    <2>1. \A p \in DOMAIN subs : Entitled(subs[p]) => Entitled(subs[p])'
        BY <1>1, GrantersAre DEF Entitled, variantIsSellable
    <2> QED BY <1>1, <2>1 DEF LeaseFounded, AccessInv, Lifetime, Visible, Gifted, subscriptionGrantsUntil
<1>5. Rest' /\ CutOffIsOwed' /\ subs' \in [{"web", "apple"} -> Row] /\ clock' \in 1..AccessHorizon
      /\ changes' \in 0..MaxChanges /\ LeaseTyped' /\ cached' \in BOOLEAN
    BY <1>1, Constants DEF Rest, CutOffIsOwed, AccessInv, AccessTypeOK, LeaseTyped
<1> QED BY <1>2, <1>3, <1>4, <1>5, Together

LEMMA StutterInv == ASSUME AccessInv, UNCHANGED accessVars PROVE AccessInv'
<1>1. /\ clock' = clock /\ web' = web /\ apple' = apple /\ subs' = subs /\ owned' = owned /\ task' = task
      /\ account' = account /\ lease' = lease /\ cached' = cached /\ changes' = changes
      /\ resumed' = resumed
    BY DEF accessVars, rows
<1>2. WebTrue' /\ AppleTrue'
    BY <1>1, WebStays, AppleStays
<1>3. LeaseFounded'
    BY <1>1 DEF LeaseFounded, AccessInv, Lifetime, Visible, Gifted, subscriptionGrantsUntil,
       Entitled, variantIsSellable
<1>4. Rest' /\ CutOffIsOwed' /\ subs' \in [{"web", "apple"} -> Row] /\ clock' \in 1..AccessHorizon
      /\ changes' \in 0..MaxChanges /\ LeaseTyped' /\ cached' \in BOOLEAN
    BY <1>1 DEF Rest, CutOffIsOwed, AccessInv, AccessTypeOK, LeaseTyped
<1> QED BY <1>2, <1>3, <1>4, Together

LEMMA StartAccess == ASSUME AccessInit PROVE AccessInv
<1>1. 0 \in Dates /\ 1 \in 1..AccessHorizon /\ 0 \in 0..MaxChanges /\ 0 < NoEnd
    BY Constants DEF Dates, NoEnd
<1>2. NoWeb \in Web /\ NoApple \in Apple /\ NoRow \in Row
    BY <1>1 DEF NoWeb, Web, NoApple, Apple, NoRow, Row, Statuses
<1>3. NoLease \in [on : Platforms, pro : BOOLEAN, expires : Dates]
    BY <1>1 DEF NoLease, Platforms
<1>4. account \in Account
    BY <1>1 DEF AccessInit, Account
<1>5. /\ clock = 1 /\ changes = 0 /\ web = NoWeb /\ apple = NoApple /\ task = "none"
      /\ subs = [p \in {"web", "apple"} |-> NoRow] /\ owned = [l \in Licences |-> "none"]
      /\ lease = NoLease /\ cached = FALSE /\ resumed = FALSE
    BY DEF AccessInit
<1>6. AccessTypeOK
    BY <1>1, <1>2, <1>3, <1>4, <1>5 DEF AccessTypeOK, CancellationState, NoRow
<1>7. GoodWeb(web) /\ Mirrored /\ CutOffIsOwed
    <2>1. subs["web"] = NoRow
        BY <1>5
    <2>2. GoodWeb(web)
        BY <1>5 DEF GoodWeb, NoWeb
    <2>3. Mirrored
        <3>1. validUntilFrom(NoWeb) = 0
            BY DEF validUntilFrom, NoWeb
        <3>2. web = NoWeb /\ clock = 1
            BY <1>5
        <3>3. NoRow.until = validUntilFrom(NoWeb) /\ NoRow.heard <= 1
            BY <3>1 DEF NoRow
        <3>4. /\ NoRow.status = NoWeb.status /\ NoRow.mode = NoWeb.mode /\ NoRow.ours = NoWeb.ours
              /\ NoRow.trialEnds = NoWeb.trialEnds
            BY DEF NoRow, NoWeb
        <3> QED BY <2>1, <3>2, <3>3, <3>4 DEF Mirrored
    <2> QED BY <2>1, <2>2, <2>3 DEF CutOffIsOwed, NoRow
<1>8. apple.expires < NoEnd /\ AppleTold
    BY <1>1, <1>5 DEF AppleTold, NoApple
<1>9. LeaseFounded
    BY <1>5 DEF LeaseFounded, NoLease
<1> QED BY <1>6, <1>7, <1>8, <1>9 DEF AccessInv

LEMMA StepAccess == ASSUME AccessInv, [AccessNext]_accessVars PROVE AccessInv'
<1>1. CASE WebChanges \/ WebBuys \/ Cancel \/ CancelOwed \/ Drained \/ EndTrial \/ Reactivate \/ ChangePlan
    BY <1>1, WebChangesInv, WebBuysInv, CancelInv, CancelOwedInv, DrainedInv, EndTrialInv,
       ReactivateInv, ChangePlanInv
<1>2. CASE WebOrder \/ WebRefund \/ AppleChanges \/ ToggleAutoRenew
    BY <1>2, WebOrderInv, WebRefundInv, AppleChangesInv, ToggleInv
<1>3. CASE Comp \/ WithdrawComp \/ Revoke \/ ClaimTrial \/ TrialReset \/ ListTester
    BY <1>3, AccountActionsInv
<1>4. CASE \E on \in Platforms : Resolve(on)
    BY <1>4, ResolveInv
<1>5. CASE AccessTick
    BY <1>5, TickInv
<1>6. CASE UNCHANGED accessVars
    BY <1>6, StutterInv
<1> QED BY <1>1, <1>2, <1>3, <1>4, <1>5, <1>6 DEF AccessNext

\* The invariant of an account's access holds of every state.
THEOREM AccessInvHolds == AccessSpec => []AccessInv
<1>1. AccessInit => AccessInv
    BY StartAccess
<1>2. AccessInv /\ [AccessNext]_accessVars => AccessInv'
    BY StepAccess
<1> QED BY <1>1, <1>2, PTL DEF AccessSpec

\* Type correctness: the dates stay dates, and no Apple row is cancelled or cut off.
THEOREM AccessTypeCorrect == AccessSpec => []AccessTypeOK
<1>1. AccessInv => AccessTypeOK
    BY DEF AccessInv
<1> QED BY <1>1, AccessInvHolds, PTL

-----------------------------------------------------------------------------
(* The lease *)

\* A lease that runs never says more than the server would, and who has access
\* gets one that runs, for any lengths of period, trial, grace and lease.
THEOREM LeaseIsTrueHolds == AccessSpec => []LeaseIsTrue
<1>1. AccessInv => LeaseIsTrue
    <2> SUFFICES ASSUME AccessInv PROVE LeaseIsTrue
        OBVIOUS
    <2>1. ASSUME lease.pro, clock < lease.expires PROVE Pro(lease.on, clock)
        <3>1. ~account.revoked
            BY <2>1 DEF AccessInv, LeaseFounded
        <3>2. lease.expires \in Nat
            BY DEF AccessInv, AccessTypeOK, Dates
        <3>3. CASE Lifetime \/ Gifted(lease.on)
            BY <3>1, <3>3 DEF Pro
        <3>4. CASE lease.expires <= account.comp \/ lease.expires <= account.claim
            BY <2>1, <3>1, <3>2, <3>4, AccountIs DEF Pro, CompActive, TrialActive
        <3>5. CASE \E p \in DOMAIN subs :
                      Entitled(subs[p]) /\ lease.expires <= subscriptionGrantsUntil(subs[p])
            <4>1. PICK p \in DOMAIN subs :
                      Entitled(subs[p]) /\ lease.expires <= subscriptionGrantsUntil(subs[p])
                BY <3>5
            <4>2. clock < subscriptionGrantsUntil(subs[p]) /\ p \in {"web", "apple"}
                BY <2>1, <3>2, <4>1, GrantersAre, AccountIs
            <4>3. subs[p].until > clock \/ (subs[p].until = 0 /\ subs[p].heard + GRACE > clock)
                BY <4>2, GrantersAre, AccountIs DEF subscriptionGrantsUntil
            <4>4. subscriptionGrants(subs[p], clock)
                BY <4>1, <4>3 DEF Entitled, subscriptionGrants
            <4> QED BY <3>1, <4>1, <4>4 DEF Pro, Granters
        <3> QED BY <2>1, <3>3, <3>4, <3>5 DEF AccessInv, LeaseFounded
    <2>2. ASSUME NEW on \in Platforms, Pro(on, clock),
                 ~\E p \in Granters(clock) : subs[p].status = "paused" /\ subs[p].until = 0
          PROVE  expiryFor(on, clock) > clock
        <3>1. \A p \in Granters(clock) : subscriptionGrantsUntil(subs[p]) > clock
            <4> SUFFICES ASSUME NEW p \in Granters(clock) PROVE subscriptionGrantsUntil(subs[p]) > clock
                OBVIOUS
            <4>1. subscriptionGrants(subs[p], clock) /\ p \in {"web", "apple"}
                BY GrantersAre DEF Granters
            <4>2. subs[p].until > clock \/ (subs[p].until = 0 /\ subs[p].heard + GRACE > clock)
                BY <2>2, <4>1 DEF subscriptionGrants
            <4> QED BY <4>1, <4>2, GrantersAre, AccountIs DEF subscriptionGrantsUntil
        <3>2. NoEnd > clock
            BY DatesOfClock DEF AccessInv
        <3>3. AccessNotAfter(on, clock) > clock
            BY <2>2, <3>1, <3>2, Boundary, AccountIs DEF CompActive, TrialActive
        <3> QED BY <2>2, <3>3, Expiry
    <2> QED BY <2>1, <2>2 DEF LeaseIsTrue
<1> QED BY <1>1, AccessInvHolds, PTL

-----------------------------------------------------------------------------
(* Charges *)

LEMMA WorstIs ==
    ASSUME NEW hits, hits # {}, \A h \in hits : \E i \in 1..4 : BLOCK_SEVERITY[i] = h
    PROVE  BLOCK_SEVERITY[Min({i \in DOMAIN BLOCK_SEVERITY : BLOCK_SEVERITY[i] \in hits})]
             \in CheckoutBlockReason
<1> DEFINE S == {i \in DOMAIN BLOCK_SEVERITY : BLOCK_SEVERITY[i] \in hits}
<1>1. DOMAIN BLOCK_SEVERITY = 1..4
    BY DEF BLOCK_SEVERITY
<1>2. S \subseteq 1..4 /\ S # {}
    BY <1>1
<1>3. \E x \in S : \A y \in S : x <= y
    <2>1. CASE 1 \in S
        BY <1>2, <2>1
    <2>2. CASE 1 \notin S /\ 2 \in S
        BY <1>2, <2>2
    <2>3. CASE 1 \notin S /\ 2 \notin S /\ 3 \in S
        BY <1>2, <2>3
    <2>4. CASE 1 \notin S /\ 2 \notin S /\ 3 \notin S
        BY <1>2, <2>4
    <2> QED BY <2>1, <2>2, <2>3, <2>4
<1> HIDE DEF S
<1>4. Min(S) \in 1..4
    BY <1>2, <1>3 DEF Min
<1>5. \A i \in 1..4 : BLOCK_SEVERITY[i] \in CheckoutBlockReason
    BY DEF BLOCK_SEVERITY, CheckoutBlockReason
<1> QED BY <1>4, <1>5 DEF S

\* What can charge stands in the way of a second subscription, unless it was cut
\* off and taken up again, and always has a button that stops it.
THEOREM ChargesAreSeenHolds == AccessSpec => []ChargesAreSeen
<1>1. AccessInv => ChargesAreSeen
    <2> SUFFICES ASSUME AccessInv, web.status \in Charging PROVE
                    /\ resumed \/ \A on \in Platforms : ~RecurringOffered(on)
                    /\ Described # {}
                    /\ \A p \in Described : p = "apple" \/ (cancellable(p) /\ CanCancel)
        BY DEF ChargesAreSeen, Charging
    <2>1. subs["web"].status = web.status /\ subscriptionIsLive(subs["web"])
          /\ web.status # "cancelled" /\ DOMAIN subs = {"web", "apple"}
        BY WebIs, GrantersAre DEF Charging, subscriptionIsLive
    <2> DEFINE hits == UNION {blocksNewRecurringCheckout(subs[p], IF p = "web" THEN task ELSE "none") :
                                p \in DOMAIN subs}
    <2>2. \A r, c : \A h \in blocksNewRecurringCheckout(r, c) : \E i \in 1..4 : BLOCK_SEVERITY[i] = h
        BY DEF blocksNewRecurringCheckout, BLOCK_SEVERITY
    <2>3. ~resumed => blocksNewRecurringCheckout(subs["web"], task) # {}
        BY <2>1, WebIs DEF blocksNewRecurringCheckout
    <2>4. (~resumed => hits # {}) /\ \A h \in hits : \E i \in 1..4 : BLOCK_SEVERITY[i] = h
        BY <2>1, <2>2, <2>3
    <2>5. ASSUME ~resumed, NEW on \in Platforms PROVE recurring(on) \in CheckoutBlockReason
        <3>1. CASE Lifetime \/ Gifted(on)
            BY <3>1 DEF recurring, CheckoutBlockReason
        <3>2. CASE ~(Lifetime \/ Gifted(on))
            <4>1. recurring(on) = BLOCK_SEVERITY[Min({i \in DOMAIN BLOCK_SEVERITY : BLOCK_SEVERITY[i] \in hits})]
                BY <2>4, <2>5, <3>2 DEF recurring
            <4> HIDE DEF hits
            <4> QED BY <2>4, <2>5, <4>1, WorstIs
        <3> QED BY <3>1, <3>2
    <2>6. Described # {}
        BY <2>1 DEF Described
    <2>7. ASSUME NEW p \in Described PROVE p = "apple" \/ (cancellable(p) /\ CanCancel)
        <3>1. p \in {"web", "apple"}
            BY <2>1, GrantersAre DEF Described
        <3> QED BY <2>1, <3>1 DEF cancellable, CanCancel
    <2> QED BY <2>5, <2>6, <2>7 DEF RecurringOffered
<1> QED BY <1>1, AccessInvHolds, PTL

-----------------------------------------------------------------------------
(* Causes *)

\* A row that grants an instant later grants now: a trial that was cut off ends
\* with the days that hide it.
LEMMA TimeOnlyTakes ==
    ASSUME AccessInv, NEW p \in Granters(clock + 1)
    PROVE  p \in Granters(clock)
<1>1. p \in {"web", "apple"} /\ p \in DOMAIN subs /\ subscriptionGrants(subs[p], clock + 1)
    BY GrantersAre DEF Granters
<1>2. /\ subs[p].until \in Nat /\ subs[p].trialEnds \in Nat /\ subs[p].heard \in Nat /\ clock \in Nat
    BY <1>1, GrantersAre, AccountIs
<1>3. subs[p].until > clock \/ (subs[p].until = 0 /\ (subs[p].status = "paused" \/ subs[p].heard + GRACE > clock))
    BY <1>1, <1>2, Constants DEF subscriptionGrants
<1>4. ~(subs[p].trialEnds > clock /\ (subs[p].tombstone \/ subs[p].status = "cancelled"))
    <2> SUFFICES ASSUME subs[p].trialEnds > clock, subs[p].tombstone \/ subs[p].status = "cancelled"
                 PROVE  FALSE
        OBVIOUS
    <2>1. p = "web"
        BY <1>1 DEF AccessInv, AccessTypeOK
    <2>2. web.trialEnds = subs[p].trialEnds /\ subs[p].until = validUntilFrom(web)
        BY <2>1 DEF AccessInv, Mirrored
    <2>3. web.trialEnds > clock /\ web.trialEnds # 0
        BY <1>2, <2>2
    <2>4. validUntilFrom(web) = web.trialEnds
        BY <2>3, WebIs DEF GoodWeb, validUntilFrom
    <2>5. subs[p].trialEnds <= clock + 1
        BY <1>1, <1>2 DEF subscriptionGrants
    <2> QED BY <1>1, <1>2, <2>2, <2>3, <2>4, <2>5 DEF subscriptionGrants
<1>5. subscriptionGrants(subs[p], clock)
    BY <1>1, <1>3, <1>4 DEF subscriptionGrants
<1> QED BY <1>1, <1>5 DEF Granters

\* The toggle writes what the rows said.
LEMMA ToggleMovesNothing ==
    ASSUME AccessInv, ToggleAutoRenew, NEW on \in Platforms
    PROVE  Pro(on, clock) <=> Pro(on, clock)'
<1>1. Changes /\ web' = web /\ task' = task /\ account' = account /\ Sync(Toggled)
      /\ apple.expires > clock /\ ~apple.refunded
    BY DEF ToggleAutoRenew, Toggled
<1>2. /\ clock' = clock /\ apple' = Toggled /\ subs' = [subs EXCEPT !["apple"] = AppleRow(Toggled)]
      /\ owned' = [l \in Licences |-> IF l = "web" THEN owned[l] ELSE LifetimeRow(Toggled, l, owned[l])]
      /\ DOMAIN subs = {"web", "apple"}
    BY <1>1, GrantersAre DEF Sync, Changes
<1>3. owned' = owned
    <2>1. owned \in [Licences -> {"none", "owned", "refunded"}]
        BY OwnedIs
    <2>2. LiveSubElsewhere(Toggled)
        BY <1>1, ToggledIs, SnapshotRow
    <2>3. ASSUME NEW l \in Licences, l # "web" PROVE LifetimeRow(Toggled, l, owned[l]) = owned[l]
        BY <1>1, <2>2, <2>3, ToggledIs DEF LifetimeRow, Taken, AccessInv, AppleTold
    <2> QED BY <1>2, <2>1, <2>3
<1>4. subscriptionGrants(subs["apple"], clock) /\ subscriptionGrants(subs'["apple"], clock)
    <2>1. effectiveEnd(apple) > clock /\ effectiveEnd(Toggled) > clock
        <3>1. effectiveEnd(apple) \in Nat /\ effectiveEnd(apple) >= apple.expires
            BY AppleIs, SnapshotRow DEF Dates
        <3>2. effectiveEnd(Toggled) \in Nat /\ effectiveEnd(Toggled) >= Toggled.expires
            BY ToggledIs, SnapshotRow DEF Dates
        <3> QED BY <1>1, <3>1, <3>2, ToggledIs, AppleIs, AccountIs
    <2>2. /\ subs["apple"].status \in {"past_due", "on_trial", "active"} /\ subs["apple"].ours
          /\ subs["apple"].until = effectiveEnd(apple) /\ ~subs["apple"].tombstone
        BY <1>1 DEF AccessInv, AppleTold, AccessTypeOK
    <2>3. subs'["apple"] = AppleRow(Toggled)
        BY <1>2
    <2>4. /\ AppleRow(Toggled).status \in {"past_due", "on_trial", "active"} /\ AppleRow(Toggled).ours
          /\ AppleRow(Toggled).until = effectiveEnd(Toggled) /\ ~AppleRow(Toggled).tombstone
        BY <1>1, ToggledIs, SnapshotRow
    <2> QED BY <2>1, <2>2, <2>3, <2>4 DEF subscriptionGrants, GRANTING, variantIsSellable
<1>5. Granters(clock) # {} /\ Granters(clock)' # {}
    <2>1. "apple" \in DOMAIN subs /\ "apple" \in DOMAIN subs'
        BY <1>2
    <2> QED BY <1>2, <1>4, <2>1 DEF Granters, subscriptionGrants, variantIsSellable
<1>6. (Pro(on, clock) <=> ~account.revoked) /\ (Pro(on, clock)' <=> ~account'.revoked)
    BY <1>5 DEF Pro
<1> QED BY <1>1, <1>6

\* None of Apple's own changes is the toggle.
LEMMA AnotherMove == ASSUME AccessInv, NEW a \in AppleMoves(apple) PROVE a # Toggled
<1>1. apple.expires \in Nat /\ clock \in Nat /\ apple \in Apple
    BY AppleIs, AccountIs
<1>2. CASE a.expires > clock /\ ~a.refunded /\ (apple.expires <= clock \/ apple.refunded)
    BY <1>1, <1>2, ToggledIs
<1>3. CASE a.unsubscribed = apple.unsubscribed
    BY <1>3, ToggledIs
<1>4. a.unsubscribed = apple.unsubscribed
      \/ (a.expires > clock /\ ~a.refunded /\ (apple.expires <= clock \/ apple.refunded))
    <2>1. CASE \/ a = [apple EXCEPT !.expires = clock + TRIAL, !.trial = TRUE, !.grace = 0,
                                    !.unsubscribed = FALSE, !.refunded = FALSE]
               \/ a = [apple EXCEPT !.expires = clock + PERIOD, !.trial = FALSE, !.grace = 0,
                                    !.unsubscribed = FALSE, !.refunded = FALSE]
        <3>1. a.expires \in {clock + TRIAL, clock + PERIOD} /\ a.refunded = FALSE
            BY <1>1, <2>1 DEF Apple
        <3>2. a.expires > clock
            BY <1>1, <3>1, Constants
        <3>3. CASE apple.expires <= clock \/ apple.refunded
            BY <3>1, <3>2, <3>3
        <3>4. CASE ~(apple.expires <= clock \/ apple.refunded)
            <4>1. \/ a = [apple EXCEPT !.grace = apple.expires + 1] \/ a = [apple EXCEPT !.refunded = TRUE]
                  \/ \E l \in {"apple", "sandbox"} \ (apple.life \ apple.taken) :
                        a = [apple EXCEPT !.life = @ \union {l}, !.taken = @ \ {l}, !.dropped = FALSE]
                  \/ \E l \in apple.life \ apple.taken : a = [apple EXCEPT !.taken = @ \union {l}]
                  \/ a = [apple EXCEPT !.dropped = TRUE]
                BY <3>4, AppleMovesAre
            <4> QED BY <1>1, <4>1 DEF Apple
        <3> QED BY <3>3, <3>4
    <2>2. CASE \/ a = [apple EXCEPT !.grace = apple.expires + 1] \/ a = [apple EXCEPT !.refunded = TRUE]
               \/ \E l \in {"apple", "sandbox"} \ (apple.life \ apple.taken) :
                     a = [apple EXCEPT !.life = @ \union {l}, !.taken = @ \ {l}, !.dropped = FALSE]
               \/ \E l \in apple.life \ apple.taken : a = [apple EXCEPT !.taken = @ \union {l}]
               \/ a = [apple EXCEPT !.dropped = TRUE]
        BY <1>1, <2>2 DEF Apple
    <2> QED BY <2>1, <2>2, AppleMovesAre
<1> QED BY <1>2, <1>3, <1>4

\* Time takes access away and never gives it; Apple's automatic renewal, turned off
\* or on, moves nobody's access.
THEOREM AccessHasACauseHolds == AccessSpec => AccessHasACause
<1> DEFINE Cause ==
        \A on \in Platforms :
           /\ clock' # clock => (Pro(on, clock') => Pro(on, clock))
           /\ apple' = [apple EXCEPT !.unsubscribed = ~@] => (Pro(on, clock) <=> Pro(on, clock)')
<1>1. AccessInv /\ [AccessNext]_accessVars => Cause
    <2> SUFFICES ASSUME AccessInv, [AccessNext]_accessVars, NEW on \in Platforms
                 PROVE  /\ clock' # clock => (Pro(on, clock') => Pro(on, clock))
                        /\ apple' = Toggled => (Pro(on, clock) <=> Pro(on, clock)')
        BY DEF Toggled
    <2>1. ASSUME clock' # clock PROVE Pro(on, clock') => Pro(on, clock)
        <3>1. AccessTick
            BY <2>1 DEF AccessNext, accessVars, WebChanges, WebBuys, Cancel, CancelOwed, Drained, EndTrial,
               Reactivate, ChangePlan, WebOrder, WebRefund, AppleChanges, ToggleAutoRenew, Comp,
               WithdrawComp, Revoke, ClaimTrial, TrialReset, ListTester, AccountBecomes, Resolve, Changes
        <3>2. clock' = clock + 1
            BY <3>1 DEF AccessTick
        <3>3. Granters(clock + 1) # {} => Granters(clock) # {}
            BY TimeOnlyTakes
        <3>4. (CompActive(clock + 1) => CompActive(clock)) /\ (TrialActive(clock + 1) => TrialActive(clock))
            BY AccountIs DEF CompActive, TrialActive
        <3>5. Pro(on, clock + 1) => Pro(on, clock)
            BY <3>3, <3>4 DEF Pro
        <3> QED BY <3>2, <3>5
    <2>2. ASSUME apple' = Toggled PROVE Pro(on, clock) <=> Pro(on, clock)'
        <3>1. apple' # apple
            BY <2>2, ToggledIs
        <3>2. AppleChanges \/ ToggleAutoRenew
            BY <3>1 DEF AccessNext, accessVars, rows, WebChanges, WebBuys, Cancel, CancelOwed, Drained, EndTrial,
               Reactivate, ChangePlan, WebOrder, WebRefund, Comp, WithdrawComp, Revoke, ClaimTrial,
               TrialReset, ListTester, AccountBecomes, Resolve, AccessTick
        <3>3. ~AppleChanges
            <4> SUFFICES ASSUME AppleChanges PROVE FALSE
                OBVIOUS
            <4>1. PICK a \in AppleMoves(apple) \union {apple} : apple' = a
                BY DEF AppleChanges, Sync
            <4>2. a \in AppleMoves(apple) /\ a = Toggled
                BY <2>2, <3>1, <4>1
            <4> QED BY <4>2, AnotherMove
        <3> QED BY <3>2, <3>3, ToggleMovesNothing
    <2> QED BY <2>1, <2>2
<1>2. AccessHasACause <=> [][Cause]_accessVars
    BY DEF AccessHasACause
<1> QED BY <1>1, <1>2, AccessInvHolds, PTL DEF AccessSpec

=============================================================================
