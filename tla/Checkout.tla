------------------------------ MODULE Checkout ------------------------------
(***************************************************************************)
(* One account buying: every POST /api/checkout it ever sends, the         *)
(* CheckoutIntent and AcquisitionLock rows, Lemon Squeezy's hosted links,  *)
(* the payment webhook and POST /api/checkout/confirm.                     *)
(*                                                                         *)
(* Intents are named by the request that created them (an intent is made   *)
(* by exactly one reservation).  A process that crashes is a request that  *)
(* takes no further step: Spec has no fairness, so every prefix of every   *)
(* handler is a behaviour.                                                 *)
(***************************************************************************)
EXTENDS Naturals, FiniteSets

CONSTANTS
    Requests,       \* the POST /api/checkout requests of the account
    Plans,          \* the plans asked for, a subset of AllPlans
    Keys,           \* the Idempotency-Key values clients send
    NoKey,          \* no Idempotency-Key header
    NoOne,          \* no intent holds the lock
    TTL,            \* CHECKOUT_TTL_MS, in ticks
    MARGIN,         \* EXPIRY_MARGIN_MS, in ticks
    SKEW,           \* how far the provider's clock may lag behind ours
    Horizon         \* bound on the server clock

AllPlans == {"monthly", "yearly", "lifetime"}
IntentStates == {"reserved", "ready", "uncertain", "completed", "failed", "expired"}
HOLDING == {"reserved", "ready", "uncertain"}
\* mutant: the hold forgets the clock-skew margin
UncertainHoldWithoutMargin == TTL
UNCERTAIN_HOLD == TTL + MARGIN

ASSUME ClockAssumption ==
    /\ TTL \in Nat /\ MARGIN \in Nat /\ SKEW \in Nat /\ Horizon \in Nat
    /\ SKEW <= MARGIN

ASSUME NameAssumption ==
    /\ Plans \subseteq AllPlans
    /\ NoKey \notin Keys
    /\ NoOne \notin Requests

VARIABLES
    now,            \* the server clock
    pc,             \* where each request's handler stands
    ask,            \* the plan and the key each request carries
    seen,           \* the account facts each handler read (loadEligibilityInputs)
    at,             \* the instant each handler captured before reserving
    answer,         \* what each request was told
    handed,         \* the intent whose url the answer carries
    intent,         \* the CheckoutIntent rows
    holder,         \* AcquisitionLock.intentId, NoOne when there is no row
    heldUntil,      \* AcquisitionLock.expiresAt
    link,           \* the provider's side of each intent's checkout
    rec             \* the mirrored subscription or purchase row

handlerVars == <<pc, ask, seen, at, answer, handed>>
storeVars == <<intent, holder, heldUntil>>
vars == <<now, handlerVars, storeVars, link, rec>>

NothingSeen == [owned |-> FALSE, blocked |-> FALSE]
NoIntent == [state |-> "none", plan |-> "none", key |-> NoKey, expiresAt |-> 0]

IntentRow == [state : IntentStates \union {"none"}, plan : AllPlans \union {"none"},
              key : Keys \union {NoKey}, expiresAt : Nat]

TypeOK ==
    /\ now \in Nat
    /\ pc \in [Requests -> {"idle", "decide", "reserve", "call", "done"}]
    /\ ask \in [Requests -> [plan : AllPlans \union {"none"}, key : Keys \union {NoKey}]]
    /\ seen \in [Requests -> [owned : BOOLEAN, blocked : BOOLEAN]]
    /\ at \in [Requests -> Nat]
    /\ answer \in [Requests -> {"none", "rejected", "busy", "uncertain",
                                "reused", "minted", "unknown", "failed"}]
    /\ handed \in [Requests -> Requests \union {NoOne}]
    /\ intent \in [Requests -> IntentRow]
    /\ holder \in Requests \union {NoOne}
    /\ heldUntil \in Nat
    /\ link \in [Requests -> {"none", "sent", "open", "refused", "paid"}]
    /\ rec \in [Requests -> {"none", "live", "ended"}]

Init ==
    /\ now = 0
    /\ pc = [r \in Requests |-> "idle"]
    /\ ask = [r \in Requests |-> [plan |-> "none", key |-> NoKey]]
    /\ seen = [r \in Requests |-> NothingSeen]
    /\ at = [r \in Requests |-> 0]
    /\ answer = [r \in Requests |-> "none"]
    /\ handed = [r \in Requests |-> NoOne]
    /\ intent = [r \in Requests |-> NoIntent]
    /\ holder = NoOne
    /\ heldUntil = 0
    /\ link = [r \in Requests |-> "none"]
    /\ rec = [r \in Requests |-> "none"]

-----------------------------------------------------------------------------
(* Reads *)

Recurring == {"monthly", "yearly"}

\* A purchase row that is not refunded: the account owns the lifetime licence.
OwnsLifetime == \E r \in Requests : rec[r] = "live" /\ intent[r].plan = "lifetime"

\* Some subscription row blocks a new recurring checkout.
BlocksRecurring == \E r \in Requests : rec[r] = "live" /\ intent[r].plan \in Recurring

\* outstandingAcquisition: there is a lock, its intent still holds, and the
\* hold has not run out at t.
Outstanding(t) ==
    /\ holder # NoOne
    /\ intent[holder].state \in HOLDING
    /\ heldUntil > t

\* The intent an earlier request of the account created under this key.
PriorIntents(key) == {q \in Requests : intent[q].state # "none" /\ key # NoKey /\ intent[q].key = key}

\* conflictingKeyPlan: the key was used for another plan (409 IDEMPOTENCY_CONFLICT).
KeyConflict(r) == \E q \in PriorIntents(ask[r].key) : intent[q].plan # ask[r].plan

\* planEligibility(...)[plan].canPurchase, from the facts r read and the lock.
CanPurchase(r) ==
    /\ ~seen[r].owned
    /\ \/ /\ Outstanding(now)
          /\ intent[holder].state = "ready"
          /\ intent[holder].plan = ask[r].plan
       \/ /\ ~Outstanding(now)
          /\ ask[r].plan = "lifetime" \/ ~seen[r].blocked

\* What an existing intent means for the caller asking now.
ClassifyExisting(q, plan, t) ==
    CASE intent[q].state = "uncertain" -> "uncertain"
      [] /\ intent[q].plan = plan
         /\ intent[q].state = "ready"
         /\ intent[q].expiresAt > t -> "reused"
      [] OTHER -> "busy"

-----------------------------------------------------------------------------
(* POST /api/checkout *)

Answer(r, what) ==
    /\ pc' = [pc EXCEPT ![r] = "done"]
    /\ answer' = [answer EXCEPT ![r] = what]

\* The request arrives and reads the account's rows: subscriptions, licences.
Arrive(r) ==
    /\ pc[r] = "idle"
    /\ \E plan \in Plans, key \in Keys \union {NoKey} :
           ask' = [ask EXCEPT ![r] = [plan |-> plan, key |-> key]]
    /\ seen' = [seen EXCEPT ![r] = [owned |-> OwnsLifetime, blocked |-> BlocksRecurring]]
    /\ pc' = [pc EXCEPT ![r] = "decide"]
    /\ UNCHANGED <<now, at, answer, handed, storeVars, link, rec>>

\* The second round of reads (the outstanding lock), then the key check and
\* the eligibility decision; a request let through captures its instant and
\* uses the facts it read no further.
Decide(r) ==
    /\ pc[r] = "decide"
    /\ \/ /\ KeyConflict(r) \/ ~CanPurchase(r)
          /\ Answer(r, "rejected")
          /\ UNCHANGED at
       \/ /\ ~KeyConflict(r)
          /\ CanPurchase(r)
          /\ at' = [at EXCEPT ![r] = now]
          /\ pc' = [pc EXCEPT ![r] = "reserve"]
          /\ UNCHANGED answer
    /\ seen' = [seen EXCEPT ![r] = NothingSeen]
    /\ UNCHANGED <<now, ask, handed, storeVars, link, rec>>

\* mutant: an uncertain holder does not stop a new checkout
MetIgnoringUncertain(r) ==
    IF PriorIntents(ask[r].key) # {} THEN PriorIntents(ask[r].key)
    ELSE {q \in Requests : holder = q /\ heldUntil > at[r] /\ intent[q].state # "uncertain"}

\* attemptReserve meets an intent: the key's own, else the live lock's ...
MetIntents(r) ==
    IF PriorIntents(ask[r].key) # {} THEN PriorIntents(ask[r].key)
    ELSE {q \in Requests : holder = q /\ heldUntil > at[r]}

\* ... and answers from it without writing anything.
ReserveMeets(r) ==
    /\ pc[r] = "reserve"
    /\ \E q \in MetIntents(r) :
           IF KeyConflict(r)
           THEN Answer(r, "rejected") /\ UNCHANGED handed
           ELSE LET what == ClassifyExisting(q, ask[r].plan, at[r])
                IN  /\ Answer(r, what)
                    /\ handed' = IF what = "reused" THEN [handed EXCEPT ![r] = q] ELSE handed
    /\ UNCHANGED <<now, ask, seen, at, storeVars, link, rec>>

\* The checkout the provider is asked for: bound to this intent, and dead at
\* at[r] + TTL, even if its reply never comes.
Sends(r) == link' = [link EXCEPT ![r] = "sent"]

\* The transaction that takes the lock: a spent holder is expired (an uncertain
\* one keeps its state), its lock deleted, the new pair written, and once that
\* is committed the provider is called.
ReserveTakes(r) ==
    /\ pc[r] = "reserve"
    /\ MetIntents(r) = {}
    /\ intent' = [q \in Requests |->
           CASE q = r -> [state |-> "reserved", plan |-> ask[r].plan, key |-> ask[r].key,
                          expiresAt |-> at[r] + TTL + MARGIN]
             [] q # r /\ q = holder /\ intent[q].state \in {"reserved", "ready"} ->
                  [intent[q] EXCEPT !.state = "expired"]
             [] OTHER -> intent[q]]
    /\ holder' = r
    /\ heldUntil' = at[r] + TTL + MARGIN
    /\ Sends(r)
    /\ pc' = [pc EXCEPT ![r] = "call"]
    /\ UNCHANGED <<now, ask, seen, at, answer, handed, rec>>

\* reserveAcquisition lost the race three times (or the database failed).
ReserveGivesUp(r) ==
    /\ pc[r] = "reserve"
    /\ Answer(r, "rejected")
    /\ UNCHANGED <<now, ask, seen, at, handed, storeVars, link, rec>>

\* The write of an intent its own handler settles: only from reserved.
Settle(r, state, until) ==
    intent' = IF intent[r].state = "reserved"
              THEN [intent EXCEPT ![r].state = state, ![r].expiresAt = until]
              ELSE intent

\* The provider answered with a url: markReady.
MarkReady(r) ==
    /\ pc[r] = "call"
    /\ link[r] \in {"open", "paid"}
    /\ Settle(r, "ready", at[r] + TTL + MARGIN)
    /\ heldUntil' = IF holder = r THEN at[r] + TTL + MARGIN ELSE heldUntil
    /\ Answer(r, "minted")
    /\ handed' = [handed EXCEPT ![r] = r]
    /\ UNCHANGED <<now, ask, seen, at, holder, link, rec>>

\* The provider refused with a 4xx: markFailed frees the lock.
MarkFailed(r) ==
    /\ pc[r] = "call"
    /\ link[r] = "refused"
    /\ Settle(r, "failed", intent[r].expiresAt)
    /\ holder' = IF holder = r THEN NoOne ELSE holder
    /\ Answer(r, "failed")
    /\ UNCHANGED <<now, ask, seen, at, handed, heldUntil, link, rec>>

\* A timeout, a dropped socket, a 5xx or a reply without a url: markUncertain,
\* whatever the provider did or is still going to do with the request.
MarkUncertain(r) ==
    /\ pc[r] = "call"
    /\ Settle(r, "uncertain", at[r] + UNCERTAIN_HOLD)
    /\ heldUntil' = IF holder = r THEN at[r] + UNCERTAIN_HOLD ELSE heldUntil
    /\ Answer(r, "unknown")
    /\ UNCHANGED <<now, ask, seen, at, handed, holder, link, rec>>

-----------------------------------------------------------------------------
(* Lemon Squeezy.  A link dies at the expires_at it was minted with, measured *)
(* on the provider's clock, which may lag ours by SKEW.                       *)

\* The code's own view: a link is payable as soon as it exists at the provider,
\* whoever has been told its url.
Payable(r) == link[r] = "open" /\ now < at[r] + TTL + SKEW

\* The provider creates the checkout, however late it handles the request.
ProviderCreates(r) ==
    /\ link[r] = "sent"
    /\ link' = [link EXCEPT ![r] = "open"]
    /\ UNCHANGED <<now, handlerVars, storeVars, rec>>

ProviderRefuses(r) ==
    /\ link[r] = "sent"
    /\ link' = [link EXCEPT ![r] = "refused"]
    /\ UNCHANGED <<now, handlerVars, storeVars, rec>>

Pay(r) ==
    /\ Payable(r)
    /\ link' = [link EXCEPT ![r] = "paid"]
    /\ UNCHANGED <<now, handlerVars, storeVars, rec>>

-----------------------------------------------------------------------------
(* The payment reaches us: webhook deliveries (repeated at will), /confirm. *)

\* mutant: the account's lock is freed, whoever holds it
WebhookCloseAnyLock(r) ==
    /\ link[r] = "paid"
    /\ intent' = IF intent[r].state \in HOLDING
                 THEN [intent EXCEPT ![r].state = "completed"] ELSE intent
    /\ holder' = NoOne
    /\ UNCHANGED <<now, handlerVars, heldUntil, link, rec>>

\* closeCheckoutIntent: complete the paid intent and free only its own lock;
\* an error inside it is swallowed and the delivery goes on.
WebhookClose(r) ==
    /\ link[r] = "paid"
    /\ \/ /\ intent' = IF intent[r].state \in HOLDING
                       THEN [intent EXCEPT ![r].state = "completed"] ELSE intent
          /\ holder' = IF holder = r THEN NoOne ELSE holder
       \/ UNCHANGED <<intent, holder>>
    /\ UNCHANGED <<now, handlerVars, heldUntil, link, rec>>

\* The licence or the subscription row is written: by the delivery, once it has
\* closed the intent, or by POST /confirm, which closes nothing and may come first.
RecordPayment(r) ==
    /\ link[r] = "paid"
    /\ rec[r] = "none"
    /\ rec' = [rec EXCEPT ![r] = "live"]
    /\ UNCHANGED <<now, handlerVars, storeVars, link>>

\* The subscription expires, or the licence is refunded.
AccessEnds(r) ==
    /\ rec[r] = "live"
    /\ rec' = [rec EXCEPT ![r] = "ended"]
    /\ UNCHANGED <<now, handlerVars, storeVars, link>>

Tick ==
    /\ now < Horizon
    /\ now' = now + 1
    /\ UNCHANGED <<handlerVars, storeVars, link, rec>>

-----------------------------------------------------------------------------

Handle(r) == \/ Arrive(r) \/ Decide(r)
             \/ ReserveMeets(r) \/ ReserveTakes(r) \/ ReserveGivesUp(r)
             \/ MarkReady(r) \/ MarkFailed(r) \/ MarkUncertain(r)

Provider(r) == ProviderCreates(r) \/ ProviderRefuses(r) \/ Pay(r)

Fulfil(r) == WebhookClose(r) \/ RecordPayment(r) \/ AccessEnds(r)

Next == (\E r \in Requests : Handle(r) \/ Provider(r) \/ Fulfil(r)) \/ Tick

Spec == Init /\ [][Next]_vars

-----------------------------------------------------------------------------
(* Properties *)

\* A request the provider may still turn into a payable link, or has.
Alive(r) == link[r] \in {"sent", "open"} /\ now < at[r] + TTL + SKEW

\* Every link that is payable, or may yet become so, is covered by the lock:
\* the row names its intent and outlives the link on the provider's clock.
\* ("so our row never says free while the link is still payable".)
PayableIsHeld == \A r \in Requests : Alive(r) => holder = r /\ heldUntil >= at[r] + TTL + SKEW

\* The account never has two links it could pay, whatever two tabs, a crash
\* between commit and reply, a lost reply or a late webhook did.
OnePayable == \A r, q \in Requests : Payable(r) /\ Payable(q) => r = q

\* The lock and its intent are two rows describing one fact: the holder is in a
\* holding state and both carry the same expiry.
LockAligned ==
    holder # NoOne => /\ intent[holder].state \in HOLDING
                      /\ intent[holder].expiresAt = heldUntil

\* One Idempotency-Key creates one intent, hence one provider call.
OneIntentPerKey ==
    \A r, q \in Requests :
        /\ intent[r].state # "none" /\ intent[q].state # "none"
        /\ intent[r].key = intent[q].key /\ intent[r].key # NoKey
        => r = q

\* Nobody is sent to pay for a plan he did not ask for: reuse means exactly this.
HandedIsAsked == \A r \in Requests : handed[r] # NoOne => intent[handed[r]].plan = ask[r].plan

\* An unexpired lock is taken from its intent only when the provider refused the
\* checkout or its own link was paid: a late webhook or a late handler of another
\* intent never frees it.
LockLeavesSafely ==
    [][\A r \in Requests : holder = r /\ holder' # r
           => heldUntil <= now \/ link[r] \in {"refused", "paid"}]_vars

\* A settled intent is history: no late reply, late webhook or takeover revives
\* or rewrites one that completed, failed or expired.
SettledForGood ==
    [][\A r \in Requests : intent[r].state \in {"completed", "failed", "expired"}
           => intent'[r] = intent[r]]_vars

\* The account's links, seen from outside: Acquisition.
Acq == INSTANCE Acquisition WITH
    Links <- Requests,
    payable <- {r \in Requests : Payable(r)},
    born <- {r \in Requests : link[r] \in {"open", "paid"}}

\* Every step of the handlers, the provider and the clock is a step of it.
ImplementsAcquisition == Acq!Spec

=============================================================================
