---------------------------- MODULE AccountAccess ----------------------------
(***************************************************************************)
(* What one account may use, and buy, while everything that grants moves:  *)
(* a Lemon Squeezy subscription, an Apple one and Apple's lifetime as      *)
(* RevenueCat reports them, a web order, a comp, a revocation, a device    *)
(* trial and signup gifts.  The server resolves the rows at its clock and  *)
(* signs a lease the client runs on offline; the paywall asks the same     *)
(* rows what may be bought.                                                *)
(*                                                                         *)
(* A webhook is mirrored with the change it reports (SubscriptionMirror    *)
(* and RevenueCatSync have the delays); a cancellation that is owed to the *)
(* provider stays owed (BillingOutbox has the drains).                     *)
(*                                                                         *)
(* CheckoutProofs.tla extends this module beside the checkout, whose names *)
(* it therefore leaves alone.                                              *)
(***************************************************************************)
EXTENDS Integers, Sequences, FiniteSets, FiniteSetsExt

CONSTANTS
    AccessHorizon,      \* bound on the clock
    MaxChanges,         \* bound on the changes of the rows
    PERIOD, TRIAL,      \* what a payment buys, what a trial lasts
    GRACE,              \* INCOMPLETE_GRACE_MS
    ROPE, TRIALROPE,    \* the lease of a licence, and of a trial (ttlMs)
    SignupTrial         \* SIGNUP_TRIAL_ENABLED: a machine may claim a free trial

ASSUME AccessAssumption ==
    /\ {AccessHorizon, PERIOD, TRIAL, GRACE, ROPE, TRIALROPE} \subseteq Nat \ {0}
    /\ MaxChanges \in Nat /\ SignupTrial \in BOOLEAN

VARIABLES
    clock,
    web,            \* the subscription as Lemon Squeezy has it
    apple,          \* what the App Store has, as RevenueCat would report it
    subs,           \* the Subscription rows, one per provider
    owned,          \* the Purchase rows
    task,           \* the outbox's word on the web subscription (CancellationState)
    account,        \* comp, revocation, trial claim, gifts, sandbox tester
    resumed,        \* history: the web subscription was cut off as a trial, and taken up again
    lease,          \* the newest receipt, forgotten when a row changes
    cached,         \* User.isProCached
    changes

rows == <<web, apple, subs, owned, task, account>>
accessVars == <<clock, rows, resumed, lease, cached, changes>>

\* Dates are clock values; 0 is the absent date, and NoEnd one that never comes.
NoEnd == AccessHorizon + PERIOD + TRIAL + ROPE + TRIALROPE + 1
Dates == 0..NoEnd
Statuses == {"none", "on_trial", "active", "paused", "past_due", "unpaid", "cancelled", "expired"}
Platforms == {"ios", "desktop", "other"}
Licences == {"web", "apple", "sandbox"}
CancellationState == {"none", "pending", "settled", "dead_lettered"}
CheckoutBlockReason ==
    {"ACTIVE_SUBSCRIPTION", "CANCELLED_ACCESS_REMAINING", "CANCELLATION_PENDING",
     "BILLING_SUPPORT_REQUIRED", "LIFETIME_ALREADY_OWNED"}

Web == [status : Statuses, mode : {"-", "free", "void"}, ours : BOOLEAN,
        trialEnds : Dates, renews : Dates, ends : Dates]
Row == [status : Statuses, mode : {"-", "free", "void"}, ours : BOOLEAN,
        trialEnds : Dates, until : Dates, tombstone : BOOLEAN, heard : Dates]
NoWeb == [status |-> "none", mode |-> "-", ours |-> TRUE, trialEnds |-> 0, renews |-> 0, ends |-> 0]
NoRow == [status |-> "none", mode |-> "-", ours |-> TRUE,
          trialEnds |-> 0, until |-> 0, tombstone |-> FALSE, heard |-> 0]

\* life: the lifetime's entries by environment; dropped: no entitlement names it any more.
Apple == [expires : Dates, grace : Dates, trial : BOOLEAN, unsubscribed : BOOLEAN,
          refunded : BOOLEAN, life : SUBSET {"apple", "sandbox"}, taken : SUBSET {"apple", "sandbox"},
          dropped : BOOLEAN]
NoApple == [expires |-> 0, grace |-> 0, trial |-> FALSE, unsubscribed |-> FALSE,
            refunded |-> FALSE, life |-> {}, taken |-> {}, dropped |-> FALSE]

Account == [comp : Dates, revoked : BOOLEAN, claim : Dates, gifts : SUBSET {"ios", "desktop"},
            tester : BOOLEAN]
NoLease == [on |-> "other", pro |-> FALSE, expires |-> 0]

AccessTypeOK ==
    /\ clock \in 1..AccessHorizon
    /\ web \in Web
    /\ apple \in Apple
    /\ subs \in [{"web", "apple"} -> Row]
    /\ owned \in [Licences -> {"none", "owned", "refunded"}]
    /\ task \in CancellationState
    /\ account \in Account /\ resumed \in BOOLEAN
    /\ lease \in [on : Platforms, pro : BOOLEAN, expires : Dates]
    /\ cached \in BOOLEAN
    /\ changes \in 0..MaxChanges
    \* Apple has no cancelled status: its rows are cut by the clock alone
    /\ subs["apple"].status # "cancelled" /\ ~subs["apple"].tombstone

AccessInit ==
    /\ clock = 1 /\ changes = 0
    /\ web = NoWeb /\ apple = NoApple /\ task = "none"
    /\ subs = [p \in {"web", "apple"} |-> NoRow]
    /\ owned = [l \in Licences |-> "none"]
    /\ account \in [comp : {0}, revoked : {FALSE}, claim : {0},
                    gifts : {{}, {"desktop"}}, tester : {FALSE}]
    /\ lease = NoLease /\ cached = FALSE /\ resumed = FALSE

-----------------------------------------------------------------------------
(* Access, at time t *)

GRANTING == {"on_trial", "active", "paused", "past_due", "cancelled"}

\* A subscription to another product of the store is none of ours.
variantIsSellable(r) == r.ours

subscriptionGrants(r, t) ==
    /\ r.status \in GRANTING /\ variantIsSellable(r)
    /\ ~(r.status = "paused" /\ r.mode = "void")
    /\ ~(r.trialEnds > t /\ (r.tombstone \/ r.status = "cancelled"))
    /\ \/ r.until > t
       \/ r.until = 0 /\ (r.status = "paused" \/ r.heard + GRACE > t)

subscriptionIsLive(r) == r.status \notin {"none", "expired", "unpaid"}

Granters(t) == {p \in DOMAIN subs : subscriptionGrants(subs[p], t)}
Visible == IF account.tester THEN Licences ELSE Licences \ {"sandbox"}
Lifetime == \E l \in Visible : owned[l] = "owned"
Gifted(on) == on \in account.gifts
CompActive(t) == account.comp > t
TrialActive(t) == account.claim > t

\* computeEntitlement: the order of what grants.
Pro(on, t) ==
    /\ ~account.revoked
    /\ Lifetime \/ Gifted(on) \/ Granters(t) # {} \/ CompActive(t) \/ TrialActive(t)

Trialing(on, t) ==
    /\ ~Lifetime /\ ~Gifted(on)
    /\ \/ \E p \in Granters(t) : subs[p].status = "on_trial"
       \/ Granters(t) = {} /\ ~CompActive(t)

\* mutant: a row without an end date bounds nothing
GrantsForEver(r) == IF r.until # 0 THEN r.until ELSE NoEnd

subscriptionGrantsUntil(r) == IF r.until # 0 THEN r.until ELSE r.heard + GRACE

\* accessNotAfter, of an account that has access
AccessNotAfter(on, t) ==
    CASE Lifetime \/ Gifted(on) -> NoEnd
      [] ~(Lifetime \/ Gifted(on)) /\ Granters(t) # {} ->
            Max({subscriptionGrantsUntil(subs[p]) : p \in Granters(t)})
      [] OTHER -> IF CompActive(t) THEN account.comp ELSE account.claim

Least(a, b) == IF a < b THEN a ELSE b
expiryFor(on, t) == Least(t + (IF Trialing(on, t) THEN TRIALROPE ELSE ROPE), AccessNotAfter(on, t))

-----------------------------------------------------------------------------
(* What may be bought *)

\* Most severe first.
BLOCK_SEVERITY == <<"BILLING_SUPPORT_REQUIRED", "CANCELLATION_PENDING",
                    "ACTIVE_SUBSCRIPTION", "CANCELLED_ACCESS_REMAINING">>

\* mutant: what does not grant does not block
BlocksIfGranting(r, cancellation) ==
    IF ~subscriptionGrants(r, clock) \/ r.tombstone THEN {} ELSE {"ACTIVE_SUBSCRIPTION"}

\* Why a row is in the way, if it is: what is owed at the provider comes first, and a
\* cut-off trial with nothing owed is a confirmed cancellation.
blocksNewRecurringCheckout(r, cancellation) ==
    IF ~subscriptionIsLive(r) THEN {}
    ELSE CASE cancellation = "dead_lettered" -> {"BILLING_SUPPORT_REQUIRED"}
           [] cancellation = "pending"       -> {"CANCELLATION_PENDING"}
           [] OTHER -> IF r.tombstone THEN {}
                       ELSE {IF r.status = "cancelled" THEN "CANCELLED_ACCESS_REMAINING"
                                                       ELSE "ACTIVE_SUBSCRIPTION"}

Spent == account.claim # 0 \/ \E p \in DOMAIN subs : subs[p] # NoRow

\* planEligibility, of a recurring plan when no checkout is outstanding (module Checkout).
recurring(on) ==
    LET hits == UNION {blocksNewRecurringCheckout(subs[p], IF p = "web" THEN task ELSE "none") :
                         p \in DOMAIN subs}
        worst == Min({i \in DOMAIN BLOCK_SEVERITY : BLOCK_SEVERITY[i] \in hits})
    IN IF Lifetime \/ Gifted(on) THEN "LIFETIME_ALREADY_OWNED"
       ELSE IF hits # {} THEN BLOCK_SEVERITY[worst]
       ELSE IF Spent THEN "ELIGIBLE_WITHOUT_TRIAL" ELSE "ELIGIBLE_WITH_TRIAL"

TrialOffered(on) == recurring(on) = "ELIGIBLE_WITH_TRIAL"
RecurringOffered(on) == recurring(on) \notin CheckoutBlockReason

\* mutant: what stopped granting is not described
DescribedIfGranting == Granters(clock)

\* GET /api/subscription: the row it describes is one of these.
Described ==
    IF Granters(clock) # {} THEN Granters(clock)
    ELSE {p \in DOMAIN subs : subscriptionIsLive(subs[p])}
cancellable(p) == p = "web" /\ subs[p].status # "cancelled"

-----------------------------------------------------------------------------
(* The web subscription: Lemon Squeezy, and its mirror *)

Changes == changes < MaxChanges /\ changes' = changes + 1 /\ lease' = NoLease /\ UNCHANGED <<clock, cached>>

\* mutant: the hard stop is not read
UntilWithoutEnds(w) ==
    IF w.status = "on_trial" /\ w.trialEnds # 0 THEN w.trialEnds ELSE w.renews

validUntilFrom(w) ==
    CASE w.ends # 0 -> w.ends
      [] w.ends = 0 /\ w.status = "on_trial" /\ w.trialEnds # 0 -> w.trialEnds
      [] OTHER -> w.renews

Mirror(w, tombstone) ==
    [status |-> w.status, mode |-> w.mode, ours |-> w.ours, trialEnds |-> w.trialEnds,
     until |-> validUntilFrom(w), heard |-> clock,
     tombstone |-> tombstone \/ (w.status = "cancelled" /\ w.trialEnds > clock)]

isLiveUnpaidTrial(r) == r.status = "on_trial" /\ r.trialEnds > clock /\ ~r.tombstone

\* Until it is cancelled again, or over: what was cut off here charges once more.
TakenUp(w) ==
    /\ w.status \notin {"cancelled", "expired"}
    /\ resumed \/ (web.status = "cancelled" /\ subs["web"].tombstone)

WebBecomes(w, tombstone) ==
    /\ web' = w /\ subs' = [subs EXCEPT !["web"] = Mirror(w, tombstone)]
    /\ resumed' = TakenUp(w)

Stopped(w) ==
    [w EXCEPT !.status = "cancelled", !.mode = "-",
              !.ends = IF w.status = "on_trial" /\ w.trialEnds > clock THEN w.trialEnds
                       ELSE IF w.renews > clock THEN w.renews
                       ELSE clock + 1]
Paid(w) == [w EXCEPT !.status = "active", !.mode = "-", !.renews = clock + PERIOD, !.ends = 0]

\* A trial comes back as a trial, and nobody has paid; that we cut it off, the
\* provider does not know.
Resumed(w) ==
    IF w.trialEnds > clock THEN [w EXCEPT !.status = "on_trial", !.ends = 0]
                           ELSE [w EXCEPT !.status = "active", !.renews = w.ends, !.ends = 0]

Stoppable == {"on_trial", "active", "paused", "past_due"}

\* What the provider does on its own, or its portal for the customer.
WebMoves(w) ==
    UNION {
        IF w.status \in {"on_trial", "active"} /\ w.trialEnds <= clock /\ w.renews <= clock
            THEN {Paid(w)} ELSE {},
        IF w.status = "active"
            THEN {[w EXCEPT !.status = "past_due", !.renews = d] : d \in {0, w.renews}}
                 \union {[w EXCEPT !.status = "paused", !.mode = m, !.renews = 0] : m \in {"free", "void"}}
            ELSE {},
        IF w.status = "past_due" THEN {Paid(w), [w EXCEPT !.status = "unpaid"]} ELSE {},
        IF w.status = "paused" THEN {Paid(w)} ELSE {},
        IF w.status \in Stoppable THEN {Stopped(w)} ELSE {},
        IF w.status = "cancelled" /\ clock < w.ends THEN {Resumed(w)} ELSE {},
        IF w.status = "unpaid" \/ (w.status = "cancelled" /\ w.ends <= clock)
            THEN {[w EXCEPT !.status = "expired"]} ELSE {} }

WebChanges ==
    /\ Changes
    /\ \E w \in WebMoves(web) : WebBecomes(w, subs["web"].tombstone)
    /\ UNCHANGED <<apple, owned, task, account>>

\* A recurring plan the paywall offered is bought, or another product of the store.  A
\* trial is entered in the ledger of machines, if the checkout knew the machine.
WebBuys ==
    /\ Changes
    /\ web.status \in {"none", "expired"} /\ RecurringOffered("other")
    /\ \E ours, known \in BOOLEAN :
          IF TrialOffered("other")
          THEN /\ WebBecomes([NoWeb EXCEPT !.status = "on_trial", !.ours = ours,
                                          !.trialEnds = clock + TRIAL], FALSE)
               /\ account' = IF known THEN [account EXCEPT !.claim = clock + TRIAL] ELSE account
          ELSE WebBecomes([Paid(NoWeb) EXCEPT !.ours = ours], FALSE) /\ UNCHANGED account
    /\ task' = "none"
    /\ UNCHANGED <<apple, owned>>

CanCancel == subscriptionIsLive(subs["web"]) /\ subs["web"].status # "cancelled"

\* The customer's /cancel, or the console's: the provider accepts at once.
Cancel ==
    /\ Changes
    /\ CanCancel /\ web.status \in Stoppable
    /\ WebBecomes(Stopped(web), subs["web"].tombstone \/ subs["web"].status = "on_trial")
    /\ UNCHANGED <<apple, owned, task, account>>

\* The provider could not be reached: owed, and a trial is cut off here already.
OwesCancel(r) == [r EXCEPT !.tombstone = @ \/ isLiveUnpaidTrial(r)]
CancelOwed ==
    /\ Changes
    /\ CanCancel
    /\ task' = "pending"
    /\ subs' = [subs EXCEPT !["web"] = OwesCancel(@)]
    /\ UNCHANGED <<web, resumed, apple, owned, account>>

Drained ==
    /\ Changes
    /\ task = "pending"
    /\ \/ /\ task' = "settled"
          /\ IF web.status \in Stoppable THEN WebBecomes(Stopped(web), subs["web"].tombstone)
                                         ELSE UNCHANGED <<web, resumed, subs>>
       \/ task' = "dead_lettered" /\ UNCHANGED <<web, resumed, subs>>
    /\ UNCHANGED <<apple, owned, account>>

EndTrial ==
    /\ Changes
    /\ subs["web"].status = "on_trial" /\ (subs["web"].until = 0 \/ subs["web"].until > clock)
    /\ web.status = "on_trial"
    /\ WebBecomes([Paid(web) EXCEPT !.trialEnds = clock], subs["web"].tombstone)
    /\ UNCHANGED <<apple, owned, task, account>>

Reactivate ==
    /\ Changes
    /\ subs["web"].status = "cancelled" /\ subscriptionGrants(subs["web"], clock)
    /\ web.status = "cancelled" /\ clock < web.ends
    /\ WebBecomes(Resumed(web), subs["web"].tombstone)
    /\ UNCHANGED <<apple, owned, task, account>>

\* An upgrade charges at once, a downgrade with the next renewal; either is to a plan of ours.
ChangePlan ==
    /\ Changes
    /\ CanCancel /\ subs["web"].status # "on_trial"
    /\ web.status \in {"active", "past_due"}
    /\ \E w \in {web, Paid(web)} : WebBecomes([w EXCEPT !.ours = TRUE], subs["web"].tombstone)
    /\ UNCHANGED <<apple, owned, task, account>>

\* A lifetime order: the subscription it replaces is owed a cancellation.
WebOrder ==
    /\ Changes
    /\ ~Lifetime
    /\ owned' = [owned EXCEPT !["web"] = "owned"]
    /\ IF CanCancel
       THEN task' = "pending" /\ subs' = [subs EXCEPT !["web"] = OwesCancel(@)]
       ELSE UNCHANGED <<task, subs>>
    /\ UNCHANGED <<web, resumed, apple, account>>

WebRefund ==
    /\ Changes
    /\ owned["web"] = "owned" /\ owned' = [owned EXCEPT !["web"] = "refunded"]
    /\ UNCHANGED <<web, resumed, apple, subs, task, account>>

-----------------------------------------------------------------------------
(* Apple: the snapshot RevenueCat keeps, and its projection (projectSubscriber) *)

effectiveEnd(a) == Max({a.expires, a.grace})

\* mutant: an auto-renewal that is turned off reads as a cancellation
StatusCancelling(a) ==
    IF a.unsubscribed /\ effectiveEnd(a) > clock THEN "cancelled"
    ELSE IF a.refunded \/ effectiveEnd(a) <= clock THEN "expired"
    ELSE IF a.trial THEN "on_trial" ELSE "active"

statusForSubscription(a) ==
    CASE a.refunded \/ effectiveEnd(a) <= clock -> "expired"
      [] ~a.refunded /\ a.grace > clock -> "past_due"
      [] OTHER -> IF a.trial THEN "on_trial" ELSE "active"

AppleRow(a) ==
    IF a.expires = 0 THEN NoRow
    ELSE [NoRow EXCEPT !.status = statusForSubscription(a), !.until = effectiveEnd(a), !.heard = clock,
                       !.trialEnds = IF a.trial THEN effectiveEnd(a) ELSE 0]

\* A lifetime no entitlement names is refunded, unless a live subscription may be hiding it.
LiveSubElsewhere(a) == a.expires # 0 /\ statusForSubscription(a) # "expired"
Taken(a, l) == l \in a.taken \/ (a.dropped /\ ~LiveSubElsewhere(a))
LifetimeRow(a, l, now) ==
    CASE l \notin a.life -> now
      [] l \in a.life /\ Taken(a, l) -> "refunded"
      [] OTHER -> "owned"

Sync(a) ==
    /\ apple' = a
    /\ subs' = [subs EXCEPT !["apple"] = AppleRow(a)]
    /\ owned' = [l \in Licences |-> IF l = "web" THEN owned[l] ELSE LifetimeRow(a, l, owned[l])]

AppleMoves(a) ==
    UNION {
        IF a.expires <= clock \/ a.refunded
            THEN {[a EXCEPT !.expires = clock + TRIAL, !.trial = TRUE, !.grace = 0,
                            !.unsubscribed = FALSE, !.refunded = FALSE],
                  [a EXCEPT !.expires = clock + PERIOD, !.trial = FALSE, !.grace = 0,
                            !.unsubscribed = FALSE, !.refunded = FALSE]}
            ELSE {},
        IF a.expires >= clock /\ a.grace = 0 /\ ~a.unsubscribed
            THEN {[a EXCEPT !.grace = a.expires + 1]} ELSE {},
        IF a.expires # 0 /\ ~a.refunded THEN {[a EXCEPT !.refunded = TRUE]} ELSE {},
        {[a EXCEPT !.life = @ \union {l}, !.taken = @ \ {l}, !.dropped = FALSE] :
            l \in {"apple", "sandbox"} \ (a.life \ a.taken)},
        {[a EXCEPT !.taken = @ \union {l}] : l \in a.life \ a.taken},
        IF a.life # {} /\ ~a.dropped THEN {[a EXCEPT !.dropped = TRUE]} ELSE {} }

AppleChanges ==
    /\ Changes
    /\ \E a \in AppleMoves(apple) \union {apple} : Sync(a)      \* or a refresh of what is there
    /\ UNCHANGED <<web, resumed, task, account>>

\* The customer turns Apple's automatic renewal off, or on again.
ToggleAutoRenew ==
    /\ Changes
    /\ apple.expires > clock /\ ~apple.refunded
    /\ Sync([apple EXCEPT !.unsubscribed = ~@])
    /\ UNCHANGED <<web, resumed, task, account>>

-----------------------------------------------------------------------------
(* The account, the clock and the lease *)

AccountBecomes(a) == Changes /\ account' = a /\ UNCHANGED <<web, resumed, apple, subs, owned, task>>

Comp == \E until \in {clock + 1, NoEnd} : AccountBecomes([account EXCEPT !.comp = until])
WithdrawComp == account.comp # 0 /\ AccountBecomes([account EXCEPT !.comp = 0])
Revoke == AccountBecomes([account EXCEPT !.revoked = ~@])
ClaimTrial == SignupTrial /\ account.claim = 0 /\ AccountBecomes([account EXCEPT !.claim = clock + TRIAL])
TrialReset == account.claim # 0 /\ AccountBecomes([account EXCEPT !.claim = 0])
ListTester == AccountBecomes([account EXCEPT !.tester = ~@])

\* GET /api/entitlement: nothing but the cache is written, and never with a gift in it.
Resolve(on) ==
    /\ lease' = [on |-> on, pro |-> Pro(on, clock),
                 expires |-> IF Pro(on, clock) THEN expiryFor(on, clock) ELSE 0]
    /\ cached' = Pro("other", clock)
    /\ UNCHANGED <<clock, rows, resumed, changes>>

AccessTick == clock < AccessHorizon /\ clock' = clock + 1 /\ UNCHANGED <<rows, resumed, lease, cached, changes>>

AccessNext ==
    \/ WebChanges \/ WebBuys \/ Cancel \/ CancelOwed \/ Drained \/ EndTrial \/ Reactivate \/ ChangePlan
    \/ WebOrder \/ WebRefund \/ AppleChanges \/ ToggleAutoRenew
    \/ Comp \/ WithdrawComp \/ Revoke \/ ClaimTrial \/ TrialReset \/ ListTester
    \/ \E on \in Platforms : Resolve(on)
    \/ AccessTick

AccessSpec == AccessInit /\ [][AccessNext]_accessVars

-----------------------------------------------------------------------------
(* Properties *)

\* The lease and the server agree.  While no row changes, a lease that still runs
\* never says more than the server would; and whoever has access gets a lease that
\* runs, because its boundary comes from what grants and from nothing else.  (A
\* free pause without a date grants past its boundary.)
LeaseIsTrue ==
    /\ lease.pro /\ clock < lease.expires => Pro(lease.on, clock)
    /\ \A on \in Platforms :
          Pro(on, clock) => \/ expiryFor(on, clock) > clock
                            \/ \E p \in Granters(clock) : subs[p].status = "paused" /\ subs[p].until = 0

\* Access has a cause.  Time takes it away and never gives it, so a cancelled
\* trial does not come back when its days are over; and turning Apple's automatic
\* renewal off or on moves nobody's access.
AccessHasACause ==
    [][\A on \in Platforms :
          /\ clock' # clock => (Pro(on, clock') => Pro(on, clock))
          /\ apple' = [apple EXCEPT !.unsubscribed = ~@] => (Pro(on, clock) <=> Pro(on, clock)')]_accessVars

\* What can charge is seen.  It stands in the way of a second subscription on every
\* platform (but for a trial that was cut off and taken up again at the provider's
\* portal, whose cancellation the code holds confirmed), and the settings screen
\* describes it, that one too, with a button that cancels it and will not be
\* refused, unless an Apple subscription is described in its place.
ChargesAreSeen ==
    web.status \in {"on_trial", "active", "past_due", "paused"} =>
        /\ resumed \/ \A on \in Platforms : ~RecurringOffered(on)
        /\ Described # {}
        /\ \A p \in Described : p = "apple" \/ (cancellable(p) /\ CanCancel)
=============================================================================
