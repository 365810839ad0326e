# Verification of the WeLockIn backend

WeLockIn is an Express / Prisma / MongoDB service that sells a focus app: it mints hosted checkouts at
Lemon Squeezy, mirrors the subscriptions and purchases of two payment providers (Lemon Squeezy, RevenueCat),
decides from those mirrors what each account may use, and keeps accounts, devices, shared focus rooms and the
pushes around them. Nothing in it is a long-lived process with state of its own: every handler is a sequence
of database and provider calls, any two handlers interleave at every `await`, and a handler may die between two
calls. What is hard is therefore always the same: rows read before a call and used after it, two rows that
describe one fact, replies that are lost, webhooks that arrive late, twice or in the wrong order, limits that
are read and then written, and money that must not be charged twice or go on being charged.

This directory holds TLA+ models of the parts where that matters, TLC runs that check them on small
instances, and TLAPS proofs of the main results for every value of the constants. Source paths below are
relative to the repository root.

## Contents

| module | models | run | proved in |
| --- | --- | --- | --- |
| `Acquisition` | abstract: what a checkout promises an account | (property of `checkout`) | `CheckoutProofs` |
| `Checkout` | `routes/checkout.ts`, `lib/checkout-intent.ts`, the provider's links, the payment's webhook | `checkout` | `CheckoutProofs` |
| `BillingOutbox` | `lib/billing-tasks.ts` with its callers in `me.ts`, `admin.ts`, `webhooks-lemonsqueezy.ts`, `cron.ts` | `outbox` | `BillingOutboxProofs` |
| `SubscriptionMirror` | Lemon Squeezy's subscription webhooks, event claims, `/checkout/confirm`, `/subscription/cancel`, `/reactivate`, account deletion, the `ConsumedOrder` ledger | `mirror` | `SubscriptionMirrorProofs` |
| `RevenueCatSync` | `lib/revenuecat.ts`, `routes/webhooks-revenuecat.ts`, the refresh of `routes/billing.ts` | `revenuecat` | `SubscriptionMirrorProofs` |
| `AccountAccess` | `lib/entitlement.ts`, `lib/subscription.ts`, `routes/entitlement.ts`, the handlers that write the rows they read | `access` | `CheckoutProofs` |
| `TrialLedger` | `lib/trial-claim.ts`, `lib/fingerprint.ts`, `routes/purchases.ts` | `trial_ledger` | `SignInProofs` |
| `SignIn` | `routes/auth.ts`, `routes/auth-email.ts`, `lib/signup-lifetime.ts`, `lib/lifetime-cohort.ts` | `sign_in` | `SignInProofs` |
| `SharedRoom` | abstract: what a shared room promises the people in it | (property of `study_room`) | `StudyRoomProofs` |
| `StudyRoom` | `routes/friend-focus.ts`: a room from its creation to its end | `study_room` | `StudyRoomProofs` |
| `RoomAlerts` | `routes/friend-focus.ts`: reports, pushes and polls in a running room | `room_alerts` | `PushSendsProofs` |
| `DeviceFocus` | `routes/devices.ts`, `services/focus-events.ts`, `routes/sessions.ts`, `routes/focus-invites.ts` | `device_focus` | `DeviceFocusProofs` |
| `PushSends` | `routes/notifications.ts`, `services/motivation/*`, `services/notifications/*`, `lib/expo-push.ts` | `push_sends` | `PushSendsProofs` |
| `ProtectionLock` | `routes/addiction-protection.ts`, `lib/rate-limit.ts` | `protection` | `ProtectionLockProofs` |

`MC*.tla` give TLC the symmetry sets and the definitions the `.cfg` files name; `*Proofs.tla` hold the
theorems. Four of these extend two models each: the second deals with a neighbouring part of the same story (what
an account may buy, and use; the two mirrors; the two kinds of push; the account and its trial), and its names are
chosen so that both can be extended at once (`SyncInit`, `AccessNext`, `alertVars`, `TrialTypeOK`, `Callers`).
`PROJECT.json` maps every definition to the lines it models, lists the hazards with the properties
that cover them, and gives for every property a mutant of the model that TLC finds to violate it.

    tlc -config checkout.cfg MCCheckout.tla        # any run: its .cfg and its MC module
    tlapm CheckoutProofs.tla

## Inventory

For each component: state; operations; who it talks to; what is hard; what makes it correct.

**Checkout.** State: `CheckoutIntent` rows (reserved, ready, uncertain, completed, failed, expired), one
`AcquisitionLock` row per account. Operations: eligibility, reserve, mint at the provider, settle, close on
payment. Talks to Lemon Squeezy, to its webhooks and to `/confirm`. Hard: two tabs, keyed retries, lost replies,
a clock that differs from the provider's, two rows per hold. Correct: an account never has two links it could
pay; a hold outlives its link and is not released by anybody else's event.

**Billing outbox.** State: one `BillingTask` per subscription to cancel, with attempts, backoff and claim.
Operations: enqueue, attempt inline, drain every 15 minutes, replay, dead-letter, queue from the console with
the trial's revocation. Called by account deletion, the console, the lifetime purchase. Hard: every write is by
id and unconditional except the claim; attempts, resumptions and new instructions cross. Correct: an
instruction is never lost; no account goes before its cancellation is on record; a task ends or is
dead-lettered.

**Subscription mirror.** State: `Subscription`, `WebhookEvent`, `ConsumedOrder`. Operations: claim an event,
resolve its account, mirror its state under a staleness guard, mark it; confirm, cancel, reactivate. Hard: order
and repetition of deliveries, a row that is not there yet, optimistic writes, a deletion in the middle.
Correct: no state dropped or rolled back, a cancelled trial stays cut off.

**RevenueCat.** State: `RcSubscriberClaim` (which account a subscriber funds), the account's `Purchase` and
`Subscription` rows, `WebhookEvent`. Operations: deliver, transfer claims, fetch, judge the claim, write and sweep,
refresh. Hard: nothing guards the write of a fetch, claims move with the order of deliveries, RevenueCat may
answer 404 for a subscriber it renamed. Correct: at rest the account that has the purchase and the claim, and no
other, is granted it.

**Entitlement and eligibility.** State: none of their own; they read every row that grants. Operations: resolve,
sign a lease, offer, describe, cancel, resume, grant and withdraw. Hard: a boundary taken from several rows,
statuses of two providers with different grace, rows that no longer grant and still charge. Correct: lease and
server agree; access has a cause; what can charge is seen.

**Trial claims.** State: `TrialClaim`, `DeviceSignal`, `User.trialEndsAt`, the App Store's lifetime `Purchase`.
Operations: claim (signup, `/trial`, card, Apple), record the machine, post a transaction, adopt a purchase,
delete an account, reset. Hard: wiped ids, shared docks, concurrent claims, rows that outlive their account.
Correct: one window per machine; the window of a living account stands.

**Sign-in.** State: `User`, `EmailVerification`, `PasswordReset`, the switches of the signup gift. Operations:
register, Sign in with Apple, resend, verify, forgot, reset, switch, cohort grant. Hard: retiring and creating are
two calls; a gift computed from an account read earlier; two claims of one address. Correct: the proof of an
address and nothing else releases its gift; guesses are counted and the newest code works; a link sets one
password.

**Friend focus.** State: `FriendFocusRoom`, `FriendFocusMember`, `FriendFocusEvent`, `NotificationDelivery`.
Operations: create, join, ready, start, leave (two versions), report an attempt, push it, poll. Hard: members are
rows of their own under a room whose `updatedAt` is the only lock; pushes retried behind a claim; numbers read
while others are given out. Correct: rooms are never overfull and start with everybody ready; a poll misses
nothing; a push goes out once.

**Devices, focus events, live sessions, invitations.** State: `Device`, `FocusEvent` with its quarantine,
`LiveSession`, `FocusInvite`. Operations: register, remove, report (two versions), beat, end, force-end, invite,
answer. Hard: the device is judged before the event is stored; the end of a session is two writes; answers race
the end and a retried invitation. Correct: an acknowledged answer stands; an end sweeps; a listed device's events
count.

**Notifications and motivation.** State: `PushToken`, `MotivationPreference`, `MotivationSend`,
`NotificationDelivery`. Operations: register and retire tokens, remove a device, save settings, drain, read
receipts. Hard: overlapping drains, opt-out between listing and sending, rotations that retire each other.
Correct: at most one push a day, none against an opt-out; the phone stays reachable.

**Addiction protection.** State: `ProtectionLock`, `AuthThrottle`. Operations: lock, resend, unlock, override.
Hard: limits counted in other rows, guesses read before the code is voided, windows opened twice. Correct: no lock
without somebody holding its key; guesses and mails are bounded.

**Administration** (`routes/admin.ts`): deletion, cancellation, drain and replay are in `BillingOutbox`, grants in
`AccountAccess`, the trial reset in `TrialLedger`, the cohort in `SignIn`, stopped sessions in `DeviceFocus`, the
lifted lock in `ProtectionLock`.

**Not modelled**, with the reason: *referrals* (one row per invitation and a unique index); *releases and
updates* (a manifest is one row an operator edits, picking an offer a pure comparison the repository tests case
by case); *attestation, entitlement keys, receipts' signatures* (cryptography over pure input); *onboarding,
feedback, funnel, contact, universities, analytics* (single-row writes and reporting; the funnel replaces a log
by a longer one it read, so two packets of one machine can leave the shorter until the next); *reminders of
trials and abandoned checkouts* (marked after they are sent, by design best-effort); *infrastructure* (`app.ts`,
`env.ts`, middleware, validation, Prisma, mail adapters); of the console, simulations, audit and statistics. Of the
components that are modelled partly, the notes in `PROJECT.json` name what is left out: orders and refunds of the
mirror's webhook, `/end-trial` and `/change-plan` there (they are in `AccountAccess`), the `AppleTxOwner` registry,
the settings snapshot of `/sync`, the rule engine and broadcasts of notifications, the curated list of sites.

## How the models are read

A worker, request or handler is one run of a route, or one cron process. An action is what happens between two
`await`s: at most one database call or transaction, or one provider call, with everything the code does around
it. The state a handler carries across an `await` is a variable (`seen`, `snap`, `run[h]`, `req[r]`), and it is the
carried value that is used later, as in the code. A crash is a handler that stops: without fairness every
prefix of a handler is a behaviour, and where a crash leads somewhere new (a swallowed error, a claim left
behind, a `finally`) it is an action. Variables marked observed, history or ghost (`owed`, `crossed`, `mishaps`,
`heard`, `since`, `lost`, `told`, `excused`, `passes`, `resumed`, `hindsight`) constrain nothing. Definitions under a comment `mutant:` are the plausible bugs the properties
are measured against; no specification uses them.

### Checkout, Acquisition

One account. An intent is named by the request that created it, so `Requests` are also the intents and the
links. `Arrive` and `Decide` are the two rounds of reads of `POST /api/checkout`; the instant taken between
decision and reservation is `at`, and every later expiry is computed from it. `ReserveMeets`, `ReserveTakes`
and `ReserveGivesUp` are `attemptReserve`'s transaction: a keyed intent first, else a live holder, else the
lock is taken, the holder it displaced expired; with it the provider is asked (`Sends`) for a checkout that dies
at `at + TTL`. `MarkReady`, `MarkFailed` and `MarkUncertain` are the three ends of
the provider call; they write the intent only from `reserved` and the lock only if it is still theirs. The
provider creates or refuses a checkout at any time after it was asked, also long after our timeout. A link is
payable, in the model and in the code's own reckoning, from the moment it exists. `WebhookClose`,
`RecordPayment` and `AccessEnds` (together `Fulfil`) are the payment reaching us, as often and as late as it likes. `TTL`, `MARGIN`
and `SKEW` stand for `CHECKOUT_TTL_MS`, `EXPIRY_MARGIN_MS` and the lag of the provider's clock, with
`SKEW <= MARGIN` (`ClockAssumption`): that is what the margin is for. The abstract `Acquisition` has neither clock
nor lock: links are minted one at a time and never revived.

### BillingOutbox

One subscription and its task row. `EnqueueReads` / `EnqueueWrites` / `EnqueueFails` are `enqueueCancel`, whose two
calls are apart; `InlineFinds` is `attemptForSubscription`; `Claim`, `ProviderConfirms` / `ProviderFails`, `Record` /
`RecordFails` are `claim` and `runCancel`, shared by the inline attempt and the drains. `SelfDelete` aborts unless the
instruction was recorded, `AdminDelete` does not look, `LifetimeGranted` goes on regardless. `AdminCalls`,
`AdminRevokes` and `AdminQueues` are the console's cancel. `DrainLists` applies the listing's filter (due,
below `MAX_ATTEMPTS`, unclaimed), and what it read is used after the claim, which does not look again. `Resume` is the
customer taking the subscription up again at the provider, at any moment. An instruction given after that, while somebody
still acts on what was known from before (`Crossing`: a confirmation not yet recorded, or a caller's reading of a row
that was settled since), is `crossed`: the code may lose it, and the next instruction or cancellation mends that.
Time is not counted: `LockGoesStale` and `BackoffElapses` may happen whenever they are possible.

### SubscriptionMirror

One subscription. `history` is the provider's sequence of states; a version stands for its `updated_at`, taken
to be strictly increasing. Three statuses, `on_trial`, `active` and `cancelled`, stand for all: the properties only
tell granting from cancelled and in-trial from paid. `Claim` / `Reclaim` are `claimWebhookEvent`, `Resolve` is
`resolveSubscriptionUser`, `Tombstone`, `Update`, `Lookup`, `Ledger`, `Create`, `NoteConsumed` and `Retry` are
`mirrorSubscriptionState`, one action per call, and `Mark` is `markWebhookEvent`. `event` folds "processing" and
"failed" into `owed` (both are claimed again), "processed" and "skipped" into `done`. `Confirm` enters the same
writer with the state it read. `HandlerReads` / `ProviderAgrees` / `ProviderRefuses` / `WriteBack` are
`/subscription/cancel` and `/reactivate`. `DeletionFinds` / `DeletionNotes` / `AccountGoes` are the deletion of the
account; the address may then belong to somebody else (`heir`). The code leaves four races open, recorded in
`mishaps` when they happen, so that a property can say it holds but for exactly those: `crowded` (a row that
appeared between the guarded update and the lookup is taken for a newer one), `overtaken` (an optimistic write
lands after newer news), `missed` (a cancellation in the trial met no row, or its tombstone was not written),
`unmarked` (the account went before the ledger knew of the row).

### RevenueCatSync

One App Store purchase. `Buy`, `Refund` and `Restore` are what happens at RevenueCat and the event it sends, `Fetched`
what it answers;
two accounts may share one subscriber (`origin`), which is how one Apple ID comes to serve both. `Deliver` claims
an event and, for a TRANSFER, moves the claims; `Refresh` is the client's; both put accounts in `todo` and for each
`Fetch`, `ClaimSubscriber` (read or create the claim), then `Adopt`, `Conflict` or `Mirror` follow, a call each.
`MarkEvent` / `Fail` settle the event. `written` keeps, for each account, the latest fetch that was mirrored to it.
The three races the code leaves open are not ruled out, and no behaviour is cut short after one: a handler may write
what has been overtaken by a later fetch or by the claim (`Stale`), a TRANSFER may move claims after a later one did
(`OutOfOrder`, remembered in `disordered`), a dispute may take over a claim that has meanwhile become somebody's (`Adopt`).
`unread` are the accounts whose row need not say what RevenueCat says: RevenueCat named none of their ids, their fetch
failed or was a 404, or the write was stale. An account leaves it with its next sync from an up-to-date fetch. The
properties speak of every account that is not `unread`, whatever went wrong before, and `PaidAccessStands` moreover says
which step may put an account there while it is granted what it paid for.

### AccountAccess

One account; the rows are mirrored with the change they report, since the delays are `SubscriptionMirror`'s and
`RevenueCatSync`'s. `subscriptionGrants`, `expiryFor`, `recurring`, `cancellable` and `subscriptionIsLive` keep the code's
names and are operators over rows and an instant; `Mirror` and `Sync` are the conversions from what each provider
says to what we store, with their losses (`ends_at` and `renews_at` folded into `until`, the modes of a pause, Apple's
grace). `NoEnd` is a date after every other. `Resolve` signs a lease, `Described` is what the settings screen shows,
the `*Offered` operators what the paywall may sell. The provider does not know our tombstone: its portal resumes whatever
was cancelled and has not ended (`WebMoves`), a trial we cut off included, as the comment at `lib/subscription.ts:648`
expects, and so does `/reactivate` of a row that grants. `resumed` remembers that a cut-off subscription was taken up
again, until it is cancelled again or over.

### TrialLedger

Rows are sequences in the order the code sorts them by, so "oldest" and "first seen" are positions. `FindClaim` is
the lookup by account and id, `Match` the fingerprint's, over readings that show nothing, a wiped machine's volume
and dock, or the machine's own identifier too; `{"mac"}` is what a dock lends two machines. `SignsUp` / `AskTrial` /
`CardTrial` / `PostPurchase` are the callers, `Finds` to `Records` the steps they share, `Stamps` the write of
`User.trialEndsAt`. `Departs` / `Leaves` are the deletion (claims unlinked, then the account), `Resets` to `Unstamps` the
console's three writes; a recording of signals that is erased keeps its place and holds nothing, so that positions
stay names.

### SignIn

One address. `ReadsOffer` / `Creates` are a registration, `AppleFinds` / `AppleWrites` Sign in with Apple, which looks
for the account and then links, judges again or creates. `Retires` / `Mints` issue a code in two calls, `Judges`,
`AnswersWrong`, `Exhausts`, `AnswersRight` try one, `Claims`, `SetsPassword`, `Voids` spend a link. `user.offer` is the
gift the signup reserved, `user.gift` what is released. Dates are left open: a code or a link may at any time turn out
to be too old.

### StudyRoom, SharedRoom

`Begin` is the read and the validation of `changeRoom`, after which the handler holds a snapshot; `current` is the set of
handlers whose snapshot `updatedAt` still matches, so the conditional write is `Unchallenged`, and a handler that
lost the race (`Lose`) starts again as a new request. `Ready`, `Start`, `LeaveRoom`, `LeaveV2` and `Join` are the five
mutations. `SharedRoom` is the room without any of that: whatever anybody does happens at one instant and is judged
by the room of that instant. `StudyRoom` implements it, the refinement being `status`, `hard` and `ends` of the row and
each account's `Place`.

### RoomAlerts

The room runs from instant 1 to `ENDS`, its events expire `RETENTION` later (`Kept`, the filter of the poll at
`routes/friend-focus.ts:479`). `Begin` / `Record` / `RecordKnown` are `recordAttempt` under `changeRoom`, `ClaimPush`,
`LookAgain`, `Dispatch`, `DispatchUnrecorded`, `Acknowledge`, `PushFails` and `PushDies` are `pushAttempt` with its claim,
its failures and the answers it may lose; `PollFirst`, `PollReads`, `PollRows` are the poll, whose two reads are apart;
`Pages` is the answer: the lowest numbers waiting, in order, as many as a page holds. `AccountDeleted` takes a member
with the events it reported, or the whole room with its host's account (`erased`). `since` is the cursor a client began
with: what came before it the bootstrap skips on purpose.

### DeviceFocus

`Register` to `Credits` are the device upsert and the release of its parked events, `Report` to `Stores` an event in
either version, `Beat` to `BeatsAgain` the heartbeat's emulated upsert, `End` / `Deletes` / `CancelsGhosts` / `Cancels` the end of
sessions in two writes, `Invite` to `Pushes` an invitation, `Answer` / `RecordsAnswer` an answer, `ForceEnd` the
console's. A batch of events is one request after another.

### PushSends

One slot a day, stale at the next tick; a receipt can be read a tick after its delivery and for a day.
`RegisterToken` / `Retires` are a registration and the retirement of the device's older tokens, `Silence` / `Removes` the
device's removal, `Context` to `SavesChoices` the settings (read, then written), `Drain` to `Advances` one scheduled run
for the account, `CheckReceipts` / `ReadsReceipt` the provider's late verdicts. `out` observes an acknowledged opt-out
that overlapped no other choice, `late` the days claimed while it stands.

### ProtectionLock

`Locks` and `Resends` pass the account's own limits (`OwnLimits`, which refuse or admit at will), then the recipient's
(`Bumps`, `Opens`, `Counts`, or `FailsOpen`), then `Writes` and `Posts`. `Unlocks` reads the row, `Lifts`, or `Answers`
and `Misses` / `Voids` a wrong guess. A code is a number never minted before.

## The runs

| run | what it asks | bounds |
| --- | --- | --- |
| `checkout` | two payable links? a lock freed by somebody else's event? an implementation of `Acquisition`? | 2 requests, monthly and lifetime, one key, TTL 2, MARGIN 1, SKEW 1, clock to 5 |
| `outbox` | an instruction lost? attempts at once? an account gone, or a trial cut off, with nothing on record? does a pending task end? | a deletion of each kind, a lifetime purchase, a console cancel, one drain (2 handlers at once), MAX_ATTEMPTS 2, one resumption at any moment, one replay, one fault |
| `mirror` | a state dropped? a cancelled trial granting again? | 3 provider states, one delivery process, one `/confirm`, one handler, one fault |
| `revenuecat` | does the row say at rest what was paid? what may withdraw access that was paid for? | 2 accounts that may share a subscriber, 2 handlers of which one refreshes, 3 events, every order of deliveries |
| `access` | do lease and server agree? does access come or go without a cause? can something charge unseen? | clock to 4, 4 changes, PERIOD 2, TRIAL 2, GRACE 2, leases of 3 and 1 |
| `trial_ledger` | a second window on a machine? a window that moves? | 2 accounts, 2 machines, 3 ids, 1 Apple ID, 2 handlers, 3 claims, 3 calls, one date |
| `sign_in` | a gift before its proof, or lost? a resend without a working code? a link used twice? | 2 requests, MAX_ATTEMPTS 2, 3 codes and links, 2 scopes |
| `study_room` | overfull? started unready? left against the mode? an implementation of `SharedRoom`? | 3 accounts, CAPACITY 2, 2 handlers, LIFETIME 3, DURATION 1, clock to 3, 4 memberships |
| `room_alerts` | an event missed by a poll? a push twice? | 2 members, one reports and the other, the host, polls, 2 handlers, soft mode, ENDS 3, RETENTION 1, clock to 4, COOLDOWN 1, PAGE 1, 2 events, one fault |
| `device_focus` | an answer overturned? an end that leaves something? events not counted? | 3 devices, MAX_DEVICES 2, one session, one event, 2 handlers, 5 calls |
| `push_sends` | two pushes a day? one after an opt-out? a phone whose tokens retire each other? | 2 tokens, 2 handlers, days of 2 ticks, clock to 3, 6 calls |
| `protection` | a lock without a key? guesses or mails beyond their limits? | one user, one partner, 2 handlers, cap 2, one mail an hour, clock to 1, 5 calls |

Each property is in one run, and each has a mutant of the code that this run finds.

Why the bounds are enough. Nearly every hazard is a conflict between one handler that read and another that
wrote in between: two handlers give it, a third only repeats it, and the proofs drop the bound where there are
any. Clocks run past one full hold, lifetime, day or window and into the next. In `Checkout` every conflict is
between a holder and a challenger, and the clock runs past one full hold (3) and the second's start. In
`BillingOutbox` an overlap needs two attempts, a lost instruction one caller besides an attempt, and
`MAX_ATTEMPTS` 2 reaches the dead letter after a first backoff. In `SubscriptionMirror` three states give an old, a
middle and a new one, and the way back (cancel, resume) inside a trial; a delivery process serves events one after
another in any order and again, so with `/confirm` two writers are at work at once. Three events at RevenueCat
give a purchase, its transfer and the transfer back or a refund, delivered in any order, late or twice. In `RoomAlerts`
the room runs for two instants of one cooldown each, so one actor gets two numbered events, a page of one leaves the
second for the next poll, and the last instant is past the end and the retention: a cursor that skips, an event that
slips behind a mark and one that expires unread all occur. In `AccountAccess` the durations differ so that every boundary can fall before, on and after
another, and four changes are enough for one row of each provider and a change of both. In `StudyRoom` two places
and three accounts make two joins fight for one, and four memberships let an account come back. In `TrialLedger`
two ids on one machine are a wiped client, two machines with a dock in common a wrong recognition. `MAX_OTP_ATTEMPTS`
and `MAX_ATTEMPTS` at 2 separate the first wrong answer from the last.

The runs without deadlock checks (`CHECK_DEADLOCK FALSE`) are those whose clocks or counters end; `mirror` has it on.

## Fairness

Only `outbox` assumes any (`FairSpec`): the drains are scheduled every 15 minutes (`cron.ts`), so a drain that
stays able to list the task does; time passes, so a backoff elapses and a claim left behind goes stale; a
started attempt ends, since the provider call has a timeout and `runCancel` records either way (or fails and
leaves the claim to go stale). Nothing is assumed of handlers, which may die at any point, nor of the provider,
which may refuse for ever: `OwedIsSettled` therefore promises settled or dead-lettered.

## What is proved

Every theorem is for any sets of workers, any bounds and any durations that meet the modules' assumptions, the
bounds included: they may be as large as one likes. Every type invariant and every safety property of every run is
a theorem; what remains to TLC is `OwedIsSettled`. The type invariants are proved in every proof module and so need
no run of their own where a run has none.

`CheckoutProofs`. The inductive invariant `HoldInv` strengthens `PayableIsHeld` (every payable link is covered by
the lock): besides types it says that a link exists only with its handler's instant captured (`Captured`), that
requests that have not reserved have no intent and no link (`Unreserved`), that a handler waiting for the provider
still holds or was properly displaced (`Waiting`), and that lock and intent agree (`LockAligned`). `PayableIsHeld`
alone is not inductive: taking the lock from a spent holder needs its expiry to bound the link's, which is
`LockAligned` and `Waiting`, and this is where `SKEW <= MARGIN` is used. From it: `LinksAreHeld`, `LockIsAligned`,
`AtMostOnePayable`, `LocksLeaveSafely`, `SettledIsFinal`, and `CheckoutImplementsAcquisition`: initial states map to
initial states and each step to a step of `Acquisition` or a stutter. `KeysCreateOnce` and `LinksAreAsked` rest on one
more lemma: a step changes neither an intent's key nor its plan, and only a reservation that found none of its key
creates one (`IntentsKeepTheirTerms`). `PayableIsHeld`, `LockAligned`, `SettledForGood`, `OneIntentPerKey` and
`HandedIsAsked` are proved and in no run.

`AccountAccess`, in the same module, by `AccessInv`: a date comes before `NoEnd`; the web row is the provider's
subscription as it stands (`Mirrored`), which in turn has trial days left only while it is a trial or was cancelled in
one (`GoodWeb`); while Apple's subscription runs its rows say so (`AppleTold`); who was cut off and is still charged
has a cancellation owed or given up, or took the subscription up again (`CutOffIsOwed`); and what a lease was signed for lasts as long as the lease
(`LeaseFounded`). `LeaseIsTrueHolds` follows from the last with the resolution of the same rows: a lease is clipped to
the latest boundary among the rows that granted, and the row that had it goes on granting to it. `ChargesAreSeenHolds`
needs `Mirrored` and `CutOffIsOwed`, since a row that was cut off no longer grants and only the outbox tells that it may
charge; nothing is assumed of what the portal resumes, so the blocking is claimed but for `resumed` rows, the
description and its button for all. The worst block is the first of `BLOCK_SEVERITY` that any row asks for. `AccessHasACauseHolds` compares
the resolution before and after each step: time ends what grants and starts nothing, and turning Apple's automatic
renewal off or on moves nobody's access.

`BillingOutboxProofs`. `TypeCorrect` by `RowInv` (whoever attempts the task has a row to write by id).
`LeavingIsRecorded`: rows are never removed, and a caller told "recorded" left one. `InstructionsAreNeverLost`: by the
invariant `Honest`, an instruction that did not cross has a pending task and no confirmation is under way that could
settle it; it assumes nothing of when the customer resumes. `AttemptsAreAlone`: `Undisturbed`, at most one attempt in flight and the
claim its own until a claim goes stale or is swept. `CutOffMeansStopping`: `Stopping`, whoever cut a trial off has
its cancellation confirmed or pending, or is about to queue it.

`SubscriptionMirrorProofs`. `TypeCorrect` by `TypeInv`: whoever may write the row carries a state the provider has
been in. `StatesAreMirrored` (`DoneMeansMirrored`) by `Tracked`: a worker about to mark its event, or to enter the
ledger, has left its state in the row, and the row only moves on (`RowMovesOn`) while the account is there.
`RestIsFaithful` (`QuietMeansEqual`, in no run) adds `Faithful`: a row whose version is the provider's latest has its
status. `TrialsStayCancelled` by `Cut`: whoever is past the tombstone with a cancellation of a running trial left one.
`SubscriptionsAreOwnedOnce` (`OwnedOnce`, in no run) by `Inherited`: an heir who is about to create a row passed a
ledger that did not know the subscription after the account went. The invariants name the excused races exactly as
the properties do; nothing else is assumed.

`RevenueCatSync`, in the same module, by `SyncInv`. What a handler fetched is how things are, or an event has
happened since that concerns the account (`Snaps`). An account that is named by an event that was seen to was
mirrored from a fetch as late as that event (`Settled`), one that is concerned without being named is counted
`unread` or was mirrored since (`Heard`). A row is as `RestIsTrue` has it or its account is still to be synced, by a
handler that has it in hand or a delivery to come (`RowsTrue`); at rest nobody is. Accounts share a subscriber all or
not at all, and then there is no TRANSFER (`Origins`); of those that share one, only the account with the claim is
granted the purchase (`Funded`). Whose the claims are is `Lawful`: TRANSFERs follow each other from holder to holder
(`Chain`), those later than the last one delivered are still to come (`Delivered`), and so, while they are delivered in
order, a claim that is not the account's own is the receiver's of the last one or about to move on (`Whose`); at rest no
living account with a subscriber of its own is then kept from its purchase by somebody else's claim (`DisputeEnds`). That
part is needed only for "is granted it": who is granted has the purchase, and nobody shares it, in any order.
`PaidAccessStandsHolds` goes through the one action that can withdraw, `Mirror`: what it fetched is how things are unless
an event came since, and every such event was handled, so that the account was written from a later fetch (`Settled`), which
is `Stale`. `RestIsTrueHolds` and `PaidAccessStandsHolds` are for any number of accounts,
handlers and events, which is more than the run looks at, and the proof corrected the property: with three accounts a
row may stay granted at rest under a claim that names a deleted account (see below), so that "granted if and only if
paid" had held for two accounts only. What is stated now is that whoever is granted has the purchase, who has the
purchase and the claim is granted, and nobody shares it.

`StudyRoomProofs`. `SnapInv` ties a handler to its snapshot: if it is still current, what it read is the room
(`Faithful`), and what it was allowed is what the room allows (`Judged`). Neither half is inductive alone: a
handler that is not current may have been allowed anything. With it `RoomsFit`, `RoomsStartTogether` (with
`Founded`: a room that waits has its host, unless deleted) and `DeparturesAreMeant` (with `Named`). `RoomIsShared` maps
every step of `StudyRoom` to a step of `SharedRoom` or a stutter: the conditional write is what makes the judgement
on the snapshot a judgement on the room.

`SignInProofs`. `TypeInv` adds `Held` (what a handler has in hand exists). `ProofsRelease` by `Releasing`: a handler about
to release carries the whole offer, short only of what an operator granted since. `CodesStayUsable` by `CodesInv`: a code
is exhausted only when worn out (`WornOut`), every comparison is counted (`Counted`), and the newest code is dead only
for a reason or because somebody is about to issue one (`Newest`). `LinksAreSpentOnce` by `LinksInv`: one handler at a time
holds a spent link that has set no password (`Alone`, `Once`), and whoever set one still owes the voiding (`Voided`).

`TrialLedger`, in the same module, by `TrialInv`. On a machine that is not `spoiled` one claim is under way at a time
(`OneAtATime`); a window that began with its MachineGuid is recorded, or in the hand of the handler about to record
it (`WindowsAreKnown`); whoever is about to begin one there begins the first (`CreatesTheFirst`); claims and signals are
deleted by an operator's reset alone, which spoils every machine (`OnlyResetsDelete`). `OneWindowPerMachine` is not inductive
without them: a second claim is refused because a signal is found, and that it is found depends on where every
other handler stands. `WindowStandsHolds` rests on `MinIsLeast`: the oldest claim found for an account stays the oldest
while claims are only appended. That every nonempty set of numbers has a least element comes from the library's
well-foundedness of strict inclusion among finite sets, taken at the intervals `0..x`.

`DeviceFocusProofs`. `TypeCorrect`; `AcknowledgedAnswersStand`: an answer is acknowledged by the very write that found
the row pending, and nothing writes a row that is not; `EndsSweep`: an end that was alone leaves only its second write
to do; `ListedEventsCount`: whoever lists a device is about to release what it had parked, and who judged it unlisted
stores with that verdict only as a named excuse.

`PushSendsProofs`. `TypeCorrect`: who is past the claim of a day finds its row. `PushesAreWanted` from two invariants.
`OneAtADay`: a claim is unique, so a day has one handler past it, and until that one sends nothing went out.
`OptedOut`: while an opt-out stands every choice in flight is one too, and whoever looked at the settings after its
claim does not send for a day claimed late. `PhonesStayReachable` by `Retiring`: whoever is about to retire older tokens
leaves one standing that was registered since it began, or one lost to a removal or a verdict. `StaysReachable` alone
is not inductive, since it does not say that the token that stands is younger than the retirement under way.

`RoomAlerts`, in the same module, by `AlertInv`: a transaction that can still commit has read the room's present counter
(`Fresh`), so a number is given once and above every earlier one; between its claim and its answer a handler has
the event to itself (`ClaimsTrue`); a push that went out is acknowledged, lost with its acknowledgement, or belongs to
a claim whose handler died (`Accounted`); what a client heard lies before its cursor and the cursor before the mark it
read (`Polls`), and whatever lies between where it began and its cursor it heard, since a page leaves nothing below its
last row and an event is kept until all expire together. From it `PollersMissNothingHolds`, `PushedOnceHolds`, and two facts that no run checks: recorded events are
never changed but for the state of their push (`EventsAreKept`), and no two of them have one number (`NumbersAreDistinct`).

`ProtectionLockProofs`. `TypeCorrect`: a code is one of `MaxCalls`, because the codes minted and the requests that
may still mint one are together no more than the requests counted. `KeysArePosted`: the code of a live lock was posted,
is in the hands of the request about to post it, or was lost with it, because the limits refuse before the write.
`GuessesAreFew` (`GuessesAreBounded`) by `GuessInv`: a code belongs to one row and is never minted again
(`CodesAreOwned`, `CodesAreMinted`); while it stands, the attempts of its row bound the answers given to it and stay
below the cap (`AttemptsCount`); and the answers given and those still to come are never more than the cap allows
together with the handlers (`AnswersAreBounded`). The property alone is not inductive, as it does not say who may still
answer. `CapIsBounded` (`CapHolds`) by `CapInv`, a potential: while a window is open nobody else finds it closed, so
every start of it anew uses up a request that had; what was let in, with those that bumped the counter and have not
read it and what the counter leaves, is at most `Most(m)` with `m` requests not about to start the window.

Only model-checked: `OwedIsSettled`, which needs fairness and so is beyond the prover.

## Where code and words part

Behaviours the models contain and the properties either name as an exception or do not claim. No property of a
run is violated by them.

* A keyed retry of a checkout whose provider call timed out is told "uncertain" for as long as the intent stays in
  that state, past the hold it refers to (`lib/checkout-intent.ts:192`, `:411`).
* Eligibility is read before the reservation and never under it (`routes/checkout.ts:136`), so a request that read it
  before a payment was mirrored mints a recurring link beside the live subscription.
* "Never LOSE the instruction" (`lib/billing-tasks.ts:28`) fails in two interleavings, both after the customer resumed in
  the portal: `enqueueCancel` leaves a pending row alone although an attempt on it was already confirmed, and the new
  instruction disappears when `runCancel` settles the row by its id (`:225`); and a caller that read the row as pending
  leaves it alone after it was settled in between (`:102-126`). The next instruction mends either. `NeverLost` names them
  (`crossed`) and says that nothing else loses one.
* The console's deletion goes on although the cancellation could not be written down (`routes/admin.ts:531`, `:568`);
  `DELETE /api/me` does not. `/api/me` in turn unlinks the trial claims before a deletion that may still fail
  (`routes/me.ts:196`).
* `runCancel` writes back the attempts it read before claiming (`lib/billing-tasks.ts:232`), so a stalled attempt rewinds
  a dead-lettered row, which the drains then take up again.
* Of two first deliveries that overlap, the newer may be marked skipped as stale, or consumed
  (`routes/webhooks-lemonsqueezy.ts:959`, `:964`).
* A trial's cancellation that comes before anything created the row creates it without its tombstone
  (`routes/webhooks-lemonsqueezy.ts:976`; `prisma/schema.prisma:942`).
* A card-backed trial that was cancelled goes on granting, because the ledger entry written to remember the machine
  ("nothing gates on it here", `routes/webhooks-lemonsqueezy.ts:417`) is read back by `findClaim`
  (`routes/entitlement.ts:91`).
* "The newest write is by definition the truest" (`lib/revenuecat.ts:746`), "safe under replay and reordering" (`:766`): a
  sync writes what it fetched, or acts on the claim it read, without looking whether a later sync has written since
  (`:775`). Access that was paid for is withdrawn that way, and stays so until the account's next sync.
* A TRANSFER that failed is retried after a later TRANSFER and moves the claim back (`routes/webhooks-revenuecat.ts:533`):
  the account that has the purchase is refused it as long as the other one lives. A TRANSFER all of whose accounts
  were deleted is skipped and moves no claim (`routes/webhooks-revenuecat.ts:452`): an account that a slow sync granted
  the purchase keeps it while the claim names a deleted one.
* `User.trialEndsAt` keeps the earliest window (`routes/purchases.ts:284`) while the entitlement follows the ledger
  (`routes/entitlement.ts:128`), so a device's window can be longer than its account's.
* "A revoked trial with nothing owed IS a confirmed cancellation" (`lib/subscription.ts:384`): one that the customer takes
  up again in the provider's portal (as `:648` expects) charges at its end, while `blocksNewRecurringCheckout` answers null
  for it (`:387`) and the paywall offers a second subscription. The settings screen goes on describing it with a button
  that cancels it. A subscription that was cut off as a trial, converted all the same and was cancelled later can be taken
  up by `/reactivate` too, which asks whether the row grants and not for its tombstone (`routes/subscription.ts:623`).
  `ChargesAreSeen` excuses these from the blocking (`resumed`), and nothing else.
* A trial reset unlinks signals before claims (`routes/admin.ts:968`); a claim in between leaves signals of nothing.
* A change of the weekdays that overlaps an opt-out writes back the `enabled` it read (`services/motivation/service.ts:76`).
  `sendExpoPush` repeats a transport failure itself and may push twice; receipts are matched by `createdAt`, not by the
  start of the send (`services/notifications/receipts.ts:36`).
* A registration that lists a device while one of its events is being judged leaves that event parked
  (`routes/devices.ts:52`); the emulated upsert of a heartbeat may revive the row of a session that has ended.
* A join that commits after its account was deleted leaves a member of nobody, who keeps a place.
* An unlock lifts, and an exhausted guess voids, whatever lock stands by then (`routes/addiction-protection.ts:238`, `:244`);
  a resend mails the partner it read the code of the lock it writes (`:199`). Requests that find no window open reset each
  other's counts (`lib/rate-limit.ts:83`); `CapHolds` states what is left of the limit. The curated list's `updatedAt`
  does not advance when an entry is switched off (`routes/addiction-protection.ts:53`).

## Plan

Done in this order, the behaviour that moves money first: checkout, outbox and mirror with their proofs; RevenueCat;
access; sign-in; trials; rooms and alerts; devices; pushes; protection; the abstract room; the proofs of each in turn.

What is left, in order:

1. `OrderLedger`: paid orders, refunds and the `Purchase` row of the Lemon Squeezy webhook beyond what `AccountAccess`
   has, with deliveries out of order; property: a refunded order is not granted again.
2. More refinements, for which the invariants are there: `BillingOutbox` as a task that is owed, being tried, settled or
   given up; `RoomAlerts` as a mailbox that is read in order; `TrialLedger` as one window per machine.
3. A composition of `Checkout` with `SubscriptionMirror` (payment, mirrored row, eligibility) that replaces
   `RecordPayment` and `AccessEnds` by the mirror's own actions. Each alone fills what TLC does in minutes, so this
   is one to prove first and check on the smallest instance only.
4. Liveness of the motivation schedule (a skipped day still advances the slot): the state space without symmetry is
   beyond the present bounds.
5. `UpdateTargets` and the rule engine, as operators against reference definitions.

Not planned: cryptography, reporting, input validation and wiring, which have no state to interleave.
