---------------------------- MODULE RevenueCatSync ----------------------------
(*****************************************************************************)
(* One App Store purchase mirrored from RevenueCat: the provider moves and   *)
(* refunds it and sends events; webhook deliveries and refresh requests      *)
(* fetch a subscriber anew, take or dispute the claim on it, and write the   *)
(* account's row.  What the fetched JSON means is AccountAccess.tla's.       *)
(*                                                                           *)
(* An account's subscriber is named by its original_app_user_id, origin[u];  *)
(* two accounts of one origin fetch the same subscriber.                     *)
(*                                                                           *)
(* SubscriptionMirrorProofs.tla extends this module beside the other mirror, *)
(* whose names it therefore leaves alone.                                    *)
(*****************************************************************************)
EXTENDS Naturals, Sequences, FiniteSets

CONSTANTS
    Users,          \* the accounts, and so the app user ids
    Nobody,         \* no account
    Syncers,        \* handlers running at once
    Clients,        \* those that serve refresh requests, not deliveries
    MaxEvents       \* bound on what happens at RevenueCat

ASSUME SyncAssumption == Nobody \notin Users /\ Clients \subseteq Syncers /\ MaxEvents \in Nat

VARIABLES
    origin,         \* original_app_user_id of each account's subscriber
    holder,         \* RevenueCat: the subscriber that has the purchase
    refunded,       \* RevenueCat: the purchase was refunded
    events,         \* what RevenueCat sent, oldest first
    status,         \* the WebhookEvent row of each; open: processing or failed
    claim,          \* RcSubscriberClaim, by original_app_user_id
    purchase,       \* the account's Purchase row
    gone,           \* accounts that were deleted
    place, ev, todo, snap, owner,  \* each handler: place, event, accounts to sync,
                                \* what it fetched, the claim it read
    written,        \* observed: the latest fetch each account was synced from
    moved,          \* observed: the latest TRANSFER whose claims were moved
    unread,         \* observed: accounts RevenueCat did not name, could not find, whose
                    \* sync failed or wrote what was overtaken, and not read since
    disordered      \* observed: a TRANSFER moved claims, or named nobody any more,
                    \* after a later one had moved them

revenuecat == <<origin, holder, refunded, events>>
handler == <<place, ev, todo, snap, owner>>
hindsight == <<written, moved, unread, disordered>>
syncVars == <<revenuecat, status, claim, purchase, gone, handler, hindsight>>

Done == {"processed", "skipped"}
Event == [kind : {"PURCHASE", "REFUND", "TRANSFER"}, from : Users, to : Users]

\* life: what the subscriber says of the purchase; at: how much had happened at
\* RevenueCat when it was asked; read: the answer was understood (authoritative).
Snapshot == [life : {"absent", "granting", "refunded"}, read : BOOLEAN, at : 0..MaxEvents]
Unfetched == [life |-> "absent", read |-> FALSE, at |-> 0]

SyncTypeOK ==
    /\ origin \in [Users -> Users]
    /\ holder \in Users \union {Nobody} /\ refunded \in BOOLEAN
    /\ events \in Seq(Event) /\ Len(events) <= MaxEvents
    /\ status \in [1..MaxEvents -> {"none", "open"} \union Done]
    /\ claim \in [Users -> Users \union {Nobody}]
    /\ purchase \in [Users -> {"none", "granting", "revoked"}]
    /\ gone \subseteq Users /\ unread \subseteq Users
    /\ place \in [Syncers -> {"idle", "fetch", "claim", "judge", "mirror", "mark"}]
    /\ ev \in [Syncers -> 0..MaxEvents]
    /\ todo \in [Syncers -> Seq(Users)]
    /\ snap \in [Syncers -> Snapshot]
    /\ owner \in [Syncers -> Users \union {Nobody}]
    /\ written \in [Users -> 0..MaxEvents] /\ moved \in 0..MaxEvents /\ disordered \in BOOLEAN
    /\ \A e \in 1..MaxEvents : status[e] # "none" => e <= Len(events)
    \* an event is never finished while it still has accounts to sync
    /\ \A w \in Syncers : place[w] = "mark" <=> place[w] # "idle" /\ todo[w] = <<>>

SyncInit ==
    \* every account its own subscriber, or all of them one
    /\ origin \in {[u \in Users |-> u]} \union {[u \in Users |-> v] : v \in Users}
    /\ holder = Nobody /\ refunded = FALSE /\ events = <<>>
    /\ status = [e \in 1..MaxEvents |-> "none"]
    /\ claim = [u \in Users |-> Nobody]
    /\ purchase = [u \in Users |-> "none"]
    /\ gone = {}
    /\ place = [w \in Syncers |-> "idle"] /\ ev = [w \in Syncers |-> 0]
    /\ todo = [w \in Syncers |-> <<>>] /\ snap = [w \in Syncers |-> Unfetched]
    /\ owner = [w \in Syncers |-> Nobody]
    /\ written = [u \in Users |-> 0] /\ moved = 0 /\ unread = {} /\ disordered = FALSE

Has(u) == holder = origin[u]
Aliases(u) == {v \in Users : origin[v] = origin[u]}

-----------------------------------------------------------------------------
(* RevenueCat.  Its event names one account, whoever else shares the         *)
(* subscriber; only those who do not hear of a change are unread.            *)

Happens(kind, from, to) ==
    /\ Len(events) < MaxEvents
    /\ events' = Append(events, [kind |-> kind, from |-> from, to |-> to])
    /\ unread' = unread \union ((Aliases(from) \union Aliases(to)) \ {from, to})
    /\ UNCHANGED <<origin, status, claim, purchase, gone, handler, written, moved, disordered>>

Buy(u) ==
    /\ holder = Nobody /\ u \notin gone
    /\ holder' = origin[u]
    /\ UNCHANGED refunded
    /\ Happens("PURCHASE", u, u)

Refund(u) ==
    /\ Has(u) /\ ~refunded
    /\ refunded' = TRUE
    /\ UNCHANGED holder
    /\ Happens("REFUND", u, u)

\* The Apple ID restores on an account of another subscriber.
Restore(u, from) ==
    /\ holder # Nobody /\ ~Has(u) /\ Has(from) /\ u \notin gone
    /\ holder' = origin[u]
    /\ UNCHANGED refunded
    /\ Happens("TRANSFER", from, u)

\* What GET /v1/subscribers tells: the state, or a 404.
Fetched(u) ==
    {[life |-> IF ~Has(u) THEN "absent" ELSE IF refunded THEN "refunded" ELSE "granting",
      read |-> TRUE, at |-> Len(events)],
     Unfetched}

-----------------------------------------------------------------------------
(* The webhook: claim the event, move the claims of a TRANSFER, sync each  *)
(* account it names, mark the event                                        *)

MovesTo(w, p) == place' = [place EXCEPT ![w] = p]

\* candidateUserIds: whom the event names, where the account exists
Living(u) == IF u \in gone THEN <<>> ELSE <<u>>
Known(e) == IF events[e].kind = "TRANSFER" THEN Living(events[e].to) \o Living(events[e].from)
            ELSE Living(events[e].to)

\* What the losing account had claimed is the receiving one's.
ClaimsMoved(e) ==
    [o \in Users |-> IF claim[o] = events[e].from THEN events[e].to ELSE claim[o]]

\* A later TRANSFER was delivered before.
OutOfOrder(e) == events[e].kind = "TRANSFER" /\ e < moved

\* A delivery of an event that is not finished.  One that names no account is.
Skip(w, e) ==
    /\ place[w] = "idle" /\ w \notin Clients /\ e <= Len(events) /\ status[e] \notin Done
    /\ Known(e) = <<>>
    /\ status' = [status EXCEPT ![e] = "skipped"]
    /\ disordered' = (disordered \/ OutOfOrder(e))
    /\ UNCHANGED <<revenuecat, claim, purchase, gone, handler, written, moved, unread>>

Deliver(w, e) ==
    LET transfer == events[e].kind = "TRANSFER"
    IN  /\ place[w] = "idle" /\ w \notin Clients /\ e <= Len(events) /\ status[e] \notin Done
        /\ Known(e) # <<>>
        /\ status' = [status EXCEPT ![e] = "open"]
        /\ claim' = IF transfer THEN ClaimsMoved(e) ELSE claim
        /\ MovesTo(w, "fetch")
        /\ ev' = [ev EXCEPT ![w] = e]
        /\ todo' = [todo EXCEPT ![w] = Known(e)]
        /\ moved' = IF transfer /\ e > moved THEN e ELSE moved
        /\ disordered' = (disordered \/ OutOfOrder(e))
        /\ UNCHANGED <<revenuecat, purchase, gone, snap, owner, written, unread>>

\* POST /api/billing/revenuecat/refresh, and the RevenueCat leg of /resync
Refresh(w, u) ==
    /\ place[w] = "idle" /\ w \in Clients /\ u \notin gone
    /\ MovesTo(w, "fetch")
    /\ ev' = [ev EXCEPT ![w] = 0]
    /\ todo' = [todo EXCEPT ![w] = <<u>>]
    /\ UNCHANGED <<revenuecat, status, claim, purchase, gone, snap, owner, hindsight>>

MarkEvent(w) ==
    /\ place[w] = "mark"
    /\ MovesTo(w, "idle")
    /\ status' = [status EXCEPT ![ev[w]] = IF @ \in Done THEN @ ELSE "processed"]
    /\ ev' = [ev EXCEPT ![w] = 0]
    /\ UNCHANGED <<revenuecat, claim, purchase, gone, todo, snap, owner, hindsight>>

\* RevenueCat cannot be reached, or the process dies: an event stays open for its
\* redelivery, a refresh is for the client to repeat.
Fail(w) ==
    /\ place[w] # "idle"
    /\ MovesTo(w, "idle")
    /\ ev' = [ev EXCEPT ![w] = 0]
    /\ todo' = [todo EXCEPT ![w] = <<>>]
    /\ snap' = [snap EXCEPT ![w] = Unfetched]
    /\ owner' = [owner EXCEPT ![w] = Nobody]
    /\ unread' = unread \union {todo[w][i] : i \in 1..Len(todo[w])}
    /\ UNCHANGED <<revenuecat, status, claim, purchase, gone, written, moved, disordered>>

-----------------------------------------------------------------------------
(* syncUserFromRevenueCat *)

\* mutant: an answer that was not understood counts as an empty subscriber
FetchTrusting(w) ==
    /\ place[w] = "fetch"
    /\ \E a \in Fetched(Head(todo[w])) :
          /\ snap' = [snap EXCEPT ![w] = [a EXCEPT !.read = TRUE, !.at = Len(events)]]
          /\ MovesTo(w, IF a.life = "absent" THEN "mirror" ELSE "claim")
    /\ UNCHANGED <<revenuecat, status, claim, purchase, gone, ev, todo, owner, hindsight>>

\* An empty plan has nothing to claim.
Fetch(w) ==
    /\ place[w] = "fetch"
    /\ \E a \in Fetched(Head(todo[w])) :
          /\ snap' = [snap EXCEPT ![w] = a]
          /\ MovesTo(w, IF a.life = "absent" THEN "mirror" ELSE "claim")
    /\ UNCHANGED <<revenuecat, status, claim, purchase, gone, ev, todo, owner, hindsight>>

\* Take the claim or read whose it is; the unique index decides between two.
ClaimSubscriber(w) ==
    LET u == Head(todo[w])
        o == origin[u]
    IN  /\ place[w] = "claim"
        /\ claim' = IF claim[o] = Nobody THEN [claim EXCEPT ![o] = u] ELSE claim
        /\ owner' = [owner EXCEPT ![w] = claim'[o]]
        /\ MovesTo(w, IF claim'[o] = u THEN "mirror" ELSE "judge")
        /\ UNCHANGED <<revenuecat, status, purchase, gone, ev, todo, snap, hindsight>>

\* The answer is older than one this account was already synced from.
Overtaken(w) == snap[w].read /\ snap[w].at < written[Head(todo[w])]

\* What a handler is about to write has been overtaken: by a later fetch, or by the
\* claim, which went elsewhere since it was read.
Stale(w) ==
    LET held == claim[origin[Head(todo[w])]]
    IN  \/ place[w] = "judge" /\ held # owner[w]
        \/ place[w] = "mirror" /\ Overtaken(w)
        \/ place[w] = "mirror" /\ snap[w].life = "granting" /\ held # Head(todo[w])

\* mutant: a TRANSFER syncs the receiving account only
SyncedFirst(w, s) ==
    /\ todo' = [todo EXCEPT ![w] = Tail(todo[w])]
    /\ MovesTo(w, IF ev[w] = 0 THEN "idle" ELSE "mark")
    /\ snap' = [snap EXCEPT ![w] = Unfetched]
    /\ owner' = [owner EXCEPT ![w] = Nobody]
    /\ unread' = IF ~s.read \/ Stale(w) THEN unread \union {Head(todo[w])}
                 ELSE IF s.at = Len(events) THEN unread \ {Head(todo[w])} ELSE unread
    /\ written' = [written EXCEPT ![Head(todo[w])] = IF s.read /\ @ < s.at THEN s.at ELSE @]
    /\ UNCHANGED <<revenuecat, status, gone, ev, moved, disordered>>

\* The sync of the first account in todo is over, from snapshot s.
Synced(w, s) ==
    /\ todo' = [todo EXCEPT ![w] = Tail(todo[w])]
    /\ MovesTo(w, IF Len(todo[w]) > 1 THEN "fetch" ELSE IF ev[w] = 0 THEN "idle" ELSE "mark")
    /\ snap' = [snap EXCEPT ![w] = Unfetched]
    /\ owner' = [owner EXCEPT ![w] = Nobody]
    /\ unread' = IF ~s.read \/ Stale(w) THEN unread \union {Head(todo[w])}
                 ELSE IF s.at = Len(events) THEN unread \ {Head(todo[w])} ELSE unread
    /\ written' = [written EXCEPT ![Head(todo[w])] = IF s.read /\ @ < s.at THEN s.at ELSE @]
    /\ UNCHANGED <<revenuecat, status, gone, ev, moved, disordered>>

\* The claim is a deleted account's: it is adopted, from whoever has it by now.
Adopt(w) ==
    LET u == Head(todo[w])
        held == claim[origin[u]]
    IN  /\ place[w] = "judge" /\ owner[w] \in gone
        /\ claim' = [claim EXCEPT ![origin[u]] = u]
        /\ MovesTo(w, "mirror")
        /\ unread' = IF held = owner[w] THEN unread ELSE unread \union ({held} \ {u, Nobody})
        /\ UNCHANGED <<revenuecat, status, purchase, gone, ev, todo, snap, owner, written, moved,
                       disordered>>

\* A living account's: whatever the caller held is revoked.
Conflict(w) ==
    LET u == Head(todo[w])
    IN  /\ place[w] = "judge" /\ owner[w] \notin gone
        /\ purchase' = [purchase EXCEPT ![u] = IF @ = "none" THEN @ ELSE "revoked"]
        /\ Synced(w, snap[w])
        /\ UNCHANGED claim

\* mutant: the snapshot is only ever added, nothing is swept
MirrorAdding(w) ==
    LET u == Head(todo[w])
        s == snap[w]
    IN  /\ place[w] = "mirror"
        /\ purchase' = CASE s.life = "granting" -> [purchase EXCEPT ![u] = "granting"]
                    [] s.life = "refunded" -> [purchase EXCEPT ![u] = "revoked"]
                    [] OTHER -> purchase
        /\ Synced(w, s)
        /\ UNCHANGED claim

\* Upsert what the snapshot has, sweep what it has not, nothing after a 404.
Mirror(w) ==
    LET u == Head(todo[w])
        s == snap[w]
    IN  /\ place[w] = "mirror"
        /\ purchase' = CASE s.life = "granting" -> [purchase EXCEPT ![u] = "granting"]
                    [] s.life = "refunded" -> [purchase EXCEPT ![u] = "revoked"]
                    [] s.life = "absent" /\ s.read /\ purchase[u] # "none" ->
                           [purchase EXCEPT ![u] = "revoked"]
                    [] OTHER -> purchase
        /\ Synced(w, s)
        /\ UNCHANGED claim

\* The account and its rows go; the claim stays.  Bound: an account is left.
AccountDeleted(u) ==
    /\ u \notin gone /\ gone \union {u} # Users
    /\ gone' = gone \union {u}
    /\ purchase' = [purchase EXCEPT ![u] = "none"]
    /\ UNCHANGED <<revenuecat, status, claim, handler, hindsight>>

Handler(w) ==
    \/ \E e \in 1..MaxEvents : Skip(w, e) \/ Deliver(w, e)
    \/ \E u \in Users : Refresh(w, u)
    \/ Fetch(w) \/ ClaimSubscriber(w) \/ Adopt(w) \/ Conflict(w) \/ Mirror(w) \/ MarkEvent(w) \/ Fail(w)

SyncNext ==
    \/ \E u \in Users : Buy(u) \/ Refund(u) \/ AccountDeleted(u)
    \/ \E u, from \in Users : Restore(u, from)
    \/ \E w \in Syncers : Handler(w)

SyncSpec == SyncInit /\ [][SyncNext]_syncVars

-----------------------------------------------------------------------------
(* Properties *)

Granted(u) == purchase[u] = "granting"

\* The subscriber has the purchase, and nobody else's claim stands against it; nobody's
\* can between accounts with a subscriber each, if TRANSFERs were delivered in order.
Unclaimable == (\E u, v \in Users : origin[u] # origin[v]) /\ ~disordered
Bought(u) == Has(u) /\ ~refunded
Due(u) == Bought(u) /\ (claim[origin[u]] = u \/ Unclaimable)

Answered == \A e \in 1..Len(events) : status[e] \in Done
AtRest == Answered /\ \A w \in Syncers : place[w] = "idle"

\* However deliveries were reordered, repeated, failed half way or run beside
\* refreshes: once RevenueCat's events are answered, a living account is granted
\* the purchase only if its subscriber has it, unrefunded, and is granted it then unless
\* another account has the claim, by a TRANSFER applied out of order or by sharing the
\* subscriber; and one purchase never funds two accounts.  An account last written on
\* an overtaken answer or claim is out until the next sync that is up to date.
RestIsTrue ==
    AtRest =>
        /\ \A u \in Users \ (gone \union unread) :
              (Granted(u) => Bought(u)) /\ (Due(u) => Granted(u))
        /\ \A u, v \in Users \ (gone \union unread) : Granted(u) /\ Granted(v) => u = v

\* Access that was paid for, with every event of the account answered, is never
\* withdrawn by a 404, a failure, a repeated delivery or a dispute over the claim: only
\* by a handler that writes what has been overtaken ("last writer wins"), and then the
\* account counts as unread until it is synced again.
PaidAccessStands ==
    [][\A u \in Users \ (gone \union unread) :
          (/\ Granted(u) /\ Bought(u) /\ claim[origin[u]] = u /\ purchase'[u] = "revoked"
           /\ \A e \in 1..Len(events) : u \in {events[e].from, events[e].to} => status[e] \in Done)
            => /\ u \in unread'
               /\ \E w \in Syncers : /\ todo[w] # <<>> /\ Head(todo[w]) = u /\ Stale(w)
                                     /\ todo'[w] = Tail(todo[w])]_syncVars

=============================================================================
