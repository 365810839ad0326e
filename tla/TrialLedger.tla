----------------------------- MODULE TrialLedger -----------------------------
(***************************************************************************)
(* The ledger of free trials -- one window per machine, outliving the      *)
(* account that took it -- and the App Store's lifetime purchase, which    *)
(* one account owns at a time.                                             *)
(*                                                                         *)
(* A claim is found again by its account, by the device id the client      *)
(* keeps (and may lose), by the machine's hardware, or by the Apple ID     *)
(* whose transaction made it.  Every handler is a sequence of database     *)
(* calls that others run between.  The free trial is switched on, and the  *)
(* clock-skew counters, which nothing reads, are left out.                 *)
(*                                                                         *)
(* SignInProofs.tla extends this module beside SignIn, whose names it      *)
(* therefore leaves alone.                                                 *)
(***************************************************************************)
EXTENDS Naturals, Sequences, FiniteSetsExt

CONSTANTS
    Accounts, Machines,
    Ids,            \* device ids ever stored on a machine
    MachineOf,      \* the machine each was stored on
    Apples,         \* Apple IDs, by their original transaction
    Callers,
    None,
    BINDING,        \* deviceBindingEnforced
    Dates,          \* when a window may end; any order, since a transaction may be old
    MaxClaims, MaxCalls

ASSUME LedgerAssumption ==
    /\ MachineOf \in [Ids -> Machines]
    /\ None \notin Accounts \union Machines \union Ids \union Apples
    /\ BINDING \in BOOLEAN
    /\ Dates \subseteq Nat \ {0}
    /\ MaxClaims \in Nat /\ MaxCalls \in Nat

VARIABLES
    claims,         \* the TrialClaim rows in the order of createdAt
    rows,           \* the DeviceSignal rows, by recording, in the order of firstSeenAt;
                    \* a recording that was deleted keeps its place and holds nothing
    account,        \* each account: not yet, here, gone
    stamp,          \* User.trialEndsAt, 0 for null
    purchase,       \* the App Store lifetime Purchase row: its owner, or None
    run,            \* what each handler is doing
    calls,          \* requests made so far
    parting,        \* accounts whose owner has asked for their deletion
    spoiled         \* machines of which a claim overlapped, went unrecorded, or was reset

ledger == <<claims, rows>>
people == <<account, stamp, parting>>
trialVars == <<ledger, people, purchase, run, calls, spoiled>>

\* device: deviceIdHash. on: the machine whose MachineGuid came with the claim.
Claim == [device : Ids \union Apples, apple : Apples \union {None}, owner : Accounts \union {None},
          ends : Dates, on : Machines \union {None}, deleted : BOOLEAN]

\* What a client can read of its hardware: nothing (or it predates all this), no
\* MachineGuid, everything. The network card may be a dock that moves around.
Readings == {{}, {"vol", "mac"}, {"mguid", "vol", "mac"}}
Signal(kind, m) == IF kind = "mac" THEN <<kind>> ELSE <<kind, m>>
Signals(kinds, m) == {Signal(kind, m) : kind \in kinds}
Kinds == {"mguid", "vol", "mac"}
Recording == [claim : Nat, signals : SUBSET UNION {Signals(Kinds, m) : m \in Machines}]

ClaimPlaces == {"signup", "find", "match", "create", "winner", "record"}
Transacts == {"apple", "applecreate", "govern", "stamp"}
Clears == {"unsign", "unclaim", "unstamp"}
TrialPlaces == {"idle", "upsert", "leave"} \union ClaimPlaces \union Transacts \union Clears

\* c: the claim in hand. set: the claims a reset listed. from: the purchase's
\* owner as read; adopt: was that owner gone?
Caller == [at : TrialPlaces, a : Accounts \union {None}, id : Ids \union Apples \union {None},
           kinds : Readings, apple : Apples \union {None}, c : 0 .. MaxClaims,
           set : SUBSET (1 .. MaxClaims), from : Accounts \union {None}, adopt : BOOLEAN]
AtRest == [at |-> "idle", a |-> None, id |-> None, kinds |-> {}, apple |-> None, c |-> 0,
           set |-> {}, from |-> None, adopt |-> FALSE]

Live == {i \in DOMAIN claims : ~claims[i].deleted}

TrialTypeOK ==
    /\ claims \in Seq(Claim) /\ Len(claims) <= MaxClaims
    /\ rows \in Seq(Recording) /\ \A n \in DOMAIN rows : rows[n].claim \in DOMAIN claims
    /\ account \in [Accounts -> {"no", "here", "gone"}]
    /\ stamp \in [Accounts -> Dates \union {0}]
    /\ purchase \in Accounts \union {None}
    /\ run \in [Callers -> Caller]
    /\ calls \in 0 .. MaxCalls
    /\ parting \subseteq Accounts
    /\ spoiled \subseteq Machines
    \* deviceIdHash is unique
    /\ \A i, j \in Live : claims[i].device = claims[j].device => i = j

TrialInit ==
    /\ claims = <<>> /\ rows = <<>>
    \* some accounts are older than the ledger
    /\ account \in [Accounts -> {"no", "here"}]
    /\ stamp = [a \in Accounts |-> 0]
    /\ purchase = None
    /\ run = [h \in Callers |-> AtRest]
    /\ calls = 0
    /\ parting = {} /\ spoiled = {}

Moves(h, place) == run' = [run EXCEPT ![h].at = place]
Takes(h, place, c) == run' = [run EXCEPT ![h].at = place, ![h].c = c]
Finishes(h) == run' = [run EXCEPT ![h] = AtRest]

\* A request arrives.
Arrives(h, fields) ==
    /\ run[h] = AtRest
    /\ calls < MaxCalls /\ calls' = calls + 1
    /\ run' = [run EXCEPT ![h] = fields]

-----------------------------------------------------------------------------
(* Which claim governs *)

\* mutant: the latest of the matching claims
Latest(found) == IF found = {} THEN 0 ELSE Max(found)

\* Oldest first, so that identities gathered later bring nothing.
Oldest(found) == IF found = {} THEN 0 ELSE Min(found)

\* findClaim: the account's or the device's.
FindClaim(id, a) == Oldest({i \in Live : claims[i].owner = a \/ claims[i].device = id})

\* The recordings for claim i that hold one of the given signals.
Seen(i, sigs) == {n \in DOMAIN rows : rows[n].claim = i /\ rows[n].signals \intersect sigs # {}}

\* mutant: one signal in common, whichever, is the same machine
RecognisesAny(i, sigs) == Seen(i, sigs) # {}

\* A MachineGuid alone, or a disk and a network card together.
Recognises(i, sigs) ==
    LET kinds == {s[1] : s \in sigs \intersect UNION {rows[n].signals : n \in Seen(i, sigs)}}
    IN "mguid" \in kinds \/ {"vol", "mac"} \subseteq kinds

\* matchClaimByFingerprint: the claim seen first, whether or not it still exists.
Match(sigs) ==
    LET found == {i \in DOMAIN claims : Recognises(i, sigs)}
    IN IF found = {} THEN 0
       ELSE CHOOSE i \in found : \A j \in found : Min(Seen(i, sigs)) <= Min(Seen(j, sigs))

\* findBlockingClaimOwner: is the machine an account's that still exists?
Blocked(sigs) ==
    LET i == Match(sigs)
    IN i \in Live /\ claims[i].owner # None /\ account[claims[i].owner] = "here"

Shown(h) == Signals(run[h].kinds, MachineOf[run[h].id])

-----------------------------------------------------------------------------
(* claimTrial of trial-claim.ts, from POST /register and POST /trial *)

\* Another claim with hardware readings is under way on the machine.
Overlaps(h, m) ==
    \E g \in Callers \ {h} : /\ run[g].at \in ClaimPlaces
                             /\ run[g].kinds # {} /\ MachineOf[run[g].id] = m

Claiming(h, place, a, id, kinds) ==
    /\ Arrives(h, [AtRest EXCEPT !.at = place, !.a = a, !.id = id, !.kinds = kinds])
    /\ spoiled' = IF kinds # {} /\ Overlaps(h, MachineOf[id]) THEN spoiled \union {MachineOf[id]}
                  ELSE spoiled
    /\ UNCHANGED <<ledger, people, purchase>>

\* The binding gate is asked before the account is created.
Registers(h, a, id, kinds) ==
    /\ account[a] = "no"
    /\ ~(BINDING /\ Blocked(Signals(kinds, MachineOf[id])))
    /\ Claiming(h, "signup", a, id, kinds)

SignsUp(h) ==
    /\ run[h].at = "signup"
    /\ account' = [account EXCEPT ![run[h].a] = IF @ = "no" THEN "here" ELSE @]
    /\ IF account[run[h].a] = "no" THEN Moves(h, "find") ELSE Finishes(h)
    /\ UNCHANGED <<ledger, stamp, parting, purchase, calls, spoiled>>

\* POST /trial; a token outlives its account.
AskTrial(h, a, id, kinds) ==
    /\ account[a] # "no"
    /\ Claiming(h, "find", a, id, kinds)

\* A claim is returned, once the machine's signals are added to it.
Returns(h, c) == IF run[h].kinds # {} THEN Takes(h, "record", c) ELSE Finishes(h)

\* What is found by account or device is returned.
Finds(h) ==
    /\ run[h].at = "find"
    /\ LET c == FindClaim(run[h].id, run[h].a)
       IN IF c # 0 THEN Returns(h, c)
          ELSE Moves(h, IF run[h].kinds # {} THEN "match" ELSE "create")
    /\ UNCHANGED <<ledger, people, purchase, calls, spoiled>>

\* Next by hardware. A match that no longer exists counts as none.
Matches(h) ==
    /\ run[h].at = "match"
    /\ LET c == Match(Shown(h))
       IN IF c \in Live THEN Takes(h, "record", c) ELSE Moves(h, "create")
    /\ UNCHANGED <<ledger, people, purchase, calls, spoiled>>

\* mutant: no unique index on deviceIdHash
TakenNever(id) == FALSE

Taken(id) == \E i \in Live : claims[i].device = id

\* A fresh window, unless the device was claimed meanwhile.
CreatesClaim(h) ==
    /\ run[h].at = "create"
    /\ \/ /\ Taken(run[h].id)
          /\ Moves(h, "winner")
          /\ UNCHANGED claims
       \/ /\ ~Taken(run[h].id) /\ Len(claims) < MaxClaims
          /\ \E ends \in Dates :
                claims' = Append(claims, [device |-> run[h].id, apple |-> None, owner |-> run[h].a,
                                          ends |-> ends, deleted |-> FALSE,
                                          on |-> IF "mguid" \in run[h].kinds
                                                 THEN MachineOf[run[h].id] ELSE None])
          /\ Returns(h, Len(claims'))
    /\ UNCHANGED <<rows, people, purchase, calls, spoiled>>

\* Read the winner back.
ReadsWinner(h) ==
    /\ run[h].at = "winner"
    /\ LET c == FindClaim(run[h].id, run[h].a)
       IN IF c # 0 THEN Returns(h, c) ELSE Finishes(h)
    /\ UNCHANGED <<ledger, people, purchase, calls, spoiled>>

\* recordSignals: rows accumulate, and one that fails is only logged. Losing the
\* MachineGuid leaves the machine unrecognisable.
Records(h) ==
    /\ run[h].at = "record"
    /\ \E kinds \in SUBSET run[h].kinds :
          LET new == Signals(kinds, MachineOf[run[h].id])
                       \ UNION {rows[n].signals : n \in Seen(run[h].c, Shown(h))}
          IN /\ rows' = IF new = {} THEN rows ELSE Append(rows, [claim |-> run[h].c, signals |-> new])
             /\ spoiled' = IF "mguid" \in run[h].kinds \ kinds
                           THEN spoiled \union {MachineOf[run[h].id]} ELSE spoiled
    /\ Finishes(h)
    /\ UNCHANGED <<claims, people, purchase, calls>>

\* recordDeviceTrialConsumed, in the Lemon Squeezy webhook: an upsert that
\* updates nothing, and knows no hardware.
CardTrial(a, id) ==
    /\ account[a] # "no"
    /\ calls < MaxCalls /\ calls' = calls + 1
    /\ ~Taken(id) /\ Len(claims) < MaxClaims
    /\ \E ends \in Dates :
          claims' = Append(claims, [device |-> id, apple |-> None, owner |-> a, ends |-> ends,
                                    deleted |-> FALSE, on |-> None])
    /\ UNCHANGED <<rows, people, purchase, run, spoiled>>

-----------------------------------------------------------------------------
(* claimTrial of purchases.ts: a trial transaction of an Apple ID *)

\* Without a device id the transaction stands in for one.
PostTrial(h, a, id, x) ==
    /\ account[a] = "here"
    /\ Arrives(h, [AtRest EXCEPT !.at = "apple", !.a = a, !.apple = x, !.id = id])
    /\ UNCHANGED <<ledger, people, purchase, spoiled>>

AppleLooks(h) ==
    /\ run[h].at = "apple"
    /\ Moves(h, IF \E i \in Live : claims[i].apple = run[h].apple THEN "govern" ELSE "applecreate")
    /\ UNCHANGED <<ledger, people, purchase, calls, spoiled>>

AppleCreates(h) ==
    /\ run[h].at = "applecreate"
    /\ \/ Taken(run[h].id) /\ UNCHANGED claims
       \/ /\ ~Taken(run[h].id) /\ Len(claims) < MaxClaims
          /\ \E ends \in Dates :
                claims' = Append(claims, [device |-> run[h].id, apple |-> run[h].apple,
                                          owner |-> run[h].a, ends |-> ends, deleted |-> FALSE,
                                          on |-> None])
    /\ Moves(h, "govern")
    /\ UNCHANGED <<rows, people, purchase, calls, spoiled>>

Governs(h) ==
    /\ run[h].at = "govern"
    /\ LET c == Oldest({i \in Live : \/ claims[i].apple = run[h].apple
                                     \/ claims[i].device = run[h].id
                                     \/ claims[i].owner = run[h].a})
       IN IF c # 0 THEN Takes(h, "stamp", c) ELSE Finishes(h)
    /\ UNCHANGED <<ledger, people, purchase, calls, spoiled>>

\* Narrowing only.
Stamped(old, ends) == IF old = 0 \/ old > ends THEN ends ELSE old

\* A write that fails is swallowed, as is one of an account that has gone.
Stamps(h) ==
    /\ run[h].at = "stamp"
    /\ \/ UNCHANGED stamp
       \/ /\ account[run[h].a] = "here"
          /\ stamp' = [stamp EXCEPT ![run[h].a] = Stamped(@, claims[run[h].c].ends)]
    /\ Finishes(h)
    /\ UNCHANGED <<ledger, account, parting, purchase, calls, spoiled>>

-----------------------------------------------------------------------------
(* recordLifetime *)

\* Somebody's who is there no more.
Adopts(owner, a) == owner # None /\ owner # a /\ account[owner] # "here"

\* The owner is read, and the purchase of another living account refused.
PostLifetime(h, a) ==
    /\ account[a] = "here"
    /\ purchase \in {None, a} \/ Adopts(purchase, a)
    /\ Arrives(h, [AtRest EXCEPT !.at = "upsert", !.a = a, !.from = purchase,
                               !.adopt = Adopts(purchase, a)])
    /\ UNCHANGED <<ledger, people, purchase, spoiled>>

\* The owner is written on creation and on adoption.
Upserts(h) ==
    /\ run[h].at = "upsert"
    /\ purchase' = IF purchase = None \/ run[h].adopt THEN run[h].a ELSE purchase
    /\ Finishes(h)
    /\ UNCHANGED <<ledger, people, calls, spoiled>>

-----------------------------------------------------------------------------
(* Accounts that go, and the operator's reset *)

\* DELETE /api/me unlinks the account's claims.
UnlinkClaims(a) ==
    claims' = [i \in DOMAIN claims |-> IF claims[i].owner = a THEN [claims[i] EXCEPT !.owner = None]
                                       ELSE claims[i]]

\* Best-effort, and the console's deletion does not even try.
Departs(h, a) ==
    /\ account[a] = "here"
    /\ Arrives(h, [AtRest EXCEPT !.at = "leave", !.a = a])
    /\ UnlinkClaims(a) \/ UNCHANGED claims
    /\ parting' = parting \union {a}
    /\ UNCHANGED <<rows, account, stamp, purchase, spoiled>>

\* The row goes, its purchases by cascade.
Leaves(h) ==
    /\ run[h].at = "leave"
    /\ account' = [account EXCEPT ![run[h].a] = "gone"]
    /\ purchase' = IF purchase = run[h].a THEN None ELSE purchase
    /\ Finishes(h)
    /\ UNCHANGED <<ledger, stamp, parting, calls, spoiled>>

\* POST /users/:id/trial-reset: the account's claims are listed, ...
Resets(h, a) ==
    /\ account[a] = "here"
    /\ \E i \in Live : claims[i].owner = a
    /\ Arrives(h, [AtRest EXCEPT !.at = "unsign", !.a = a,
                               !.set = {i \in Live : claims[i].owner = a}])
    /\ spoiled' = Machines
    /\ UNCHANGED <<ledger, people, purchase>>

\* The recordings of these claims are deleted.
Erases(set) ==
    rows' = [n \in DOMAIN rows |-> IF rows[n].claim \in set THEN [rows[n] EXCEPT !.signals = {}]
                                   ELSE rows[n]]

\* ... their signals deleted, ...
Unsigns(h) ==
    /\ run[h].at = "unsign"
    /\ Erases(run[h].set)
    /\ Moves(h, "unclaim")
    /\ UNCHANGED <<claims, people, purchase, calls, spoiled>>

\* ... then they themselves, with what was recorded meanwhile, ...
Unclaims(h) ==
    /\ run[h].at = "unclaim"
    /\ Erases(run[h].set)
    /\ claims' = [i \in DOMAIN claims |-> IF i \in run[h].set THEN [claims[i] EXCEPT !.deleted = TRUE]
                                          ELSE claims[i]]
    /\ Moves(h, "unstamp")
    /\ UNCHANGED <<people, purchase, calls, spoiled>>

\* ... and the account's own window.
Unstamps(h) ==
    /\ run[h].at = "unstamp"
    /\ stamp' = [stamp EXCEPT ![run[h].a] = 0]
    /\ Finishes(h)
    /\ UNCHANGED <<ledger, account, parting, purchase, calls, spoiled>>

\* A handler dies between two calls; a claim it was recording stays unrecorded.
Abandons(h) ==
    /\ run[h].at # "idle"
    /\ spoiled' = IF run[h].at = "record" /\ "mguid" \in run[h].kinds
                  THEN spoiled \union {MachineOf[run[h].id]} ELSE spoiled
    /\ Finishes(h)
    /\ UNCHANGED <<ledger, people, purchase, calls>>

-----------------------------------------------------------------------------

\* What a verified transaction means (purchaseEffect): Apple's trial, which has the
\* Apple ID for a device where the phone sends none, or the lifetime licence.  A
\* product we do not sell and a revoked trial record nothing.
PostPurchase(h, a) ==
    \/ \E x \in Apples, id \in Ids \union Apples : id \in Ids \union {x} /\ PostTrial(h, a, id, x)
    \/ PostLifetime(h, a)

Call(h, a) ==
    \/ \E id \in Ids, kinds \in Readings : Registers(h, a, id, kinds) \/ AskTrial(h, a, id, kinds)
    \/ PostPurchase(h, a) \/ Departs(h, a) \/ Resets(h, a)

Step(h) ==
    \/ SignsUp(h) \/ Finds(h) \/ Matches(h) \/ CreatesClaim(h) \/ ReadsWinner(h) \/ Records(h)
    \/ AppleLooks(h) \/ AppleCreates(h) \/ Governs(h) \/ Stamps(h) \/ Upserts(h) \/ Leaves(h)
    \/ Unsigns(h) \/ Unclaims(h) \/ Unstamps(h) \/ Abandons(h)

TrialNext == \/ \E h \in Callers : Step(h) \/ \E a \in Accounts : Call(h, a)
             \/ \E a \in Accounts, id \in Ids : CardTrial(a, id)

TrialSpec == TrialInit /\ [][TrialNext]_trialVars

-----------------------------------------------------------------------------
(* Properties *)

\* The claim h is about to record is its account's, nobody's, its device's, or one
\* seen on hardware that does not move around.
InRightWindow(h) ==
    LET c == run[h].c
    IN \/ claims[c].owner \in {run[h].a, None}
       \/ claims[c].device = run[h].id
       \/ \E n \in DOMAIN rows : /\ rows[n].claim = c
                                 /\ (rows[n].signals \intersect Shown(h)) \ {<<"mac">>} # {}

ResetUnderWay == \E h \in Callers : run[h].at \in {"unclaim", "unstamp"}

\* Whatever is claimed, deleted or restored around it, the window that governs a
\* living account on a device stays the one it is -- but for an operator's reset,
\* and a deletion that was asked for and went no further than the claims.
WindowStands ==
    [][~ResetUnderWay =>
         \A a \in Accounts : account[a] = "here" /\ a \notin parting' =>
             \A id \in Ids : FindClaim(id, a) # 0 => FindClaim(id, a)' = FindClaim(id, a)]_trialVars

\* A machine that shows its MachineGuid starts one window, through wiped device
\* ids, new accounts and deleted ones -- unless two claims on it overlapped, its
\* signal was not recorded, or an operator reset a claim. And nobody is put in a
\* window of a machine that shares no more than a dock with theirs.
OneWindowPerMachine ==
    /\ \A i, j \in DOMAIN claims :
           i # j /\ claims[i].on = claims[j].on /\ claims[i].on # None => claims[i].on \in spoiled
    /\ \A h \in Callers :
           run[h].at = "record" /\ MachineOf[run[h].id] \notin spoiled => InRightWindow(h)

=============================================================================
