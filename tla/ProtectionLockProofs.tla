------------------------ MODULE ProtectionLockProofs ------------------------
(***************************************************************************)
(* Theorems about ProtectionLock, for any users, partners and handlers and *)
(* any limits.                                                             *)
(***************************************************************************)
EXTENDS ProtectionLock, FiniteSetTheorems, TLAPS

USE ProtectionAssumption DEF mail, limits

-----------------------------------------------------------------------------
(* Type correctness.  A code is one of MaxCalls because a request mints one  *)
(* at most: those that may still mint one are counted.                       *)

MayMint(q) == {h \in Handlers : q[h].op \in {"lock", "resend"} /\ q[h].code = NoCode}

\* m: the codes minted.
Placed(r, m) ==
    /\ r.at \in {"own", "bump", "open", "count", "write"} =>
           r.op \in {"lock", "resend"} /\ r.code = NoCode
    /\ r.at = "read" /\ r.op = "resend" => r.code = NoCode
    /\ r.at \in {"bump", "open", "count"} => r.sets.partner # Nobody
    /\ r.at = "post" => r.code \in Codes /\ r.code <= m

TypeInv ==
    /\ TypeOK
    /\ \A h \in Handlers : Placed(run[h], minted)
    /\ minted + Cardinality(MayMint(run)) <= calls

LEMMA UnlockedType == Unlocked \in Lock
BY DEF Unlocked, Lock, Times, Codes, NoCode

LEMMA IdleType ==
    ASSUME NEW u \in Users, NEW m
    PROVE  Idle(u) \in Handler /\ Placed(Idle(u), m) /\ Idle(u).op = "none" /\ Idle(u).at = "idle"
BY UnlockedType DEF Idle, Handler, Places, Times, Codes, NoCode, Placed

LEMMA MayMintFinite ==
    ASSUME NEW q PROVE IsFiniteSet(MayMint(q)) /\ Cardinality(MayMint(q)) \in Nat
<1>1. MayMint(q) \subseteq Handlers
    BY DEF MayMint
<1> QED BY <1>1, FS_Subset, FS_CardinalityType

LEMMA FewerMint ==
    ASSUME NEW q, NEW r, MayMint(r) \subseteq MayMint(q)
    PROVE  Cardinality(MayMint(r)) <= Cardinality(MayMint(q))
BY MayMintFinite, FS_Subset

\* A handler's step leaves every request well formed.
LEMMA RunStep ==
    ASSUME TypeInv, NEW h \in Handlers, NEW r \in Handler, run' = [run EXCEPT ![h] = r],
           minted' \in Nat, minted <= minted', Placed(r, minted')
    PROVE  run' \in [Handlers -> Handler] /\ \A g \in Handlers : Placed(run'[g], minted')
<1>1. run' \in [Handlers -> Handler] /\ \A g \in Handlers : run'[g] = IF g = h THEN r ELSE run[g]
    BY DEF TypeInv, TypeOK
<1>2. ASSUME NEW g \in Handlers, g # h PROVE Placed(run'[g], minted')
    BY <1>1, <1>2 DEF TypeInv, TypeOK, Placed, Codes
<1> QED BY <1>1, <1>2

\* A step of a request that arrived: it may mint afterwards only if it might before.
LEMMA GoingStep ==
    ASSUME TypeInv, NEW h \in Handlers, NEW r \in Handler, run' = [run EXCEPT ![h] = r],
           Placed(r, minted), UNCHANGED <<minted, calls>>,
           r.op = "none" \/ (r.op = run[h].op /\ r.code = run[h].code)
    PROVE  /\ run' \in [Handlers -> Handler] /\ \A g \in Handlers : Placed(run'[g], minted')
           /\ minted' + Cardinality(MayMint(run')) <= calls'
<1>1. minted \in Nat /\ calls \in Nat
    BY DEF TypeInv, TypeOK
<1>2. MayMint(run') \subseteq MayMint(run)
    BY DEF MayMint, TypeInv, TypeOK
<1>3. minted' = minted /\ calls' = calls
    OBVIOUS
<1>4. Cardinality(MayMint(run')) <= Cardinality(MayMint(run))
    BY <1>2, FewerMint
<1>5. Cardinality(MayMint(run)) \in Nat /\ Cardinality(MayMint(run')) \in Nat
    BY MayMintFinite
<1>6. minted + Cardinality(MayMint(run)) <= calls
    BY DEF TypeInv
<1>7. minted' + Cardinality(MayMint(run')) <= calls'
    BY <1>1, <1>3, <1>4, <1>5, <1>6
<1>8. Placed(r, minted') /\ minted' \in Nat /\ minted <= minted'
    BY <1>1, <1>3
<1> QED BY <1>7, <1>8, RunStep

LEMMA EndStep ==
    ASSUME TypeInv, NEW h \in Handlers, Ends(h), UNCHANGED <<minted, calls>>
    PROVE  /\ run' \in [Handlers -> Handler] /\ \A g \in Handlers : Placed(run'[g], minted')
           /\ minted' + Cardinality(MayMint(run')) <= calls'
<1>1. run[h].user \in Users
    BY DEF TypeInv, TypeOK, Handler
<1> QED BY <1>1, IdleType, GoingStep DEF Ends

LEMMA GoStep ==
    ASSUME TypeInv, NEW h \in Handlers, NEW place \in Places, Goes(h, place),
           Placed([run[h] EXCEPT !.at = place], minted), UNCHANGED <<minted, calls>>
    PROVE  /\ run' \in [Handlers -> Handler] /\ \A g \in Handlers : Placed(run'[g], minted')
           /\ minted' + Cardinality(MayMint(run')) <= calls'
<1> DEFINE r == [run[h] EXCEPT !.at = place]
<1>1. run[h] \in Handler
    BY DEF TypeInv, TypeOK
<1>2. r \in Handler /\ r.op = run[h].op /\ r.code = run[h].code
    BY <1>1 DEF Handler
<1>3. run' = [run EXCEPT ![h] = r]
    BY DEF Goes
<1> QED BY <1>2, <1>3, GoingStep

\* A new request is counted before it can mint.
LEMMA ArriveStep ==
    ASSUME TypeInv, NEW h \in Handlers, NEW r \in Handler, Arrives(h), run' = [run EXCEPT ![h] = r],
           Placed(r, minted), UNCHANGED minted
    PROVE  /\ run' \in [Handlers -> Handler] /\ \A g \in Handlers : Placed(run'[g], minted')
           /\ minted' + Cardinality(MayMint(run')) <= calls'
           /\ calls' \in 0 .. MaxCalls
<1>1. minted \in Nat /\ calls \in Nat /\ calls' = calls + 1 /\ calls' \in 0 .. MaxCalls
    BY DEF TypeInv, TypeOK, Arrives
<1>2. MayMint(run') \subseteq MayMint(run) \union {h}
    BY DEF MayMint, TypeInv, TypeOK
<1>3. IsFiniteSet(MayMint(run)) /\ Cardinality(MayMint(run)) \in Nat
    BY MayMintFinite
<1>4. /\ IsFiniteSet(MayMint(run) \union {h})
      /\ Cardinality(MayMint(run) \union {h}) <= Cardinality(MayMint(run)) + 1
      /\ Cardinality(MayMint(run) \union {h}) \in Nat
    <2>1. IsFiniteSet(MayMint(run) \union {h})
        BY <1>3, FS_AddElement
    <2>2. \/ Cardinality(MayMint(run) \union {h}) = Cardinality(MayMint(run)) + 1
          \/ Cardinality(MayMint(run) \union {h}) = Cardinality(MayMint(run))
        BY <1>3, FS_AddElement
    <2> QED BY <1>3, <2>1, <2>2
<1>5. Cardinality(MayMint(run')) <= Cardinality(MayMint(run) \union {h})
    BY <1>2, <1>4, FS_Subset
<1>6. minted + Cardinality(MayMint(run)) <= calls /\ Cardinality(MayMint(run')) \in Nat
    BY MayMintFinite DEF TypeInv
<1>7. minted' + Cardinality(MayMint(run')) <= calls'
    BY <1>1, <1>3, <1>4, <1>5, <1>6
<1>8. Placed(r, minted') /\ minted' \in Nat /\ minted <= minted'
    BY <1>1
<1> QED BY <1>1, <1>7, <1>8, RunStep

LEMMA InitType == Init => TypeInv
<1> SUFFICES ASSUME Init PROVE TypeInv
    OBVIOUS
<1>1. PICK u \in Users : run = [h \in Handlers |-> Idle(u)]
    BY DEF Init
<1>2. run \in [Handlers -> Handler] /\ \A h \in Handlers : Placed(run[h], minted)
    BY <1>1, IdleType
<1>3. MayMint(run) = {}
    BY <1>1, IdleType DEF MayMint
<1>4. minted + Cardinality(MayMint(run)) <= calls
    BY <1>3, FS_EmptySet DEF Init
<1>5. TypeOK
    BY <1>2, UnlockedType DEF Init, TypeOK, Times, Throttle, Codes, Placed
<1> QED BY <1>2, <1>4, <1>5 DEF TypeInv

\* What the three lemmas on steps establish.
RunTyped ==
    /\ run' \in [Handlers -> Handler] /\ \A g \in Handlers : Placed(run'[g], minted')
    /\ minted' + Cardinality(MayMint(run')) <= calls'

\* A placed request leaves the mail limit with its partner.
LEMMA PartnerRuns ==
    ASSUME TypeInv
    PROVE  \A g \in Handlers : run[g].at \in {"bump", "open", "count"} => run[g].sets.partner # Nobody
BY DEF TypeInv, Placed

LEMMA LimitType ==
    ASSUME TypeInv, NEW h \in Handlers, LimitNext(h) PROVE TypeInv'
<1>1. run[h] \in Handler /\ Placed(run[h], minted)
    BY DEF TypeInv, TypeOK
<1>2. ASSUME NEW place \in {"read", "bump", "write", "open", "count"}, NEW t \in Times,
             run' = [run EXCEPT ![h].at = place, ![h].began = t], UNCHANGED <<minted, calls>>,
             run[h].op \in {"lock", "resend"}, run[h].code = NoCode,
             place \in {"bump", "open", "count"} => run[h].sets.partner # Nobody
      PROVE  RunTyped
    <2> DEFINE r == [run[h] EXCEPT !.at = place, !.began = t]
    <2>1. r \in Handler /\ r.op = run[h].op /\ r.code = run[h].code
        BY <1>1 DEF Handler, Places
    <2>2. Placed(r, minted)
        BY <1>1, <1>2 DEF Handler, Placed
    <2>3. run' = [run EXCEPT ![h] = r]
        BY <1>2
    <2> QED BY <1>2, <2>1, <2>2, <2>3, GoingStep DEF RunTyped
<1>3. ASSUME OwnLimits(h) PROVE TypeInv'
    <2>1. CASE Ends(h)
        BY <1>3, <2>1, EndStep DEF OwnLimits, TypeInv, TypeOK, Placed
    <2>2. ASSUME NEW place \in {"read", "bump", "write"}, Goes(h, place),
                 place = "bump" => run[h].sets.partner # Nobody
          PROVE  TypeInv'
        <3>1. Placed([run[h] EXCEPT !.at = place], minted)
            BY <1>1, <1>3, <2>2 DEF OwnLimits, Placed, Handler
        <3> QED BY <1>3, <2>2, <3>1, GoStep DEF OwnLimits, TypeInv, TypeOK, Placed, Places
    <2> QED BY <1>3, <2>1, <2>2 DEF OwnLimits, Recipient
<1>4. ASSUME Bumps(h) PROVE TypeInv'
    <2>1. run[h].sets.partner \in Partners
        BY <1>1, <1>4 DEF Bumps, Handler, Lock, Placed
    <2>2. now \in Times
        BY DEF TypeInv, TypeOK
    <2>3. RunTyped
        BY <1>1, <1>2, <1>4, <2>2 DEF Bumps, Placed
    <2>4. throttle' \in [Partners -> Throttle]
        BY <1>4, <2>1 DEF Bumps, Recipient, TypeInv, TypeOK, Throttle
    <2> QED BY <1>4, <2>3, <2>4 DEF Bumps, RunTyped, TypeInv, TypeOK, Placed
<1>5. ASSUME NEW place \in {"write"}, Goes(h, place), UNCHANGED <<minted, calls>>,
             run[h].at \in {"bump", "open", "count"}
      PROVE  RunTyped
    <2>1. Placed([run[h] EXCEPT !.at = place], minted)
        BY <1>1, <1>5 DEF Placed, Handler
    <2> QED BY <1>5, <2>1, GoStep DEF RunTyped, Places
<1>6. ASSUME Opens(h) PROVE TypeInv'
    <2>1. run[h].sets.partner \in Partners /\ run[h].began \in Times
        BY <1>1, <1>6 DEF Opens, Handler, Lock, Placed
    <2>2. throttle' \in [Partners -> Throttle] /\ passes' \in [Partners -> Nat]
        BY <1>6, <2>1 DEF Opens, Recipient, TypeInv, TypeOK, Throttle
    <2> QED BY <1>5, <1>6, <2>2 DEF Opens, RunTyped, TypeInv, TypeOK, Placed
<1>7. ASSUME Counts(h) PROVE TypeInv'
    <2>1. run[h].sets.partner \in Partners
        BY <1>1, <1>7 DEF Counts, Handler, Lock, Placed
    <2>2. passes' \in [Partners -> Nat]
        BY <1>7, <2>1 DEF Counts, Recipient, TypeInv, TypeOK
    <2>3. RunTyped
        BY <1>5, <1>7, EndStep DEF Counts, RunTyped
    <2> QED BY <1>7, <2>2, <2>3 DEF Counts, RunTyped, TypeInv, TypeOK, Placed
<1>8. ASSUME FailsOpen(h) PROVE TypeInv'
    BY <1>5, <1>8 DEF FailsOpen, RunTyped, TypeInv, TypeOK, Placed
<1> QED BY <1>3, <1>4, <1>6, <1>7, <1>8 DEF LimitNext

LEMMA LockType ==
    ASSUME TypeInv, NEW h \in Handlers, LockNext(h) PROVE TypeInv'
<1>1. run[h] \in Handler /\ Placed(run[h], minted) /\ run[h].user \in Users
    BY DEF TypeInv, TypeOK, Handler
<1>2. ASSUME NEW u \in Users, NEW method \in {"partner", "date"}, NEW p \in Partners \union {Nobody},
             NEW until \in Times, Locks(h, u, method, p, until)
      PROVE  TypeInv'
    <2> DEFINE l == [Unlocked EXCEPT !.active = TRUE, !.method = method,
                                     !.partner = p, !.until = until]
               r == [Idle(u) EXCEPT !.at = "own", !.op = "lock", !.sets = l]
    <2>1. l \in Lock
        BY UnlockedType DEF Lock, Unlocked
    <2>2. r \in Handler
        <3>1. Idle(u) \in Handler
            BY IdleType
        <3> QED BY <2>1, <3>1 DEF Handler, Places
    <2>3. Placed(r, minted)
        BY DEF Idle, Placed
    <2>4. run' = [run EXCEPT ![h] = r] /\ Arrives(h) /\ UNCHANGED minted
        BY <1>2 DEF Locks
    <2>5. RunTyped /\ calls' \in 0 .. MaxCalls
        BY <2>2, <2>3, <2>4, ArriveStep DEF RunTyped
    <2> QED BY <1>2, <2>5 DEF Locks, RunTyped, TypeInv, TypeOK, Placed
<1>3. ASSUME NEW u \in Users, Resends(h, u) PROVE TypeInv'
    <2> DEFINE r == [Idle(u) EXCEPT !.at = "own", !.op = "resend"]
    <2>1. r \in Handler
        <3>1. Idle(u) \in Handler
            BY IdleType
        <3> QED BY <3>1 DEF Handler, Places
    <2>2. Placed(r, minted)
        BY DEF Idle, Placed
    <2>3. run' = [run EXCEPT ![h] = r] /\ Arrives(h) /\ UNCHANGED minted
        BY <1>3 DEF Resends
    <2>4. RunTyped /\ calls' \in 0 .. MaxCalls
        BY <2>1, <2>2, <2>3, ArriveStep DEF RunTyped
    <2> QED BY <1>3, <2>4 DEF Resends, RunTyped, TypeInv, TypeOK, Placed
<1>4. ASSUME ReadsLock(h) PROVE TypeInv'
    <2> DEFINE l == lock[run[h].user]
               r == [run[h] EXCEPT !.at = "bump", !.sets = l]
    <2>1. CASE Ends(h)
        BY <1>4, <2>1, EndStep DEF ReadsLock, TypeInv, TypeOK, Placed
    <2>2. CASE run' = [run EXCEPT ![h] = r] /\ l.partner # Nobody
        <3>1. l \in Lock
            BY <1>1 DEF TypeInv, TypeOK
        <3>2. r \in Handler /\ r.op = run[h].op /\ r.code = run[h].code
            BY <1>1, <3>1 DEF Handler, Places
        <3>3. run[h].code = NoCode
            BY <1>1, <1>4 DEF ReadsLock, Placed
        <3>4. Placed(r, minted)
            BY <1>1, <1>4, <2>2, <3>1, <3>2, <3>3 DEF ReadsLock, Placed, Handler, Lock
        <3> QED BY <1>4, <2>2, <3>2, <3>4, GoingStep DEF ReadsLock, TypeInv, TypeOK, Placed
    <2>3. \/ Ends(h)
          \/ /\ run' = [run EXCEPT ![h].at = "bump", ![h].sets = l]
             /\ l.partner # Nobody
        BY <1>4 DEF ReadsLock
    <2>4. CASE run' = [run EXCEPT ![h].at = "bump", ![h].sets = l] /\ l.partner # Nobody
        <3>1. run' = [run EXCEPT ![h] = r]
            BY <2>4
        <3> HIDE DEF l, r
        <3> QED BY <2>2, <2>4, <3>1
    <2> HIDE DEF l, r
    <2> QED BY <2>1, <2>3, <2>4
<1>5. ASSUME Writes(h) PROVE TypeInv'
    <2> DEFINE c == IF Mints(h) THEN minted + 1 ELSE NoCode
    <2>1. /\ minted \in Nat /\ calls \in Nat /\ calls <= MaxCalls
          /\ minted + Cardinality(MayMint(run)) <= calls
        BY DEF TypeInv, TypeOK
    <2>2. h \in MayMint(run) /\ UNCHANGED calls /\ minted' \in {minted, minted + 1}
        BY <1>1, <1>5 DEF Writes, Placed, MayMint
    <2>3. IsFiniteSet(MayMint(run)) /\ Cardinality(MayMint(run)) \in Nat
        BY MayMintFinite
    <2>4. /\ IsFiniteSet(MayMint(run) \ {h})
          /\ Cardinality(MayMint(run) \ {h}) = Cardinality(MayMint(run)) - 1
        BY <2>2, <2>3, FS_RemoveElement
    <2>5. Cardinality(MayMint(run) \ {h}) \in Nat
        BY <2>4, FS_CardinalityType
    <2>6. minted + 1 \in Codes /\ c \in Codes \union {NoCode} /\ minted' \in 0 .. MaxCalls
        BY <2>1, <2>2, <2>3, <2>4, <2>5 DEF Codes
    <2>7. lock' \in [Users -> Lock]
        <3>1. lock[run[h].user] \in Lock /\ run[h].sets \in Lock
            BY <1>1 DEF TypeInv, TypeOK, Handler
        <3>2. \A d \in Codes \union {NoCode} : Written(h, d) \in Lock
            BY <3>1 DEF Written, Lock
        <3>3. lock' = [lock EXCEPT ![run[h].user] = Written(h, c)]
            BY <1>5 DEF Writes
        <3> HIDE DEF c
        <3> QED BY <1>1, <2>6, <3>2, <3>3 DEF TypeInv, TypeOK
    <2>8. PICK r \in Handler :
              /\ run' = [run EXCEPT ![h] = r]
              /\ Placed(r, minted')
              /\ r.op = "none" \/ r.code # NoCode
        <3>1. CASE Mints(h)
            <4> DEFINE q == [run[h] EXCEPT !.at = "post", !.code = minted + 1]
            <4>1. q \in Handler /\ q.at = "post" /\ q.code = minted + 1
                BY <1>1, <2>6 DEF Handler, Places
            <4>2. run' = [run EXCEPT ![h] = q] /\ minted' = minted + 1
                BY <1>5, <3>1 DEF Writes
            <4>3. q.code # NoCode /\ Placed(q, minted')
                BY <2>1, <2>6, <4>1, <4>2 DEF Placed, NoCode
            <4> QED BY <4>1, <4>2, <4>3
        <3>2. CASE ~Mints(h)
            BY <1>1, <1>5, <3>2, IdleType DEF Writes, Ends
        <3> QED BY <3>1, <3>2
    <2>9. MayMint(run') \subseteq MayMint(run) \ {h}
        <3>1. \A g \in Handlers : run'[g] = IF g = h THEN r ELSE run[g]
            BY <2>8 DEF TypeInv, TypeOK
        <3>2. r.op = "none" \/ r.code # NoCode
            BY <2>8
        <3> QED BY <3>1, <3>2 DEF MayMint
    <2>10. Cardinality(MayMint(run')) <= Cardinality(MayMint(run)) - 1
        BY <2>4, <2>9, FS_Subset
    <2>11. Cardinality(MayMint(run')) \in Nat
        BY MayMintFinite
    <2>12. minted' + Cardinality(MayMint(run')) <= calls'
        BY <2>1, <2>2, <2>3, <2>10, <2>11
    <2>13. run' \in [Handlers -> Handler] /\ \A g \in Handlers : Placed(run'[g], minted')
        <3>1. minted' \in Nat /\ minted <= minted' /\ Placed(r, minted')
            BY <2>1, <2>2, <2>8
        <3>2. run' = [run EXCEPT ![h] = r]
            BY <2>8
        <3> QED BY <3>1, <3>2, RunStep
    <2>14. UNCHANGED <<now, limits, mail, lost, guesses, calls>>
        BY <1>5 DEF Writes
    <2>15. \A d \in posted \union lost : d <= minted'
        BY <2>1, <2>2, <2>14 DEF TypeInv, TypeOK, Codes
    <2> QED BY <2>6, <2>7, <2>12, <2>13, <2>14, <2>15 DEF TypeInv, TypeOK, Placed
<1>6. ASSUME Posts(h) PROVE TypeInv'
    <2>1. run[h].code \in Codes /\ run[h].code <= minted
        BY <1>1, <1>6 DEF Posts, Placed
    <2>2. RunTyped
        BY <1>6, EndStep DEF Posts, RunTyped
    <2>3. /\ inbox' \subseteq posted' /\ posted' \subseteq Codes
          /\ \A d \in posted' \union lost : d <= minted
        BY <1>6, <2>1 DEF Posts, TypeInv, TypeOK
    <2>4. UNCHANGED <<now, lock, limits, minted, lost, guesses, calls>>
        BY <1>6 DEF Posts
    <2> QED BY <2>2, <2>3, <2>4 DEF RunTyped, TypeInv, TypeOK, Placed
<1>7. 0 \in Times
    BY DEF Times
<1> QED BY <1>2, <1>3, <1>4, <1>5, <1>6, <1>7 DEF LockNext

LEMMA UnlockType ==
    ASSUME TypeInv, NEW h \in Handlers, UnlockNext(h) PROVE TypeInv'
<1>1. run[h] \in Handler /\ Placed(run[h], minted) /\ run[h].user \in Users
    BY DEF TypeInv, TypeOK, Handler
<1>2. lock[run[h].user] \in Lock
    BY <1>1 DEF TypeInv, TypeOK
<1>3. ASSUME NEW u \in Users, NEW c \in inbox \union {NoCode}, Unlocks(h, u, c) PROVE TypeInv'
    <2> DEFINE r == [Idle(u) EXCEPT !.at = "read", !.op = "unlock", !.code = c]
    <2>1. r \in Handler
        <3>1. Idle(u) \in Handler /\ c \in Codes \union {NoCode}
            BY IdleType DEF TypeInv, TypeOK
        <3> QED BY <3>1 DEF Handler, Places
    <2>2. Placed(r, minted)
        BY DEF Idle, Placed
    <2>3. run' = [run EXCEPT ![h] = r] /\ Arrives(h) /\ UNCHANGED minted
        BY <1>3 DEF Unlocks
    <2>4. RunTyped /\ calls' \in 0 .. MaxCalls
        BY <2>1, <2>2, <2>3, ArriveStep DEF RunTyped
    <2> QED BY <1>3, <2>4 DEF Unlocks, RunTyped, TypeInv, TypeOK, Placed
<1>4. ASSUME Decides(h) PROVE TypeInv'
    <2>1. CASE Ends(h)
        BY <1>4, <2>1, EndStep DEF Decides, TypeInv, TypeOK, Placed
    <2>2. ASSUME NEW place \in {"lift", "wrong"}, NEW l \in Lock,
                 run' = [run EXCEPT ![h].at = place, ![h].sets = l, ![h].seen = l.otp]
          PROVE  TypeInv'
        <3> DEFINE r == [run[h] EXCEPT !.at = place, !.sets = l, !.seen = l.otp]
        <3>1. r \in Handler /\ r.op = run[h].op /\ r.code = run[h].code /\ r.at = place
            BY <1>1 DEF Handler, Places, Lock
        <3>2. Placed(r, minted)
            BY <3>1 DEF Placed
        <3>3. run' = [run EXCEPT ![h] = r]
            BY <2>2
        <3>4. UNCHANGED <<minted, calls>>
            BY <1>4 DEF Decides
        <3> QED BY <1>4, <3>1, <3>2, <3>3, <3>4, GoingStep DEF Decides, TypeInv, TypeOK, Placed
    <2> QED BY <1>2, <1>4, <2>1, <2>2 DEF Decides
<1>5. ASSUME Lifts(h) PROVE TypeInv'
    <2>1. RunTyped
        BY <1>5, EndStep DEF Lifts, RunTyped
    <2>2. lock' \in [Users -> Lock]
        BY <1>1, <1>2, <1>5 DEF Lifts, Lock, TypeInv, TypeOK
    <2> QED BY <1>5, <2>1, <2>2 DEF Lifts, RunTyped, TypeInv, TypeOK, Placed
<1>6. ASSUME UNCHANGED guesses \/ Answers(h) PROVE guesses' \in [Codes -> Nat]
    BY <1>1, <1>6 DEF Answers, Handler, TypeInv, TypeOK
<1>7. ASSUME Misses(h) PROVE TypeInv'
    <2>1. guesses' \in [Codes -> Nat]
        BY <1>6, <1>7 DEF Misses
    <2>2. lock' \in [Users -> Lock]
        <3>1. Attempts(h) \in Nat
            BY <1>2 DEF Attempts, Incremented, Lock
        <3>2. lock' = [lock EXCEPT ![run[h].user].attempts = Attempts(h)]
            BY <1>7 DEF Misses
        <3> QED BY <1>1, <1>2, <3>1, <3>2 DEF Lock, TypeInv, TypeOK
    <2>3. RunTyped
        <3>1. Ends(h) \/ Goes(h, "void")
            BY <1>7 DEF Misses
        <3>2. Placed([run[h] EXCEPT !.at = "void"], minted) /\ UNCHANGED <<minted, calls>>
            BY <1>1, <1>7 DEF Misses, Placed, Handler
        <3> QED BY <3>1, <3>2, EndStep, GoStep DEF RunTyped, Places
    <2> QED BY <1>7, <2>1, <2>2, <2>3 DEF Misses, RunTyped, TypeInv, TypeOK, Placed
<1>8. ASSUME Voids(h) PROVE TypeInv'
    <2>1. guesses' \in [Codes -> Nat]
        BY <1>6, <1>8 DEF Voids
    <2>2. lock' \in [Users -> Lock]
        BY <1>1, <1>2, <1>8 DEF Voids, Lock, TypeInv, TypeOK
    <2>3. RunTyped
        BY <1>8, EndStep DEF Voids, RunTyped
    <2> QED BY <1>8, <2>1, <2>2, <2>3 DEF Voids, RunTyped, TypeInv, TypeOK, Placed
<1> QED BY <1>3, <1>4, <1>5, <1>7, <1>8 DEF UnlockNext

LEMMA TypeStep == TypeInv /\ [Next]_vars => TypeInv'
<1> SUFFICES ASSUME TypeInv, [Next]_vars PROVE TypeInv'
    OBVIOUS
<1>1. ASSUME NEW h \in Handlers, Dies(h) PROVE TypeInv'
    <2>1. RunTyped
        BY <1>1, EndStep DEF Dies, RunTyped
    <2>2. lost' \subseteq Codes /\ \A c \in posted \union lost' : c <= minted
        BY <1>1 DEF Dies, TypeInv, TypeOK, Placed
    <2> QED BY <1>1, <2>1, <2>2 DEF Dies, RunTyped, TypeInv, TypeOK, Placed
<1>2. ASSUME NEW u \in Users, Disables(u) PROVE TypeInv'
    <2>1. lock' \in [Users -> Lock]
        BY <1>2 DEF Disables, Lock, TypeInv, TypeOK
    <2>2. calls' \in 0 .. MaxCalls /\ calls <= calls' /\ calls \in Nat
        BY <1>2 DEF Disables, TypeInv, TypeOK
    <2>3. minted + Cardinality(MayMint(run)) <= calls'
        BY <2>2, MayMintFinite DEF TypeInv, TypeOK
    <2> QED BY <1>2, <2>1, <2>2, <2>3 DEF Disables, TypeInv, TypeOK, MayMint
<1>3. CASE Tick
    BY <1>3 DEF Tick, TypeInv, TypeOK, Times, MayMint
<1>4. CASE UNCHANGED vars
    BY <1>4 DEF vars, TypeInv, TypeOK, MayMint
<1> QED BY <1>1, <1>2, <1>3, <1>4, LimitType, LockType, UnlockType DEF Next

\* Every variable keeps its type: only a partner's mail reaches a recipient's
\* limit, and a code is minted at most once by a request
\* (addiction-protection.ts:112-146), for any number of handlers and requests.
THEOREM TypeCorrect == Spec => []TypeOK
<1>1. Init => TypeInv
    BY InitType
<1>2. TypeInv /\ [Next]_vars => TypeInv'
    BY TypeStep
<1>3. TypeInv => TypeOK
    BY DEF TypeInv
<1> QED BY <1>1, <1>2, <1>3, PTL DEF Spec

-----------------------------------------------------------------------------
(* The key.  Only a write and a mail touch the code of a live lock; the     *)
(* handler that wrote it stands before the mail until it mails it or dies.  *)

\* Somebody has the code, or is about to, or it was lost on the way.
AccountedIn(c, gone, q) ==
    \/ c \in gone
    \/ \E h \in Handlers : q[h].at = "post" /\ q[h].code = c
Accounted(c) == AccountedIn(c, posted \union lost, run)
AccountedNext(c) == AccountedIn(c, posted' \union lost', run')

KeyInv == TypeInv /\ KeyIsPosted

\* Codes stay accounted for unless a handler leaves its post otherwise.
LEMMA AccountedKept ==
    ASSUME TypeInv, posted \subseteq posted', lost \subseteq lost', NEW h \in Handlers,
           run[h].at # "post" \/ run[h].code \in posted' \union lost',
           \A g \in Handlers \ {h} : run'[g] = run[g]
    PROVE  \A c : Accounted(c) => AccountedNext(c)
BY DEF Accounted, AccountedNext, AccountedIn

\* No step but a write gives a live lock a code.
LEMMA KeyKept ==
    ASSUME KeyInv, \A c : Accounted(c) => AccountedNext(c),
           \A u \in Users : lock'[u].active /\ lock'[u].otp # NoCode =>
                                lock[u].active /\ lock'[u].otp = lock[u].otp
    PROVE  KeyIsPosted'
BY DEF KeyInv, KeyIsPosted, Accounted, AccountedNext, AccountedIn

Others(h) == \A g \in Handlers \ {h} : run'[g] = run[g]

LEMMA OthersStay ==
    ASSUME TypeInv, NEW h \in Handlers
    PROVE  /\ \A r : run' = [run EXCEPT ![h] = r] => Others(h)
           /\ Ends(h) => Others(h)
           /\ \A place : Goes(h, place) => Others(h)
BY DEF TypeInv, TypeOK, Ends, Goes, Others

LEMMA KeyStep == KeyInv /\ [Next]_vars => KeyInv'
<1> SUFFICES ASSUME KeyInv, [Next]_vars PROVE KeyInv'
    OBVIOUS
<1>1. TypeInv' /\ TypeInv
    BY TypeStep DEF KeyInv
<1>2. SUFFICES KeyIsPosted'
    BY <1>1 DEF KeyInv
\* a handler elsewhere than at its post, and the lock left alone
<1>3. ASSUME NEW h \in Handlers, run[h].at # "post", Others(h), UNCHANGED <<posted, lost, lock>>
      PROVE  KeyIsPosted'
    BY <1>1, <1>3, AccountedKept, KeyKept DEF Others
<1>4. ASSUME NEW h \in Handlers, LimitNext(h) PROVE KeyIsPosted'
    <2>1. run[h].at # "post" /\ UNCHANGED <<posted, lost, lock>>
        BY <1>4 DEF LimitNext, OwnLimits, Bumps, Opens, Counts, FailsOpen
    <2>2. Others(h)
        BY <1>1, <1>4, OthersStay DEF LimitNext, OwnLimits, Bumps, Opens, Counts, FailsOpen,
                                      Others, TypeInv, TypeOK
    <2> QED BY <1>3, <2>1, <2>2
<1>5. ASSUME NEW h \in Handlers, LockNext(h) PROVE KeyIsPosted'
    <2>1. CASE Writes(h)
        <3> DEFINE c == IF Mints(h) THEN minted + 1 ELSE NoCode
        <3>1. /\ run[h].at = "write" /\ UNCHANGED <<posted, lost>> /\ run[h] \in Handler
              /\ run[h].user \in Users /\ Others(h)
              /\ lock' = [lock EXCEPT ![run[h].user] = Written(h, c)]
            BY <1>1, <2>1, OthersStay DEF Writes, TypeInv, TypeOK, Handler, Others
        <3>2. \A d : Accounted(d) => AccountedNext(d)
            BY <1>1, <3>1, AccountedKept DEF Others
        <3>3. Written(h, c).otp = c
            <4>1. lock[run[h].user] \in Lock /\ run[h].sets \in Lock
                BY <1>1, <3>1 DEF TypeInv, TypeOK, Handler
            <4> QED BY <4>1 DEF Written, Lock
        <3>4. c # NoCode => AccountedNext(c)
            <4>1. ASSUME Mints(h)
                  PROVE  run'[h].at = "post" /\ run'[h].code = c
                BY <1>1, <2>1, <3>1, <4>1 DEF Writes, TypeInv, TypeOK, Handler
            <4> QED BY <4>1 DEF Accounted, AccountedNext, AccountedIn
        <3>5. \A u \in Users : lock'[u] = IF u = run[h].user THEN Written(h, c) ELSE lock[u]
            BY <1>1, <3>1 DEF TypeInv, TypeOK
        <3> HIDE DEF c
        <3>6. SUFFICES ASSUME NEW u \in Users, lock'[u].active, lock'[u].otp # NoCode
                       PROVE  AccountedNext(lock'[u].otp)
            BY DEF KeyIsPosted, Accounted, AccountedNext, AccountedIn
        <3>7. CASE u = run[h].user
            BY <3>3, <3>4, <3>5, <3>6, <3>7
        <3>8. CASE u # run[h].user
            <4>1. lock'[u] = lock[u]
                BY <3>5, <3>8
            <4>2. Accounted(lock[u].otp)
                BY <3>6, <4>1 DEF KeyInv, KeyIsPosted, Accounted, AccountedNext, AccountedIn
            <4>3. AccountedNext(lock[u].otp)
                BY <3>2, <4>2
            <4> QED BY <4>1, <4>3
        <3> QED BY <3>7, <3>8
    <2>2. CASE Posts(h)
        <3>1. /\ posted' = posted \union {run[h].code} /\ UNCHANGED <<lost, lock>> /\ Others(h)
            BY <1>1, <2>2, OthersStay DEF Posts
        <3> QED BY <1>1, <3>1, AccountedKept, KeyKept DEF Others
    <2>3. CASE ReadsLock(h)
        <3>1. run[h].at # "post" /\ UNCHANGED <<posted, lost, lock>>
            BY <2>3 DEF ReadsLock
        <3>2. Others(h)
            BY <1>1, <2>3, OthersStay DEF ReadsLock, Others, TypeInv, TypeOK
        <3> QED BY <1>3, <3>1, <3>2
    <2>4. ASSUME NEW u \in Users, NEW p, NEW method, NEW t,
                 Resends(h, u) \/ Locks(h, u, method, p, t)
          PROVE  KeyIsPosted'
        <3>1. run[h].at # "post" /\ UNCHANGED <<posted, lost, lock>> /\ Others(h)
            BY <1>1, <2>4, OthersStay DEF Resends, Locks, Arrives
        <3> QED BY <1>3, <3>1
    <2> QED BY <1>5, <2>1, <2>2, <2>3, <2>4 DEF LockNext
<1>6. ASSUME NEW h \in Handlers, UnlockNext(h) PROVE KeyIsPosted'
    <2>1. run[h].at # "post" /\ UNCHANGED <<posted, lost>>
        BY <1>6 DEF UnlockNext, Unlocks, Arrives, Decides, Lifts, Misses, Voids
    <2>2. Others(h)
        BY <1>1, <1>6, OthersStay DEF UnlockNext, Unlocks, Decides, Lifts, Misses, Voids,
                                      Others, TypeInv, TypeOK
    <2>3. \A u \in Users : lock'[u].active /\ lock'[u].otp # NoCode =>
                               lock[u].active /\ lock'[u].otp = lock[u].otp
        <3>1. run[h].user \in Users /\ lock \in [Users -> Lock]
            BY <1>1 DEF TypeInv, TypeOK, Handler
        <3>2. CASE Lifts(h)
            BY <3>1, <3>2 DEF Lifts, Lock
        <3>3. CASE Misses(h)
            BY <3>1, <3>3 DEF Misses, Lock
        <3>4. CASE Voids(h)
            BY <3>1, <3>4 DEF Voids, Lock
        <3>5. CASE UNCHANGED lock
            BY <3>5
        <3> QED BY <1>6, <3>2, <3>3, <3>4, <3>5 DEF UnlockNext, Unlocks, Decides
    <2> QED BY <1>1, <2>1, <2>2, <2>3, AccountedKept, KeyKept DEF Others
<1>7. ASSUME NEW h \in Handlers, Dies(h) PROVE KeyIsPosted'
    <2>1. /\ run[h].at # "post" \/ run[h].code \in lost'
          /\ lost \subseteq lost' /\ UNCHANGED <<posted, lock>> /\ Others(h)
        BY <1>1, <1>7, OthersStay DEF Dies
    <2> QED BY <1>1, <2>1, AccountedKept, KeyKept DEF Others
<1>8. ASSUME NEW u \in Users, Disables(u) PROVE KeyIsPosted'
    <2>1. UNCHANGED <<posted, lost, run>>
        BY <1>8 DEF Disables
    <2>2. \A v \in Users : lock'[v].active /\ lock'[v].otp # NoCode =>
                               lock[v].active /\ lock'[v].otp = lock[v].otp
        BY <1>1, <1>8 DEF Disables, Lock, TypeInv, TypeOK
    <2>3. \A c : Accounted(c) => AccountedNext(c)
        BY <2>1 DEF Accounted, AccountedNext, AccountedIn
    <2> QED BY <2>2, <2>3, KeyKept
<1>9. CASE Tick \/ UNCHANGED vars
    BY <1>9 DEF Tick, vars, KeyInv, KeyIsPosted
<1> QED BY <1>4, <1>5, <1>6, <1>7, <1>8, <1>9 DEF Next

\* No lock stands whose key nobody was sent: a limit refuses before the row is
\* written (addiction-protection.ts:112-146), so the code of a live lock was given
\* to the mailer, is about to be, or its request died in between.
THEOREM KeysArePosted == Spec => []KeyIsPosted
<1>1. Init => KeyInv
    BY InitType DEF Init, KeyInv, KeyIsPosted, Unlocked
<1>2. KeyInv /\ [Next]_vars => KeyInv'
    BY KeyStep
<1>3. KeyInv => KeyIsPosted
    BY DEF KeyInv
<1> QED BY <1>1, <1>2, <1>3, PTL DEF Spec

-----------------------------------------------------------------------------
(* Guesses.  While a code stands, the attempts of its row bound the answers  *)
(* given to it; once it is replaced or voided, only those that had read it   *)
(* are still to answer.  A code belongs to one row and is never minted again.*)

Judging(q, h) == q[h].at \in {"wrong", "void"}

\* The requests that found the code c wrong and have not answered yet.
Pending(q, c) == {h \in Handlers : Judging(q, h) /\ q[h].seen = c}

CodesAreMinted ==
    /\ \A u \in Users : lock[u].otp <= minted
    /\ \A h \in Handlers : Judging(run, h) => run[h].seen <= minted
    /\ \A c \in Codes : c > minted => guesses[c] = 0

CodesAreOwned ==
    /\ \A u, v \in Users : lock[u].otp = lock[v].otp /\ lock[u].otp # NoCode => u = v
    /\ \A h \in Handlers, u \in Users :
           Judging(run, h) /\ run[h].seen = lock[u].otp /\ lock[u].otp # NoCode => u = run[h].user

AttemptsCount ==
    \A u \in Users : lock[u].otp # NoCode =>
        /\ guesses[lock[u].otp] <= lock[u].attempts
        /\ guesses[lock[u].otp] <= MAX_OTP_ATTEMPTS - 1

AnswersAreBounded ==
    \A c \in Codes : guesses[c] + Cardinality(Pending(run, c)) <= MAX_OTP_ATTEMPTS - 1 + Cardinality(Handlers)

GuessInv == TypeInv /\ CodesAreMinted /\ CodesAreOwned /\ AttemptsCount /\ AnswersAreBounded

LEMMA PendingFinite ==
    ASSUME NEW q, NEW c
    PROVE  /\ IsFiniteSet(Pending(q, c)) /\ Cardinality(Pending(q, c)) \in Nat
           /\ Cardinality(Handlers) \in Nat /\ Cardinality(Pending(q, c)) <= Cardinality(Handlers)
<1>1. Pending(q, c) \subseteq Handlers
    BY DEF Pending
<1> QED BY <1>1, FS_Subset, FS_CardinalityType

LEMMA FewerPending ==
    ASSUME NEW q, NEW r, NEW c, Pending(r, c) \subseteq Pending(q, c)
    PROVE  Cardinality(Pending(r, c)) <= Cardinality(Pending(q, c))
BY PendingFinite, FS_Subset

\* No request begins to judge, and no code is given to a row.
Settles ==
    /\ minted \in Nat /\ minted' \in Nat /\ minted <= minted'
    /\ \A h \in Handlers : Judging(run', h) =>
           Judging(run, h) /\ run'[h].seen = run[h].seen /\ run'[h].user = run[h].user
    /\ \A u \in Users : lock'[u].otp # NoCode =>
           lock'[u].otp = lock[u].otp /\ lock[u].attempts <= lock'[u].attempts

\* What no answer is given to stays bounded while nothing new is judged.
LEMMA SettledStep ==
    ASSUME GuessInv, TypeInv', Settles, UNCHANGED guesses
    PROVE  GuessInv'
<1>1. CodesAreMinted'
    <2>1. \A u \in Users : lock[u].otp \in Nat /\ lock[u].otp <= minted
        BY DEF GuessInv, CodesAreMinted, TypeInv, TypeOK, Lock, Codes, NoCode
    <2>2. \A h \in Handlers : run[h].seen \in Nat
        BY DEF GuessInv, TypeInv, TypeOK, Handler, Codes, NoCode
    <2>3. \A u \in Users : lock'[u].otp <= minted'
        BY <2>1 DEF Settles, NoCode
    <2>4. \A h \in Handlers : Judging(run', h) => run'[h].seen <= minted'
        BY <2>2 DEF Settles, GuessInv, CodesAreMinted
    <2>5. \A c \in Codes : c > minted' => guesses'[c] = 0
        BY DEF Settles, GuessInv, CodesAreMinted, Codes
    <2> QED BY <2>3, <2>4, <2>5 DEF CodesAreMinted
<1>2. CodesAreOwned'
    BY DEF Settles, GuessInv, CodesAreOwned
<1>3. AttemptsCount'
    <2> SUFFICES ASSUME NEW u \in Users, lock'[u].otp # NoCode
                 PROVE  /\ guesses[lock'[u].otp] <= lock'[u].attempts
                        /\ guesses[lock'[u].otp] <= MAX_OTP_ATTEMPTS - 1
        BY DEF AttemptsCount
    <2>1. lock[u] \in Lock /\ lock'[u] \in Lock /\ lock'[u].otp = lock[u].otp
        BY DEF Settles, GuessInv, TypeInv, TypeOK
    <2>2. lock[u].otp \in Codes /\ guesses[lock[u].otp] \in Nat
        BY <2>1 DEF GuessInv, TypeInv, TypeOK, Lock
    <2>3. lock[u].attempts \in Nat /\ lock'[u].attempts \in Nat
          /\ lock[u].attempts <= lock'[u].attempts
        BY <2>1 DEF Settles, Lock
    <2> QED BY <2>1, <2>2, <2>3 DEF GuessInv, AttemptsCount
<1>4. AnswersAreBounded'
    <2> SUFFICES ASSUME NEW c \in Codes
                 PROVE  guesses[c] + Cardinality(Pending(run', c))
                            <= MAX_OTP_ATTEMPTS - 1 + Cardinality(Handlers)
        BY DEF AnswersAreBounded
    <2>1. Cardinality(Pending(run', c)) <= Cardinality(Pending(run, c))
        <3>1. Pending(run', c) \subseteq Pending(run, c)
            BY DEF Settles, Pending
        <3> QED BY <3>1, FewerPending
    <2>2. guesses[c] \in Nat
        BY DEF GuessInv, TypeInv, TypeOK
    <2>3. guesses[c] + Cardinality(Pending(run, c)) <= MAX_OTP_ATTEMPTS - 1 + Cardinality(Handlers)
        BY DEF GuessInv, AnswersAreBounded
    <2> QED BY <2>1, <2>2, <2>3, PendingFinite
<1> QED BY <1>1, <1>2, <1>3, <1>4 DEF GuessInv

\* A request answers: the code it had read is one that no row holds any more, or one
\* that was guessed at less often than its row's attempts now say.
LEMMA AnswerStep ==
    ASSUME GuessInv, TypeInv', NEW h \in Handlers, Judging(run, h), Ends(h), Answers(h),
           UNCHANGED minted,
           \A u \in Users : lock'[u].otp # NoCode =>
               /\ lock'[u].otp = lock[u].otp /\ lock[u].attempts <= lock'[u].attempts
               /\ lock'[u].otp = run[h].seen =>
                      lock[u].attempts < lock'[u].attempts /\ lock'[u].attempts < MAX_OTP_ATTEMPTS
    PROVE  GuessInv'
<1> DEFINE s == run[h].seen
<1>1. /\ run[h] \in Handler /\ run \in [Handlers -> Handler] /\ s \in Codes \union {NoCode}
      /\ guesses \in [Codes -> Nat] /\ guesses' \in [Codes -> Nat]
      /\ lock \in [Users -> Lock] /\ lock' \in [Users -> Lock]
    BY DEF GuessInv, TypeInv, TypeOK, Handler
<1>2. /\ \A c \in Codes : guesses'[c] = IF c = s THEN guesses[c] + 1 ELSE guesses[c]
      /\ s # NoCode => s \in Codes
    BY <1>1 DEF Answers, NoCode, Codes
<1>3. \A g \in Handlers : Judging(run', g) => g # h /\ run'[g] = run[g]
    BY <1>1 DEF Ends, Idle, Judging
<1>4. CodesAreMinted'
    <2>1. minted \in Nat /\ minted' = minted
        BY DEF GuessInv, TypeInv, TypeOK
    <2>2. \A u \in Users : lock'[u].otp <= minted
        BY <2>1 DEF GuessInv, CodesAreMinted, NoCode
    <2>3. \A g \in Handlers : Judging(run', g) => run'[g].seen <= minted
        BY <1>3 DEF GuessInv, CodesAreMinted, Judging
    <2>4. s <= minted
        BY DEF GuessInv, CodesAreMinted
    <2>5. \A c \in Codes : c > minted => guesses'[c] = 0
        <3>1. \A c \in Codes : c > minted => c # s /\ guesses[c] = 0
            BY <1>1, <2>1, <2>4 DEF GuessInv, CodesAreMinted, Codes, NoCode
        <3> QED BY <1>2, <3>1
    <2> QED BY <2>1, <2>2, <2>3, <2>5 DEF CodesAreMinted
<1>5. CodesAreOwned'
    BY <1>3 DEF GuessInv, CodesAreOwned, Judging
<1>6. AttemptsCount'
    <2> SUFFICES ASSUME NEW u \in Users, lock'[u].otp # NoCode
                 PROVE  /\ guesses'[lock'[u].otp] <= lock'[u].attempts
                        /\ guesses'[lock'[u].otp] <= MAX_OTP_ATTEMPTS - 1
        BY DEF AttemptsCount
    <2> DEFINE c == lock[u].otp
    <2>1. /\ lock'[u].otp = c /\ c \in Codes /\ lock[u].attempts \in Nat
          /\ lock'[u].attempts \in Nat /\ lock[u].attempts <= lock'[u].attempts
          /\ c = s => lock[u].attempts < lock'[u].attempts /\ lock'[u].attempts < MAX_OTP_ATTEMPTS
        BY <1>1 DEF Lock
    <2>2. guesses[c] \in Nat /\ guesses[c] <= lock[u].attempts /\ guesses[c] <= MAX_OTP_ATTEMPTS - 1
        BY <1>1, <2>1 DEF GuessInv, AttemptsCount
    <2>3. guesses'[c] = IF c = s THEN guesses[c] + 1 ELSE guesses[c]
        BY <1>2, <2>1
    <2> QED BY <2>1, <2>2, <2>3
<1>7. AnswersAreBounded'
    <2> SUFFICES ASSUME NEW c \in Codes
                 PROVE  guesses'[c] + Cardinality(Pending(run', c))
                            <= MAX_OTP_ATTEMPTS - 1 + Cardinality(Handlers)
        BY DEF AnswersAreBounded
    <2>1. guesses[c] + Cardinality(Pending(run, c)) <= MAX_OTP_ATTEMPTS - 1 + Cardinality(Handlers)
        BY DEF GuessInv, AnswersAreBounded
    <2>2. guesses[c] \in Nat /\ guesses'[c] = IF c = s THEN guesses[c] + 1 ELSE guesses[c]
        BY <1>1, <1>2
    <2>3. Pending(run', c) \subseteq Pending(run, c) \ {h}
        BY <1>3 DEF Pending, Judging
    <2>4. CASE c = s
        <3>1. h \in Pending(run, c)
            BY <2>4 DEF Pending
        <3>2. IsFiniteSet(Pending(run, c) \ {h})
              /\ Cardinality(Pending(run, c) \ {h}) = Cardinality(Pending(run, c)) - 1
            BY <3>1, PendingFinite, FS_RemoveElement
        <3>3. Cardinality(Pending(run', c)) <= Cardinality(Pending(run, c)) - 1
            BY <2>3, <3>2, FS_Subset
        <3> QED BY <2>1, <2>2, <2>4, <3>3, PendingFinite
    <2>5. CASE c # s
        <3>1. Cardinality(Pending(run', c)) <= Cardinality(Pending(run, c))
            BY <2>3, FewerPending
        <3> QED BY <2>1, <2>2, <2>5, <3>1, PendingFinite
    <2> QED BY <2>4, <2>5
<1> QED BY <1>4, <1>5, <1>6, <1>7 DEF GuessInv

\* A code is read: only one that stands is.
LEMMA JudgeStep ==
    ASSUME GuessInv, TypeInv', NEW h \in Handlers, UNCHANGED <<lock, minted, guesses>>,
           run' = [run EXCEPT ![h].at = "wrong", ![h].sets = lock[run[h].user],
                              ![h].seen = lock[run[h].user].otp]
    PROVE  GuessInv'
<1> DEFINE s == lock[run[h].user].otp
<1>1. /\ run \in [Handlers -> Handler] /\ run[h].user \in Users /\ lock[run[h].user] \in Lock
      /\ guesses \in [Codes -> Nat]
    BY DEF GuessInv, TypeInv, TypeOK, Handler
<1>2. /\ run'[h].seen = s /\ run'[h].user = run[h].user
      /\ \A g \in Handlers \ {h} : run'[g] = run[g]
    BY <1>1 DEF Handler
<1>3. CodesAreMinted'
    BY <1>1, <1>2 DEF GuessInv, CodesAreMinted, Judging
<1>4. CodesAreOwned'
    BY <1>1, <1>2 DEF GuessInv, CodesAreOwned, Judging
<1>5. AttemptsCount'
    BY DEF GuessInv, AttemptsCount
<1>6. AnswersAreBounded'
    <2> SUFFICES ASSUME NEW c \in Codes
                 PROVE  guesses[c] + Cardinality(Pending(run', c))
                            <= MAX_OTP_ATTEMPTS - 1 + Cardinality(Handlers)
        BY DEF AnswersAreBounded
    <2>1. CASE c = s
        <3>1. guesses[c] \in Nat /\ guesses[c] <= MAX_OTP_ATTEMPTS - 1
            BY <1>1, <2>1 DEF GuessInv, AttemptsCount, Codes, NoCode
        <3> QED BY <3>1, PendingFinite
    <2>2. CASE c # s
        <3>1. Pending(run', c) \subseteq Pending(run, c)
            BY <1>2, <2>2 DEF Pending, Judging
        <3>2. guesses[c] \in Nat /\ Cardinality(Pending(run', c)) <= Cardinality(Pending(run, c))
            BY <1>1, <3>1, FewerPending
        <3>3. guesses[c] + Cardinality(Pending(run, c)) <= MAX_OTP_ATTEMPTS - 1 + Cardinality(Handlers)
            BY DEF GuessInv, AnswersAreBounded
        <3> QED BY <3>2, <3>3, PendingFinite
    <2> QED BY <2>1, <2>2
<1> QED BY <1>3, <1>4, <1>5, <1>6 DEF GuessInv

\* A code never minted before is given to a row: nobody has read or answered it.
LEMMA FreshStep ==
    ASSUME GuessInv, TypeInv', NEW h \in Handlers, Writes(h), Mints(h)
    PROVE  GuessInv'
<1> DEFINE c == minted + 1
           w == run[h].user
<1>1. /\ run \in [Handlers -> Handler] /\ lock \in [Users -> Lock] /\ lock' \in [Users -> Lock]
      /\ run[h] \in Handler /\ w \in Users /\ guesses \in [Codes -> Nat] /\ minted \in Nat
      /\ lock[w] \in Lock /\ run[h].sets \in Lock
    BY DEF GuessInv, TypeInv, TypeOK, Handler
<1>2. Written(h, c).otp = c
    BY <1>1 DEF Written, Lock
<1>3. /\ \A u \in Users : lock'[u] = IF u = w THEN Written(h, c) ELSE lock[u]
      /\ minted' = c /\ UNCHANGED guesses
    BY <1>1 DEF Writes
<1>4. c \in Codes /\ guesses[c] = 0
    <2>1. lock'[w].otp = c /\ lock'[w] \in Lock
        BY <1>1, <1>2, <1>3
    <2>2. c \in Codes
        BY <1>1, <2>1 DEF Lock, Codes, NoCode
    <2> QED BY <1>1, <2>2 DEF GuessInv, CodesAreMinted, Codes
<1>5. \A g \in Handlers : Judging(run', g) => g # h /\ run'[g] = run[g]
    <2>1. run'[h].at = "post" /\ \A g \in Handlers : g # h => run'[g] = run[g]
        BY <1>1 DEF Writes, Handler
    <2> QED BY <2>1 DEF Judging
<1>6. /\ \A u \in Users : lock[u].otp \in Nat /\ lock[u].otp <= minted
      /\ \A g \in Handlers : run[g].seen \in Nat /\ (Judging(run, g) => run[g].seen <= minted)
    <2>1. \A u \in Users : lock[u].otp \in Codes \union {NoCode}
        BY <1>1 DEF Lock
    <2>2. \A g \in Handlers : run[g].seen \in Codes \union {NoCode}
        BY <1>1 DEF Handler
    <2>3. Codes \union {NoCode} \subseteq Nat
        BY DEF Codes, NoCode
    <2> QED BY <2>1, <2>2, <2>3 DEF GuessInv, CodesAreMinted
<1>7. \A u \in Users : lock'[u].otp = IF u = w THEN c ELSE lock[u].otp
    BY <1>2, <1>3
<1> HIDE DEF c, w
<1>8. c \in Nat /\ minted < c
    BY <1>1 DEF c
<1>9. CodesAreMinted'
    <2>1. \A u \in Users : lock'[u].otp <= minted'
        BY <1>1, <1>3, <1>6, <1>7, <1>8
    <2>2. \A g \in Handlers : Judging(run', g) => run'[g].seen <= minted'
        BY <1>1, <1>3, <1>5, <1>6, <1>8 DEF Judging
    <2>3. \A d \in Codes : d > minted' => guesses'[d] = 0
        BY <1>1, <1>3, <1>8 DEF GuessInv, CodesAreMinted, Codes
    <2> QED BY <2>1, <2>2, <2>3 DEF CodesAreMinted
<1>10. CodesAreOwned'
    <2>1. \A u, v \in Users : lock'[u].otp = lock'[v].otp /\ lock'[u].otp # NoCode => u = v
        BY <1>1, <1>6, <1>7, <1>8 DEF GuessInv, CodesAreOwned
    <2>2. ASSUME NEW g \in Handlers, NEW u \in Users, Judging(run', g),
                 run'[g].seen = lock'[u].otp, lock'[u].otp # NoCode
          PROVE  u = run'[g].user
        <3>1. run'[g] = run[g] /\ Judging(run, g)
            BY <1>5, <2>2 DEF Judging
        <3>2. lock'[u].otp = lock[u].otp
            BY <1>1, <1>6, <1>7, <1>8, <2>2, <3>1
        <3> QED BY <2>2, <3>1, <3>2 DEF GuessInv, CodesAreOwned
    <2> QED BY <2>1, <2>2 DEF CodesAreOwned
<1>11. AttemptsCount'
    <2> SUFFICES ASSUME NEW u \in Users, lock'[u].otp # NoCode
                 PROVE  /\ guesses[lock'[u].otp] <= lock'[u].attempts
                        /\ guesses[lock'[u].otp] <= MAX_OTP_ATTEMPTS - 1
        BY <1>3 DEF AttemptsCount
    <2>1. CASE u = w
        <3>1. guesses[lock'[u].otp] = 0 /\ lock'[u].attempts \in Nat
            BY <1>1, <1>4, <1>7, <2>1 DEF Lock
        <3> QED BY <3>1
    <2>2. CASE u # w
        <3>1. lock'[u] = lock[u]
            BY <1>3, <2>2
        <3> QED BY <3>1 DEF GuessInv, AttemptsCount
    <2> QED BY <2>1, <2>2
<1>12. AnswersAreBounded'
    <2> SUFFICES ASSUME NEW d \in Codes
                 PROVE  guesses[d] + Cardinality(Pending(run', d))
                            <= MAX_OTP_ATTEMPTS - 1 + Cardinality(Handlers)
        BY <1>3 DEF AnswersAreBounded
    <2>1. Cardinality(Pending(run', d)) <= Cardinality(Pending(run, d))
        <3>1. Pending(run', d) \subseteq Pending(run, d)
            BY <1>5 DEF Pending, Judging
        <3> QED BY <3>1, FewerPending
    <2>2. guesses[d] + Cardinality(Pending(run, d)) <= MAX_OTP_ATTEMPTS - 1 + Cardinality(Handlers)
        BY DEF GuessInv, AnswersAreBounded
    <2> QED BY <1>1, <2>1, <2>2, PendingFinite
<1> QED BY <1>9, <1>10, <1>11, <1>12 DEF GuessInv

\* Where a handler's step leads nobody to judge.
LEMMA NobodyJudges ==
    ASSUME TypeInv, NEW h \in Handlers, Others(h), ~Judging(run', h)
    PROVE  \A g \in Handlers : Judging(run', g) =>
               Judging(run, g) /\ run'[g].seen = run[g].seen /\ run'[g].user = run[g].user
BY DEF Others, Judging

LEMMA GuessUnlock ==
    ASSUME GuessInv, TypeInv', NEW h \in Handlers, UnlockNext(h)
    PROVE  GuessInv'
<1>1. /\ TypeInv /\ run \in [Handlers -> Handler] /\ lock \in [Users -> Lock]
      /\ run[h] \in Handler /\ run[h].user \in Users /\ lock[run[h].user] \in Lock
      /\ minted \in Nat
    BY DEF GuessInv, TypeInv, TypeOK, Handler
<1>2. ASSUME Others(h), ~Judging(run', h), UNCHANGED <<minted, guesses>>,
             \A u \in Users : lock'[u].otp # NoCode =>
                 lock'[u].otp = lock[u].otp /\ lock[u].attempts <= lock'[u].attempts
      PROVE  GuessInv'
    BY <1>1, <1>2, NobodyJudges, SettledStep DEF Settles
<1>3. \A u \in Users : lock[u].attempts \in Nat /\ lock[u].attempts <= lock[u].attempts
    BY <1>1 DEF Lock
<1>4. ASSUME NEW u, NEW c, Unlocks(h, u, c) PROVE GuessInv'
    <2>1. Others(h) /\ ~Judging(run', h) /\ UNCHANGED <<lock, minted, guesses>>
        BY <1>1, <1>4, OthersStay DEF Unlocks, Judging, Idle
    <2> QED BY <1>2, <1>3, <2>1
<1>5. CASE Decides(h)
    <2>1. UNCHANGED <<lock, minted, guesses>>
        BY <1>5 DEF Decides
    <2>2. CASE Ends(h)
        <3>1. Others(h) /\ ~Judging(run', h)
            BY <1>1, <2>2, OthersStay DEF Ends, Judging, Idle
        <3> QED BY <1>2, <1>3, <2>1, <3>1
    <2>3. CASE run' = [run EXCEPT ![h].at = "lift", ![h].sets = lock[run[h].user],
                                  ![h].seen = lock[run[h].user].otp]
        <3>1. Others(h) /\ ~Judging(run', h)
            BY <1>1, <2>3 DEF Others, Judging, Handler
        <3> QED BY <1>2, <1>3, <2>1, <3>1
    <2>4. CASE run' = [run EXCEPT ![h].at = "wrong", ![h].sets = lock[run[h].user],
                                  ![h].seen = lock[run[h].user].otp]
        BY <2>1, <2>4, JudgeStep
    <2> QED BY <1>5, <2>2, <2>3, <2>4 DEF Decides
<1>6. CASE Lifts(h)
    <2>1. Others(h) /\ ~Judging(run', h) /\ UNCHANGED <<minted, guesses>>
        BY <1>1, <1>6, OthersStay DEF Lifts, Ends, Judging, Idle
    <2>2. \A u \in Users : lock'[u].otp # NoCode =>
              lock'[u].otp = lock[u].otp /\ lock[u].attempts <= lock'[u].attempts
        BY <1>1, <1>3, <1>6 DEF Lifts, Lock
    <2> QED BY <1>2, <2>1, <2>2
<1>7. CASE Misses(h)
    <2> DEFINE w == run[h].user
    <2>1. /\ \A u \in Users : lock'[u].otp = lock[u].otp /\ lock[u].attempts <= lock'[u].attempts
          /\ lock'[w].attempts = lock[w].attempts + 1 /\ lock[w].attempts \in Nat
        BY <1>1, <1>3, <1>7 DEF Misses, Attempts, Incremented, Lock
    <2>2. Judging(run, h) /\ UNCHANGED minted
        BY <1>7 DEF Misses, Judging
    <2>3. CASE Goes(h, "void") /\ UNCHANGED guesses
        <3>1. \A g \in Handlers : Judging(run', g) =>
                  Judging(run, g) /\ run'[g].seen = run[g].seen /\ run'[g].user = run[g].user
            BY <1>1, <2>2, <2>3 DEF Goes, Judging, Handler
        <3> QED BY <1>1, <2>1, <2>2, <2>3, <3>1, SettledStep DEF Settles
    <2>4. CASE Ends(h) /\ Answers(h) /\ (Attempts(h) < MAX_OTP_ATTEMPTS \/ lock[w].otp = NoCode)
        <3>1. ASSUME NEW u \in Users, lock'[u].otp # NoCode, lock'[u].otp = run[h].seen
              PROVE  lock[u].attempts < lock'[u].attempts /\ lock'[u].attempts < MAX_OTP_ATTEMPTS
            <4>1. u = w
                BY <2>1, <2>2, <3>1 DEF GuessInv, CodesAreOwned
            <4> QED BY <2>1, <2>4, <3>1, <4>1 DEF Attempts, Incremented
        <3> QED BY <2>1, <2>2, <2>4, <3>1, AnswerStep
    <2>5. Attempts(h) \in Nat /\ MAX_OTP_ATTEMPTS \in Nat
        BY <2>1 DEF Attempts, Incremented
    <2>6. \/ Goes(h, "void") /\ UNCHANGED guesses
          \/ Ends(h) /\ Answers(h) /\ (~(Attempts(h) >= MAX_OTP_ATTEMPTS) \/ lock[w].otp = NoCode)
        BY <1>7 DEF Misses
    <2> QED BY <2>3, <2>4, <2>5, <2>6
<1>8. CASE Voids(h)
    <2>1. /\ Judging(run, h) /\ UNCHANGED minted /\ Ends(h) /\ Answers(h)
        BY <1>8 DEF Voids, Judging
    <2>2. /\ lock'[run[h].user].otp = NoCode
          /\ \A u \in Users : u # run[h].user => lock'[u] = lock[u]
        BY <1>1, <1>8 DEF Voids, Lock
    <2>3. ASSUME NEW u \in Users, lock'[u].otp # NoCode
          PROVE  /\ lock'[u].otp = lock[u].otp /\ lock[u].attempts <= lock'[u].attempts
                 /\ lock'[u].otp # run[h].seen
        BY <1>3, <2>1, <2>2, <2>3 DEF GuessInv, CodesAreOwned
    <2> QED BY <2>1, <2>3, AnswerStep
<1> QED BY <1>4, <1>5, <1>6, <1>7, <1>8 DEF UnlockNext

LEMMA GuessStep == GuessInv /\ [Next]_vars => GuessInv'
<1> SUFFICES ASSUME GuessInv, [Next]_vars PROVE GuessInv'
    OBVIOUS
<1>1. TypeInv' /\ TypeInv
    BY TypeStep DEF GuessInv
<1>2. /\ run \in [Handlers -> Handler] /\ lock \in [Users -> Lock] /\ minted \in Nat
      /\ \A u \in Users : lock[u].attempts \in Nat /\ lock[u].attempts <= lock[u].attempts
      /\ \A h \in Handlers : run[h] \in Handler /\ run[h].user \in Users
    BY <1>1 DEF TypeInv, TypeOK, Handler, Lock
<1>3. ASSUME NEW h \in Handlers, Others(h), ~Judging(run', h), UNCHANGED <<lock, minted, guesses>>
      PROVE  GuessInv'
    BY <1>1, <1>2, <1>3, NobodyJudges, SettledStep DEF Settles
<1>4. ASSUME NEW h \in Handlers, LimitNext(h) PROVE GuessInv'
    <2>1. Others(h)
        BY <1>1, <1>4, OthersStay DEF LimitNext, OwnLimits, Bumps, Opens, Counts, FailsOpen,
                                      Others, TypeInv, TypeOK
    <2>2. ~Judging(run', h)
        <3>1. CASE Ends(h)
            BY <1>2, <3>1 DEF Ends, Idle, Judging
        <3>2. ASSUME NEW place \in {"read", "bump", "write"}, Goes(h, place) PROVE ~Judging(run', h)
            BY <1>2, <3>2 DEF Goes, Judging, Handler
        <3>3. CASE Bumps(h)
            BY <1>2, <3>3 DEF Bumps, Judging, Handler
        <3> QED BY <1>4, <3>1, <3>2, <3>3 DEF LimitNext, OwnLimits, Opens, Counts, FailsOpen
    <2>3. UNCHANGED <<lock, minted, guesses>>
        BY <1>4 DEF LimitNext, OwnLimits, Bumps, Opens, Counts, FailsOpen
    <2> QED BY <1>3, <2>1, <2>2, <2>3
<1>5. ASSUME NEW h \in Handlers, LockNext(h) PROVE GuessInv'
    <2>1. CASE Writes(h) /\ Mints(h)
        BY <1>1, <2>1, FreshStep
    <2>2. CASE Writes(h) /\ ~Mints(h)
        <3>1. /\ Ends(h) /\ UNCHANGED <<minted, guesses>>
              /\ lock' = [lock EXCEPT ![run[h].user] = Written(h, NoCode)]
            BY <2>2 DEF Writes
        <3>2. Others(h) /\ ~Judging(run', h)
            BY <1>1, <1>2, <3>1, OthersStay DEF Ends, Idle, Judging
        <3>3. Written(h, NoCode).otp = NoCode
            BY <1>2 DEF Written, Lock, Handler
        <3>4. \A u \in Users : lock'[u].otp # NoCode =>
                  lock'[u].otp = lock[u].otp /\ lock[u].attempts <= lock'[u].attempts
            BY <1>2, <3>1, <3>3
        <3> QED BY <1>1, <1>2, <3>1, <3>2, <3>4, NobodyJudges, SettledStep DEF Settles
    <2>3. CASE Posts(h)
        <3>1. Others(h) /\ ~Judging(run', h) /\ UNCHANGED <<lock, minted, guesses>>
            BY <1>1, <1>2, <2>3, OthersStay DEF Posts, Ends, Idle, Judging
        <3> QED BY <1>3, <3>1
    <2>4. CASE ReadsLock(h)
        <3>1. Others(h) /\ UNCHANGED <<lock, minted, guesses>>
            BY <1>1, <2>4, OthersStay DEF ReadsLock, Others, TypeInv, TypeOK
        <3>2. ~Judging(run', h)
            BY <1>2, <2>4 DEF ReadsLock, Ends, Idle, Judging, Handler
        <3> QED BY <1>3, <3>1, <3>2
    <2>5. ASSUME NEW u, NEW p, NEW method, NEW t,
                 Resends(h, u) \/ Locks(h, u, method, p, t)
          PROVE  GuessInv'
        <3>1. Others(h) /\ ~Judging(run', h) /\ UNCHANGED <<lock, minted, guesses>>
            BY <1>1, <1>2, <2>5, OthersStay DEF Resends, Locks, Idle, Judging
        <3> QED BY <1>3, <3>1
    <2> QED BY <1>5, <2>1, <2>2, <2>3, <2>4, <2>5 DEF LockNext
<1>6. ASSUME NEW h \in Handlers, UnlockNext(h) PROVE GuessInv'
    BY <1>1, <1>6, GuessUnlock
<1>7. ASSUME NEW h \in Handlers, Dies(h) PROVE GuessInv'
    <2>1. Others(h) /\ ~Judging(run', h) /\ UNCHANGED <<lock, minted, guesses>>
        BY <1>1, <1>2, <1>7, OthersStay DEF Dies, Ends, Idle, Judging
    <2> QED BY <1>3, <2>1
<1>8. ASSUME NEW u \in Users, Disables(u) PROVE GuessInv'
    <2>1. UNCHANGED <<run, minted, guesses>>
        BY <1>8 DEF Disables
    <2>2. \A v \in Users : lock'[v].otp # NoCode =>
              lock'[v].otp = lock[v].otp /\ lock[v].attempts <= lock'[v].attempts
        BY <1>2, <1>8 DEF Disables, Lock
    <2> QED BY <1>1, <1>2, <2>1, <2>2, SettledStep DEF Settles, Judging
<1>9. CASE Tick \/ UNCHANGED vars
    <2>1. UNCHANGED <<run, lock, minted, guesses>>
        BY <1>9 DEF Tick, vars
    <2> QED BY <1>1, <1>2, <2>1, SettledStep DEF Settles, Judging
<1> QED BY <1>4, <1>5, <1>6, <1>7, <1>8, <1>9 DEF Next

\* However wrong answers overlap, a code is guessed at no more often than the cap
\* and once by every other request that had read it (addiction-protection.ts:225-243),
\* for any users, handlers and cap.
THEOREM GuessesAreFew == Spec => []GuessesAreBounded
<1>1. Init => GuessInv
    <2> SUFFICES ASSUME Init PROVE GuessInv
        OBVIOUS
    <2>1. /\ \A h \in Handlers : ~Judging(run, h)
          /\ \A u \in Users : lock[u].otp = NoCode
        BY DEF Init, Idle, Judging, Unlocked
    <2>2. minted = 0 /\ \A c \in Codes : guesses[c] = 0
        BY DEF Init
    <2>3. CodesAreMinted /\ CodesAreOwned /\ AttemptsCount
        BY <2>1, <2>2 DEF CodesAreMinted, CodesAreOwned, AttemptsCount, NoCode
    <2>4. AnswersAreBounded
        <3>1. ASSUME NEW c \in Codes PROVE Cardinality(Pending(run, c)) = 0
            <4>1. Pending(run, c) = {}
                BY <2>1 DEF Pending
            <4> QED BY <4>1, FS_EmptySet
        <3> QED BY <2>2, <3>1, PendingFinite DEF AnswersAreBounded
    <2> QED BY <2>3, <2>4, InitType DEF GuessInv
<1>2. GuessInv /\ [Next]_vars => GuessInv'
    BY GuessStep
<1>3. GuessInv => GuessesAreBounded
    <2> SUFFICES ASSUME GuessInv, NEW c \in Codes
                 PROVE  guesses[c] <= MAX_OTP_ATTEMPTS + Cardinality(Handlers) - 1
        BY DEF GuessesAreBounded
    <2>1. guesses[c] \in Nat
        BY DEF GuessInv, TypeInv, TypeOK
    <2>2. guesses[c] + Cardinality(Pending(run, c)) <= MAX_OTP_ATTEMPTS - 1 + Cardinality(Handlers)
        BY DEF GuessInv, AnswersAreBounded
    <2> QED BY <2>1, <2>2, PendingFinite
<1> QED BY <1>1, <1>2, <1>3, PTL DEF Spec

-----------------------------------------------------------------------------
(* The cap of a recipient.  While a window is open, nobody else finds it     *)
(* closed: those that did are left to start it anew, once each.  A start     *)
(* lets in its own request, those that had bumped the counter before, and as *)
(* many more as the counter leaves.  Most(m) is what was let in, and may     *)
(* still be before the next start, once m requests are not about to start.   *)

Opening(q, p) == {h \in Handlers : q[h].at = "open" /\ q[h].sets.partner = p}
Counting(q, p) == {h \in Handlers : q[h].at = "count" /\ q[h].sets.partner = p}
Elsewhere(q, p) == Handlers \ Opening(q, p)

Most(m) == PerRecipient * m + (m * (m - 1)) \div 2

\* x let in, a counter of c, k about to read it.
InWindow(x, c, k, m) == x + (IF c <= PerRecipient THEN k + PerRecipient - c ELSE 0) <= Most(m)
AtAnyTime(x, c, k) == x + (IF c <= PerRecipient THEN k ELSE 0) <= Most(Cardinality(Handlers))

CapAt(p) ==
    /\ IsOpen(p, now) => InWindow(passes[p], throttle[p].count, Cardinality(Counting(run, p)),
                                  Cardinality(Elsewhere(run, p)))
    /\ AtAnyTime(passes[p], throttle[p].count, Cardinality(Counting(run, p)))

CapInv == TypeInv /\ \A p \in Partners : CapAt(p)

LEMMA MostNext ==
    ASSUME NEW m \in Nat
    PROVE  Most(m) \in Nat /\ Most(m + 1) = Most(m) + PerRecipient + m
<1> DEFINE d == m * (m - 1)
<1>1. d \in Nat
    <2>1. CASE m = 0
        BY <2>1
    <2>2. CASE m # 0
        <3>1. m - 1 \in Nat
            BY <2>2
        <3> QED BY <3>1
    <2> QED BY <2>1, <2>2
<1>2. (m + 1) * ((m + 1) - 1) = d + 2 * m
    OBVIOUS
<1>3. PerRecipient * (m + 1) = PerRecipient * m + PerRecipient /\ PerRecipient * m \in Nat
    OBVIOUS
<1> HIDE DEF d
<1>4. d \div 2 \in Nat /\ (d + 2 * m) \div 2 = d \div 2 + m
    BY <1>1
<1>5. Most(m) = PerRecipient * m + d \div 2
      /\ Most(m + 1) = PerRecipient * (m + 1) + (d + 2 * m) \div 2
    BY <1>2 DEF Most, d
<1> QED BY <1>3, <1>4, <1>5

LEMMA MostGrows ==
    ASSUME NEW m \in Nat, NEW n \in Nat, m <= n
    PROVE  Most(m) <= Most(n)
<1>1. PerRecipient * m <= PerRecipient * n
      /\ PerRecipient * m \in Nat /\ PerRecipient * n \in Nat
    <2>1. n - m \in Nat /\ PerRecipient * (n - m) \in Nat
        OBVIOUS
    <2>2. PerRecipient * n = PerRecipient * m + PerRecipient * (n - m)
        OBVIOUS
    <2> QED BY <2>1, <2>2
<1>2. m * (m - 1) <= n * (n - 1)
    <2>1. CASE m = n
        BY <2>1
    <2>2. CASE m # n
        <3>1. n - m \in Nat /\ n + m - 1 \in Nat
            BY <2>2
        <3>2. (n - m) * (n + m - 1) \in Nat
            BY <3>1
        <3>3. n * (n - 1) = m * (m - 1) + (n - m) * (n + m - 1)
            OBVIOUS
        <3> QED BY <3>2, <3>3
    <2> QED BY <2>1, <2>2
<1> DEFINE d == m * (m - 1)
           e == n * (n - 1)
<1>3. d \in Int /\ e \in Int /\ d <= e
    BY <1>2
<1>4. Most(m) = PerRecipient * m + d \div 2 /\ Most(n) = PerRecipient * n + e \div 2
    BY DEF Most
<1> HIDE DEF d, e
<1>5. d \div 2 <= e \div 2 /\ d \div 2 \in Int /\ e \div 2 \in Int
    BY <1>3
<1> QED BY <1>1, <1>4, <1>5

LEMMA CrewFinite ==
    ASSUME NEW q, NEW p
    PROVE  /\ IsFiniteSet(Counting(q, p)) /\ Cardinality(Counting(q, p)) \in Nat
           /\ IsFiniteSet(Elsewhere(q, p)) /\ Cardinality(Elsewhere(q, p)) \in Nat
           /\ Cardinality(Elsewhere(q, p)) <= Cardinality(Handlers)
           /\ Cardinality(Counting(q, p)) <= Cardinality(Elsewhere(q, p))
           /\ Cardinality(Handlers) \in Nat
<1>1. Counting(q, p) \subseteq Elsewhere(q, p) /\ Elsewhere(q, p) \subseteq Handlers
    BY DEF Counting, Opening, Elsewhere
<1>2. IsFiniteSet(Elsewhere(q, p)) /\ Cardinality(Elsewhere(q, p)) <= Cardinality(Handlers)
    BY <1>1, FS_Subset
<1> QED BY <1>1, <1>2, FS_Subset, FS_CardinalityType

\* The counter of a recipient and what was let in are numbers.
LEMMA CapType ==
    ASSUME TypeInv, NEW p \in Partners
    PROVE  passes[p] \in Nat /\ throttle[p] \in Throttle /\ throttle[p].count \in Nat
           /\ throttle[p].from \in Nat /\ now \in Nat
BY DEF TypeInv, TypeOK, Throttle, Times

\* A recipient of whom nothing is counted, and nobody new is about to be.
LEMMA QuietAt ==
    ASSUME TypeInv, TypeInv', NEW p \in Partners, CapAt(p),
           passes'[p] = passes[p], throttle'[p] = throttle[p], now <= now',
           Counting(run', p) \subseteq Counting(run, p),
           IsOpen(p, now) => Elsewhere(run, p) \subseteq Elsewhere(run', p)
    PROVE  CapAt(p)'
<1> DEFINE k == Cardinality(Counting(run, p))
           l == Cardinality(Counting(run', p))
           m == Cardinality(Elsewhere(run, p))
           o == Cardinality(Elsewhere(run', p))
<1>1. l <= k /\ l \in Nat /\ k \in Nat /\ m \in Nat /\ o \in Nat /\ (IsOpen(p, now) => m <= o)
    BY CrewFinite, FS_Subset
<1>2. IsOpen(p, now)' => IsOpen(p, now)
    BY CapType DEF IsOpen, TypeInv, TypeOK, Times
<1>3. passes[p] \in Nat /\ throttle[p].count \in Nat /\ Cardinality(Handlers) \in Nat
    BY CapType, CrewFinite
<1>4. IsOpen(p, now) => Most(m) <= Most(o)
    BY <1>1, MostGrows
<1>5. Most(m) \in Nat /\ Most(o) \in Nat /\ Most(Cardinality(Handlers)) \in Nat
    BY <1>1, <1>3, MostNext
<1>6. (IsOpen(p, now) => InWindow(passes[p], throttle[p].count, k, m))
      /\ AtAnyTime(passes[p], throttle[p].count, k)
    BY DEF CapAt
<1> HIDE DEF k, l, m, o
<1>7. IsOpen(p, now) => InWindow(passes[p], throttle[p].count, l, o)
    BY <1>1, <1>3, <1>4, <1>5, <1>6 DEF InWindow
<1>8. AtAnyTime(passes[p], throttle[p].count, l)
    BY <1>1, <1>3, <1>5, <1>6 DEF AtAnyTime
<1> QED BY <1>2, <1>7, <1>8 DEF CapAt, l, o

\* The counter is bumped in an open window.
LEMMA BumpAt ==
    ASSUME TypeInv, TypeInv', NEW p \in Partners, CapAt(p), NEW h \in Handlers, IsOpen(p, now),
           passes'[p] = passes[p], throttle'[p] = [throttle[p] EXCEPT !.count = @ + 1],
           Counting(run', p) \subseteq Counting(run, p) \union {h},
           Elsewhere(run, p) \subseteq Elsewhere(run', p)
    PROVE  CapAt(p)'
<1> DEFINE k == Cardinality(Counting(run, p))
           l == Cardinality(Counting(run', p))
           m == Cardinality(Elsewhere(run, p))
           o == Cardinality(Elsewhere(run', p))
<1>1. l \in Nat /\ k \in Nat /\ m \in Nat /\ o \in Nat /\ m <= o /\ o <= Cardinality(Handlers)
    BY CrewFinite, FS_Subset
<1>2. l <= k + 1
    <2> DEFINE both == Counting(run, p) \union {h}
    <2>1. IsFiniteSet(both) /\ (Cardinality(both) = k + 1 \/ Cardinality(both) = k)
        <3>1. IsFiniteSet(Counting(run, p))
            BY CrewFinite
        <3> QED BY <3>1, FS_AddElement
    <2>2. l <= Cardinality(both)
        BY <2>1, FS_Subset
    <2> QED BY <1>1, <2>1, <2>2
<1>3. /\ passes[p] \in Nat /\ throttle[p].count \in Nat /\ Cardinality(Handlers) \in Nat
      /\ throttle'[p].count = throttle[p].count + 1
    BY CapType, CrewFinite DEF Throttle
<1>4. Most(m) <= Most(o) /\ Most(o) <= Most(Cardinality(Handlers))
    BY <1>1, <1>3, MostGrows
<1>5. Most(m) \in Nat /\ Most(o) \in Nat /\ Most(Cardinality(Handlers)) \in Nat
    BY <1>1, <1>3, MostNext
<1>6. InWindow(passes[p], throttle[p].count, k, m)
    BY DEF CapAt
<1> HIDE DEF k, l, m, o
<1>7. /\ InWindow(passes[p], throttle[p].count + 1, l, o)
      /\ AtAnyTime(passes[p], throttle[p].count + 1, l)
    BY <1>1, <1>2, <1>3, <1>4, <1>5, <1>6 DEF InWindow, AtAnyTime
<1> QED BY <1>3, <1>7 DEF CapAt, l, o

\* A request that had bumped the counter reads it and is let in.
LEMMA CountAt ==
    ASSUME TypeInv, TypeInv', NEW p \in Partners, CapAt(p), NEW h \in Counting(run, p),
           ~IsOver(p), passes'[p] = passes[p] + 1, UNCHANGED <<throttle, now>>,
           Counting(run', p) \subseteq Counting(run, p) \ {h},
           Elsewhere(run, p) \subseteq Elsewhere(run', p)
    PROVE  CapAt(p)'
<1> DEFINE k == Cardinality(Counting(run, p))
           l == Cardinality(Counting(run', p))
           m == Cardinality(Elsewhere(run, p))
           o == Cardinality(Elsewhere(run', p))
<1>1. l \in Nat /\ k \in Nat /\ m \in Nat /\ o \in Nat /\ m <= o
    BY CrewFinite, FS_Subset
<1>2. l <= k - 1
    <2>1. IsFiniteSet(Counting(run, p) \ {h}) /\ Cardinality(Counting(run, p) \ {h}) = k - 1
        BY CrewFinite, FS_RemoveElement
    <2> QED BY <2>1, FS_Subset
<1>3. passes[p] \in Nat /\ throttle[p].count \in Nat /\ Cardinality(Handlers) \in Nat
      /\ throttle[p].count <= PerRecipient
    BY CapType, CrewFinite DEF IsOver
<1>4. Most(m) <= Most(o)
    BY <1>1, MostGrows
<1>5. Most(m) \in Nat /\ Most(o) \in Nat /\ Most(Cardinality(Handlers)) \in Nat
    BY <1>1, <1>3, MostNext
<1>6. (IsOpen(p, now) => InWindow(passes[p], throttle[p].count, k, m))
      /\ AtAnyTime(passes[p], throttle[p].count, k)
    BY DEF CapAt
<1> HIDE DEF k, l, m, o
<1>7. /\ IsOpen(p, now) => InWindow(passes[p] + 1, throttle[p].count, l, o)
      /\ AtAnyTime(passes[p] + 1, throttle[p].count, l)
    BY <1>1, <1>2, <1>3, <1>4, <1>5, <1>6 DEF InWindow, AtAnyTime
<1>8. IsOpen(p, now)' <=> IsOpen(p, now)
    BY DEF IsOpen
<1> QED BY <1>7, <1>8 DEF CapAt, l, o

\* A request that found the window closed starts it, or starts it anew.
LEMMA OpenAt ==
    ASSUME TypeInv, TypeInv', NEW p \in Partners, CapAt(p), NEW h \in Opening(run, p),
           throttle'[p].count = 1, passes'[p] = (IF IsOpen(p, now) THEN passes[p] + 1 ELSE 1),
           Counting(run', p) \subseteq Counting(run, p),
           Elsewhere(run, p) \union {h} \subseteq Elsewhere(run', p)
    PROVE  CapAt(p)'
<1> DEFINE k == Cardinality(Counting(run, p))
           l == Cardinality(Counting(run', p))
           m == Cardinality(Elsewhere(run, p))
           o == Cardinality(Elsewhere(run', p))
<1>1. /\ l \in Nat /\ k \in Nat /\ m \in Nat /\ o \in Nat
      /\ l <= k /\ k <= m /\ o <= Cardinality(Handlers)
    BY CrewFinite, FS_Subset
<1>2. m + 1 <= o
    <2>1. h \notin Elsewhere(run, p)
        BY DEF Elsewhere
    <2>2. IsFiniteSet(Elsewhere(run, p) \union {h}) /\ Cardinality(Elsewhere(run, p) \union {h}) = m + 1
        BY <2>1, CrewFinite, FS_AddElement
    <2> QED BY <2>2, CrewFinite, FS_Subset
<1>3. passes[p] \in Nat /\ throttle[p].count \in Nat /\ Cardinality(Handlers) \in Nat
    BY CapType, CrewFinite
<1>4. /\ Most(m + 1) = Most(m) + PerRecipient + m
      /\ Most(m + 1) <= Most(o) /\ Most(o) <= Most(Cardinality(Handlers))
    BY <1>1, <1>2, <1>3, MostNext, MostGrows
<1>5. Most(m) \in Nat /\ Most(o) \in Nat /\ Most(Cardinality(Handlers)) \in Nat
    BY <1>1, <1>3, MostNext
<1>6. IsOpen(p, now) => InWindow(passes[p], throttle[p].count, k, m)
    BY DEF CapAt
<1>7. passes'[p] <= Most(m) + 1 /\ passes'[p] \in Nat
    <2>1. CASE IsOpen(p, now)
        BY <1>1, <1>3, <1>5, <1>6, <2>1 DEF InWindow
    <2>2. CASE ~IsOpen(p, now)
        BY <1>5, <2>2
    <2> QED BY <2>1, <2>2
<1> HIDE DEF k, l, m, o
<1>8. /\ InWindow(passes'[p], 1, l, o)
      /\ AtAnyTime(passes'[p], 1, l)
    BY <1>1, <1>3, <1>4, <1>5, <1>7 DEF InWindow, AtAnyTime
<1> QED BY <1>8 DEF CapAt, l, o

\* What a handler's step makes of those counted with a recipient.
LEMMA CrewStep ==
    ASSUME NEW h \in Handlers, Others(h), NEW p
    PROVE  /\ Counting(run', p) \subseteq Counting(run, p) \union {h}
           /\ Elsewhere(run, p) \ {h} \subseteq Elsewhere(run', p)
           /\ h \notin Counting(run', p) => Counting(run', p) \subseteq Counting(run, p) \ {h}
           /\ h \notin Opening(run', p) =>
                  Elsewhere(run, p) \union {h} \subseteq Elsewhere(run', p)
BY DEF Others, Counting, Opening, Elsewhere

LEMMA CapLimit ==
    ASSUME CapInv, TypeInv', NEW h \in Handlers, LimitNext(h), NEW p \in Partners
    PROVE  CapAt(p)'
<1> DEFINE r == Recipient(h)
<1>1. /\ TypeInv /\ CapAt(p) /\ run \in [Handlers -> Handler] /\ run[h] \in Handler
      /\ throttle \in [Partners -> Throttle] /\ passes \in [Partners -> Nat]
      /\ run[h].at \in {"bump", "open", "count"} => r \in Partners
    BY DEF CapInv, TypeInv, TypeOK, Handler, Lock, Recipient
<1>2. now \in Nat /\ now' = now
    BY <1>1, CapType DEF LimitNext, OwnLimits, Bumps, Opens, Counts, FailsOpen
<1>3. Others(h)
    BY <1>1, OthersStay DEF LimitNext, OwnLimits, Bumps, Opens, Counts, FailsOpen,
                            Others, TypeInv, TypeOK
\* steps that leave the handler neither about to start a window nor to read the counter
<1>4. ASSUME run'[h].at \notin {"open", "count"}
      PROVE  /\ Counting(run', p) \subseteq Counting(run, p) \ {h}
             /\ Elsewhere(run, p) \union {h} \subseteq Elsewhere(run', p)
    BY <1>3, <1>4, CrewStep DEF Counting, Opening
<1>5. ASSUME run'[h].at \notin {"open", "count"}, passes'[p] = passes[p], throttle'[p] = throttle[p]
      PROVE  CapAt(p)'
    BY <1>1, <1>2, <1>4, <1>5, QuietAt
<1>6. Ends(h) => run'[h].at = "idle"
    BY <1>1 DEF Ends, Idle
<1>7. \A place : Goes(h, place) => run'[h].at = place
    BY <1>1 DEF Goes, Handler
<1>8. CASE OwnLimits(h)
    BY <1>5, <1>6, <1>7, <1>8 DEF OwnLimits
<1>9. CASE FailsOpen(h)
    BY <1>5, <1>7, <1>9 DEF FailsOpen
<1>10. CASE Counts(h)
    <2>1. run'[h].at \in {"idle", "write"} /\ UNCHANGED <<throttle, now>> /\ r \in Partners
        BY <1>1, <1>6, <1>7, <1>10 DEF Counts
    <2>2. CASE p # r \/ IsOver(r)
        <3>1. passes'[p] = passes[p]
            BY <1>1, <1>10, <2>2 DEF Counts
        <3> QED BY <1>5, <2>1, <3>1
    <2>3. CASE p = r /\ ~IsOver(r)
        <3>1. passes'[p] = passes[p] + 1
            BY <1>1, <1>10, <2>3 DEF Counts
        <3>2. h \in Counting(run, p)
            BY <1>10, <2>3 DEF Counts, Counting, Recipient
        <3> QED BY <1>1, <1>4, <2>1, <2>3, <3>1, <3>2, CountAt
    <2> QED BY <2>2, <2>3
<1>11. CASE Opens(h)
    <2>1. run'[h].at = "write" /\ r \in Partners
        BY <1>1, <1>7, <1>11 DEF Opens
    <2>2. CASE p # r
        <3>1. passes'[p] = passes[p] /\ throttle'[p] = throttle[p]
            BY <1>1, <1>11, <2>1, <2>2 DEF Opens
        <3> QED BY <1>5, <2>1, <3>1
    <2>3. CASE p = r
        <3>1. throttle'[p].count = 1
              /\ passes'[p] = (IF IsOpen(p, now) THEN passes[p] + 1 ELSE 1)
            BY <1>1, <1>11, <2>3 DEF Opens
        <3>2. h \in Opening(run, p)
            BY <1>11, <2>3 DEF Opens, Opening, Recipient
        <3> QED BY <1>1, <1>4, <2>1, <3>1, <3>2, OpenAt
    <2> QED BY <2>2, <2>3
<1>12. CASE Bumps(h)
    <2>1. /\ passes' = passes /\ r \in Partners /\ run[h].at = "bump"
          /\ run'[h].sets = run[h].sets /\ run'[h].at \in {"count", "open"}
        BY <1>1, <1>12 DEF Bumps, Handler
    <2>2. CASE p # r
        <3>1. h \notin Counting(run', p) /\ h \notin Opening(run', p)
            BY <2>1, <2>2 DEF Counting, Opening, Recipient
        <3>2. throttle'[p] = throttle[p]
            BY <1>1, <1>12, <2>1, <2>2 DEF Bumps
        <3> QED BY <1>1, <1>2, <1>3, <2>1, <3>1, <3>2, CrewStep, QuietAt
    <2>3. CASE p = r /\ IsOpen(p, now)
        <3>1. throttle'[p] = [throttle[p] EXCEPT !.count = @ + 1] /\ run'[h].at = "count"
            BY <1>1, <1>12, <2>3 DEF Bumps, Handler
        <3>2. h \notin Opening(run', p)
            BY <3>1 DEF Opening
        <3> QED BY <1>1, <1>3, <2>1, <2>3, <3>1, <3>2, CrewStep, BumpAt
    <2>4. CASE p = r /\ ~IsOpen(p, now)
        <3>1. throttle' = throttle /\ run'[h].at = "open"
            BY <1>1, <1>12, <2>4 DEF Bumps, Handler
        <3>2. h \notin Counting(run', p)
            BY <3>1 DEF Counting
        <3> QED BY <1>1, <1>2, <1>3, <2>1, <2>4, <3>1, <3>2, CrewStep, QuietAt
    <2> QED BY <2>2, <2>3, <2>4
<1> QED BY <1>8, <1>9, <1>10, <1>11, <1>12 DEF LimitNext

LEMMA CapStep == CapInv /\ [Next]_vars => CapInv'
<1> SUFFICES ASSUME CapInv, [Next]_vars PROVE CapInv'
    OBVIOUS
<1>1. TypeInv' /\ TypeInv
    BY TypeStep DEF CapInv
<1>2. SUFFICES ASSUME NEW p \in Partners PROVE CapAt(p)'
    BY <1>1 DEF CapInv
<1>3. /\ run \in [Handlers -> Handler] /\ now \in Nat /\ CapAt(p)
      /\ \A h \in Handlers : run[h] \in Handler /\ run[h].user \in Users
    BY <1>1, CapType DEF CapInv, TypeInv, TypeOK, Handler
<1>4. ASSUME NEW h \in Handlers, Others(h), run'[h].at \notin {"open", "count"}, UNCHANGED <<now, limits>>
      PROVE  CapAt(p)'
    <2>1. h \notin Counting(run', p) /\ h \notin Opening(run', p)
        BY <1>4 DEF Counting, Opening
    <2>2. now <= now' /\ passes'[p] = passes[p] /\ throttle'[p] = throttle[p]
        BY <1>3, <1>4
    <2> QED BY <1>1, <1>3, <1>4, <2>1, <2>2, CrewStep, QuietAt
<1>5. \A h \in Handlers : Ends(h) => run'[h].at = "idle"
    BY <1>3 DEF Ends, Idle
<1>6. \A h \in Handlers : \A place : Goes(h, place) => run'[h].at = place
    BY <1>3 DEF Goes, Handler
<1>7. ASSUME NEW h \in Handlers, LimitNext(h) PROVE CapAt(p)'
    BY <1>1, <1>7, CapLimit
<1>8. ASSUME NEW h \in Handlers, LockNext(h) PROVE CapAt(p)'
    <2>1. UNCHANGED <<now, limits>>
        BY <1>8 DEF LockNext, Locks, Resends, ReadsLock, Writes, Posts
    <2>2. Others(h)
        BY <1>1, <1>8, OthersStay DEF LockNext, Locks, Resends, ReadsLock, Writes, Posts,
                                      Others, TypeInv, TypeOK
    <2>3. run'[h].at \notin {"open", "count"}
        <3>1. ASSUME NEW u, NEW q, NEW method, NEW t, Resends(h, u) \/ Locks(h, u, method, q, t)
              PROVE  run'[h].at = "own"
            BY <1>3, <3>1 DEF Resends, Locks, Idle
        <3>2. CASE ReadsLock(h)
            BY <1>3, <1>5, <3>2 DEF ReadsLock, Handler
        <3>3. CASE Writes(h)
            BY <1>3, <1>5, <3>3 DEF Writes, Handler
        <3>4. CASE Posts(h)
            BY <1>5, <3>4 DEF Posts
        <3> QED BY <1>8, <3>1, <3>2, <3>3, <3>4 DEF LockNext
    <2> QED BY <1>4, <2>1, <2>2, <2>3
<1>9. ASSUME NEW h \in Handlers, UnlockNext(h) PROVE CapAt(p)'
    <2>1. UNCHANGED <<now, limits>>
        BY <1>9 DEF UnlockNext, Unlocks, Decides, Lifts, Misses, Voids
    <2>2. Others(h)
        BY <1>1, <1>9, OthersStay DEF UnlockNext, Unlocks, Decides, Lifts, Misses, Voids,
                                      Others, TypeInv, TypeOK
    <2>3. run'[h].at \notin {"open", "count"}
        <3>1. ASSUME NEW u, NEW c, Unlocks(h, u, c) PROVE run'[h].at = "read"
            BY <1>3, <3>1 DEF Unlocks, Idle
        <3>2. CASE Decides(h)
            BY <1>3, <1>5, <3>2 DEF Decides, Handler
        <3>3. CASE Lifts(h) \/ Misses(h) \/ Voids(h)
            BY <1>5, <1>6, <3>3 DEF Lifts, Misses, Voids
        <3> QED BY <1>9, <3>1, <3>2, <3>3 DEF UnlockNext
    <2> QED BY <1>4, <2>1, <2>2, <2>3
<1>10. ASSUME NEW h \in Handlers, Dies(h) PROVE CapAt(p)'
    BY <1>1, <1>4, <1>5, <1>10, OthersStay DEF Dies
<1>11. CASE (\E u \in Users : Disables(u)) \/ Tick \/ UNCHANGED vars
    <2>1. UNCHANGED <<run, limits>>
        BY <1>11 DEF Disables, Tick, vars
    <2>2. now <= now'
        <3>1. now' = now \/ now' = now + 1
            BY <1>11 DEF Disables, Tick, vars
        <3> QED BY <1>3, <3>1
    <2> QED BY <1>1, <1>3, <2>1, <2>2, QuietAt DEF Counting, Opening, Elsewhere
<1> QED BY <1>7, <1>8, <1>9, <1>10, <1>11 DEF Next

\* However requests race over a recipient's limit, an upsert that starts the window
\* anew lets in no more than a bounded number while a window is open
\* (rate-limit.ts:58-111), for any users, partners, handlers, limit and window.
THEOREM CapIsBounded == Spec => []CapHolds
<1>1. Init => CapInv
    <2> SUFFICES ASSUME Init, NEW p \in Partners PROVE CapAt(p)
        BY InitType DEF CapInv
    <2>1. Counting(run, p) = {}
        BY DEF Init, Idle, Counting
    <2>2. passes[p] = 0 /\ throttle[p].count = 0 /\ Cardinality(Counting(run, p)) = 0
        BY <2>1, FS_EmptySet DEF Init
    <2>3. Most(Cardinality(Handlers)) \in Nat
        BY CrewFinite, MostNext
    <2> QED BY <2>2, <2>3 DEF CapAt, IsOpen, AtAnyTime
<1>2. CapInv /\ [Next]_vars => CapInv'
    BY CapStep
<1>3. CapInv => CapHolds
    <2> SUFFICES ASSUME CapInv, NEW p \in Partners
                 PROVE  passes[p] <= Most(Cardinality(Handlers))
        BY DEF CapHolds, Most
    <2>1. passes[p] \in Nat /\ throttle[p].count \in Nat
        BY CapType DEF CapInv
    <2>2. AtAnyTime(passes[p], throttle[p].count, Cardinality(Counting(run, p)))
        BY DEF CapInv, CapAt
    <2>3. Cardinality(Counting(run, p)) \in Nat /\ Most(Cardinality(Handlers)) \in Nat
        BY CrewFinite, MostNext
    <2> QED BY <2>1, <2>2, <2>3 DEF AtAnyTime
<1> QED BY <1>1, <1>2, <1>3, PTL DEF Spec

=============================================================================
