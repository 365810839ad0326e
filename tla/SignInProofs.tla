---------------------------- MODULE SignInProofs -----------------------------
(***************************************************************************)
(* Theorems about SignIn, for any number of handlers, any scopes and any   *)
(* MAX_ATTEMPTS; then about TrialLedger, for any accounts, machines, ids,  *)
(* Apple IDs and handlers, and any number of claims and calls.             *)
(***************************************************************************)
EXTENDS SignIn, TrialLedger, SequenceTheorems, FiniteSetTheorems, TLAPS

USE SignInAssumption DEF secrets, history

-----------------------------------------------------------------------------
(* The rows, as sequences *)

LEMMA Domains == \A S : \A s \in Seq(S) : DOMAIN s = 1..Len(s) /\ Len(s) \in Nat
BY LenProperties

\* One row is rewritten ...
LEMMA Rewritten ==
    ASSUME NEW S, NEW s \in Seq(S), NEW n \in DOMAIN s, NEW x \in S
    PROVE  /\ [s EXCEPT ![n] = x] \in Seq(S)
           /\ Len([s EXCEPT ![n] = x]) = Len(s)
           /\ DOMAIN [s EXCEPT ![n] = x] = DOMAIN s
           /\ \A i \in DOMAIN s : [s EXCEPT ![n] = x][i] = IF i = n THEN x ELSE s[i]
BY ExceptSeq, Domains

\* ... one is added ...
LEMMA Added ==
    ASSUME NEW S, NEW s \in Seq(S), NEW x \in S
    PROVE  /\ Append(s, x) \in Seq(S)
           /\ Len(Append(s, x)) = Len(s) + 1
           /\ DOMAIN s \subseteq DOMAIN Append(s, x)
           /\ Append(s, x)[Len(s) + 1] = x
           /\ \A i \in DOMAIN s : Append(s, x)[i] = s[i]
           /\ \A i \in DOMAIN Append(s, x) : i \in DOMAIN s \/ i = Len(s) + 1
BY AppendProperties, Domains

\* ... or all of them are: the codes are spent, the links void.
LEMMA AllSpent ==
    ASSUME codes \in Seq(Code)
    PROVE  LET t == [i \in DOMAIN codes |-> Spent(codes[i])]
           IN  /\ t \in Seq(Code) /\ Len(t) = Len(codes) /\ DOMAIN t = DOMAIN codes
               /\ \A i \in DOMAIN codes : t[i].attempts = codes[i].attempts
<1> DEFINE t == [i \in DOMAIN codes |-> Spent(codes[i])]
<1>1. DOMAIN codes = 1..Len(codes) /\ Len(codes) \in Nat
    BY Domains
<1>2. \A i \in DOMAIN codes : codes[i] \in Code
    BY <1>1, ElementOfSeq
<1>3. \A i \in DOMAIN codes : Spent(codes[i]) \in Code /\ Spent(codes[i]).attempts = codes[i].attempts
    BY <1>2 DEF Spent, Code
<1>4. t \in [1..Len(codes) -> Code]
    BY <1>1, <1>3
<1>5. t \in Seq(Code)
    BY <1>1, <1>4, SeqDef
<1>6. Len(t) = Len(codes)
    BY <1>1, <1>4, <1>5, LenProperties
<1> QED BY <1>3, <1>5, <1>6

LEMMA AllVoid ==
    ASSUME links \in Seq(BOOLEAN)
    PROVE  LET t == [i \in DOMAIN links |-> FALSE]
           IN  t \in Seq(BOOLEAN) /\ Len(t) = Len(links) /\ DOMAIN t = DOMAIN links
<1> DEFINE t == [i \in DOMAIN links |-> FALSE]
<1>1. DOMAIN links = 1..Len(links) /\ Len(links) \in Nat
    BY Domains
<1>2. t \in [1..Len(links) -> BOOLEAN]
    BY <1>1
<1>3. t \in Seq(BOOLEAN)
    BY <1>1, <1>2, SeqDef
<1>4. Len(t) = Len(links)
    BY <1>1, <1>2, <1>3, LenProperties
<1> QED BY <1>3, <1>4

-----------------------------------------------------------------------------
(* Type correctness: what a handler has in hand exists *)

Held ==
    \A r \in Requests :
        /\ req[r].at \in {"retire", "mint", "judge", "answer", "exhaust"} => user.exists
        /\ req[r].at \in {"answer", "exhaust"} => req[r].n \in DOMAIN codes
        /\ req[r].at \in {"claim", "set", "void"} => req[r].n \in DOMAIN links

TypeInv ==
    /\ TypeOK /\ Held
    /\ wrong \in Seq(Nat) /\ uses \in Seq(Nat)

LEMMA Constants ==
    /\ Idle \in Handlers /\ Idle.at = "idle" /\ Idle.gives = {}
    /\ NoAccount \in Account /\ ~NoAccount.exists /\ ~NoAccount.password /\ ~NoAccount.apple
    /\ NewCode \in Code /\ NewCode.live /\ NewCode.attempts = 0
BY DEF Idle, Handlers, Places, NoAccount, Account, NewCode, Code

LEMMA Struck == \A c \in Code : [c EXCEPT !.attempts = c.attempts + 1] \in Code
BY DEF Code

\* What a step does to the handler that takes it, and to no other.
LEMMA Going ==
    ASSUME TypeOK, NEW r \in Requests, NEW place \in Places, Goes(r, place)
    PROVE  /\ req' \in [Requests -> Handlers]
           /\ req'[r].at = place /\ req'[r].n = req[r].n /\ req'[r].sees = req[r].sees
           /\ req'[r].gives = req[r].gives
           /\ \A q \in Requests \ {r} : req'[q] = req[q]
<1>1. req[r] \in Handlers /\ req' = [req EXCEPT ![r] = [req[r] EXCEPT !.at = place]]
    BY DEF TypeOK, Goes
<1>2. [req[r] EXCEPT !.at = place] \in Handlers
    BY <1>1 DEF Handlers
<1>3. req'[r] = [req[r] EXCEPT !.at = place]
    BY <1>1 DEF TypeOK
<1> QED BY <1>1, <1>2, <1>3 DEF TypeOK, Handlers

LEMMA Holding ==
    ASSUME TypeOK, NEW r \in Requests, NEW place \in Places, NEW n \in Nat,
           NEW s \in {"none", "unproved", "proved"}, NEW g \in SUBSET Scopes, Holds(r, place, n, s, g)
    PROVE  /\ req' \in [Requests -> Handlers]
           /\ req'[r].at = place /\ req'[r].n = n /\ req'[r].sees = s /\ req'[r].gives = g
           /\ \A q \in Requests \ {r} : req'[q] = req[q]
BY DEF TypeOK, Holds, Handlers

LEMMA Ending ==
    ASSUME TypeOK, NEW r \in Requests, Ends(r)
    PROVE  /\ req' \in [Requests -> Handlers] /\ req'[r].at = "idle"
           /\ \A q \in Requests \ {r} : req'[q] = req[q]
BY Constants DEF TypeOK, Ends

\* Others keep what they have in hand, since nothing is ever removed.
LEMMA HeldBy ==
    ASSUME TypeOK, Held, NEW r \in Requests,
           \A q \in Requests \ {r} : req'[q] = req[q],
           user.exists => user'.exists,
           DOMAIN codes \subseteq DOMAIN codes', DOMAIN links \subseteq DOMAIN links',
           req'[r].at \in {"retire", "mint", "judge", "answer", "exhaust"} => user'.exists,
           req'[r].at \in {"answer", "exhaust"} => req'[r].n \in DOMAIN codes',
           req'[r].at \in {"claim", "set", "void"} => req'[r].n \in DOMAIN links'
    PROVE  Held'
BY DEF Held

\* The account is there when it has a code or a link.
LEMMA Exists ==
    ASSUME TypeOK
    PROVE  /\ codes \in Seq(Code) /\ links \in Seq(BOOLEAN)
           /\ DOMAIN codes # {} => user.exists
           /\ DOMAIN links # {} => user.exists
           /\ user.password => user.exists
           /\ user \in Account /\ settings \subseteq Scopes
<1>1. DOMAIN <<>> = {}
    OBVIOUS
<1> QED BY <1>1, Constants DEF TypeOK

LEMMA TypeStep == TypeInv /\ [Next]_vars => TypeInv'
<1> SUFFICES ASSUME TypeInv, [Next]_vars PROVE TypeInv'
    OBVIOUS
<1>0. TypeOK /\ Held /\ wrong \in Seq(Nat) /\ uses \in Seq(Nat)
    BY DEF TypeInv
<1> USE <1>0, Exists
<1>1. ASSUME NEW r \in Requests, UNCHANGED <<settings, user, codes, links, granted, wrong, uses, mark>>,
             died' \in {"no", "issuing", "void"},
             req' \in [Requests -> Handlers], \A q \in Requests \ {r} : req'[q] = req[q],
             req'[r].at \in {"retire", "mint", "judge", "answer", "exhaust"} => user.exists,
             req'[r].at \in {"answer", "exhaust"} => req'[r].n \in DOMAIN codes,
             req'[r].at \in {"claim", "set", "void"} => req'[r].n \in DOMAIN links
      PROVE  TypeInv'
    BY <1>1, HeldBy DEF TypeInv, TypeOK
<1>2. ASSUME NEW r \in Requests, Register(r) \/ Apple(r) PROVE TypeInv'
    <2>1. UNCHANGED <<settings, user, codes, links, granted, wrong, uses, mark, died>>
        BY <1>2 DEF Register, Apple
    <2>2. PICK place \in {"reserve", "find"} : Goes(r, place)
        BY <1>2 DEF Register, Apple
    <2>3. place \in Places
        BY DEF Places
    <2> QED BY <1>1, <2>1, <2>2, <2>3, Going DEF TypeOK
<1>3. ASSUME NEW r \in Requests, ReadsOffer(r) \/ AppleFinds(r) PROVE TypeInv'
    <2>1. UNCHANGED <<settings, user, codes, links, granted, wrong, uses, mark, died>>
        BY <1>3 DEF ReadsOffer, AppleFinds
    <2>2. PICK place \in {"create", "link"}, s \in {"none", "unproved", "proved"}, g \in SUBSET Scopes :
              Holds(r, place, 0, s, g)
        BY <1>3 DEF ReadsOffer, AppleFinds, Reserved, Standing
    <2>3. place \in Places
        BY DEF Places
    <2>4. /\ req' \in [Requests -> Handlers] /\ \A q \in Requests \ {r} : req'[q] = req[q]
          /\ req'[r].at = place
        <3>1. 0 \in Nat
            OBVIOUS
        <3>2. TypeOK
            OBVIOUS
        <3> HIDE <1>0
        <3> QED BY <2>2, <2>3, <3>1, <3>2, Holding
    <2> QED BY <1>1, <2>1, <2>2, <2>4 DEF TypeOK
<1>4. ASSUME NEW r \in Requests, Creates(r) PROVE TypeInv'
    <2>1. CASE user.exists
        BY <1>1, <1>4, <2>1, Ending DEF Creates, TypeOK
    <2>2. CASE ~user.exists
        <3>1. /\ user' = [NoAccount EXCEPT !.exists = TRUE, !.password = TRUE, !.offer = req[r].gives]
              /\ Goes(r, "retire") /\ UNCHANGED <<settings, codes, links, granted, wrong, uses, mark, died>>
            BY <1>4, <2>2 DEF Creates
        <3>2. req[r].gives \in SUBSET Scopes
            BY DEF TypeOK, Handlers
        <3>3. user' \in Account /\ user'.exists /\ user'.password
            BY <3>1, <3>2 DEF NoAccount, Account
        <3>4. "retire" \in Places
            BY DEF Places, Issuing
        <3>5. Held'
            BY <3>1, <3>3, <3>4, Going, HeldBy
        <3> QED BY <3>1, <3>3, <3>4, <3>5, Going DEF TypeInv, TypeOK
    <2> QED BY <2>1, <2>2
<1>5. ASSUME NEW r \in Requests, AppleWrites(r) PROVE TypeInv'
    <2>1. UNCHANGED <<settings, codes, links, granted, wrong, uses, mark, died>> /\ Ends(r)
        BY <1>5 DEF AppleWrites
    <2>2. req[r].gives \in SUBSET Scopes
        BY DEF TypeOK, Handlers
    <2>3. CASE ~user.exists
        <3>1. user' = AppleAccount(req[r].gives)
            BY <1>5, <2>3 DEF AppleWrites
        <3>2. user' \in Account /\ user'.exists /\ user'.apple
            BY <2>2, <3>1 DEF AppleAccount, NoAccount, Account
        <3>3. Held'
            BY <2>1, <3>2, Ending, HeldBy
        <3> QED BY <2>1, <3>2, <3>3, Ending DEF TypeInv, TypeOK
    <2>4. CASE user.exists
        <3>1. user' = [user EXCEPT !.apple = user.apple \/ MayLink(req[r].sees)]
            BY <1>5, <2>4 DEF AppleWrites
        <3>2. MayLink(req[r].sees) \in BOOLEAN
            BY DEF MayLink
        <3>3. user' \in Account /\ user'.exists /\ user'.password = user.password
              /\ (user.apple => user'.apple)
            BY <2>4, <3>1, <3>2 DEF Account
        <3>4. Held'
            BY <2>1, <3>3, Ending, HeldBy
        <3> QED BY <2>1, <2>4, <3>3, <3>4, Ending DEF TypeInv, TypeOK
    <2> QED BY <2>3, <2>4
<1>6. ASSUME NEW r \in Requests, AskCode(r) PROVE TypeInv'
    <2>1. Goes(r, "retire") /\ "retire" \in Places /\ user.exists
        BY <1>6 DEF AskCode, Places, Issuing
    <2> QED BY <1>1, <1>6, <2>1, Going DEF AskCode, TypeOK
<1>7. ASSUME NEW r \in Requests, Retires(r) PROVE TypeInv'
    <2>1. /\ Goes(r, "mint") /\ "mint" \in Places /\ req[r].at = "retire"
          /\ codes' = [i \in DOMAIN codes |-> Spent(codes[i])]
          /\ UNCHANGED <<settings, user, links, granted, wrong, uses, mark, died>>
        BY <1>7 DEF Retires, Places, Issuing
    <2>2. codes' \in Seq(Code) /\ Len(codes') = Len(codes) /\ DOMAIN codes' = DOMAIN codes
        BY <2>1, AllSpent
    <2>3. user.exists
        BY <2>1 DEF Held
    <2>4. Held'
        BY <2>1, <2>2, <2>3, Going, HeldBy
    <2> QED BY <2>1, <2>2, <2>3, <2>4, Going DEF TypeInv, TypeOK
<1>8. ASSUME NEW r \in Requests, Mints(r) PROVE TypeInv'
    <2>1. /\ Ends(r) /\ req[r].at = "mint"
          /\ codes' = Append(codes, NewCode) /\ wrong' = Append(wrong, 0)
          /\ UNCHANGED <<settings, user, links, granted, uses, mark, died>>
        BY <1>8 DEF Mints
    <2>2. /\ codes' \in Seq(Code) /\ wrong' \in Seq(Nat) /\ Len(wrong') = Len(codes')
          /\ DOMAIN codes \subseteq DOMAIN codes'
        BY <2>1, Added, Constants DEF TypeOK
    <2>3. user.exists
        BY <2>1 DEF Held
    <2>4. Held'
        BY <2>1, <2>2, <2>3, Ending, HeldBy
    <2> QED BY <2>1, <2>2, <2>3, <2>4, Ending DEF TypeInv, TypeOK
<1>9. ASSUME NEW r \in Requests, Verify(r) PROVE TypeInv'
    <2>1. Holds(r, "judge", 0, "unproved", Grant(user)) /\ "judge" \in Places /\ user.exists
        BY <1>9 DEF Verify, Places
    <2>2. Grant(user) \in SUBSET Scopes
        BY DEF Grant, Account
    <2> QED BY <1>1, <1>9, <2>1, <2>2, Holding DEF Verify, TypeOK
<1>10. ASSUME NEW r \in Requests, Judges(r) PROVE TypeInv'
    <2>1. CASE Ends(r)
        BY <1>1, <1>10, <2>1, Ending DEF Judges, TypeOK
    <2>2. CASE Usable(Len(codes)) /\ Holds(r, "answer", Len(codes), "unproved", req[r].gives)
        <3>1. "answer" \in Places /\ req[r].gives \in SUBSET Scopes
            BY DEF Places, TypeOK, Handlers
        <3>2. Len(codes) \in Nat /\ Len(codes) \in DOMAIN codes
            BY <2>2, Domains DEF Usable
        <3>3. user.exists
            BY <3>2
        <3>4. /\ req' \in [Requests -> Handlers] /\ \A q \in Requests \ {r} : req'[q] = req[q]
              /\ req'[r].at = "answer" /\ req'[r].n = Len(codes)
            BY <2>2, <3>1, <3>2, Holding
        <3> QED BY <1>1, <1>10, <3>2, <3>3, <3>4 DEF Judges, TypeOK
    <2> QED BY <1>10, <2>1, <2>2 DEF Judges
<1>11. ASSUME NEW r \in Requests, AnswersWrong(r) PROVE TypeInv'
    <2> DEFINE n == req[r].n
    <2>1. /\ req[r].at = "answer" /\ codes' = [codes EXCEPT ![n].attempts = codes[n].attempts + 1]
          /\ wrong' = [wrong EXCEPT ![n] = wrong[n] + 1]
          /\ UNCHANGED <<settings, user, links, granted, uses, mark, died>>
          /\ Goes(r, "exhaust") \/ Ends(r)
        BY <1>11 DEF AnswersWrong, Strikes
    <2>2. n \in DOMAIN codes /\ user.exists
        BY <2>1 DEF Held
    <2>3. n \in DOMAIN wrong /\ wrong[n] + 1 \in Nat
        BY <2>2, Domains, ElementOfSeq DEF TypeOK
    <2>4. codes[n] \in Code
        BY <2>2, Domains, ElementOfSeq
    <2>5. [codes[n] EXCEPT !.attempts = codes[n].attempts + 1] \in Code
        BY <2>4, Struck
    <2>6. codes' = [codes EXCEPT ![n] = [codes[n] EXCEPT !.attempts = codes[n].attempts + 1]]
        BY <2>1
    <2>7. codes' \in Seq(Code) /\ Len(codes') = Len(codes) /\ DOMAIN codes' = DOMAIN codes
        BY <2>2, <2>5, <2>6, Rewritten
    <2>8. wrong' \in Seq(Nat) /\ Len(wrong') = Len(wrong)
        BY <2>1, <2>3, Rewritten
    <2>9. "exhaust" \in Places
        BY DEF Places
    <2>10. /\ req' \in [Requests -> Handlers] /\ \A q \in Requests \ {r} : req'[q] = req[q]
           /\ req'[r].at = "idle" \/ (req'[r].at = "exhaust" /\ req'[r].n = n)
        BY <2>1, <2>9, Going, Ending
    <2>11. Held'
        BY <2>1, <2>2, <2>7, <2>10, HeldBy
    <2> QED BY <2>1, <2>2, <2>7, <2>8, <2>10, <2>11 DEF TypeInv, TypeOK
<1>12. ASSUME NEW r \in Requests, Exhausts(r) \/ AnswersRight(r) PROVE TypeInv'
    <2> DEFINE n == req[r].n
    <2>1. /\ req[r].at \in {"answer", "exhaust"} /\ codes' = [codes EXCEPT ![n] = Spent(codes[n])]
          /\ UNCHANGED <<settings, links, granted, wrong, uses, mark, died>>
          /\ user' = user \/ user' = [user EXCEPT !.verified = TRUE, !.gift = user.gift \union req[r].gives]
          /\ Ends(r)
        BY <1>12 DEF Exhausts, AnswersRight
    <2>2. n \in DOMAIN codes /\ user.exists
        BY <2>1 DEF Held
    <2>3. codes[n] \in Code
        BY <2>2, Domains, ElementOfSeq
    <2>4. Spent(codes[n]) \in Code
        BY <2>3 DEF Code, Spent
    <2>5. codes' \in Seq(Code) /\ Len(codes') = Len(codes) /\ DOMAIN codes' = DOMAIN codes
        BY <2>1, <2>2, <2>4, Rewritten
    <2>6. req[r].gives \in SUBSET Scopes
        BY DEF TypeOK, Handlers
    <2>7. user' \in Account /\ user'.exists /\ user'.password = user.password /\ user'.apple = user.apple
        BY <2>1, <2>2, <2>6 DEF Account
    <2>8. Held'
        BY <2>1, <2>2, <2>5, <2>7, Ending, HeldBy
    <2> QED BY <2>1, <2>2, <2>5, <2>7, <2>8, Ending DEF TypeInv, TypeOK
<1>13. ASSUME NEW r \in Requests, NEW n \in DOMAIN links, Open(r, n) PROVE TypeInv'
    <2>1. Holds(r, "claim", n, "none", {}) /\ "claim" \in Places /\ n \in Nat
        BY <1>13, Domains DEF Open, Places, Resetting
    <2>2. /\ req' \in [Requests -> Handlers] /\ \A q \in Requests \ {r} : req'[q] = req[q]
          /\ req'[r].at = "claim" /\ req'[r].n = n
        BY <2>1, Holding
    <2> QED BY <1>1, <1>13, <2>2 DEF Open, TypeOK
<1>14. ASSUME NEW r \in Requests, Claims(r) PROVE TypeInv'
    <2> DEFINE n == req[r].n
    <2>1. /\ req[r].at = "claim" /\ UNCHANGED <<settings, user, codes, granted, wrong, uses, mark, died>>
          /\ \/ links' = [links EXCEPT ![n] = FALSE] /\ Goes(r, "set")
             \/ links' = links /\ Ends(r)
        BY <1>14 DEF Claims
    <2>2. n \in DOMAIN links
        BY <2>1 DEF Held
    <2>3. links' \in Seq(BOOLEAN) /\ Len(links') = Len(links) /\ DOMAIN links' = DOMAIN links
        <3>1. /\ [links EXCEPT ![n] = FALSE] \in Seq(BOOLEAN)
              /\ Len([links EXCEPT ![n] = FALSE]) = Len(links)
              /\ DOMAIN [links EXCEPT ![n] = FALSE] = DOMAIN links
            BY <2>2, FALSE \in BOOLEAN, Rewritten
        <3> QED BY <2>1, <3>1
    <2>4. "set" \in Places
        BY DEF Places, Resetting
    <2>5. /\ req' \in [Requests -> Handlers] /\ \A q \in Requests \ {r} : req'[q] = req[q]
          /\ req'[r].at = "idle" \/ (req'[r].at = "set" /\ req'[r].n = n)
        BY <2>1, <2>4, Going, Ending
    <2>6. Held'
        BY <2>1, <2>2, <2>3, <2>5, HeldBy
    <2>7. user.exists
        BY <2>2
    <2> QED BY <2>1, <2>3, <2>5, <2>6, <2>7 DEF TypeInv, TypeOK
<1>15. ASSUME NEW r \in Requests, SetsPassword(r) PROVE TypeInv'
    <2> DEFINE n == req[r].n
    <2>1. /\ req[r].at = "set" /\ UNCHANGED <<settings, user, codes, links, granted, wrong, died>>
          /\ uses' = [uses EXCEPT ![n] = uses[n] + 1] /\ mark' = Len(links) /\ Goes(r, "void")
        BY <1>15 DEF SetsPassword
    <2>2. n \in DOMAIN links
        BY <2>1 DEF Held
    <2>3. n \in DOMAIN uses /\ uses[n] + 1 \in Nat
        BY <2>2, Domains, ElementOfSeq DEF TypeOK
    <2>4. uses' \in Seq(Nat) /\ Len(uses') = Len(uses)
        BY <2>1, <2>3, Rewritten
    <2>5. "void" \in Places /\ Len(links) \in 0..Len(links)
        BY Domains DEF Places, Resetting
    <2>6. Held'
        BY <2>1, <2>2, <2>5, Going, HeldBy
    <2> QED BY <2>1, <2>4, <2>5, <2>6, Going DEF TypeInv, TypeOK
<1>16. ASSUME NEW r \in Requests, Voids(r) PROVE TypeInv'
    <2>1. /\ req[r].at = "void" /\ UNCHANGED <<settings, user, codes, granted, wrong, uses, mark, died>>
          /\ links' = [i \in DOMAIN links |-> FALSE] /\ Ends(r)
        BY <1>16 DEF Voids
    <2>2. links' \in Seq(BOOLEAN) /\ Len(links') = Len(links) /\ DOMAIN links' = DOMAIN links
        BY <2>1, AllVoid
    <2>3. req[r].n \in DOMAIN links
        BY <2>1 DEF Held
    <2>4. user.exists
        BY <2>3
    <2>5. Held'
        BY <2>1, <2>2, Ending, HeldBy
    <2> QED BY <2>1, <2>2, <2>4, <2>5, Ending DEF TypeInv, TypeOK
<1>17. ASSUME NEW r \in Requests, Dies(r) PROVE TypeInv'
    <2>1. died' \in {"no", "issuing", "void"}
        BY <1>17 DEF Dies, TypeOK
    <2> QED BY <1>1, <1>17, <2>1, Ending DEF Dies
<1>18. CASE AskLink
    <2>1. /\ user.password /\ links' = Append(links, TRUE) /\ uses' = Append(uses, 0)
          /\ UNCHANGED <<settings, user, codes, req, granted, wrong, mark, died>>
        BY <1>18 DEF AskLink
    <2>2. /\ links' \in Seq(BOOLEAN) /\ uses' \in Seq(Nat) /\ Len(uses') = Len(links')
          /\ DOMAIN links \subseteq DOMAIN links' /\ Len(links') = Len(links) + 1 /\ Len(links) \in Nat
        BY <2>1, Added, Domains DEF TypeOK
    <2>3. Held'
        BY <2>1, <2>2 DEF Held
    <2>4. user.exists /\ mark' \in 0..Len(links')
        BY <2>1, <2>2 DEF TypeOK
    <2> QED BY <2>1, <2>2, <2>3, <2>4 DEF TypeInv, TypeOK
<1>19. CASE CohortGrant
    <2>1. user' = [user EXCEPT !.gift = Scopes] /\ user.exists
        BY <1>19 DEF CohortGrant
    <2>2. user' \in Account /\ user'.exists /\ user'.password = user.password /\ user'.apple = user.apple
        BY <2>1 DEF Account
    <2> QED BY <1>19, <2>1, <2>2 DEF CohortGrant, TypeInv, TypeOK, Held
<1>20. CASE ChangeSettings
    BY <1>20 DEF ChangeSettings, TypeInv, TypeOK, Held
<1>21. CASE UNCHANGED vars
    BY <1>21 DEF vars, TypeInv, TypeOK, Held
<1> QED
    BY <1>2, <1>3, <1>4, <1>5, <1>6, <1>7, <1>8, <1>9, <1>10, <1>11, <1>12, <1>13, <1>14, <1>15,
       <1>16, <1>17, <1>18, <1>19, <1>20, <1>21 DEF Next, Handle

LEMMA InitTypes == Init => TypeInv
<1> SUFFICES ASSUME Init PROVE TypeInv
    OBVIOUS
<1>1. /\ <<>> \in Seq(Code) /\ <<>> \in Seq(BOOLEAN) /\ <<>> \in Seq(Nat) /\ Len(<<>>) = 0
    BY EmptySeq
<1>2. /\ req \in [Requests -> Handlers]
      /\ \A r \in Requests :
            req[r].at \notin {"retire", "mint", "judge", "answer", "exhaust", "claim", "set", "void"}
    <2>1. req = [r \in Requests |-> Idle]
        BY DEF Init
    <2> QED BY <2>1, Constants
<1>3. user \in Account /\ user = NoAccount /\ settings \subseteq Scopes /\ granted \in BOOLEAN
    BY Constants DEF Init
<1>4. /\ codes = <<>> /\ links = <<>> /\ wrong = <<>> /\ uses = <<>>
      /\ mark \in 0..Len(links) /\ died \in {"no", "issuing", "void"}
    BY <1>1 DEF Init
<1>5. TypeOK
    BY <1>1, <1>2, <1>3, <1>4, Constants DEF TypeOK
<1>6. Held
    BY <1>2, Zenon DEF Held
<1> QED BY <1>1, <1>4, <1>5, <1>6 DEF TypeInv

\* The rows and what every handler carries keep their types; only an account has
\* codes and links, and it has a password or an Apple identity.
THEOREM TypeCorrect == Spec => []TypeOK
<1>1. Init => TypeInv
    BY InitTypes
<1>2. TypeInv /\ [Next]_vars => TypeInv'
    BY TypeStep
<1> QED BY <1>1, <1>2, PTL DEF Spec, TypeInv

-----------------------------------------------------------------------------
(* What the proof of an address releases *)

\* A handler about to release holds the whole offer, unless an operator has granted
\* more in the meantime; one about to link what it saw proved is right.
Releasing ==
    /\ granted => user.exists
    /\ user.exists => user.offer \subseteq Scopes
    /\ \A r \in Requests :
        /\ req[r].at \in {"judge", "answer"} =>
              req[r].gives \subseteq user.offer /\ (~granted => req[r].gives = user.offer)
        /\ req[r].at = "link" /\ req[r].sees = "proved" => user.verified

ReleaseInv == Releasing /\ ProofReleases

\* A step that leaves the account alone and sends its handler elsewhere.
LEMMA ReleaseAround ==
    ASSUME TypeOK, ReleaseInv, UNCHANGED <<user, granted>>, NEW r \in Requests,
           \A q \in Requests \ {r} : req'[q] = req[q],
           req'[r].at \in {"judge", "answer"} =>
               req'[r].gives \subseteq user.offer /\ (~granted => req'[r].gives = user.offer),
           req'[r].at = "link" /\ req'[r].sees = "proved" => user.verified
    PROVE  ReleaseInv'
BY DEF ReleaseInv, Releasing, ProofReleases

LEMMA ReleaseStep == TypeInv /\ ReleaseInv /\ [Next]_vars => ReleaseInv'
<1> SUFFICES ASSUME TypeInv, ReleaseInv, [Next]_vars PROVE ReleaseInv'
    OBVIOUS
<1>0. TypeOK /\ Held
    BY DEF TypeInv
<1> USE <1>0
<1>1. ASSUME NEW r \in Requests, UNCHANGED <<user, granted>>, NEW place \in Places \ {"judge", "answer", "link"},
             Goes(r, place)
      PROVE  ReleaseInv'
    BY <1>1, Going, ReleaseAround
<1>2. ASSUME NEW r \in Requests, UNCHANGED <<user, granted>>, Ends(r) PROVE ReleaseInv'
    BY <1>2, Ending, ReleaseAround
<1>3. ASSUME NEW r \in Requests,
             Register(r) \/ Apple(r) \/ AskCode(r) \/ Retires(r) \/ Mints(r) \/ AnswersWrong(r)
                 \/ Exhausts(r) \/ Claims(r) \/ SetsPassword(r) \/ Voids(r) \/ Dies(r)
      PROVE  ReleaseInv'
    <2>1. UNCHANGED <<user, granted>>
        BY <1>3 DEF Register, Apple, AskCode, Retires, Mints, AnswersWrong, Exhausts, Claims,
           SetsPassword, Voids, Dies
    <2>2. Ends(r) \/ \E place \in {"reserve", "find", "retire", "mint", "exhaust", "set", "void"} :
                         Goes(r, place)
        BY <1>3 DEF Register, Apple, AskCode, Retires, Mints, AnswersWrong, Exhausts, Claims,
           SetsPassword, Voids, Dies
    <2>3. {"reserve", "find", "retire", "mint", "exhaust", "set", "void"}
              \subseteq Places \ {"judge", "answer", "link"}
        BY DEF Places, Issuing, Resetting
    <2> QED BY <1>1, <1>2, <2>1, <2>2, <2>3
<1>4. ASSUME NEW r \in Requests, ReadsOffer(r) PROVE ReleaseInv'
    <2>1. PICK g \in Reserved : Holds(r, "create", 0, "none", g)
        BY <1>4 DEF ReadsOffer
    <2>2. req'[r].at = "create" /\ \A q \in Requests \ {r} : req'[q] = req[q]
        BY <2>1 DEF Holds, TypeOK
    <2> QED BY <1>4, <2>2, ReleaseAround DEF ReadsOffer
<1>5. ASSUME NEW r \in Requests, AppleFinds(r) PROVE ReleaseInv'
    <2>1. PICK g : Holds(r, "link", 0, Standing, g)
        BY <1>5 DEF AppleFinds
    <2>2. /\ req'[r].at = "link" /\ req'[r].sees = Standing
          /\ \A q \in Requests \ {r} : req'[q] = req[q]
        BY <2>1 DEF Holds, TypeOK
    <2>3. Standing = "proved" => user.verified
        BY DEF Standing
    <2> QED BY <1>5, <2>2, <2>3, ReleaseAround DEF AppleFinds
<1>6. ASSUME NEW r \in Requests, Verify(r) PROVE ReleaseInv'
    <2>1. /\ req'[r].at = "judge" /\ req'[r].gives = user.offer \ user.gift
          /\ \A q \in Requests \ {r} : req'[q] = req[q]
        BY <1>6 DEF Verify, Holds, Grant, TypeOK
    <2>2. ~granted => user.gift = {}
        BY <1>6 DEF Verify, ReleaseInv, ProofReleases
    <2> QED BY <1>6, <2>1, <2>2, ReleaseAround DEF Verify
<1>7. ASSUME NEW r \in Requests, Judges(r) PROVE ReleaseInv'
    <2>1. UNCHANGED <<user, granted>> /\ req[r].at = "judge"
        BY <1>7 DEF Judges
    <2>2. CASE Holds(r, "answer", Len(codes), "unproved", req[r].gives)
        <3>1. /\ req'[r].at = "answer" /\ req'[r].gives = req[r].gives
              /\ \A q \in Requests \ {r} : req'[q] = req[q]
            BY <2>2 DEF Holds, TypeOK
        <3> QED BY <2>1, <3>1, ReleaseAround DEF ReleaseInv, Releasing
    <2> QED BY <1>2, <1>7, <2>1, <2>2 DEF Judges
<1>8. ASSUME NEW r \in Requests, NEW n \in DOMAIN links, Open(r, n) PROVE ReleaseInv'
    <2>1. req'[r].at = "claim" /\ \A q \in Requests \ {r} : req'[q] = req[q]
        BY <1>8 DEF Open, Holds, TypeOK
    <2> QED BY <1>8, <2>1, ReleaseAround DEF Open
<1>9. ASSUME NEW r \in Requests, Creates(r) PROVE ReleaseInv'
    <2>1. CASE user.exists
        BY <1>2, <1>9, <2>1 DEF Creates
    <2>2. CASE ~user.exists
        <3>1. /\ user' = [NoAccount EXCEPT !.exists = TRUE, !.password = TRUE, !.offer = req[r].gives]
              /\ Goes(r, "retire") /\ UNCHANGED granted
            BY <1>9, <2>2 DEF Creates
        <3>2. user'.offer = req[r].gives /\ user'.gift = {} /\ ~user'.verified /\ ~user'.apple /\ user'.exists
            BY <3>1 DEF NoAccount
        <3>3. ~granted /\ req[r].gives \subseteq Scopes
            BY <2>2 DEF ReleaseInv, Releasing, TypeOK, Handlers
        <3>4. "retire" \in Places
            BY DEF Places, Issuing
        <3>5. \A q \in Requests : /\ req[q].at \notin {"judge", "answer"}
                                 /\ ~(req[q].at = "link" /\ req[q].sees = "proved")
            <4>1. ~user.verified
                BY <2>2 DEF TypeOK, NoAccount
            <4> QED BY <2>2, <4>1 DEF Held, ReleaseInv, Releasing
        <3>6. \A q \in Requests : /\ req'[q].at \notin {"judge", "answer"}
                                 /\ ~(req'[q].at = "link" /\ req'[q].sees = "proved")
            BY <3>1, <3>4, <3>5, Going
        <3> QED BY <3>1, <3>2, <3>3, <3>6 DEF ReleaseInv, Releasing, ProofReleases
    <2> QED BY <2>1, <2>2
<1>10. ASSUME NEW r \in Requests, AppleWrites(r) PROVE ReleaseInv'
    <2>1. Ends(r) /\ UNCHANGED granted /\ req[r].at = "link"
        BY <1>10 DEF AppleWrites
    <2>2. CASE ~user.exists
        <3>1. user' = AppleAccount(req[r].gives)
            BY <1>10, <2>2 DEF AppleWrites
        <3>2. /\ user'.offer = req[r].gives /\ user'.gift = req[r].gives
              /\ user'.verified /\ user'.exists
            BY <3>1 DEF AppleAccount, NoAccount
        <3>3. ~granted /\ req[r].gives \subseteq Scopes
            BY <2>2 DEF ReleaseInv, Releasing, TypeOK, Handlers
        <3>4. \A q \in Requests : req'[q].at \notin {"judge", "answer"}
            BY <2>1, <2>2, Ending DEF Held
        <3> QED BY <2>1, <3>2, <3>3, <3>4 DEF ReleaseInv, Releasing, ProofReleases
    <2>3. CASE user.exists
        <3>1. user' = [user EXCEPT !.apple = user.apple \/ MayLink(req[r].sees)]
            BY <1>10, <2>3 DEF AppleWrites
        <3>2. MayLink(req[r].sees) => user.verified
            BY <2>1, <2>3 DEF MayLink, Standing, ReleaseInv, Releasing
        <3>3. /\ user'.offer = user.offer /\ user'.gift = user.gift /\ user'.verified = user.verified
              /\ user'.exists /\ (user'.apple => user.apple \/ MayLink(req[r].sees))
            BY <2>3, <3>1 DEF TypeOK, Account
        <3>4. \A q \in Requests : req'[q] = req[q] \/ req'[q].at = "idle"
            BY <2>1, Ending
        <3> QED BY <2>1, <2>3, <3>2, <3>3, <3>4 DEF ReleaseInv, Releasing, ProofReleases
    <2> QED BY <2>2, <2>3
<1>11. ASSUME NEW r \in Requests, AnswersRight(r) PROVE ReleaseInv'
    <2>1. /\ Ends(r) /\ UNCHANGED granted /\ req[r].at = "answer"
          /\ user' = IF user.verified THEN user
                     ELSE [user EXCEPT !.verified = TRUE, !.gift = user.gift \union req[r].gives]
        BY <1>11 DEF AnswersRight
    <2>2. \A q \in Requests : req'[q] = req[q] \/ req'[q].at = "idle"
        BY <2>1, Ending
    <2>3. CASE user.verified
        BY <2>1, <2>2, <2>3 DEF ReleaseInv, Releasing, ProofReleases
    <2>4. CASE ~user.verified
        <3>1. /\ user'.offer = user.offer /\ user'.gift = user.gift \union req[r].gives
              /\ user'.verified /\ user'.exists = user.exists /\ user'.apple = user.apple
            BY <2>1, <2>4 DEF TypeOK, Account
        <3>2. /\ req[r].gives \subseteq user.offer /\ (~granted => req[r].gives = user.offer)
              /\ user.exists /\ user.offer \subseteq Scopes
              /\ user.gift = IF granted THEN Scopes ELSE {}
            BY <2>1, <2>4 DEF ReleaseInv, Releasing, ProofReleases, Held
        <3>3. user'.gift = user.offer \union (IF granted THEN Scopes ELSE {})
            BY <3>1, <3>2
        <3> QED BY <2>1, <2>2, <3>1, <3>2, <3>3 DEF ReleaseInv, Releasing, ProofReleases
    <2> QED BY <2>3, <2>4
<1>12. CASE CohortGrant
    <2>1. /\ user' = [user EXCEPT !.gift = Scopes] /\ granted' = TRUE /\ user.exists /\ UNCHANGED req
        BY <1>12 DEF CohortGrant
    <2>2. /\ user'.offer = user.offer /\ user'.gift = Scopes /\ user'.verified = user.verified
          /\ user'.exists /\ user'.apple = user.apple
        BY <2>1 DEF TypeOK, Account
    <2> QED BY <2>1, <2>2 DEF ReleaseInv, Releasing, ProofReleases
<1>13. CASE UNCHANGED <<user, granted, req>>
    BY <1>13 DEF ReleaseInv, Releasing, ProofReleases
<1> QED
    BY <1>3, <1>4, <1>5, <1>6, <1>7, <1>8, <1>9, <1>10, <1>11, <1>12, <1>13
       DEF Next, Handle, ChangeSettings, AskLink, vars

\* The gift a signup reserved is released by the proof of its address and by nothing
\* else, whole and once, and no Apple identity opens an account never proved.
THEOREM ProofsRelease == Spec => []ProofReleases
<1>1. Init => TypeInv /\ ReleaseInv
    <2> SUFFICES ASSUME Init PROVE ReleaseInv
        BY InitTypes
    <2> QED BY Constants DEF Init, ReleaseInv, Releasing, ProofReleases, NoAccount
<1>2. TypeInv /\ ReleaseInv /\ [Next]_vars => (TypeInv /\ ReleaseInv)'
    BY TypeStep, ReleaseStep
<1> QED BY <1>1, <1>2, PTL DEF Spec, ReleaseInv

-----------------------------------------------------------------------------
(* The codes *)

\* Nobody spends a code unless it is worn out, is about to be replaced, or has
\* proved the address.
WornOut == \A r \in Requests : req[r].at = "exhaust" => codes[req[r].n].attempts >= MAX_ATTEMPTS
Counted == \A i \in DOMAIN codes : codes[i].attempts = wrong[i]
Replacing == died = "issuing" \/ \E r \in Requests : req[r].at \in Issuing
Newest ==
    \/ Len(codes) = 0 \/ user.verified \/ Replacing
    \/ codes[Len(codes)].live \/ codes[Len(codes)].attempts >= MAX_ATTEMPTS

CodesInv == WornOut /\ Counted /\ Newest

\* The steps that touch neither codes nor links, and stay clear of the places where
\* something is owed to them.
LEMMA Elsewhere ==
    ASSUME TypeOK, NEW r \in Requests,
           \/ Register(r) \/ ReadsOffer(r) \/ Creates(r) \/ Apple(r) \/ AppleFinds(r) \/ AppleWrites(r)
           \/ AskCode(r) \/ Verify(r) \/ Judges(r) \/ \E n \in DOMAIN links : Open(r, n)
    PROVE  /\ UNCHANGED <<codes, links, wrong, uses, mark, died>>
           /\ \A q \in Requests \ {r} : req'[q] = req[q]
           /\ req[r].at \notin {"retire", "mint", "void"}
           /\ req'[r].at \notin {"exhaust", "set"}
           /\ user.exists => (user'.verified <=> user.verified)
<1> USE DEF TypeOK, Ends, Goes, Holds, Idle
<1>1. CASE Register(r)
    BY <1>1 DEF Register
<1>2. CASE ReadsOffer(r)
    BY <1>2 DEF ReadsOffer
<1>3. CASE Creates(r)
    <2>1. CASE user.exists
        BY <1>3, <2>1 DEF Creates
    <2>2. CASE ~user.exists
        <3>1. /\ Goes(r, "retire") /\ req[r].at = "create"
              /\ UNCHANGED <<codes, links, wrong, uses, mark, died>>
            BY <1>3, <2>2 DEF Creates
        <3>2. "retire" \in Places
            BY DEF Places, Issuing
        <3>3. req'[r].at = "retire" /\ \A q \in Requests \ {r} : req'[q] = req[q]
            BY <3>1, <3>2, Going
        <3> QED BY <2>2, <3>1, <3>3
    <2> QED BY <2>1, <2>2
<1>4. CASE Apple(r)
    BY <1>4 DEF Apple
<1>5. CASE AppleFinds(r)
    BY <1>5 DEF AppleFinds
<1>6. CASE AppleWrites(r)
    BY <1>6 DEF AppleWrites, Account
<1>7. CASE AskCode(r)
    BY <1>7 DEF AskCode
<1>8. CASE Verify(r)
    BY <1>8 DEF Verify
<1>9. CASE Judges(r)
    BY <1>9 DEF Judges
<1>10. ASSUME NEW n \in DOMAIN links, Open(r, n)
       PROVE  /\ UNCHANGED <<user, codes, links, wrong, uses, mark, died>>
              /\ \A q \in Requests \ {r} : req'[q] = req[q]
              /\ req[r].at \notin {"retire", "mint", "void"}
              /\ req'[r].at \notin {"exhaust", "set"}
    BY <1>10 DEF Open
<1> QED BY <1>1, <1>2, <1>3, <1>4, <1>5, <1>6, <1>7, <1>8, <1>9, <1>10

\* The codes are left alone.
LEMMA CodesAround ==
    ASSUME TypeOK, CodesInv, UNCHANGED <<codes, wrong>>, NEW r \in Requests,
           \A q \in Requests \ {r} : req'[q] = req[q],
           req'[r].at # "exhaust",
           user.exists => (user'.verified <=> user.verified),
           died = "issuing" => died' = "issuing",
           req[r].at \in Issuing => died' = "issuing"
    PROVE  CodesInv'
<1>1. Len(codes) # 0 => user.exists
    <2>1. Len(<<>>) = 0
        BY EmptySeq
    <2> QED BY <2>1 DEF TypeOK
<1>2. Replacing => Replacing'
    BY DEF Replacing
<1> QED BY <1>1, <1>2 DEF CodesInv, WornOut, Counted, Newest

LEMMA CodesStep == TypeInv /\ CodesInv /\ [Next]_vars => CodesInv'
<1> SUFFICES ASSUME TypeInv, CodesInv, [Next]_vars PROVE CodesInv'
    OBVIOUS
<1>0. TypeOK /\ Held
    BY DEF TypeInv
<1> USE <1>0
<1>a. /\ codes \in Seq(Code) /\ wrong \in Seq(Nat) /\ Len(wrong) = Len(codes)
      /\ DOMAIN codes = 1..Len(codes) /\ Len(codes) \in Nat
      /\ DOMAIN wrong = DOMAIN codes
      /\ \A i \in DOMAIN codes : codes[i] \in Code /\ wrong[i] \in Nat
    BY Domains, ElementOfSeq DEF TypeInv, TypeOK
<1>1. ASSUME NEW r \in Requests,
             \/ Register(r) \/ ReadsOffer(r) \/ Creates(r) \/ Apple(r) \/ AppleFinds(r) \/ AppleWrites(r)
             \/ AskCode(r) \/ Verify(r) \/ Judges(r) \/ \E n \in DOMAIN links : Open(r, n)
      PROVE  CodesInv'
    BY <1>1, Elsewhere, CodesAround DEF Issuing
<1>2. ASSUME NEW r \in Requests, Claims(r) \/ SetsPassword(r) \/ Voids(r) PROVE CodesInv'
    <2>1. UNCHANGED <<codes, wrong, user, died>> /\ req[r].at \notin Issuing
        BY <1>2 DEF Claims, SetsPassword, Voids, Issuing
    <2>2. Ends(r) \/ \E place \in {"set", "void"} : Goes(r, place)
        BY <1>2 DEF Claims, SetsPassword, Voids
    <2>3. {"set", "void"} \subseteq Places
        BY DEF Places, Resetting
    <2>4. req'[r].at # "exhaust" /\ \A q \in Requests \ {r} : req'[q] = req[q]
        BY <2>2, <2>3, Going, Ending
    <2> QED BY <2>1, <2>4, CodesAround
<1>3. ASSUME NEW r \in Requests, Dies(r) PROVE CodesInv'
    <2>1. /\ UNCHANGED <<codes, wrong, user>>
          /\ died = "issuing" => died' = "issuing"
          /\ req[r].at \in Issuing => died' = "issuing"
          /\ Ends(r)
        BY <1>3 DEF Dies
    <2> QED BY <2>1, Ending, CodesAround
<1>4. ASSUME NEW r \in Requests, Retires(r) PROVE CodesInv'
    <2>1. /\ codes' = [i \in DOMAIN codes |-> Spent(codes[i])]
          /\ Goes(r, "mint") /\ "mint" \in Places /\ UNCHANGED <<wrong, user, died>>
        BY <1>4 DEF Retires, Places, Issuing
    <2>2. /\ DOMAIN codes' = DOMAIN codes
          /\ \A i \in DOMAIN codes : codes'[i].attempts = codes[i].attempts
        BY <1>a, <2>1, AllSpent
    <2>3. req'[r].at = "mint" /\ \A q \in Requests \ {r} : req'[q] = req[q]
        BY <2>1, Going
    <2>4. WornOut'
        BY <2>2, <2>3 DEF CodesInv, WornOut, Held
    <2> QED BY <2>1, <2>2, <2>3, <2>4 DEF CodesInv, Counted, Newest, Replacing, Issuing
<1>5. ASSUME NEW r \in Requests, Mints(r) PROVE CodesInv'
    <2>1. /\ codes' = Append(codes, NewCode) /\ wrong' = Append(wrong, 0) /\ Ends(r)
        BY <1>5 DEF Mints
    <2>2. /\ Len(codes') = Len(codes) + 1
          /\ \A i \in DOMAIN codes : codes'[i] = codes[i] /\ wrong'[i] = wrong[i]
          /\ \A i \in DOMAIN codes' : i \in DOMAIN codes \/ i = Len(codes) + 1
          /\ codes'[Len(codes) + 1] = NewCode /\ wrong'[Len(codes) + 1] = 0
        BY <1>a, <2>1, Added, Constants
    <2>3. \A q \in Requests : req'[q] = req[q] \/ req'[q].at = "idle"
        BY <2>1, Ending
    <2>4. WornOut'
        BY <2>2, <2>3 DEF CodesInv, WornOut, Held
    <2>5. Counted'
        BY <2>2, Constants DEF CodesInv, Counted
    <2>6. codes'[Len(codes')].live
        BY <2>2, Constants
    <2> QED BY <2>4, <2>5, <2>6 DEF CodesInv, Newest
<1>6. ASSUME NEW r \in Requests, AnswersWrong(r) PROVE CodesInv'
    <2> DEFINE n == req[r].n
    <2>1. /\ req[r].at = "answer" /\ codes' = [codes EXCEPT ![n].attempts = codes[n].attempts + 1]
          /\ wrong' = [wrong EXCEPT ![n] = wrong[n] + 1]
          /\ UNCHANGED <<user, died>>
          /\ (codes'[n].attempts >= MAX_ATTEMPTS /\ Goes(r, "exhaust")) \/ Ends(r)
        BY <1>6 DEF AnswersWrong, Strikes
    <2>2. n \in DOMAIN codes /\ codes[n] \in Code
        BY <1>a, <2>1 DEF Held
    <2>3. /\ Len(codes') = Len(codes) /\ DOMAIN codes' = DOMAIN codes
          /\ \A i \in DOMAIN codes :
                /\ codes'[i].live = codes[i].live
                /\ codes'[i].attempts = IF i = n THEN codes[i].attempts + 1 ELSE codes[i].attempts
                /\ wrong'[i] = IF i = n THEN wrong[i] + 1 ELSE wrong[i]
        <3>1. [codes[n] EXCEPT !.attempts = codes[n].attempts + 1] \in Code
            BY <2>2, Struck
        <3>2. codes' = [codes EXCEPT ![n] = [codes[n] EXCEPT !.attempts = codes[n].attempts + 1]]
            BY <2>1
        <3>3. /\ Len(codes') = Len(codes) /\ DOMAIN codes' = DOMAIN codes
              /\ \A i \in DOMAIN codes :
                    codes'[i] = IF i = n THEN [codes[n] EXCEPT !.attempts = codes[n].attempts + 1]
                                ELSE codes[i]
            BY <1>a, <2>2, <3>1, <3>2, Rewritten
        <3>4. \A i \in DOMAIN codes : wrong'[i] = IF i = n THEN wrong[i] + 1 ELSE wrong[i]
            BY <1>a, <2>1, <2>2
        <3> QED BY <2>2, <3>3, <3>4 DEF Code
    <2>4. \A i \in DOMAIN codes : codes[i].attempts \in Nat /\ wrong[i] \in Nat
        BY <1>a DEF Code
    <2>5. "exhaust" \in Places
        BY DEF Places
    <2>6. /\ \A q \in Requests \ {r} : req'[q] = req[q]
          /\ \/ req'[r].at = "exhaust" /\ req'[r].n = n /\ codes'[n].attempts >= MAX_ATTEMPTS
             \/ req'[r].at = "idle"
        BY <2>1, <2>5, Going, Ending
    <2>7. \A i \in DOMAIN codes :
              codes[i].attempts >= MAX_ATTEMPTS => codes'[i].attempts >= MAX_ATTEMPTS
        BY <2>3, <2>4
    <2>8. WornOut'
        BY <2>6, <2>7 DEF CodesInv, WornOut, Held
    <2>9. Counted'
        BY <2>3, <2>4 DEF CodesInv, Counted
    <2>10. Replacing => Replacing'
        BY <2>1, <2>6 DEF Issuing, Replacing
    <2>11. Newest'
        <3>1. Len(codes) # 0 => Len(codes) \in DOMAIN codes
            BY <1>a
        <3> QED BY <2>1, <2>3, <2>7, <2>10, <3>1 DEF CodesInv, Newest
    <2> QED BY <2>8, <2>9, <2>11 DEF CodesInv
<1>7. ASSUME NEW r \in Requests, Exhausts(r) \/ AnswersRight(r) PROVE CodesInv'
    <2> DEFINE n == req[r].n
    <2>1. /\ req[r].at \in {"answer", "exhaust"} /\ codes' = [codes EXCEPT ![n] = Spent(codes[n])]
          /\ UNCHANGED <<wrong, died>> /\ Ends(r)
        BY <1>7 DEF Exhausts, AnswersRight
    <2>2. n \in DOMAIN codes /\ codes[n] \in Code
        BY <1>a, <2>1 DEF Held
    <2>3. /\ Len(codes') = Len(codes) /\ DOMAIN codes' = DOMAIN codes
          /\ \A i \in DOMAIN codes : /\ codes'[i].attempts = codes[i].attempts
                                     /\ i # n => codes'[i] = codes[i]
        <3>1. Spent(codes[n]) \in Code /\ Spent(codes[n]).attempts = codes[n].attempts
            BY <2>2 DEF Spent, Code
        <3>2. /\ Len(codes') = Len(codes) /\ DOMAIN codes' = DOMAIN codes
              /\ \A i \in DOMAIN codes : codes'[i] = IF i = n THEN Spent(codes[n]) ELSE codes[i]
            BY <1>a, <2>1, <2>2, <3>1, Rewritten
        <3> QED BY <3>1, <3>2
    <2>4. /\ \A q \in Requests \ {r} : req'[q] = req[q]
          /\ req'[r].at = "idle"
        BY <2>1, Ending
    <2>5. WornOut'
        BY <2>3, <2>4 DEF CodesInv, WornOut, Held
    <2>6. Counted'
        BY <2>1, <2>3 DEF CodesInv, Counted
    <2>7. Replacing => Replacing'
        BY <2>1, <2>4 DEF Issuing, Replacing
    <2>8. CASE Exhausts(r)
        <3>1. codes[n].attempts >= MAX_ATTEMPTS /\ UNCHANGED user
            BY <2>8 DEF Exhausts, CodesInv, WornOut
        <3>2. Len(codes) # 0 => Len(codes) \in DOMAIN codes
            BY <1>a
        <3>3. Newest'
            BY <2>3, <2>7, <3>1, <3>2 DEF CodesInv, Newest
        <3> QED BY <2>5, <2>6, <3>3 DEF CodesInv
    <2>9. CASE AnswersRight(r)
        <3>1. user \in Account
            BY DEF TypeOK
        <3>2. user'.verified
            BY <2>9, <3>1 DEF AnswersRight, Account
        <3> QED BY <2>5, <2>6, <3>2 DEF CodesInv, Newest
    <2> QED BY <1>7, <2>8, <2>9
<1>8. CASE UNCHANGED <<codes, wrong, req, died, user.verified>>
    BY <1>8 DEF CodesInv, WornOut, Counted, Newest, Replacing
<1>9. CASE CohortGrant
    BY <1>8, <1>9 DEF CohortGrant, TypeOK, Account
<1> QED
    BY <1>1, <1>2, <1>3, <1>4, <1>5, <1>6, <1>7, <1>8, <1>9
       DEF Next, Handle, ChangeSettings, AskLink, vars

\* Parallel guesses are all counted, and the newest code works unless it proved the
\* address, was worn out by wrong answers, or is being replaced.
THEOREM CodesStayUsable == Spec => []CodesAnswer
<1>1. Init => TypeInv /\ CodesInv
    <2> SUFFICES ASSUME Init PROVE CodesInv
        BY InitTypes
    <2>1. req = [r \in Requests |-> Idle] /\ codes = <<>>
        BY DEF Init
    <2>2. WornOut
        BY <2>1, Constants DEF WornOut
    <2>3. Counted /\ Newest
        BY <2>1, EmptySeq DEF Counted, Newest
    <2> QED BY <2>2, <2>3 DEF CodesInv
<1>2. TypeInv /\ CodesInv /\ [Next]_vars => (TypeInv /\ CodesInv)'
    BY TypeStep, CodesStep
<1>3. CodesInv => CodesAnswer
    BY DEF CodesInv, Counted, Newest, Replacing, CodesAnswer
<1> QED BY <1>1, <1>2, <1>3, PTL DEF Spec

-----------------------------------------------------------------------------
(* The links *)

\* Whoever is about to set a password is alone with a link that is spent and has set
\* none; a link that still works has set none either.
Alone ==
    \A r \in Requests : req[r].at = "set" =>
        /\ ~links[req[r].n] /\ uses[req[r].n] = 0
        /\ \A q \in Requests : req[q].at = "set" /\ req[q].n = req[r].n => q = r
Once == \A i \in DOMAIN links : uses[i] <= 1 /\ (links[i] => uses[i] = 0)
Owed == died = "void" \/ \E r \in Requests : req[r].at = "void"
Voided == Owed \/ \A i \in DOMAIN links : links[i] => i > mark

LinksInv == Alone /\ Once /\ Voided

\* The links are left alone.
LEMMA LinksAround ==
    ASSUME LinksInv, UNCHANGED <<links, uses, mark>>, NEW r \in Requests,
           \A q \in Requests \ {r} : req'[q] = req[q],
           req'[r].at # "set",
           died = "void" => died' = "void",
           req[r].at = "void" => died' = "void"
    PROVE  LinksInv'
<1>1. Alone'
    BY DEF LinksInv, Alone
<1>2. Owed => Owed'
    BY DEF Owed
<1> QED BY <1>1, <1>2 DEF LinksInv, Once, Voided

LEMMA LinksStep == TypeInv /\ LinksInv /\ [Next]_vars => LinksInv'
<1> SUFFICES ASSUME TypeInv, LinksInv, [Next]_vars PROVE LinksInv'
    OBVIOUS
<1>0. TypeOK /\ Held
    BY DEF TypeInv
<1> USE <1>0
<1>a. /\ links \in Seq(BOOLEAN) /\ uses \in Seq(Nat) /\ Len(uses) = Len(links)
      /\ DOMAIN links = 1..Len(links) /\ Len(links) \in Nat
      /\ DOMAIN uses = DOMAIN links
      /\ \A i \in DOMAIN links : links[i] \in BOOLEAN /\ uses[i] \in Nat
    BY Domains, ElementOfSeq DEF TypeInv, TypeOK
<1>1. ASSUME NEW r \in Requests,
             \/ Register(r) \/ ReadsOffer(r) \/ Creates(r) \/ Apple(r) \/ AppleFinds(r) \/ AppleWrites(r)
             \/ AskCode(r) \/ Verify(r) \/ Judges(r) \/ \E n \in DOMAIN links : Open(r, n)
      PROVE  LinksInv'
    BY <1>1, Elsewhere, LinksAround
<1>2. ASSUME NEW r \in Requests,
             Retires(r) \/ Mints(r) \/ AnswersWrong(r) \/ Exhausts(r) \/ AnswersRight(r)
      PROVE  LinksInv'
    <2>1. UNCHANGED <<links, uses, mark, died>> /\ req[r].at # "void"
        BY <1>2 DEF Retires, Mints, AnswersWrong, Exhausts, AnswersRight
    <2>2. Ends(r) \/ \E place \in {"mint", "exhaust"} : Goes(r, place)
        BY <1>2 DEF Retires, Mints, AnswersWrong, Exhausts, AnswersRight
    <2>3. {"mint", "exhaust"} \subseteq Places
        BY DEF Places, Issuing
    <2>4. req'[r].at # "set" /\ \A q \in Requests \ {r} : req'[q] = req[q]
        BY <2>2, <2>3, Going, Ending
    <2> QED BY <2>1, <2>4, LinksAround
<1>3. ASSUME NEW r \in Requests, Dies(r) PROVE LinksInv'
    <2>1. /\ UNCHANGED <<links, uses, mark>>
          /\ died = "void" => died' = "void"
          /\ req[r].at = "void" => died' = "void"
          /\ Ends(r)
        BY <1>3 DEF Dies, Issuing
    <2> QED BY <2>1, Ending, LinksAround
<1>4. ASSUME NEW r \in Requests, Claims(r) PROVE LinksInv'
    <2> DEFINE n == req[r].n
    <2>1. req[r].at = "claim" /\ n \in DOMAIN links /\ UNCHANGED <<uses, mark, died>>
        BY <1>4 DEF Claims, Held
    <2>2. CASE ~links[n]
        <3>1. Ends(r) /\ UNCHANGED links
            BY <1>4, <2>2 DEF Claims
        <3> QED BY <2>1, <3>1, Ending, LinksAround
    <2>3. CASE links[n]
        <3>1. links' = [links EXCEPT ![n] = FALSE] /\ Goes(r, "set")
            BY <1>4, <2>3 DEF Claims
        <3>2. /\ DOMAIN links' = DOMAIN links
              /\ \A i \in DOMAIN links : links'[i] = IF i = n THEN FALSE ELSE links[i]
            BY <3>1
        <3>3. "set" \in Places
            BY DEF Places, Resetting
        <3>4. /\ req'[r].at = "set" /\ req'[r].n = n
              /\ \A q \in Requests \ {r} : req'[q] = req[q]
            BY <3>1, <3>3, Going
        <3>5. uses[n] = 0 /\ \A q \in Requests : req[q].at = "set" => req[q].n # n
            BY <2>1, <2>3 DEF LinksInv, Alone, Once
        <3>6. Alone'
            <4> SUFFICES ASSUME NEW q \in Requests, req'[q].at = "set"
                         PROVE  /\ ~links'[req'[q].n] /\ uses[req'[q].n] = 0
                                /\ \A p \in Requests :
                                       req'[p].at = "set" /\ req'[p].n = req'[q].n => p = q
                BY <2>1 DEF Alone
            <4>1. CASE q = r
                BY <2>1, <3>2, <3>4, <3>5, <4>1
            <4>2. CASE q # r
                <5>1. req[q].at = "set" /\ req[q].n \in DOMAIN links /\ req[q].n # n
                    BY <3>4, <3>5, <4>2 DEF Held
                <5>2. /\ ~links[req[q].n] /\ uses[req[q].n] = 0
                      /\ \A p \in Requests : req[p].at = "set" /\ req[p].n = req[q].n => p = q
                    BY <5>1 DEF LinksInv, Alone
                <5> QED BY <3>2, <3>4, <4>2, <5>1, <5>2
            <4> QED BY <4>1, <4>2
        <3>7. Once'
            BY <2>1, <3>2 DEF LinksInv, Once
        <3>8. Owed => Owed'
            BY <2>1, <3>4 DEF Owed
        <3>9. Voided'
            BY <2>1, <3>2, <3>8 DEF LinksInv, Voided
        <3> QED BY <3>6, <3>7, <3>9 DEF LinksInv
    <2> QED BY <2>2, <2>3
<1>5. ASSUME NEW r \in Requests, SetsPassword(r) PROVE LinksInv'
    <2> DEFINE n == req[r].n
    <2>1. /\ req[r].at = "set" /\ UNCHANGED links
          /\ uses' = [uses EXCEPT ![n] = uses[n] + 1] /\ Goes(r, "void")
        BY <1>5 DEF SetsPassword
    <2>2. /\ n \in DOMAIN links /\ ~links[n] /\ uses[n] = 0
          /\ \A q \in Requests : req[q].at = "set" /\ req[q].n = n => q = r
        BY <2>1 DEF Held, LinksInv, Alone
    <2>3. \A i \in DOMAIN links : uses'[i] = IF i = n THEN 1 ELSE uses[i]
        BY <1>a, <2>1, <2>2
    <2>4. "void" \in Places
        BY DEF Places, Resetting
    <2>5. req'[r].at = "void" /\ \A q \in Requests \ {r} : req'[q] = req[q]
        BY <2>1, <2>4, Going
    <2>6. Alone'
        BY <2>1, <2>2, <2>3, <2>5 DEF LinksInv, Alone, Held
    <2>7. Once'
        BY <2>1, <2>2, <2>3 DEF LinksInv, Once
    <2>8. Owed'
        BY <2>5 DEF Owed
    <2> QED BY <2>6, <2>7, <2>8 DEF LinksInv, Voided
<1>6. ASSUME NEW r \in Requests, Voids(r) PROVE LinksInv'
    <2>1. links' = [i \in DOMAIN links |-> FALSE] /\ Ends(r) /\ UNCHANGED <<uses, mark>>
        BY <1>6 DEF Voids
    <2>2. DOMAIN links' = DOMAIN links /\ \A i \in DOMAIN links : ~links'[i]
        BY <2>1
    <2>3. \A q \in Requests : req'[q] = req[q] \/ req'[q].at = "idle"
        BY <2>1, Ending
    <2>4. Alone'
        BY <2>1, <2>2, <2>3 DEF LinksInv, Alone, Held
    <2>5. Once' /\ Voided'
        BY <2>1, <2>2 DEF LinksInv, Once, Voided
    <2> QED BY <2>4, <2>5 DEF LinksInv
<1>7. CASE AskLink
    <2>1. /\ links' = Append(links, TRUE) /\ uses' = Append(uses, 0)
          /\ UNCHANGED <<req, mark, died>>
        BY <1>7 DEF AskLink
    <2>2. /\ \A i \in DOMAIN links : links'[i] = links[i] /\ uses'[i] = uses[i]
          /\ \A i \in DOMAIN links' : i \in DOMAIN links \/ i = Len(links) + 1
          /\ links'[Len(links) + 1] = TRUE /\ uses'[Len(links) + 1] = 0
        BY <1>a, <2>1, Added
    <2>3. mark \in Nat /\ mark <= Len(links)
        BY <1>a DEF TypeOK
    <2>4. Alone'
        BY <2>1, <2>2 DEF LinksInv, Alone, Held
    <2>5. Once'
        BY <2>2 DEF LinksInv, Once
    <2>6. Voided'
        BY <1>a, <2>1, <2>2, <2>3 DEF LinksInv, Voided, Owed
    <2> QED BY <2>4, <2>5, <2>6 DEF LinksInv
<1>8. CASE UNCHANGED <<links, uses, mark, req, died>>
    BY <1>8 DEF LinksInv, Alone, Once, Voided, Owed
<1> QED
    BY <1>1, <1>2, <1>3, <1>4, <1>5, <1>6, <1>7, <1>8
       DEF Next, Handle, ChangeSettings, CohortGrant, vars

\* A link sets one password, and the reset it served leaves no older link that works,
\* unless its handler died before it came to void them.
THEOREM LinksAreSpentOnce == Spec => []LinksAreSpent
<1>1. Init => TypeInv /\ LinksInv
    <2> SUFFICES ASSUME Init PROVE LinksInv
        BY InitTypes
    <2>1. req = [r \in Requests |-> Idle] /\ links = <<>>
        BY DEF Init
    <2>2. Alone
        BY <2>1, Constants DEF Alone
    <2>3. Once /\ Voided
        BY <2>1, EmptySeq DEF Once, Voided
    <2> QED BY <2>2, <2>3 DEF LinksInv
<1>2. TypeInv /\ LinksInv /\ [Next]_vars => (TypeInv /\ LinksInv)'
    BY TypeStep, LinksStep
<1>3. LinksInv => LinksAreSpent
    BY DEF LinksInv, Once, Voided, Owed, LinksAreSpent
<1> QED BY <1>1, <1>2, <1>3, PTL DEF Spec

HIDE SignInAssumption DEF secrets, history

-----------------------------------------------------------------------------
(* TrialLedger: the windows of machines *)

\* h claims a trial on machine m and shows some of its hardware.
Working(h, m) == run[h].at \in ClaimPlaces /\ run[h].kinds # {} /\ MachineOf[run[h].id] = m

\* What a handler holds at each place.
Stands(h) ==
    /\ run[h].at # "idle" => run[h].a \in Accounts
    /\ run[h].at \in ClaimPlaces => run[h].id \in Ids
    /\ run[h].at \in Transacts => run[h].id \in Ids \union Apples /\ run[h].apple \in Apples
    /\ run[h].at \in {"match", "record"} => run[h].kinds # {}
    /\ run[h].at \in {"record", "stamp"} => run[h].c \in DOMAIN claims
HandlersStand == \A h \in Callers : Stands(h)

\* Claims and their signals are deleted by an operator's reset, which spoils
\* every machine.
OnlyResetsDelete ==
    /\ \A i \in DOMAIN claims : claims[i].deleted => spoiled = Machines
    /\ \A h \in Callers : run[h].at \in Clears => spoiled = Machines

\* On a machine that is not spoiled, one claim is under way at a time, ...
OneAtATime ==
    \A m \in Machines \ spoiled : \A g, h \in Callers : Working(g, m) /\ Working(h, m) => g = h

\* ... each window that began with its MachineGuid is recorded, or in the hand of
\* the handler about to record it, ...
Recorded(i, m) == \E n \in DOMAIN rows : rows[n].claim = i /\ <<"mguid", m>> \in rows[n].signals
InHand(i, m) ==
    \E h \in Callers : /\ run[h].at = "record" /\ run[h].c = i
                       /\ "mguid" \in run[h].kinds /\ MachineOf[run[h].id] = m
WindowsAreKnown ==
    \A m \in Machines \ spoiled : \A i \in DOMAIN claims :
        claims[i].on = m => Recorded(i, m) \/ InHand(i, m)

\* ... and whoever is about to begin one there begins the first.
CreatesTheFirst ==
    \A m \in Machines \ spoiled : \A h \in Callers :
        run[h].at = "create" /\ "mguid" \in run[h].kinds /\ MachineOf[run[h].id] = m =>
            \A i \in DOMAIN claims : claims[i].on # m

TrialInv ==
    /\ TrialTypeOK /\ HandlersStand /\ OnlyResetsDelete
    /\ OneAtATime /\ WindowsAreKnown /\ CreatesTheFirst /\ OneWindowPerMachine

-----------------------------------------------------------------------------
(* The least of some numbers *)

\* Well-foundedness of the subsets 0 .. x gives every nonempty set of numbers a
\* least one.
LEMMA MinIsLeast ==
    ASSUME NEW S, S \subseteq Nat, S # {}
    PROVE  Min(S) \in S /\ \A y \in S : Min(S) <= y
<1> DEFINE T == {0 .. x : x \in S}
<1>1. T # {} /\ T \subseteq FiniteSubsetsOf(Nat)
  <2>1. \A x \in S : 0 .. x \in FiniteSubsetsOf(Nat)
      BY FS_Interval DEF FiniteSubsetsOf
  <2> QED BY <2>1
<1>2. PICK X \in T : \A Y \in T : <<Y, X>> \notin StrictSubsetOrdering(Nat)
  <2> HIDE DEF T
  <2> QED BY <1>1, WFMin, FS_StrictSubsetOrderingWellFounded
<1>3. PICK x \in S : X = 0 .. x
    BY <1>2
<1>4. \A y \in S : x <= y
  <2> SUFFICES ASSUME NEW y \in S, y < x
               PROVE  FALSE
      OBVIOUS
  <2>1. 0 .. y \subseteq 0 .. x /\ 0 .. y # 0 .. x
      OBVIOUS
  <2>2. 0 .. y \in T /\ 0 .. x \subseteq Nat
      OBVIOUS
  <2> QED BY <1>2, <1>3, <2>1, <2>2 DEF StrictSubsetOrdering
<1> QED BY <1>4 DEF Min

\* The oldest of some claims is one of them, ...
LEMMA OldestIsOne ==
    ASSUME NEW S, S \subseteq Nat \ {0}
    PROVE  /\ S = {} => Oldest(S) = 0
           /\ S # {} => Oldest(S) \in S
           /\ Oldest(S) = 0 <=> S = {}
BY MinIsLeast DEF Oldest

\* ... and stays the one it is when newer ones come.
LEMMA NewerIsNotOldest ==
    ASSUME NEW S, S \subseteq Nat \ {0}, S # {}, NEW n \in Nat, \A i \in S : i < n,
           NEW T, T \in {S, S \union {n}}
    PROVE  Oldest(T) = Oldest(S)
<1>1. Min(S) \in S /\ \A y \in S : Min(S) <= y
    BY MinIsLeast
<1>2. T \subseteq Nat /\ T # {}
    OBVIOUS
<1>3. Min(T) \in T /\ \A y \in T : Min(T) <= y
    BY <1>2, MinIsLeast
<1>4. Min(T) \in S
  <2>1. PICK y \in S : y \in T
      OBVIOUS
  <2>2. Min(T) <= y /\ y < n /\ y \in Nat /\ Min(T) \in Nat
      BY <1>2, <1>3, <2>1
  <2>3. Min(T) # n
      BY <2>2
  <2> QED BY <1>3, <2>3
<1>5. Min(T) = Min(S)
  <2>1. Min(T) <= Min(S) /\ Min(S) <= Min(T) /\ Min(S) \in Nat /\ Min(T) \in Nat
      BY <1>1, <1>3, <1>4
  <2> QED BY <2>1
<1> QED BY <1>2, <1>5 DEF Oldest

LEMMA FindClaimFinds ==
    ASSUME TrialTypeOK, NEW id, NEW a
    PROVE  \/ FindClaim(id, a) = 0
           \/ /\ FindClaim(id, a) \in Live /\ FindClaim(id, a) \in 1 .. MaxClaims
              /\ claims[FindClaim(id, a)].owner = a \/ claims[FindClaim(id, a)].device = id
<1> DEFINE S == {i \in Live : claims[i].owner = a \/ claims[i].device = id}
<1>1. DOMAIN claims = 1 .. Len(claims) /\ Len(claims) \in 0 .. MaxClaims
    BY LedgerAssumption DEF TrialTypeOK
<1>2. S \subseteq Nat \ {0} /\ S \subseteq DOMAIN claims
    BY <1>1 DEF Live
<1>3. FindClaim(id, a) = Oldest(S)
    BY DEF FindClaim
<1>4. S # {} => Oldest(S) \in S
    BY <1>2, OldestIsOne
<1>5. S = {} => Oldest(S) = 0
    BY <1>2, OldestIsOne
<1>6. \A i \in S : i \in Live /\ i \in 1 .. MaxClaims
                  /\ (claims[i].owner = a \/ claims[i].device = id)
    BY <1>1, LedgerAssumption DEF Live
<1> HIDE DEF S
<1> QED BY <1>3, <1>4, <1>5, <1>6

-----------------------------------------------------------------------------
(* Machines are recognised *)

\* Rows that share the MachineGuid with what is shown are seen, ...
LEMMA GuidRecognises ==
    ASSUME NEW n \in DOMAIN rows, NEW m \in Machines, <<"mguid", m>> \in rows[n].signals,
           NEW kinds \in Readings, "mguid" \in kinds
    PROVE  Recognises(rows[n].claim, Signals(kinds, m))
<1> DEFINE sigs == Signals(kinds, m)
           guid == <<"mguid", m>>
<1>1. guid \in sigs
    BY DEF Signals, Signal
<1>2. n \in Seen(rows[n].claim, sigs)
    BY <1>1 DEF Seen
<1>3. guid \in sigs \intersect UNION {rows[k].signals : k \in Seen(rows[n].claim, sigs)}
    BY <1>1, <1>2
<1>4. guid[1] = "mguid"
    OBVIOUS
<1> QED BY <1>3, <1>4 DEF Recognises

\* ... and whoever is recognised has been seen, on more than a network card.
LEMMA RecognisedIsSeen ==
    ASSUME NEW i, NEW kinds \in Readings, NEW m, Recognises(i, Signals(kinds, m))
    PROVE  \E n \in Seen(i, Signals(kinds, m)) :
               (rows[n].signals \intersect Signals(kinds, m)) \ {<<"mac">>} # {}
<1> DEFINE sigs == Signals(kinds, m)
<1>1. PICK s \in sigs \intersect UNION {rows[k].signals : k \in Seen(i, sigs)} : s[1] \in {"mguid", "vol"}
    BY DEF Recognises
<1>2. PICK n \in Seen(i, sigs) : s \in rows[n].signals
    BY <1>1
<1>3. s # <<"mac">>
    BY <1>1
<1> QED BY <1>1, <1>2, <1>3

\* The hardware leads to a claim that is recognised, if there is one.
LEMMA MatchRecognises ==
    ASSUME TrialTypeOK, NEW kinds \in Readings, NEW m
    PROVE  LET sigs == Signals(kinds, m)
           IN IF \E i \in DOMAIN claims : Recognises(i, sigs)
              THEN Match(sigs) \in DOMAIN claims /\ Recognises(Match(sigs), sigs)
              ELSE Match(sigs) = 0
<1> DEFINE sigs == Signals(kinds, m)
           found == {i \in DOMAIN claims : Recognises(i, sigs)}
           first == {Min(Seen(i, sigs)) : i \in found}
<1>1. CASE found = {}
    BY <1>1 DEF Match
<1>2. CASE found # {}
  <2>1. \A i \in found : Seen(i, sigs) # {} /\ Seen(i, sigs) \subseteq Nat
    <3>1. \A i \in found : Recognises(i, sigs)
        OBVIOUS
    <3>2. DOMAIN rows \subseteq Nat
        BY DEF TrialTypeOK
    <3> QED BY <3>1, <3>2, RecognisedIsSeen DEF Seen
  <2>2. \A i \in found : Min(Seen(i, sigs)) \in Nat
      BY <2>1, MinIsLeast
  <2>3. first \subseteq Nat /\ first # {}
      BY <1>2, <2>2
  <2>4. Min(first) \in first /\ \A y \in first : Min(first) <= y
      BY <2>3, MinIsLeast
  <2>5. \E i \in found : \A j \in found : Min(Seen(i, sigs)) <= Min(Seen(j, sigs))
      BY <2>4
  <2>6. Match(sigs) = CHOOSE i \in found : \A j \in found : Min(Seen(i, sigs)) <= Min(Seen(j, sigs))
      BY <1>2 DEF Match
  <2>7. Match(sigs) \in found
    <3> HIDE DEF found
    <3> QED BY <2>5, <2>6
  <2> QED BY <2>7
<1> QED BY <1>1, <1>2

-----------------------------------------------------------------------------
(* Type correctness *)

LEMMA AtRestType == AtRest \in Caller /\ AtRest.at = "idle" /\ AtRest.kinds = {}
BY LedgerAssumption DEF AtRest, Caller, TrialPlaces, Readings

\* A handler moves on, with or without a claim in hand, or is done.
LEMMA MovesStep ==
    ASSUME run \in [Callers -> Caller], NEW h \in Callers, NEW place \in TrialPlaces, Moves(h, place)
    PROVE  /\ run' \in [Callers -> Caller]
           /\ \A g \in Callers \ {h} : run'[g] = run[g]
           /\ run'[h].at = place /\ run'[h].a = run[h].a /\ run'[h].id = run[h].id
           /\ run'[h].kinds = run[h].kinds /\ run'[h].apple = run[h].apple
           /\ run'[h].c = run[h].c
BY DEF Moves, Caller

LEMMA TakesStep ==
    ASSUME run \in [Callers -> Caller], NEW h \in Callers, NEW place \in TrialPlaces,
           NEW c \in 0 .. MaxClaims, Takes(h, place, c)
    PROVE  /\ run' \in [Callers -> Caller]
           /\ \A g \in Callers \ {h} : run'[g] = run[g]
           /\ run'[h].at = place /\ run'[h].a = run[h].a /\ run'[h].id = run[h].id
           /\ run'[h].kinds = run[h].kinds /\ run'[h].apple = run[h].apple
           /\ run'[h].c = c
BY DEF Takes, Caller

LEMMA FinishesStep ==
    ASSUME run \in [Callers -> Caller], NEW h \in Callers, Finishes(h)
    PROVE  /\ run' \in [Callers -> Caller]
           /\ \A g \in Callers \ {h} : run'[g] = run[g]
           /\ run'[h].at = "idle" /\ run'[h].kinds = {}
BY AtRestType DEF Finishes

LEMMA ArrivesStep ==
    ASSUME run \in [Callers -> Caller], calls \in 0 .. MaxCalls, NEW h \in Callers,
           NEW fields \in Caller, Arrives(h, fields)
    PROVE  /\ run' \in [Callers -> Caller] /\ calls' \in 0 .. MaxCalls
           /\ \A g \in Callers \ {h} : run'[g] = run[g]
           /\ run'[h] = fields
BY LedgerAssumption DEF Arrives

\* A claim that is new: the earlier ones stay, and an id nobody holds is held once.
LEMMA AppendClaim ==
    ASSUME TrialTypeOK, NEW c \in Claim, ~Taken(c.device), Len(claims) < MaxClaims,
           claims' = Append(claims, c)
    PROVE  /\ claims' \in Seq(Claim) /\ Len(claims') = Len(claims) + 1 /\ Len(claims') <= MaxClaims
           /\ DOMAIN claims' = DOMAIN claims \union {Len(claims')}
           /\ Len(claims') \notin DOMAIN claims /\ Len(claims') \in 1 .. MaxClaims
           /\ \A i \in DOMAIN claims : claims'[i] = claims[i]
           /\ claims'[Len(claims')] = c
           /\ \A i, j \in Live' : claims'[i].device = claims'[j].device => i = j
<1>1. /\ claims' \in Seq(Claim) /\ Len(claims') = Len(claims) + 1 /\ Len(claims') <= MaxClaims
      /\ DOMAIN claims' = DOMAIN claims \union {Len(claims')}
      /\ Len(claims') \notin DOMAIN claims /\ Len(claims') \in 1 .. MaxClaims
      /\ \A i \in DOMAIN claims : claims'[i] = claims[i]
      /\ claims'[Len(claims')] = c
    BY LedgerAssumption DEF TrialTypeOK
<1>2. Live' \subseteq Live \union {Len(claims')}
    BY <1>1 DEF Live
<1>3. \A i \in Live : claims[i].device # c.device /\ claims'[i] = claims[i]
    BY <1>1 DEF Taken, Live
<1>4. \A i, j \in Live : claims[i].device = claims[j].device => i = j
    BY DEF TrialTypeOK
<1>5. \A i, j \in Live' : claims'[i].device = claims'[j].device => i = j
    BY <1>1, <1>2, <1>3, <1>4
<1> QED BY <1>1, <1>5

\* Claims that lose their owner, or are deleted: the others stay.
LEMMA ChangeClaims ==
    ASSUME TrialTypeOK,
           claims' = [i \in DOMAIN claims |-> claims'[i]],
           \A i \in DOMAIN claims :
               /\ claims'[i] \in Claim /\ claims'[i].device = claims[i].device
               /\ claims[i].deleted => claims'[i].deleted
    PROVE  /\ claims' \in Seq(Claim) /\ Len(claims') <= MaxClaims
           /\ DOMAIN claims' = DOMAIN claims
           /\ \A i, j \in Live' : claims'[i].device = claims'[j].device => i = j
<1>1. DOMAIN claims' = 1 .. Len(claims) /\ DOMAIN claims' = DOMAIN claims /\ Len(claims) \in Nat
    BY DEF TrialTypeOK
<1>2. claims' \in Seq(Claim) /\ Len(claims') = Len(claims)
  <2>1. claims' \in [1 .. Len(claims) -> Claim]
    <3> DEFINE f == claims'
    <3>1. f = [i \in DOMAIN claims |-> f[i]] /\ \A i \in DOMAIN claims : f[i] \in Claim
        OBVIOUS
    <3> HIDE DEF f
    <3>2. f \in [DOMAIN claims -> Claim]
        BY <3>1
    <3> QED BY <1>1, <3>2 DEF f
  <2> QED BY <1>1, <2>1
<1>3. Live' \subseteq Live
    BY <1>1 DEF Live
<1>4. \A i, j \in Live : claims[i].device = claims[j].device => i = j
    BY DEF TrialTypeOK
<1> QED BY <1>1, <1>2, <1>3, <1>4 DEF TrialTypeOK, Live

LEMMA ErasesType ==
    ASSUME TrialTypeOK, NEW set, Erases(set), DOMAIN claims' = DOMAIN claims
    PROVE  rows' \in Seq(Recording) /\ \A n \in DOMAIN rows' : rows'[n].claim \in DOMAIN claims'
<1>1. Len(rows) \in Nat /\ DOMAIN rows = 1 .. Len(rows) /\ \A n \in DOMAIN rows : rows[n] \in Recording
    BY DEF TrialTypeOK
<1>2. DOMAIN rows' = DOMAIN rows
    BY DEF Erases
<1>3. \A n \in DOMAIN rows : rows'[n] \in Recording /\ rows'[n].claim = rows[n].claim
    BY <1>1 DEF Erases, Recording
<1>4. rows' \in [1 .. Len(rows) -> Recording]
    BY <1>1, <1>3 DEF Erases
<1>5. rows' \in Seq(Recording)
    BY <1>1, <1>4
<1> QED BY <1>2, <1>3, <1>5 DEF TrialTypeOK

\* A step of one handler that keeps every claim leaves the others where they stand.
LEMMA OthersStand ==
    ASSUME HandlersStand, DOMAIN claims \subseteq DOMAIN claims', NEW h \in Callers,
           \A g \in Callers \ {h} : run'[g] = run[g],
           Stands(h)'
    PROVE  HandlersStand'
BY DEF HandlersStand, Stands

LEMMA TypeInit == TrialInit => TrialTypeOK /\ HandlersStand
<1> SUFFICES ASSUME TrialInit PROVE TrialTypeOK /\ HandlersStand
    OBVIOUS
<1>1. claims \in Seq(Claim) /\ Len(claims) <= MaxClaims /\ DOMAIN claims = {}
    BY LedgerAssumption DEF TrialInit
<1>2. rows \in Seq(Recording) /\ DOMAIN rows = {}
    BY DEF TrialInit
<1>3. run \in [Callers -> Caller] /\ calls \in 0 .. MaxCalls
    BY AtRestType, LedgerAssumption DEF TrialInit
<1>4. TrialTypeOK
    BY <1>1, <1>2, <1>3 DEF TrialTypeOK, TrialInit, Live
<1>5. HandlersStand
    BY AtRestType DEF TrialInit, HandlersStand, Stands, ClaimPlaces, Transacts
<1> QED BY <1>4, <1>5

\* A request of claimTrial is what a handler may hold.
LEMMA ClaimingType ==
    ASSUME TrialTypeOK, HandlersStand, NEW h \in Callers, NEW a \in Accounts, NEW id \in Ids,
           NEW kinds \in Readings, NEW place \in {"signup", "find"},
           Claiming(h, place, a, id, kinds)
    PROVE  /\ TrialTypeOK' /\ HandlersStand'
           /\ \A g \in Callers \ {h} : run'[g] = run[g]
           /\ run'[h].at = place /\ run'[h].id = id /\ run'[h].kinds = kinds
<1> DEFINE fields == [AtRest EXCEPT !.at = place, !.a = a, !.id = id, !.kinds = kinds]
<1>1. fields \in Caller /\ fields.at = place /\ fields.a = a /\ fields.id = id /\ fields.kinds = kinds
    BY AtRestType DEF Caller, TrialPlaces, ClaimPlaces
<1>2. Arrives(h, fields)
    BY DEF Claiming
<1> HIDE DEF fields
<1>3. /\ run' \in [Callers -> Caller] /\ calls' \in 0 .. MaxCalls
      /\ \A g \in Callers \ {h} : run'[g] = run[g]
      /\ run'[h] = fields
    BY <1>1, <1>2, ArrivesStep DEF TrialTypeOK
<1>4. spoiled' \subseteq Machines
    BY LedgerAssumption DEF Claiming, TrialTypeOK
<1>5. TrialTypeOK'
    BY <1>3, <1>4 DEF TrialTypeOK, Claiming, ledger, people, Live
<1>6. Stands(h)'
    BY <1>1, <1>3 DEF Stands, Transacts
<1>7. DOMAIN claims \subseteq DOMAIN claims'
    BY DEF Claiming, ledger
<1>8. HandlersStand'
    BY <1>3, <1>6, <1>7, OthersStand
<1> QED BY <1>1, <1>3, <1>5, <1>8

\* The other requests come with less.
LEMMA ArrivalType ==
    ASSUME TrialTypeOK, HandlersStand, NEW h \in Callers, NEW fields \in Caller, Arrives(h, fields),
           fields.at \notin ClaimPlaces, fields.at # "stamp", fields.a \in Accounts,
           fields.at \in Transacts => fields.id \in Ids \union Apples /\ fields.apple \in Apples,
           DOMAIN claims \subseteq DOMAIN claims'
    PROVE  /\ run' \in [Callers -> Caller] /\ calls' \in 0 .. MaxCalls /\ HandlersStand'
           /\ \A g \in Callers \ {h} : run'[g] = run[g]
           /\ run'[h] = fields
<1>1. /\ run' \in [Callers -> Caller] /\ calls' \in 0 .. MaxCalls
      /\ \A g \in Callers \ {h} : run'[g] = run[g]
      /\ run'[h] = fields
    BY ArrivesStep DEF TrialTypeOK
<1>2. Stands(h)'
    BY <1>1 DEF Stands, ClaimPlaces
<1> QED BY <1>1, <1>2, OthersStand

LEMMA ReturnsStep ==
    ASSUME TrialTypeOK, HandlersStand, NEW h \in Callers, NEW c \in DOMAIN claims',
           c \in 0 .. MaxClaims, run[h].at \in ClaimPlaces, Returns(h, c),
           DOMAIN claims \subseteq DOMAIN claims'
    PROVE  /\ run' \in [Callers -> Caller] /\ HandlersStand'
           /\ \A g \in Callers \ {h} : run'[g] = run[g]
           /\ \/ run'[h].at = "idle" /\ run[h].kinds = {}
              \/ /\ run'[h].at = "record" /\ run'[h].c = c
                 /\ run'[h].a = run[h].a /\ run'[h].id = run[h].id /\ run'[h].kinds = run[h].kinds
<1>1. CASE run[h].kinds = {}
  <2>1. Finishes(h)
      BY <1>1 DEF Returns
  <2>2. /\ run' \in [Callers -> Caller]
        /\ \A g \in Callers \ {h} : run'[g] = run[g]
        /\ run'[h].at = "idle"
      BY <2>1, FinishesStep DEF TrialTypeOK
  <2>3. Stands(h)'
      BY <2>2 DEF Stands, ClaimPlaces, Transacts
  <2> QED BY <1>1, <2>2, <2>3, OthersStand
<1>2. CASE run[h].kinds # {}
  <2>1. Takes(h, "record", c) /\ "record" \in TrialPlaces
      BY <1>2 DEF Returns, TrialPlaces, ClaimPlaces
  <2>2. /\ run' \in [Callers -> Caller]
        /\ \A g \in Callers \ {h} : run'[g] = run[g]
        /\ run'[h].at = "record" /\ run'[h].a = run[h].a /\ run'[h].id = run[h].id
        /\ run'[h].kinds = run[h].kinds /\ run'[h].c = c
      BY <2>1, TakesStep DEF TrialTypeOK
  <2>3. Stands(h)'
      BY <1>2, <2>2 DEF HandlersStand, Stands, ClaimPlaces, Transacts
  <2> QED BY <2>2, <2>3, OthersStand
<1> QED BY <1>1, <1>2

\* So do those that finish, and those that move on without a claim in hand.
LEMMA FinishesType ==
    ASSUME TrialTypeOK, HandlersStand, NEW h \in Callers, Finishes(h),
           DOMAIN claims \subseteq DOMAIN claims'
    PROVE  /\ run' \in [Callers -> Caller] /\ HandlersStand'
           /\ \A g \in Callers \ {h} : run'[g] = run[g]
           /\ run'[h].at = "idle" /\ run'[h].kinds = {}
<1>1. /\ run' \in [Callers -> Caller]
      /\ \A g \in Callers \ {h} : run'[g] = run[g]
      /\ run'[h].at = "idle" /\ run'[h].kinds = {}
    BY FinishesStep DEF TrialTypeOK
<1>2. Stands(h)'
    BY <1>1 DEF Stands, ClaimPlaces, Transacts
<1> QED BY <1>1, <1>2, OthersStand

LEMMA MovesType ==
    ASSUME TrialTypeOK, HandlersStand, NEW h \in Callers, NEW place, Moves(h, place),
           \/ run[h].at \in ClaimPlaces /\ place \in ClaimPlaces \ {"record"}
                /\ (place = "match" => run[h].kinds # {})
           \/ run[h].at \in Transacts /\ place \in Transacts \ {"stamp"}
           \/ run[h].at \in Clears /\ place \in Clears,
           DOMAIN claims \subseteq DOMAIN claims'
    PROVE  /\ run' \in [Callers -> Caller] /\ HandlersStand'
           /\ \A g \in Callers \ {h} : run'[g] = run[g]
           /\ run'[h].at = place /\ run'[h].id = run[h].id /\ run'[h].kinds = run[h].kinds
<1>1. place \in TrialPlaces
    BY DEF TrialPlaces
<1>2. /\ run' \in [Callers -> Caller]
      /\ \A g \in Callers \ {h} : run'[g] = run[g]
      /\ run'[h].at = place /\ run'[h].a = run[h].a /\ run'[h].id = run[h].id
      /\ run'[h].kinds = run[h].kinds /\ run'[h].apple = run[h].apple
    BY <1>1, MovesStep DEF TrialTypeOK
<1>3. Stands(h)'
    BY <1>2 DEF HandlersStand, Stands, ClaimPlaces, Transacts, Clears
<1> QED BY <1>2, <1>3, OthersStand

-----------------------------------------------------------------------------
(* What keeps the windows *)

\* A step that forgets no claim and no row, and after which the one handler it
\* moved is alone on its machine, has recorded what it had in hand, and begins or
\* joins a window rightly.
LEMMA WindowsStep ==
    ASSUME TrialInv, TrialTypeOK', HandlersStand', spoiled \subseteq spoiled',
           DOMAIN claims \subseteq DOMAIN claims',
           \A i \in DOMAIN claims :
               /\ claims'[i].on = claims[i].on /\ claims'[i].device = claims[i].device
               /\ claims'[i].owner \in {claims[i].owner, None}
               /\ claims'[i].deleted = claims[i].deleted,
           \A i \in DOMAIN claims' \ DOMAIN claims : ~claims'[i].deleted,
           \A i, j \in DOMAIN claims' \ DOMAIN claims : i = j,
           \A n \in DOMAIN rows : n \in DOMAIN rows' /\ rows'[n] = rows[n],
           NEW h,
           \A g \in Callers \ {h} : run'[g] = run[g],
           h \in Callers /\ run'[h] # run[h] =>
               /\ run'[h].at \in Clears => spoiled' = Machines
               /\ run'[h].at = "record" /\ MachineOf[run'[h].id] \notin spoiled' => InRightWindow(h)'
               /\ \A m \in Machines \ spoiled' :
                     /\ Working(h, m)' => \A g \in Callers \ {h} : ~Working(g, m)
                     /\ run[h].at = "record" /\ "mguid" \in run[h].kinds /\ MachineOf[run[h].id] = m
                           => \A i \in DOMAIN claims : run[h].c = i => Recorded(i, m)'
                     /\ run'[h].at = "create" /\ "mguid" \in run'[h].kinds /\ MachineOf[run'[h].id] = m
                           => \A i \in DOMAIN claims' : claims'[i].on # m,
           \A i \in DOMAIN claims' \ DOMAIN claims, m \in Machines \ spoiled' :
               claims'[i].on = m =>
                   /\ h \in Callers /\ Working(h, m)' /\ InHand(i, m)' /\ run'[h].at = "record"
                   /\ run'[h] # run[h]
                   /\ \A j \in DOMAIN claims : claims[j].on # m
    PROVE  TrialInv'
<1>1. spoiled' \subseteq Machines /\ Machines \ spoiled' \subseteq Machines \ spoiled
    BY DEF TrialTypeOK
<1>2. OnlyResetsDelete'
  <2>1. spoiled = Machines => spoiled' = Machines
      BY <1>1
  <2>2. \A i \in DOMAIN claims' : claims'[i].deleted => spoiled' = Machines
      BY <2>1 DEF TrialInv, OnlyResetsDelete
  <2>3. \A g \in Callers : run'[g].at \in Clears => spoiled' = Machines
      BY <2>1 DEF TrialInv, OnlyResetsDelete
  <2> QED BY <2>2, <2>3 DEF OnlyResetsDelete
<1>3. OneAtATime'
  <2> SUFFICES ASSUME NEW m \in Machines \ spoiled', NEW f \in Callers, NEW g \in Callers,
                      Working(f, m)', Working(g, m)', f # g
               PROVE  FALSE
      BY DEF OneAtATime
  <2>1. \A k \in Callers : run'[k] = run[k] => Working(k, m) = Working(k, m)'
      BY DEF Working
  <2>2. CASE run'[f] = run[f] /\ run'[g] = run[g]
      BY <1>1, <2>1, <2>2 DEF TrialInv, OneAtATime
  <2>3. CASE run'[f] # run[f]
      BY <2>1, <2>3
  <2>4. CASE run'[g] # run[g]
      BY <2>1, <2>4
  <2> QED BY <2>2, <2>3, <2>4
<1>4. WindowsAreKnown'
  <2> SUFFICES ASSUME NEW m \in Machines \ spoiled', NEW i \in DOMAIN claims', claims'[i].on = m
               PROVE  Recorded(i, m)' \/ InHand(i, m)'
      BY DEF WindowsAreKnown
  <2>1. CASE i \notin DOMAIN claims
      BY <2>1
  <2>2. CASE i \in DOMAIN claims
    <3>1. Recorded(i, m) \/ InHand(i, m)
        BY <1>1, <2>2 DEF TrialInv, WindowsAreKnown
    <3>2. ASSUME Recorded(i, m) PROVE Recorded(i, m)'
        BY <3>2 DEF Recorded
    <3>3. ASSUME InHand(i, m) PROVE Recorded(i, m)' \/ InHand(i, m)'
      <4>1. PICK g \in Callers : /\ run[g].at = "record" /\ run[g].c = i
                                 /\ "mguid" \in run[g].kinds /\ MachineOf[run[g].id] = m
          BY <3>3 DEF InHand
      <4>2. CASE run'[g] = run[g]
          BY <4>1, <4>2 DEF InHand
      <4>3. CASE run'[g] # run[g]
        <5>1. g = h
            BY <4>3
        <5> QED BY <2>2, <4>1, <4>3, <5>1
      <4> QED BY <4>2, <4>3
    <3> QED BY <3>1, <3>2, <3>3
  <2> QED BY <2>1, <2>2
<1>5. CreatesTheFirst'
  <2> SUFFICES ASSUME NEW m \in Machines \ spoiled', NEW g \in Callers,
                      run'[g].at = "create", "mguid" \in run'[g].kinds, MachineOf[run'[g].id] = m,
                      NEW i \in DOMAIN claims'
               PROVE  claims'[i].on # m
      BY DEF CreatesTheFirst
  <2>1. CASE run'[g] # run[g]
    <3>1. g = h
        BY <2>1
    <3> QED BY <2>1, <3>1
  <2>2. CASE run'[g] = run[g] /\ i \in DOMAIN claims
      BY <1>1, <2>2 DEF TrialInv, CreatesTheFirst
  <2>3. CASE run'[g] = run[g] /\ i \notin DOMAIN claims
    <3>1. Working(g, m)
        BY <2>3 DEF Working, ClaimPlaces
    <3>2. ASSUME claims'[i].on = m PROVE FALSE
      <4>1. g # h
          BY <2>3, <3>2
      <4> QED BY <2>3, <3>1, <3>2, <4>1
    <3> QED BY <3>2
  <2> QED BY <2>1, <2>2, <2>3
<1>6. OneWindowPerMachine'
  <2>1. ASSUME NEW i \in DOMAIN claims', NEW j \in DOMAIN claims',
               i # j, claims'[i].on = claims'[j].on, claims'[i].on # None
        PROVE  claims'[i].on \in spoiled'
    <3> SUFFICES ASSUME claims'[i].on \notin spoiled' PROVE FALSE
        OBVIOUS
    <3>1. claims'[i].on \in Machines \ spoiled'
      <4>1. claims'[i] \in Claim
          BY DEF TrialTypeOK
      <4> QED BY <2>1, <4>1 DEF Claim
    <3>2. CASE i \in DOMAIN claims /\ j \in DOMAIN claims
        BY <1>1, <2>1, <3>1, <3>2 DEF TrialInv, OneWindowPerMachine
    <3>3. CASE i \notin DOMAIN claims /\ j \in DOMAIN claims
        BY <2>1, <3>1, <3>3
    <3>4. CASE i \in DOMAIN claims /\ j \notin DOMAIN claims
        BY <2>1, <3>1, <3>4
    <3>5. CASE i \notin DOMAIN claims /\ j \notin DOMAIN claims
        BY <2>1, <3>5
    <3> QED BY <3>2, <3>3, <3>4, <3>5
  <2>2. ASSUME NEW g \in Callers, run'[g].at = "record", MachineOf[run'[g].id] \notin spoiled'
        PROVE  InRightWindow(g)'
    <3>1. CASE run'[g] # run[g]
      <4>1. g = h
          BY <3>1
      <4> QED BY <2>2, <3>1, <4>1
    <3>2. CASE run'[g] = run[g]
      <4>1. InRightWindow(g) /\ run[g].c \in DOMAIN claims
          BY <2>2, <3>2 DEF TrialInv, OneWindowPerMachine, HandlersStand, Stands
      <4>2. Shown(g)' = Shown(g)
          BY <3>2 DEF Shown
      <4> DEFINE c == run[g].c
      <4>3. CASE claims[c].owner \in {run[g].a, None} \/ claims[c].device = run[g].id
          BY <3>2, <4>1, <4>3 DEF InRightWindow
      <4>4. CASE \E n \in DOMAIN rows : /\ rows[n].claim = c
                                        /\ (rows[n].signals \intersect Shown(g)) \ {<<"mac">>} # {}
          BY <3>2, <4>2, <4>4 DEF InRightWindow
      <4> QED BY <4>1, <4>3, <4>4 DEF InRightWindow
    <3> QED BY <3>1, <3>2
  <2> QED BY <2>1, <2>2 DEF OneWindowPerMachine
<1> QED BY <1>2, <1>3, <1>4, <1>5, <1>6 DEF TrialInv

\* Nothing is asked of a machine that is spoiled.
LEMMA SpoiledStep ==
    ASSUME TrialTypeOK', HandlersStand', spoiled' = Machines
    PROVE  TrialInv'
<1>1. OnlyResetsDelete' /\ OneAtATime' /\ WindowsAreKnown' /\ CreatesTheFirst'
    BY DEF OnlyResetsDelete, OneAtATime, WindowsAreKnown, CreatesTheFirst
<1>2. \A i \in DOMAIN claims' : claims'[i].on # None => claims'[i].on \in spoiled'
  <2>1. \A i \in DOMAIN claims' : claims'[i] \in Claim
      BY DEF TrialTypeOK
  <2> QED BY <2>1 DEF Claim
<1>3. \A h \in Callers : run'[h].at = "record" => MachineOf[run'[h].id] \in spoiled'
    BY LedgerAssumption DEF HandlersStand, Stands, ClaimPlaces
<1> QED BY <1>1, <1>2, <1>3 DEF TrialInv, OneWindowPerMachine

\* A handler that leaves or passes by the claims of trials, and whatever claims
\* come without a MachineGuid meanwhile.
LEMMA AsideStep ==
    ASSUME TrialInv, TrialTypeOK', HandlersStand',
           DOMAIN claims \subseteq DOMAIN claims',
           \A i \in DOMAIN claims :
               /\ claims'[i].on = claims[i].on /\ claims'[i].device = claims[i].device
               /\ claims'[i].owner \in {claims[i].owner, None}
               /\ claims'[i].deleted = claims[i].deleted,
           \A i \in DOMAIN claims' \ DOMAIN claims : ~claims'[i].deleted /\ claims'[i].on = None,
           \A i, j \in DOMAIN claims' \ DOMAIN claims : i = j,
           UNCHANGED <<rows, spoiled>>,
           NEW h,
           \A g \in Callers \ {h} : run'[g] = run[g],
           h \in Callers /\ run'[h] # run[h] =>
               run'[h].at \notin ClaimPlaces \union Clears /\ run[h].at # "record"
    PROVE  TrialInv'
<1>1. \A m \in Machines : h \in Callers /\ run'[h] # run[h] => ~Working(h, m)'
    BY DEF Working
<1>2. "create" \in ClaimPlaces /\ "record" \in ClaimPlaces
    BY DEF ClaimPlaces
<1>3. \A m \in Machines : m # None
    BY LedgerAssumption
<1> QED BY <1>1, <1>2, <1>3, WindowsStep

\* A handler that goes on with its claim, short of recording and of creating.
LEMMA OnwardStep ==
    ASSUME TrialInv, TrialTypeOK', HandlersStand', UNCHANGED <<claims, rows, spoiled>>,
           NEW h \in Callers,
           \A g \in Callers \ {h} : run'[g] = run[g],
           run[h].at \in ClaimPlaces \ {"record"}, run'[h].at \in ClaimPlaces,
           run'[h].id = run[h].id, run'[h].kinds = run[h].kinds,
           run'[h].at = "record" => InRightWindow(h)',
           run'[h].at = "create" /\ "mguid" \in run[h].kinds =>
               \A m \in Machines \ spoiled : MachineOf[run[h].id] = m =>
                   \A i \in DOMAIN claims : claims[i].on # m
    PROVE  TrialInv'
<1>1. \A m \in Machines : Working(h, m)' => Working(h, m)
    BY DEF Working
<1>2. \A m \in Machines \ spoiled : Working(h, m) => \A g \in Callers \ {h} : ~Working(g, m)
    BY DEF TrialInv, OneAtATime
<1>3. run'[h].at \notin Clears
    BY DEF ClaimPlaces, Clears
<1> QED BY <1>1, <1>2, <1>3, WindowsStep

-----------------------------------------------------------------------------
(* Each step keeps the invariant: claimTrial of trial-claim.ts *)

LEMMA ClaimingInv ==
    ASSUME TrialInv, NEW h \in Callers, NEW a \in Accounts, NEW id \in Ids,
           NEW kinds \in Readings, NEW place \in {"signup", "find"},
           Claiming(h, place, a, id, kinds)
    PROVE  TrialInv'
<1>1. /\ TrialTypeOK' /\ HandlersStand'
      /\ \A g \in Callers \ {h} : run'[g] = run[g]
      /\ run'[h].at = place /\ run'[h].id = id /\ run'[h].kinds = kinds
    BY ClaimingType DEF TrialInv
<1>2. UNCHANGED <<claims, rows>> /\ spoiled \subseteq spoiled'
    BY DEF Claiming, ledger
<1>3. run[h].at = "idle"
    BY AtRestType DEF Claiming, Arrives
<1>4. ASSUME NEW m \in Machines \ spoiled', Working(h, m)'
      PROVE  \A g \in Callers \ {h} : ~Working(g, m)
  <2>1. kinds # {} /\ MachineOf[id] = m
      BY <1>1, <1>4 DEF Working
  <2>2. ~Overlaps(h, m)
      BY <1>4, <2>1 DEF Claiming
  <2> QED BY <2>2 DEF Overlaps, Working
<1>5. run'[h].at \notin Clears
    BY <1>1 DEF Clears
<1> QED BY <1>1, <1>2, <1>3, <1>4, <1>5, WindowsStep

LEMMA SignsUpInv == ASSUME TrialInv, NEW h \in Callers, SignsUp(h) PROVE TrialInv'
<1>1. UNCHANGED <<claims, rows, spoiled>> /\ run[h].at \in ClaimPlaces
    BY DEF SignsUp, ledger, ClaimPlaces
<1>2. CASE Moves(h, "find")
  <2>1. /\ run' \in [Callers -> Caller] /\ HandlersStand'
        /\ \A g \in Callers \ {h} : run'[g] = run[g]
        /\ run'[h].at = "find" /\ run'[h].id = run[h].id /\ run'[h].kinds = run[h].kinds
      BY <1>1, <1>2, MovesType DEF TrialInv, ClaimPlaces
  <2>2. TrialTypeOK'
      BY <2>1 DEF TrialInv, TrialTypeOK, SignsUp, ledger, Live
  <2> QED BY <1>1, <2>1, <2>2, OnwardStep DEF SignsUp, ClaimPlaces
<1>3. CASE Finishes(h)
  <2>1. /\ run' \in [Callers -> Caller] /\ HandlersStand'
        /\ \A g \in Callers \ {h} : run'[g] = run[g]
        /\ run'[h].at = "idle"
      BY <1>1, <1>3, FinishesType DEF TrialInv
  <2>2. TrialTypeOK'
      BY <2>1 DEF TrialInv, TrialTypeOK, SignsUp, ledger, Live
  <2> QED BY <1>1, <2>1, <2>2, AsideStep DEF SignsUp, ClaimPlaces, Clears
<1> QED BY <1>2, <1>3 DEF SignsUp

\* What findClaim finds is the account's, or the device's.
LEMMA ReturnsInv ==
    ASSUME TrialInv, NEW h \in Callers, run[h].at \in ClaimPlaces \ {"record"},
           NEW c \in Live, c \in 0 .. MaxClaims,
           claims[c].owner = run[h].a \/ claims[c].device = run[h].id,
           Returns(h, c), UNCHANGED <<ledger, people, purchase, calls, spoiled>>
    PROVE  TrialInv'
<1>1. c \in DOMAIN claims' /\ UNCHANGED <<claims, rows, spoiled>>
    BY DEF Live, ledger
<1>2. /\ run' \in [Callers -> Caller] /\ HandlersStand'
      /\ \A g \in Callers \ {h} : run'[g] = run[g]
      /\ \/ run'[h].at = "idle" /\ run[h].kinds = {}
         \/ /\ run'[h].at = "record" /\ run'[h].c = c
            /\ run'[h].a = run[h].a /\ run'[h].id = run[h].id /\ run'[h].kinds = run[h].kinds
    BY <1>1, ReturnsStep DEF TrialInv
<1>3. TrialTypeOK'
    BY <1>2 DEF TrialInv, TrialTypeOK, ledger, people, Live
<1>4. CASE run'[h].at = "idle"
    BY <1>1, <1>2, <1>3, <1>4, AsideStep DEF ClaimPlaces, Clears
<1>5. CASE run'[h].at = "record" /\ run'[h].c = c
            /\ run'[h].a = run[h].a /\ run'[h].id = run[h].id /\ run'[h].kinds = run[h].kinds
  <2>1. InRightWindow(h)'
      BY <1>1, <1>5 DEF InRightWindow
  <2> QED BY <1>1, <1>2, <1>3, <1>5, <2>1, OnwardStep DEF ClaimPlaces
<1> QED BY <1>2, <1>4, <1>5

LEMMA FindsInv == ASSUME TrialInv, NEW h \in Callers, Finds(h) PROVE TrialInv'
<1> DEFINE c == FindClaim(run[h].id, run[h].a)
<1>1. UNCHANGED <<claims, rows, spoiled>> /\ run[h].at = "find" /\ run[h].at \in ClaimPlaces
    BY DEF Finds, ledger, ClaimPlaces
<1>2. CASE c # 0
  <2>1. /\ c \in Live /\ c \in 1 .. MaxClaims
        /\ claims[c].owner = run[h].a \/ claims[c].device = run[h].id
    <3>1. TrialTypeOK
        BY DEF TrialInv
    <3> QED BY <1>2, <3>1, FindClaimFinds
  <2>2. c \in 0 .. MaxClaims
      BY <2>1, LedgerAssumption
  <2>3. Returns(h, c)
      BY <1>2 DEF Finds
  <2> HIDE DEF c
  <2> QED BY <1>1, <2>1, <2>2, <2>3, ReturnsInv DEF Finds
<1>3. CASE c = 0
  <2> DEFINE place == IF run[h].kinds # {} THEN "match" ELSE "create"
  <2>1. Moves(h, place)
      BY <1>3 DEF Finds
  <2>2. /\ run' \in [Callers -> Caller] /\ HandlersStand'
        /\ \A g \in Callers \ {h} : run'[g] = run[g]
        /\ run'[h].at = place /\ run'[h].id = run[h].id /\ run'[h].kinds = run[h].kinds
      BY <1>1, <2>1, MovesType DEF TrialInv, ClaimPlaces
  <2>3. TrialTypeOK'
      BY <2>2 DEF TrialInv, TrialTypeOK, Finds, ledger, people, Live
  <2>4. place \in ClaimPlaces /\ place # "record" /\ (place = "create" => run[h].kinds = {})
      BY DEF ClaimPlaces
  <2> HIDE DEF place
  <2> QED BY <1>1, <2>2, <2>3, <2>4, OnwardStep
<1> QED BY <1>2, <1>3

LEMMA ReadsWinnerInv == ASSUME TrialInv, NEW h \in Callers, ReadsWinner(h) PROVE TrialInv'
<1> DEFINE c == FindClaim(run[h].id, run[h].a)
<1>1. UNCHANGED <<claims, rows, spoiled>> /\ run[h].at = "winner" /\ run[h].at \in ClaimPlaces
    BY DEF ReadsWinner, ledger, ClaimPlaces
<1>2. CASE c # 0
  <2>1. /\ c \in Live /\ c \in 1 .. MaxClaims
        /\ claims[c].owner = run[h].a \/ claims[c].device = run[h].id
    <3>1. TrialTypeOK
        BY DEF TrialInv
    <3> QED BY <1>2, <3>1, FindClaimFinds
  <2>2. c \in 0 .. MaxClaims
      BY <2>1, LedgerAssumption
  <2>3. Returns(h, c)
      BY <1>2 DEF ReadsWinner
  <2> HIDE DEF c
  <2> QED BY <1>1, <2>1, <2>2, <2>3, ReturnsInv DEF ReadsWinner
<1>3. CASE c = 0
  <2>1. Finishes(h)
      BY <1>3 DEF ReadsWinner
  <2>2. /\ run' \in [Callers -> Caller] /\ HandlersStand'
        /\ \A g \in Callers \ {h} : run'[g] = run[g]
        /\ run'[h].at = "idle"
      BY <1>1, <2>1, FinishesType DEF TrialInv
  <2>3. TrialTypeOK'
      BY <2>2 DEF TrialInv, TrialTypeOK, ReadsWinner, ledger, people, Live
  <2> QED BY <1>1, <2>2, <2>3, AsideStep DEF ClaimPlaces, Clears
<1> QED BY <1>2, <1>3

\* Recognised hardware leads to a claim that lives on, unless a reset spoiled the
\* machines; and on a machine that is not spoiled, unrecognised hardware has begun
\* no window.
LEMMA MatchesInv == ASSUME TrialInv, NEW h \in Callers, Matches(h) PROVE TrialInv'
<1> DEFINE m == MachineOf[run[h].id]
           kinds == run[h].kinds
           c == Match(Signals(kinds, m))
<1>1. UNCHANGED <<claims, rows, spoiled>> /\ run[h].at = "match" /\ run[h].at \in ClaimPlaces
    BY DEF Matches, ledger, ClaimPlaces
<1>2. kinds \in Readings /\ m \in Machines /\ kinds # {} /\ TrialTypeOK
  <2>1. run[h] \in Caller /\ run[h].id \in Ids /\ kinds # {} /\ TrialTypeOK
      BY <1>1 DEF TrialInv, TrialTypeOK, HandlersStand, Stands
  <2> QED BY <2>1, LedgerAssumption DEF Caller
<1>3. c = Match(Shown(h))
    BY DEF Shown
<1>4. CASE c \in Live
  <2>1. c \in DOMAIN claims /\ Recognises(c, Signals(kinds, m))
    <3>1. c # 0
        BY <1>2, <1>4 DEF Live, TrialTypeOK
    <3> QED BY <1>2, <3>1, MatchRecognises
  <2>2. c \in 0 .. MaxClaims
      BY <1>2, <2>1, LedgerAssumption DEF TrialTypeOK
  <2>3. Takes(h, "record", c) /\ "record" \in TrialPlaces
      BY <1>3, <1>4 DEF Matches, TrialPlaces, ClaimPlaces
  <2>4. /\ run' \in [Callers -> Caller]
        /\ \A g \in Callers \ {h} : run'[g] = run[g]
        /\ run'[h].at = "record" /\ run'[h].a = run[h].a /\ run'[h].id = run[h].id
        /\ run'[h].kinds = kinds /\ run'[h].c = c
    <3> HIDE DEF c, kinds
    <3>1. run \in [Callers -> Caller]
        BY <1>2 DEF TrialTypeOK
    <3> QED BY <2>2, <2>3, <3>1, TakesStep DEF kinds
  <2>5. Stands(h)'
      BY <1>1, <1>2, <2>1, <2>4 DEF TrialInv, HandlersStand, Stands, ClaimPlaces, Transacts
  <2>6. HandlersStand'
      BY <1>1, <2>4, <2>5, OthersStand DEF TrialInv
  <2>7. TrialTypeOK'
      BY <1>2, <2>4 DEF TrialTypeOK, Matches, ledger, people, Live
  <2>8. InRightWindow(h)'
    <3>1. PICK n \in Seen(c, Signals(kinds, m)) :
              (rows[n].signals \intersect Signals(kinds, m)) \ {<<"mac">>} # {}
        BY <1>2, <2>1, RecognisedIsSeen
    <3>2. n \in DOMAIN rows /\ rows[n].claim = c
        BY <3>1 DEF Seen
    <3>3. Shown(h)' = Signals(kinds, m)
        BY <2>4 DEF Shown
    <3> HIDE DEF c, kinds, m
    <3> QED BY <1>1, <2>4, <3>1, <3>2, <3>3 DEF InRightWindow
  <2> QED BY <1>1, <2>4, <2>6, <2>7, <2>8, OnwardStep DEF ClaimPlaces
<1>5. CASE c \notin Live
  <2>1. Moves(h, "create")
      BY <1>3, <1>5 DEF Matches
  <2>2. /\ run' \in [Callers -> Caller] /\ HandlersStand'
        /\ \A g \in Callers \ {h} : run'[g] = run[g]
        /\ run'[h].at = "create" /\ run'[h].id = run[h].id /\ run'[h].kinds = run[h].kinds
      BY <1>1, <2>1, MovesType DEF TrialInv, ClaimPlaces
  <2>3. TrialTypeOK'
      BY <1>2, <2>2 DEF TrialTypeOK, Matches, ledger, people, Live
  <2>4. ASSUME "mguid" \in kinds, m \notin spoiled, NEW i \in DOMAIN claims, claims[i].on = m
        PROVE  FALSE
    <3>1. Working(h, m)
        BY <1>1, <1>2 DEF Working
    <3>2. ~InHand(i, m)
      <4> SUFFICES ASSUME NEW g \in Callers, run[g].at = "record", "mguid" \in run[g].kinds,
                          MachineOf[run[g].id] = m
                   PROVE  FALSE
          BY DEF InHand
      <4>1. Working(g, m)
          BY DEF Working, ClaimPlaces
      <4>2. g = h
          BY <1>2, <2>4, <3>1, <4>1 DEF TrialInv, OneAtATime
      <4> QED BY <1>1, <4>2
    <3>3. Recorded(i, m)
        BY <1>2, <2>4, <3>2 DEF TrialInv, WindowsAreKnown
    <3>4. Recognises(i, Signals(kinds, m))
      <4>1. PICK n \in DOMAIN rows : rows[n].claim = i /\ <<"mguid", m>> \in rows[n].signals
          BY <3>3 DEF Recorded
      <4> HIDE DEF kinds, m
      <4> QED BY <1>2, <2>4, <4>1, GuidRecognises
    <3>5. c \in DOMAIN claims
        BY <1>2, <3>4, MatchRecognises
    <3>6. claims[c].deleted
        BY <1>5, <3>5 DEF Live
    <3>7. spoiled = Machines
        BY <3>5, <3>6 DEF TrialInv, OnlyResetsDelete
    <3> QED BY <1>2, <2>4, <3>7
  <2> QED BY <1>1, <2>2, <2>3, <2>4, OnwardStep DEF ClaimPlaces
<1> QED BY <1>4, <1>5

LEMMA CreatesClaimInv == ASSUME TrialInv, NEW h \in Callers, CreatesClaim(h) PROVE TrialInv'
<1>1. UNCHANGED <<rows, spoiled>> /\ run[h].at = "create" /\ run[h].at \in ClaimPlaces
    BY DEF CreatesClaim, ledger, ClaimPlaces
<1>2. CASE Moves(h, "winner") /\ UNCHANGED claims
  <2>1. /\ run' \in [Callers -> Caller] /\ HandlersStand'
        /\ \A g \in Callers \ {h} : run'[g] = run[g]
        /\ run'[h].at = "winner" /\ run'[h].id = run[h].id /\ run'[h].kinds = run[h].kinds
      BY <1>1, <1>2, MovesType DEF TrialInv, ClaimPlaces
  <2>2. TrialTypeOK'
      BY <1>2, <2>1 DEF TrialInv, TrialTypeOK, CreatesClaim, people, Live
  <2> QED BY <1>1, <1>2, <2>1, <2>2, OnwardStep DEF ClaimPlaces
<1>3. ASSUME ~Taken(run[h].id), Len(claims) < MaxClaims, NEW ends \in Dates,
             claims' = Append(claims, [device |-> run[h].id, apple |-> None, owner |-> run[h].a,
                                       ends |-> ends, deleted |-> FALSE,
                                       on |-> IF "mguid" \in run[h].kinds
                                              THEN MachineOf[run[h].id] ELSE None]),
             Returns(h, Len(claims'))
      PROVE  TrialInv'
  <2> DEFINE m == IF "mguid" \in run[h].kinds THEN MachineOf[run[h].id] ELSE None
             new == [device |-> run[h].id, apple |-> None, owner |-> run[h].a,
                     ends |-> ends, deleted |-> FALSE, on |-> m]
  <2> PICK i : i = Len(claims')
      OBVIOUS
  <2>1. TrialTypeOK /\ run[h].id \in Ids /\ run[h].a \in Accounts
      BY <1>1 DEF TrialInv, HandlersStand, Stands, ClaimPlaces
  <2>2. new \in Claim /\ new.device = run[h].id /\ new.owner = run[h].a /\ new.on = m /\ ~new.deleted
      BY <2>1, LedgerAssumption DEF Claim
  <2>3. claims' = Append(claims, new)
      BY <1>3
  <2>4. /\ claims' \in Seq(Claim) /\ Len(claims') <= MaxClaims
        /\ DOMAIN claims' = DOMAIN claims \union {i}
        /\ i \notin DOMAIN claims /\ i \in 1 .. MaxClaims
        /\ \A j \in DOMAIN claims : claims'[j] = claims[j]
        /\ claims'[i] = new
        /\ \A j, k \in Live' : claims'[j].device = claims'[k].device => j = k
    <3> HIDE DEF new
    <3> QED BY <1>3, <2>1, <2>2, <2>3, AppendClaim
  <2>5. i \in DOMAIN claims' /\ i \in 0 .. MaxClaims
    <3> HIDE DEF new
    <3> QED BY <2>4, LedgerAssumption
  <2>6. /\ run' \in [Callers -> Caller] /\ HandlersStand'
        /\ \A g \in Callers \ {h} : run'[g] = run[g]
        /\ \/ run'[h].at = "idle" /\ run[h].kinds = {}
           \/ /\ run'[h].at = "record" /\ run'[h].c = i
              /\ run'[h].a = run[h].a /\ run'[h].id = run[h].id /\ run'[h].kinds = run[h].kinds
    <3> HIDE DEF new
    <3> QED BY <1>1, <1>3, <2>1, <2>4, <2>5, ReturnsStep DEF TrialInv
  <2>7. TrialTypeOK'
    <3> HIDE DEF new, m
    <3>1. \A n \in DOMAIN rows : rows[n].claim \in DOMAIN claims'
        BY <2>1, <2>4 DEF TrialTypeOK
    <3> QED BY <1>1, <2>1, <2>4, <2>6, <3>1 DEF TrialTypeOK, CreatesClaim, people
  <2>8. CASE run'[h].at = "idle" /\ run[h].kinds = {}
    <3>1. new.on = None
        BY <2>2, <2>8
    <3> HIDE DEF new, m
    <3>2. \A j \in DOMAIN claims' \ DOMAIN claims : j = i
        BY <2>4
    <3>3. run'[h].at \notin ClaimPlaces \union Clears
        BY <2>8 DEF ClaimPlaces, Clears
    <3> QED BY <1>1, <2>2, <2>4, <2>6, <2>7, <3>1, <3>2, <3>3, AsideStep
  <2>9. CASE /\ run'[h].at = "record" /\ run'[h].c = i
             /\ run'[h].a = run[h].a /\ run'[h].id = run[h].id /\ run'[h].kinds = run[h].kinds
    <3>1. \A k \in Machines : (Working(h, k)' <=> Working(h, k))
        BY <1>1, <2>9 DEF Working, ClaimPlaces
    <3>2. \A k \in Machines \ spoiled : Working(h, k) => \A g \in Callers \ {h} : ~Working(g, k)
        BY DEF TrialInv, OneAtATime
    <3>3. InRightWindow(h)'
      <4> HIDE DEF new
      <4>1. claims'[run'[h].c].owner = run'[h].a
          BY <2>2, <2>4, <2>9
      <4> QED BY <4>1 DEF InRightWindow
    <3>4. ASSUME NEW k \in Machines \ spoiled, new.on = k
          PROVE  /\ Working(h, k)' /\ InHand(i, k)'
                 /\ \A j \in DOMAIN claims : claims[j].on # k
      <4>1. "mguid" \in run[h].kinds /\ MachineOf[run[h].id] = k
          BY <2>2, <3>4, LedgerAssumption
      <4> HIDE DEF new, m
      <4>2. Working(h, k)'
          BY <2>9, <4>1 DEF Working, ClaimPlaces
      <4>3. InHand(i, k)'
          BY <2>9, <4>1 DEF InHand
      <4>4. \A j \in DOMAIN claims : claims[j].on # k
          BY <1>1, <4>1 DEF TrialInv, CreatesTheFirst
      <4> QED BY <4>2, <4>3, <4>4
    <3> HIDE DEF new, m
    <3>5. \A j \in DOMAIN claims' \ DOMAIN claims : j = i
        BY <2>4
    <3>6. run'[h].at \notin Clears /\ run'[h] # run[h]
        BY <1>1, <2>9 DEF Clears
    <3> QED BY <1>1, <2>2, <2>4, <2>6, <2>7, <2>9, <3>1, <3>2, <3>3, <3>4, <3>5, <3>6, WindowsStep
  <2> QED BY <2>6, <2>8, <2>9
<1> QED BY <1>2, <1>3 DEF CreatesClaim

\* A MachineGuid that is shown and not lost is in some row of the claim afterwards.
LEMMA RecordsInv == ASSUME TrialInv, NEW h \in Callers, Records(h) PROVE TrialInv'
<1> DEFINE m == MachineOf[run[h].id]
           c == run[h].c
<1>1. /\ UNCHANGED <<claims, people, purchase, calls>> /\ Finishes(h)
      /\ run[h].at = "record" /\ run[h].at \in ClaimPlaces
    BY DEF Records, ClaimPlaces
<1>2. TrialTypeOK /\ run[h] \in Caller /\ m \in Machines /\ c \in DOMAIN claims
  <2>1. TrialTypeOK /\ run[h] \in Caller /\ run[h].id \in Ids /\ c \in DOMAIN claims
      BY <1>1 DEF TrialInv, TrialTypeOK, HandlersStand, Stands
  <2> QED BY <2>1, LedgerAssumption
<1>3. PICK kinds \in SUBSET run[h].kinds :
          LET new == Signals(kinds, m) \ UNION {rows[n].signals : n \in Seen(c, Shown(h))}
          IN /\ rows' = IF new = {} THEN rows ELSE Append(rows, [claim |-> c, signals |-> new])
             /\ spoiled' = IF "mguid" \in run[h].kinds \ kinds THEN spoiled \union {m} ELSE spoiled
    BY DEF Records
<1> DEFINE new == Signals(kinds, m) \ UNION {rows[n].signals : n \in Seen(c, Shown(h))}
<1>4. kinds \subseteq Kinds
    BY <1>2 DEF Caller, Readings, Kinds
<1>5. [claim |-> c, signals |-> new] \in Recording
  <2>1. Signals(kinds, m) \subseteq Signals(Kinds, m)
      BY <1>4 DEF Signals
  <2>2. c \in Nat
      BY <1>2 DEF TrialTypeOK
  <2>3. new \in SUBSET UNION {Signals(Kinds, k) : k \in Machines}
      BY <1>2, <2>1
  <2> HIDE DEF new
  <2> QED BY <2>2, <2>3 DEF Recording
<1>6. /\ rows' \in Seq(Recording) /\ \A n \in DOMAIN rows' : rows'[n].claim \in DOMAIN claims
      /\ \A n \in DOMAIN rows : n \in DOMAIN rows' /\ rows'[n] = rows[n]
      /\ new # {} => \E n \in DOMAIN rows' : rows'[n] = [claim |-> c, signals |-> new]
  <2>1. CASE new = {}
      BY <1>2, <1>3, <2>1 DEF TrialTypeOK
  <2>2. CASE new # {}
    <3>1. rows' = Append(rows, [claim |-> c, signals |-> new])
        BY <1>3, <2>2
    <3>2. rows \in Seq(Recording) /\ \A n \in DOMAIN rows : rows[n].claim \in DOMAIN claims
        BY <1>2 DEF TrialTypeOK
    <3> DEFINE row == [claim |-> c, signals |-> new]
    <3>3. row.claim = c /\ row \in Recording /\ rows' = Append(rows, row)
        BY <1>5, <3>1
    <3> HIDE DEF row
    <3>4. /\ rows' \in Seq(Recording) /\ DOMAIN rows' = DOMAIN rows \union {Len(rows) + 1}
          /\ \A n \in DOMAIN rows : rows'[n] = rows[n]
          /\ rows'[Len(rows) + 1] = row
        BY <3>2, <3>3
    <3> QED BY <1>2, <3>2, <3>3, <3>4 DEF row
  <2> QED BY <2>1, <2>2
<1>7. ASSUME "mguid" \in run[h].kinds, m \notin spoiled'
      PROVE  \E n \in DOMAIN rows' : rows'[n].claim = c /\ <<"mguid", m>> \in rows'[n].signals
  <2>1. "mguid" \in kinds
      BY <1>3, <1>7
  <2>2. <<"mguid", m>> \in Signals(kinds, m)
      BY <2>1 DEF Signals, Signal
  <2>3. CASE <<"mguid", m>> \in new
    <3>1. PICK n \in DOMAIN rows' : rows'[n] = [claim |-> c, signals |-> new]
        BY <1>6, <2>3
    <3> HIDE DEF new
    <3> QED BY <2>3, <3>1
  <2>4. CASE <<"mguid", m>> \notin new
    <3>1. PICK n \in Seen(c, Shown(h)) : <<"mguid", m>> \in rows[n].signals
        BY <2>2, <2>4
    <3>2. n \in DOMAIN rows /\ rows[n].claim = c
        BY <3>1 DEF Seen
    <3> QED BY <1>6, <3>1, <3>2
  <2> QED BY <2>3, <2>4
<1>8. /\ run' \in [Callers -> Caller] /\ HandlersStand'
      /\ \A g \in Callers \ {h} : run'[g] = run[g]
      /\ run'[h].at = "idle"
    BY <1>1, FinishesType DEF TrialInv
<1>9. spoiled \subseteq spoiled' /\ spoiled' \subseteq Machines
    BY <1>2, <1>3 DEF TrialTypeOK
<1>10. TrialTypeOK'
  <2> HIDE DEF m, c, new
  <2> QED BY <1>1, <1>2, <1>6, <1>8, <1>9 DEF TrialTypeOK, people, Live
<1>11. ASSUME NEW k \in Machines \ spoiled', "mguid" \in run[h].kinds, m = k
       PROVE  \A i \in DOMAIN claims : run[h].c = i => Recorded(i, k)'
  <2>1. \E n \in DOMAIN rows' : rows'[n].claim = c /\ <<"mguid", k>> \in rows'[n].signals
      BY <1>7, <1>11
  <2> QED BY <2>1 DEF Recorded
<1>12. \A k \in Machines : ~Working(h, k)'
    BY <1>8 DEF Working, ClaimPlaces
<1>13. run'[h].at \notin Clears
    BY <1>8 DEF Clears
<1> QED BY <1>1, <1>6, <1>8, <1>9, <1>10, <1>11, <1>12, <1>13, WindowsStep

LEMMA AbandonsInv == ASSUME TrialInv, NEW h \in Callers, Abandons(h) PROVE TrialInv'
<1>1. /\ UNCHANGED <<claims, rows, people, purchase, calls>> /\ Finishes(h)
      /\ run[h].at # "idle"
    BY DEF Abandons, ledger
<1>2. TrialTypeOK
    BY DEF TrialInv
<1>3. /\ run' \in [Callers -> Caller] /\ HandlersStand'
      /\ \A g \in Callers \ {h} : run'[g] = run[g]
      /\ run'[h].at = "idle"
    BY <1>1, FinishesType DEF TrialInv
<1>4. spoiled \subseteq spoiled' /\ spoiled' \subseteq Machines
  <2>1. run[h].at = "record" => MachineOf[run[h].id] \in Machines
      BY LedgerAssumption DEF TrialInv, HandlersStand, Stands, ClaimPlaces
  <2> QED BY <1>2, <2>1 DEF Abandons, TrialTypeOK
<1>5. TrialTypeOK'
    BY <1>1, <1>2, <1>3, <1>4 DEF TrialTypeOK, people, Live
<1>6. run[h].at = "record" /\ "mguid" \in run[h].kinds => MachineOf[run[h].id] \in spoiled'
    BY DEF Abandons
<1>7. \A k \in Machines : ~Working(h, k)'
    BY <1>3 DEF Working, ClaimPlaces
<1>8. run'[h].at \notin Clears
    BY <1>3 DEF Clears
<1> QED BY <1>1, <1>3, <1>4, <1>5, <1>6, <1>7, <1>8, WindowsStep

-----------------------------------------------------------------------------
(* Claims that come without hardware: the card's and Apple's *)

LEMMA CardTrialInv ==
    ASSUME TrialInv, NEW a \in Accounts, NEW id \in Ids, CardTrial(a, id)
    PROVE  TrialInv'
<1>1. PICK ends \in Dates :
          claims' = Append(claims, [device |-> id, apple |-> None, owner |-> a, ends |-> ends,
                                    deleted |-> FALSE, on |-> None])
    BY DEF CardTrial
<1> DEFINE new == [device |-> id, apple |-> None, owner |-> a, ends |-> ends,
                   deleted |-> FALSE, on |-> None]
<1>2. new \in Claim /\ new.device = id /\ new.on = None /\ ~new.deleted
    BY DEF Claim
<1>3. /\ TrialTypeOK /\ ~Taken(id) /\ Len(claims) < MaxClaims
      /\ UNCHANGED <<rows, people, purchase, run, spoiled>>
    BY DEF CardTrial, TrialInv
<1>4. calls' \in 0 .. MaxCalls
    BY LedgerAssumption DEF CardTrial, TrialInv, TrialTypeOK
<1> HIDE DEF new
<1>5. /\ claims' \in Seq(Claim) /\ Len(claims') <= MaxClaims
      /\ DOMAIN claims' = DOMAIN claims \union {Len(claims')}
      /\ Len(claims') \notin DOMAIN claims
      /\ \A j \in DOMAIN claims : claims'[j] = claims[j]
      /\ claims'[Len(claims')] = new
      /\ \A j, k \in Live' : claims'[j].device = claims'[k].device => j = k
    BY <1>1, <1>2, <1>3, AppendClaim DEF new
<1>6. TrialTypeOK'
  <2>1. \A n \in DOMAIN rows : rows[n].claim \in DOMAIN claims'
      BY <1>3, <1>5 DEF TrialTypeOK
  <2> QED BY <1>3, <1>4, <1>5, <2>1 DEF TrialTypeOK, people
<1>7. HandlersStand'
    BY <1>3, <1>5 DEF TrialInv, HandlersStand, Stands
<1>8. \A j \in DOMAIN claims' \ DOMAIN claims : j = Len(claims')
    BY <1>5
<1> QED BY <1>2, <1>3, <1>5, <1>6, <1>7, <1>8, AsideStep

LEMMA PostTrialInv ==
    ASSUME TrialInv, NEW h \in Callers, NEW a \in Accounts, NEW x \in Apples,
           NEW id \in Ids \union {x}, PostTrial(h, a, id, x)
    PROVE  TrialInv'
<1> DEFINE fields == [AtRest EXCEPT !.at = "apple", !.a = a, !.apple = x, !.id = id]
<1>1. /\ fields \in Caller /\ fields.at = "apple" /\ fields.a = a /\ fields.id = id /\ fields.apple = x
    BY AtRestType DEF Caller, TrialPlaces, Transacts
<1>2. Arrives(h, fields) /\ UNCHANGED <<claims, rows, people, purchase, spoiled>>
    BY DEF PostTrial, ledger
<1>3. run[h].at = "idle" /\ TrialTypeOK
    BY <1>2, AtRestType DEF Arrives, TrialInv
<1> HIDE DEF fields
<1>4. fields.at \notin ClaimPlaces \union Clears
    BY <1>1 DEF ClaimPlaces, Clears
<1>5. /\ run' \in [Callers -> Caller] /\ calls' \in 0 .. MaxCalls /\ HandlersStand'
      /\ \A g \in Callers \ {h} : run'[g] = run[g]
      /\ run'[h] = fields
    BY <1>1, <1>2, <1>4, ArrivalType DEF TrialInv
<1>6. TrialTypeOK'
    BY <1>2, <1>3, <1>5 DEF TrialTypeOK, people, Live
<1> QED BY <1>2, <1>3, <1>4, <1>5, <1>6, AsideStep

\* A step of a transaction, or of the purchase, that leaves the ledger alone.
LEMMA AsideWithin ==
    ASSUME TrialInv, NEW h \in Callers, UNCHANGED <<claims, rows, spoiled>>,
           run[h].at \notin ClaimPlaces \union Clears,
           run' \in [Callers -> Caller], HandlersStand',
           \A g \in Callers \ {h} : run'[g] = run[g],
           run'[h].at \notin ClaimPlaces \union Clears,
           account' \in [Accounts -> {"no", "here", "gone"}],
           stamp' \in [Accounts -> Dates \union {0}],
           purchase' \in Accounts \union {None},
           calls' \in 0 .. MaxCalls, parting' \subseteq Accounts
    PROVE  TrialInv'
<1>1. TrialTypeOK'
    BY DEF TrialInv, TrialTypeOK, Live
<1>2. run[h].at # "record"
    BY DEF ClaimPlaces
<1> QED BY <1>1, <1>2, AsideStep

LEMMA AppleLooksInv == ASSUME TrialInv, NEW h \in Callers, AppleLooks(h) PROVE TrialInv'
<1> DEFINE place == IF \E i \in Live : claims[i].apple = run[h].apple THEN "govern" ELSE "applecreate"
<1>1. /\ Moves(h, place) /\ UNCHANGED <<claims, rows, people, purchase, calls, spoiled>>
      /\ run[h].at = "apple"
    BY DEF AppleLooks, ledger
<1>2. place \in {"govern", "applecreate"}
    OBVIOUS
<1> HIDE DEF place
<1>3. /\ run[h].at \in Transacts /\ run[h].at \notin ClaimPlaces \union Clears
      /\ place \in Transacts \ {"stamp"} /\ place \notin ClaimPlaces \union Clears
    BY <1>1, <1>2 DEF Transacts, ClaimPlaces, Clears
<1>4. /\ run' \in [Callers -> Caller] /\ HandlersStand'
      /\ \A g \in Callers \ {h} : run'[g] = run[g]
      /\ run'[h].at = place
    BY <1>1, <1>3, MovesType DEF TrialInv
<1> QED BY <1>1, <1>3, <1>4, AsideWithin DEF TrialInv, TrialTypeOK, people

LEMMA AppleCreatesInv == ASSUME TrialInv, NEW h \in Callers, AppleCreates(h) PROVE TrialInv'
<1>1. /\ Moves(h, "govern") /\ UNCHANGED <<rows, people, purchase, calls, spoiled>>
      /\ run[h].at = "applecreate" /\ TrialTypeOK
    BY DEF AppleCreates, TrialInv
<1>2. /\ run[h].at \in Transacts /\ run[h].at \notin ClaimPlaces \union Clears
      /\ "govern" \in Transacts \ {"stamp"} /\ "govern" \notin ClaimPlaces \union Clears
    BY <1>1 DEF Transacts, ClaimPlaces, Clears
<1>3. CASE UNCHANGED claims
  <2>1. /\ run' \in [Callers -> Caller] /\ HandlersStand'
        /\ \A g \in Callers \ {h} : run'[g] = run[g]
        /\ run'[h].at = "govern"
      BY <1>1, <1>2, <1>3, MovesType DEF TrialInv
  <2> QED BY <1>1, <1>2, <1>3, <2>1, AsideWithin DEF TrialTypeOK, people
<1>4. ASSUME ~Taken(run[h].id), Len(claims) < MaxClaims, NEW ends \in Dates,
             claims' = Append(claims, [device |-> run[h].id, apple |-> run[h].apple,
                                       owner |-> run[h].a, ends |-> ends, deleted |-> FALSE,
                                       on |-> None])
      PROVE  TrialInv'
  <2> DEFINE new == [device |-> run[h].id, apple |-> run[h].apple, owner |-> run[h].a,
                     ends |-> ends, deleted |-> FALSE, on |-> None]
  <2>1. run[h].id \in Ids \union Apples /\ run[h].a \in Accounts /\ run[h].apple \in Apples
      BY <1>1, <1>2 DEF TrialInv, HandlersStand, Stands
  <2>2. new \in Claim /\ new.device = run[h].id /\ new.on = None /\ ~new.deleted
      BY <2>1 DEF Claim
  <2> HIDE DEF new
  <2>3. /\ claims' \in Seq(Claim) /\ Len(claims') <= MaxClaims
        /\ DOMAIN claims' = DOMAIN claims \union {Len(claims')}
        /\ Len(claims') \notin DOMAIN claims
        /\ \A j \in DOMAIN claims : claims'[j] = claims[j]
        /\ claims'[Len(claims')] = new
        /\ \A j, k \in Live' : claims'[j].device = claims'[k].device => j = k
      BY <1>1, <1>4, <2>2, AppendClaim DEF new
  <2>4. /\ run' \in [Callers -> Caller] /\ HandlersStand'
        /\ \A g \in Callers \ {h} : run'[g] = run[g]
        /\ run'[h].at = "govern"
      BY <1>1, <1>2, <2>3, MovesType DEF TrialInv
  <2>5. TrialTypeOK'
    <3>1. \A n \in DOMAIN rows : rows[n].claim \in DOMAIN claims'
        BY <1>1, <2>3 DEF TrialTypeOK
    <3> QED BY <1>1, <2>3, <2>4, <3>1 DEF TrialTypeOK, people
  <2>6. \A j \in DOMAIN claims' \ DOMAIN claims : j = Len(claims')
      BY <2>3
  <2> QED BY <1>1, <1>2, <2>2, <2>3, <2>4, <2>5, <2>6, AsideStep
<1> QED BY <1>3, <1>4 DEF AppleCreates

LEMMA GovernsInv == ASSUME TrialInv, NEW h \in Callers, Governs(h) PROVE TrialInv'
<1> DEFINE S == {i \in Live : \/ claims[i].apple = run[h].apple
                              \/ claims[i].device = run[h].id
                              \/ claims[i].owner = run[h].a}
           c == Oldest(S)
<1>1. /\ UNCHANGED <<claims, rows, people, purchase, calls, spoiled>>
      /\ run[h].at = "govern" /\ TrialTypeOK
      /\ IF c # 0 THEN Takes(h, "stamp", c) ELSE Finishes(h)
    BY DEF Governs, ledger, TrialInv
<1>2. run[h].at \notin ClaimPlaces \union Clears /\ run[h].at \in Transacts
    BY <1>1 DEF ClaimPlaces, Clears, Transacts
<1>3. S \subseteq DOMAIN claims /\ S \subseteq Nat \ {0} /\ DOMAIN claims \subseteq 0 .. MaxClaims
    BY <1>1, LedgerAssumption DEF Live, TrialTypeOK
<1> HIDE DEF S
<1>4. CASE c # 0
  <2>1. c \in S
      BY <1>3, <1>4, OldestIsOne
  <2>2. c \in 0 .. MaxClaims /\ c \in DOMAIN claims
      BY <1>3, <2>1
  <2> HIDE DEF c
  <2>3. /\ run' \in [Callers -> Caller]
        /\ \A g \in Callers \ {h} : run'[g] = run[g]
        /\ run'[h].at = "stamp" /\ run'[h].a = run[h].a /\ run'[h].id = run[h].id
        /\ run'[h].apple = run[h].apple /\ run'[h].c = c
    <3>1. "stamp" \in TrialPlaces
        BY DEF TrialPlaces, Transacts
    <3> QED BY <1>1, <1>4, <2>2, <3>1, TakesStep DEF TrialTypeOK
  <2>4. Stands(h)'
      BY <1>1, <1>2, <2>2, <2>3 DEF TrialInv, HandlersStand, Stands, ClaimPlaces
  <2>5. HandlersStand'
      BY <1>1, <2>3, <2>4, OthersStand DEF TrialInv
  <2>6. run'[h].at \notin ClaimPlaces \union Clears
      BY <2>3 DEF ClaimPlaces, Clears
  <2> QED BY <1>1, <1>2, <2>3, <2>5, <2>6, AsideWithin DEF TrialTypeOK, people
<1>5. CASE c = 0
  <2>1. /\ run' \in [Callers -> Caller] /\ HandlersStand'
        /\ \A g \in Callers \ {h} : run'[g] = run[g]
        /\ run'[h].at = "idle"
      BY <1>1, <1>5, FinishesType DEF TrialInv
  <2>2. run'[h].at \notin ClaimPlaces \union Clears
      BY <2>1 DEF ClaimPlaces, Clears
  <2> QED BY <1>1, <1>2, <2>1, <2>2, AsideWithin DEF TrialTypeOK, people
<1> QED BY <1>4, <1>5

LEMMA StampsInv == ASSUME TrialInv, NEW h \in Callers, Stamps(h) PROVE TrialInv'
<1>1. /\ UNCHANGED <<claims, rows, account, parting, purchase, calls, spoiled>> /\ Finishes(h)
      /\ run[h].at = "stamp" /\ TrialTypeOK
    BY DEF Stamps, ledger, TrialInv
<1>2. run[h].at \notin ClaimPlaces \union Clears
    BY <1>1 DEF ClaimPlaces, Clears
<1>3. stamp' \in [Accounts -> Dates \union {0}]
  <2>1. run[h].c \in DOMAIN claims
      BY <1>1 DEF TrialInv, HandlersStand, Stands
  <2>2. claims[run[h].c] \in Claim
      BY <1>1, <2>1 DEF TrialTypeOK
  <2>3. claims[run[h].c].ends \in Dates
      BY <2>2 DEF Claim
  <2> QED BY <1>1, <2>3 DEF Stamps, Stamped, TrialTypeOK
<1>4. /\ run' \in [Callers -> Caller] /\ HandlersStand'
      /\ \A g \in Callers \ {h} : run'[g] = run[g]
      /\ run'[h].at = "idle"
    BY <1>1, FinishesType DEF TrialInv
<1>5. run'[h].at \notin ClaimPlaces \union Clears
    BY <1>4 DEF ClaimPlaces, Clears
<1> QED BY <1>1, <1>2, <1>3, <1>4, <1>5, AsideWithin DEF TrialTypeOK

-----------------------------------------------------------------------------
(* The lifetime purchase, and accounts that go *)

LEMMA PostLifetimeInv ==
    ASSUME TrialInv, NEW h \in Callers, NEW a \in Accounts, PostLifetime(h, a)
    PROVE  TrialInv'
<1> DEFINE fields == [AtRest EXCEPT !.at = "upsert", !.a = a, !.from = purchase,
                                    !.adopt = Adopts(purchase, a)]
<1>1. TrialTypeOK /\ Arrives(h, fields) /\ UNCHANGED <<claims, rows, people, purchase, spoiled>>
    BY DEF PostLifetime, ledger, TrialInv
<1>2. fields \in Caller /\ fields.at = "upsert" /\ fields.a = a
  <2>1. Adopts(purchase, a) \in BOOLEAN
      BY DEF Adopts
  <2> QED BY <1>1, <2>1, AtRestType DEF Caller, TrialPlaces, TrialTypeOK
<1>3. run[h].at \notin ClaimPlaces \union Clears
    BY <1>1, AtRestType DEF Arrives, ClaimPlaces, Clears
<1> HIDE DEF fields
<1>4. fields.at \notin ClaimPlaces \union Clears \union Transacts
    BY <1>2 DEF ClaimPlaces, Clears, Transacts
<1>5. /\ run' \in [Callers -> Caller] /\ calls' \in 0 .. MaxCalls /\ HandlersStand'
      /\ \A g \in Callers \ {h} : run'[g] = run[g]
      /\ run'[h] = fields
    BY <1>1, <1>2, <1>4, ArrivalType DEF TrialInv
<1> QED BY <1>1, <1>3, <1>4, <1>5, AsideWithin DEF TrialTypeOK, people

LEMMA UpsertsInv == ASSUME TrialInv, NEW h \in Callers, Upserts(h) PROVE TrialInv'
<1>1. /\ UNCHANGED <<claims, rows, people, calls, spoiled>> /\ Finishes(h)
      /\ run[h].at = "upsert" /\ TrialTypeOK
    BY DEF Upserts, ledger, TrialInv
<1>2. run[h].at \notin ClaimPlaces \union Clears
    BY <1>1 DEF ClaimPlaces, Clears
<1>3. purchase' \in Accounts \union {None}
  <2>1. run[h].a \in Accounts
      BY <1>1 DEF TrialInv, HandlersStand, Stands
  <2> QED BY <1>1, <2>1 DEF Upserts, TrialTypeOK
<1>4. /\ run' \in [Callers -> Caller] /\ HandlersStand'
      /\ \A g \in Callers \ {h} : run'[g] = run[g]
      /\ run'[h].at = "idle"
    BY <1>1, FinishesType DEF TrialInv
<1>5. run'[h].at \notin ClaimPlaces \union Clears
    BY <1>4 DEF ClaimPlaces, Clears
<1> QED BY <1>1, <1>2, <1>3, <1>4, <1>5, AsideWithin DEF TrialTypeOK, people

\* Unlinking takes owners away and nothing else.
LEMMA UnlinkType ==
    ASSUME TrialTypeOK, NEW a \in Accounts, UnlinkClaims(a) \/ UNCHANGED claims
    PROVE  /\ claims' \in Seq(Claim) /\ Len(claims') <= MaxClaims
           /\ DOMAIN claims' = DOMAIN claims
           /\ \A i, j \in Live' : claims'[i].device = claims'[j].device => i = j
           /\ \A i \in DOMAIN claims :
                  /\ claims'[i].on = claims[i].on /\ claims'[i].device = claims[i].device
                  /\ claims'[i].owner = IF claims'[i] = claims[i] THEN claims[i].owner ELSE None
                  /\ claims'[i] # claims[i] => claims[i].owner = a
                  /\ claims'[i].deleted = claims[i].deleted
<1>1. CASE UNCHANGED claims
    BY <1>1 DEF TrialTypeOK, Live
<1>2. CASE UnlinkClaims(a)
  <2>1. \A i \in DOMAIN claims : claims[i] \in Claim
      BY DEF TrialTypeOK
  <2>2. \A i \in DOMAIN claims :
            claims'[i] = IF claims[i].owner = a THEN [claims[i] EXCEPT !.owner = None] ELSE claims[i]
      BY <1>2 DEF UnlinkClaims
  <2>3. \A i \in DOMAIN claims :
            /\ claims'[i] \in Claim /\ claims'[i].device = claims[i].device
            /\ claims'[i].on = claims[i].on /\ claims'[i].deleted = claims[i].deleted
            /\ claims'[i].owner = IF claims'[i] = claims[i] THEN claims[i].owner ELSE None
            /\ claims'[i] # claims[i] => claims[i].owner = a
      BY <2>1, <2>2 DEF Claim
  <2>4. claims' = [i \in DOMAIN claims |-> claims'[i]]
      BY <1>2 DEF UnlinkClaims
  <2> QED BY <2>3, <2>4, ChangeClaims
<1> QED BY <1>1, <1>2

LEMMA DepartsInv ==
    ASSUME TrialInv, NEW h \in Callers, NEW a \in Accounts, Departs(h, a)
    PROVE  TrialInv'
<1> DEFINE fields == [AtRest EXCEPT !.at = "leave", !.a = a]
<1>1. /\ TrialTypeOK /\ Arrives(h, fields) /\ UNCHANGED <<rows, account, stamp, purchase, spoiled>>
      /\ UnlinkClaims(a) \/ UNCHANGED claims
      /\ parting' = parting \union {a}
    BY DEF Departs, TrialInv
<1>2. fields \in Caller /\ fields.at = "leave" /\ fields.a = a
    BY AtRestType DEF Caller, TrialPlaces
<1>3. run[h].at = "idle"
    BY <1>1, AtRestType DEF Arrives
<1> HIDE DEF fields
<1>4. fields.at \notin ClaimPlaces \union Clears \union Transacts
    BY <1>2 DEF ClaimPlaces, Clears, Transacts
<1>5. /\ claims' \in Seq(Claim) /\ Len(claims') <= MaxClaims
      /\ DOMAIN claims' = DOMAIN claims
      /\ \A i, j \in Live' : claims'[i].device = claims'[j].device => i = j
      /\ \A i \in DOMAIN claims :
             /\ claims'[i].on = claims[i].on /\ claims'[i].device = claims[i].device
             /\ claims'[i].owner \in {claims[i].owner, None}
             /\ claims'[i].deleted = claims[i].deleted
    BY <1>1, UnlinkType
<1>6. /\ run' \in [Callers -> Caller] /\ calls' \in 0 .. MaxCalls /\ HandlersStand'
      /\ \A g \in Callers \ {h} : run'[g] = run[g]
      /\ run'[h] = fields
    BY <1>1, <1>2, <1>4, <1>5, ArrivalType DEF TrialInv
<1>7. TrialTypeOK'
    BY <1>1, <1>5, <1>6 DEF TrialTypeOK
<1> QED BY <1>1, <1>3, <1>4, <1>5, <1>6, <1>7, AsideStep

LEMMA LeavesInv == ASSUME TrialInv, NEW h \in Callers, Leaves(h) PROVE TrialInv'
<1>1. /\ UNCHANGED <<claims, rows, stamp, parting, calls, spoiled>> /\ Finishes(h)
      /\ run[h].at = "leave" /\ TrialTypeOK
    BY DEF Leaves, ledger, TrialInv
<1>2. run[h].at \notin ClaimPlaces \union Clears
    BY <1>1 DEF ClaimPlaces, Clears
<1>3. /\ account' \in [Accounts -> {"no", "here", "gone"}]
      /\ purchase' \in Accounts \union {None}
    BY <1>1 DEF Leaves, TrialTypeOK
<1>4. /\ run' \in [Callers -> Caller] /\ HandlersStand'
      /\ \A g \in Callers \ {h} : run'[g] = run[g]
      /\ run'[h].at = "idle"
    BY <1>1, FinishesType DEF TrialInv
<1>5. run'[h].at \notin ClaimPlaces \union Clears
    BY <1>4 DEF ClaimPlaces, Clears
<1> QED BY <1>1, <1>2, <1>3, <1>4, <1>5, AsideWithin DEF TrialTypeOK

-----------------------------------------------------------------------------
(* The operator's reset *)

LEMMA ResetsInv ==
    ASSUME TrialInv, NEW h \in Callers, NEW a \in Accounts, Resets(h, a)
    PROVE  TrialInv'
<1> DEFINE set == {i \in Live : claims[i].owner = a}
           fields == [AtRest EXCEPT !.at = "unsign", !.a = a, !.set = set]
<1>1. /\ TrialTypeOK /\ Arrives(h, fields) /\ UNCHANGED <<claims, rows, people, purchase>>
      /\ spoiled' = Machines
    BY DEF Resets, ledger, TrialInv
<1>2. set \in SUBSET (1 .. MaxClaims)
  <2>1. Live \subseteq 1 .. MaxClaims
      BY <1>1, LedgerAssumption DEF Live, TrialTypeOK
  <2> QED BY <2>1
<1> HIDE DEF set
<1>3. fields \in Caller /\ fields.at = "unsign" /\ fields.a = a
    BY <1>2, AtRestType DEF Caller, TrialPlaces, Clears
<1> HIDE DEF fields
<1>4. fields.at \notin ClaimPlaces \union Transacts
    BY <1>3 DEF ClaimPlaces, Transacts
<1>5. /\ run' \in [Callers -> Caller] /\ calls' \in 0 .. MaxCalls /\ HandlersStand'
    BY <1>1, <1>3, <1>4, ArrivalType DEF TrialInv
<1>6. TrialTypeOK'
    BY <1>1, <1>5 DEF TrialTypeOK, people, Live
<1> QED BY <1>1, <1>5, <1>6, SpoiledStep

LEMMA ClearsInv ==
    ASSUME TrialInv, NEW h \in Callers, Unsigns(h) \/ Unclaims(h) \/ Unstamps(h)
    PROVE  TrialInv'
<1>1. TrialTypeOK /\ run[h].at \in Clears /\ UNCHANGED <<account, parting, purchase, calls, spoiled>>
    BY DEF Unsigns, Unclaims, Unstamps, Clears, TrialInv, people
<1>2. spoiled' = Machines
    BY <1>1 DEF TrialInv, OnlyResetsDelete
<1>3. ASSUME Unsigns(h) PROVE TrialTypeOK' /\ HandlersStand'
  <2>1. UNCHANGED <<claims, stamp>> /\ Moves(h, "unclaim") /\ Erases(run[h].set) /\ "unclaim" \in Clears
      BY <1>3 DEF Unsigns, people, Clears
  <2>2. run' \in [Callers -> Caller] /\ HandlersStand'
      BY <1>1, <2>1, MovesType DEF TrialInv
  <2>3. rows' \in Seq(Recording) /\ \A n \in DOMAIN rows' : rows'[n].claim \in DOMAIN claims'
      BY <1>1, <2>1, ErasesType
  <2> QED BY <1>1, <2>1, <2>2, <2>3 DEF TrialTypeOK, Live
<1>4. ASSUME Unclaims(h) PROVE TrialTypeOK' /\ HandlersStand'
  <2>1. /\ UNCHANGED stamp /\ Moves(h, "unstamp") /\ Erases(run[h].set) /\ "unstamp" \in Clears
        /\ claims' = [i \in DOMAIN claims |-> IF i \in run[h].set THEN [claims[i] EXCEPT !.deleted = TRUE]
                                              ELSE claims[i]]
      BY <1>4 DEF Unclaims, people, Clears
  <2>2. /\ claims' \in Seq(Claim) /\ Len(claims') <= MaxClaims
        /\ DOMAIN claims' = DOMAIN claims
        /\ \A i, j \in Live' : claims'[i].device = claims'[j].device => i = j
    <3>1. \A i \in DOMAIN claims : claims[i] \in Claim
        BY <1>1 DEF TrialTypeOK
    <3>2. \A i \in DOMAIN claims :
              /\ claims'[i] \in Claim /\ claims'[i].device = claims[i].device
              /\ claims[i].deleted => claims'[i].deleted
        BY <2>1, <3>1 DEF Claim
    <3>3. claims' = [i \in DOMAIN claims |-> claims'[i]]
        BY <2>1
    <3> QED BY <1>1, <3>2, <3>3, ChangeClaims
  <2>3. run' \in [Callers -> Caller] /\ HandlersStand'
      BY <1>1, <2>1, <2>2, MovesType DEF TrialInv
  <2>4. rows' \in Seq(Recording) /\ \A n \in DOMAIN rows' : rows'[n].claim \in DOMAIN claims'
      BY <1>1, <2>1, <2>2, ErasesType
  <2> QED BY <1>1, <2>1, <2>2, <2>3, <2>4 DEF TrialTypeOK
<1>5. ASSUME Unstamps(h) PROVE TrialTypeOK' /\ HandlersStand'
  <2>1. UNCHANGED <<claims, rows>> /\ Finishes(h) /\ stamp' = [stamp EXCEPT ![run[h].a] = 0]
      BY <1>5 DEF Unstamps, ledger
  <2>2. run' \in [Callers -> Caller] /\ HandlersStand'
      BY <1>1, <2>1, FinishesType DEF TrialInv
  <2> QED BY <1>1, <2>1, <2>2 DEF TrialTypeOK, Live
<1> QED BY <1>2, <1>3, <1>4, <1>5, SpoiledStep

-----------------------------------------------------------------------------
(* The theorems of the ledger *)

LEMMA TrialStep == TrialInv /\ [TrialNext]_trialVars => TrialInv'
<1> SUFFICES ASSUME TrialInv, [TrialNext]_trialVars PROVE TrialInv'
    OBVIOUS
<1>1. ASSUME NEW h \in Callers, Step(h) PROVE TrialInv'
    BY <1>1, SignsUpInv, FindsInv, MatchesInv, CreatesClaimInv, ReadsWinnerInv, RecordsInv,
       AppleLooksInv, AppleCreatesInv, GovernsInv, StampsInv, UpsertsInv, LeavesInv, ClearsInv,
       AbandonsInv
       DEF Step
<1>2. ASSUME NEW h \in Callers, NEW a \in Accounts, Call(h, a) PROVE TrialInv'
  <2>1. ASSUME NEW id \in Ids, NEW kinds \in Readings,
               Registers(h, a, id, kinds) \/ AskTrial(h, a, id, kinds)
        PROVE  TrialInv'
      BY <2>1, ClaimingInv DEF Registers, AskTrial
  <2>2. ASSUME NEW x \in Apples, NEW id \in Ids \union {x}, PostTrial(h, a, id, x) PROVE TrialInv'
      BY <2>2, PostTrialInv
  <2> QED BY <1>2, <2>1, <2>2, PostLifetimeInv, DepartsInv, ResetsInv
         DEF Call, PostPurchase
<1>3. ASSUME NEW a \in Accounts, NEW id \in Ids, CardTrial(a, id) PROVE TrialInv'
    BY <1>3, CardTrialInv
<1>4. CASE UNCHANGED trialVars
    BY <1>4 DEF trialVars, ledger, people, TrialInv, TrialTypeOK, Live, HandlersStand, Stands,
       OnlyResetsDelete, OneAtATime, Working, WindowsAreKnown, Recorded, InHand, CreatesTheFirst,
       OneWindowPerMachine, InRightWindow, Shown
<1> QED BY <1>1, <1>2, <1>3, <1>4 DEF TrialNext

LEMMA TrialStart == TrialInit => TrialInv
<1> SUFFICES ASSUME TrialInit PROVE TrialInv
    OBVIOUS
<1>1. DOMAIN claims = {} /\ \A h \in Callers : run[h].at = "idle"
    BY AtRestType DEF TrialInit
<1> QED BY <1>1, TypeInit DEF TrialInv, OnlyResetsDelete, OneAtATime, Working, ClaimPlaces, Clears,
       WindowsAreKnown, CreatesTheFirst, OneWindowPerMachine

\* What a machine's windows rest on is invariant (claimTrial of trial-claim.ts, its
\* fingerprint, the transactions of purchases.ts, deletions and the reset).
THEOREM TrialInvHolds == TrialSpec => []TrialInv
BY TrialStart, TrialStep, PTL DEF TrialSpec

\* The ledger, the accounts and every handler keep their types, and a device id is
\* on one claim that exists at most (TrialClaim.deviceIdHash @unique).
THEOREM TrialTypeCorrect == TrialSpec => []TrialTypeOK
<1>1. TrialInv => TrialTypeOK
    BY DEF TrialInv
<1> QED BY <1>1, TrialInvHolds, PTL

\* However many claims, ids, accounts and handlers: a machine that shows its
\* MachineGuid starts one window, and nobody joins one over a borrowed dock.
THEOREM OneWindowPerMachineHolds == TrialSpec => []OneWindowPerMachine
<1>1. TrialInv => OneWindowPerMachine
    BY DEF TrialInv
<1> QED BY <1>1, TrialInvHolds, PTL

\* Outside a reset, claims are added, or lose an owner who is leaving.
LEMMA ClaimsOnlyGrow ==
    ASSUME [TrialNext]_trialVars, ~ResetUnderWay
    PROVE  \/ UNCHANGED claims
           \/ \E c : claims' = Append(claims, c)
           \/ \E b \in parting' : UnlinkClaims(b)
<1>1. ASSUME NEW h \in Callers, Step(h)
      PROVE  UNCHANGED claims \/ \E c : claims' = Append(claims, c)
  <2>1. CASE SignsUp(h) \/ Finds(h) \/ Matches(h) \/ ReadsWinner(h) \/ Records(h)
      BY <2>1 DEF SignsUp, Finds, Matches, ReadsWinner, Records, ledger
  <2>2. CASE AppleLooks(h) \/ Governs(h) \/ Stamps(h) \/ Upserts(h) \/ Leaves(h)
      BY <2>2 DEF AppleLooks, Governs, Stamps, Upserts, Leaves, ledger
  <2>3. CASE Unsigns(h) \/ Unstamps(h) \/ Abandons(h)
      BY <2>3 DEF Unsigns, Unstamps, Abandons, ledger
  <2>4. ~Unclaims(h)
      BY DEF Unclaims, ResetUnderWay
  <2>5. CASE CreatesClaim(h)
      BY <2>5 DEF CreatesClaim
  <2>6. CASE AppleCreates(h)
      BY <2>6 DEF AppleCreates
  <2> QED BY <1>1, <2>1, <2>2, <2>3, <2>4, <2>5, <2>6 DEF Step
<1>2. ASSUME NEW h \in Callers, NEW a \in Accounts, Call(h, a)
      PROVE  UNCHANGED claims \/ \E b \in parting' : UnlinkClaims(b)
    BY <1>2 DEF Call, Registers, AskTrial, Claiming, PostPurchase, PostTrial, PostLifetime, Departs,
              Resets, ledger
<1>3. ASSUME NEW a \in Accounts, NEW id \in Ids, CardTrial(a, id)
      PROVE  \E c : claims' = Append(claims, c)
    BY <1>3 DEF CardTrial
<1>4. CASE UNCHANGED trialVars
    BY <1>4 DEF trialVars, ledger
<1> QED BY <1>1, <1>2, <1>3, <1>4 DEF TrialNext

LEMMA WindowStep ==
    ASSUME TrialInv, [TrialNext]_trialVars, ~ResetUnderWay,
           NEW a \in Accounts, a \notin parting', NEW id \in Ids, FindClaim(id, a) # 0
    PROVE  FindClaim(id, a)' = FindClaim(id, a)
<1> DEFINE S == {i \in Live : claims[i].owner = a \/ claims[i].device = id}
           n == Len(claims) + 1
<1>1. TrialTypeOK /\ DOMAIN claims = 1 .. Len(claims) /\ Len(claims) \in Nat
    BY DEF TrialInv, TrialTypeOK
<1>2. S \subseteq Nat \ {0} /\ n \in Nat /\ \A i \in S : i < n
    BY <1>1 DEF Live
<1>3. FindClaim(id, a) = Oldest(S) /\ FindClaim(id, a)' = Oldest(S')
    BY DEF FindClaim
<1>4. S # {}
    BY <1>2, <1>3, OldestIsOne
<1>5. S' \in {S, S \union {n}}
  <2>1. CASE UNCHANGED claims
      BY <2>1 DEF Live
  <2>2. ASSUME NEW c, claims' = Append(claims, c) PROVE S' \in {S, S \union {n}}
    <3>1. /\ DOMAIN claims' = DOMAIN claims \union {n} /\ n \notin DOMAIN claims
          /\ \A i \in DOMAIN claims : claims'[i] = claims[i]
        BY <1>1, <2>2 DEF TrialTypeOK
    <3>2. S' = {i \in DOMAIN claims' : /\ ~claims'[i].deleted
                                       /\ claims'[i].owner = a \/ claims'[i].device = id}
        BY DEF Live
    <3>3. S = {i \in DOMAIN claims : /\ ~claims[i].deleted
                                     /\ claims[i].owner = a \/ claims[i].device = id}
        BY DEF Live
    <3> QED BY <3>1, <3>2, <3>3
  <2>3. ASSUME NEW b \in parting', UnlinkClaims(b) PROVE S' = S
    <3>1. DOMAIN claims' = DOMAIN claims
        BY <2>3 DEF UnlinkClaims
    <3>2. \A i \in DOMAIN claims : claims[i] \in Claim
        BY <1>1 DEF TrialTypeOK
    <3>3. \A i \in DOMAIN claims :
              /\ claims'[i].device = claims[i].device /\ claims'[i].deleted = claims[i].deleted
              /\ claims'[i].owner = a <=> claims[i].owner = a
        BY <2>3, <3>2, LedgerAssumption DEF UnlinkClaims, Claim
    <3> QED BY <3>1, <3>3 DEF Live
  <2> QED BY <2>1, <2>2, <2>3, ClaimsOnlyGrow
<1> HIDE DEF S, n
<1>6. Oldest(S') = Oldest(S)
    BY <1>2, <1>4, <1>5, NewerIsNotOldest
<1> QED BY <1>3, <1>6

\* The window that governs a living account on a device stays the one it is, but
\* for a reset and a deletion that was asked for (findClaim of trial-claim.ts).
THEOREM WindowStandsHolds == TrialSpec => WindowStands
<1>1. TrialInv /\ [TrialNext]_trialVars =>
          (~ResetUnderWay =>
             \A a \in Accounts : account[a] = "here" /\ a \notin parting' =>
                 \A id \in Ids : FindClaim(id, a) # 0 => FindClaim(id, a)' = FindClaim(id, a))
    BY WindowStep
<1> QED BY <1>1, TrialInvHolds, PTL DEF TrialSpec, WindowStands

=============================================================================
