------------------------------- MODULE SignIn --------------------------------
(***************************************************************************)
(* One email address: the account registered for it, with a password or by *)
(* Sign in with Apple, the codes that prove the address, the links that    *)
(* set a new password, and the lifetime gift a signup reserves and the     *)
(* proof of the address releases.                                          *)
(*                                                                         *)
(* A handler is a sequence of database calls, and other handlers run       *)
(* between any two of them.  Rate limits, hashing and mail are left out,   *)
(* and so are dates: a code or a link may at any time turn out too old.    *)
(* The writes that share a transaction in the code share a step here.      *)
(***************************************************************************)
EXTENDS Naturals, Sequences

CONSTANTS
    Requests,       \* handlers that may run at once
    Scopes,         \* what a gift may cover: iOS, desktop
    MAX_ATTEMPTS,   \* emailVerificationMaxAttempts
    MaxMails        \* bound on the codes and links ever issued

ASSUME SignInAssumption ==
    MAX_ATTEMPTS \in Nat \ {0} /\ MaxMails \in Nat

VARIABLES
    settings,       \* the scopes switched on for new signups
    user,           \* the account of the address
    codes,          \* its EmailVerification rows, oldest first
    links,          \* its PasswordReset rows, oldest first
    req,            \* what each handler is doing
    granted,        \* has the operator's cohort grant reached the account?
    wrong,          \* wrong answers compared with each code
    uses,           \* passwords set through each link
    mark,           \* links issued when the password was last set
    died            \* has a handler died while it issued a code, or owed the voiding?

secrets == <<codes, links>>
history == <<granted, wrong, uses, mark>>
vars == <<settings, user, secrets, req, history, died>>

Account == [exists : BOOLEAN, password : BOOLEAN, apple : BOOLEAN, verified : BOOLEAN,
            offer : SUBSET Scopes, gift : SUBSET Scopes]
NoAccount == [exists |-> FALSE, password |-> FALSE, apple |-> FALSE, verified |-> FALSE,
              offer |-> {}, gift |-> {}]

\* live: consumedAt is not set. A link is no more than that.
Code == [live : BOOLEAN, attempts : Nat]
NewCode == [live |-> TRUE, attempts |-> 0]

Issuing == {"retire", "mint"}
Resetting == {"claim", "set", "void"}
Places == {"idle", "reserve", "create", "find", "link", "judge", "answer", "exhaust"}
             \union Issuing \union Resetting

\* n: the code or link in hand; sees: the account as the handler read it; gives:
\* the offer it reserved, or the part of it the account it read still lacked.
Handlers == [at : Places, n : Nat, sees : {"none", "unproved", "proved"}, gives : SUBSET Scopes]
Idle == [at |-> "idle", n |-> 0, sees |-> "none", gives |-> {}]

TypeOK ==
    /\ settings \subseteq Scopes
    /\ user \in Account
    /\ codes \in Seq(Code) /\ links \in Seq(BOOLEAN)
    /\ req \in [Requests -> Handlers]
    /\ granted \in BOOLEAN
    /\ Len(wrong) = Len(codes) /\ Len(uses) = Len(links)
    /\ mark \in 0 .. Len(links)
    /\ died \in {"no", "issuing", "void"}
    \* only an account has codes, links and gifts; Apple alone sets no password
    /\ ~user.exists => user = NoAccount /\ codes = <<>> /\ links = <<>>
    /\ user.exists => user.password \/ user.apple

Init ==
    /\ settings = {}
    /\ user = NoAccount
    /\ codes = <<>> /\ links = <<>>
    /\ req = [r \in Requests |-> Idle]
    /\ granted = FALSE
    /\ wrong = <<>> /\ uses = <<>>
    /\ mark = 0
    /\ died = "no"

Goes(r, place) == req' = [req EXCEPT ![r].at = place]
Holds(r, place, n, s, g) ==
    req' = [req EXCEPT ![r] = [at |-> place, n |-> n, sees |-> s, gives |-> g]]
Ends(r) == req' = [req EXCEPT ![r] = Idle]

Standing == IF ~user.exists THEN "none" ELSE IF user.verified THEN "proved" ELSE "unproved"
Room == Len(codes) + Len(links) < MaxMails

-----------------------------------------------------------------------------
(* signup-lifetime.ts: what is reserved, and what is released *)

\* reserveSignupLifetimeOffer: a client we do not recognise reserves nothing.
Reserved == {settings, {}}

\* mutant: what is on offer today is what the proof releases
GrantOfToday(u) == settings \ u.gift

\* signupLifetimeGrantData, of the account as it was read.
Grant(u) == u.offer \ u.gift

\* PATCH of the switches, one at a time or both, in a transaction.
ChangeSettings ==
    /\ settings' \in (SUBSET Scopes) \ {settings}
    /\ UNCHANGED <<user, secrets, req, history, died>>

\* grantLifetimeCohort, for this account.
CohortGrant ==
    /\ user.exists /\ ~granted
    /\ user' = [user EXCEPT !.gift = Scopes]
    /\ granted' = TRUE
    /\ UNCHANGED <<settings, secrets, req, wrong, uses, mark, died>>

-----------------------------------------------------------------------------
(* POST /register *)

\* An address that has an account is refused.
Register(r) ==
    /\ req[r] = Idle
    /\ ~user.exists
    /\ Goes(r, "reserve")
    /\ UNCHANGED <<settings, user, secrets, history, died>>

ReadsOffer(r) ==
    /\ req[r].at = "reserve"
    /\ \E offer \in Reserved : Holds(r, "create", 0, "none", offer)
    /\ UNCHANGED <<settings, user, secrets, history, died>>

\* The unique index on the address lets one creation through. The new account
\* is unproved, and its first code is sent inline.
Creates(r) ==
    /\ req[r].at = "create"
    /\ IF user.exists THEN Ends(r) /\ UNCHANGED user
       ELSE /\ user' = [NoAccount EXCEPT !.exists = TRUE, !.password = TRUE,
                                         !.offer = req[r].gives]
            /\ Goes(r, "retire")
    /\ UNCHANGED <<settings, secrets, history, died>>

-----------------------------------------------------------------------------
(* POST /apple *)

\* Known to Apple's provider row: signed in, nothing to write. Otherwise the
\* address is looked up, and an offer reserved when it has no account.
Apple(r) ==
    /\ req[r] = Idle
    /\ ~user.apple
    /\ Goes(r, "find")
    /\ UNCHANGED <<settings, user, secrets, history, died>>

AppleFinds(r) ==
    /\ req[r].at = "find"
    /\ \E offer \in IF user.exists THEN {{}} ELSE Reserved : Holds(r, "link", 0, Standing, offer)
    /\ UNCHANGED <<settings, user, secrets, history, died>>

\* canAutoLinkAppleAccount: asked of the account that was read, or of the one
\* that won the creation.
MayLink(seen) == seen = "proved" \/ (seen = "none" /\ Standing = "proved")

\* mutant: the account comes first, its provider row in a call that never follows
AppleAccountAlone(offer) ==
    [NoAccount EXCEPT !.exists = TRUE, !.verified = TRUE, !.offer = offer, !.gift = offer]

\* Created with its provider row, proved and with its gift.
AppleAccount(offer) ==
    [NoAccount EXCEPT !.exists = TRUE, !.apple = TRUE, !.verified = TRUE,
                      !.offer = offer, !.gift = offer]

\* Link an account that proved its address, or create one Apple has proved,
\* gift included. Losing the creation is judged as an account found is; losing
\* the link to the same Apple identity is a success.
AppleWrites(r) ==
    /\ req[r].at = "link"
    /\ user' = IF ~user.exists
               THEN AppleAccount(req[r].gives)
               ELSE [user EXCEPT !.apple = @ \/ MayLink(req[r].sees)]
    /\ Ends(r)
    /\ UNCHANGED <<settings, secrets, history, died>>

-----------------------------------------------------------------------------
(* issueVerificationCode and POST /verify-email *)

Spent(code) == [code EXCEPT !.live = FALSE]

\* POST /verify-email/request: a proved address is sent nothing.
AskCode(r) ==
    /\ req[r] = Idle
    /\ user.exists /\ ~user.verified /\ Room
    /\ Goes(r, "retire")
    /\ UNCHANGED <<settings, user, secrets, history, died>>

\* mutant: the new code is written first and retired with the others
MintsEarly(r) ==
    /\ req[r].at = "retire"
    /\ codes' = Append([i \in DOMAIN codes |-> Spent(codes[i])], Spent(NewCode))
    /\ wrong' = Append(wrong, 0)
    /\ Ends(r)
    /\ UNCHANGED <<settings, user, links, granted, uses, mark, died>>

\* The outstanding codes first ...
Retires(r) ==
    /\ req[r].at = "retire"
    /\ codes' = [i \in DOMAIN codes |-> Spent(codes[i])]
    /\ Goes(r, "mint")
    /\ UNCHANGED <<settings, user, links, history, died>>

\* ... and then the new one, which is mailed.
Mints(r) ==
    /\ req[r].at = "mint"
    /\ Room
    /\ codes' = Append(codes, NewCode)
    /\ wrong' = Append(wrong, 0)
    /\ Ends(r)
    /\ UNCHANGED <<settings, user, links, granted, uses, mark, died>>

\* The account is read ...
Verify(r) ==
    /\ req[r] = Idle
    /\ user.exists /\ ~user.verified
    /\ Holds(r, "judge", 0, "unproved", Grant(user))
    /\ UNCHANGED <<settings, user, secrets, history, died>>

\* ... then its newest code, judged by its own dates and count.
Usable(n) == n # 0 /\ codes[n].live /\ codes[n].attempts < MAX_ATTEMPTS

Judges(r) ==
    /\ req[r].at = "judge"
    /\ \/ Usable(Len(codes)) /\ Holds(r, "answer", Len(codes), "unproved", req[r].gives)
       \/ Ends(r)
    /\ UNCHANGED <<settings, user, secrets, history, died>>

\* A wrong answer adds one to the count, whatever it is by now.
Strikes(n) == codes' = [codes EXCEPT ![n].attempts = @ + 1]

AnswersWrong(r) ==
    /\ req[r].at = "answer"
    /\ Strikes(req[r].n)
    /\ wrong' = [wrong EXCEPT ![req[r].n] = @ + 1]
    /\ IF codes'[req[r].n].attempts >= MAX_ATTEMPTS THEN Goes(r, "exhaust") ELSE Ends(r)
    /\ UNCHANGED <<settings, user, links, granted, uses, mark, died>>

\* The last attempt takes the code with it.
Exhausts(r) ==
    /\ req[r].at = "exhaust"
    /\ codes' = [codes EXCEPT ![req[r].n] = Spent(@)]
    /\ Ends(r)
    /\ UNCHANGED <<settings, user, links, history, died>>

\* The right answer: the code is spent, and the first to prove the address
\* releases what the account had reserved when it was read.
AnswersRight(r) ==
    /\ req[r].at = "answer"
    /\ codes' = [codes EXCEPT ![req[r].n] = Spent(@)]
    /\ user' = IF user.verified THEN user
               ELSE [user EXCEPT !.verified = TRUE, !.gift = @ \union req[r].gives]
    /\ Ends(r)
    /\ UNCHANGED <<settings, links, history, died>>

-----------------------------------------------------------------------------
(* POST /password/reset-request and POST /password/reset *)

\* Only an account that has a password is sent a link.
AskLink ==
    /\ user.password
    /\ Room
    /\ links' = Append(links, TRUE)
    /\ uses' = Append(uses, 0)
    /\ UNCHANGED <<settings, user, codes, req, granted, wrong, mark, died>>

\* The row is read and judged ...
Open(r, n) ==
    /\ req[r] = Idle
    /\ links[n]
    /\ Holds(r, "claim", n, "none", {})
    /\ UNCHANGED <<settings, user, secrets, history, died>>

\* mutant: the link is spent without looking at it again
ClaimsBlindly(r) ==
    /\ req[r].at = "claim"
    /\ links' = [links EXCEPT ![req[r].n] = FALSE]
    /\ Goes(r, "set")
    /\ UNCHANGED <<settings, user, codes, history, died>>

\* ... spent, by one handler only ...
Claims(r) ==
    /\ req[r].at = "claim"
    /\ IF links[req[r].n]
       THEN links' = [links EXCEPT ![req[r].n] = FALSE] /\ Goes(r, "set")
       ELSE Ends(r) /\ UNCHANGED links
    /\ UNCHANGED <<settings, user, codes, history, died>>

\* ... the password is written ...
SetsPassword(r) ==
    /\ req[r].at = "set"
    /\ uses' = [uses EXCEPT ![req[r].n] = @ + 1]
    /\ mark' = Len(links)
    /\ Goes(r, "void")
    /\ UNCHANGED <<settings, user, secrets, granted, wrong, died>>

\* ... and every link still outstanding is void.
Voids(r) ==
    /\ req[r].at = "void"
    /\ links' = [i \in DOMAIN links |-> FALSE]
    /\ Ends(r)
    /\ UNCHANGED <<settings, user, codes, history, died>>

-----------------------------------------------------------------------------

\* A handler dies between two calls.
Dies(r) ==
    /\ req[r].at # "idle"
    /\ died' = IF req[r].at \in Issuing THEN "issuing"
               ELSE IF req[r].at = "void" THEN "void" ELSE died
    /\ died = "no" \/ died' = died
    /\ Ends(r)
    /\ UNCHANGED <<settings, user, secrets, history>>

Handle(r) ==
    \/ Register(r) \/ ReadsOffer(r) \/ Creates(r)
    \/ Apple(r) \/ AppleFinds(r) \/ AppleWrites(r)
    \/ AskCode(r) \/ Retires(r) \/ Mints(r)
    \/ Verify(r) \/ Judges(r) \/ AnswersWrong(r) \/ Exhausts(r) \/ AnswersRight(r)
    \/ (\E n \in DOMAIN links : Open(r, n)) \/ Claims(r) \/ SetsPassword(r) \/ Voids(r)
    \/ Dies(r)

Next == (\E r \in Requests : Handle(r)) \/ ChangeSettings \/ CohortGrant \/ AskLink

Spec == Init /\ [][Next]_vars

-----------------------------------------------------------------------------
(* Properties *)

\* What the proof of an address releases nobody has before it. An account holds
\* the gift its own signup reserved exactly when its address is proved, plus what
\* an operator granted, whatever the switches say by then and however many
\* handlers prove it at once; and no Apple identity opens an account whose
\* address was never proved, by whichever race it was registered.
ProofReleases ==
    /\ user.gift = (IF user.verified THEN user.offer ELSE {})
                     \union (IF granted THEN Scopes ELSE {})
    /\ user.apple => user.verified

\* Parallel guesses are all counted, and whoever asks for codes faster than
\* they are issued still ends up with one that works: the newest.
CodesAnswer ==
    /\ \A i \in DOMAIN codes : codes[i].attempts = wrong[i]
    /\ LET n == Len(codes)
       IN n # 0 /\ ~user.verified /\ died # "issuing" /\ (\A r \in Requests : req[r].at \notin Issuing)
          => codes[n].live \/ codes[n].attempts >= MAX_ATTEMPTS

\* A link sets one password, and once a reset is through, every link that still
\* works was asked for after that password was set. Excused: a handler that died
\* between the password and the links.
LinksAreSpent ==
    /\ \A i \in DOMAIN links : uses[i] <= 1
    /\ died # "void" /\ (\A r \in Requests : req[r].at # "void")
       => \A i \in DOMAIN links : links[i] => i > mark
=============================================================================
