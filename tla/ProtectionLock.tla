--------------------------- MODULE ProtectionLock ---------------------------
(***************************************************************************)
(* The addiction-protection lock of an account: a partner holds the code   *)
(* that lifts it, or it stands until a date.  Turning it on, sending the   *)
(* code again, lifting it and the console's override are requests that     *)
(* read the row, count against the shared limits and write, one database   *)
(* call at a time; a request may die between two of them.                  *)
(*                                                                         *)
(* The limit on a recipient's mail is a row that counts hits from the      *)
(* first one: it is bumped only while its window is open, and whoever      *)
(* finds none open starts one.  The limits on the account itself, which    *)
(* nobody else's requests touch, let a request through or refuse it.  A    *)
(* code is a number never minted before, time a clock of a few ticks.  The *)
(* curated list of sites and apps, and the device, are left out.           *)
(***************************************************************************)
EXTENDS Naturals, FiniteSets

CONSTANTS
    Users, Partners,
    Handlers,
    Nobody,
    MAX_OTP_ATTEMPTS,
    PerRecipient,           \* OTP_PER_RECIPIENT_HOURLY
    Hour,                   \* ticks of its window
    Horizon, MaxCalls       \* bounds of the model

ASSUME ProtectionAssumption ==
    /\ Nobody \notin Partners
    /\ IsFiniteSet(Handlers)
    /\ MAX_OTP_ATTEMPTS \in Nat \ {0}
    /\ PerRecipient \in Nat \ {0} /\ Hour \in Nat \ {0}
    /\ Horizon \in Nat /\ MaxCalls \in Nat

VARIABLES
    now,
    lock,           \* the ProtectionLock row of each user
    throttle,       \* the AuthThrottle row of each partner
    run,            \* what each handler is doing
    minted,         \* codes so far
    inbox,          \* the codes a partner was mailed, to read out
    posted,         \* codes handed to the mailer, delivered or not
    lost,           \* codes whose request died before it mailed them
    guesses,        \* "incorrect" answers given to requests that had read a code
    passes,         \* requests counted and let through since a window was opened
    calls           \* requests so far

mail == <<inbox, posted>>
limits == <<throttle, passes>>
vars == <<now, lock, limits, run, minted, mail, lost, guesses, calls>>

Times == 0 .. Horizon
Codes == 1 .. MaxCalls
NoCode == 0
Lock == [active : BOOLEAN, method : {"partner", "date"}, partner : Partners \union {Nobody},
         otp : Codes \union {NoCode}, attempts : Nat, until : Times]
Unlocked == [active |-> FALSE, method |-> "partner", partner |-> Nobody,
             otp |-> NoCode, attempts |-> 0, until |-> 0]

\* count = 0: no row yet.
Throttle == [from : Times, count : Nat]

Places == {"idle", "own", "bump", "open", "count", "read", "write", "post", "lift", "wrong", "void"}

\* began: when the limit was consumed. sets: what the request asks the lock to be, or
\* the row it read. code: the code it answered, or minted. seen: the one it read.
Handler == [at : Places, op : {"none", "lock", "resend", "unlock"}, user : Users,
            began : Times, sets : Lock,
            code : Codes \union {NoCode}, seen : Codes \union {NoCode}]
Idle(u) == [at |-> "idle", op |-> "none", user |-> u, began |-> 0,
            sets |-> Unlocked, code |-> NoCode, seen |-> NoCode]

TypeOK ==
    /\ now \in Times
    /\ lock \in [Users -> Lock]
    /\ throttle \in [Partners -> Throttle]
    /\ run \in [Handlers -> Handler]
    /\ \A h \in Handlers : run[h].at \in {"bump", "open", "count"} => run[h].sets.partner # Nobody
    /\ minted \in 0 .. MaxCalls /\ calls \in 0 .. MaxCalls
    /\ inbox \subseteq posted /\ posted \subseteq Codes /\ lost \subseteq Codes
    /\ \A c \in posted \union lost : c <= minted
    /\ guesses \in [Codes -> Nat]
    /\ passes \in [Partners -> Nat]

Init ==
    /\ now = 0
    /\ lock = [u \in Users |-> Unlocked]
    /\ throttle = [p \in Partners |-> [from |-> 0, count |-> 0]]
    /\ \E u \in Users : run = [h \in Handlers |-> Idle(u)]
    /\ minted = 0 /\ calls = 0
    /\ inbox = {} /\ posted = {} /\ lost = {}
    /\ guesses = [c \in Codes |-> 0]
    /\ passes = [p \in Partners |-> 0]

Goes(h, place) == run' = [run EXCEPT ![h].at = place]
Ends(h) == run' = [run EXCEPT ![h] = Idle(@.user)]

Arrives(h) ==
    /\ run[h].at = "idle"
    /\ calls < MaxCalls
    /\ calls' = calls + 1

-----------------------------------------------------------------------------
\* consumeRateLimit.

IsOpen(p, t) == throttle[p].count > 0 /\ throttle[p].from + Hour > t
Recipient(h) == run[h].sets.partner

\* The limits of the account: a resend reads the lock after them, a lock goes on to
\* its partner's limit if there is a mail to send.
OwnLimits(h) ==
    /\ run[h].at = "own"
    /\ \/ Ends(h)
       \/ Goes(h, CASE run[h].op = "resend"      -> "read"
                    [] Recipient(h) # Nobody     -> "bump"
                    [] OTHER                     -> "write")
    /\ UNCHANGED <<now, lock, limits, minted, mail, lost, guesses, calls>>

\* Two requests may both find no window open; the counter is whoever writes last.
Bumps(h) ==
    /\ run[h].at = "bump"
    /\ IF IsOpen(Recipient(h), now)
       THEN /\ throttle' = [throttle EXCEPT ![Recipient(h)].count = @ + 1]
            /\ run' = [run EXCEPT ![h].at = "count", ![h].began = now]
       ELSE /\ run' = [run EXCEPT ![h].at = "open", ![h].began = now]
            /\ UNCHANGED throttle
    /\ UNCHANGED <<now, lock, passes, minted, mail, lost, guesses, calls>>

Opens(h) ==
    /\ run[h].at = "open"
    /\ throttle' = [throttle EXCEPT ![Recipient(h)] = [from |-> run[h].began, count |-> 1]]
    /\ passes' = [passes EXCEPT ![Recipient(h)] =
                    IF IsOpen(Recipient(h), now) THEN @ + 1 ELSE 1]
    /\ Goes(h, "write")
    /\ UNCHANGED <<now, lock, minted, mail, lost, guesses, calls>>

\* mutant: the cap admits one more
IsOverByMore(p) == throttle[p].count > PerRecipient + 1

IsOver(p) == throttle[p].count > PerRecipient

\* The row is read again after the bump: a 429 when it is over.
Counts(h) ==
    /\ run[h].at = "count"
    /\ IF IsOver(Recipient(h))
       THEN Ends(h) /\ UNCHANGED passes
       ELSE Goes(h, "write") /\ passes' = [passes EXCEPT ![Recipient(h)] = @ + 1]
    /\ UNCHANGED <<now, lock, throttle, minted, mail, lost, guesses, calls>>

\* The counter could not be reached: the request is let through.
FailsOpen(h) ==
    /\ run[h].at \in {"bump", "open", "count"}
    /\ Goes(h, "write")
    /\ UNCHANGED <<now, lock, limits, minted, mail, lost, guesses, calls>>

-----------------------------------------------------------------------------
\* POST /lock and POST /resend.

Locks(h, u, method, p, until) ==
    /\ Arrives(h)
    /\ run' = [run EXCEPT ![h] = [Idle(u) EXCEPT
                !.at = "own", !.op = "lock",
                !.sets = [Unlocked EXCEPT !.active = TRUE, !.method = method,
                                          !.partner = p, !.until = until]]]
    /\ UNCHANGED <<now, lock, limits, minted, mail, lost, guesses>>

Resends(h, u) ==
    /\ Arrives(h)
    /\ run' = [run EXCEPT ![h] = [Idle(u) EXCEPT !.at = "own", !.op = "resend"]]
    /\ UNCHANGED <<now, lock, limits, minted, mail, lost, guesses>>

\* The partner a resend mails is the one it reads here.
ReadsLock(h) ==
    LET r == lock[run[h].user] IN
    /\ run[h].at = "read" /\ run[h].op = "resend"
    /\ IF r.active /\ r.method = "partner" /\ r.partner # Nobody
       THEN run' = [run EXCEPT ![h].at = "bump", ![h].sets = r]
       ELSE Ends(h)
    /\ UNCHANGED <<now, lock, limits, minted, mail, lost, guesses, calls>>

Mints(h) == run[h].op = "resend" \/ run[h].sets.method = "partner"

\* A resend rotates the code of the row as it is now; a lock replaces the row.
Written(h, c) ==
    IF run[h].op = "resend"
    THEN [lock[run[h].user] EXCEPT !.otp = c, !.attempts = 0]
    ELSE [run[h].sets EXCEPT !.otp = c]

\* mutant: the row is written before the recipient's limit is consumed
WritesFirst(h) ==
    LET c == minted + 1 IN
    \/ /\ run[h].at = "bump" /\ run[h].code = NoCode
       /\ minted' = c
       /\ lock' = [lock EXCEPT ![run[h].user] = Written(h, c)]
       /\ run' = [run EXCEPT ![h].code = c]
       /\ UNCHANGED <<now, limits, mail, lost, guesses, calls>>
    \/ /\ run[h].at = "write" /\ run[h].code # NoCode
       /\ Goes(h, "post")
       /\ UNCHANGED <<now, lock, limits, minted, mail, lost, guesses, calls>>

Writes(h) ==
    LET c == IF Mints(h) THEN minted + 1 ELSE NoCode IN
    /\ run[h].at = "write"
    /\ minted' = IF Mints(h) THEN minted + 1 ELSE minted
    /\ lock' = [lock EXCEPT ![run[h].user] = Written(h, c)]
    /\ IF Mints(h)
       THEN run' = [run EXCEPT ![h].at = "post", ![h].code = c]
       ELSE Ends(h)
    /\ UNCHANGED <<now, limits, mail, lost, guesses, calls>>

\* sendOtpEmail: delivered, or not, and the answer says which.
Posts(h) ==
    /\ run[h].at = "post"
    /\ posted' = posted \union {run[h].code}
    /\ inbox' \in {inbox, inbox \union {run[h].code}}
    /\ Ends(h)
    /\ UNCHANGED <<now, lock, limits, minted, lost, guesses, calls>>

-----------------------------------------------------------------------------
\* POST /unlock, and the console's override.

\* The user answers what a partner read out, or something else.
Unlocks(h, u, code) ==
    /\ Arrives(h)
    /\ run' = [run EXCEPT ![h] = [Idle(u) EXCEPT !.at = "read", !.op = "unlock", !.code = code]]
    /\ UNCHANGED <<now, lock, limits, minted, mail, lost, guesses>>

Decides(h) ==
    LET r == lock[run[h].user] IN
    /\ run[h].at = "read" /\ run[h].op = "unlock"
    /\ IF ~r.active \/ (r.method = "date" /\ now < r.until)
       THEN Ends(h)
       ELSE run' = [run EXCEPT
                ![h].at = IF r.method = "date" \/ (r.otp # NoCode /\ run[h].code = r.otp)
                          THEN "lift" ELSE "wrong",
                ![h].sets = r, ![h].seen = r.otp]
    /\ UNCHANGED <<now, lock, limits, minted, mail, lost, guesses, calls>>

\* Whatever lock stands now is lifted, the one that was read or a later one.
Lifts(h) ==
    LET r == lock[run[h].user] IN
    /\ run[h].at = "lift"
    /\ lock' = [lock EXCEPT ![run[h].user] =
                  IF run[h].sets.method = "date" THEN [r EXCEPT !.active = FALSE]
                  ELSE [r EXCEPT !.active = FALSE, !.otp = NoCode, !.attempts = 0]]
    /\ Ends(h)
    /\ UNCHANGED <<now, limits, minted, mail, lost, guesses, calls>>

Incremented(h) == lock[run[h].user].attempts + 1

\* mutant: the count is that of the request, read before
IncrementedAsRead(h) == run[h].sets.attempts + 1

Attempts(h) == Incremented(h)

Answers(h) ==
    guesses' = IF run[h].seen = NoCode THEN guesses
               ELSE [guesses EXCEPT ![run[h].seen] = @ + 1]

\* The increment is atomic, the decision to void the code is taken on its result.
Misses(h) ==
    LET u == run[h].user IN
    /\ run[h].at = "wrong"
    /\ lock' = [lock EXCEPT ![u].attempts = Attempts(h)]
    /\ IF Attempts(h) >= MAX_OTP_ATTEMPTS /\ lock[u].otp # NoCode
       THEN Goes(h, "void") /\ UNCHANGED guesses
       ELSE Ends(h) /\ Answers(h)
    /\ UNCHANGED <<now, limits, minted, mail, lost, calls>>

\* Whatever code stands now is voided, the one that was guessed or a later one.
Voids(h) ==
    /\ run[h].at = "void"
    /\ lock' = [lock EXCEPT ![run[h].user].otp = NoCode]
    /\ Ends(h) /\ Answers(h)
    /\ UNCHANGED <<now, limits, minted, mail, lost, calls>>

Disables(u) ==
    /\ calls < MaxCalls /\ calls' = calls + 1
    /\ lock' = [lock EXCEPT ![u].active = FALSE, ![u].otp = NoCode]
    /\ UNCHANGED <<now, limits, run, minted, mail, lost, guesses>>

-----------------------------------------------------------------------------

Tick ==
    /\ now < Horizon /\ now' = now + 1
    /\ UNCHANGED <<lock, limits, run, minted, mail, lost, guesses, calls>>

\* The invocation is killed, or a call of it throws.
Dies(h) ==
    /\ run[h].at # "idle"
    /\ lost' = IF run[h].at = "post" THEN lost \union {run[h].code} ELSE lost
    /\ Ends(h)
    /\ UNCHANGED <<now, lock, limits, minted, mail, guesses, calls>>

LimitNext(h) == OwnLimits(h) \/ Bumps(h) \/ Opens(h) \/ Counts(h) \/ FailsOpen(h)

LockNext(h) ==
    \/ \E u \in Users, p \in Partners : Locks(h, u, "partner", p, 0)
    \/ \E u \in Users, t \in Times : Locks(h, u, "date", Nobody, t)
    \/ \E u \in Users : Resends(h, u)
    \/ ReadsLock(h)
    \/ Writes(h)
    \/ Posts(h)

UnlockNext(h) ==
    \/ \E u \in Users, c \in inbox \union {NoCode} : Unlocks(h, u, c)
    \/ Decides(h)
    \/ Lifts(h)
    \/ Misses(h)
    \/ Voids(h)

Next ==
    \/ Tick
    \/ \E u \in Users : Disables(u)
    \/ \E h \in Handlers : LimitNext(h) \/ LockNext(h) \/ UnlockNext(h) \/ Dies(h)

Spec == Init /\ [][Next]_vars

-----------------------------------------------------------------------------

\* "protection on, nobody holding the key" (addiction-protection.ts:115): the code
\* of a partner's lock was handed to the mailer, or is about to be, unless the
\* request that wrote it died. A limit that refuses must do so before the write.
KeyIsPosted ==
    \A u \in Users :
        lock[u].active /\ lock[u].otp # NoCode =>
            \/ lock[u].otp \in posted \union lost
            \/ \E h \in Handlers : run[h].at = "post" /\ run[h].code = lock[u].otp

\* However the answers overlap, a code is guessed at no more often than the cap,
\* plus once for every other request that had read it before it was voided.
GuessesAreBounded ==
    \A c \in Codes : guesses[c] <= MAX_OTP_ATTEMPTS + Cardinality(Handlers) - 1

\* While a window stays open, every request but one may have found it closed and
\* start it anew, and lets those in that had bumped it but not yet read it: the
\* requests counted and let through are bounded nevertheless.
CapHolds ==
    LET n == Cardinality(Handlers) IN
    \A p \in Partners : passes[p] <= PerRecipient * n + (n * (n - 1)) \div 2

=============================================================================
