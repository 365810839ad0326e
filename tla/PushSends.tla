------------------------------ MODULE PushSends ------------------------------
(***************************************************************************)
(* The daily motivation push to one account's phone: the settings, the     *)
(* scheduled drain that claims a day and sends, the push tokens the phone  *)
(* registers, rotates and loses, and the provider's late receipts.  Every  *)
(* handler is a sequence of database and provider calls that others run    *)
(* between, and may die after any of them.                                 *)
(*                                                                         *)
(* Time is a clock of a few ticks: one slot a day, stale at the next tick; *)
(* a receipt can be read one tick after its delivery and for a day.  The   *)
(* time zone is fixed, and which weekdays are chosen is left open: the     *)
(* next slot is any later one.  Texts, dispatch rules and the registration *)
(* of device rows (module DeviceFocus) are left out.                       *)
(***************************************************************************)
EXTENDS Naturals, FiniteSets

CONSTANTS
    Tokens,         \* push tokens the phone is ever given
    Handlers,
    Nothing,
    DAY,            \* ticks in a day
    Horizon, MaxCalls

ASSUME SendsAssumption ==
    /\ DAY \in Nat \ {0, 1}
    /\ Nothing \notin Tokens
    /\ Horizon \in Nat /\ MaxCalls \in Nat

VARIABLES
    now,
    listed,         \* the phone's Device row exists
    token,          \* the PushToken rows
    pref,           \* the MotivationPreference row
    sends,          \* the MotivationSend rows, by local date
    log,            \* the NotificationDelivery rows
    pushes,         \* calls of sendExpoPush, by date; it retries one transport failure itself
    run,            \* what each handler is doing
    calls,          \* requests and scheduled runs so far
    out             \* an opt-out was acknowledged, alone, and nobody opted in since

settings == <<pref, out>>
phone == <<listed, token>>
sending == <<sends, log, pushes>>
vars == <<now, phone, settings, sending, run, calls>>

Times == 0 .. Horizon
Days == {t \div DAY : t \in Times}
DayOf(t) == t \div DAY
Slots == {t \in Times : t % DAY = 1}

\* nextMotivationAt: a later slot, or none when no weekday is chosen.
NextAt(after) == {t \in Slots : t > after} \union {0}

\* why: disabledReason. at: updatedAt, of a registration or of what disabled it.
Token == [is : {"none", "valid", "off"}, why : {"none", "replaced", "removed", "dead"}, at : Times]
Preference == [is : BOOLEAN, enabled : BOOLEAN, next : Times]
\* late: claimed after an opt-out nobody has taken back since
Send == [status : {"none", "reserved", "cancelled", "sent", "failed"}, late : BOOLEAN]
Delivery == [day : Days, token : Tokens, at : Times,
             status : {"sent", "error", "provider_confirmed", "receipt_missing"}]

Places == {"idle", "retire", "remove", "first", "context", "choose",
           "weigh", "claim", "recheck", "cancel", "send", "record", "prune", "mark", "advance",
           "receipts"}

\* began: when the drain, the registration or the send began. slot: scheduledAt, or
\* the nextSendAt to write. on: enabled, as read or asked for. rows: deliveries listed.
Handler == [at : Places, t : Tokens \union {Nothing}, began : Times, slot : Times, on : BOOLEAN,
            result : {"sent", "error", "dead"}, rows : SUBSET Delivery]
Idle == [at |-> "idle", t |-> Nothing, began |-> 0, slot |-> 0, on |-> FALSE,
         result |-> "error", rows |-> {}]

TypeOK ==
    /\ now \in Times
    /\ listed \in BOOLEAN
    /\ token \in [Tokens -> Token]
    /\ \A t \in Tokens : (token[t].is = "off") = (token[t].why # "none")
    /\ pref \in Preference
    /\ sends \in [Days -> Send]
    /\ log \subseteq Delivery
    /\ \A d \in log : sends[d.day].status # "none"
    /\ pushes \in [Days -> 0 .. 2]
    /\ \A h \in Handlers : run[h] \in Handler
    /\ calls \in 0 .. MaxCalls
    /\ out \in BOOLEAN

Init ==
    /\ now = 0
    /\ listed \in BOOLEAN
    /\ token = [t \in Tokens |-> [is |-> "none", why |-> "none", at |-> 0]]
    /\ pref = [is |-> FALSE, enabled |-> FALSE, next |-> 0]
    /\ sends = [d \in Days |-> [status |-> "none", late |-> FALSE]]
    /\ log = {} /\ pushes = [d \in Days |-> 0]
    /\ run = [h \in Handlers |-> Idle]
    /\ calls = 0 /\ out = FALSE

Goes(h, place) == run' = [run EXCEPT ![h].at = place]
Ends(h) == run' = [run EXCEPT ![h] = Idle]
Arrives(h, fields) ==
    /\ run[h] = Idle
    /\ calls < MaxCalls /\ calls' = calls + 1
    /\ run' = [run EXCEPT ![h] = fields]

-----------------------------------------------------------------------------
(* Push tokens *)

Disable(ts, reason) ==
    token' = [t \in Tokens |-> IF t \in ts THEN [is |-> "off", why |-> reason, at |-> now] ELSE token[t]]

\* mutant: a revived token keeps the reason it was disabled for
RevivesToken(h, t) ==
    /\ Arrives(h, [Idle EXCEPT !.at = "retire", !.t = t, !.began = now])
    /\ token' = [token EXCEPT ![t].is = "valid", ![t].at = now]
    /\ UNCHANGED <<now, listed, settings, sending>>

\* POST /notifications/token: the upsert, which revives the token
RegisterToken(h, t) ==
    /\ Arrives(h, [Idle EXCEPT !.at = "retire", !.t = t, !.began = now])
    /\ token' = [token EXCEPT ![t] = [is |-> "valid", why |-> "none", at |-> now]]
    /\ UNCHANGED <<now, listed, settings, sending>>

Others(h) == {t \in Tokens \ {run[h].t} : token[t].is = "valid"}

\* mutant: every other token of the device, whenever it was registered
RetiresAll(h) ==
    /\ run[h].at = "retire"
    /\ Disable(Others(h), "replaced")
    /\ Ends(h)
    /\ UNCHANGED <<now, listed, settings, sending, calls>>

\* retirePreviousTokens: those registered strictly before
Retires(h) ==
    /\ run[h].at = "retire"
    /\ Disable({t \in Others(h) : token[t].at < run[h].began}, "replaced")
    /\ Ends(h)
    /\ UNCHANGED <<now, listed, settings, sending, calls>>

\* DELETE /devices/:deviceId: first its tokens, then its row
Silence(h) ==
    /\ Arrives(h, [Idle EXCEPT !.at = "remove"])
    /\ Disable({t \in Tokens : token[t].is = "valid"}, "removed")
    /\ UNCHANGED <<now, listed, settings, sending>>

Removes(h) ==
    /\ run[h].at = "remove"
    /\ listed' = FALSE
    /\ Ends(h)
    /\ UNCHANGED <<now, token, settings, sending, calls>>

Enlist ==
    /\ ~listed
    /\ calls < MaxCalls /\ calls' = calls + 1
    /\ listed' = TRUE
    /\ UNCHANGED <<now, token, settings, sending, run>>

-----------------------------------------------------------------------------
(* Settings: saveMotivationContext and saveMotivationChoices *)

\* nextUnsentAt: not today again, once today is claimed
NextUnsent == NextAt(IF sends[DayOf(now)].status = "none" THEN now ELSE DAY * (DayOf(now) + 1) - 1)
NextIf(enabled) == IF enabled THEN NextUnsent ELSE {0}

\* The phone reports its time zone; nothing to write when nothing changed.
Context(h) ==
    /\ \E slot \in NextIf(~pref.is \/ pref.enabled) :
        Arrives(h, [Idle EXCEPT !.at = IF pref.is THEN "context" ELSE "first", !.slot = slot])
    /\ UNCHANGED <<now, phone, settings, sending>>

\* The default row; another first registration's is read again and kept.
Creates(h) ==
    /\ run[h].at = "first"
    /\ IF pref.is
       THEN /\ \E slot \in NextIf(pref.enabled) :
                run' = [run EXCEPT ![h].at = "context", ![h].slot = slot]
            /\ UNCHANGED pref
       ELSE /\ pref' = [is |-> TRUE, enabled |-> TRUE, next |-> run[h].slot]
            /\ Ends(h)
    /\ UNCHANGED <<now, phone, sending, calls, out>>

SavesContext(h) ==
    /\ run[h].at = "context"
    /\ pref' = [pref EXCEPT !.next = run[h].slot]
    /\ Ends(h)
    /\ UNCHANGED <<now, phone, sending, calls, out>>

\* PATCH /motivation: on, off, or the weekdays with enabled as read
Choose(h, on) ==
    /\ pref.is
    /\ \E slot \in NextIf(on) :
        Arrives(h, [Idle EXCEPT !.at = "choose", !.on = on, !.slot = slot])
    /\ out' = (out /\ ~on)
    /\ sends' = [d \in Days |-> [sends[d] EXCEPT !.late = @ /\ ~on]]
    /\ UNCHANGED <<now, phone, pref, log, pushes>>

SavesChoices(h) ==
    /\ run[h].at = "choose"
    /\ pref' = [pref EXCEPT !.enabled = run[h].on, !.next = run[h].slot]
    /\ out' = (out \/ (~run[h].on /\ \A g \in Handlers \ {h} : run[g].at # "choose"))
    /\ Ends(h)
    /\ UNCHANGED <<now, phone, sending, calls>>

-----------------------------------------------------------------------------
(* drainMotivationReminders *)

Drain(h) ==
    /\ pref.is /\ pref.enabled /\ pref.next \in 1 .. now
    /\ Arrives(h, [Idle EXCEPT !.at = "weigh", !.began = now, !.slot = pref.next])
    /\ UNCHANGED <<now, phone, settings, sending>>

\* activePhoneToken: the token registered last whose device is on the account
Active(t) == listed /\ token[t].is = "valid"
Latest == {t \in Tokens : Active(t) /\ \A u \in Tokens : Active(u) => token[u].at <= token[t].at}

\* A stale slot is skipped, and so are a day already focused on and an
\* account without a phone.
Weighs(h) ==
    /\ run[h].at = "weigh"
    /\ \/ Goes(h, "advance")
       \/ /\ run[h].began = run[h].slot
          /\ \E t \in Latest : run' = [run EXCEPT ![h].at = "claim", ![h].t = t]
    /\ UNCHANGED <<now, phone, settings, sending, calls>>

Today(h) == DayOf(run[h].slot)

\* One row per account and date; the loser only advances.
Claims(h) ==
    /\ run[h].at = "claim"
    /\ IF sends[Today(h)].status = "none"
       THEN /\ sends' = [sends EXCEPT ![Today(h)] = [status |-> "reserved", late |-> out]]
            /\ Goes(h, "recheck")
       ELSE Goes(h, "advance") /\ UNCHANGED sends
    /\ UNCHANGED <<now, phone, settings, log, pushes, calls>>

\* mutant: only the slot is looked at again
RechecksSlot(h) ==
    /\ run[h].at = "recheck"
    /\ Goes(h, IF pref.next \in {0, run[h].slot} THEN "send" ELSE "cancel")
    /\ UNCHANGED <<now, phone, settings, sending, calls>>

\* The settings may have changed since the row was listed.
Rechecks(h) ==
    /\ run[h].at = "recheck"
    /\ Goes(h, IF pref.enabled /\ pref.next = run[h].slot THEN "send" ELSE "cancel")
    /\ UNCHANGED <<now, phone, settings, sending, calls>>

Marks(h, place, status) ==
    /\ run[h].at = place
    /\ sends' = [sends EXCEPT ![Today(h)].status = status]
    /\ Goes(h, "advance")
    /\ UNCHANGED <<now, phone, settings, log, pushes, calls>>

Cancels(h) == Marks(h, "cancel", "cancelled")

\* Deliveries that went out, by the dedupe key
Seen(day) == {d \in log : d.day = day /\ d.status \in {"sent", "provider_confirmed", "receipt_missing"}}

\* What the provider answers for a message. Nothing comes back when both attempts to
\* post the chunk fail, or when the answer is shorter than the chunk.
Tickets == {"ok", "ok without an id", "refused", "DeviceNotRegistered"}
Returned == Tickets \union {"no ticket"}

\* sendExpoPush: only a ticket with an id is a push that went out.
ResultOf(ticket) ==
    CASE ticket = "ok"                  -> "sent"
      [] ticket = "DeviceNotRegistered" -> "dead"
      [] OTHER                          -> "error"

\* deliver: unless the key was seen, the provider is asked.
Sends(h) ==
    /\ run[h].at = "send"
    /\ IF Seen(Today(h)) # {} THEN Goes(h, "mark") /\ UNCHANGED pushes
       ELSE /\ pushes' = [pushes EXCEPT ![Today(h)] = IF @ < 2 THEN @ + 1 ELSE @]
            /\ \E ticket \in Returned :
                run' = [run EXCEPT ![h].at = "record", ![h].began = now,
                                   ![h].result = ResultOf(ticket)]
    /\ UNCHANGED <<now, phone, settings, sends, log, calls>>

Records(h) ==
    /\ run[h].at = "record"
    /\ log' = log \union {[day |-> Today(h), token |-> run[h].t, at |-> now,
                           status |-> IF run[h].result = "sent" THEN "sent" ELSE "error"]}
    /\ Goes(h, IF run[h].result = "dead" THEN "prune" ELSE "mark")
    /\ UNCHANGED <<now, phone, settings, sends, pushes, calls>>

\* A token gone at the provider is disabled unless registered since the send began.
Prunes(h) ==
    /\ run[h].at = "prune"
    /\ Disable({t \in {run[h].t} : token[t].at <= run[h].began}, "dead")
    /\ Goes(h, "mark")
    /\ UNCHANGED <<now, listed, settings, sending, calls>>

MarksSent(h) == Marks(h, "mark", IF run[h].result = "sent" THEN "sent" ELSE "failed")

\* The finally block, unless the settings have moved the slot.
Advances(h) ==
    /\ run[h].at = "advance"
    /\ \/ /\ pref.next = run[h].slot
          /\ \E slot \in NextAt(IF run[h].began > run[h].slot THEN run[h].began ELSE run[h].slot) :
                pref' = [pref EXCEPT !.next = slot]
       \/ pref.next # run[h].slot /\ UNCHANGED pref
    /\ Ends(h)
    /\ UNCHANGED <<now, phone, sending, calls, out>>

-----------------------------------------------------------------------------
(* checkNotificationReceipts *)

\* Too old: closed without a verdict. The rest of an age to have a receipt is listed.
CheckReceipts(h) ==
    /\ \E d \in log : d.status = "sent"
    /\ LET open == {d \in log : d.status = "sent"}
           old == {d \in open : d.at + DAY < now}
       IN /\ Arrives(h, [Idle EXCEPT !.at = "receipts", !.rows = {d \in open \ old : d.at < now}])
          /\ log' = (log \ old) \union {[d EXCEPT !.status = "receipt_missing"] : d \in old}
    /\ UNCHANGED <<now, phone, settings, sends, pushes>>

Settles(d, status) ==
    log' = IF d \in log THEN (log \ {d}) \union {[d EXCEPT !.status = status]} ELSE log

\* No receipt yet, a confirmation, a rejection, or a token gone: disabled unless
\* registered since the delivery was recorded.
ReadsReceipt(h) ==
    /\ run[h].at = "receipts"
    /\ \E d \in run[h].rows :
        /\ run' = [run EXCEPT ![h].rows = @ \ {d}]
        /\ \/ UNCHANGED <<log, token>>
           \/ Settles(d, "provider_confirmed") /\ UNCHANGED token
           \/ Settles(d, "error") /\ UNCHANGED token
           \/ /\ Settles(d, "error")
              /\ Disable({t \in {d.token} : token[t].at <= d.at}, "dead")
    /\ UNCHANGED <<now, listed, settings, sends, pushes, calls>>

AllRead(h) ==
    /\ run[h].at = "receipts"
    /\ run[h].rows = {}
    /\ Ends(h)
    /\ UNCHANGED <<now, phone, settings, sending, calls>>

-----------------------------------------------------------------------------
Tick ==
    /\ now < Horizon
    /\ now' = now + 1
    /\ UNCHANGED <<phone, settings, sending, run, calls>>

\* The process stops. An exception in a drain still runs its finally block.
Dies(h) ==
    /\ run[h] # Idle
    /\ \/ Ends(h)
       \/ /\ run[h].at \in {"weigh", "claim", "recheck", "cancel", "send", "record", "prune", "mark"}
          /\ Goes(h, "advance")
    /\ UNCHANGED <<now, phone, settings, sending, calls>>

PhoneNext(h) ==
    \/ \E t \in Tokens : RegisterToken(h, t)
    \/ Retires(h) \/ Silence(h) \/ Removes(h)
SettingsNext(h) ==
    \/ Context(h) \/ Creates(h) \/ SavesContext(h)
    \/ Choose(h, TRUE) \/ Choose(h, FALSE) \/ Choose(h, pref.enabled)
    \/ SavesChoices(h)
DrainNext(h) ==
    \/ Drain(h) \/ Weighs(h) \/ Claims(h) \/ Rechecks(h) \/ Cancels(h)
    \/ Sends(h) \/ Records(h) \/ Prunes(h) \/ MarksSent(h) \/ Advances(h)
ReceiptsNext(h) == CheckReceipts(h) \/ ReadsReceipt(h) \/ AllRead(h)

Next ==
    \/ \E h \in Handlers : PhoneNext(h) \/ SettingsNext(h) \/ DrainNext(h) \/ ReceiptsNext(h) \/ Dies(h)
    \/ Enlist \/ Tick

Spec == Init /\ [][Next]_vars

-----------------------------------------------------------------------------
(* Properties *)

\* Overlapping drains, retries and deaths ask the provider for at most one
\* push a day, and none goes out for a day claimed after an acknowledged
\* opt-out, which no other write undoes and until the user opts in again.
WantedOnce ==
    /\ \A d \in Days : pushes[d] <= 1
    /\ \A d \in Days : sends[d].late => sends[d].status # "sent"
    /\ out => ~pref.enabled

\* However registrations overlap, they do not retire each other: of the tokens
\* the phone registered one is valid, unless a removal or the provider's
\* verdict disabled one.
StaysReachable ==
    (\E t \in Tokens : token[t].is # "none")
        => \E t \in Tokens : token[t].is = "valid" \/ token[t].why \in {"removed", "dead"}

=============================================================================
