----------------------------- MODULE DeviceFocus -----------------------------
(***************************************************************************)
(* One account's devices and what they report of their focus: the device   *)
(* list, the focus events it credits, the live sessions the console can    *)
(* stop, and the invitations a session sends to the account's other        *)
(* devices.  Each request is a sequence of database calls that others run  *)
(* between, and may die after any of them.                                 *)
(*                                                                         *)
(* A batch of events is one request after another here.  A client sends an *)
(* event under an identity of its own and the end of a session with every  *)
(* invitation.  Push transport is module PushSends.                        *)
(***************************************************************************)
EXTENDS FiniteSets, Naturals

CONSTANTS
    Devices,
    Sessions, From,     \* the session's own device
    Events, By,         \* the device that reports the event
    Handlers,
    Nothing,
    MAX_DEVICES,
    MaxCalls

ASSUME FocusAssumption ==
    /\ From \in [Sessions -> Devices]
    /\ By \in [Events -> Devices]
    /\ Nothing \notin Devices \union Sessions \union Events
    /\ MAX_DEVICES \in Nat /\ MaxCalls \in Nat

VARIABLES
    listed,         \* the Device rows
    stored,         \* each FocusEvent: absent, or the version it was stored in
    parked,         \* the events with quarantined set
    row,            \* each LiveSession row: absent, live, or flagged forceEnd
    invite,         \* each FocusInvite row: absent, or its status
    past,           \* sessions whose endsAt has come
    buzzed,         \* invitations with a push accepted for delivery
    run,            \* what each request is doing
    calls,          \* requests made so far
    told,           \* answers to an invitation that were acknowledged
    closed,         \* sessions whose end ran with nothing else of theirs under way or since
    excused         \* events parked by a verdict that aged, or whose release failed

reports == <<stored, parked, excused>>
focus == <<row, invite, past, buzzed, told, closed>>
vars == <<listed, reports, focus, run, calls>>

Answers == {"accepted", "declined"}
Statuses == {"none", "pending", "cancelled"} \union Answers
Places == {"idle", "find", "create", "winner", "credit",
           "lookup", "judge", "store", "beat", "beatagain", "end", "cancel",
           "targets", "existing", "invite", "push", "answer"}

\* to: devices still to serve. seen: the invitations as this request knows them.
Handler == [at : Places, d : Devices \union {Nothing}, s : SUBSET Sessions,
            e : Events \union {Nothing}, v : {"v1", "v2"}, known : BOOLEAN,
            to : SUBSET Devices, seen : [Devices -> Statuses], as : Answers]
Idle == [at |-> "idle", d |-> Nothing, s |-> {}, e |-> Nothing, v |-> "v1", known |-> FALSE,
         to |-> {}, seen |-> [d \in Devices |-> "none"], as |-> "accepted"]

TypeOK ==
    /\ listed \subseteq Devices
    /\ stored \in [Events -> {"none", "v1", "v2"}]
    /\ parked \subseteq {e \in Events : stored[e] # "none"}
    /\ row \in [Sessions -> {"none", "live", "flagged"}]
    /\ invite \in [Sessions -> [Devices -> Statuses]]
    /\ \A s \in Sessions : invite[s][From[s]] = "none"
    /\ past \subseteq Sessions
    /\ buzzed \subseteq Sessions \X Devices
    /\ run \in [Handlers -> Handler]
    /\ calls \in 0 .. MaxCalls
    /\ told \subseteq Sessions \X Devices \X Answers
    /\ closed \subseteq Sessions
    /\ excused \subseteq Events

Init ==
    /\ listed \in SUBSET Devices
    /\ stored = [e \in Events |-> "none"] /\ parked = {} /\ excused = {}
    /\ row = [s \in Sessions |-> "none"]
    /\ invite = [s \in Sessions |-> [d \in Devices |-> "none"]]
    /\ past = {} /\ buzzed = {} /\ told = {} /\ closed = {}
    /\ run = [h \in Handlers |-> Idle]
    /\ calls = 0

Goes(h, place) == run' = [run EXCEPT ![h].at = place]
Ends(h) == run' = [run EXCEPT ![h] = Idle]
Arrives(h, fields) ==
    /\ run[h] = Idle
    /\ calls < MaxCalls /\ calls' = calls + 1
    /\ run' = [run EXCEPT ![h] = fields]

-----------------------------------------------------------------------------
(* The device list *)

Register(h, d) ==
    /\ Arrives(h, [Idle EXCEPT !.at = "find", !.d = d])
    /\ UNCHANGED <<listed, reports, focus>>

\* A listed device is only refreshed; the fiftieth is the last.
FindsDevice(h) ==
    /\ run[h].at = "find"
    /\ IF run[h].d \in listed \/ Cardinality(listed) >= MAX_DEVICES
       THEN Ends(h) ELSE Goes(h, "create")
    /\ UNCHANGED <<listed, reports, focus, calls>>

\* mutant: a device new to the account releases nothing
ListsOnly(h) ==
    /\ run[h].at = "create"
    /\ listed' = listed \union {run[h].d}
    /\ IF run[h].d \in listed THEN Goes(h, "winner") ELSE Ends(h)
    /\ UNCHANGED <<reports, focus, calls>>

Lists(h) ==
    /\ run[h].at = "create"
    /\ listed' = listed \union {run[h].d}
    /\ Goes(h, IF run[h].d \in listed THEN "winner" ELSE "credit")
    /\ UNCHANGED <<reports, focus, calls>>

\* The unique index let another registration through: its row, if it still is.
FindsWinner(h) ==
    /\ run[h].at = "winner"
    /\ IF run[h].d \in listed THEN Goes(h, "credit") ELSE Ends(h)
    /\ UNCHANGED <<listed, reports, focus, calls>>

Backlog(d) == {e \in parked : By[e] = d}

\* creditPendingEvents; its failure does not fail the registration.
Credits(h) ==
    /\ run[h].at = "credit"
    /\ \/ parked' = parked \ Backlog(run[h].d) /\ excused' = excused \ Backlog(run[h].d)
       \/ excused' = excused \union Backlog(run[h].d) /\ UNCHANGED parked
    /\ Ends(h)
    /\ UNCHANGED <<listed, stored, focus, calls>>

\* DELETE /devices/:deviceId, after its push tokens were silenced.
Remove(d) ==
    /\ d \in listed
    /\ calls < MaxCalls /\ calls' = calls + 1
    /\ listed' = listed \ {d}
    /\ UNCHANGED <<reports, focus, run>>

-----------------------------------------------------------------------------
(* Focus events: upsertFocusEvent and upsertFocusEventsV2 *)

Report(h, e, v) ==
    /\ Arrives(h, [Idle EXCEPT !.at = "lookup", !.e = e, !.v = v])
    /\ UNCHANGED <<listed, reports, focus>>

\* A copy there is deduplicated, or under v2 a v1 copy refused: no write either way.
LooksUp(h) ==
    /\ run[h].at = "lookup"
    /\ IF stored[run[h].e] = "none" THEN Goes(h, "judge") ELSE Ends(h)
    /\ UNCHANGED <<listed, reports, focus, calls>>

\* shouldQuarantine
Judges(h) ==
    /\ run[h].at = "judge"
    /\ run' = [run EXCEPT ![h].at = "store", ![h].known = By[run[h].e] \in listed]
    /\ UNCHANGED <<listed, reports, focus, calls>>

\* Under the deterministic id; a copy stored meanwhile stands.
Stores(h) ==
    /\ run[h].at = "store"
    /\ LET e == run[h].e IN
       IF stored[e] # "none" THEN UNCHANGED reports
       ELSE /\ stored' = [stored EXCEPT ![e] = run[h].v]
            /\ parked' = IF run[h].known THEN parked ELSE parked \union {e}
            /\ excused' = IF ~run[h].known /\ By[e] \in listed THEN excused \union {e} ELSE excused
    /\ Ends(h)
    /\ UNCHANGED <<listed, focus, calls>>

-----------------------------------------------------------------------------
(* Live sessions *)

\* A new request about the session unsettles its end.
Unsettles(ss) == closed' = closed \ ss

\* existing is what was read before the write; only its flag is answered.
Beat(h, s) ==
    /\ Arrives(h, [Idle EXCEPT !.at = "beat", !.s = {s}])
    /\ Unsettles({s})
    /\ UNCHANGED <<listed, reports, row, invite, past, buzzed, told>>

\* The emulated upsert may also collide with another first beat.
Upserts(h) ==
    /\ run[h].at = "beat"
    /\ \E s \in run[h].s :
        \/ /\ row' = [row EXCEPT ![s] = IF @ = "none" THEN "live" ELSE @]
           /\ Ends(h)
        \/ /\ row[s] # "none"
           /\ Goes(h, "beatagain")
           /\ UNCHANGED row
    /\ UNCHANGED <<listed, reports, invite, past, buzzed, told, closed, calls>>

\* updateMany: nothing, if the session ended in between.
BeatsAgain(h) ==
    /\ run[h].at = "beatagain"
    /\ Ends(h)
    /\ UNCHANGED <<listed, reports, focus, calls>>

\* One session, or whatever the device was running.
End(h, ss) ==
    /\ Arrives(h, [Idle EXCEPT !.at = "end", !.s = ss])
    /\ UNCHANGED <<listed, reports, focus>>

Concerns(h, s) ==
    s \in run[h].s /\ run[h].at \in {"beat", "beatagain", "targets", "existing", "invite", "push"}

Deletes(h) ==
    /\ run[h].at = "end"
    /\ row' = [s \in Sessions |-> IF s \in run[h].s THEN "none" ELSE row[s]]
    /\ closed' = closed \union {s \in run[h].s : ~\E g \in Handlers : Concerns(g, s)}
    /\ Goes(h, "cancel")
    /\ UNCHANGED <<listed, reports, invite, past, buzzed, told, calls>>

\* mutant: invitations whose session still has its row are left
CancelsGhosts(h) ==
    /\ run[h].at = "cancel"
    /\ invite' = [s \in Sessions |-> [d \in Devices |->
                    IF s \in run[h].s /\ row[s] # "none" /\ invite[s][d] = "pending"
                    THEN "cancelled" ELSE invite[s][d]]]
    /\ Ends(h)
    /\ UNCHANGED <<listed, reports, row, past, buzzed, told, closed, calls>>

Cancels(h) ==
    /\ run[h].at = "cancel"
    /\ invite' = [s \in Sessions |-> [d \in Devices |->
                    IF s \in run[h].s /\ invite[s][d] = "pending" THEN "cancelled" ELSE invite[s][d]]]
    /\ Ends(h)
    /\ UNCHANGED <<listed, reports, row, past, buzzed, told, closed, calls>>

\* The console: force-end, and removal of a stale row.
ForceEnd(s) ==
    /\ row[s] = "live"
    /\ row' = [row EXCEPT ![s] = "flagged"]
    /\ UNCHANGED <<listed, reports, invite, past, buzzed, told, closed, run, calls>>

DeleteRow(s) ==
    /\ row[s] # "none"
    /\ row' = [row EXCEPT ![s] = "none"]
    /\ UNCHANGED <<listed, reports, invite, past, buzzed, told, closed, run, calls>>

-----------------------------------------------------------------------------
(* Invitations *)

The(ss) == CHOOSE s \in ss : TRUE

Invite(h, s, to) ==
    /\ s \notin past
    /\ Arrives(h, [Idle EXCEPT !.at = "targets", !.s = {s}, !.to = to])
    /\ Unsettles({s})
    /\ UNCHANGED <<listed, reports, row, invite, past, buzzed, told>>

\* Only devices of the account, and never the one that asks.
FindsTargets(h) ==
    /\ run[h].at = "targets"
    /\ LET to == (run[h].to \intersect listed) \ {From[The(run[h].s)]}
       IN IF to = {} THEN Ends(h)
          ELSE run' = [run EXCEPT ![h].at = "existing", ![h].to = to]
    /\ UNCHANGED <<listed, reports, focus, calls>>

ReadsExisting(h) ==
    /\ run[h].at = "existing"
    /\ run' = [run EXCEPT ![h].at = "invite", ![h].seen = invite[The(run[h].s)]]
    /\ UNCHANGED <<listed, reports, focus, calls>>

Uninvited(h) == {d \in run[h].to : run[h].seen[d] = "none"}

\* One row under its deterministic id; where another request made it, that row.
Invites(h) ==
    /\ run[h].at = "invite"
    /\ \E d \in Uninvited(h) :
        LET s == The(run[h].s)
            is == IF invite[s][d] = "none" THEN "pending" ELSE invite[s][d]
        IN /\ invite' = [invite EXCEPT ![s][d] = is]
           /\ run' = [run EXCEPT ![h].seen[d] = is]
    /\ UNCHANGED <<listed, reports, row, past, buzzed, told, closed, calls>>

\* Pushes come strictly after the rows.
AllInvited(h) ==
    /\ run[h].at = "invite"
    /\ Uninvited(h) = {}
    /\ Goes(h, "push")
    /\ UNCHANGED <<listed, reports, focus, calls>>

\* A row known as pending is pushed, once per device and session; a push may
\* fail, and a device may have nothing to push to.
Pushes(h) ==
    /\ run[h].at = "push"
    /\ \E d \in run[h].to :
        /\ run' = [run EXCEPT ![h].to = @ \ {d}]
        /\ \/ /\ run[h].seen[d] = "pending" /\ The(run[h].s) \notin past
              /\ buzzed' = buzzed \union {<<The(run[h].s), d>>}
           \/ UNCHANGED buzzed
    /\ UNCHANGED <<listed, reports, row, invite, past, told, closed, calls>>

AllPushed(h) ==
    /\ run[h].at = "push"
    /\ run[h].to = {}
    /\ Ends(h)
    /\ UNCHANGED <<listed, reports, focus, calls>>

\* POST /:id/accept and /:id/decline, from the device the invitation is to.
Answer(h, s, d, as) ==
    /\ invite[s][d] # "none"
    /\ s \notin past
    /\ IF invite[s][d] = "pending"
       THEN /\ Arrives(h, [Idle EXCEPT !.at = "answer", !.d = d, !.s = {s}, !.as = as])
            /\ UNCHANGED told
       ELSE \* the same answer again is acknowledged, another refused
            /\ invite[s][d] = as
            /\ told' = told \union {<<s, d, as>>}
            /\ UNCHANGED <<run, calls>>
    /\ UNCHANGED <<listed, reports, row, invite, past, buzzed, closed>>

\* mutant: an update by id alone
AnswersBlindly(h) ==
    /\ run[h].at = "answer"
    /\ LET s == The(run[h].s) d == run[h].d IN
       /\ invite' = [invite EXCEPT ![s][d] = run[h].as]
       /\ told' = told \union {<<s, d, run[h].as>>}
    /\ Ends(h)
    /\ UNCHANGED <<listed, reports, row, past, buzzed, closed, calls>>

\* Only what is still pending and live is answered.
RecordsAnswer(h) ==
    /\ run[h].at = "answer"
    /\ LET s == The(run[h].s) d == run[h].d IN
       IF invite[s][d] = "pending" /\ s \notin past
       THEN /\ invite' = [invite EXCEPT ![s][d] = run[h].as]
            /\ told' = told \union {<<s, d, run[h].as>>}
       ELSE UNCHANGED <<invite, told>>
    /\ Ends(h)
    /\ UNCHANGED <<listed, reports, row, past, buzzed, closed, calls>>

-----------------------------------------------------------------------------
Deadline(s) ==
    /\ s \notin past
    /\ past' = past \union {s}
    /\ UNCHANGED <<listed, reports, row, invite, buzzed, told, closed, run, calls>>

\* The process stops, or the database refuses the next call.
Dies(h) ==
    /\ run[h] # Idle
    /\ Ends(h)
    /\ closed' = IF run[h].at = "cancel" THEN closed \ run[h].s ELSE closed
    /\ excused' = IF run[h].at = "credit" THEN excused \union Backlog(run[h].d) ELSE excused
    /\ UNCHANGED <<listed, stored, parked, row, invite, past, buzzed, told, calls>>

RegisterNext(h) ==
    \/ \E d \in Devices : Register(h, d)
    \/ FindsDevice(h) \/ Lists(h) \/ FindsWinner(h) \/ Credits(h)
ReportNext(h) ==
    \/ \E e \in Events, v \in {"v1", "v2"} : Report(h, e, v)
    \/ LooksUp(h) \/ Judges(h) \/ Stores(h)
SessionNext(h) ==
    \/ \E s \in Sessions : Beat(h, s)
    \/ Upserts(h) \/ BeatsAgain(h)
    \/ \E s \in Sessions : End(h, {s})
    \/ \E d \in Devices : End(h, {s \in Sessions : From[s] = d})
    \/ Deletes(h) \/ Cancels(h)
InviteNext(h) ==
    \/ \E s \in Sessions, to \in SUBSET Devices \ {{}} : Invite(h, s, to)
    \/ FindsTargets(h) \/ ReadsExisting(h) \/ Invites(h) \/ AllInvited(h) \/ Pushes(h) \/ AllPushed(h)
    \/ \E s \in Sessions, d \in Devices, as \in Answers : Answer(h, s, d, as)
    \/ RecordsAnswer(h)

Next ==
    \/ \E h \in Handlers : RegisterNext(h) \/ ReportNext(h) \/ SessionNext(h) \/ InviteNext(h) \/ Dies(h)
    \/ \E d \in Devices : Remove(d)
    \/ \E s \in Sessions : ForceEnd(s) \/ DeleteRow(s) \/ Deadline(s)

Spec == Init /\ [][Next]_vars

-----------------------------------------------------------------------------
(* Properties *)

\* What a device was told of its answer stays so: whatever races it -- the
\* other answer, the end of the session, a retried invitation -- an
\* acknowledged answer is the row's status from then on.
AnswersAreTrue == \A t \in told : invite[t[1]][t[2]] = t[3]

\* An end that nothing about its session overlapped or followed leaves neither
\* a live row nor an invitation waiting.
EndSweeps ==
    \A s \in closed :
        \/ \E h \in Handlers : run[h].at = "cancel" /\ s \in run[h].s
        \/ row[s] = "none" /\ \A d \in Devices : invite[s][d] # "pending"

\* Events of a listed device count: one is parked only while a registration is
\* about to release it, when its verdict aged before it was stored, or when
\* the release itself failed.
CreditIsReleased ==
    \A e \in parked \ excused :
        \/ By[e] \notin listed
        \/ \E h \in Handlers : run[h].at = "credit" /\ run[h].d = By[e]

=============================================================================
