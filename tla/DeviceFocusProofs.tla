-------------------------- MODULE DeviceFocusProofs --------------------------
(***************************************************************************)
(* Theorems about DeviceFocus, for any devices, sessions, events and       *)
(* handlers and any number of requests.                                    *)
(***************************************************************************)
EXTENDS DeviceFocus, TLAPS

USE FocusAssumption DEF reports, focus

-----------------------------------------------------------------------------
(* Type correctness: a request has the fields its place needs. *)

AboutOne == {"beat", "beatagain", "targets", "existing", "invite", "push", "answer"}

Placed(r) ==
    /\ r.at \in {"find", "create", "winner", "credit", "answer"} => r.d \in Devices
    /\ r.at \in {"lookup", "judge", "store"} => r.e \in Events
    /\ r.at \in AboutOne => \E s \in Sessions : r.s = {s}
    /\ r.at \in {"existing", "invite"} => From[The(r.s)] \notin r.to

TypeInv == TypeOK /\ \A h \in Handlers : Placed(run[h])

LEMMA TheOne == ASSUME NEW s PROVE The({s}) = s
BY DEF The

\* The session of a request about one.
LEMMA ItsSession ==
    ASSUME NEW r, Placed(r), r.at \in AboutOne
    PROVE  The(r.s) \in Sessions /\ r.s = {The(r.s)}
BY TheOne DEF Placed

LEMMA IdleRequest == Idle \in Handler /\ Placed(Idle) /\ Idle.at = "idle"
BY DEF Idle, Handler, Places, Answers, Statuses, Placed, AboutOne

\* A step that leaves every request well placed need only type the other variables.
LEMMA RunStep ==
    ASSUME TypeInv, NEW h \in Handlers, NEW r \in Handler, Placed(r), run' = [run EXCEPT ![h] = r]
    PROVE  run' \in [Handlers -> Handler] /\ \A g \in Handlers : Placed(run'[g])
BY DEF TypeInv, TypeOK

LEMMA EndStep ==
    ASSUME TypeInv, NEW h \in Handlers, Ends(h)
    PROVE  run' \in [Handlers -> Handler] /\ \A g \in Handlers : Placed(run'[g])
BY RunStep, IdleRequest DEF Ends

LEMMA GoStep ==
    ASSUME TypeInv, NEW h \in Handlers, NEW place \in Places, Goes(h, place),
           Placed([run[h] EXCEPT !.at = place])
    PROVE  run' \in [Handlers -> Handler] /\ \A g \in Handlers : Placed(run'[g])
<1>1. [run[h] EXCEPT !.at = place] \in Handler
    <2>1. run[h] \in Handler
        BY DEF TypeInv, TypeOK
    <2> QED BY <2>1 DEF Handler
<1>2. run' = [run EXCEPT ![h] = [run[h] EXCEPT !.at = place]]
    BY DEF Goes
<1> QED BY <1>1, <1>2, RunStep

LEMMA ArriveStep ==
    ASSUME TypeInv, NEW h \in Handlers, NEW r \in Handler, Placed(r), Arrives(h, r)
    PROVE  /\ run' \in [Handlers -> Handler] /\ \A g \in Handlers : Placed(run'[g])
           /\ calls' \in 0 .. MaxCalls
<1>1. calls' \in 0 .. MaxCalls
    BY DEF TypeInv, TypeOK, Arrives
<1> QED BY <1>1, RunStep DEF Arrives

LEMMA InitType == Init => TypeInv
<1> SUFFICES ASSUME Init PROVE TypeInv
    OBVIOUS
<1>1. \A h \in Handlers : run[h] \in Handler /\ Placed(run[h])
    BY IdleRequest DEF Init
<1> QED BY <1>1, IdleRequest DEF Init, TypeInv, TypeOK, Statuses, Answers

\* The device list and the events.
LEMMA RegisterType ==
    ASSUME TypeInv, NEW h \in Handlers, RegisterNext(h) PROVE TypeInv'
<1> USE DEF TypeInv
<1>1. ASSUME NEW d \in Devices, Register(h, d) PROVE TypeInv'
    <2>1. [Idle EXCEPT !.at = "find", !.d = d] \in Handler
        BY DEF Idle, Handler, Places, Answers, Statuses
    <2>2. Placed([Idle EXCEPT !.at = "find", !.d = d])
        BY DEF Idle, Placed, AboutOne
    <2> QED BY <1>1, <2>1, <2>2, ArriveStep DEF Register, TypeOK
<1>2. ASSUME FindsDevice(h) PROVE TypeInv'
    <2>1. Placed([run[h] EXCEPT !.at = "create"])
        BY <1>2 DEF FindsDevice, TypeOK, Handler, Placed, AboutOne
    <2> QED BY <1>2, <2>1, EndStep, GoStep DEF FindsDevice, TypeOK, Places
<1>3. ASSUME Lists(h) PROVE TypeInv'
    <2>1. run[h].d \in Devices
        BY <1>3 DEF Lists, Placed
    <2>2. \A p \in {"winner", "credit"} : Placed([run[h] EXCEPT !.at = p])
        BY <1>3, <2>1 DEF Lists, TypeOK, Handler, Placed, AboutOne
    <2>3. run' \in [Handlers -> Handler] /\ \A g \in Handlers : Placed(run'[g])
        BY <1>3, <2>2, GoStep DEF Lists, Places
    <2> QED BY <1>3, <2>1, <2>3 DEF Lists, TypeOK
<1>4. ASSUME FindsWinner(h) PROVE TypeInv'
    <2>1. Placed([run[h] EXCEPT !.at = "credit"])
        BY <1>4 DEF FindsWinner, TypeOK, Handler, Placed, AboutOne
    <2> QED BY <1>4, <2>1, EndStep, GoStep DEF FindsWinner, TypeOK, Places
<1>5. ASSUME Credits(h) PROVE TypeInv'
    BY <1>5, EndStep DEF Credits, TypeOK, Backlog
<1> QED BY <1>1, <1>2, <1>3, <1>4, <1>5 DEF RegisterNext

LEMMA ReportType ==
    ASSUME TypeInv, NEW h \in Handlers, ReportNext(h) PROVE TypeInv'
<1> USE DEF TypeInv
<1>1. ASSUME NEW e \in Events, NEW v \in {"v1", "v2"}, Report(h, e, v) PROVE TypeInv'
    <2> DEFINE r == [Idle EXCEPT !.at = "lookup", !.e = e, !.v = v]
    <2>1. r \in Handler
        BY DEF Idle, Handler, Places, Answers, Statuses
    <2>2. Placed(r)
        BY DEF Idle, Placed, AboutOne
    <2> QED BY <1>1, <2>1, <2>2, ArriveStep DEF Report, TypeOK
<1>2. ASSUME LooksUp(h) PROVE TypeInv'
    <2>1. Placed([run[h] EXCEPT !.at = "judge"])
        BY <1>2 DEF LooksUp, TypeOK, Handler, Placed, AboutOne
    <2> QED BY <1>2, <2>1, EndStep, GoStep DEF LooksUp, TypeOK, Places
<1>3. ASSUME Judges(h) PROVE TypeInv'
    <2> DEFINE r == [run[h] EXCEPT !.at = "store", !.known = By[run[h].e] \in listed]
    <2>1. r \in Handler
        <3>1. run[h] \in Handler
            BY DEF TypeOK
        <3>2. \A b \in BOOLEAN : [run[h] EXCEPT !.at = "store", !.known = b] \in Handler
            BY <3>1 DEF Handler, Places
        <3>3. (By[run[h].e] \in listed) \in BOOLEAN
            OBVIOUS
        <3> QED BY <3>2, <3>3
    <2>2. Placed(r)
        BY <1>3 DEF Judges, TypeOK, Handler, Placed, AboutOne
    <2>3. run' = [run EXCEPT ![h] = r]
        BY <1>3 DEF Judges
    <2> QED BY <1>3, <2>1, <2>2, <2>3, RunStep DEF Judges, TypeOK
<1>4. ASSUME Stores(h) PROVE TypeInv'
    <2>1. run[h].e \in Events /\ run[h].v \in {"v1", "v2"}
        BY <1>4 DEF Stores, TypeOK, Handler, Placed
    <2>2. run' \in [Handlers -> Handler] /\ \A g \in Handlers : Placed(run'[g])
        BY <1>4, EndStep DEF Stores
    <2> QED BY <1>4, <2>1, <2>2 DEF Stores, TypeOK
<1> QED BY <1>1, <1>2, <1>3, <1>4 DEF ReportNext

\* Live sessions.
LEMMA SessionType ==
    ASSUME TypeInv, NEW h \in Handlers, SessionNext(h) PROVE TypeInv'
<1> USE DEF TypeInv
<1>1. ASSUME NEW s \in Sessions, Beat(h, s) PROVE TypeInv'
    <2> DEFINE r == [Idle EXCEPT !.at = "beat", !.s = {s}]
    <2>1. r \in Handler
        BY DEF Idle, Handler, Places, Answers, Statuses
    <2>2. Placed(r)
        BY DEF Idle, Placed, AboutOne
    <2> QED BY <1>1, <2>1, <2>2, ArriveStep DEF Beat, Unsettles, TypeOK
<1>2. ASSUME Upserts(h) PROVE TypeInv'
    <2>1. Placed([run[h] EXCEPT !.at = "beatagain"])
        BY <1>2 DEF Upserts, TypeOK, Handler, Placed, AboutOne
    <2>2. run' \in [Handlers -> Handler] /\ \A g \in Handlers : Placed(run'[g])
        BY <1>2, <2>1, EndStep, GoStep DEF Upserts, Places
    <2>3. row' \in [Sessions -> {"none", "live", "flagged"}]
        BY <1>2 DEF Upserts, TypeOK
    <2> QED BY <1>2, <2>2, <2>3 DEF Upserts, TypeOK
<1>3. ASSUME BeatsAgain(h) PROVE TypeInv'
    BY <1>3, EndStep DEF BeatsAgain, TypeOK
<1>4. ASSUME NEW ss \in SUBSET Sessions, End(h, ss) PROVE TypeInv'
    <2> DEFINE r == [Idle EXCEPT !.at = "end", !.s = ss]
    <2>1. r \in Handler
        BY DEF Idle, Handler, Places, Answers, Statuses
    <2>2. Placed(r)
        BY DEF Idle, Placed, AboutOne
    <2> QED BY <1>4, <2>1, <2>2, ArriveStep DEF End, TypeOK
<1>5. ASSUME Deletes(h) PROVE TypeInv'
    <2>1. Placed([run[h] EXCEPT !.at = "cancel"]) /\ run[h].s \subseteq Sessions
        BY <1>5 DEF Deletes, TypeOK, Handler, Placed, AboutOne
    <2>2. run' \in [Handlers -> Handler] /\ \A g \in Handlers : Placed(run'[g])
        BY <1>5, <2>1, GoStep DEF Deletes, Places
    <2> QED BY <1>5, <2>1, <2>2 DEF Deletes, TypeOK
<1>6. ASSUME Cancels(h) PROVE TypeInv'
    <2>1. run' \in [Handlers -> Handler] /\ \A g \in Handlers : Placed(run'[g])
        BY <1>6, EndStep DEF Cancels
    <2>2. /\ invite' \in [Sessions -> [Devices -> Statuses]]
          /\ \A s \in Sessions : invite'[s][From[s]] = "none"
        BY <1>6 DEF Cancels, TypeOK, Statuses
    <2> QED BY <1>6, <2>1, <2>2 DEF Cancels, TypeOK
<1> QED BY <1>1, <1>2, <1>3, <1>4, <1>5, <1>6 DEF SessionNext

\* Invitations: nobody is invited by a session of their own device.
LEMMA InviteType ==
    ASSUME TypeInv, NEW h \in Handlers, InviteNext(h) PROVE TypeInv'
<1> USE DEF TypeInv
<1> DEFINE s == The(run[h].s)
<1>1. ASSUME NEW t \in Sessions, NEW to \in SUBSET Devices, Invite(h, t, to) PROVE TypeInv'
    <2> DEFINE r == [Idle EXCEPT !.at = "targets", !.s = {t}, !.to = to]
    <2>1. r \in Handler
        BY DEF Idle, Handler, Places, Answers, Statuses
    <2>2. Placed(r)
        BY DEF Idle, Placed, AboutOne
    <2> QED BY <1>1, <2>1, <2>2, ArriveStep DEF Invite, Unsettles, TypeOK
<1>2. ASSUME FindsTargets(h) PROVE TypeInv'
    <2> DEFINE to == (run[h].to \intersect listed) \ {From[s]}
               r == [run[h] EXCEPT !.at = "existing", !.to = to]
    <2>1. run[h] \in Handler /\ \E t \in Sessions : run[h].s = {t}
        BY <1>2 DEF FindsTargets, TypeOK, Placed, AboutOne
    <2>2. r \in Handler
        BY <2>1 DEF TypeOK, Handler, Places
    <2>3. Placed(r)
        BY <2>1 DEF Placed, AboutOne, Handler
    <2>4. Ends(h) \/ run' = [run EXCEPT ![h] = r]
        BY <1>2 DEF FindsTargets
    <2>5. run' \in [Handlers -> Handler] /\ \A g \in Handlers : Placed(run'[g])
        BY <2>2, <2>3, <2>4, EndStep, RunStep
    <2> QED BY <1>2, <2>5 DEF FindsTargets, TypeOK
<1>3. ASSUME ReadsExisting(h) PROVE TypeInv'
    <2> DEFINE r == [run[h] EXCEPT !.at = "invite", !.seen = invite[s]]
    <2>1. run[h] \in Handler /\ Placed(run[h]) /\ run[h].at = "existing"
        BY <1>3 DEF ReadsExisting, TypeOK
    <2>2. s \in Sessions
        BY <2>1, ItsSession DEF AboutOne
    <2>3. invite[s] \in [Devices -> Statuses]
        BY <2>2 DEF TypeOK
    <2>4. r \in Handler
        BY <2>1, <2>3 DEF Handler, Places
    <2>5. Placed(r)
        BY <2>1 DEF Placed, AboutOne, Handler
    <2>6. run' = [run EXCEPT ![h] = r]
        BY <1>3 DEF ReadsExisting
    <2> QED BY <1>3, <2>4, <2>5, <2>6, RunStep DEF ReadsExisting, TypeOK
<1>4. ASSUME Invites(h) PROVE TypeInv'
    <2>1. PICK d \in Uninvited(h) :
              LET is == IF invite[s][d] = "none" THEN "pending" ELSE invite[s][d]
              IN  invite' = [invite EXCEPT ![s][d] = is] /\ run' = [run EXCEPT ![h].seen[d] = is]
        BY <1>4 DEF Invites
    <2> DEFINE is == IF invite[s][d] = "none" THEN "pending" ELSE invite[s][d]
               r == [run[h] EXCEPT !.seen[d] = is]
    <2>2. run[h] \in Handler /\ Placed(run[h]) /\ run[h].at = "invite"
        BY <1>4 DEF Invites, TypeOK
    <2>3. s \in Sessions /\ From[s] \notin run[h].to
        BY <2>2, ItsSession DEF AboutOne, Placed
    <2>4. d \in run[h].to /\ d \in Devices
        BY <2>2 DEF Uninvited, Handler
    <2>5. invite[s] \in [Devices -> Statuses] /\ is \in Statuses
        BY <2>3, <2>4 DEF TypeOK, Statuses
    <2>6. r \in Handler
        BY <2>2, <2>5 DEF Handler
    <2>7. Placed(r)
        BY <2>2 DEF Placed, AboutOne, Handler
    <2>8. /\ invite' \in [Sessions -> [Devices -> Statuses]]
          /\ \A t \in Sessions : invite'[t][From[t]] = "none"
        BY <2>1, <2>3, <2>4, <2>5 DEF TypeOK
    <2>9. run' = [run EXCEPT ![h] = r]
        BY <2>1
    <2> QED BY <1>4, <2>6, <2>7, <2>8, <2>9, RunStep DEF Invites, TypeOK
<1>5. ASSUME AllInvited(h) PROVE TypeInv'
    <2>1. Placed([run[h] EXCEPT !.at = "push"])
        BY <1>5 DEF AllInvited, TypeOK, Handler, Placed, AboutOne
    <2> QED BY <1>5, <2>1, GoStep DEF AllInvited, TypeOK, Places
<1>6. ASSUME Pushes(h) PROVE TypeInv'
    <2>1. PICK d \in run[h].to :
              /\ run' = [run EXCEPT ![h].to = @ \ {d}]
              /\ buzzed' \in {buzzed, buzzed \union {<<s, d>>}}
        BY <1>6 DEF Pushes
    <2> DEFINE r == [run[h] EXCEPT !.to = @ \ {d}]
    <2>2. run[h] \in Handler /\ Placed(run[h]) /\ run[h].at = "push"
        BY <1>6 DEF Pushes, TypeOK
    <2>3. s \in Sessions /\ d \in Devices
        BY <2>2, ItsSession DEF AboutOne, Handler
    <2>4. r \in Handler
        BY <2>2 DEF Handler
    <2>5. Placed(r)
        BY <2>2 DEF Placed, AboutOne, Handler
    <2>6. run' = [run EXCEPT ![h] = r]
        BY <2>1
    <2>7. buzzed' \subseteq Sessions \X Devices
        BY <2>1, <2>3 DEF TypeOK
    <2> QED BY <1>6, <2>4, <2>5, <2>6, <2>7, RunStep DEF Pushes, TypeOK
<1>7. ASSUME AllPushed(h) PROVE TypeInv'
    BY <1>7, EndStep DEF AllPushed, TypeOK
<1>8. ASSUME NEW t \in Sessions, NEW d \in Devices, NEW as \in Answers, Answer(h, t, d, as)
      PROVE  TypeInv'
    <2> DEFINE r == [Idle EXCEPT !.at = "answer", !.d = d, !.s = {t}, !.as = as]
    <2>1. r \in Handler
        BY DEF Idle, Handler, Places, Answers, Statuses
    <2>2. Placed(r)
        BY DEF Idle, Placed, AboutOne
    <2>3. \/ Arrives(h, r) /\ UNCHANGED told
          \/ told' = told \union {<<t, d, as>>} /\ UNCHANGED <<run, calls>>
        BY <1>8 DEF Answer
    <2>4. CASE Arrives(h, r) /\ UNCHANGED told
        BY <1>8, <2>1, <2>2, <2>4, ArriveStep DEF Answer, TypeOK
    <2>5. CASE told' = told \union {<<t, d, as>>} /\ UNCHANGED <<run, calls>>
        <3>1. <<t, d, as>> \in Sessions \X Devices \X Answers
            OBVIOUS
        <3>2. told' \subseteq Sessions \X Devices \X Answers
            BY <2>5, <3>1 DEF TypeOK
        <3> QED BY <1>8, <2>5, <3>2 DEF Answer, TypeOK
    <2> QED BY <2>3, <2>4, <2>5
<1>9. ASSUME RecordsAnswer(h) PROVE TypeInv'
    <2>1. run[h] \in Handler /\ Placed(run[h]) /\ run[h].at = "answer"
        BY <1>9 DEF RecordsAnswer, TypeOK
    <2>2. s \in Sessions /\ run[h].d \in Devices /\ run[h].as \in Answers
        BY <2>1, ItsSession DEF AboutOne, Handler, Placed
    <2>3. run' \in [Handlers -> Handler] /\ \A g \in Handlers : Placed(run'[g])
        BY <1>9, EndStep DEF RecordsAnswer
    <2>4. \/ UNCHANGED <<invite, told>>
          \/ /\ invite[s][run[h].d] = "pending"
             /\ invite' = [invite EXCEPT ![s][run[h].d] = run[h].as]
             /\ told' = told \union {<<s, run[h].d, run[h].as>>}
        BY <1>9 DEF RecordsAnswer
    <2>5. told' \subseteq Sessions \X Devices \X Answers
        BY <2>2, <2>4 DEF TypeOK
    <2>6. /\ invite' \in [Sessions -> [Devices -> Statuses]]
          /\ \A t \in Sessions : invite'[t][From[t]] = "none"
        <3>1. run[h].as \in Statuses /\ invite \in [Sessions -> [Devices -> Statuses]]
            BY <2>2 DEF TypeOK, Statuses
        <3>2. CASE UNCHANGED invite
            BY <3>2 DEF TypeOK
        <3>3. CASE /\ invite[s][run[h].d] = "pending"
                   /\ invite' = [invite EXCEPT ![s][run[h].d] = run[h].as]
            <4>1. invite' \in [Sessions -> [Devices -> Statuses]]
                BY <2>2, <3>1, <3>3
            <4>2. run[h].d # From[s]
                BY <2>2, <3>3 DEF TypeOK
            <4> QED BY <2>2, <3>1, <3>3, <4>1, <4>2 DEF TypeOK
        <3> QED BY <2>4, <3>2, <3>3
    <2> QED BY <1>9, <2>3, <2>5, <2>6 DEF RecordsAnswer, TypeOK
<1> QED BY <1>1, <1>2, <1>3, <1>4, <1>5, <1>6, <1>7, <1>8, <1>9 DEF InviteNext

LEMMA TypeStep == TypeInv /\ [Next]_vars => TypeInv'
<1> SUFFICES ASSUME TypeInv, [Next]_vars PROVE TypeInv'
    OBVIOUS
<1>1. ASSUME NEW h \in Handlers, Dies(h) PROVE TypeInv'
    <2>1. run' \in [Handlers -> Handler] /\ \A g \in Handlers : Placed(run'[g])
        BY <1>1, EndStep DEF Dies
    <2> QED BY <1>1, <2>1 DEF Dies, Backlog, TypeInv, TypeOK
<1>2. ASSUME NEW d \in Devices, Remove(d) PROVE TypeInv'
    BY <1>2 DEF Remove, TypeInv, TypeOK
<1>3. ASSUME NEW s \in Sessions, ForceEnd(s) \/ DeleteRow(s) \/ Deadline(s) PROVE TypeInv'
    BY <1>3 DEF ForceEnd, DeleteRow, Deadline, TypeInv, TypeOK
<1>4. CASE UNCHANGED vars
    BY <1>4 DEF vars, TypeInv, TypeOK
<1> QED BY <1>1, <1>2, <1>3, <1>4, RegisterType, ReportType, SessionType, InviteType DEF Next

\* Every variable keeps its type, and no session invites its own device
\* (focus-invites.ts:106-130), for any number of devices, sessions and requests.
THEOREM TypeCorrect == Spec => []TypeOK
<1>1. Init => TypeInv
    BY InitType
<1>2. TypeInv /\ [Next]_vars => TypeInv'
    BY TypeStep
<1>3. TypeInv => TypeOK
    BY DEF TypeInv
<1> QED BY <1>1, <1>2, <1>3, PTL DEF Spec

-----------------------------------------------------------------------------
(* Answers: what was acknowledged is no longer pending, and only a pending  *)
(* invitation is cancelled or answered.                                     *)

AnswersInv == TypeInv /\ AnswersAreTrue

LEMMA AnswersKept ==
    ASSUME AnswersInv, told' = told,
           \A s \in Sessions, d \in Devices :
               invite[s][d] \in Answers => invite'[s][d] = invite[s][d]
    PROVE  AnswersAreTrue'
<1> SUFFICES ASSUME NEW t \in told PROVE invite'[t[1]][t[2]] = t[3]
    BY DEF AnswersAreTrue
<1>1. t \in Sessions \X Devices \X Answers /\ invite[t[1]][t[2]] = t[3]
    BY DEF AnswersInv, TypeInv, TypeOK, AnswersAreTrue
<1>2. t[1] \in Sessions /\ t[2] \in Devices /\ t[3] \in Answers
    BY <1>1
<1> QED BY <1>1, <1>2

LEMMA AnswersStep == AnswersInv /\ [Next]_vars => AnswersInv'
<1> SUFFICES ASSUME AnswersInv, [Next]_vars PROVE AnswersInv'
    OBVIOUS
<1>1. TypeInv'
    BY TypeStep DEF AnswersInv
<1>2. SUFFICES AnswersAreTrue'
    BY <1>1 DEF AnswersInv
<1>3. ASSUME UNCHANGED <<invite, told>> PROVE AnswersAreTrue'
    BY <1>3, AnswersKept DEF AnswersInv
<1>4. ASSUME NEW h \in Handlers, RegisterNext(h) \/ ReportNext(h) \/ Dies(h) PROVE AnswersAreTrue'
    BY <1>3, <1>4 DEF RegisterNext, Register, FindsDevice, Lists, FindsWinner, Credits,
                      ReportNext, Report, LooksUp, Judges, Stores, Dies
<1>5. ASSUME NEW h \in Handlers, SessionNext(h) PROVE AnswersAreTrue'
    <2>1. CASE Cancels(h)
        <3>1. \A s \in Sessions, d \in Devices :
                  invite[s][d] \in Answers => invite'[s][d] = invite[s][d]
            BY <2>1 DEF Cancels, Answers
        <3> QED BY <2>1, <3>1, AnswersKept DEF Cancels
    <2>2. CASE ~Cancels(h)
        BY <1>3, <1>5, <2>2 DEF SessionNext, Beat, Upserts, BeatsAgain, End, Deletes
    <2> QED BY <2>1, <2>2
<1>6. ASSUME NEW h \in Handlers, InviteNext(h) PROVE AnswersAreTrue'
    <2>1. CASE Invites(h)
        <3>1. PICK d : invite' = [invite EXCEPT ![The(run[h].s)][d] =
                           IF invite[The(run[h].s)][d] = "none" THEN "pending"
                           ELSE invite[The(run[h].s)][d]]
            BY <2>1 DEF Invites
        <3>2. \A s \in Sessions, e \in Devices :
                  invite[s][e] \in Answers => invite'[s][e] = invite[s][e]
            BY <3>1 DEF AnswersInv, TypeInv, TypeOK, Answers
        <3> QED BY <2>1, <3>2, AnswersKept DEF Invites
    <2>2. ASSUME NEW s \in Sessions, NEW d \in Devices, NEW as \in Answers, Answer(h, s, d, as)
          PROVE  AnswersAreTrue'
        <3>1. CASE invite[s][d] = "pending"
            BY <1>3, <2>2, <3>1 DEF Answer
        <3>2. CASE invite[s][d] # "pending"
            <4>1. /\ invite[s][d] = as /\ UNCHANGED invite
                  /\ told' = told \union {<<s, d, as>>}
                BY <2>2, <3>2 DEF Answer
            <4>2. SUFFICES ASSUME NEW t \in told' PROVE invite'[t[1]][t[2]] = t[3]
                BY DEF AnswersAreTrue
            <4>3. CASE t = <<s, d, as>>
                BY <4>1, <4>3
            <4>4. CASE t \in told
                <5>1. invite[t[1]][t[2]] = t[3]
                    BY <4>4 DEF AnswersInv, AnswersAreTrue
                <5> QED BY <4>1, <5>1
            <4> QED BY <4>1, <4>3, <4>4
        <3> QED BY <3>1, <3>2
    <2>3. CASE RecordsAnswer(h)
        <3> DEFINE s == The(run[h].s)
                   d == run[h].d
        <3>1. run[h] \in Handler /\ Placed(run[h]) /\ run[h].at = "answer"
            BY <2>3 DEF RecordsAnswer, AnswersInv, TypeInv, TypeOK
        <3>2. s \in Sessions /\ d \in Devices
            BY <3>1, ItsSession DEF AboutOne, Placed
        <3>3. CASE UNCHANGED <<invite, told>>
            BY <1>3, <3>3
        <3>4. CASE /\ invite[s][d] = "pending"
                   /\ invite' = [invite EXCEPT ![s][d] = run[h].as]
                   /\ told' = told \union {<<s, d, run[h].as>>}
            <4>1. SUFFICES ASSUME NEW t \in told' PROVE invite'[t[1]][t[2]] = t[3]
                BY DEF AnswersAreTrue
            <4>2. invite'[s][d] = run[h].as
                BY <3>2, <3>4 DEF AnswersInv, TypeInv, TypeOK
            <4>3. CASE t = <<s, d, run[h].as>>
                BY <4>2, <4>3
            <4>4. CASE t \in told
                <5>1. t \in Sessions \X Devices \X Answers /\ invite[t[1]][t[2]] = t[3]
                    BY <4>4 DEF AnswersInv, TypeInv, TypeOK, AnswersAreTrue
                <5>2. t[1] \in Sessions /\ t[2] \in Devices /\ t[3] # "pending"
                    BY <5>1 DEF Answers
                <5> QED BY <3>2, <3>4, <5>1, <5>2 DEF AnswersInv, TypeInv, TypeOK
            <4> QED BY <3>4, <4>3, <4>4
        <3> QED BY <2>3, <3>3, <3>4 DEF RecordsAnswer
    <2>4. CASE \/ FindsTargets(h) \/ ReadsExisting(h) \/ AllInvited(h)
               \/ Pushes(h) \/ AllPushed(h)
        BY <1>3, <2>4 DEF FindsTargets, ReadsExisting, AllInvited, Pushes, AllPushed
    <2>5. ASSUME NEW s \in Sessions, NEW to \in SUBSET Devices, Invite(h, s, to)
          PROVE  AnswersAreTrue'
        BY <1>3, <2>5 DEF Invite
    <2> QED BY <1>6, <2>1, <2>2, <2>3, <2>4, <2>5 DEF InviteNext
<1>7. ASSUME NEW d \in Devices, Remove(d) PROVE AnswersAreTrue'
    BY <1>3, <1>7 DEF Remove
<1>8. ASSUME NEW s \in Sessions, ForceEnd(s) \/ DeleteRow(s) \/ Deadline(s) PROVE AnswersAreTrue'
    BY <1>3, <1>8 DEF ForceEnd, DeleteRow, Deadline
<1>9. CASE UNCHANGED vars
    BY <1>3, <1>9 DEF vars
<1> QED BY <1>4, <1>5, <1>6, <1>7, <1>8, <1>9 DEF Next

\* An acknowledged answer is the status of its row from then on, whatever races
\* it: the other answer, the end of the session, a retried invitation
\* (focus-invites.ts:333-341).
THEOREM AcknowledgedAnswersStand == Spec => []AnswersAreTrue
<1>1. Init => AnswersInv
    BY InitType DEF Init, AnswersInv, AnswersAreTrue
<1>2. AnswersInv /\ [Next]_vars => AnswersInv'
    BY AnswersStep
<1>3. AnswersInv => AnswersAreTrue
    BY DEF AnswersInv
<1> QED BY <1>1, <1>2, <1>3, PTL DEF Spec

-----------------------------------------------------------------------------
(* The end of a session.  No request about it is under way, so its row stays *)
(* gone and the cancellation that follows, or has been, meets every one.     *)

Swept(s) ==
    /\ row[s] = "none"
    /\ \A h \in Handlers : ~Concerns(h, s)
    /\ \/ \E h \in Handlers : run[h].at = "cancel" /\ s \in run[h].s
       \/ \A d \in Devices : invite[s][d] # "pending"

EndInv == TypeInv /\ \A s \in closed : Swept(s)

\* A step of one request that is not the cancellation and does not concern s.
LEMMA SweptKept ==
    ASSUME TypeInv, NEW s \in Sessions, Swept(s), row'[s] = "none",
           \A d \in Devices : invite'[s][d] = "pending" => invite[s][d] = "pending",
           NEW h \in Handlers, NEW r, run' = [run EXCEPT ![h] = r],
           ~(run[h].at = "cancel" /\ s \in run[h].s),
           r.at \in {"beat", "beatagain", "targets", "existing", "invite", "push"} => s \notin r.s
    PROVE  Swept(s)'
<1>1. run'[h] = r /\ \A g \in Handlers \ {h} : run'[g] = run[g]
    BY DEF TypeInv, TypeOK
<1>2. ASSUME NEW g \in Handlers PROVE ~Concerns(g, s)'
    BY <1>1 DEF Swept, Concerns
<1>3. CASE \E g \in Handlers : run[g].at = "cancel" /\ s \in run[g].s
    <2>1. PICK g \in Handlers : run[g].at = "cancel" /\ s \in run[g].s
        BY <1>3
    <2>2. run'[g] = run[g]
        BY <1>1, <2>1
    <2> QED BY <1>2, <2>1, <2>2 DEF Swept
<1>4. CASE \A d \in Devices : invite[s][d] # "pending"
    BY <1>2, <1>4 DEF Swept
<1> QED BY <1>3, <1>4 DEF Swept

\* Requests about the device list and events leave sessions alone, and so does
\* whatever changes none of these variables.
LEMMA SweptUntouched ==
    ASSUME NEW s, Swept(s), UNCHANGED <<run, invite>>, row'[s] = "none" PROVE Swept(s)'
BY DEF Swept, Concerns

\* Where a request goes next: on with its own sessions, or to rest.
Moves(h, place) ==
    \E r : /\ run' = [run EXCEPT ![h] = r]
           /\ r.at = place
           /\ r.s \subseteq run[h].s

LEMMA WhereTo ==
    ASSUME TypeInv, NEW h \in Handlers
    PROVE  /\ Ends(h) => Moves(h, "idle")
           /\ \A place : Goes(h, place) => Moves(h, place)
<1>1. run[h] \in Handler
    BY DEF TypeInv, TypeOK
<1>2. ASSUME Ends(h) PROVE Moves(h, "idle")
    <2>1. Idle.at = "idle" /\ Idle.s \subseteq run[h].s
        BY DEF Idle
    <2>2. run' = [run EXCEPT ![h] = Idle]
        BY <1>2 DEF Ends
    <2> QED BY <2>1, <2>2 DEF Moves
<1>3. ASSUME NEW place, Goes(h, place) PROVE Moves(h, place)
    <2> DEFINE r == [run[h] EXCEPT !.at = place]
    <2>1. r.at = place /\ r.s = run[h].s
        BY <1>1 DEF Handler
    <2>2. run' = [run EXCEPT ![h] = r]
        BY <1>3 DEF Goes
    <2> QED BY <2>1, <2>2 DEF Moves
<1> QED BY <1>2, <1>3

Elsewhere == {"idle", "find", "create", "winner", "credit", "lookup", "judge", "store",
              "end", "cancel", "answer"}

\* A request that is not the cancellation moves to a place that concerns nobody,
\* or stays with a session it concerned already.
LEMMA SweptMoves ==
    ASSUME TypeInv, NEW s \in Sessions, Swept(s), row'[s] = "none",
           \A d \in Devices : invite'[s][d] = "pending" => invite[s][d] = "pending",
           NEW h \in Handlers, NEW place, Moves(h, place), run[h].at # "cancel",
           place \in Elsewhere \/ s \notin run[h].s
    PROVE  Swept(s)'
<1>1. PICK r : run' = [run EXCEPT ![h] = r] /\ r.at = place /\ r.s \subseteq run[h].s
    BY DEF Moves
<1> QED BY <1>1, SweptKept DEF Elsewhere

LEMMA SweptArrival ==
    ASSUME TypeInv, NEW s \in Sessions, Swept(s), UNCHANGED <<row, invite>>,
           NEW h \in Handlers, NEW r, Arrives(h, r), r.at \in Elsewhere \/ s \notin r.s
    PROVE  Swept(s)'
<1>1. run[h].at # "cancel" /\ run' = [run EXCEPT ![h] = r]
    BY DEF Arrives, Idle
<1> QED BY <1>1, SweptKept DEF Elsewhere, Swept

LEMMA SweptAside ==
    ASSUME EndInv, NEW h \in Handlers, RegisterNext(h) \/ ReportNext(h), NEW s \in closed
    PROVE  Swept(s)'
<1>1. TypeInv /\ s \in Sessions /\ Swept(s) /\ run[h] \in Handler
    BY DEF EndInv, TypeInv, TypeOK
<1>2. row'[s] = "none" /\ UNCHANGED <<row, invite>>
    BY <1>1 DEF Swept, RegisterNext, Register, FindsDevice, Lists, FindsWinner,
                Credits, ReportNext, Report, LooksUp, Judges, Stores
<1>3. ASSUME NEW d \in Devices, Register(h, d) PROVE Swept(s)'
    <2>1. [Idle EXCEPT !.at = "find", !.d = d].at \in Elsewhere
        BY DEF Idle, Elsewhere
    <2> QED BY <1>1, <1>2, <1>3, <2>1, SweptArrival DEF Register
<1>4. ASSUME NEW e \in Events, NEW v \in {"v1", "v2"}, Report(h, e, v) PROVE Swept(s)'
    <2>1. [Idle EXCEPT !.at = "lookup", !.e = e, !.v = v].at \in Elsewhere
        BY DEF Idle, Elsewhere
    <2> QED BY <1>1, <1>2, <1>4, <2>1, SweptArrival DEF Report
<1>5. CASE FindsDevice(h) \/ Lists(h) \/ FindsWinner(h) \/ Credits(h) \/ LooksUp(h) \/ Stores(h)
    <2>1. run[h].at # "cancel"
        BY <1>5 DEF FindsDevice, Lists, FindsWinner, Credits, LooksUp, Stores
    <2>2. \E place \in Elsewhere : Moves(h, place)
        BY <1>1, <1>5, WhereTo DEF FindsDevice, Lists, FindsWinner, Credits, LooksUp, Stores, Elsewhere
    <2> QED BY <1>1, <1>2, <2>1, <2>2, SweptMoves
<1>6. CASE Judges(h)
    <2> DEFINE r == [run[h] EXCEPT !.at = "store", !.known = By[run[h].e] \in listed]
    <2>1. run[h].at # "cancel" /\ run' = [run EXCEPT ![h] = r]
        BY <1>6 DEF Judges
    <2>2. r.at = "store"
        <3>1. \A b : [run[h] EXCEPT !.at = "store", !.known = b].at = "store"
            BY <1>1 DEF Handler
        <3> QED BY <3>1
    <2> QED BY <1>1, <1>2, <2>1, <2>2, SweptKept
<1> QED BY <1>3, <1>4, <1>5, <1>6 DEF RegisterNext, ReportNext

LEMMA SweptSession ==
    ASSUME EndInv, NEW h \in Handlers, SessionNext(h), NEW s \in closed'
    PROVE  Swept(s)'
<1> USE DEF EndInv
<1>1. TypeInv /\ run[h] \in Handler /\ closed \subseteq Sessions
    BY DEF TypeInv, TypeOK
<1>2. ASSUME NEW t \in Sessions, Beat(h, t) PROVE Swept(s)'
    <2>1. s \in closed /\ s # t /\ UNCHANGED <<row, invite>>
        BY <1>2 DEF Beat, Unsettles
    <2>2. s \notin [Idle EXCEPT !.at = "beat", !.s = {t}].s
        BY <2>1 DEF Idle
    <2> QED BY <1>1, <1>2, <2>1, <2>2, SweptArrival DEF Beat
<1>3. CASE Upserts(h) \/ BeatsAgain(h)
    <2>1. s \in closed /\ UNCHANGED invite /\ run[h].at \in {"beat", "beatagain"}
        BY <1>3 DEF Upserts, BeatsAgain
    <2>2. Swept(s) /\ s \notin run[h].s
        BY <2>1 DEF Swept, Concerns
    <2>3. row'[s] = "none"
        BY <1>3, <2>1, <2>2 DEF Upserts, BeatsAgain, Swept, TypeInv, TypeOK
    <2>4. \E place : Moves(h, place)
        BY <1>1, <1>3, WhereTo DEF Upserts, BeatsAgain
    <2> QED BY <1>1, <2>1, <2>2, <2>3, <2>4, SweptMoves
<1>4. ASSUME NEW ss \in SUBSET Sessions, End(h, ss) PROVE Swept(s)'
    <2>1. s \in closed /\ UNCHANGED <<row, invite>>
        BY <1>4 DEF End
    <2>2. [Idle EXCEPT !.at = "end", !.s = ss].at \in Elsewhere
        BY DEF Idle, Elsewhere
    <2> QED BY <1>1, <1>4, <2>1, <2>2, SweptArrival DEF End
<1>5. CASE Deletes(h)
    <2> DEFINE r == [run[h] EXCEPT !.at = "cancel"]
    <2>1. run' = [run EXCEPT ![h] = r] /\ r.at = "cancel" /\ r.s = run[h].s /\ run[h].at = "end"
        BY <1>1, <1>5 DEF Deletes, Goes, Handler
    <2>2. /\ run'[h] = r
          /\ \A g \in Handlers \ {h} : run'[g] = run[g]
        BY <2>1 DEF TypeInv, TypeOK
    <2>3. UNCHANGED invite /\ row' = [t \in Sessions |-> IF t \in run[h].s THEN "none" ELSE row[t]]
        BY <1>5 DEF Deletes
    <2>4. CASE s \in closed
        <3>1. Swept(s) /\ row'[s] = "none"
            BY <1>1, <2>3, <2>4 DEF Swept
        <3> QED BY <1>1, <2>1, <2>3, <2>4, <3>1, SweptKept
    <2>5. CASE s \notin closed
        <3>1. s \in run[h].s /\ s \in Sessions /\ \A g \in Handlers : ~Concerns(g, s)
            BY <1>1, <1>5, <2>5 DEF Deletes, Handler
        <3>2. \A g \in Handlers : ~Concerns(g, s)'
            BY <2>1, <2>2, <3>1 DEF Concerns
        <3> QED BY <2>1, <2>2, <2>3, <3>1, <3>2 DEF Swept
    <2> QED BY <2>4, <2>5
<1>6. CASE Cancels(h)
    <2>1. s \in closed /\ UNCHANGED row /\ Moves(h, "idle") /\ Swept(s) /\ s \in Sessions
        BY <1>1, <1>6, WhereTo DEF Cancels
    <2>2. \A d \in Devices :
              invite'[s][d] = IF s \in run[h].s /\ invite[s][d] = "pending" THEN "cancelled"
                              ELSE invite[s][d]
        BY <1>6, <2>1 DEF Cancels
    <2>3. PICK r : run' = [run EXCEPT ![h] = r] /\ r.at = "idle"
        BY <2>1 DEF Moves
    <2>4. CASE s \in run[h].s
        <3>1. \A d \in Devices : invite'[s][d] # "pending"
            BY <2>2, <2>4
        <3>2. \A g \in Handlers : ~Concerns(g, s)'
            BY <2>1, <2>3 DEF Swept, Concerns, TypeInv, TypeOK
        <3> QED BY <2>1, <3>1, <3>2 DEF Swept
    <2>5. CASE s \notin run[h].s
        <3>1. row'[s] = "none"
            BY <2>1 DEF Swept
        <3> QED BY <1>1, <2>1, <2>2, <2>3, <2>5, <3>1, SweptKept
    <2> QED BY <2>4, <2>5
<1> QED BY <1>2, <1>3, <1>4, <1>5, <1>6 DEF SessionNext

LEMMA SweptInvite ==
    ASSUME EndInv, NEW h \in Handlers, InviteNext(h), NEW s \in closed'
    PROVE  Swept(s)'
<1> USE DEF EndInv
<1>1. TypeInv /\ run[h] \in Handler /\ closed \subseteq Sessions
    BY DEF TypeInv, TypeOK
<1>2. ASSUME NEW t \in Sessions, NEW to \in SUBSET Devices, Invite(h, t, to) PROVE Swept(s)'
    <2>1. s \in closed /\ s # t /\ UNCHANGED <<row, invite>>
        BY <1>2 DEF Invite, Unsettles
    <2>2. s \notin [Idle EXCEPT !.at = "targets", !.s = {t}, !.to = to].s
        BY <2>1 DEF Idle
    <2> QED BY <1>1, <1>2, <2>1, <2>2, SweptArrival DEF Invite
<1>3. ASSUME s \in closed, run[h].at \in {"targets", "existing", "invite", "push"}
      PROVE  s \in Sessions /\ Swept(s) /\ s \notin run[h].s
    BY <1>1, <1>3 DEF Swept, Concerns
\* a request about another session, which keeps that one
<1>4. ASSUME s \in closed, UNCHANGED row,
             run[h].at \in {"targets", "existing", "invite", "push"},
             \A d \in Devices : invite'[s][d] = invite[s][d],
             NEW r, run' = [run EXCEPT ![h] = r], r.s \subseteq run[h].s
      PROVE  Swept(s)'
    BY <1>1, <1>3, <1>4, SweptKept DEF Swept
<1>5. CASE FindsTargets(h)
    <2> DEFINE r == [run[h] EXCEPT !.at = "existing",
                                   !.to = (run[h].to \intersect listed) \ {From[The(run[h].s)]}]
    <2>1. s \in closed /\ UNCHANGED <<row, invite>> /\ run[h].at = "targets"
        BY <1>5 DEF FindsTargets
    <2>2. run' = [run EXCEPT ![h] = Idle] \/ run' = [run EXCEPT ![h] = r]
        BY <1>5 DEF FindsTargets, Ends
    <2>3. r.s = run[h].s /\ Idle.s \subseteq run[h].s
        BY <1>1 DEF Handler, Idle
    <2> QED BY <1>4, <2>1, <2>2, <2>3
<1>6. CASE ReadsExisting(h)
    <2> DEFINE r == [run[h] EXCEPT !.at = "invite", !.seen = invite[The(run[h].s)]]
    <2>1. s \in closed /\ UNCHANGED <<row, invite>> /\ run[h].at = "existing"
        BY <1>6 DEF ReadsExisting
    <2>2. run' = [run EXCEPT ![h] = r]
        BY <1>6 DEF ReadsExisting
    <2>3. r.s = run[h].s
        BY <1>1 DEF Handler
    <2> QED BY <1>4, <2>1, <2>2, <2>3
<1>7. CASE Invites(h)
    <2>1. PICK d : \E is : /\ invite' = [invite EXCEPT ![The(run[h].s)][d] = is]
                           /\ run' = [run EXCEPT ![h].seen[d] = is]
        BY <1>7 DEF Invites
    <2>2. PICK is : /\ invite' = [invite EXCEPT ![The(run[h].s)][d] = is]
                    /\ run' = [run EXCEPT ![h].seen[d] = is]
        BY <2>1
    <2> DEFINE r == [run[h] EXCEPT !.seen[d] = is]
    <2>3. s \in closed /\ UNCHANGED row /\ run[h].at = "invite"
        BY <1>7 DEF Invites
    <2>4. r.s = run[h].s
        BY <1>1 DEF Handler
    <2>5. run' = [run EXCEPT ![h] = r]
        BY <2>2
    <2>6. s # The(run[h].s)
        BY <1>3, <2>3, <1>1, ItsSession DEF TypeInv, AboutOne
    <2>7. \A e \in Devices : invite'[s][e] = invite[s][e]
        BY <2>2, <2>6, <1>3, <2>3 DEF TypeInv, TypeOK
    <2> QED BY <1>4, <2>3, <2>4, <2>5, <2>7
<1>8. CASE AllInvited(h) \/ AllPushed(h)
    <2>1. s \in closed /\ UNCHANGED <<row, invite>> /\ run[h].at \in {"invite", "push"}
        BY <1>8 DEF AllInvited, AllPushed
    <2>2. \E place : Moves(h, place)
        BY <1>1, <1>8, WhereTo DEF AllInvited, AllPushed
    <2> QED BY <1>4, <2>1, <2>2 DEF Moves
<1>9. CASE Pushes(h)
    <2>1. PICK d : run' = [run EXCEPT ![h].to = @ \ {d}]
        BY <1>9 DEF Pushes
    <2> DEFINE r == [run[h] EXCEPT !.to = @ \ {d}]
    <2>2. s \in closed /\ UNCHANGED <<row, invite>> /\ run[h].at = "push"
        BY <1>9 DEF Pushes
    <2>3. run' = [run EXCEPT ![h] = r] /\ r.s = run[h].s
        BY <1>1, <2>1 DEF Handler
    <2> QED BY <1>4, <2>2, <2>3
<1>10. ASSUME NEW t \in Sessions, NEW d \in Devices, NEW as \in Answers, Answer(h, t, d, as)
       PROVE  Swept(s)'
    <2> DEFINE r == [Idle EXCEPT !.at = "answer", !.d = d, !.s = {t}, !.as = as]
    <2>1. s \in closed /\ UNCHANGED <<row, invite>> /\ (Arrives(h, r) \/ UNCHANGED run)
        BY <1>10 DEF Answer
    <2>2. r.at \in Elsewhere
        BY DEF Idle, Elsewhere
    <2>3. CASE Arrives(h, r)
        BY <1>1, <2>1, <2>2, <2>3, SweptArrival
    <2>4. CASE UNCHANGED run
        BY <2>1, <2>4, SweptUntouched DEF Swept
    <2> QED BY <2>1, <2>3, <2>4
<1>11. CASE RecordsAnswer(h)
    <2> DEFINE t == The(run[h].s)
               d == run[h].d
    <2>1. s \in closed /\ UNCHANGED row /\ Moves(h, "idle") /\ run[h].at = "answer"
        BY <1>1, <1>11, WhereTo DEF RecordsAnswer
    <2>2. Swept(s) /\ s \in Sessions /\ row'[s] = "none"
        BY <1>1, <2>1 DEF Swept
    <2>3. run[h].as # "pending"
        BY <1>1 DEF Handler, Answers
    <2>4. UNCHANGED invite \/ invite' = [invite EXCEPT ![t][d] = run[h].as]
        BY <1>11 DEF RecordsAnswer
    <2>5. \A e \in Devices : invite'[s][e] = "pending" => invite[s][e] = "pending"
        BY <2>2, <2>3, <2>4 DEF TypeInv, TypeOK
    <2> QED BY <1>1, <2>1, <2>2, <2>5, SweptMoves DEF Elsewhere
<1> QED BY <1>2, <1>5, <1>6, <1>7, <1>8, <1>9, <1>10, <1>11 DEF InviteNext

LEMMA EndStepKept == EndInv /\ [Next]_vars => EndInv'
<1> SUFFICES ASSUME EndInv, [Next]_vars PROVE EndInv'
    OBVIOUS
<1>1. TypeInv'
    BY TypeStep DEF EndInv
<1>2. SUFFICES ASSUME NEW s \in closed' PROVE Swept(s)'
    BY <1>1 DEF EndInv
<1>3. closed \subseteq Sessions /\ TypeInv
    BY DEF EndInv, TypeInv, TypeOK
<1>4. ASSUME NEW h \in Handlers, RegisterNext(h) \/ ReportNext(h) PROVE Swept(s)'
    <2>1. s \in closed
        BY <1>4 DEF RegisterNext, Register, FindsDevice, Lists, FindsWinner, Credits,
                    ReportNext, Report, LooksUp, Judges, Stores
    <2> QED BY <1>4, <2>1, SweptAside
<1>5. ASSUME NEW h \in Handlers, Dies(h) PROVE Swept(s)'
    <2>1. /\ s \in closed /\ Swept(s) /\ s \in Sessions /\ UNCHANGED <<row, invite>>
          /\ run' = [run EXCEPT ![h] = Idle]
          /\ ~(run[h].at = "cancel" /\ s \in run[h].s)
        BY <1>3, <1>5 DEF Dies, Ends, EndInv
    <2> QED BY <1>3, <2>1, SweptKept DEF Idle, Swept
<1>6. ASSUME NEW t \in Sessions, ForceEnd(t) \/ DeleteRow(t) \/ Deadline(t) PROVE Swept(s)'
    <2>1. s \in closed /\ Swept(s) /\ s \in Sessions /\ UNCHANGED <<run, invite>>
        BY <1>3, <1>6 DEF ForceEnd, DeleteRow, Deadline, EndInv
    <2>2. row'[s] = "none"
        BY <1>3, <1>6, <2>1 DEF ForceEnd, DeleteRow, Deadline, Swept, TypeInv, TypeOK
    <2> QED BY <2>1, <2>2, SweptUntouched
<1>7. ASSUME UNCHANGED <<closed, run, row, invite>> PROVE Swept(s)'
    BY <1>7, SweptUntouched DEF EndInv, Swept
<1>8. CASE UNCHANGED vars \/ \E d \in Devices : Remove(d)
    BY <1>7, <1>8 DEF vars, Remove
<1> QED BY <1>4, <1>5, <1>6, <1>8, SweptSession, SweptInvite DEF Next

\* An end of a session that no request about it overlapped or followed leaves
\* neither its row nor an invitation waiting, once its second write is done
\* (sessions.ts:108-117), for any number of requests.
THEOREM EndsSweep == Spec => []EndSweeps
<1>1. Init => EndInv
    BY InitType DEF Init, EndInv
<1>2. EndInv /\ [Next]_vars => EndInv'
    BY EndStepKept
<1>3. EndInv => EndSweeps
    BY DEF EndInv, Swept, EndSweeps
<1> QED BY <1>1, <1>2, <1>3, PTL DEF Spec

-----------------------------------------------------------------------------
(* Credit: whoever lists a device releases what was parked for it. *)

CreditInv == TypeInv /\ CreditIsReleased

LEMMA CreditKept ==
    ASSUME CreditInv, parked' \ excused' \subseteq parked \ excused, listed' \subseteq listed,
           NEW h \in Handlers, run[h].at # "credit", \A g \in Handlers \ {h} : run'[g] = run[g]
    PROVE  CreditIsReleased'
BY DEF CreditInv, CreditIsReleased

\* What a step of one request leaves to the others, and when it is no release.
Alone(h) == \A g \in Handlers \ {h} : run'[g] = run[g]

LEMMA AloneSteps ==
    ASSUME TypeInv, NEW h \in Handlers
    PROVE  /\ Ends(h) => Alone(h)
           /\ \A place : Goes(h, place) => Alone(h)
           /\ \A r : Arrives(h, r) => Alone(h) /\ run[h].at # "credit"
BY DEF TypeInv, TypeOK, Ends, Goes, Arrives, Alone, Idle

LEMMA CreditAside ==
    ASSUME TypeInv, NEW h \in Handlers, SessionNext(h) \/ InviteNext(h)
    PROVE  \/ UNCHANGED <<parked, excused, listed>> /\ run[h].at # "credit" /\ Alone(h)
           \/ UNCHANGED <<parked, excused, listed, run>>
<1>1. CASE Upserts(h) \/ BeatsAgain(h) \/ Deletes(h) \/ Cancels(h)
    BY <1>1, AloneSteps DEF Upserts, BeatsAgain, Deletes, Cancels
<1>2. CASE FindsTargets(h) \/ AllInvited(h) \/ AllPushed(h) \/ RecordsAnswer(h)
    <2>1. UNCHANGED <<parked, excused, listed>> /\ run[h].at # "credit"
        BY <1>2 DEF FindsTargets, AllInvited, AllPushed, RecordsAnswer
    <2>2. Alone(h)
        BY <1>2, AloneSteps DEF FindsTargets, AllInvited, AllPushed, RecordsAnswer, Alone, TypeInv, TypeOK
    <2> QED BY <2>1, <2>2
<1>3. CASE ReadsExisting(h) \/ Invites(h) \/ Pushes(h)
    BY <1>3 DEF ReadsExisting, Invites, Pushes, Alone, TypeInv, TypeOK
<1>4. ASSUME NEW s \in Sessions, Beat(h, s) \/ \E to \in SUBSET Devices : Invite(h, s, to)
      PROVE  UNCHANGED <<parked, excused, listed>> /\ run[h].at # "credit" /\ Alone(h)
    BY <1>4, AloneSteps DEF Beat, Invite
<1>5. ASSUME NEW ss \in SUBSET Sessions, End(h, ss)
      PROVE  UNCHANGED <<parked, excused, listed>> /\ run[h].at # "credit" /\ Alone(h)
    BY <1>5, AloneSteps DEF End
<1>6. ASSUME NEW s \in Sessions, NEW d \in Devices, NEW as \in Answers, Answer(h, s, d, as)
      PROVE  \/ UNCHANGED <<parked, excused, listed>> /\ run[h].at # "credit" /\ Alone(h)
             \/ UNCHANGED <<parked, excused, listed, run>>
    BY <1>6, AloneSteps DEF Answer
<1> QED BY <1>1, <1>2, <1>3, <1>4, <1>5, <1>6 DEF SessionNext, InviteNext

LEMMA CreditStep == CreditInv /\ [Next]_vars => CreditInv'
<1> SUFFICES ASSUME CreditInv, [Next]_vars PROVE CreditInv'
    OBVIOUS
<1>1. TypeInv' /\ TypeInv
    BY TypeStep DEF CreditInv
<1>2. SUFFICES CreditIsReleased'
    BY <1>1 DEF CreditInv
<1>3. ASSUME UNCHANGED <<parked, excused, listed>>, NEW h \in Handlers, run[h].at # "credit",
             \A g \in Handlers \ {h} : run'[g] = run[g]
      PROVE  CreditIsReleased'
    BY <1>3, CreditKept
<1>4. ASSUME NEW h \in Handlers, RegisterNext(h) PROVE CreditIsReleased'
    <2>1. CASE Lists(h)
        <3>1. /\ run[h].at = "create" /\ listed' = listed \union {run[h].d}
              /\ UNCHANGED <<parked, excused>> /\ \A g \in Handlers \ {h} : run'[g] = run[g]
            BY <1>1, <2>1 DEF Lists, Goes, TypeInv, TypeOK
        <3>2. CASE run[h].d \in listed
            BY <1>3, <3>1, <3>2
        <3>3. CASE run[h].d \notin listed
            <4>1. run'[h].at = "credit" /\ run'[h].d = run[h].d
                BY <1>1, <2>1, <3>3 DEF Lists, Goes, TypeInv, TypeOK, Handler
            <4>2. SUFFICES ASSUME NEW e \in parked \ excused
                           PROVE  \/ By[e] \notin listed'
                                  \/ \E g \in Handlers : run'[g].at = "credit" /\ run'[g].d = By[e]
                BY <3>1 DEF CreditIsReleased
            <4> QED BY <3>1, <4>1 DEF CreditInv, CreditIsReleased
        <3> QED BY <3>2, <3>3
    <2>2. CASE Credits(h)
        <3>1. /\ parked' \ excused' = (parked \ excused) \ Backlog(run[h].d)
              /\ UNCHANGED listed
              /\ \A g \in Handlers \ {h} : run'[g] = run[g]
            BY <1>1, <2>2 DEF Credits, Ends, TypeInv, TypeOK, Backlog
        <3> QED BY <3>1 DEF CreditInv, CreditIsReleased, Backlog
    <2>3. CASE ~Lists(h) /\ ~Credits(h)
        <3>1. FindsDevice(h) \/ FindsWinner(h) \/ \E d \in Devices : Register(h, d)
            BY <1>4, <2>3 DEF RegisterNext
        <3>2. UNCHANGED <<parked, excused, listed>> /\ run[h].at # "credit" /\ Alone(h)
            BY <1>1, <3>1, AloneSteps DEF Register, FindsDevice, FindsWinner
        <3> QED BY <1>3, <3>2 DEF Alone
    <2> QED BY <2>1, <2>2, <2>3
<1>5. ASSUME NEW h \in Handlers, ReportNext(h) PROVE CreditIsReleased'
    <2>1. run[h].at # "credit" /\ UNCHANGED listed /\ \A g \in Handlers \ {h} : run'[g] = run[g]
        <3>1. ASSUME NEW e \in Events, NEW v \in {"v1", "v2"}, Report(h, e, v)
              PROVE  run[h].at # "credit" /\ UNCHANGED listed /\ Alone(h)
            BY <1>1, <3>1, AloneSteps DEF Report
        <3>2. CASE LooksUp(h) \/ Stores(h)
            BY <1>1, <3>2, AloneSteps DEF LooksUp, Stores, Alone
        <3>3. CASE Judges(h)
            BY <1>1, <3>3 DEF Judges, TypeInv, TypeOK
        <3> QED BY <1>5, <3>1, <3>2, <3>3 DEF ReportNext, Alone
    <2>2. CASE Stores(h)
        <3>1. ASSUME NEW e \in parked' \ excused', e \notin parked \ excused
              PROVE  By[e] \notin listed
            BY <2>2, <3>1 DEF Stores
        <3> QED BY <2>1, <3>1 DEF CreditInv, CreditIsReleased
    <2>3. CASE ~Stores(h)
        <3>1. UNCHANGED <<parked, excused>>
            BY <1>5, <2>3 DEF ReportNext, Report, LooksUp, Judges
        <3> QED BY <1>3, <2>1, <3>1
    <2> QED BY <2>2, <2>3
<1>6. ASSUME NEW h \in Handlers, SessionNext(h) \/ InviteNext(h) PROVE CreditIsReleased'
    <2>1. CASE UNCHANGED <<parked, excused, listed>> /\ run[h].at # "credit" /\ Alone(h)
        BY <1>3, <2>1 DEF Alone
    <2>2. CASE UNCHANGED <<parked, excused, listed, run>>
        BY <2>2 DEF CreditInv, CreditIsReleased
    <2> QED BY <1>1, <1>6, <2>1, <2>2, CreditAside
<1>7. ASSUME NEW h \in Handlers, Dies(h) PROVE CreditIsReleased'
    <2>1. UNCHANGED <<parked, listed>> /\ \A g \in Handlers \ {h} : run'[g] = run[g]
        BY <1>1, <1>7 DEF Dies, Ends, TypeInv, TypeOK
    <2>2. CASE run[h].at = "credit"
        <3>1. excused' = excused \union Backlog(run[h].d)
            BY <1>7, <2>2 DEF Dies
        <3> QED BY <2>1, <3>1 DEF CreditInv, CreditIsReleased, Backlog
    <2>3. CASE run[h].at # "credit"
        BY <1>3, <1>7, <2>1, <2>3 DEF Dies
    <2> QED BY <2>2, <2>3
<1>8. ASSUME NEW d \in Devices, Remove(d) PROVE CreditIsReleased'
    BY <1>8 DEF Remove, CreditInv, CreditIsReleased
<1>9. CASE UNCHANGED vars \/ \E s \in Sessions : ForceEnd(s) \/ DeleteRow(s) \/ Deadline(s)
    BY <1>9 DEF vars, ForceEnd, DeleteRow, Deadline, CreditInv, CreditIsReleased
<1> QED BY <1>4, <1>5, <1>6, <1>7, <1>8, <1>9 DEF Next

\* The events of a listed device count, but for a verdict that aged before it was
\* stored or a release that failed (devices.ts:52-63, focus-events.ts:45-90):
\* otherwise whoever listed the device is about to release them.
THEOREM ListedEventsCount == Spec => []CreditIsReleased
<1>1. Init => CreditInv
    BY InitType DEF Init, CreditInv, CreditIsReleased
<1>2. CreditInv /\ [Next]_vars => CreditInv'
    BY CreditStep
<1>3. CreditInv => CreditIsReleased
    BY DEF CreditInv
<1> QED BY <1>1, <1>2, <1>3, PTL DEF Spec

=============================================================================
