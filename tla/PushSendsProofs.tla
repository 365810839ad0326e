--------------------------- MODULE PushSendsProofs ---------------------------
(***************************************************************************)
(* Theorems about what is pushed to phones.  PushSends, for any tokens and *)
(* handlers, any length of a day and any horizon; then RoomAlerts, for any *)
(* members, handlers, requests, page size and cooldown.                    *)
(***************************************************************************)
EXTENDS PushSends, RoomAlerts, SequenceTheorems, TLAPS

USE SendsAssumption DEF phone, settings, sending

-----------------------------------------------------------------------------
(* Type correctness.  Who is past the claim of a day finds its row, and who  *)
(* sends or retires has a token.                                             *)

Claimed == {"recheck", "cancel", "send", "record", "prune", "mark"}

Placed(r, s) ==
    /\ r.at \in {"retire", "claim"} \union Claimed => r.t \in Tokens
    /\ r.at \in Claimed => s[DayOf(r.slot)].status # "none"

TypeInv ==
    /\ TypeOK
    /\ run \in [Handlers -> Handler]
    /\ \A h \in Handlers : Placed(run[h], sends)

Keeps == \A d \in Days : sends[d].status # "none" => sends'[d].status # "none"

LEMMA SlotTypes ==
    /\ Times \subseteq Nat
    /\ 0 \in Times
    /\ \A t \in Times : DayOf(t) \in Days
    /\ \A t : NextAt(t) \subseteq Times
BY DEF Times, Days, DayOf, NextAt, Slots

LEMMA IdleType ==
    ASSUME NEW s PROVE Idle \in Handler /\ Placed(Idle, s) /\ Idle.at = "idle"
BY SlotTypes DEF Idle, Handler, Places, Placed, Claimed

LEMMA ReadingType ==
    ASSUME NEW rows \in SUBSET Delivery, NEW s
    PROVE  /\ [Idle EXCEPT !.at = "receipts", !.rows = rows] \in Handler
           /\ Placed([Idle EXCEPT !.at = "receipts", !.rows = rows], s)
BY SlotTypes DEF Idle, Handler, Places, Placed, Claimed

\* A handler's step leaves every handler well formed.
LEMMA RunStep ==
    ASSUME TypeInv, NEW h \in Handlers, NEW r \in Handler, run' = [run EXCEPT ![h] = r],
           Placed(r, sends'), Keeps
    PROVE  run' \in [Handlers -> Handler] /\ \A g \in Handlers : Placed(run'[g], sends')
<1>1. run' \in [Handlers -> Handler] /\ \A g \in Handlers : run'[g] = IF g = h THEN r ELSE run[g]
    BY DEF TypeInv
<1>2. ASSUME NEW g \in Handlers, g # h PROVE Placed(run'[g], sends')
    <2>1. run'[g] = run[g] /\ Placed(run[g], sends)
        BY <1>1, <1>2 DEF TypeInv
    <2>2. DayOf(run[g].slot) \in Days
        BY SlotTypes DEF TypeInv, Handler
    <2> QED BY <2>1, <2>2 DEF Placed, Keeps
<1> QED BY <1>1, <1>2

LEMMA EndStep ==
    ASSUME TypeInv, NEW h \in Handlers, Ends(h), Keeps
    PROVE  run' \in [Handlers -> Handler] /\ \A g \in Handlers : Placed(run'[g], sends')
BY IdleType, RunStep DEF Ends

LEMMA GoStep ==
    ASSUME TypeInv, NEW h \in Handlers, NEW place \in Places, Goes(h, place),
           Placed([run[h] EXCEPT !.at = place], sends'), Keeps
    PROVE  run' \in [Handlers -> Handler] /\ \A g \in Handlers : Placed(run'[g], sends')
<1>1. run[h] \in Handler
    BY DEF TypeInv
<1>2. [run[h] EXCEPT !.at = place] \in Handler
    BY <1>1 DEF Handler
<1>3. run' = [run EXCEPT ![h] = [run[h] EXCEPT !.at = place]]
    BY DEF Goes
<1> QED BY <1>2, <1>3, RunStep

\* Whoever reaches "advance" needs nothing.
LEMMA AdvanceStep ==
    ASSUME TypeInv, NEW h \in Handlers, Goes(h, "advance"), Keeps
    PROVE  run' \in [Handlers -> Handler] /\ \A g \in Handlers : Placed(run'[g], sends')
<1>1. run[h] \in Handler
    BY DEF TypeInv
<1>2. Placed([run[h] EXCEPT !.at = "advance"], sends')
    BY <1>1 DEF Handler, Placed, Claimed
<1> QED BY <1>2, GoStep DEF Places

\* Who stays past its claim keeps its token and its day.
LEMMA OnwardStep ==
    ASSUME TypeInv, NEW h \in Handlers, run[h].at \in Claimed, NEW place \in Claimed,
           Goes(h, place), Keeps
    PROVE  run' \in [Handlers -> Handler] /\ \A g \in Handlers : Placed(run'[g], sends')
<1>1. run[h] \in Handler /\ Placed(run[h], sends) /\ DayOf(run[h].slot) \in Days
    BY SlotTypes DEF TypeInv, Handler
<1>2. Placed([run[h] EXCEPT !.at = place], sends')
    BY <1>1 DEF Handler, Placed, Keeps
<1> QED BY <1>2, GoStep DEF Places, Claimed

LEMMA ArriveStep ==
    ASSUME TypeInv, NEW h \in Handlers, NEW r \in Handler, Arrives(h, r), Placed(r, sends'), Keeps
    PROVE  /\ run' \in [Handlers -> Handler] /\ \A g \in Handlers : Placed(run'[g], sends')
           /\ calls' \in 0 .. MaxCalls
<1>1. calls' \in 0 .. MaxCalls
    BY DEF TypeInv, TypeOK, Arrives
<1> QED BY <1>1, RunStep DEF Arrives

LEMMA SameSendsKeep ==
    ASSUME UNCHANGED sends PROVE Keeps
BY DEF Keeps

LEMMA DisableType ==
    ASSUME TypeInv, NEW ts, NEW reason \in {"replaced", "removed", "dead"}, Disable(ts, reason)
    PROVE  /\ token' \in [Tokens -> Token]
           /\ \A t \in Tokens : (token'[t].is = "off") = (token'[t].why # "none")
BY DEF TypeInv, TypeOK, Disable, Token

LEMMA MarksType ==
    ASSUME TypeInv, NEW h \in Handlers, NEW place \in Claimed,
           NEW status \in {"cancelled", "sent", "failed"}, Marks(h, place, status)
    PROVE  TypeInv'
<1>1. run[h] \in Handler /\ DayOf(run[h].slot) \in Days
    BY SlotTypes DEF TypeInv, Handler
<1>2. sends' \in [Days -> Send] /\ Keeps
    BY <1>1 DEF TypeInv, TypeOK, Send, Marks, Today, Keeps
<1>3. run' \in [Handlers -> Handler] /\ \A g \in Handlers : Placed(run'[g], sends')
    BY <1>2, AdvanceStep DEF Marks
<1>4. \A d \in log : sends'[d.day].status # "none"
    BY <1>2 DEF TypeInv, TypeOK, Keeps, Delivery
<1> QED BY <1>2, <1>3, <1>4 DEF TypeInv, TypeOK, Marks

LEMMA SettlesType ==
    ASSUME TypeInv, NEW d \in Delivery, NEW status \in {"provider_confirmed", "error"},
           Settles(d, status)
    PROVE  log' \subseteq Delivery /\ \A e \in log' : sends[e.day].status # "none"
<1>1. [d EXCEPT !.status = status] \in Delivery /\ [d EXCEPT !.status = status].day = d.day
    BY DEF Delivery
<1> QED BY <1>1 DEF Settles, TypeInv, TypeOK

LEMMA TypeStep == TypeInv /\ [Next]_vars => TypeInv'
<1> SUFFICES ASSUME TypeInv, [Next]_vars PROVE TypeInv'
    OBVIOUS
<1> USE SlotTypes
<1>1. ASSUME NEW h \in Handlers, NEW t \in Tokens, RegisterToken(h, t) PROVE TypeInv'
    <2> DEFINE r == [Idle EXCEPT !.at = "retire", !.t = t, !.began = now]
    <2>1. r \in Handler /\ Placed(r, sends')
        BY DEF TypeInv, TypeOK, Idle, Handler, Places, Placed, Claimed
    <2>2. Arrives(h, r) /\ Keeps
        BY <1>1, SameSendsKeep DEF RegisterToken
    <2>3. /\ token' \in [Tokens -> Token]
          /\ \A u \in Tokens : (token'[u].is = "off") = (token'[u].why # "none")
        BY <1>1 DEF RegisterToken, TypeInv, TypeOK, Token
    <2> HIDE DEF r
    <2>4. /\ run' \in [Handlers -> Handler] /\ \A g \in Handlers : Placed(run'[g], sends')
          /\ calls' \in 0 .. MaxCalls
        BY <2>1, <2>2, ArriveStep
    <2> QED BY <1>1, <2>3, <2>4 DEF TypeInv, TypeOK, RegisterToken
<1>2. ASSUME NEW h \in Handlers, Retires(h) PROVE TypeInv'
    <2>1. run' \in [Handlers -> Handler] /\ \A g \in Handlers : Placed(run'[g], sends')
        BY <1>2, EndStep, SameSendsKeep DEF Retires
    <2>2. /\ token' \in [Tokens -> Token]
          /\ \A u \in Tokens : (token'[u].is = "off") = (token'[u].why # "none")
        BY <1>2, DisableType DEF Retires
    <2> QED BY <1>2, <2>1, <2>2 DEF TypeInv, TypeOK, Retires
<1>3. ASSUME NEW h \in Handlers, Silence(h) PROVE TypeInv'
    <2> DEFINE r == [Idle EXCEPT !.at = "remove"]
    <2>1. r \in Handler /\ Placed(r, sends')
        BY DEF Idle, Handler, Places, Placed, Claimed
    <2>2. Arrives(h, r) /\ Keeps
        BY <1>3, SameSendsKeep DEF Silence
    <2>3. /\ token' \in [Tokens -> Token]
          /\ \A u \in Tokens : (token'[u].is = "off") = (token'[u].why # "none")
        BY <1>3, DisableType DEF Silence
    <2> HIDE DEF r
    <2>4. /\ run' \in [Handlers -> Handler] /\ \A g \in Handlers : Placed(run'[g], sends')
          /\ calls' \in 0 .. MaxCalls
        BY <2>1, <2>2, ArriveStep
    <2> QED BY <1>3, <2>3, <2>4 DEF TypeInv, TypeOK, Silence
<1>4. ASSUME NEW h \in Handlers, Removes(h) PROVE TypeInv'
    <2>1. run' \in [Handlers -> Handler] /\ \A g \in Handlers : Placed(run'[g], sends')
        BY <1>4, EndStep, SameSendsKeep DEF Removes
    <2> QED BY <1>4, <2>1 DEF TypeInv, TypeOK, Removes
<1>5. CASE Enlist
    <2>1. run' = run /\ sends' = sends /\ calls' \in 0 .. MaxCalls
        BY <1>5 DEF Enlist, TypeInv, TypeOK
    <2> QED BY <1>5, <2>1 DEF TypeInv, TypeOK, Enlist
<1>6. ASSUME NEW h \in Handlers, Context(h) PROVE TypeInv'
    <2>1. PICK slot \in NextIf(~pref.is \/ pref.enabled) :
            Arrives(h, [Idle EXCEPT !.at = IF pref.is THEN "context" ELSE "first", !.slot = slot])
        BY <1>6, Zenon DEF Context
    <2>2. slot \in Times
        BY DEF NextIf, NextUnsent
    <2> DEFINE r == [Idle EXCEPT !.at = IF pref.is THEN "context" ELSE "first", !.slot = slot]
    <2>3. r \in Handler /\ Placed(r, sends')
        BY <2>2 DEF Idle, Handler, Places, Placed, Claimed
    <2>4. Arrives(h, r) /\ Keeps
        BY <1>6, <2>1, SameSendsKeep DEF Context
    <2> HIDE DEF r
    <2>5. /\ run' \in [Handlers -> Handler] /\ \A g \in Handlers : Placed(run'[g], sends')
          /\ calls' \in 0 .. MaxCalls
        BY <2>3, <2>4, ArriveStep
    <2> QED BY <1>6, <2>5 DEF TypeInv, TypeOK, Context
<1>7. ASSUME NEW h \in Handlers, Creates(h) PROVE TypeInv'
    <2>1. run[h] \in Handler /\ Keeps
        BY <1>7, SameSendsKeep DEF Creates, TypeInv
    <2>2. CASE pref.is
        <3>1. PICK slot \in NextIf(pref.enabled) :
                run' = [run EXCEPT ![h].at = "context", ![h].slot = slot]
            BY <1>7, <2>2 DEF Creates
        <3>2. slot \in Times
            BY DEF NextIf, NextUnsent
        <3> DEFINE r == [run[h] EXCEPT !.at = "context", !.slot = slot]
        <3>3. r \in Handler /\ Placed(r, sends') /\ run' = [run EXCEPT ![h] = r]
            BY <2>1, <3>1, <3>2 DEF Handler, Places, Placed, Claimed, TypeInv
        <3> HIDE DEF r
        <3>4. run' \in [Handlers -> Handler] /\ \A g \in Handlers : Placed(run'[g], sends')
            BY <2>1, <3>3, RunStep
        <3> QED BY <1>7, <2>2, <3>4 DEF TypeInv, TypeOK, Creates
    <2>3. CASE ~pref.is
        <3>1. run' \in [Handlers -> Handler] /\ \A g \in Handlers : Placed(run'[g], sends')
            BY <1>7, <2>1, <2>3, EndStep DEF Creates
        <3>2. pref' = [is |-> TRUE, enabled |-> TRUE, next |-> run[h].slot]
            BY <1>7, <2>3 DEF Creates
        <3>3. pref' \in Preference
            BY <2>1, <3>2 DEF Preference, Handler
        <3> QED BY <1>7, <3>1, <3>3 DEF TypeInv, TypeOK, Creates
    <2> QED BY <2>2, <2>3
<1>8. ASSUME NEW h \in Handlers, SavesContext(h) PROVE TypeInv'
    <2>1. run' \in [Handlers -> Handler] /\ \A g \in Handlers : Placed(run'[g], sends')
        BY <1>8, EndStep, SameSendsKeep DEF SavesContext
    <2>2. pref' \in Preference
        BY <1>8 DEF SavesContext, Preference, Handler, TypeInv, TypeOK
    <2> QED BY <1>8, <2>1, <2>2 DEF TypeInv, TypeOK, SavesContext
<1>9. ASSUME NEW h \in Handlers, NEW on \in BOOLEAN, Choose(h, on) PROVE TypeInv'
    <2>1. PICK slot \in NextIf(on) :
            Arrives(h, [Idle EXCEPT !.at = "choose", !.on = on, !.slot = slot])
        BY <1>9, Zenon DEF Choose
    <2>2. slot \in Times
        BY DEF NextIf, NextUnsent
    <2> DEFINE r == [Idle EXCEPT !.at = "choose", !.on = on, !.slot = slot]
    <2>3. r \in Handler /\ Placed(r, sends')
        BY <2>2 DEF Idle, Handler, Places, Placed, Claimed
    <2>4. sends' \in [Days -> Send] /\ Keeps
        BY <1>9 DEF Choose, TypeInv, TypeOK, Send, Keeps
    <2>5. Arrives(h, r)
        BY <2>1
    <2> HIDE DEF r
    <2>6. /\ run' \in [Handlers -> Handler] /\ \A g \in Handlers : Placed(run'[g], sends')
          /\ calls' \in 0 .. MaxCalls
        BY <2>3, <2>4, <2>5, ArriveStep
    <2>7. \A d \in log : sends'[d.day].status # "none"
        BY <2>4 DEF TypeInv, TypeOK, Keeps, Delivery
    <2> QED BY <1>9, <2>4, <2>6, <2>7 DEF TypeInv, TypeOK, Choose
<1>10. ASSUME NEW h \in Handlers, SavesChoices(h) PROVE TypeInv'
    <2>1. run' \in [Handlers -> Handler] /\ \A g \in Handlers : Placed(run'[g], sends')
        BY <1>10, EndStep, SameSendsKeep DEF SavesChoices
    <2>2. pref' \in Preference /\ out' \in BOOLEAN
        BY <1>10 DEF SavesChoices, Preference, Handler, TypeInv, TypeOK
    <2> QED BY <1>10, <2>1, <2>2 DEF TypeInv, TypeOK, SavesChoices
<1>11. ASSUME NEW h \in Handlers, Drain(h) PROVE TypeInv'
    <2> DEFINE r == [Idle EXCEPT !.at = "weigh", !.began = now, !.slot = pref.next]
    <2>1. r \in Handler /\ Placed(r, sends')
        BY DEF TypeInv, TypeOK, Preference, Idle, Handler, Places, Placed, Claimed
    <2>2. Arrives(h, r) /\ Keeps
        BY <1>11, SameSendsKeep DEF Drain
    <2> HIDE DEF r
    <2>3. /\ run' \in [Handlers -> Handler] /\ \A g \in Handlers : Placed(run'[g], sends')
          /\ calls' \in 0 .. MaxCalls
        BY <2>1, <2>2, ArriveStep
    <2> QED BY <1>11, <2>3 DEF TypeInv, TypeOK, Drain
<1>12. ASSUME NEW h \in Handlers, Weighs(h) PROVE TypeInv'
    <2>1. run[h] \in Handler /\ Keeps
        BY <1>12, SameSendsKeep DEF Weighs, TypeInv
    <2>2. run' \in [Handlers -> Handler] /\ \A g \in Handlers : Placed(run'[g], sends')
        <3>1. CASE Goes(h, "advance")
            BY <2>1, <3>1, AdvanceStep
        <3>2. ASSUME NEW t \in Latest, run' = [run EXCEPT ![h].at = "claim", ![h].t = t]
              PROVE  run' \in [Handlers -> Handler] /\ \A g \in Handlers : Placed(run'[g], sends')
            <4> DEFINE r == [run[h] EXCEPT !.at = "claim", !.t = t]
            <4>1. t \in Tokens
                BY DEF Latest
            <4>2. r \in Handler /\ Placed(r, sends') /\ run' = [run EXCEPT ![h] = r]
                BY <2>1, <3>2, <4>1 DEF Handler, Places, Placed, Claimed, TypeInv
            <4> HIDE DEF r
            <4> QED BY <2>1, <4>2, RunStep
        <3> QED BY <1>12, <3>1, <3>2 DEF Weighs
    <2> QED BY <1>12, <2>2 DEF TypeInv, TypeOK, Weighs
<1>13. ASSUME NEW h \in Handlers, Claims(h) PROVE TypeInv'
    <2>1. run[h] \in Handler /\ Placed(run[h], sends) /\ DayOf(run[h].slot) \in Days
        BY DEF TypeInv, Handler
    <2>2. sends' \in [Days -> Send] /\ Keeps
        BY <1>13, <2>1 DEF Claims, Today, Keeps, TypeInv, TypeOK, Send
    <2>3. run' \in [Handlers -> Handler] /\ \A g \in Handlers : Placed(run'[g], sends')
        <3>1. CASE sends[Today(h)].status = "none"
            <4>1. sends'[DayOf(run[h].slot)].status # "none" /\ Goes(h, "recheck")
                BY <1>13, <2>1, <3>1 DEF Claims, Today, TypeInv, TypeOK
            <4>2. Placed([run[h] EXCEPT !.at = "recheck"], sends')
                BY <1>13, <2>1, <4>1 DEF Claims, Handler, Placed, Claimed
            <4> QED BY <2>2, <4>1, <4>2, GoStep DEF Places
        <3>2. CASE sends[Today(h)].status # "none"
            BY <1>13, <2>2, <3>2, AdvanceStep DEF Claims
        <3> QED BY <3>1, <3>2
    <2>4. \A d \in log : sends'[d.day].status # "none"
        BY <2>2 DEF TypeInv, TypeOK, Keeps, Delivery
    <2> QED BY <1>13, <2>2, <2>3, <2>4 DEF TypeInv, TypeOK, Claims
<1>14. ASSUME NEW h \in Handlers, Rechecks(h) PROVE TypeInv'
    <2>1. run' \in [Handlers -> Handler] /\ \A g \in Handlers : Placed(run'[g], sends')
        BY <1>14, OnwardStep, SameSendsKeep DEF Rechecks, Claimed
    <2> QED BY <1>14, <2>1 DEF TypeInv, TypeOK, Rechecks
<1>15. ASSUME NEW h \in Handlers, Cancels(h) PROVE TypeInv'
    BY <1>15, MarksType DEF Cancels, Claimed
<1>16. ASSUME NEW h \in Handlers, Sends(h) PROVE TypeInv'
    <2>1. run[h] \in Handler /\ Placed(run[h], sends) /\ DayOf(run[h].slot) \in Days /\ Keeps
        BY <1>16, SameSendsKeep DEF TypeInv, Handler, Sends
    <2>2. run' \in [Handlers -> Handler] /\ \A g \in Handlers : Placed(run'[g], sends')
        <3>1. CASE Seen(Today(h)) # {}
            BY <1>16, <2>1, <3>1, OnwardStep DEF Sends, Claimed
        <3>2. CASE Seen(Today(h)) = {}
            <4>1. PICK ticket \in Returned :
                    run' = [run EXCEPT ![h].at = "record", ![h].began = now,
                                       ![h].result = ResultOf(ticket)]
                BY <1>16, <3>2 DEF Sends
            <4> DEFINE r == [run[h] EXCEPT !.at = "record", !.began = now,
                                           !.result = ResultOf(ticket)]
            <4>2. ResultOf(ticket) \in {"sent", "error", "dead"}
                BY DEF ResultOf
            <4>3. r \in Handler
                BY <2>1, <4>2 DEF Handler, Places, TypeInv, TypeOK
            <4>4. Placed(r, sends')
                BY <1>16, <2>1 DEF Sends, Handler, Placed, Claimed
            <4>5. run' = [run EXCEPT ![h] = r]
                BY <4>1
            <4> HIDE DEF r
            <4> QED BY <2>1, <4>3, <4>4, <4>5, RunStep
        <3> QED BY <3>1, <3>2
    <2>3. pushes' \in [Days -> 0 .. 2]
        BY <1>16, <2>1 DEF Sends, Today, TypeInv, TypeOK
    <2> QED BY <1>16, <2>2, <2>3 DEF TypeInv, TypeOK, Sends
<1>17. ASSUME NEW h \in Handlers, Records(h) PROVE TypeInv'
    <2>1. /\ run[h] \in Handler /\ run[h].t \in Tokens /\ DayOf(run[h].slot) \in Days
          /\ sends[DayOf(run[h].slot)].status # "none"
        BY <1>17 DEF TypeInv, Handler, Records, Placed, Claimed
    <2>2. log' \subseteq Delivery /\ \A d \in log' : sends[d.day].status # "none"
        BY <1>17, <2>1 DEF Records, Today, Delivery, TypeInv, TypeOK
    <2>3. run' \in [Handlers -> Handler] /\ \A g \in Handlers : Placed(run'[g], sends')
        BY <1>17, OnwardStep, SameSendsKeep DEF Records, Claimed
    <2> QED BY <1>17, <2>2, <2>3 DEF TypeInv, TypeOK, Records
<1>18. ASSUME NEW h \in Handlers, Prunes(h) PROVE TypeInv'
    <2>1. run' \in [Handlers -> Handler] /\ \A g \in Handlers : Placed(run'[g], sends')
        BY <1>18, OnwardStep, SameSendsKeep DEF Prunes, Claimed
    <2>2. /\ token' \in [Tokens -> Token]
          /\ \A u \in Tokens : (token'[u].is = "off") = (token'[u].why # "none")
        BY <1>18, DisableType DEF Prunes
    <2> QED BY <1>18, <2>1, <2>2 DEF TypeInv, TypeOK, Prunes
<1>19. ASSUME NEW h \in Handlers, MarksSent(h) PROVE TypeInv'
    BY <1>19, MarksType DEF MarksSent, Claimed
<1>20. ASSUME NEW h \in Handlers, Advances(h) PROVE TypeInv'
    <2>1. run' \in [Handlers -> Handler] /\ \A g \in Handlers : Placed(run'[g], sends')
        BY <1>20, EndStep, SameSendsKeep DEF Advances
    <2>2. pref' \in Preference
        BY <1>20 DEF Advances, Preference, TypeInv, TypeOK
    <2> QED BY <1>20, <2>1, <2>2 DEF TypeInv, TypeOK, Advances
<1>21. ASSUME NEW h \in Handlers, CheckReceipts(h) PROVE TypeInv'
    <2> DEFINE open == {d \in log : d.status = "sent"}
               old == {d \in open : d.at + DAY < now}
               rows == {d \in open \ old : d.at < now}
               r == [Idle EXCEPT !.at = "receipts", !.rows = rows]
    <2>1. r \in Handler /\ Placed(r, sends')
        <3>1. rows \in SUBSET Delivery
            BY DEF TypeInv, TypeOK
        <3> HIDE DEF rows
        <3> QED BY <3>1, ReadingType, Zenon
    <2>2. Arrives(h, r) /\ Keeps /\ log' = (log \ old) \union {[d EXCEPT !.status = "receipt_missing"] : d \in old}
        BY <1>21, SameSendsKeep DEF CheckReceipts
    <2>3. \A d \in old : /\ [d EXCEPT !.status = "receipt_missing"] \in Delivery
                         /\ [d EXCEPT !.status = "receipt_missing"].day = d.day
        BY DEF Delivery, TypeInv, TypeOK
    <2> HIDE DEF r
    <2>4. log' \subseteq Delivery /\ \A d \in log' : sends[d.day].status # "none"
        <3>1. old \subseteq log
            OBVIOUS
        <3> HIDE DEF old
        <3>2. ASSUME NEW e \in log' PROVE e \in Delivery /\ sends[e.day].status # "none"
            <4>1. CASE e \in log
                BY <4>1 DEF TypeInv, TypeOK
            <4>2. CASE e \notin log
                <5>1. PICK d \in old : e = [d EXCEPT !.status = "receipt_missing"]
                    BY <2>2, <3>2, <4>2
                <5> QED BY <2>3, <3>1, <5>1 DEF TypeInv, TypeOK
            <4> QED BY <4>1, <4>2
        <3> QED BY <3>2
    <2>5. /\ run' \in [Handlers -> Handler] /\ \A g \in Handlers : Placed(run'[g], sends')
          /\ calls' \in 0 .. MaxCalls
        BY <2>1, <2>2, ArriveStep
    <2> QED BY <1>21, <2>4, <2>5 DEF TypeInv, TypeOK, CheckReceipts
<1>22. ASSUME NEW h \in Handlers, ReadsReceipt(h) PROVE TypeInv'
    <2>1. PICK d \in run[h].rows :
            /\ run' = [run EXCEPT ![h].rows = @ \ {d}]
            /\ \/ UNCHANGED <<log, token>>
               \/ Settles(d, "provider_confirmed") /\ UNCHANGED token
               \/ Settles(d, "error") /\ UNCHANGED token
               \/ /\ Settles(d, "error")
                  /\ Disable({t \in {d.token} : token[t].at <= d.at}, "dead")
        BY <1>22 DEF ReadsReceipt
    <2>2. run[h] \in Handler /\ d \in Delivery /\ Keeps
        BY <1>22, SameSendsKeep DEF TypeInv, Handler, ReadsReceipt
    <2> DEFINE r == [run[h] EXCEPT !.rows = @ \ {d}]
    <2>3. r \in Handler /\ Placed(r, sends') /\ run' = [run EXCEPT ![h] = r]
        BY <1>22, <2>1, <2>2 DEF ReadsReceipt, Handler, Placed, Claimed, TypeInv
    <2> HIDE DEF r
    <2>4. run' \in [Handlers -> Handler] /\ \A g \in Handlers : Placed(run'[g], sends')
        BY <2>2, <2>3, RunStep
    <2>5. log' \subseteq Delivery /\ \A e \in log' : sends[e.day].status # "none"
        BY <2>1, <2>2, SettlesType DEF TypeInv, TypeOK
    <2>6. /\ token' \in [Tokens -> Token]
          /\ \A u \in Tokens : (token'[u].is = "off") = (token'[u].why # "none")
        <3>1. CASE UNCHANGED token
            BY <3>1 DEF TypeInv, TypeOK
        <3>2. CASE Disable({t \in {d.token} : token[t].at <= d.at}, "dead")
            BY <3>2, DisableType
        <3> QED BY <2>1, <3>1, <3>2
    <2> QED BY <1>22, <2>4, <2>5, <2>6 DEF TypeInv, TypeOK, ReadsReceipt
<1>23. ASSUME NEW h \in Handlers, AllRead(h) PROVE TypeInv'
    <2>1. run' \in [Handlers -> Handler] /\ \A g \in Handlers : Placed(run'[g], sends')
        BY <1>23, EndStep, SameSendsKeep DEF AllRead
    <2> QED BY <1>23, <2>1 DEF TypeInv, TypeOK, AllRead
<1>24. ASSUME NEW h \in Handlers, Dies(h) PROVE TypeInv'
    <2>1. run' \in [Handlers -> Handler] /\ \A g \in Handlers : Placed(run'[g], sends')
        BY <1>24, EndStep, AdvanceStep, SameSendsKeep DEF Dies
    <2> QED BY <1>24, <2>1 DEF TypeInv, TypeOK, Dies
<1>25. CASE Tick
    <2>1. now' \in Times
        BY <1>25 DEF Tick, TypeInv, TypeOK, Times
    <2> QED BY <1>25, <2>1 DEF TypeInv, TypeOK, Tick
<1>26. CASE UNCHANGED vars
    BY <1>26 DEF vars, TypeInv, TypeOK
<1>27. pref.enabled \in BOOLEAN
    BY DEF TypeInv, TypeOK, Preference
<1> QED
    BY <1>1, <1>2, <1>3, <1>4, <1>5, <1>6, <1>7, <1>8, <1>9, <1>10, <1>11, <1>12, <1>13, <1>14,
       <1>15, <1>16, <1>17, <1>18, <1>19, <1>20, <1>21, <1>22, <1>23, <1>24, <1>25, <1>26, <1>27
    DEF Next, PhoneNext, SettingsNext, DrainNext, ReceiptsNext

LEMMA TypeInit == Init => TypeInv
<1> SUFFICES ASSUME Init PROVE TypeInv
    OBVIOUS
<1>1. \A h \in Handlers : run[h] \in Handler /\ Placed(run[h], sends)
    BY IdleType DEF Init
<1>2. run \in [Handlers -> Handler]
    BY <1>1 DEF Init
<1>3. pref \in Preference /\ sends \in [Days -> Send] /\ pushes \in [Days -> 0 .. 2]
    BY SlotTypes DEF Init, Preference, Send
<1>4. /\ token \in [Tokens -> Token]
      /\ \A t \in Tokens : (token[t].is = "off") = (token[t].why # "none")
    BY SlotTypes DEF Init, Token
<1>5. /\ now \in Times /\ calls \in 0 .. MaxCalls
      /\ log \subseteq Delivery /\ \A d \in log : sends[d.day].status # "none"
    BY SlotTypes DEF Init
<1>6. listed \in BOOLEAN /\ out \in BOOLEAN
    BY DEF Init
<1>7. TypeOK
    BY <1>1, <1>3, <1>4, <1>5, <1>6 DEF TypeOK
<1> QED BY <1>1, <1>2, <1>7 DEF TypeInv

LEMMA Typed == Spec => []TypeInv
BY TypeInit, TypeStep, PTL DEF Spec

\* Type correctness; in particular no delivery is recorded for a day nobody
\* claimed, and a token is disabled exactly when it has a reason.
THEOREM TypeCorrect == Spec => []TypeOK
<1>1. TypeInv => TypeOK
    BY DEF TypeInv
<1> QED BY <1>1, Typed, PTL

-----------------------------------------------------------------------------
(* Most steps are no concern of the push: no handler comes to claim, to send *)
(* or to choose by them, and settings, claims and pushes stay.               *)

Sending == {"send", "record", "prune", "mark"}

Aside(g) ==
    /\ run'[g].at \in Claimed => run[g].at \in Claimed /\ run'[g].slot = run[g].slot
    /\ run'[g].at \in {"recheck", "send"} => run[g].at \in {"recheck", "send"}
    /\ run'[g].at \in Sending => run[g].at \in Sending
    /\ run'[g].at = "choose" => run[g].at = "choose" /\ run'[g].on = run[g].on

Background ==
    /\ \A g \in Handlers : Aside(g)
    /\ UNCHANGED <<sends, pushes, out>>
    /\ pref'.is = pref.is /\ pref'.enabled = pref.enabled

LEMMA AsideStep ==
    ASSUME NEW h \in Handlers, \A g \in Handlers \ {h} : run'[g] = run[g],
           run'[h].at \notin Claimed, run'[h].at # "choose"
    PROVE  \A g \in Handlers : Aside(g)
BY DEF Aside, Claimed, Sending

LEMMA GoAsideStep ==
    ASSUME TypeInv, NEW h \in Handlers, NEW place \in Places, Goes(h, place),
           place \notin Claimed, place # "choose"
    PROVE  \A g \in Handlers : Aside(g)
<1>1. run[h] \in Handler
    BY DEF TypeInv
<1>2. run'[h].at = place /\ \A g \in Handlers \ {h} : run'[g] = run[g]
    BY <1>1 DEF Goes, Handler, TypeInv
<1> QED BY <1>2, AsideStep

LEMMA EndAsideStep ==
    ASSUME TypeInv, NEW h \in Handlers, Ends(h)
    PROVE  \A g \in Handlers : Aside(g)
<1>1. run'[h].at = "idle" /\ \A g \in Handlers \ {h} : run'[g] = run[g]
    BY DEF Ends, Idle, TypeInv
<1> QED BY <1>1, AsideStep DEF Claimed

LEMMA BackgroundSteps ==
    ASSUME TypeInv, [Next]_vars
    PROVE  \/ Background
           \/ \E h \in Handlers :
                \/ Creates(h) \/ SavesChoices(h) \/ Claims(h) \/ Rechecks(h) \/ Cancels(h) \/ Sends(h)
                \/ MarksSent(h)
                \/ \E on \in BOOLEAN : Choose(h, on)
<1>1. ASSUME NEW h \in Handlers, NEW t \in Tokens, RegisterToken(h, t) PROVE Background
    <2>1. \A g \in Handlers : Aside(g)
        <3>1. run'[h].at = "retire" /\ \A g \in Handlers \ {h} : run'[g] = run[g]
            BY <1>1 DEF RegisterToken, Arrives, Idle, TypeInv
        <3> QED BY <3>1, AsideStep DEF Claimed
    <2> QED BY <1>1, <2>1 DEF RegisterToken, Background
<1>2. ASSUME NEW h \in Handlers, Retires(h) \/ Removes(h) \/ AllRead(h) PROVE Background
    BY <1>2, EndAsideStep DEF Retires, Removes, AllRead, Background
<1>3. ASSUME NEW h \in Handlers, Silence(h) PROVE Background
    <2>1. \A g \in Handlers : Aside(g)
        <3>1. run'[h].at = "remove" /\ \A g \in Handlers \ {h} : run'[g] = run[g]
            BY <1>3 DEF Silence, Arrives, Idle, TypeInv
        <3> QED BY <3>1, AsideStep DEF Claimed
    <2> QED BY <1>3, <2>1 DEF Silence, Background
<1>4. CASE Enlist
    BY <1>4 DEF Enlist, Background, Aside
<1>5. ASSUME NEW h \in Handlers, Context(h) PROVE Background
    <2>1. PICK slot \in NextIf(~pref.is \/ pref.enabled) :
            Arrives(h, [Idle EXCEPT !.at = IF pref.is THEN "context" ELSE "first", !.slot = slot])
        BY <1>5, Zenon DEF Context
    <2>2. \A g \in Handlers : Aside(g)
        <3>1. run'[h].at \in {"context", "first"} /\ \A g \in Handlers \ {h} : run'[g] = run[g]
            BY <2>1 DEF Arrives, Idle, TypeInv
        <3> QED BY <3>1, AsideStep DEF Claimed
    <2>3. UNCHANGED <<settings, sending>>
        BY <1>5, Zenon DEF Context
    <2> QED BY <2>2, <2>3 DEF Background
<1>6. ASSUME NEW h \in Handlers, SavesContext(h) PROVE Background
    <2>1. \A g \in Handlers : Aside(g)
        BY <1>6, EndAsideStep DEF SavesContext
    <2> QED BY <1>6, <2>1 DEF SavesContext, Background, TypeInv, TypeOK, Preference
<1>7. ASSUME NEW h \in Handlers, Drain(h) PROVE Background
    <2>1. \A g \in Handlers : Aside(g)
        <3>1. run'[h].at = "weigh" /\ \A g \in Handlers \ {h} : run'[g] = run[g]
            BY <1>7 DEF Drain, Arrives, Idle, TypeInv
        <3> QED BY <3>1, AsideStep DEF Claimed
    <2> QED BY <1>7, <2>1 DEF Drain, Background
<1>8. ASSUME NEW h \in Handlers, Weighs(h) PROVE Background
    <2>1. run[h] \in Handler
        BY DEF TypeInv
    <2>2. ASSUME NEW t \in Latest, run' = [run EXCEPT ![h].at = "claim", ![h].t = t]
          PROVE  \A g \in Handlers : Aside(g)
        <3>1. run'[h].at = "claim" /\ \A g \in Handlers \ {h} : run'[g] = run[g]
            BY <2>1, <2>2 DEF Handler, TypeInv
        <3> QED BY <3>1, AsideStep DEF Claimed
    <2>3. \A g \in Handlers : Aside(g)
        BY <1>8, <2>2, GoAsideStep DEF Weighs, Claimed, Places
    <2> QED BY <1>8, <2>3 DEF Weighs, Background
<1>9. ASSUME NEW h \in Handlers, Records(h) PROVE Background
    <2>1. \A g \in Handlers : Aside(g)
        BY <1>9 DEF Records, Goes, Aside, Claimed, Sending, TypeInv, Handler
    <2> QED BY <1>9, <2>1 DEF Records, Background
<1>10. ASSUME NEW h \in Handlers, Prunes(h) PROVE Background
    <2>1. \A g \in Handlers : Aside(g)
        BY <1>10 DEF Prunes, Goes, Aside, Claimed, Sending, TypeInv, Handler
    <2> QED BY <1>10, <2>1 DEF Prunes, Background
<1>11. ASSUME NEW h \in Handlers, Advances(h) PROVE Background
    <2>1. \A g \in Handlers : Aside(g)
        BY <1>11, EndAsideStep DEF Advances
    <2> QED BY <1>11, <2>1 DEF Advances, Background, TypeInv, TypeOK, Preference
<1>12. ASSUME NEW h \in Handlers, CheckReceipts(h) PROVE Background
    <2>1. PICK rows : Arrives(h, [Idle EXCEPT !.at = "receipts", !.rows = rows])
        BY <1>12, Zenon DEF CheckReceipts
    <2>2. \A g \in Handlers : Aside(g)
        <3>1. run'[h].at = "receipts" /\ \A g \in Handlers \ {h} : run'[g] = run[g]
            BY <2>1 DEF Arrives, Idle, TypeInv
        <3> QED BY <3>1, AsideStep DEF Claimed
    <2>3. UNCHANGED <<settings, sends, pushes>>
        BY <1>12, Zenon DEF CheckReceipts
    <2> QED BY <2>2, <2>3 DEF Background
<1>13. ASSUME NEW h \in Handlers, ReadsReceipt(h) PROVE Background
    <2>1. PICK d \in run[h].rows : run' = [run EXCEPT ![h].rows = @ \ {d}]
        BY <1>13 DEF ReadsReceipt
    <2>2. \A g \in Handlers : Aside(g)
        BY <2>1 DEF Aside, TypeInv, Handler
    <2> QED BY <1>13, <2>2 DEF ReadsReceipt, Background
<1>14. ASSUME NEW h \in Handlers, Dies(h) PROVE Background
    <2>1. \A g \in Handlers : Aside(g)
        BY <1>14, EndAsideStep, GoAsideStep DEF Dies, Claimed, Places
    <2> QED BY <1>14, <2>1 DEF Dies, Background
<1>15. CASE Tick \/ UNCHANGED vars
    BY <1>15 DEF Tick, vars, Background, Aside
<1>16. pref.enabled \in BOOLEAN
    BY DEF TypeInv, TypeOK, Preference
<1> QED
    BY <1>1, <1>2, <1>3, <1>4, <1>5, <1>6, <1>7, <1>8, <1>9, <1>10, <1>11, <1>12, <1>13, <1>14,
       <1>15, <1>16
    DEF Next, PhoneNext, SettingsNext, DrainNext, ReceiptsNext

-----------------------------------------------------------------------------
(* One push a day.  A claim is unique, so a day has one handler past it, and *)
(* until that one has sent nothing went out for the day.                     *)

OneAtADay ==
    /\ \A h, g \in Handlers : h # g /\ run[h].at \in Claimed /\ run[g].at \in Claimed
                                => Today(h) # Today(g)
    /\ \A h \in Handlers : run[h].at \in {"recheck", "send"} => pushes[Today(h)] = 0
    /\ \A d \in Days : pushes[d] <= 1 /\ (pushes[d] # 0 => sends[d].status # "none")

LEMMA OnceAside ==
    ASSUME OneAtADay, \A g \in Handlers : Aside(g), UNCHANGED pushes, Keeps
    PROVE  OneAtADay'
BY DEF OneAtADay, Aside, Keeps, Today, Claimed

LEMMA OnwardAside ==
    ASSUME TypeInv, NEW h \in Handlers, run[h].at \in Claimed, NEW place \in Places, Goes(h, place),
           place \notin {"recheck", "choose"},
           place = "send" => run[h].at = "recheck",
           place \in Sending => run[h].at \in Sending \union {"recheck"}
    PROVE  \A g \in Handlers :
              /\ run'[g].at \in Claimed => run[g].at \in Claimed /\ run'[g].slot = run[g].slot
              /\ run'[g].at \in {"recheck", "send"} => run[g].at \in {"recheck", "send"}
              /\ run'[g].at = "choose" => run[g].at = "choose" /\ run'[g].on = run[g].on
              /\ run'[g].at \in Sending => run[g].at \in Sending \/ (g = h /\ run[h].at = "recheck")
BY DEF TypeInv, Handler, Goes, Sending

LEMMA OnceStep == TypeInv /\ OneAtADay /\ [Next]_vars => OneAtADay'
<1> SUFFICES ASSUME TypeInv, OneAtADay, [Next]_vars PROVE OneAtADay'
    OBVIOUS
<1> USE SlotTypes
<1>1. CASE Background
    BY <1>1, OnceAside, SameSendsKeep DEF Background
<1>2. ASSUME NEW h \in Handlers, Creates(h) PROVE OneAtADay'
    <2>1. run[h] \in Handler
        BY DEF TypeInv
    <2>2. \A g \in Handlers : Aside(g)
        <3>1. CASE pref.is
            <4>1. PICK slot \in NextIf(pref.enabled) :
                    run' = [run EXCEPT ![h].at = "context", ![h].slot = slot]
                BY <1>2, <3>1 DEF Creates
            <4>2. run'[h].at = "context" /\ \A g \in Handlers \ {h} : run'[g] = run[g]
                BY <2>1, <4>1 DEF Handler, TypeInv
            <4> QED BY <4>2, AsideStep DEF Claimed
        <3>2. CASE ~pref.is
            BY <1>2, <3>2, EndAsideStep DEF Creates
        <3> QED BY <3>1, <3>2
    <2> QED BY <1>2, <2>2, OnceAside, SameSendsKeep DEF Creates
<1>3. ASSUME NEW h \in Handlers, SavesChoices(h) PROVE OneAtADay'
    BY <1>3, EndAsideStep, OnceAside, SameSendsKeep DEF SavesChoices
<1>4. ASSUME NEW h \in Handlers, NEW on \in BOOLEAN, Choose(h, on) PROVE OneAtADay'
    <2>1. PICK slot \in NextIf(on) :
            Arrives(h, [Idle EXCEPT !.at = "choose", !.on = on, !.slot = slot])
        BY <1>4, Zenon DEF Choose
    <2>2. \A g \in Handlers : run'[g].at \in Claimed => run'[g] = run[g]
        BY <2>1 DEF Arrives, Idle, Claimed, TypeInv
    <2>3. /\ sends' = [d \in Days |-> [sends[d] EXCEPT !.late = @ /\ ~on]]
          /\ UNCHANGED pushes
        BY <1>4, Zenon DEF Choose
    <2>4. \A d \in Days : sends'[d].status = sends[d].status
        BY <2>3 DEF TypeInv, TypeOK, Send
    <2> QED BY <2>2, <2>3, <2>4 DEF OneAtADay, Today, Claimed
<1>5. ASSUME NEW h \in Handlers, Claims(h) PROVE OneAtADay'
    <2>1. run[h] \in Handler /\ Today(h) \in Days
        BY DEF TypeInv, Handler, Today
    <2>2. CASE sends[Today(h)].status = "none"
        <3>1. /\ \A g \in Handlers : run'[g].slot = run[g].slot /\ (g # h => run'[g] = run[g])
              /\ run'[h].at = "recheck"
            BY <1>5, <2>1, <2>2 DEF Claims, Goes, TypeInv, Handler
        <3>2. Keeps
            BY <1>5, <2>1, <2>2 DEF Claims, Keeps, TypeInv, TypeOK
        <3>3. \A g \in Handlers : g # h /\ run[g].at \in Claimed => Today(g) # Today(h)
            BY <2>2 DEF TypeInv, Placed, Today
        <3>4. pushes[Today(h)] = 0 /\ pushes' = pushes
            BY <1>5, <2>1, <2>2 DEF OneAtADay, Claims
        <3>5. \A g \in Handlers : Today(g)' = Today(g)
            BY <3>1 DEF Today
        <3>6. \A d \in Days : pushes'[d] <= 1 /\ (pushes'[d] # 0 => sends'[d].status # "none")
            BY <3>2, <3>4 DEF OneAtADay, Keeps
        <3>7. \A g \in Handlers : run'[g].at \in {"recheck", "send"} => pushes'[Today(g)'] = 0
            BY <3>1, <3>4, <3>5 DEF OneAtADay
        <3>8. \A f, g \in Handlers : f # g /\ run'[f].at \in Claimed /\ run'[g].at \in Claimed
                                        => Today(f)' # Today(g)'
            BY <3>1, <3>3, <3>5 DEF OneAtADay
        <3> QED BY <3>6, <3>7, <3>8 DEF OneAtADay
    <2>3. CASE sends[Today(h)].status # "none"
        BY <1>5, <2>3, GoAsideStep, OnceAside, SameSendsKeep DEF Claims, Claimed, Places
    <2> QED BY <2>2, <2>3
<1>6. ASSUME NEW h \in Handlers, Rechecks(h) PROVE OneAtADay'
    <2>1. \A g \in Handlers :
              /\ run'[g].at \in Claimed => run[g].at \in Claimed /\ run'[g].slot = run[g].slot
              /\ run'[g].at \in {"recheck", "send"} => run[g].at \in {"recheck", "send"}
        BY <1>6, OnwardAside DEF Rechecks, Claimed, Places, Sending
    <2> QED BY <1>6, <2>1 DEF OneAtADay, Rechecks, Today, Claimed
<1>7. ASSUME NEW h \in Handlers, Cancels(h) \/ MarksSent(h) PROVE OneAtADay'
    <2>1. \A g \in Handlers : Aside(g)
        BY <1>7, GoAsideStep DEF Cancels, MarksSent, Marks, Claimed, Places
    <2>2. Keeps
        BY <1>7 DEF Cancels, MarksSent, Marks, Keeps, TypeInv, TypeOK, Send
    <2> QED BY <1>7, <2>1, <2>2, OnceAside DEF Cancels, MarksSent, Marks
<1>8. ASSUME NEW h \in Handlers, Sends(h) PROVE OneAtADay'
    <2>1. run[h] \in Handler /\ Today(h) \in Days
        BY DEF TypeInv, Handler, Today
    <2>2. /\ \A g \in Handlers : run'[g].slot = run[g].slot /\ (g # h => run'[g] = run[g])
          /\ run'[h].at \in {"mark", "record"} /\ run[h].at = "send"
        <3>1. CASE Seen(Today(h)) # {}
            BY <1>8, <2>1, <3>1 DEF Sends, Goes, TypeInv, Handler
        <3>2. CASE Seen(Today(h)) = {}
            <4>1. PICK result : run' = [run EXCEPT ![h].at = "record", ![h].began = now,
                                                   ![h].result = result]
                BY <1>8, <3>2, Zenon DEF Sends
            <4>2. run[h].at = "send"
                BY <1>8, Zenon DEF Sends
            <4> QED BY <2>1, <4>1, <4>2 DEF TypeInv, Handler
        <3> QED BY <3>1, <3>2
    <2>3. \A g \in Handlers : Today(g)' = Today(g)
        BY <2>2 DEF Today
    <2>4. /\ pushes[Today(h)] = 0 /\ sends[Today(h)].status # "none"
          /\ \A g \in Handlers \ {h} : run[g].at \in Claimed => Today(g) # Today(h)
        BY <2>2 DEF OneAtADay, Claimed, TypeInv, Placed, Today
    <2>5. \A d \in Days : pushes'[d] = pushes[d] \/ (d = Today(h) /\ pushes'[d] = 1)
        BY <1>8, <2>1, <2>4 DEF Sends, TypeInv, TypeOK
    <2>6. \A d \in Days : pushes'[d] <= 1 /\ (pushes'[d] # 0 => sends'[d].status # "none")
        BY <1>8, <2>4, <2>5 DEF OneAtADay, Sends
    <2>7. \A g \in Handlers : run'[g].at \in {"recheck", "send"} => pushes'[Today(g)'] = 0
        <3> SUFFICES ASSUME NEW g \in Handlers, run'[g].at \in {"recheck", "send"}
                     PROVE  pushes'[Today(g)'] = 0
            OBVIOUS
        <3>1. g # h /\ run[g].at \in {"recheck", "send"} /\ Today(g)' = Today(g) /\ Today(g) # Today(h)
            BY <2>2, <2>3, <2>4 DEF Claimed
        <3>2. Today(g) \in Days
            BY DEF TypeInv, Handler, Today
        <3> QED BY <2>5, <3>1, <3>2 DEF OneAtADay
    <2>8. \A f, g \in Handlers : f # g /\ run'[f].at \in Claimed /\ run'[g].at \in Claimed
                                    => Today(f)' # Today(g)'
        BY <2>2, <2>3 DEF OneAtADay, Claimed
    <2> QED BY <2>6, <2>7, <2>8 DEF OneAtADay
<1> QED BY <1>1, <1>2, <1>3, <1>4, <1>5, <1>6, <1>7, <1>8, BackgroundSteps

-----------------------------------------------------------------------------
(* No push after an opt-out that stands.  Whoever saves a choice while it    *)
(* stands saves an opt-out, and who looked at the settings after claiming    *)
(* does not send for a day claimed late.                                     *)

OptedOut ==
    /\ out => pref.is /\ ~pref.enabled
    /\ \A h \in Handlers : run[h].at = "choose" => pref.is /\ (out => ~run[h].on)
    /\ \A d \in Days : sends[d].late => out /\ sends[d].status # "sent"
    /\ \A h \in Handlers : run[h].at \in Sending => ~sends[Today(h)].late

LEMMA OutAside ==
    ASSUME OptedOut, \A g \in Handlers : Aside(g), UNCHANGED sends, out' = out,
           pref'.is = pref.is, pref'.enabled = pref.enabled
    PROVE  OptedOut'
BY DEF OptedOut, Aside, Today, Claimed, Sending

LEMMA OutStep == TypeInv /\ OptedOut /\ [Next]_vars => OptedOut'
<1> SUFFICES ASSUME TypeInv, OptedOut, [Next]_vars PROVE OptedOut'
    OBVIOUS
<1> USE SlotTypes
<1>1. CASE Background
    BY <1>1, OutAside DEF Background
<1>2. ASSUME NEW h \in Handlers, Creates(h) PROVE OptedOut'
    <2>1. run[h] \in Handler
        BY DEF TypeInv
    <2>2. CASE pref.is
        <3>1. PICK slot \in NextIf(pref.enabled) :
                run' = [run EXCEPT ![h].at = "context", ![h].slot = slot]
            BY <1>2, <2>2 DEF Creates
        <3>2. run'[h].at = "context" /\ \A g \in Handlers \ {h} : run'[g] = run[g]
            BY <2>1, <3>1 DEF Handler, TypeInv
        <3>3. \A g \in Handlers : Aside(g)
            BY <3>2, AsideStep DEF Claimed
        <3> QED BY <1>2, <2>2, <3>3, OutAside DEF Creates
    <2>3. CASE ~pref.is
        <3>1. \A g \in Handlers : Aside(g)
            BY <1>2, <2>3, EndAsideStep DEF Creates
        <3>2. ~out /\ out' = out /\ sends' = sends
            BY <1>2, <2>3 DEF OptedOut, Creates
        <3>3. \A g \in Handlers : run'[g].at # "choose"
            BY <2>3, <3>1 DEF Aside, OptedOut
        <3> QED BY <3>1, <3>2, <3>3 DEF OptedOut, Aside, Today, Claimed, Sending
    <2> QED BY <2>2, <2>3
<1>3. ASSUME NEW h \in Handlers, SavesChoices(h) PROVE OptedOut'
    <2>1. \A g \in Handlers : Aside(g)
        BY <1>3, EndAsideStep DEF SavesChoices
    <2>2. run[h] \in Handler /\ pref \in Preference /\ out \in BOOLEAN
        BY DEF TypeInv, TypeOK
    <2>3. pref'.is = pref.is /\ pref'.enabled = run[h].on /\ sends' = sends /\ run[h].at = "choose"
        BY <1>3, <2>2 DEF SavesChoices, Preference
    <2>4. /\ run'[h].at = "idle" /\ \A g \in Handlers \ {h} : run'[g] = run[g]
          /\ out' => out \/ (~run[h].on /\ \A g \in Handlers \ {h} : run[g].at # "choose")
          /\ out => out'
        BY <1>3, <2>2 DEF SavesChoices, Ends, Idle, TypeInv
    <2>5. out' => pref'.is /\ ~pref'.enabled
        BY <2>3, <2>4 DEF OptedOut
    <2>6. \A g \in Handlers : run'[g].at = "choose" => pref'.is /\ (out' => ~run'[g].on)
        BY <2>3, <2>4 DEF OptedOut
    <2>7. \A d \in Days : sends'[d].late => out' /\ sends'[d].status # "sent"
        BY <2>3, <2>4 DEF OptedOut
    <2>8. \A g \in Handlers : run'[g].at \in Sending => ~sends'[Today(g)'].late
        BY <2>1, <2>3 DEF OptedOut, Aside, Today, Claimed, Sending
    <2> QED BY <2>5, <2>6, <2>7, <2>8 DEF OptedOut
<1>4. ASSUME NEW h \in Handlers, NEW on \in BOOLEAN, Choose(h, on) PROVE OptedOut'
    <2>1. PICK slot \in NextIf(on) :
            Arrives(h, [Idle EXCEPT !.at = "choose", !.on = on, !.slot = slot])
        BY <1>4, Zenon DEF Choose
    <2>2. /\ run'[h].at = "choose" /\ run'[h].on = on
          /\ \A g \in Handlers \ {h} : run'[g] = run[g]
        BY <2>1 DEF Arrives, Idle, TypeInv
    <2>3. /\ sends' = [d \in Days |-> [sends[d] EXCEPT !.late = @ /\ ~on]]
          /\ out' = (out /\ ~on) /\ pref' = pref /\ pref.is
        BY <1>4, Zenon DEF Choose
    <2>4. \A d \in Days : sends'[d].status = sends[d].status /\ sends'[d].late = (sends[d].late /\ ~on)
        BY <2>3 DEF TypeInv, TypeOK, Send
    <2>5. out' => out /\ ~on
        BY <2>3
    <2>6. \A d \in Days : sends'[d].late => out' /\ sends'[d].status # "sent"
        BY <2>3, <2>4 DEF OptedOut
    <2>7. \A g \in Handlers : run'[g].at = "choose" => pref'.is /\ (out' => ~run'[g].on)
        BY <2>2, <2>3, <2>5 DEF OptedOut
    <2>8. \A g \in Handlers : Today(g) \in Days
        BY DEF TypeInv, Handler, Today
    <2>9. \A g \in Handlers : run'[g].at \in Sending => ~sends'[Today(g)'].late
        BY <2>2, <2>4, <2>8 DEF OptedOut, Today, Sending
    <2> QED BY <2>3, <2>5, <2>6, <2>7, <2>9 DEF OptedOut
<1>5. ASSUME NEW h \in Handlers, Claims(h) PROVE OptedOut'
    <2>1. run[h] \in Handler /\ Today(h) \in Days
        BY DEF TypeInv, Handler, Today
    <2>2. CASE sends[Today(h)].status = "none"
        <3>1. /\ \A g \in Handlers : run'[g].slot = run[g].slot /\ (g # h => run'[g] = run[g])
              /\ run'[h].at = "recheck"
            BY <1>5, <2>1, <2>2 DEF Claims, Goes, TypeInv, Handler
        <3>2. /\ \A d \in Days \ {Today(h)} : sends'[d] = sends[d]
              /\ sends'[Today(h)].status = "reserved" /\ sends'[Today(h)].late = out
              /\ pref' = pref /\ out' = out
            BY <1>5, <2>1, <2>2 DEF Claims, TypeInv, TypeOK
        <3>3. \A g \in Handlers : g # h /\ run[g].at \in Sending
                                    => Today(g) # Today(h) /\ Today(g) \in Days
            BY <2>2 DEF TypeInv, Placed, Today, Handler, Claimed, Sending
        <3>4. \A g \in Handlers : run'[g].at \in Sending => ~sends'[Today(g)'].late
            BY <3>1, <3>2, <3>3 DEF OptedOut, Today, Sending
        <3>5. \A d \in Days : sends'[d].late => out' /\ sends'[d].status # "sent"
            BY <3>2 DEF OptedOut
        <3> QED BY <3>1, <3>2, <3>4, <3>5 DEF OptedOut
    <2>3. CASE sends[Today(h)].status # "none"
        BY <1>5, <2>3, GoAsideStep, OutAside DEF Claims, Claimed, Places
    <2> QED BY <2>2, <2>3
<1>6. ASSUME NEW h \in Handlers, Rechecks(h) PROVE OptedOut'
    <2>1. run[h] \in Handler /\ Today(h) \in Days
        BY DEF TypeInv, Handler, Today
    <2>2. /\ \A g \in Handlers : run'[g].slot = run[g].slot /\ (g # h => run'[g] = run[g])
          /\ run'[h].at = IF pref.enabled /\ pref.next = run[h].slot THEN "send" ELSE "cancel"
          /\ UNCHANGED <<sends, pref, out>>
        BY <1>6, <2>1 DEF Rechecks, Goes, TypeInv, Handler
    <2>3. run'[h].at \in Sending => ~sends[Today(h)].late
        BY <2>1, <2>2 DEF OptedOut, Sending
    <2> QED BY <2>2, <2>3 DEF OptedOut, Today
<1>7. ASSUME NEW h \in Handlers, Cancels(h) \/ MarksSent(h) PROVE OptedOut'
    <2>1. PICK status \in {"cancelled", "sent", "failed"} :
            /\ sends' = [sends EXCEPT ![Today(h)].status = status]
            /\ status = "sent" => run[h].at = "mark"
        BY <1>7 DEF Cancels, MarksSent, Marks
    <2>2. \A g \in Handlers : Aside(g)
        BY <1>7, GoAsideStep DEF Cancels, MarksSent, Marks, Claimed, Places
    <2>3. \A g \in Handlers : Today(g) \in Days
        BY DEF TypeInv, Handler, Today
    <2>4. \A d \in Days : /\ sends'[d].late = sends[d].late
                          /\ sends'[d].status = IF d = Today(h) THEN status ELSE sends[d].status
        BY <2>1, <2>3 DEF TypeInv, TypeOK, Send
    <2>5. \A d \in Days : sends'[d].late => out /\ sends'[d].status # "sent"
        BY <2>1, <2>4 DEF OptedOut, Sending
    <2>6. pref' = pref /\ out' = out
        BY <1>7 DEF Cancels, MarksSent, Marks
    <2>7. \A g \in Handlers : run'[g].at \in Sending => ~sends'[Today(g)'].late
        BY <2>2, <2>3, <2>4 DEF OptedOut, Aside, Today, Claimed, Sending
    <2>8. \A g \in Handlers : run'[g].at = "choose" => pref'.is /\ (out' => ~run'[g].on)
        BY <2>2, <2>6 DEF OptedOut, Aside
    <2> QED BY <2>5, <2>6, <2>7, <2>8 DEF OptedOut
<1>8. ASSUME NEW h \in Handlers, Sends(h) PROVE OptedOut'
    <2>1. run[h] \in Handler /\ run[h].at = "send"
        BY <1>8, Zenon DEF Sends, TypeInv
    <2>2. \A g \in Handlers : Aside(g)
        <3>1. CASE Seen(Today(h)) # {}
            <4>1. Goes(h, "mark")
                BY <1>8, <3>1, Zenon DEF Sends
            <4>2. /\ run'[h].slot = run[h].slot /\ run'[h].at = "mark"
                  /\ \A g \in Handlers \ {h} : run'[g] = run[g]
                BY <2>1, <4>1 DEF Goes, TypeInv, Handler
            <4> QED BY <2>1, <4>2 DEF Aside, Claimed, Sending
        <3>2. CASE Seen(Today(h)) = {}
            <4>1. PICK result : run' = [run EXCEPT ![h].at = "record", ![h].began = now,
                                                   ![h].result = result]
                BY <1>8, <3>2, Zenon DEF Sends
            <4>2. /\ run'[h].slot = run[h].slot /\ run'[h].at = "record"
                  /\ \A g \in Handlers \ {h} : run'[g] = run[g]
                BY <2>1, <4>1 DEF TypeInv, Handler
            <4> QED BY <2>1, <4>2 DEF Aside, Claimed, Sending
        <3> QED BY <3>1, <3>2
    <2>3. UNCHANGED <<sends, settings>>
        BY <1>8, Zenon DEF Sends
    <2> QED BY <2>2, <2>3, OutAside
<1> QED BY <1>1, <1>2, <1>3, <1>4, <1>5, <1>6, <1>7, <1>8, BackgroundSteps

\* For any handlers that overlap, retry and die: at most one push a day, and none
\* for a day claimed after an opt-out that stands.
THEOREM PushesAreWanted == Spec => []WantedOnce
<1>1. Init => OneAtADay /\ OptedOut
    <2> SUFFICES ASSUME Init PROVE OneAtADay /\ OptedOut
        OBVIOUS
    <2>1. \A h \in Handlers : run[h].at = "idle"
        BY DEF Init, Idle
    <2>2. \A d \in Days : pushes[d] = 0 /\ ~sends[d].late
        BY DEF Init
    <2>3. ~out
        BY DEF Init
    <2> QED BY <2>1, <2>2, <2>3 DEF OneAtADay, OptedOut, Claimed, Sending
<1>2. OneAtADay /\ OptedOut => WantedOnce
    BY DEF OneAtADay, OptedOut, WantedOnce
<1> QED BY <1>1, <1>2, Typed, OnceStep, OutStep, PTL DEF Spec

-----------------------------------------------------------------------------
(* Retiring.  Whoever is about to retire older tokens leaves one standing:   *)
(* one registered since it began, or one lost to a removal or a verdict.     *)

Lost(t) == token[t].why \in {"removed", "dead"}

Outlasts(t, h) == (token[t].is = "valid" /\ token[t].at >= run[h].began) \/ Lost(t)

Retiring ==
    /\ \A h \in Handlers : run[h].at = "retire" =>
            run[h].began <= now /\ \E t \in Tokens : Outlasts(t, h)
    /\ StaysReachable

\* A step that neither writes tokens nor brings anybody to retire any.
Still ==
    /\ \A g \in Handlers : run'[g].at = "retire" => run'[g] = run[g]
    /\ now \in Nat /\ now' \in Nat /\ now <= now'

LEMMA StillStep ==
    ASSUME TypeInv, NEW h \in Handlers, \A g \in Handlers \ {h} : run'[g] = run[g],
           run'[h].at # "retire", UNCHANGED now
    PROVE  Still
BY SlotTypes DEF Still, TypeInv, TypeOK

LEMMA StillEnd ==
    ASSUME TypeInv, NEW h \in Handlers, Ends(h), UNCHANGED now
    PROVE  Still
<1>1. run'[h].at = "idle" /\ \A g \in Handlers \ {h} : run'[g] = run[g]
    BY DEF Ends, Idle, TypeInv
<1> QED BY <1>1, StillStep

LEMMA StillGo ==
    ASSUME TypeInv, NEW h \in Handlers, NEW place \in Places \ {"retire"}, Goes(h, place), UNCHANGED now
    PROVE  Still
<1>1. run'[h].at = place /\ \A g \in Handlers \ {h} : run'[g] = run[g]
    BY DEF Goes, Handler, TypeInv
<1> QED BY <1>1, StillStep

LEMMA StillSteps ==
    ASSUME TypeInv, [Next]_vars
    PROVE  \/ Still /\ UNCHANGED token
           \/ \E h \in Handlers :
                \/ \E t \in Tokens : RegisterToken(h, t)
                \/ Retires(h) \/ Silence(h) \/ Prunes(h) \/ ReadsReceipt(h)
<1>1. ASSUME NEW h \in Handlers, Removes(h) \/ AllRead(h) \/ SavesContext(h) \/ SavesChoices(h) \/ Advances(h)
      PROVE  Still /\ UNCHANGED token
    BY <1>1, StillEnd DEF Removes, AllRead, SavesContext, SavesChoices, Advances
<1>2. CASE Enlist
    BY <1>2, SlotTypes DEF Enlist, Still, TypeInv, TypeOK
<1>3. ASSUME NEW h \in Handlers, Context(h) PROVE Still /\ UNCHANGED token
    <2>1. PICK slot \in NextIf(~pref.is \/ pref.enabled) :
            Arrives(h, [Idle EXCEPT !.at = IF pref.is THEN "context" ELSE "first", !.slot = slot])
        BY <1>3, Zenon DEF Context
    <2>2. run'[h].at \in {"context", "first"} /\ \A g \in Handlers \ {h} : run'[g] = run[g]
        BY <2>1 DEF Arrives, Idle, TypeInv
    <2>3. UNCHANGED <<now, phone>>
        BY <1>3, Zenon DEF Context
    <2> QED BY <2>2, <2>3, StillStep
<1>4. ASSUME NEW h \in Handlers, Creates(h) PROVE Still /\ UNCHANGED token
    <2>1. UNCHANGED <<now, token>>
        BY <1>4, Zenon DEF Creates
    <2>2. CASE pref.is
        <3>1. PICK slot \in NextIf(pref.enabled) :
                run' = [run EXCEPT ![h].at = "context", ![h].slot = slot]
            BY <1>4, <2>2 DEF Creates
        <3>2. run'[h].at = "context" /\ \A g \in Handlers \ {h} : run'[g] = run[g]
            BY <3>1 DEF Handler, TypeInv
        <3> QED BY <2>1, <3>2, StillStep
    <2>3. CASE ~pref.is
        BY <1>4, <2>1, <2>3, StillEnd DEF Creates
    <2> QED BY <2>2, <2>3
<1>5. ASSUME NEW h \in Handlers, NEW on \in BOOLEAN, Choose(h, on) PROVE Still /\ UNCHANGED token
    <2>1. PICK slot \in NextIf(on) :
            Arrives(h, [Idle EXCEPT !.at = "choose", !.on = on, !.slot = slot])
        BY <1>5, Zenon DEF Choose
    <2>2. run'[h].at = "choose" /\ \A g \in Handlers \ {h} : run'[g] = run[g]
        BY <2>1 DEF Arrives, Idle, TypeInv
    <2>3. UNCHANGED <<now, phone>>
        BY <1>5, Zenon DEF Choose
    <2> QED BY <2>2, <2>3, StillStep
<1>6. ASSUME NEW h \in Handlers, Drain(h) PROVE Still /\ UNCHANGED token
    <2>1. run'[h].at = "weigh" /\ \A g \in Handlers \ {h} : run'[g] = run[g]
        BY <1>6 DEF Drain, Arrives, Idle, TypeInv
    <2> QED BY <1>6, <2>1, StillStep DEF Drain
<1>7. ASSUME NEW h \in Handlers, Weighs(h) PROVE Still /\ UNCHANGED token
    <2>1. UNCHANGED <<now, token>>
        BY <1>7, Zenon DEF Weighs
    <2>2. ASSUME NEW t \in Latest, run' = [run EXCEPT ![h].at = "claim", ![h].t = t]
          PROVE  Still
        <3>1. run'[h].at = "claim" /\ \A g \in Handlers \ {h} : run'[g] = run[g]
            BY <2>2 DEF Handler, TypeInv
        <3> QED BY <2>1, <3>1, StillStep
    <2> QED BY <1>7, <2>1, <2>2, StillGo DEF Weighs, Places
<1>8. ASSUME NEW h \in Handlers, Claims(h) PROVE Still /\ UNCHANGED token
    BY <1>8, StillGo DEF Claims, Places
<1>9. ASSUME NEW h \in Handlers, Rechecks(h) PROVE Still /\ UNCHANGED token
    BY <1>9, StillGo DEF Rechecks, Places
<1>10. ASSUME NEW h \in Handlers, Cancels(h) \/ MarksSent(h) PROVE Still /\ UNCHANGED token
    BY <1>10, StillGo DEF Cancels, MarksSent, Marks, Places
<1>11. ASSUME NEW h \in Handlers, Sends(h) PROVE Still /\ UNCHANGED token
    <2>1. UNCHANGED <<now, token>>
        BY <1>11, Zenon DEF Sends
    <2>2. CASE Seen(Today(h)) # {}
        <3>1. Goes(h, "mark")
            BY <1>11, <2>2, Zenon DEF Sends
        <3> QED BY <2>1, <3>1, StillGo DEF Places
    <2>3. CASE Seen(Today(h)) = {}
        <3>1. PICK result : run' = [run EXCEPT ![h].at = "record", ![h].began = now,
                                               ![h].result = result]
            BY <1>11, <2>3, Zenon DEF Sends
        <3>2. run'[h].at = "record" /\ \A g \in Handlers \ {h} : run'[g] = run[g]
            BY <3>1 DEF TypeInv, Handler
        <3> QED BY <2>1, <3>2, StillStep
    <2> QED BY <2>2, <2>3
<1>12. ASSUME NEW h \in Handlers, Records(h) PROVE Still /\ UNCHANGED token
    BY <1>12, StillGo DEF Records, Places
<1>13. ASSUME NEW h \in Handlers, CheckReceipts(h) PROVE Still /\ UNCHANGED token
    <2>1. PICK rows : Arrives(h, [Idle EXCEPT !.at = "receipts", !.rows = rows])
        BY <1>13, Zenon DEF CheckReceipts
    <2>2. run'[h].at = "receipts" /\ \A g \in Handlers \ {h} : run'[g] = run[g]
        BY <2>1 DEF Arrives, Idle, TypeInv
    <2>3. UNCHANGED <<now, token>>
        BY <1>13, Zenon DEF CheckReceipts
    <2> QED BY <2>2, <2>3, StillStep
<1>14. ASSUME NEW h \in Handlers, Dies(h) PROVE Still /\ UNCHANGED token
    BY <1>14, StillEnd, StillGo DEF Dies, Places
<1>15. CASE Tick \/ UNCHANGED vars
    BY <1>15, SlotTypes DEF Tick, vars, Still, TypeInv, TypeOK
<1>16. pref.enabled \in BOOLEAN
    BY DEF TypeInv, TypeOK, Preference
<1> QED
    BY <1>1, <1>2, <1>3, <1>4, <1>5, <1>6, <1>7, <1>8, <1>9, <1>10, <1>11, <1>12, <1>13, <1>14,
       <1>15, <1>16
    DEF Next, PhoneNext, SettingsNext, DrainNext, ReceiptsNext

\* A step keeps the phone reachable if it spares or loses what outlasts.
LEMMA SparingStep ==
    ASSUME TypeInv, Retiring, Still,
           \A t \in Tokens : token'[t] = token[t] \/ Lost(t)'
    PROVE  Retiring'
<1>1. StaysReachable'
    <2>1. CASE \E t \in Tokens : Lost(t)'
        BY <2>1 DEF StaysReachable, Lost
    <2>2. CASE \A t \in Tokens : token'[t] = token[t]
        BY <2>2 DEF Retiring, StaysReachable
    <2> QED BY <2>1, <2>2
<1>2. ASSUME NEW g \in Handlers, run'[g].at = "retire"
      PROVE  run'[g].began <= now' /\ \E t \in Tokens : Outlasts(t, g)'
    <2>1. run'[g] = run[g] /\ run[g].began \in Nat
        BY <1>2, SlotTypes DEF Still, TypeInv, Handler
    <2>2. PICK t \in Tokens : Outlasts(t, g)
        BY <1>2, <2>1 DEF Retiring
    <2>3. run[g].began <= now
        BY <1>2, <2>1 DEF Retiring
    <2>4. Outlasts(t, g)'
        BY <2>1, <2>2 DEF Outlasts, Lost
    <2>5. run'[g].began <= now'
        BY <2>1, <2>3 DEF Still
    <2> QED BY <2>4, <2>5
<1> QED BY <1>1, <1>2 DEF Retiring

LEMMA RetiringStep == TypeInv /\ Retiring /\ [Next]_vars => Retiring'
<1> SUFFICES ASSUME TypeInv, Retiring, [Next]_vars PROVE Retiring'
    OBVIOUS
<1>1. CASE Still /\ UNCHANGED token
    BY <1>1, SparingStep
<1>2. ASSUME NEW h \in Handlers, NEW t \in Tokens, RegisterToken(h, t) PROVE Retiring'
    <2>1. /\ run'[h].at = "retire" /\ run'[h].began = now
          /\ \A g \in Handlers \ {h} : run'[g] = run[g]
        BY <1>2 DEF RegisterToken, Arrives, Idle, TypeInv
    <2>2. /\ token'[t].is = "valid" /\ token'[t].at = now
          /\ \A u \in Tokens \ {t} : token'[u] = token[u]
          /\ now' = now /\ now \in Nat
        BY <1>2, SlotTypes DEF RegisterToken, TypeInv, TypeOK
    <2>3. ASSUME NEW g \in Handlers, run'[g].at = "retire"
          PROVE  run'[g].began <= now' /\ \E u \in Tokens : Outlasts(u, g)'
        <3>1. run'[g].began <= now
            BY <2>1, <2>2, <2>3 DEF Retiring
        <3>2. Outlasts(t, g)'
            BY <2>2, <3>1 DEF Outlasts
        <3> QED BY <2>2, <3>1, <3>2
    <2>4. StaysReachable'
        BY <2>2 DEF StaysReachable
    <2> QED BY <2>3, <2>4 DEF Retiring
<1>3. ASSUME NEW h \in Handlers, Retires(h) PROVE Retiring'
    <2>1. PICK w \in Tokens : Outlasts(w, h)
        BY <1>3 DEF Retires, Retiring
    <2>2. /\ run[h].began \in Nat /\ \A u \in Tokens : token[u].at \in Nat
          /\ now \in Nat /\ now' = now
        BY <1>3, SlotTypes DEF Retires, TypeInv, TypeOK, Handler, Token
    <2>3. \A u \in Tokens :
            token'[u] = token[u] \/ (token[u].is = "valid" /\ token[u].at < run[h].began)
        BY <1>3 DEF Retires, Disable, Others
    <2>4. token'[w] = token[w]
        BY <2>1, <2>2, <2>3 DEF Outlasts, Lost, TypeInv, TypeOK
    <2>5. /\ run'[h].at = "idle"
          /\ \A g \in Handlers \ {h} : run'[g] = run[g]
        BY <1>3 DEF Retires, Ends, Idle, TypeInv
    <2>6. ASSUME NEW g \in Handlers, run'[g].at = "retire"
          PROVE  run'[g].began <= now' /\ \E u \in Tokens : Outlasts(u, g)'
        <3>1. run'[g] = run[g] /\ run[g].began \in Nat
            BY <2>5, <2>6, SlotTypes DEF TypeInv, Handler
        <3>2. PICK v \in Tokens : Outlasts(v, g)
            BY <2>6, <3>1 DEF Retiring
        <3>3. CASE token'[v] = token[v]
            BY <3>1, <3>2, <3>3, <2>2, <2>6 DEF Outlasts, Lost, Retiring
        <3>4. CASE token[v].is = "valid" /\ token[v].at < run[h].began
            <4>1. token[v].at >= run[g].began
                BY <3>2, <3>4 DEF Outlasts, Lost, TypeInv, TypeOK
            <4>2. run[h].began >= run[g].began
                BY <2>2, <3>1, <3>4, <4>1
            <4>3. Outlasts(w, g)'
                BY <2>1, <2>2, <2>4, <3>1, <4>2 DEF Outlasts, Lost
            <4> QED BY <2>2, <2>6, <3>1, <4>3 DEF Retiring
        <3> QED BY <2>3, <3>3, <3>4
    <2>7. StaysReachable'
        BY <2>1, <2>4 DEF StaysReachable, Outlasts, Lost
    <2> QED BY <2>6, <2>7 DEF Retiring
<1>4. ASSUME NEW h \in Handlers, Silence(h) PROVE Retiring'
    <2>1. run'[h].at = "remove" /\ \A g \in Handlers \ {h} : run'[g] = run[g]
        BY <1>4 DEF Silence, Arrives, Idle, TypeInv
    <2>2. Still
        BY <1>4, <2>1, StillStep DEF Silence
    <2>3. \A t \in Tokens : token'[t] = token[t] \/ Lost(t)'
        BY <1>4 DEF Silence, Disable, Lost
    <2> QED BY <2>2, <2>3, SparingStep
<1>5. ASSUME NEW h \in Handlers, Prunes(h) PROVE Retiring'
    <2>1. Still
        BY <1>5, StillGo DEF Prunes, Places
    <2>2. \A t \in Tokens : token'[t] = token[t] \/ Lost(t)'
        BY <1>5 DEF Prunes, Disable, Lost
    <2> QED BY <2>1, <2>2, SparingStep
<1>6. ASSUME NEW h \in Handlers, ReadsReceipt(h) PROVE Retiring'
    <2>1. PICK d \in run[h].rows :
            /\ run' = [run EXCEPT ![h].rows = @ \ {d}]
            /\ UNCHANGED token \/ Disable({t \in {d.token} : token[t].at <= d.at}, "dead")
        BY <1>6 DEF ReadsReceipt
    <2>2. run'[h].at = "receipts" /\ \A g \in Handlers \ {h} : run'[g] = run[g]
        BY <1>6, <2>1 DEF ReadsReceipt, TypeInv, Handler
    <2>3. Still
        BY <1>6, <2>2, StillStep DEF ReadsReceipt
    <2>4. \A t \in Tokens : token'[t] = token[t] \/ Lost(t)'
        BY <2>1 DEF Disable, Lost
    <2> QED BY <2>3, <2>4, SparingStep
<1> QED BY <1>1, <1>2, <1>3, <1>4, <1>5, <1>6, StillSteps

\* However many registrations of however many tokens overlap, the phone keeps a
\* token that is valid, or was removed or given up by the provider.
THEOREM PhonesStayReachable == Spec => []StaysReachable
<1>1. Init => Retiring
    BY DEF Init, Idle, Retiring, StaysReachable
<1>2. Retiring => StaysReachable
    BY DEF Retiring
<1> QED BY <1>1, <1>2, Typed, RetiringStep, PTL DEF Spec


HIDE SendsAssumption DEF phone, settings, sending
USE AlertAssumption

-----------------------------------------------------------------------------
(* The rows of events *)

\* Who reported an event, with what key and number, is never written again.
EventsStand ==
    /\ DOMAIN events \subseteq DOMAIN events'
    /\ \A i \in DOMAIN events : /\ events'[i].actor = events[i].actor
                                /\ events'[i].key = events[i].key
                                /\ events'[i].seq = events[i].seq

\* The typing of events, and that a request has one row.
EventsOK ==
    /\ events \in Seq(Event) /\ Len(events) <= MaxEvents
    /\ \A i \in DOMAIN events : events[i].seq <= seq
    /\ \A i, j \in DOMAIN events :
          events[i].actor = events[j].actor /\ events[i].key = events[j].key => i = j

LEMMA EventFields ==
    ASSUME EventsOK
    PROVE  /\ Len(events) \in Nat /\ DOMAIN events = 1..Len(events)
           /\ \A i \in DOMAIN events : /\ events[i] \in Event
                                       /\ events[i].actor \in Users /\ events[i].key \in Keys
                                       /\ events[i].seq \in Nat
<1>1. Len(events) \in Nat /\ DOMAIN events = 1..Len(events)
    BY LenProperties DEF EventsOK
<1>2. ASSUME NEW i \in DOMAIN events PROVE events[i] \in Event
    BY <1>1, <1>2, ElementOfSeq DEF EventsOK
<1> QED BY <1>1, <1>2 DEF Event

LEMMA AlertIs ==
    ASSUME EventsOK, NEW w \in Workers, EventOf(op[w]) # {}
    PROVE  /\ Alert(w) \in DOMAIN events
           /\ events[Alert(w)].actor = op[w].actor /\ events[Alert(w)].key = op[w].key
           /\ \A i \in EventOf(op[w]) : i = Alert(w)
<1>1. Alert(w) \in EventOf(op[w])
    BY DEF Alert
<1> QED BY <1>1 DEF EventOf, EventsOK

\* A handler that holds on to its report holds on to its row.
LEMMA AlertStays ==
    ASSUME EventsOK, EventsOK', EventsStand, NEW w \in Workers,
           EventOf(op[w]) # {}, op'[w] = op[w]
    PROVE  /\ EventOf(op[w])' # {} /\ Alert(w)' = Alert(w)
<1>1. Alert(w) \in EventOf(op[w])
    BY DEF Alert
<1>2. Alert(w) \in EventOf(op[w])'
    BY <1>1 DEF EventOf, EventsStand
<1>3. \A i \in EventOf(op[w])' : i = Alert(w)
    BY <1>2 DEF EventOf, EventsOK
<1> QED BY <1>2, <1>3 DEF Alert

LEMMA SetPushKeeps ==
    ASSUME EventsOK, NEW w \in Workers, EventOf(op[w]) # {},
           NEW state \in {"free", "claimed", "done"}, SetPush(w, state), UNCHANGED seq
    PROVE  /\ EventsOK' /\ EventsStand /\ Len(events') = Len(events)
           /\ events'[Alert(w)].push = state
           /\ \A i \in DOMAIN events : i # Alert(w) => events'[i] = events[i]
<1> DEFINE i == Alert(w)
           row == [events[i] EXCEPT !.push = state]
<1>1. i \in 1..Len(events) /\ Len(events) \in Nat /\ DOMAIN events = 1..Len(events)
    BY AlertIs, EventFields
<1>2. events[i] \in Event /\ row \in Event
    BY <1>1, EventFields DEF Event
<1>3. events' = [events EXCEPT ![i] = row]
    BY DEF SetPush
<1>4. /\ events' \in Seq(Event) /\ Len(events') = Len(events)
      /\ \A j \in 1..Len(events) : events'[j] = IF j = i THEN row ELSE events[j]
    <2> HIDE DEF i, row
    <2> QED BY <1>1, <1>2, <1>3, ExceptSeq DEF EventsOK
<1>5. DOMAIN events' = DOMAIN events
    BY <1>1, <1>4, LenProperties
<1>6. /\ row.actor = events[i].actor /\ row.key = events[i].key /\ row.seq = events[i].seq
      /\ row.push = state
    BY <1>2 DEF Event
<1>7. EventsStand
    <2> HIDE DEF i, row
    <2> QED BY <1>1, <1>4, <1>5, <1>6 DEF EventsStand
<1>8. EventsOK'
    <2> HIDE DEF i, row
    <2> QED BY <1>4, <1>5, <1>7 DEF EventsOK, EventsStand
<1> QED BY <1>1, <1>4, <1>6, <1>7, <1>8

LEMMA RecordKeeps ==
    ASSUME AlertTypeOK, NEW w \in Workers, Record(w), w \in current => seen[w].seq = seq
    PROVE  /\ EventsOK' /\ EventsStand /\ Len(events') = Len(events) + 1
           /\ \A i \in DOMAIN events : events'[i] = events[i]
           /\ events'[Len(events) + 1].actor = op[w].actor
           /\ events'[Len(events) + 1].key = op[w].key
           /\ events'[Len(events) + 1].push = "free"
           /\ events'[Len(events) + 1].seq \in {0, seq + 1}
           /\ seq' \in Nat /\ seq <= seq' /\ seq' <= seq + 1
           /\ events'[Len(events) + 1].seq = IF seq' = seq THEN 0 ELSE seq + 1
<1> DEFINE n == IF TooSoon(seen[w], op[w].actor) THEN 0 ELSE seen[w].seq + 1
           row == [actor |-> op[w].actor, key |-> op[w].key, seq |-> n, at |-> clock, push |-> "free"]
<1>1. EventsOK
    BY DEF AlertTypeOK, EventsOK
<1>2. op[w] \in Ops /\ seen[w].seq = seq /\ seq \in Nat /\ clock \in 1..AlertHorizon
    BY DEF AlertTypeOK, Record, Unchallenged
<1>3. row \in Event
    BY <1>2 DEF Event, Ops
<1>4. events' = Append(events, row) /\ seq' = IF n = 0 THEN seq ELSE n
    BY DEF Record
<1>5. n \in {0, seq + 1} /\ seq' = (IF n = 0 THEN seq ELSE seq + 1)
    BY <1>2, <1>4
<1>6. /\ row.actor = op[w].actor /\ row.key = op[w].key /\ row.seq = n /\ row.push = "free"
    OBVIOUS
<1>7. EventOf(op[w]) = {} /\ Len(events) < MaxEvents
    BY DEF Record
<1> HIDE DEF n, row
<1>8. /\ Len(events) \in Nat /\ DOMAIN events = 1..Len(events)
    BY <1>1, EventFields
<1>9. /\ events' \in Seq(Event) /\ Len(events') = Len(events) + 1
      /\ \A i \in 1..Len(events) : events'[i] = events[i]
      /\ events'[Len(events) + 1] = row
    BY <1>1, <1>3, <1>4, AppendProperties DEF EventsOK
<1>10. DOMAIN events' = 1..(Len(events) + 1)
    BY <1>9, LenProperties
<1>11. EventsStand
    BY <1>8, <1>9, <1>10 DEF EventsStand
<1>12. EventsOK'
    <2>1. Len(events') <= MaxEvents
        BY <1>7, <1>8, <1>9
    <2>2. \A i \in DOMAIN events' : events'[i].seq <= seq'
        BY <1>1, <1>2, <1>5, <1>6, <1>8, <1>9, <1>10, EventFields DEF EventsOK
    <2>3. ASSUME NEW i \in DOMAIN events', NEW j \in DOMAIN events',
                 events'[i].actor = events'[j].actor, events'[i].key = events'[j].key
          PROVE  i = j
        BY <2>3, <1>1, <1>6, <1>7, <1>8, <1>9, <1>10 DEF EventsOK, EventOf
    <2> QED BY <1>9, <2>1, <2>2, <2>3 DEF EventsOK
<1> QED BY <1>2, <1>5, <1>6, <1>8, <1>9, <1>11, <1>12

-----------------------------------------------------------------------------
(* The inductive invariant *)

Acting == {"look", "dispatch", "sent", "refused"}

\* The snapshot of a transaction that can still commit has the room's counter.
Fresh == \A w \in current : pc[w] = "commit" /\ seen[w].seq = seq

Recorded == \A w \in Workers : pc[w] \in Acting \union {"claim"} => EventOf(op[w]) # {}

\* Between its claim and its answer a handler has the event to itself.
ClaimsTrue ==
    /\ \A w \in Workers : pc[w] \in Acting => events[Alert(w)].push = "claimed"
    /\ \A v, w \in Workers :
          pc[v] \in Acting /\ pc[w] \in Acting /\ Alert(v) = Alert(w) => v = w

\* Claimed by a handler that is gone: nobody will push it again.
Orphan(i) ==
    /\ i \in DOMAIN events /\ events[i].push = "claimed"
    /\ \A w \in Workers : pc[w] \in Acting => Alert(w) # i

Accounted == \A p \in Addressed : pushed[p] # 0 => p \in sent \/ p \in lost \/ Orphan(p[1])

\* What a client heard is behind its cursor, and its cursor behind the mark.
Polls == \A u \in Users :
    /\ cursor[u] = 0 => heard[u] = <<>> /\ polling[u] = 0
    /\ cursor[u] # 0 => since[u] # 0
    /\ polling[u] # 0 => cursor[u] <= polling[u]
    /\ \A i \in DOMAIN heard[u] : heard[u][i] < cursor[u]

AlertInv ==
    AlertTypeOK /\ Fresh /\ Recorded /\ ClaimsTrue /\ Accounted /\ Polls /\ PollersMissNothing /\ PushedOnce

LEMMA TypeParts == AlertTypeOK => EventsOK
BY DEF AlertTypeOK, EventsOK

\* The events keep their shape through a step that leaves them alone.
LEMMA EventsStay ==
    ASSUME AlertTypeOK, UNCHANGED <<events, seq>>
    PROVE  EventsOK' /\ EventsStand
BY TypeParts DEF EventsOK, EventsStand

LEMMA GotoType ==
    ASSUME AlertTypeOK, NEW w \in Workers, NEW where \in AlertPlaces, Goto(w, where), pc[w] # "idle"
    PROVE  /\ pc' \in [Workers -> AlertPlaces]
           /\ DOMAIN op' = Workers /\ \A x \in Workers : pc'[x] # "idle" => op'[x] \in Ops
BY DEF Goto, AlertTypeOK

LEMMA GotoPlaces ==
    ASSUME AlertTypeOK, NEW w \in Workers, NEW where \in AlertPlaces, Goto(w, where)
    PROVE  /\ pc'[w] = where /\ \A x \in Workers \ {w} : pc'[x] = pc[x] /\ op'[x] = op[x]
           /\ where # "idle" => op'[w] = op[w]
<1>1. pc'[w] = where /\ \A x \in Workers \ {w} : pc'[x] = pc[x]
    BY DEF Goto, AlertTypeOK
<1> QED BY <1>1 DEF Goto

LEMMA AdvanceType ==
    ASSUME AlertTypeOK, Advance
    PROVE  current' = {} /\ seen' \in [Workers -> Snapshots]
BY DEF Advance, AlertTypeOK, Snapshots, NoRoom

LEMMA NowType == ASSUME AlertTypeOK PROVE Now \in Snapshots /\ NoRoom \in Snapshots
BY DEF AlertTypeOK, Snapshots, NoRoom, Now

\* What TypeOK says besides the events.
RestOK ==
    /\ clock \in 1..AlertHorizon
    /\ seq \in Nat
    /\ members \subseteq Users /\ erased \subseteq Users
    /\ last \in [Users -> 0..AlertHorizon]
    /\ pc \in [Workers -> AlertPlaces]
    /\ DOMAIN op = Workers /\ \A w \in Workers : pc[w] # "idle" => op[w] \in Ops
    /\ seen \in [Workers -> Snapshots]
    /\ current \subseteq Workers
    /\ cursor \in [Users -> Nat] /\ polling \in [Users -> Nat] /\ since \in [Users -> Nat]
    /\ \A u \in Users : cursor[u] <= seq + 1 /\ polling[u] <= seq + 1
    /\ heard \in [Users -> Seq(Nat \ {0})]
    /\ sent \subseteq Addressed /\ lost \subseteq Addressed
    /\ pushed \in [Addressed -> Nat]
    /\ faults \in 0..MaxFaults

LEMMA FaultType == ASSUME AlertTypeOK, Fault PROVE faults' \in 0..MaxFaults
BY DEF Fault, AlertTypeOK

LEMMA RecordType ==
    ASSUME AlertTypeOK, Fresh, NEW w \in Workers, Record(w)
    PROVE  AlertTypeOK'
<1>1. EventsOK' /\ seq' \in Nat /\ seq <= seq'
    BY RecordKeeps DEF Fresh
<1>2. op[w] \in Ops /\ op[w].actor \in Users
    BY DEF AlertTypeOK, Record, Ops
<1>3. last' \in [Users -> 0..AlertHorizon]
    BY <1>2 DEF AlertTypeOK, Record
<1>4. seen' \in [Workers -> Snapshots] /\ current' = {}
    BY AdvanceType DEF Record
<1>5. /\ pc' \in [Workers -> AlertPlaces]
      /\ DOMAIN op' = Workers /\ \A x \in Workers : pc'[x] # "idle" => op'[x] \in Ops
    <2>1. Goto(w, "claim") /\ pc[w] # "idle"
        BY DEF Record
    <2> QED BY <2>1, GotoType DEF AlertPlaces
<1>9. \A u \in Users : cursor[u] \in Nat /\ polling[u] \in Nat /\ cursor[u] <= seq + 1 /\ polling[u] <= seq + 1
    BY DEF AlertTypeOK
<1>10. cursor' = cursor /\ polling' = polling /\ seq \in Nat
    BY DEF AlertTypeOK, Record, polls
<1>6. \A u \in Users : cursor'[u] <= seq' + 1 /\ polling'[u] <= seq' + 1
    BY <1>1, <1>9, <1>10
<1>8. UNCHANGED <<clock, members, erased, cursor, polling, since, heard, sent, pushed, lost, faults>>
    BY DEF Record, polls, deliveries
<1>7. RestOK'
    BY <1>1, <1>3, <1>4, <1>5, <1>6, <1>8 DEF RestOK, AlertTypeOK
<1> QED BY <1>1, <1>7 DEF AlertTypeOK, EventsOK, RestOK

LEMMA PushStepType ==
    ASSUME AlertTypeOK, Recorded, NEW w \in Workers,
           ClaimPush(w) \/ LookAgain(w) \/ Acknowledge(w) \/ PushFails(w)
    PROVE  /\ AlertTypeOK' /\ EventsStand /\ Len(events') = Len(events)
<1>1. EventsOK /\ pc[w] # "idle" /\ EventOf(op[w]) # {}
    BY TypeParts DEF Recorded, Acting, ClaimPush, LookAgain, Acknowledge, PushFails
<1>2. UNCHANGED seq
    BY DEF ClaimPush, LookAgain, Acknowledge, PushFails
<1>3. UNCHANGED events \/ \E state \in {"free", "claimed", "done"} : SetPush(w, state)
    BY DEF ClaimPush, LookAgain, Acknowledge, PushFails
<1>4. EventsOK' /\ EventsStand /\ Len(events') = Len(events)
    BY <1>1, <1>2, <1>3, SetPushKeeps, EventsStay
<1>5. \E where \in AlertPlaces : Goto(w, where)
    BY DEF ClaimPush, LookAgain, Acknowledge, PushFails, AlertPlaces
<1>6. /\ pc' \in [Workers -> AlertPlaces]
      /\ DOMAIN op' = Workers /\ \A x \in Workers : pc'[x] # "idle" => op'[x] \in Ops
    BY <1>1, <1>5, GotoType
<1>7. seen' \in [Workers -> Snapshots]
    BY NowType DEF AlertTypeOK, ClaimPush, LookAgain, Acknowledge, PushFails
<1>8. faults' \in 0..MaxFaults
    BY FaultType DEF AlertTypeOK, ClaimPush, LookAgain, Acknowledge, PushFails
<1>9. /\ UNCHANGED <<clock, seq, members, erased, last, current, polls, deliveries>>
    BY DEF ClaimPush, LookAgain, Acknowledge, PushFails
<1>10. RestOK'
    BY <1>6, <1>7, <1>8, <1>9 DEF RestOK, AlertTypeOK, polls, deliveries
<1> QED BY <1>4, <1>10 DEF AlertTypeOK, EventsOK, RestOK

LEMMA DispatchType ==
    ASSUME AlertTypeOK, Recorded, NEW w \in Workers,
           Dispatch(w) \/ DispatchUnrecorded(w) \/ PushDies(w)
    PROVE  AlertTypeOK'
<1>1. EventsOK /\ pc[w] # "idle" /\ EventOf(op[w]) # {}
    BY TypeParts DEF Recorded, Acting, Dispatch, DispatchUnrecorded, PushDies
<1>2. UNCHANGED <<clock, seq, members, erased, last, current, polls, events>>
    BY DEF Dispatch, DispatchUnrecorded, PushDies
<1>3. EventsOK'
    BY <1>2, EventsStay
<1>4. \E where \in AlertPlaces : Goto(w, where)
    BY DEF Dispatch, DispatchUnrecorded, PushDies, AlertPlaces
<1>5. /\ pc' \in [Workers -> AlertPlaces]
      /\ DOMAIN op' = Workers /\ \A x \in Workers : pc'[x] # "idle" => op'[x] \in Ops
    BY <1>1, <1>4, GotoType
<1>6. seen' \in [Workers -> Snapshots]
    BY NowType DEF AlertTypeOK, Dispatch, DispatchUnrecorded, PushDies
<1>7. faults' \in 0..MaxFaults
    BY FaultType DEF AlertTypeOK, Dispatch, DispatchUnrecorded, PushDies
<1>8. pushed' \in [Addressed -> Nat]
    BY DEF AlertTypeOK, Dispatch, DispatchUnrecorded, PushDies, deliveries, Reaches
<1>9. ASSUME NEW us \in SUBSET Addressees(w) PROVE {Alert(w)} \X us \subseteq Addressed
    <2>1. Alert(w) \in 1..Len(events) /\ Len(events) \in Nat /\ Len(events) <= MaxEvents
        BY <1>1, AlertIs, EventFields DEF EventsOK
    <2>2. seen[w].members \subseteq Users
        BY DEF AlertTypeOK, Snapshots
    <2> QED BY <2>1, <2>2 DEF Addressees, Addressed
<1>10. sent' \subseteq Addressed /\ lost' \subseteq Addressed
    <2>1. ASSUME Dispatch(w) PROVE sent' \subseteq Addressed /\ lost' \subseteq Addressed
        <3>1. PICK ok \in SUBSET Addressees(w) : \E mute \in SUBSET (Addressees(w) \ ok) :
                  /\ sent' = sent \union ({Alert(w)} \X ok)
                  /\ lost' = lost \union ({Alert(w)} \X mute)
            BY <2>1 DEF Dispatch
        <3>2. PICK mute \in SUBSET (Addressees(w) \ ok) :
                  /\ sent' = sent \union ({Alert(w)} \X ok)
                  /\ lost' = lost \union ({Alert(w)} \X mute)
            BY <3>1
        <3>3. mute \in SUBSET Addressees(w)
            BY <3>2
        <3> QED BY <1>9, <3>2, <3>3 DEF AlertTypeOK
    <2> QED BY <2>1 DEF AlertTypeOK, DispatchUnrecorded, PushDies, deliveries
<1>11. RestOK'
    BY <1>2, <1>5, <1>6, <1>7, <1>8, <1>10 DEF RestOK, AlertTypeOK, polls
<1> QED BY <1>3, <1>11 DEF AlertTypeOK, EventsOK, RestOK

\* Opening, losing or answering from an earlier record writes no row.
LEMMA CommitType ==
    ASSUME AlertTypeOK, NEW w \in Workers,
           (\E o \in Ops : Begin(w, o)) \/ RecordKnown(w) \/ Lose(w)
    PROVE  AlertTypeOK'
<1>1. UNCHANGED <<clock, seq, members, erased, last, events, polls, deliveries, faults>>
    BY DEF Begin, RecordKnown, Lose
<1>2. EventsOK'
    BY <1>1, EventsStay
<1>3. /\ pc' \in [Workers -> AlertPlaces]
      /\ DOMAIN op' = Workers /\ \A x \in Workers : pc'[x] # "idle" => op'[x] \in Ops
    <2>1. ASSUME NEW o \in Ops, Begin(w, o)
          PROVE  /\ pc' \in [Workers -> AlertPlaces]
                 /\ DOMAIN op' = Workers /\ \A x \in Workers : pc'[x] # "idle" => op'[x] \in Ops
        <3>1. /\ pc' = [pc EXCEPT ![w] = "commit"]
              /\ op' = [op EXCEPT ![w] = o]
            BY <2>1 DEF Begin
        <3> QED BY <3>1 DEF AlertTypeOK, AlertPlaces
    <2>2. ASSUME RecordKnown(w) \/ Lose(w)
          PROVE  pc[w] # "idle" /\ \E where \in AlertPlaces : Goto(w, where)
        BY <2>2 DEF RecordKnown, Lose, AlertPlaces
    <2> QED BY <2>1, <2>2, GotoType
<1>4. seen' \in [Workers -> Snapshots] /\ current' \subseteq Workers
    <2>1. ASSUME NEW o \in Ops, Begin(w, o)
          PROVE  seen' \in [Workers -> Snapshots] /\ current' \subseteq Workers
        BY <2>1, NowType DEF AlertTypeOK, Begin
    <2>2. ASSUME RecordKnown(w) PROVE seen' \in [Workers -> Snapshots] /\ current' \subseteq Workers
        BY <2>2, AdvanceType DEF RecordKnown
    <2>3. ASSUME Lose(w) PROVE seen' \in [Workers -> Snapshots] /\ current' \subseteq Workers
        BY <2>3, NowType DEF AlertTypeOK, Lose
    <2> QED BY <2>1, <2>2, <2>3
<1>5. RestOK'
    BY <1>1, <1>3, <1>4 DEF RestOK, AlertTypeOK, polls, deliveries
<1> QED BY <1>2, <1>5 DEF AlertTypeOK, EventsOK, RestOK

\* A step of the clients or the room writes none either.
LEMMA OtherType ==
    ASSUME AlertTypeOK, NEW u \in Users,
           PollFirst(u) \/ PollReads(u) \/ Departs(u) \/ AccountDeleted(u)
    PROVE  AlertTypeOK'
<1>1. UNCHANGED <<seq, events, op, pc, heard, deliveries, faults>>
    BY DEF PollFirst, PollReads, Departs, AccountDeleted, handler, polls
<1>2. EventsOK'
    BY <1>1, EventsStay
<1>3. seen' \in [Workers -> Snapshots] /\ current' \subseteq Workers
    BY AdvanceType DEF AlertTypeOK, PollFirst, PollReads, Departs, AccountDeleted, handler
<1>4. /\ clock' \in 1..AlertHorizon /\ members' \subseteq Users /\ erased' \subseteq Users
      /\ last' \in [Users -> 0..AlertHorizon]
    <2>1. ASSUME Departs(u)
          PROVE  /\ clock' = clock /\ members' \subseteq Users /\ erased' \subseteq Users
                 /\ last' \in [Users -> 0..AlertHorizon]
        BY <2>1 DEF Departs, AlertTypeOK
    <2>3. ASSUME AccountDeleted(u)
          PROVE  /\ clock' = clock /\ members' \subseteq Users /\ erased' \subseteq Users
                 /\ last' \in [Users -> 0..AlertHorizon]
        BY <2>3 DEF AccountDeleted, AlertTypeOK
    <2>2. ASSUME PollFirst(u) \/ PollReads(u) PROVE UNCHANGED <<clock, members, erased, last>>
        BY <2>2 DEF PollFirst, PollReads
    <2> QED BY <2>1, <2>2, <2>3 DEF AlertTypeOK
<1>5. /\ cursor' \in [Users -> Nat] /\ polling' \in [Users -> Nat] /\ since' \in [Users -> Nat]
      /\ \A x \in Users : cursor'[x] <= seq' + 1 /\ polling'[x] <= seq' + 1
    <2>1. ASSUME PollFirst(u)
          PROVE  cursor' = [cursor EXCEPT ![u] = seq + 1] /\ polling' = polling
        BY <2>1 DEF PollFirst
    <2>2. ASSUME PollReads(u)
          PROVE  polling' = [polling EXCEPT ![u] = seq + 1] /\ cursor' = cursor
        BY <2>2 DEF PollReads
    <2>3. ASSUME Departs(u) \/ AccountDeleted(u) PROVE cursor' = cursor /\ polling' = polling
        BY <2>3 DEF Departs, AccountDeleted, polls
    <2>4. /\ cursor' = cursor \/ cursor' = [cursor EXCEPT ![u] = seq + 1]
          /\ polling' = polling \/ polling' = [polling EXCEPT ![u] = seq + 1]
        BY <2>1, <2>2, <2>3
    <2>5. seq' = seq /\ seq \in Nat
        BY <1>1 DEF AlertTypeOK
    <2> DEFINE Behind(f) == f \in [Users -> Nat] /\ \A x \in Users : f[x] <= seq + 1
    <2>8. Behind(cursor) /\ Behind(polling)
        BY DEF AlertTypeOK
    <2>6. cursor' \in [Users -> Nat] /\ \A x \in Users : cursor'[x] <= seq + 1
        BY <2>4, <2>5, <2>8
    <2>7. polling' \in [Users -> Nat] /\ \A x \in Users : polling'[x] <= seq + 1
        BY <2>4, <2>5, <2>8
    <2>9. since' \in [Users -> Nat]
        BY <2>5 DEF AlertTypeOK, PollFirst, PollReads, Departs, AccountDeleted, polls
    <2> QED BY <2>5, <2>6, <2>7, <2>9
<1>6. RestOK'
    BY <1>1, <1>3, <1>4, <1>5 DEF RestOK, AlertTypeOK, deliveries
<1> QED BY <1>2, <1>6 DEF AlertTypeOK, EventsOK, RestOK

-----------------------------------------------------------------------------
(* Polling *)

\* A page is an ascending sequence of waiting numbers, and what it leaves out is
\* above its last one.
LEMMA PageFacts ==
    ASSUME AlertTypeOK, NEW u \in Users, NEW page \in Pages(u)
    PROVE  /\ page \in Seq(Nat \ {0}) /\ DOMAIN page = 1..Len(page) /\ Len(page) \in Nat
           /\ \A i \in DOMAIN page : page[i] \in Waiting(u) \ {0}
           /\ \A i, j \in DOMAIN page : i < j => page[i] < page[j]
           /\ Waiting(u) \ {0} # Range(page) => PAGE \in DOMAIN page /\ Len(page) = PAGE
           /\ \A s \in Waiting(u) \ {0} : s \in Range(page) \/ (Len(page) = PAGE /\ page[PAGE] < s)
<1>1. PICK n \in 0..PAGE : page \in [1..n -> Waiting(u) \ {0}]
    BY DEF Pages
<1>2. Waiting(u) \subseteq Nat
    BY TypeParts, EventFields DEF Waiting
<1>3. n \in Nat /\ PAGE \in Nat \ {0}
    OBVIOUS
<1>4. page \in Seq(Nat \ {0})
    BY <1>1, <1>2, <1>3, SeqDef
<1>5. DOMAIN page = 1..Len(page) /\ Len(page) \in Nat
    BY <1>4, LenProperties
<1>6. \A i \in DOMAIN page : page[i] \in Waiting(u) \ {0}
    BY <1>1
<1>7. \A i, j \in DOMAIN page : i < j => page[i] < page[j]
    BY DEF Pages
<1>8. \A s \in Waiting(u) \ {0} : s \in Range(page) \/ (Len(page) = PAGE /\ page[PAGE] < s)
    BY DEF Pages
<1>9. Waiting(u) \ {0} # Range(page) => PAGE \in DOMAIN page /\ Len(page) = PAGE
    <2>1. Range(page) \subseteq Waiting(u) \ {0}
        BY <1>6 DEF Range
    <2>2. ASSUME Waiting(u) \ {0} # Range(page) PROVE Len(page) = PAGE
        BY <1>8, <2>1, <2>2
    <2>3. Len(page) = PAGE => PAGE \in DOMAIN page
        BY <1>3, <1>5
    <2> QED BY <2>2, <2>3
<1> QED BY <1>4, <1>5, <1>6, <1>7, <1>8, <1>9

\* What one sequence says of its elements ...
Ascending(s) == \A i, j \in DOMAIN s : i < j => s[i] < s[j]
Below(s, high) == \A i \in DOMAIN s : s[i] < high
Within(s, low, high) == \A i \in DOMAIN s : low <= s[i] /\ s[i] < high

LEMMA JoinFacts ==
    ASSUME NEW s \in Seq(Nat \ {0}), NEW t \in Seq(Nat \ {0}), NEW c, c = s \o t
    PROVE  /\ c \in Seq(Nat \ {0})
           /\ \A i \in DOMAIN s : i \in DOMAIN c /\ c[i] = s[i]
           /\ \A i \in DOMAIN t : Len(s) + i \in DOMAIN c /\ c[Len(s) + i] = t[i]
           /\ \A k \in DOMAIN c : \/ k \in DOMAIN s
                                  \/ k > Len(s) /\ k - Len(s) \in DOMAIN t /\ c[k] = t[k - Len(s)]
<1>1. Len(s) \in Nat /\ Len(t) \in Nat /\ DOMAIN s = 1..Len(s) /\ DOMAIN t = 1..Len(t)
    BY LenProperties
<1>2. /\ c \in Seq(Nat \ {0}) /\ Len(c) = Len(s) + Len(t)
      /\ \A i \in 1..Len(s) + Len(t) : c[i] = IF i <= Len(s) THEN s[i] ELSE t[i - Len(s)]
    BY ConcatProperties
<1>3. DOMAIN c = 1..(Len(s) + Len(t))
    BY <1>2, LenProperties
<1>4. ASSUME NEW k \in DOMAIN c
      PROVE  \/ k \in DOMAIN s
             \/ k > Len(s) /\ k - Len(s) \in DOMAIN t /\ c[k] = t[k - Len(s)]
    BY <1>1, <1>2, <1>3
<1>5. ASSUME NEW i \in DOMAIN t PROVE Len(s) + i \in DOMAIN c /\ c[Len(s) + i] = t[i]
    <2>1. Len(s) + i \in 1..(Len(s) + Len(t)) /\ ~(Len(s) + i <= Len(s)) /\ (Len(s) + i) - Len(s) = i
        BY <1>1
    <2> QED BY <2>1, <1>2, <1>3
<1>6. ASSUME NEW i \in DOMAIN s PROVE i \in DOMAIN c /\ c[i] = s[i]
    BY <1>1, <1>2, <1>3
<1> QED BY <1>2, <1>4, <1>5, <1>6

\* ... holds of two joined at a bound.
LEMMA JoinAscends ==
    ASSUME NEW s \in Seq(Nat \ {0}), NEW t \in Seq(Nat \ {0}), NEW c, c = s \o t,
           NEW low \in Nat, NEW high \in Nat, low <= high, Ascending(s), Ascending(t),
           Below(s, low), Within(t, low, high)
    PROVE  Ascending(c) /\ Below(c, high)
<1> USE DEF Below, Within
<1>1. /\ Len(s) \in Nat /\ Len(t) \in Nat /\ DOMAIN s = 1..Len(s) /\ DOMAIN t = 1..Len(t)
      /\ \A i \in DOMAIN s : s[i] \in Nat
      /\ \A i \in DOMAIN t : t[i] \in Nat
    BY LenProperties, ElementOfSeq
<1>2. /\ \A i \in DOMAIN s : c[i] = s[i]
      /\ \A k \in DOMAIN c : \/ k \in DOMAIN s
                             \/ k > Len(s) /\ k - Len(s) \in DOMAIN t /\ c[k] = t[k - Len(s)]
    BY JoinFacts
<1>3. ASSUME NEW i \in DOMAIN c PROVE i \in Nat /\ c[i] < high
    <2>1. CASE i \in DOMAIN s
        BY <2>1, <1>1, <1>2
    <2>2. CASE i > Len(s) /\ i - Len(s) \in DOMAIN t /\ c[i] = t[i - Len(s)]
        <3>1. c \in Seq(Nat \ {0}) /\ i \in Nat
            BY JoinFacts, LenProperties
        <3> QED BY <3>1, <2>2
    <2> QED BY <2>1, <2>2, <1>2
<1>4. ASSUME NEW i \in DOMAIN c, NEW j \in DOMAIN c, i < j PROVE c[i] < c[j]
    <2>1. CASE i \in DOMAIN s /\ j \in DOMAIN s
        BY <2>1, <1>2, <1>4 DEF Ascending
    <2>2. CASE i \in DOMAIN s /\ j - Len(s) \in DOMAIN t /\ c[j] = t[j - Len(s)]
        <3>1. s[i] < low /\ low <= t[j - Len(s)] /\ s[i] \in Nat /\ t[j - Len(s)] \in Nat
            BY <2>2, <1>1
        <3> QED BY <3>1, <2>2, <1>2
    <2>3. CASE /\ i - Len(s) \in DOMAIN t /\ c[i] = t[i - Len(s)]
               /\ j - Len(s) \in DOMAIN t /\ c[j] = t[j - Len(s)]
        <3>1. i - Len(s) < j - Len(s)
            BY <1>1, <1>3, <1>4
        <3> QED BY <2>3, <3>1 DEF Ascending
    <2>4. CASE i > Len(s) /\ j \in DOMAIN s
        BY <2>4, <1>1, <1>3, <1>4
    <2> QED BY <2>1, <2>2, <2>3, <2>4, <1>2
<1> QED BY <1>3, <1>4 DEF Ascending

LEMMA JoinRange ==
    ASSUME NEW s \in Seq(Nat \ {0}), NEW t \in Seq(Nat \ {0}), NEW c, c = s \o t
    PROVE  Range(s) \subseteq Range(c) /\ Range(t) \subseteq Range(c)
<1>1. Range(s) \subseteq Range(c)
    <2> SUFFICES ASSUME NEW i \in DOMAIN s PROVE s[i] \in Range(c)
        BY DEF Range
    <2>1. i \in DOMAIN c /\ c[i] = s[i]
        BY JoinFacts
    <2> QED BY <2>1 DEF Range
<1>2. Range(t) \subseteq Range(c)
    <2> SUFFICES ASSUME NEW i \in DOMAIN t PROVE t[i] \in Range(c)
        BY DEF Range
    <2>1. Len(s) + i \in DOMAIN c /\ c[Len(s) + i] = t[i]
        BY JoinFacts
    <2> QED BY <2>1 DEF Range
<1> QED BY <1>1, <1>2

LEMMA PollRowsInv ==
    ASSUME AlertInv, NEW u \in Users, PollRows(u)
    PROVE  AlertTypeOK' /\ Polls' /\ PollersMissNothing'
<1> USE DEF AlertInv
<1>1. PICK page \in Pages(u) :
          /\ heard' = [heard EXCEPT ![u] = @ \o page]
          /\ cursor' = [cursor EXCEPT ![u] =
                IF Waiting(u) \ {0} # Range(page) THEN page[PAGE] + 1 ELSE polling[u]]
    BY DEF PollRows
<1> DEFINE more == Waiting(u) \ {0} # Range(page)
<1>2. polling[u] # 0 /\ polling' = [polling EXCEPT ![u] = 0]
    BY DEF PollRows
<1>3. UNCHANGED <<clock, seq, members, erased, last, events, handler, since, deliveries, faults>>
    BY DEF PollRows
<1>4. /\ page \in Seq(Nat \ {0}) /\ DOMAIN page = 1..Len(page) /\ Len(page) \in Nat
      /\ \A i \in DOMAIN page : page[i] \in Waiting(u) \ {0}
      /\ \A i, j \in DOMAIN page : i < j => page[i] < page[j]
      /\ more => PAGE \in DOMAIN page /\ Len(page) = PAGE
      /\ \A s \in Waiting(u) \ {0} : s \in Range(page) \/ (Len(page) = PAGE /\ page[PAGE] < s)
    BY PageFacts
<1>5. /\ heard[u] \in Seq(Nat \ {0}) /\ cursor[u] \in Nat /\ polling[u] \in Nat /\ seq \in Nat
      /\ polling[u] <= seq + 1 /\ cursor[u] <= polling[u]
    BY <1>2 DEF AlertTypeOK, Polls
<1>6. heard'[u] = heard[u] \o page /\ cursor'[u] = (IF more THEN page[PAGE] + 1 ELSE polling[u])
    BY <1>1 DEF AlertTypeOK
<1>7. \A s \in Waiting(u) \ {0} : s \in Nat /\ cursor[u] <= s /\ s < polling[u]
    BY TypeParts, EventFields DEF Waiting
<1>20. heard[u] \in Seq(Nat \ {0}) /\ page \in Seq(Nat \ {0})
    BY <1>4, <1>5
<1>21. heard'[u] = heard[u] \o page
    BY <1>6
<1>8. heard'[u] \in Seq(Nat \ {0})
    BY <1>20, <1>21, JoinFacts
<1>9. cursor'[u] \in Nat /\ cursor[u] <= cursor'[u] /\ cursor'[u] <= polling[u] /\ cursor'[u] # 0
    <2>1. CASE more
        <3>1. page[PAGE] \in Waiting(u) \ {0} /\ cursor'[u] = page[PAGE] + 1
            BY <2>1, <1>4, <1>6
        <3>2. page[PAGE] \in Nat /\ cursor[u] <= page[PAGE] /\ page[PAGE] < polling[u]
            BY <3>1, <1>7
        <3> QED BY <3>1, <3>2, <1>5
    <2>2. CASE ~more
        BY <2>2, <1>2, <1>5, <1>6
    <2> QED BY <2>1, <2>2
<1>10. \A i \in DOMAIN page : page[i] \in Nat /\ cursor[u] <= page[i] /\ page[i] < cursor'[u]
    <2> SUFFICES ASSUME NEW i \in DOMAIN page
                 PROVE  page[i] \in Nat /\ cursor[u] <= page[i] /\ page[i] < cursor'[u]
        OBVIOUS
    <2>1. page[i] \in Nat /\ cursor[u] <= page[i] /\ page[i] < polling[u]
        BY <1>4, <1>7
    <2>2. CASE more
        <3>1. PAGE \in DOMAIN page /\ Len(page) = PAGE /\ cursor'[u] = page[PAGE] + 1
            BY <2>2, <1>4, <1>6
        <3>2. i = PAGE \/ i < PAGE
            BY <3>1, <1>4
        <3>3. page[PAGE] \in Nat /\ (i < PAGE => page[i] < page[PAGE])
            BY <3>1, <1>4, <1>7
        <3> QED BY <2>1, <3>1, <3>2, <3>3
    <2>3. CASE ~more
        BY <2>1, <2>3, <1>6
    <2> QED BY <2>2, <2>3
<1>11. Ascending(heard[u]) /\ Ascending(page) /\ Below(heard[u], cursor[u])
    <2>1. Ascending(heard[u])
        BY DEF PollersMissNothing, Ascending
    <2>2. Ascending(page)
        BY DEF Ascending, Pages
    <2> QED BY <2>1, <2>2 DEF Polls, Below
<1>12. Ascending(heard'[u]) /\ Below(heard'[u], cursor'[u])
    <2>1. Within(page, cursor[u], cursor'[u])
        BY <1>10 DEF Within
    <2>2. cursor[u] \in Nat /\ cursor'[u] \in Nat /\ cursor[u] <= cursor'[u]
        BY <1>5, <1>9
    <2> QED BY <1>11, <1>20, <1>21, <2>1, <2>2, JoinAscends
<1>13. \A i, j \in DOMAIN heard'[u] : i < j => heard'[u][i] < heard'[u][j]
    BY <1>12 DEF Ascending
<1>14. ASSUME Kept, NEW k \in DOMAIN events, events[k].actor # u, events[k].actor \notin erased,
              since[u] <= events[k].seq, events[k].seq < cursor'[u]
       PROVE  events[k].seq \in Range(heard'[u])
    <2>1. events[k].seq \in Nat
        BY TypeParts, EventFields
    <2>2. events[k].seq # 0
        <3>1. cursor[u] # 0 /\ since[u] \in Nat
            BY <1>2 DEF Polls, AlertTypeOK
        <3>2. since[u] # 0
            BY <3>1 DEF Polls
        <3> QED BY <3>1, <3>2, <2>1, <1>14
    <2>7. Range(heard[u]) \subseteq Range(heard'[u]) /\ Range(page) \subseteq Range(heard'[u])
        BY <1>20, <1>21, JoinRange
    <2>5. CASE events[k].seq < cursor[u]
        BY <2>5, <2>7, <1>14 DEF PollersMissNothing
    <2>6. CASE cursor[u] <= events[k].seq
        <3>1. events[k].seq \in Waiting(u) \ {0}
            BY <1>5, <1>9, <1>14, <2>1, <2>2, <2>6 DEF Waiting
        <3>2. events[k].seq \in Range(page)
            <4> SUFFICES ASSUME events[k].seq \notin Range(page) PROVE FALSE
                OBVIOUS
            <4>1. more /\ page[PAGE] < events[k].seq
                <5>1. Waiting(u) \ {0} # Range(page)
                    BY <3>1
                <5> QED BY <3>1, <5>1, <1>4
            <4>2. PAGE \in DOMAIN page /\ cursor'[u] = page[PAGE] + 1
                BY <4>1, <1>4, <1>6
            <4>3. page[PAGE] \in Nat
                BY <4>2, <1>10
            <4> QED BY <4>1, <4>2, <4>3, <1>14, <2>1
        <3> QED BY <3>2, <2>7
    <2> QED BY <2>1, <2>5, <2>6, <1>5
<1>15. \A x \in Users \ {u} : heard'[x] = heard[x] /\ cursor'[x] = cursor[x] /\ polling'[x] = polling[x]
    BY <1>1, <1>2 DEF AlertTypeOK
<1>16. polling'[u] = 0
    BY <1>2 DEF AlertTypeOK
<1>17. Polls'
    BY <1>2, <1>3, <1>9, <1>12, <1>15, <1>16 DEF Polls, Below
<1>18. PollersMissNothing'
    BY <1>3, <1>13, <1>14, <1>15 DEF PollersMissNothing, Kept
<1>22. RestOK'
    <2>1. cursor' \in [Users -> Nat] /\ polling' \in [Users -> Nat] /\ heard' \in [Users -> Seq(Nat \ {0})]
        BY <1>1, <1>2, <1>6, <1>8, <1>9 DEF AlertTypeOK
    <2>2. \A x \in Users : cursor'[x] <= seq' + 1 /\ polling'[x] <= seq' + 1
        <3> SUFFICES ASSUME NEW x \in Users PROVE cursor'[x] <= seq' + 1 /\ polling'[x] <= seq' + 1
            OBVIOUS
        <3>1. CASE x = u
            BY <3>1, <1>3, <1>5, <1>9, <1>16
        <3>2. CASE x # u
            BY <3>2, <1>3, <1>15 DEF AlertTypeOK
        <3> QED BY <3>1, <3>2
    <2> QED BY <1>3, <2>1, <2>2 DEF RestOK, AlertTypeOK, handler, deliveries
<1>23. EventsOK'
    BY <1>3, EventsStay
<1> QED BY <1>17, <1>18, <1>22, <1>23 DEF AlertTypeOK, EventsOK, RestOK

\* A step that lets the polls alone, and whose new events are suppressed or
\* numbered above the room's counter, hides nothing from a client.
LEMMA NewsIsAhead ==
    ASSUME AlertTypeOK, Polls, PollersMissNothing, UNCHANGED polls, EventsStand,
           Kept' => Kept, erased \subseteq erased',
           \A k \in DOMAIN events' : k \in DOMAIN events \/ events'[k].seq \in {0, seq + 1}
    PROVE  Polls' /\ PollersMissNothing'
<1>1. Polls'
    BY DEF Polls, polls
<1>2. \A u \in Users : \A i, j \in DOMAIN heard'[u] : i < j => heard'[u][i] < heard'[u][j]
    BY DEF PollersMissNothing, polls
<1>3. ASSUME NEW u \in Users, Kept', NEW k \in DOMAIN events',
             events'[k].actor # u, events'[k].actor \notin erased',
             since'[u] <= events'[k].seq, events'[k].seq < cursor'[u]
      PROVE  events'[k].seq \in Range(heard'[u])
    <2>1. heard' = heard /\ cursor' = cursor /\ since' = since
        BY DEF polls
    <2>2. k \in DOMAIN events
        <3> SUFFICES ASSUME events'[k].seq \in {0, seq + 1} PROVE FALSE
            OBVIOUS
        <3>1. since[u] \in Nat /\ cursor[u] \in Nat /\ cursor[u] <= seq + 1 /\ seq \in Nat
            BY DEF AlertTypeOK
        <3>2. since[u] # 0
            BY <1>3, <2>1, <3>1 DEF Polls
        <3> QED BY <1>3, <2>1, <3>1, <3>2
    <2> QED BY <1>3, <2>1, <2>2 DEF PollersMissNothing, EventsStand
<1> QED BY <1>1, <1>2, <1>3 DEF PollersMissNothing

-----------------------------------------------------------------------------
(* The claim on an event *)

ClaimsHold == Fresh /\ Recorded /\ ClaimsTrue /\ Accounted /\ PushedOnce

\* The other handlers keep their places, their reports and their rows.
LEMMA OthersStay ==
    ASSUME AlertTypeOK, AlertTypeOK', Recorded, EventsStand, NEW w \in Workers,
           \A x \in Workers \ {w} : pc'[x] = pc[x] /\ op'[x] = op[x]
    PROVE  \A x \in Workers \ {w} : pc[x] \in Acting \union {"claim"} =>
               EventOf(op[x])' # {} /\ Alert(x)' = Alert(x) /\ Alert(x) \in DOMAIN events
<1> SUFFICES ASSUME NEW x \in Workers \ {w}, pc[x] \in Acting \union {"claim"}
             PROVE  EventOf(op[x])' # {} /\ Alert(x)' = Alert(x) /\ Alert(x) \in DOMAIN events
    OBVIOUS
<1>1. EventsOK /\ EventsOK'
    BY DEF AlertTypeOK, EventsOK
<1>2. EventOf(op[x]) # {} /\ op'[x] = op[x]
    BY DEF Recorded
<1> QED BY <1>1, <1>2, AlertStays, AlertIs

\* A handler that is done with its event, whatever it leaves on the row.
LEMMA LetsGo ==
    ASSUME AlertInv, AlertTypeOK', EventsStand, NEW w \in Workers,
           pc[w] \in Acting, Goto(w, "idle"),
           \A i \in DOMAIN events : i # Alert(w) => events'[i] = events[i],
           UNCHANGED <<seq, current, deliveries>>,
           \A x \in Workers : x # w => seen'[x] = seen[x]
    PROVE  ClaimsHold'
<1> USE DEF AlertInv
<1>1. pc'[w] = "idle" /\ \A x \in Workers \ {w} : pc'[x] = pc[x] /\ op'[x] = op[x]
    BY GotoPlaces DEF AlertPlaces
<1>2. \A x \in Workers \ {w} : pc[x] \in Acting \union {"claim"} =>
               EventOf(op[x])' # {} /\ Alert(x)' = Alert(x) /\ Alert(x) \in DOMAIN events
    BY <1>1, OthersStay
<1>3. Fresh'
    BY <1>1 DEF Fresh, Acting, AlertTypeOK
<1>4. Recorded'
    <2> SUFFICES ASSUME NEW x \in Workers, pc'[x] \in Acting \union {"claim"}
                 PROVE  EventOf(op[x])' # {}
        BY DEF Recorded
    <2>1. x # w
        BY <1>1 DEF Acting
    <2> QED BY <2>1, <1>1, <1>2
<1>5. ClaimsTrue'
    <2>1. ASSUME NEW x \in Workers, pc'[x] \in Acting
          PROVE  x # w /\ pc[x] \in Acting /\ Alert(x)' = Alert(x) /\ events'[Alert(x)] = events[Alert(x)]
        <3>1. x # w
            BY <1>1, <2>1 DEF Acting
        <3>2. Alert(x) # Alert(w)
            BY <1>1, <2>1, <3>1 DEF ClaimsTrue
        <3> QED BY <1>1, <1>2, <2>1, <3>1, <3>2
    <2> QED BY <2>1 DEF ClaimsTrue
<1>6. ASSUME NEW i, Orphan(i) PROVE Orphan(i)'
    <2>1. i # Alert(w) /\ i \in DOMAIN events
        BY <1>6 DEF Orphan
    <2>2. \A x \in Workers : pc'[x] \in Acting => Alert(x)' # i
        BY <1>1, <1>2, <1>6 DEF Orphan, Acting
    <2> QED BY <1>6, <2>1, <2>2 DEF Orphan, EventsStand
<1>7. Accounted' /\ PushedOnce'
    <2>1. pushed' = pushed /\ sent' = sent /\ lost' = lost
        BY DEF deliveries
    <2>2. ASSUME NEW p \in Addressed, pushed'[p] # 0
          PROVE  p \in sent' \/ p \in lost' \/ Orphan(p[1])'
        BY <1>6, <2>1, <2>2 DEF Accounted
    <2> QED BY <2>1, <2>2 DEF Accounted, PushedOnce
<1> QED BY <1>3, <1>4, <1>5, <1>7 DEF ClaimsHold

\* A step of a handler that holds no event before it and none after it, with no
\* event written but a new one.
LEMMA HoldsNone ==
    ASSUME AlertInv, AlertTypeOK', EventsStand, NEW w \in Workers,
           pc[w] \notin Acting, pc'[w] \notin Acting,
           pc'[w] = "claim" => EventOf(op[w])' # {},
           \A x \in Workers \ {w} : pc'[x] = pc[x] /\ op'[x] = op[x],
           \A i \in DOMAIN events : events'[i] = events[i],
           UNCHANGED deliveries, Fresh'
    PROVE  ClaimsHold'
<1> USE DEF AlertInv
<1>2. \A x \in Workers \ {w} : pc[x] \in Acting \union {"claim"} =>
               EventOf(op[x])' # {} /\ Alert(x)' = Alert(x) /\ Alert(x) \in DOMAIN events
    BY OthersStay
<1>4. Recorded'
    <2> SUFFICES ASSUME NEW x \in Workers, pc'[x] \in Acting \union {"claim"}
                 PROVE  EventOf(op[x])' # {}
        BY DEF Recorded
    <2> QED BY <1>2
<1>5. ClaimsTrue'
    <2>1. ASSUME NEW x \in Workers, pc'[x] \in Acting
          PROVE  pc[x] \in Acting /\ Alert(x)' = Alert(x) /\ events'[Alert(x)] = events[Alert(x)]
        BY <1>2, <2>1
    <2> QED BY <2>1 DEF ClaimsTrue
<1>6. ASSUME NEW i, Orphan(i) PROVE Orphan(i)'
    <2>2. \A x \in Workers : pc'[x] \in Acting => Alert(x)' # i
        BY <1>2, <1>6 DEF Orphan
    <2> QED BY <1>6, <2>2 DEF Orphan, EventsStand
<1>7. Accounted' /\ PushedOnce'
    <2>1. pushed' = pushed /\ sent' = sent /\ lost' = lost
        BY DEF deliveries
    <2>2. ASSUME NEW p \in Addressed, pushed'[p] # 0
          PROVE  p \in sent' \/ p \in lost' \/ Orphan(p[1])'
        BY <1>6, <2>1, <2>2 DEF Accounted
    <2> QED BY <2>1, <2>2 DEF Accounted, PushedOnce
<1> QED BY <1>4, <1>5, <1>7 DEF ClaimsHold

\* The claim is one conditional write: it is free before, and nobody else's.
LEMMA ClaimTaken ==
    ASSUME AlertInv, AlertTypeOK', EventsStand, NEW w \in Workers,
           pc[w] = "claim", Goto(w, "look"), events[Alert(w)].push = "free", SetPush(w, "claimed"),
           UNCHANGED <<seq, seen, current, deliveries>>
    PROVE  ClaimsHold'
<1> USE DEF AlertInv
<1>1. pc'[w] = "look" /\ op'[w] = op[w] /\ \A x \in Workers \ {w} : pc'[x] = pc[x] /\ op'[x] = op[x]
    BY GotoPlaces DEF AlertPlaces
<1>2. \A x \in Workers \ {w} : pc[x] \in Acting \union {"claim"} =>
               EventOf(op[x])' # {} /\ Alert(x)' = Alert(x) /\ Alert(x) \in DOMAIN events
    BY <1>1, OthersStay
<1>3. EventsOK /\ EventsOK' /\ EventOf(op[w]) # {}
    BY DEF AlertTypeOK, EventsOK, Recorded
<1>4. EventOf(op[w])' # {} /\ Alert(w)' = Alert(w)
    BY <1>1, <1>3, AlertStays
<1>5. /\ events'[Alert(w)].push = "claimed"
      /\ \A i \in DOMAIN events : i # Alert(w) => events'[i] = events[i]
    BY <1>3, SetPushKeeps
<1>6. \A x \in Workers \ {w} : pc[x] \in Acting => Alert(x) # Alert(w)
    BY DEF ClaimsTrue
<1>7. Fresh'
    BY <1>1 DEF Fresh, AlertTypeOK
<1>8. Recorded'
    BY <1>1, <1>2, <1>4 DEF Recorded
<1>9. ClaimsTrue'
    <2>1. ASSUME NEW x \in Workers, pc'[x] \in Acting, x # w
          PROVE  pc[x] \in Acting /\ Alert(x)' = Alert(x) /\ events'[Alert(x)] = events[Alert(x)]
                 /\ Alert(x)' # Alert(w)'
        BY <1>1, <1>2, <1>4, <1>5, <1>6, <2>1
    <2> QED BY <2>1, <1>4, <1>5 DEF ClaimsTrue
<1>10. ASSUME NEW i, Orphan(i) PROVE Orphan(i)'
    <2>1. i # Alert(w) /\ i \in DOMAIN events
        BY <1>10 DEF Orphan
    <2>2. \A x \in Workers : pc'[x] \in Acting => Alert(x)' # i
        BY <1>1, <1>2, <1>4, <1>10, <2>1 DEF Orphan
    <2> QED BY <1>5, <1>10, <2>1, <2>2 DEF Orphan, EventsStand
<1>11. Accounted' /\ PushedOnce'
    <2>1. pushed' = pushed /\ sent' = sent /\ lost' = lost
        BY DEF deliveries
    <2>2. ASSUME NEW p \in Addressed, pushed'[p] # 0
          PROVE  p \in sent' \/ p \in lost' \/ Orphan(p[1])'
        BY <1>10, <2>1, <2>2 DEF Accounted
    <2> QED BY <2>1, <2>2 DEF Accounted, PushedOnce
<1> QED BY <1>7, <1>8, <1>9, <1>11 DEF ClaimsHold

\* A handler that goes on with the event it holds.
LEMMA HoldsOn ==
    ASSUME AlertInv, AlertTypeOK', NEW w \in Workers,
           pc[w] \in Acting, NEW where \in Acting, Goto(w, where), UNCHANGED <<events, seq, current>>,
           \A x \in Workers : x # w => seen'[x] = seen[x]
    PROVE  /\ Fresh' /\ Recorded' /\ ClaimsTrue'
           /\ \A i : Orphan(i) => Orphan(i)' /\ i # Alert(w)
<1> USE DEF AlertInv
<1>1. pc'[w] = where /\ op'[w] = op[w] /\ \A x \in Workers \ {w} : pc'[x] = pc[x] /\ op'[x] = op[x]
    BY GotoPlaces DEF AlertPlaces, Acting
<1>2. EventsStand
    BY EventsStay
<1>3. \A x \in Workers \ {w} : pc[x] \in Acting \union {"claim"} =>
               EventOf(op[x])' # {} /\ Alert(x)' = Alert(x) /\ Alert(x) \in DOMAIN events
    BY <1>1, <1>2, OthersStay
<1>4. EventOf(op[w])' # {} /\ Alert(w)' = Alert(w)
    <2>1. EventsOK /\ EventsOK' /\ EventOf(op[w]) # {}
        BY DEF AlertTypeOK, EventsOK, Recorded
    <2> QED BY <1>1, <1>2, <2>1, AlertStays
<1>5. Fresh'
    BY <1>1 DEF Fresh, Acting, AlertTypeOK
<1>6. Recorded'
    BY <1>1, <1>3, <1>4 DEF Recorded
<1>7. \A x \in Workers : pc'[x] \in Acting => pc[x] \in Acting /\ Alert(x)' = Alert(x)
    BY <1>1, <1>3, <1>4
<1>8. ClaimsTrue'
    BY <1>7 DEF ClaimsTrue
<1>9. ASSUME NEW i, Orphan(i) PROVE Orphan(i)' /\ i # Alert(w)
    BY <1>7, <1>9 DEF Orphan
<1> QED BY <1>5, <1>6, <1>8, <1>9

\* Whoever had been reached and does not have a delivery that went out had been
\* reached by an answer that was lost.
LEMMA DispatchClaims ==
    ASSUME AlertInv, AlertTypeOK', NEW w \in Workers, Dispatch(w)
    PROVE  ClaimsHold'
<1> USE DEF AlertInv
<1>1. PICK ok \in SUBSET Addressees(w) : \E mute \in SUBSET (Addressees(w) \ ok) :
          /\ Reaches(w, ok \union mute)
          /\ sent' = sent \union ({Alert(w)} \X ok)
          /\ lost' = lost \union ({Alert(w)} \X mute)
          /\ Goto(w, IF ok = Addressees(w) THEN "sent" ELSE "refused")
    BY DEF Dispatch
<1>2. PICK mute \in SUBSET (Addressees(w) \ ok) :
          /\ Reaches(w, ok \union mute)
          /\ sent' = sent \union ({Alert(w)} \X ok)
          /\ lost' = lost \union ({Alert(w)} \X mute)
          /\ Goto(w, IF ok = Addressees(w) THEN "sent" ELSE "refused")
    BY <1>1
<1>3. /\ pc[w] \in Acting /\ UNCHANGED <<events, seq, current>>
      /\ \A x \in Workers : x # w => seen'[x] = seen[x]
    BY DEF Dispatch, Acting, AlertTypeOK
<1>4. \E where \in Acting : Goto(w, where)
    BY <1>2 DEF Acting
<1>5. /\ Fresh' /\ Recorded' /\ ClaimsTrue'
      /\ \A i : Orphan(i) => Orphan(i)' /\ i # Alert(w)
    BY <1>3, <1>4, HoldsOn
<1>6. ASSUME NEW p \in Addressed
      PROVE  /\ pushed'[p] # 0 => p \in sent' \/ p \in lost' \/ Orphan(p[1])'
             /\ pushed'[p] <= 1 \/ p \in lost'
    <2>1. pushed[p] \in Nat /\ (pushed[p] <= 1 \/ p \in lost)
        BY DEF AlertTypeOK, PushedOnce
    <2>2. CASE p[1] = Alert(w) /\ p[2] \in ok \union mute
        <3>1. p = <<Alert(w), p[2]>>
            BY <2>2 DEF Addressed
        <3>2. pushed'[p] = pushed[p] + 1
            BY <1>2, <2>2 DEF Reaches
        <3>3. p \notin sent
            BY <2>2, <3>1 DEF Addressees
        <3>4. pushed[p] = 0 \/ p \in lost
            BY <1>5, <2>2, <3>3 DEF Accounted
        <3>5. p \in sent' \/ p \in lost'
            BY <1>2, <2>2, <3>1
        <3>6. p \in lost => p \in lost'
            BY <1>2
        <3> QED BY <2>1, <3>2, <3>4, <3>5, <3>6
    <2>3. CASE ~(p[1] = Alert(w) /\ p[2] \in ok \union mute)
        <3>1. pushed'[p] = pushed[p]
            BY <1>2, <2>3 DEF Reaches
        <3> QED BY <1>2, <1>5, <2>1, <3>1 DEF Accounted
    <2> QED BY <2>2, <2>3
<1> QED BY <1>5, <1>6 DEF ClaimsHold, Accounted, PushedOnce

\* The rows of a dispatch are not written: nobody takes the event up again.
LEMMA UnrecordedClaims ==
    ASSUME AlertInv, AlertTypeOK', NEW w \in Workers, DispatchUnrecorded(w)
    PROVE  ClaimsHold'
<1> USE DEF AlertInv
<1>1. /\ pc[w] = "dispatch" /\ Goto(w, "idle") /\ Reaches(w, Addressees(w))
      /\ UNCHANGED <<seq, current, events, sent, lost>>
      /\ \A x \in Workers : x # w => seen'[x] = seen[x]
    BY DEF DispatchUnrecorded, AlertTypeOK
<1>2. pc'[w] = "idle" /\ \A x \in Workers \ {w} : pc'[x] = pc[x] /\ op'[x] = op[x]
    BY <1>1, GotoPlaces DEF AlertPlaces
<1>3. EventsStand
    BY <1>1, EventsStay
<1>4. \A x \in Workers \ {w} : pc[x] \in Acting \union {"claim"} =>
               EventOf(op[x])' # {} /\ Alert(x)' = Alert(x) /\ Alert(x) \in DOMAIN events
    BY <1>2, <1>3, OthersStay
<1>5. Fresh'
    BY <1>1, <1>2 DEF Fresh, AlertTypeOK
<1>6. Recorded'
    BY <1>2, <1>4 DEF Recorded, Acting
<1>7. \A x \in Workers : pc'[x] \in Acting => x # w /\ pc[x] \in Acting /\ Alert(x)' = Alert(x)
    BY <1>2, <1>4 DEF Acting
<1>8. ClaimsTrue'
    BY <1>1, <1>7 DEF ClaimsTrue
<1>9. ASSUME NEW i, Orphan(i) PROVE Orphan(i)' /\ i # Alert(w)
    BY <1>1, <1>7, <1>9 DEF Orphan, Acting
<1>10. ASSUME NEW j, j = Alert(w) PROVE Orphan(j)'
    <2>1. Alert(w) \in DOMAIN events /\ events[Alert(w)].push = "claimed"
        <3>1. EventsOK /\ EventOf(op[w]) # {}
            BY <1>1 DEF AlertTypeOK, EventsOK, Recorded, Acting
        <3> QED BY <1>1, <3>1, AlertIs DEF ClaimsTrue, Acting
    <2>2. \A x \in Workers : pc'[x] \in Acting => Alert(x)' # Alert(w)
        BY <1>1, <1>7 DEF ClaimsTrue, Acting
    <2> QED BY <1>1, <1>10, <2>1, <2>2 DEF Orphan
<1>11. ASSUME NEW p \in Addressed
      PROVE  /\ pushed'[p] # 0 => p \in sent' \/ p \in lost' \/ Orphan(p[1])'
             /\ pushed'[p] <= 1 \/ p \in lost'
    <2>1. pushed[p] \in Nat /\ (pushed[p] <= 1 \/ p \in lost)
        BY DEF AlertTypeOK, PushedOnce
    <2>2. CASE p[1] = Alert(w) /\ p[2] \in Addressees(w)
        <3>1. p = <<Alert(w), p[2]>>
            BY <2>2 DEF Addressed
        <3>2. pushed'[p] = pushed[p] + 1
            BY <1>1, <2>2 DEF Reaches
        <3>3. p \notin sent
            BY <2>2, <3>1 DEF Addressees
        <3>4. pushed[p] = 0 \/ p \in lost
            BY <1>9, <2>2, <3>3 DEF Accounted
        <3>5. Orphan(p[1])'
            BY <1>10, <2>2
        <3> QED BY <1>1, <2>1, <3>2, <3>4, <3>5
    <2>3. CASE ~(p[1] = Alert(w) /\ p[2] \in Addressees(w))
        <3>1. pushed'[p] = pushed[p]
            BY <1>1, <2>3 DEF Reaches
        <3> QED BY <1>1, <1>9, <2>1, <3>1 DEF Accounted
    <2> QED BY <2>2, <2>3
<1> QED BY <1>5, <1>6, <1>8, <1>11 DEF ClaimsHold, Accounted, PushedOnce

-----------------------------------------------------------------------------
(* Every step *)

LEMMA CommitInv ==
    ASSUME AlertInv, NEW w \in Workers,
           (\E o \in Ops : Begin(w, o)) \/ RecordKnown(w) \/ Lose(w)
    PROVE  AlertInv'
<1> USE DEF AlertInv
<1>1. AlertTypeOK'
    BY CommitType
<1>2. UNCHANGED <<clock, seq, members, erased, last, events, polls, deliveries, faults>>
    BY DEF Begin, RecordKnown, Lose
<1>3. EventsStand
    BY <1>2, EventsStay
<1>4. Polls' /\ PollersMissNothing'
    <2>1. Kept' => Kept
        BY <1>2 DEF Kept
    <2> QED BY <1>2, <1>3, <2>1, NewsIsAhead
<1>5. pc[w] \notin Acting
    BY DEF Begin, RecordKnown, Lose, Acting
<1>6. ASSUME NEW o \in Ops, Begin(w, o)
      PROVE  /\ pc'[w] = "commit" /\ \A x \in Workers \ {w} : pc'[x] = pc[x] /\ op'[x] = op[x]
             /\ Fresh'
    <2>1. /\ pc'[w] = "commit" /\ \A x \in Workers \ {w} : pc'[x] = pc[x] /\ op'[x] = op[x]
          /\ seen'[w] = Now /\ \A x \in Workers \ {w} : seen'[x] = seen[x]
          /\ current' = current \union {w} /\ seq' = seq
        BY <1>6 DEF Begin, AlertTypeOK
    <2> QED BY <2>1 DEF Fresh, AlertTypeOK, Now
<1>7. ASSUME RecordKnown(w)
      PROVE  /\ pc'[w] \in {"claim", "idle"} /\ \A x \in Workers \ {w} : pc'[x] = pc[x] /\ op'[x] = op[x]
             /\ pc'[w] = "claim" => EventOf(op[w])' # {}
             /\ Fresh'
    <2>1. /\ Goto(w, IF Running THEN "claim" ELSE "idle")
          /\ Running => EventOf(op[w]) # {}
          /\ current' = {} /\ UNCHANGED events
        BY <1>7 DEF RecordKnown, Advance
    <2>2. /\ pc'[w] = (IF Running THEN "claim" ELSE "idle")
          /\ \A x \in Workers \ {w} : pc'[x] = pc[x] /\ op'[x] = op[x]
          /\ Running => op'[w] = op[w]
        <3>1. CASE Running
            BY <2>1, <3>1, GotoPlaces DEF AlertPlaces
        <3>2. CASE ~Running
            BY <2>1, <3>2, GotoPlaces DEF AlertPlaces
        <3> QED BY <3>1, <3>2
    <2>3. pc'[w] = "claim" => EventOf(op[w])' # {}
        BY <2>1, <2>2 DEF EventOf
    <2> QED BY <2>1, <2>2, <2>3 DEF Fresh
<1>8. ASSUME Lose(w)
      PROVE  /\ pc'[w] = "idle" /\ \A x \in Workers \ {w} : pc'[x] = pc[x] /\ op'[x] = op[x]
             /\ Fresh'
    <2>1. /\ Goto(w, "idle") /\ current' = current \ {w} /\ UNCHANGED seq
          /\ \A x \in Workers \ {w} : seen'[x] = seen[x]
        BY <1>8 DEF Lose, AlertTypeOK
    <2>2. pc'[w] = "idle" /\ \A x \in Workers \ {w} : pc'[x] = pc[x] /\ op'[x] = op[x]
        BY <2>1, GotoPlaces DEF AlertPlaces
    <2> QED BY <2>1, <2>2 DEF Fresh, AlertTypeOK
<1>9. /\ pc'[w] \notin Acting /\ \A x \in Workers \ {w} : pc'[x] = pc[x] /\ op'[x] = op[x]
      /\ pc'[w] = "claim" => EventOf(op[w])' # {}
      /\ Fresh'
    BY <1>6, <1>7, <1>8 DEF Acting
<1>10. ClaimsHold'
    BY <1>1, <1>2, <1>3, <1>5, <1>9, HoldsNone
<1> QED BY <1>1, <1>4, <1>10 DEF ClaimsHold

LEMMA RecordInv ==
    ASSUME AlertInv, NEW w \in Workers, Record(w)
    PROVE  AlertInv'
<1> USE DEF AlertInv
<1>1. AlertTypeOK'
    BY RecordType
<1>2. /\ EventsStand /\ Len(events') = Len(events) + 1
      /\ \A i \in DOMAIN events : events'[i] = events[i]
      /\ events'[Len(events) + 1].actor = op[w].actor
      /\ events'[Len(events) + 1].key = op[w].key
      /\ events'[Len(events) + 1].seq \in {0, seq + 1}
    BY RecordKeeps DEF Fresh
<1>3. /\ Len(events) \in Nat /\ DOMAIN events = 1..Len(events)
      /\ DOMAIN events' = 1..(Len(events) + 1)
    <2>1. events \in Seq(Event) /\ events' \in Seq(Event)
        BY <1>1 DEF AlertTypeOK
    <2> QED BY <1>2, <2>1, LenProperties
<1>4. Goto(w, "claim") /\ Advance /\ UNCHANGED <<polls, deliveries>> /\ pc[w] = "commit"
    BY DEF Record
<1>5. pc'[w] = "claim" /\ op'[w] = op[w] /\ \A x \in Workers \ {w} : pc'[x] = pc[x] /\ op'[x] = op[x]
    BY <1>4, GotoPlaces DEF AlertPlaces
<1>6. Polls' /\ PollersMissNothing'
    <2>1. \A k \in DOMAIN events' : k \in DOMAIN events \/ k = Len(events) + 1
        BY <1>3
    <2>2. (Kept' => Kept) /\ erased \subseteq erased'
        BY DEF Record, Kept
    <2> QED BY <1>2, <1>4, <2>1, <2>2, NewsIsAhead
<1>7. EventOf(op[w])' # {}
    <2>1. Len(events) + 1 \in EventOf(op[w])'
        BY <1>2, <1>3, <1>5 DEF EventOf
    <2> QED BY <2>1
<1>8. Fresh'
    BY <1>4 DEF Fresh, Advance
<1>9. pc[w] \notin Acting /\ pc'[w] \notin Acting
    BY <1>4, <1>5 DEF Acting
<1>10. ClaimsHold'
    BY <1>1, <1>2, <1>4, <1>5, <1>7, <1>8, <1>9, HoldsNone
<1> QED BY <1>1, <1>6, <1>10 DEF ClaimsHold

LEMMA PushInv ==
    ASSUME AlertInv, NEW w \in Workers,
           ClaimPush(w) \/ LookAgain(w) \/ Acknowledge(w) \/ PushFails(w)
    PROVE  AlertInv'
<1> USE DEF AlertInv
<1>1. AlertTypeOK' /\ EventsStand /\ Len(events') = Len(events)
    BY PushStepType
<1>2. UNCHANGED <<clock, seq, erased, current, polls, deliveries>>
    BY DEF ClaimPush, LookAgain, Acknowledge, PushFails
<1>3. DOMAIN events' = DOMAIN events
    BY <1>1, LenProperties DEF AlertTypeOK
<1>4. Polls' /\ PollersMissNothing'
    <2>1. (Kept' => Kept) /\ erased \subseteq erased'
        BY <1>2 DEF Kept
    <2> QED BY <1>1, <1>2, <1>3, <2>1, NewsIsAhead
<1>5. \A x \in Workers : x # w => seen'[x] = seen[x]
    BY DEF ClaimPush, LookAgain, Acknowledge, PushFails, AlertTypeOK
<1>6. EventsOK /\ (pc[w] \in Acting \union {"claim"} => EventOf(op[w]) # {})
    BY DEF AlertTypeOK, EventsOK, Recorded
<1>7. ASSUME Goto(w, "idle"), pc[w] \in Acting,
             UNCHANGED events \/ \E state \in {"free", "done"} : SetPush(w, state)
      PROVE  ClaimsHold'
    <2>1. \A i \in DOMAIN events : i # Alert(w) => events'[i] = events[i]
        <3>1. ASSUME NEW state \in {"free", "done"}, SetPush(w, state)
              PROVE  \A i \in DOMAIN events : i # Alert(w) => events'[i] = events[i]
            BY <1>2, <1>6, <1>7, <3>1, SetPushKeeps
        <3> QED BY <1>7, <3>1
    <2> QED BY <1>1, <1>2, <1>5, <1>7, <2>1, LetsGo
<1>8. ASSUME ClaimPush(w) PROVE ClaimsHold'
    <2>1. CASE events[Alert(w)].seq = 0 \/ events[Alert(w)].push # "free" \/ op[w].actor \in erased
        <3>1. pc[w] = "claim" /\ Goto(w, "idle") /\ UNCHANGED <<events, seen>>
            BY <1>8, <2>1 DEF ClaimPush
        <3>2. pc'[w] = "idle" /\ \A x \in Workers \ {w} : pc'[x] = pc[x] /\ op'[x] = op[x]
            BY <3>1, GotoPlaces DEF AlertPlaces
        <3>3. pc[w] \notin Acting /\ pc'[w] \notin Acting /\ pc'[w] # "claim"
            BY <3>1, <3>2 DEF Acting
        <3>4. Fresh'
            BY <1>2, <3>1, <3>2 DEF Fresh, AlertTypeOK
        <3> QED BY <1>1, <1>2, <3>1, <3>2, <3>3, <3>4, HoldsNone
    <2>2. CASE ~(events[Alert(w)].seq = 0 \/ events[Alert(w)].push # "free" \/ op[w].actor \in erased)
        <3>1. pc[w] = "claim" /\ Goto(w, "look") /\ SetPush(w, "claimed") /\ UNCHANGED seen
            BY <1>8, <2>2 DEF ClaimPush
        <3> QED BY <1>1, <1>2, <2>2, <3>1, ClaimTaken
    <2> QED BY <2>1, <2>2
<1>9. ASSUME LookAgain(w) PROVE ClaimsHold'
    <2>1. pc[w] = "look" /\ pc[w] \in Acting
        BY <1>9 DEF LookAgain, Acting
    <2>2. CASE Running /\ op[w].actor \in members
        <3>1. Goto(w, "dispatch") /\ UNCHANGED events /\ "dispatch" \in Acting
            BY <1>9, <2>2 DEF LookAgain, Acting
        <3>2. Fresh' /\ Recorded' /\ ClaimsTrue' /\ \A i : Orphan(i) => Orphan(i)' /\ i # Alert(w)
            BY <1>1, <1>2, <1>5, <2>1, <3>1, HoldsOn
        <3>3. pushed' = pushed /\ sent' = sent /\ lost' = lost
            BY <1>2 DEF deliveries
        <3>4. ASSUME NEW p \in Addressed, pushed'[p] # 0
              PROVE  p \in sent' \/ p \in lost' \/ Orphan(p[1])'
            BY <3>2, <3>3, <3>4 DEF Accounted
        <3> QED BY <3>2, <3>3, <3>4 DEF ClaimsHold, Accounted, PushedOnce
    <2>3. CASE ~(Running /\ op[w].actor \in members)
        <3>1. Goto(w, "idle") /\ SetPush(w, "done")
            BY <1>9, <2>3 DEF LookAgain
        <3> QED BY <1>7, <2>1, <3>1
    <2> QED BY <2>2, <2>3
<1>10. ASSUME Acknowledge(w) PROVE ClaimsHold'
    <2>1. pc[w] \in Acting /\ Goto(w, "idle") /\ \E state \in {"free", "done"} : SetPush(w, state)
        BY <1>10 DEF Acknowledge, Acting
    <2> QED BY <1>7, <2>1
<1>11. ASSUME PushFails(w) PROVE ClaimsHold'
    <2>1. /\ pc[w] \in Acting /\ Goto(w, "idle")
          /\ UNCHANGED events \/ \E state \in {"free", "done"} : SetPush(w, state)
        BY <1>11 DEF PushFails, Acting
    <2> QED BY <1>7, <2>1
<1>12. ClaimsHold'
    BY <1>8, <1>9, <1>10, <1>11
<1> QED BY <1>1, <1>4, <1>12 DEF ClaimsHold

LEMMA DispatchInv ==
    ASSUME AlertInv, NEW w \in Workers,
           Dispatch(w) \/ DispatchUnrecorded(w) \/ PushDies(w)
    PROVE  AlertInv'
<1> USE DEF AlertInv
<1>1. AlertTypeOK'
    BY DispatchType
<1>2. UNCHANGED <<clock, erased, events, seq, current, polls>>
    BY DEF Dispatch, DispatchUnrecorded, PushDies
<1>3. EventsStand
    BY <1>2, EventsStay
<1>4. Polls' /\ PollersMissNothing'
    <2>1. Kept' => Kept
        BY <1>2 DEF Kept
    <2> QED BY <1>2, <1>3, <2>1, NewsIsAhead
<1>5. ASSUME PushDies(w) PROVE ClaimsHold'
    <2>1. pc[w] \in Acting /\ Goto(w, "idle") /\ UNCHANGED deliveries
          /\ \A x \in Workers : x # w => seen'[x] = seen[x]
        BY <1>5 DEF PushDies, Acting, AlertTypeOK
    <2> QED BY <1>1, <1>2, <1>3, <2>1, LetsGo
<1>6. ClaimsHold'
    BY <1>1, <1>5, DispatchClaims, UnrecordedClaims
<1> QED BY <1>1, <1>4, <1>6 DEF ClaimsHold

\* Nothing of the claims moves with the clients, the room or the clock.
LEMMA ClaimsStay ==
    ASSUME AlertInv, UNCHANGED <<events, op, pc, deliveries>>, Fresh'
    PROVE  ClaimsHold'
<1> USE DEF AlertInv
<1>1. pushed' = pushed /\ sent' = sent /\ lost' = lost
    BY DEF deliveries
<1>2. Recorded'
    BY DEF Recorded, EventOf
<1>3. \A x \in Workers : Alert(x)' = Alert(x)
    BY DEF Alert, EventOf
<1>4. ClaimsTrue'
    BY <1>3 DEF ClaimsTrue
<1>5. ASSUME NEW i, Orphan(i) PROVE Orphan(i)'
    BY <1>3, <1>5 DEF Orphan
<1>6. ASSUME NEW p \in Addressed, pushed'[p] # 0
      PROVE  p \in sent' \/ p \in lost' \/ Orphan(p[1])'
    BY <1>1, <1>5, <1>6 DEF Accounted
<1> QED BY <1>1, <1>2, <1>4, <1>6 DEF ClaimsHold, Accounted, PushedOnce

LEMMA OtherInv ==
    ASSUME AlertInv, NEW u \in Users,
           PollFirst(u) \/ PollReads(u) \/ Departs(u) \/ AccountDeleted(u)
    PROVE  AlertInv'
<1> USE DEF AlertInv
<1>1. AlertTypeOK'
    BY OtherType
<1>2. UNCHANGED <<seq, events, op, pc, heard, deliveries, faults>>
    BY DEF PollFirst, PollReads, Departs, AccountDeleted, handler, polls
<1>3. Fresh'
    <2>1. current' = {} \/ UNCHANGED <<current, seen>>
        BY DEF PollFirst, PollReads, Departs, AccountDeleted, handler, Advance
    <2> QED BY <1>2, <2>1 DEF Fresh
<1>4. ClaimsHold'
    BY <1>2, <1>3, ClaimsStay
<1>5. EventsStand
    BY <1>2, EventsStay
<1>10. UNCHANGED clock /\ erased \subseteq erased'
    BY DEF PollFirst, PollReads, Departs, AccountDeleted, AlertTypeOK
<1>11. Kept' <=> Kept
    BY <1>10 DEF Kept
<1>6. ASSUME UNCHANGED polls PROVE Polls' /\ PollersMissNothing'
    BY <1>2, <1>5, <1>6, <1>10, <1>11, NewsIsAhead
<1>7. ASSUME PollFirst(u) PROVE Polls' /\ PollersMissNothing'
    <2>1. /\ cursor[u] = 0 /\ cursor' = [cursor EXCEPT ![u] = seq + 1] /\ polling' = polling
          /\ cursor'[u] = seq + 1 /\ \A x \in Users \ {u} : cursor'[x] = cursor[x]
          /\ since'[u] = seq + 1 /\ \A x \in Users \ {u} : since'[x] = since[x]
          /\ erased' = erased
        BY <1>7 DEF PollFirst, AlertTypeOK
    <2>2. heard[u] = <<>> /\ polling[u] = 0 /\ seq \in Nat
        BY <2>1 DEF Polls, AlertTypeOK
    <2>3. Polls'
        <3> SUFFICES ASSUME NEW x \in Users
                     PROVE  /\ cursor'[x] = 0 => heard'[x] = <<>> /\ polling'[x] = 0
                            /\ cursor'[x] # 0 => since'[x] # 0
                            /\ polling'[x] # 0 => cursor'[x] <= polling'[x]
                            /\ \A i \in DOMAIN heard'[x] : heard'[x][i] < cursor'[x]
            BY DEF Polls
        <3>1. CASE x = u
            <4>1. DOMAIN heard[u] = {}
                BY <2>2
            <4> QED BY <1>2, <2>1, <2>2, <3>1, <4>1
        <3>2. CASE x # u
            BY <1>2, <2>1, <3>2 DEF Polls
        <3> QED BY <3>1, <3>2
    <2>4. ASSUME NEW x \in Users
          PROVE  /\ \A i, j \in DOMAIN heard'[x] : i < j => heard'[x][i] < heard'[x][j]
                 /\ Kept' => \A k \in DOMAIN events' :
                      (/\ events'[k].actor # x /\ events'[k].actor \notin erased'
                       /\ since'[x] <= events'[k].seq /\ events'[k].seq < cursor'[x])
                         => events'[k].seq \in Range(heard'[x])
        <3>1. CASE x = u
            <4>1. \A k \in DOMAIN events : events[k].seq \in Nat
                BY TypeParts, EventFields
            <4>2. DOMAIN heard'[u] = {}
                BY <1>2, <2>2
            <4> QED BY <1>2, <2>1, <2>2, <3>1, <4>1, <4>2
        <3>2. CASE x # u
            BY <1>2, <1>11, <2>1, <3>2 DEF PollersMissNothing
        <3> QED BY <3>1, <3>2
    <2> QED BY <2>3, <2>4 DEF PollersMissNothing
<1>8. ASSUME PollReads(u) PROVE Polls' /\ PollersMissNothing'
    <2>1. /\ cursor[u] # 0 /\ cursor' = cursor
          /\ polling'[u] = seq + 1 /\ \A x \in Users \ {u} : polling'[x] = polling[x]
          /\ since' = since /\ erased' = erased
        BY <1>8 DEF PollReads, AlertTypeOK
    <2>2. cursor[u] <= seq + 1
        BY DEF AlertTypeOK
    <2>3. Polls'
        BY <1>2, <2>1, <2>2 DEF Polls
    <2>4. PollersMissNothing'
        BY <1>2, <1>11, <2>1 DEF PollersMissNothing
    <2> QED BY <2>3, <2>4
<1>9. Polls' /\ PollersMissNothing'
    BY <1>6, <1>7, <1>8 DEF Departs, AccountDeleted
<1> QED BY <1>1, <1>4, <1>9 DEF ClaimsHold

LEMMA RowsInv ==
    ASSUME AlertInv, NEW u \in Users, PollRows(u)
    PROVE  AlertInv'
<1>1. UNCHANGED <<seq, events, op, pc, seen, current, deliveries>>
    BY DEF PollRows, handler
<1>2. Fresh'
    BY <1>1 DEF Fresh, AlertInv
<1> QED BY <1>1, <1>2, PollRowsInv, ClaimsStay DEF ClaimsHold, AlertInv

LEMMA TickInv == ASSUME AlertInv, AlertTick \/ UNCHANGED alertVars PROVE AlertInv'
<1> USE DEF AlertInv
<1>1. /\ UNCHANGED <<seq, members, erased, last, events, handler, polls, deliveries, faults>>
      /\ clock' \in 1..AlertHorizon
    BY DEF AlertTick, alertVars, AlertTypeOK
<1>2. EventsOK' /\ EventsStand
    BY <1>1, EventsStay
<1>3. RestOK'
    BY <1>1 DEF RestOK, AlertTypeOK, handler, polls, deliveries
<1>4. Fresh'
    BY <1>1 DEF Fresh, handler
<1>7. Kept' => Kept
    <2>1. clock \in Nat /\ (clock' = clock + 1 \/ clock' = clock)
        BY DEF AlertTick, alertVars, AlertTypeOK
    <2> QED BY <2>1, AlertAssumption DEF Kept
<1>5. Polls' /\ PollersMissNothing'
    BY <1>1, <1>2, <1>7, NewsIsAhead
<1>6. ClaimsHold'
    BY <1>1, <1>4, ClaimsStay DEF handler
<1> QED BY <1>2, <1>3, <1>5, <1>6 DEF ClaimsHold, AlertTypeOK, EventsOK, RestOK

LEMMA InitInv == ASSUME AlertInit PROVE AlertInv
<1> USE DEF AlertInit
<1>1. EventsOK
    <2>1. events = <<>> /\ events \in Seq(Event) /\ Len(events) = 0 /\ DOMAIN events = {}
        BY EmptySeq
    <2> QED BY <2>1 DEF EventsOK
<1>2. RestOK
    <2>1. heard \in [Users -> Seq(Nat \ {0})]
        BY EmptySeq
    <2>2. seen \in [Workers -> Snapshots] /\ DOMAIN op = Workers
        BY DEF Snapshots, NoRoom
    <2> QED BY <2>1, <2>2 DEF RestOK, AlertPlaces
<1>3. AlertTypeOK
    BY <1>1, <1>2 DEF AlertTypeOK, EventsOK, RestOK
<1>4. ClaimsHold
    BY DEF ClaimsHold, Fresh, Recorded, ClaimsTrue, Accounted, PushedOnce, Acting
<1>5. Polls /\ PollersMissNothing
    <2>1. \A u \in Users : heard[u] = <<>> /\ DOMAIN heard[u] = {}
        OBVIOUS
    <2> QED BY <2>1 DEF Polls, PollersMissNothing
<1> QED BY <1>3, <1>4, <1>5 DEF AlertInv, ClaimsHold

LEMMA NextInv == ASSUME AlertInv, [AlertNext]_alertVars PROVE AlertInv'
<1>1. ASSUME NEW w \in Workers, Reporting(w) PROVE AlertInv'
    BY <1>1, CommitInv, RecordInv, PushInv, DispatchInv DEF Reporting
<1>2. ASSUME NEW u \in Users,
             PollFirst(u) \/ PollReads(u) \/ PollRows(u) \/ Departs(u) \/ AccountDeleted(u)
      PROVE  AlertInv'
    BY <1>2, OtherInv, RowsInv
<1> QED BY <1>1, <1>2, TickInv DEF AlertNext

\* Through every step of every handler, client and clock: the typing, the claims,
\* the polls and the two properties below.
THEOREM AlertInvHolds == AlertSpec => []AlertInv
BY InitInv, NextInv, PTL DEF AlertSpec

\* The rows and marks of RoomAlerts keep their types; eventSequence is the highest
\* number given and a request has one row, however often it is reported.
THEOREM AlertTypeCorrect == AlertSpec => []AlertTypeOK
BY AlertInvHolds, PTL DEF AlertInv

\* For any number of members, handlers, pages and cooldowns: what others did between
\* a client's first GET /rooms/:id/events and its cursor reached it, once and in order,
\* unless it expired or went with an account before it was read.
THEOREM PollersMissNothingHolds == AlertSpec => []PollersMissNothing
BY AlertInvHolds, PTL DEF AlertInv

\* However reports are retried and handlers fail or die: pushAttempt reaches a member
\* once with an event, but for an answer of the provider that was lost.
THEOREM PushedOnceHolds == AlertSpec => []PushedOnce
BY AlertInvHolds, PTL DEF AlertInv

-----------------------------------------------------------------------------
(* What is recorded *)

\* Only recordAttempt adds a row.
LEMMA RowsGrow ==
    ASSUME AlertInv, [AlertNext]_alertVars
    PROVE  EventsStand /\ (DOMAIN events' = DOMAIN events \/ \E w \in Workers : Record(w))
<1> USE DEF AlertInv
<1>1. ASSUME NEW w \in Workers, Record(w) PROVE EventsStand
    BY <1>1, RecordKeeps DEF Fresh
<1>2. ASSUME NEW w \in Workers, ClaimPush(w) \/ LookAgain(w) \/ Acknowledge(w) \/ PushFails(w)
      PROVE  EventsStand /\ DOMAIN events' = DOMAIN events
    <2>1. AlertTypeOK' /\ EventsStand /\ Len(events') = Len(events)
        BY <1>2, PushStepType
    <2> QED BY <2>1, LenProperties DEF AlertTypeOK
<1>3. ASSUME UNCHANGED events PROVE EventsStand /\ DOMAIN events' = DOMAIN events
    BY <1>3 DEF EventsStand
<1>4. ASSUME NEW w \in Workers, Reporting(w)
      PROVE  EventsStand /\ (DOMAIN events' = DOMAIN events \/ Record(w))
    <2>1. ASSUME (\E o \in Ops : Begin(w, o)) \/ RecordKnown(w) \/ Lose(w)
          PROVE  UNCHANGED events
        BY <2>1 DEF Begin, RecordKnown, Lose
    <2>2. ASSUME Dispatch(w) \/ DispatchUnrecorded(w) \/ PushDies(w) PROVE UNCHANGED events
        BY <2>2 DEF Dispatch, DispatchUnrecorded, PushDies
    <2> QED BY <1>1, <1>2, <1>3, <1>4, <2>1, <2>2 DEF Reporting
<1>5. ASSUME NEW u \in Users,
             PollFirst(u) \/ PollReads(u) \/ PollRows(u) \/ Departs(u) \/ AccountDeleted(u)
      PROVE  UNCHANGED events
    BY <1>5 DEF PollFirst, PollReads, PollRows, Departs, AccountDeleted
<1>6. ASSUME AlertTick \/ UNCHANGED alertVars PROVE UNCHANGED events
    BY <1>6 DEF AlertTick, alertVars
<1> QED BY <1>3, <1>4, <1>5, <1>6 DEF AlertNext

\* Who reported an event, with what key and number, is never written again: a retry
\* neither rewrites nor renumbers it, and only a deletion takes it from the clients.
THEOREM EventsAreKept == AlertSpec => [][EventsStand]_alertVars
<1>1. AlertInv /\ [AlertNext]_alertVars => [EventsStand]_alertVars
    BY RowsGrow
<1> QED BY <1>1, AlertInvHolds, PTL DEF AlertSpec

\* No two events have one number: eventSequence is written with the event, under the
\* room's compare-and-set.
Numbered == \A i, j \in DOMAIN events : events[i].seq = events[j].seq /\ events[i].seq # 0 => i = j

LEMMA NumberedStep ==
    ASSUME AlertInv, Numbered, [AlertNext]_alertVars
    PROVE  Numbered'
<1> USE DEF AlertInv
<1>1. CASE DOMAIN events' = DOMAIN events
    BY <1>1, RowsGrow DEF Numbered, EventsStand
<1>2. ASSUME NEW w \in Workers, Record(w) PROVE Numbered'
    <2>1. /\ EventsStand /\ EventsOK' /\ Len(events') = Len(events) + 1
          /\ events'[Len(events) + 1].seq \in {0, seq + 1}
        BY <1>2, RecordKeeps DEF Fresh
    <2>2. /\ Len(events) \in Nat /\ DOMAIN events = 1..Len(events) /\ seq \in Nat
          /\ \A i \in DOMAIN events : events[i].seq \in Nat /\ events[i].seq <= seq
        BY TypeParts, EventFields DEF AlertTypeOK
    <2>3. DOMAIN events' = 1..(Len(events) + 1)
        BY <2>1, LenProperties DEF EventsOK
    <2>4. ASSUME NEW i \in DOMAIN events', NEW j \in DOMAIN events',
                 events'[i].seq = events'[j].seq, events'[i].seq # 0
          PROVE  i = j
        <3>1. i \in DOMAIN events \/ i = Len(events) + 1
            BY <2>2, <2>3
        <3>2. j \in DOMAIN events \/ j = Len(events) + 1
            BY <2>2, <2>3
        <3>3. \A k \in DOMAIN events : events'[k].seq = events[k].seq /\ events'[k].seq # seq + 1
            BY <2>1, <2>2 DEF EventsStand
        <3> QED BY <2>1, <2>4, <3>1, <3>2, <3>3 DEF Numbered
    <2> QED BY <2>4 DEF Numbered
<1> QED BY <1>1, <1>2, RowsGrow

THEOREM NumbersAreDistinct == AlertSpec => []Numbered
<1>1. ASSUME AlertInit PROVE Numbered
    BY <1>1 DEF AlertInit, Numbered
<1>2. AlertInit => Numbered
    BY <1>1
<1>3. AlertInv /\ Numbered /\ [AlertNext]_alertVars => Numbered'
    BY NumberedStep
<1> QED BY <1>2, <1>3, AlertInvHolds, PTL DEF AlertSpec
=============================================================================
