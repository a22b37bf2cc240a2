---------------------------- MODULE KioskProofs ----------------------------
(***************************************************************************)
(* The device never believes nor stores tips to be submitted that the API   *)
(* has not (CacheInv): for any number of employees, any time zone, any      *)
(* number of lost answers, restarts and changes by others.  While no answer *)
(* is lost and the disk has followed whenever the app ends, the shift it    *)
(* has is the API's (SessionInv), and it has the tips that were declared on *)
(* it (TipsAccounted).                                                      *)
(***************************************************************************)
EXTENDS Kiosk, TLAPS

(* Types.  A request for tips is always a server's, for a real day.         *)
TipIsServers == tip.pc # "idle" => tip.employee \in Servers /\ tip.day \in Days

KioskTypeInv == TypeOK /\ TipIsServers

LEMMA DivisionBounds ==
  ASSUME NEW d \in Nat \ {0}, NEW a \in Int, NEW n \in Nat, -d <= a, a <= n + d
  PROVE  a \div d \in Int /\ -1 <= a \div d /\ a \div d <= n + 1
<1> DEFINE q == a \div d
           r == a % d
<1>1. q \in Int /\ r \in 0 .. (d - 1) /\ a = d * q + r
  OBVIOUS
<1> HIDE DEF q, r
<1>2. ~(q <= -2)
  <2> SUFFICES ASSUME q <= -2 PROVE FALSE
    OBVIOUS
  <2>1. d * q <= d * (-2)
    BY <1>1
  <2> QED BY <1>1, <2>1
<1>3. ~(q >= n + 2)
  <2> SUFFICES ASSUME q >= n + 2 PROVE FALSE
    OBVIOUS
  <2>1. d * q >= d * (n + 2) /\ d * (n + 2) = d * n + d * 2 /\ d * n >= n
    BY <1>1
  <2> QED BY <1>1, <2>1
<1> QED BY <1>1, <1>2, <1>3 DEF q

LEMMA DaysOfInstants == \A t \in 0 .. Last : LocalDay(t) \in Days /\ DayUTC(t) \in Days
<1> SUFFICES ASSUME NEW t \in 0 .. Last PROVE LocalDay(t) \in Days /\ DayUTC(t) \in Days
  OBVIOUS
<1>1. DayLength \in Nat \ {0} /\ Ahead \in Int /\ -DayLength <= Ahead /\ Ahead <= DayLength
      /\ Last \in Nat
  BY KioskConstants
<1>2. LocalDay(t) \in Int /\ -1 <= LocalDay(t) /\ LocalDay(t) <= Last + 1
  <2>1. t \in Int /\ -DayLength <= t /\ t <= Last + DayLength
    BY <1>1
  <2> QED BY <1>1, <2>1, DivisionBounds DEF LocalDay
<1>3. DayUTC(t) \in Int /\ -1 <= DayUTC(t) /\ DayUTC(t) <= Last + 1
  <2>1. t + Ahead \in Int /\ -DayLength <= t + Ahead /\ t + Ahead <= Last + DayLength
    BY <1>1
  <2> QED BY <1>1, <2>1, DivisionBounds DEF DayUTC
<1> QED BY <1>1, <1>2, <1>3 DEF Days

LEMMA NothingTyped == NoRefusal \in Refusals /\ NoPunch \in PunchCall /\ NoTip \in TipCall
BY KioskConstants DEF NoRefusal, NoPunch, NoTip, Refusals, PunchCall, TipCall, Somebody, Types

LEMMA FaultTyped == ASSUME faults \in 0 .. MaxFaults, Fault PROVE faults' \in 0 .. MaxFaults
BY KioskConstants DEF Fault

(* The two refusals of the device.                                          *)
LEMMA RefusalTyped ==
  ASSUME KioskTypeInv, NEW e \in Employees, RefuseOut(e) \/ RefuseIn(e)
  PROVE  KioskTypeInv'
<1>1. UNCHANGED <<now, touched, events, latest, autoOuts, tips, deleted, session, stored, removing,
                  submitted, saved, writes, bootTips, tipsAsked, pendingTip, punch, tip, boot, resolved, faults>>
  BY DEF RefuseOut, RefuseIn, worldVars, apiVars, tipVars, diskTips, shiftVars
<1>2. now \in 0 .. Last /\ pendingTip \in Days \cup {NoDay} /\ DayUTC(now) \in Days
  BY DaysOfInstants DEF KioskTypeInv, TypeOK
<1>3. refusal' \in Refusals
  <2>1. PICK kind \in {"in", "out"}, day \in Days \cup {NoDay} :
          refusal' = [kind |-> kind, employee |-> e, day |-> day, at |-> now]
    BY <1>2 DEF RefuseOut, RefuseIn
  <2> QED BY <1>2, <2>1 DEF Refusals, Somebody
<1> QED BY <1>1, <1>3 DEF KioskTypeInv, TypeOK, TipIsServers

LEMMA StartPunchTyped ==
  ASSUME KioskTypeInv, NEW e \in Employees, NEW type \in Types, StartPunch(e, type)
  PROVE  KioskTypeInv'
<1>1. /\ punch' = [NoPunch EXCEPT !.pc = "sent", !.employee = e, !.type = type,
                                  !.held = session = e]
      /\ refusal' = NoRefusal
      /\ UNCHANGED <<now, touched, events, latest, autoOuts, tips, deleted, session, stored, removing,
                     submitted, saved, writes, bootTips, tipsAsked, pendingTip, tip, boot, resolved>>
  BY DEF StartPunch, worldVars, apiVars, tipVars, diskTips, shiftVars
<1>2. punch' \in PunchCall
  <2>1. \A h \in BOOLEAN : [pc |-> "sent", employee |-> e, type |-> type, answer |-> "none",
                            day |-> NoDay, held |-> h] \in PunchCall
    BY DEF PunchCall, Somebody
  <2>2. punch' = [pc |-> "sent", employee |-> e, type |-> type, answer |-> "none",
                  day |-> NoDay, held |-> (session = e)]
    BY <1>1 DEF NoPunch
  <2> QED BY <2>1, <2>2
<1>3. faults' \in 0 .. MaxFaults
  BY FaultTyped DEF StartPunch, KioskTypeInv, TypeOK
<1> QED BY <1>1, <1>2, <1>3, NothingTyped DEF KioskTypeInv, TypeOK, TipIsServers

LEMMA ServePunchTyped == ASSUME KioskTypeInv, ServePunch PROVE KioskTypeInv'
<1>1. UNCHANGED <<now, touched, events, autoOuts, tips, deleted, session, stored, removing, submitted, saved, writes, bootTips,
                  tipsAsked, pendingTip, refusal, tip, boot, resolved, faults>>
  BY DEF ServePunch, worldVars, tipVars, diskTips, shiftVars
<1>2. punch \in PunchCall /\ latest \in [Employees -> Types]
  BY DEF KioskTypeInv, TypeOK
<1>3. PICK answer \in {"gone", "refused", "active", "pending", "tips", "ok"},
           day \in Days \cup {NoDay} : AnswerPunch(answer, day)
  BY DEF ServePunch, Owed
<1>4. punch' \in PunchCall
  BY <1>2, <1>3 DEF AnswerPunch, PunchCall
<1>5. latest' \in [Employees -> Types]
  <2>1. punch.type \in Types
    BY <1>2 DEF PunchCall
  <2>2. latest' = latest \/ latest' = [latest EXCEPT ![punch.employee] = punch.type]
    BY DEF ServePunch
  <2> QED BY <1>2, <2>1, <2>2
<1> QED BY <1>1, <1>4, <1>5 DEF KioskTypeInv, TypeOK, TipIsServers

LEMMA ApplyPunchTyped == ASSUME KioskTypeInv, ApplyPunch PROVE KioskTypeInv'
<1>1. /\ UNCHANGED <<now, touched, events, latest, autoOuts, tips, deleted, stored, submitted, saved,
                     writes, bootTips, refusal, tip, boot, faults>>
      /\ resolved' = (resolved \/ punch.answer # "error")
  BY DEF ApplyPunch, worldVars, apiVars, diskTips
<1>2. /\ punch \in PunchCall /\ session \in Somebody /\ removing \in BOOLEAN
      /\ tipsAsked \in BOOLEAN /\ pendingTip \in Days \cup {NoDay} /\ resolved \in BOOLEAN
  BY DEF KioskTypeInv, TypeOK
<1>3. /\ punch.employee \in Somebody /\ punch.day \in Days \cup {NoDay}
      /\ NoPunch \in PunchCall /\ None \in Somebody
      /\ [punch EXCEPT !.pc = "persisting"] \in PunchCall
      /\ [punch EXCEPT !.pc = "refreshing"] \in PunchCall
  BY <1>2, NothingTyped DEF PunchCall, Somebody
<1>4. resolved' \in BOOLEAN
  BY <1>1, <1>2
<1>5. session' \in {session, punch.employee, None} /\ removing' \in {removing, TRUE}
  BY DEF ApplyPunch, Cleared
<1>6. tipsAsked' \in {tipsAsked, TRUE, FALSE} /\ pendingTip' \in {pendingTip, punch.day}
  BY DEF ApplyPunch, Cleared
<1>7. punch' \in {NoPunch, [punch EXCEPT !.pc = "persisting"], [punch EXCEPT !.pc = "refreshing"]}
  BY DEF ApplyPunch, Cleared
<1>8. session' \in Somebody /\ pendingTip' \in Days \cup {NoDay}
      /\ punch' \in PunchCall
  BY <1>2, <1>3, <1>5, <1>6, <1>7
<1>9. tipsAsked' \in BOOLEAN
  BY <1>2, <1>6
<1>10. removing' \in BOOLEAN
  BY <1>2, <1>5
<1> QED BY <1>1, <1>4, <1>8, <1>9, <1>10 DEF KioskTypeInv, TypeOK, TipIsServers

LEMMA PersistedTyped == ASSUME KioskTypeInv, Persisted PROVE KioskTypeInv'
<1>1. /\ UNCHANGED <<now, touched, events, latest, autoOuts, tips, deleted, session, submitted, saved, writes, bootTips,
                     tipsAsked, refusal, tip, boot, resolved, faults>>
      /\ stored' = punch.employee /\ removing' = FALSE
      /\ pendingTip' \in {pendingTip, NoDay}
      /\ punch' \in {NoPunch, [punch EXCEPT !.pc = "refreshing"]}
  BY DEF Persisted, worldVars, apiVars, diskTips
<1>2. punch \in PunchCall /\ pendingTip \in Days \cup {NoDay}
  BY DEF KioskTypeInv, TypeOK
<1>3. punch.employee \in Somebody /\ [punch EXCEPT !.pc = "refreshing"] \in PunchCall
  BY <1>2 DEF PunchCall
<1>4. stored' \in Somebody /\ punch' \in PunchCall /\ pendingTip' \in Days \cup {NoDay}
  BY <1>1, <1>2, <1>3, NothingTyped
<1> QED BY <1>1, <1>4 DEF KioskTypeInv, TypeOK, TipIsServers

LEMMA RefreshedTyped == ASSUME KioskTypeInv, Refreshed \/ Removed PROVE KioskTypeInv'
<1>1. CASE Refreshed
  <2>1. /\ UNCHANGED <<now, touched, events, latest, autoOuts, tips, deleted, stored, submitted,
                       saved, writes, bootTips, pendingTip, refusal, tip, boot, resolved, faults>>
        /\ session' \in {session, None} /\ removing' \in {removing, TRUE}
        /\ tipsAsked' \in {tipsAsked, FALSE} /\ punch' = NoPunch
    BY <1>1 DEF Refreshed, Cleared, worldVars, apiVars, diskTips
  <2>2. session' \in Somebody
    BY <2>1 DEF KioskTypeInv, TypeOK, Somebody
  <2>3. tipsAsked' \in BOOLEAN
    BY <2>1 DEF KioskTypeInv, TypeOK
  <2>4. removing' \in BOOLEAN
    BY <2>1 DEF KioskTypeInv, TypeOK
  <2> QED BY <2>1, <2>2, <2>3, <2>4, NothingTyped DEF KioskTypeInv, TypeOK, TipIsServers
<1>2. CASE Removed
  <2>1. /\ UNCHANGED <<now, touched, events, latest, autoOuts, tips, deleted, session, submitted,
                       saved, writes, bootTips, tipsAsked, pendingTip, refusal, punch, tip, boot,
                       resolved, faults>>
        /\ stored' = None /\ removing' = FALSE
    BY <1>2 DEF Removed, worldVars, apiVars, tipVars, diskTips
  <2> QED BY <2>1 DEF KioskTypeInv, TypeOK, TipIsServers, Somebody
<1> QED BY <1>1, <1>2

LEMMA LosePunchTyped == ASSUME KioskTypeInv, LosePunch PROVE KioskTypeInv'
<1>1. /\ UNCHANGED <<now, touched, events, latest, autoOuts, tips, deleted, session, stored, removing,
                     submitted, saved, writes, bootTips, tipsAsked, pendingTip, refusal, tip, boot, resolved>>
      /\ Fault
      /\ punch' \in {[punch EXCEPT !.pc = "answered", !.answer = "error"],
                     [punch EXCEPT !.pc = "sent", !.answer = "none", !.day = NoDay]}
  BY DEF LosePunch, worldVars, apiVars, tipVars, diskTips, shiftVars
<1>2. punch \in PunchCall /\ faults \in 0 .. MaxFaults
  BY DEF KioskTypeInv, TypeOK
<1>3. /\ [punch EXCEPT !.pc = "answered", !.answer = "error"] \in PunchCall
      /\ [punch EXCEPT !.pc = "sent", !.answer = "none", !.day = NoDay] \in PunchCall
  BY <1>2 DEF PunchCall
<1>4. punch' \in PunchCall /\ faults' \in 0 .. MaxFaults
  BY <1>1, <1>2, <1>3, FaultTyped
<1> QED BY <1>1, <1>4 DEF KioskTypeInv, TypeOK, TipIsServers

(* The tips.                                                                *)
LEMMA StartTipsTyped ==
  ASSUME KioskTypeInv, NEW e \in Employees, StartTips(e)
  PROVE  KioskTypeInv'
<1>1. UNCHANGED <<now, touched, events, latest, autoOuts, tips, deleted, session, stored, removing,
                  submitted, saved, writes, bootTips, tipsAsked, refusal, punch, boot, resolved>>
  BY DEF StartTips, worldVars, apiVars, diskTips, shiftVars
<1>2. pendingTip \in Days \cup {NoDay} /\ tip \in TipCall /\ TipIsServers /\ tip.pc = "idle"
  BY DEF KioskTypeInv, TypeOK, StartTips
<1>3. TipDay \in Days /\ e \in Servers
  BY <1>2, DaysOfInstants DEF KioskTypeInv, TypeOK, TipDay, StartTips, TipsShown
<1>6. faults' \in 0 .. MaxFaults
  BY FaultTyped DEF StartTips, KioskTypeInv, TypeOK
<1>4. CASE pendingTip' = NoDay /\ tip' = tip
  BY <1>1, <1>4, <1>6 DEF KioskTypeInv, TypeOK, TipIsServers
<1>5. CASE /\ tip' = [NoTip EXCEPT !.pc = "sent", !.employee = e, !.day = TipDay,
                                   !.pending = pendingTip # NoDay]
           /\ pendingTip' = pendingTip
  <2>1. \A b \in BOOLEAN : [pc |-> "sent", employee |-> e, day |-> TipDay, pending |-> b,
                            answer |-> "none"] \in TipCall
    BY <1>3 DEF TipCall, Somebody
  <2>2. tip' = [pc |-> "sent", employee |-> e, day |-> TipDay,
                pending |-> pendingTip # NoDay, answer |-> "none"]
    BY <1>5 DEF NoTip
  <2>3. tip' \in TipCall
    BY <2>1, <2>2
  <2>4. TipIsServers'
    BY <1>3, <2>2 DEF TipIsServers
  <2> QED BY <1>1, <1>5, <1>6, <2>3, <2>4 DEF KioskTypeInv, TypeOK
<1> QED BY <1>4, <1>5 DEF StartTips

LEMMA ServeTipsTyped == ASSUME KioskTypeInv, ServeTips PROVE KioskTypeInv'
<1> DEFINE key == <<tip.employee, tip.day>>
           answer == IF tip.employee \in deleted THEN "gone"
                     ELSE IF Future(tip.day, now) THEN "future"
                     ELSE IF Old(tip.day, now) THEN "old"
                     ELSE IF key \in tips THEN "already" ELSE "ok"
<1>1. /\ UNCHANGED <<now, touched, events, latest, autoOuts, deleted, session, stored, removing, submitted, saved, writes, bootTips,
                     tipsAsked, pendingTip, refusal, punch, boot, resolved, faults>>
      /\ tip.pc = "sent"
      /\ tip' = [tip EXCEPT !.pc = "answered", !.answer = answer]
      /\ tips' = IF answer = "ok" THEN tips \cup {key} ELSE tips
  BY DEF ServeTips, worldVars, tipVars, diskTips, shiftVars
<1>2. tip \in TipCall /\ tips \subseteq Servers \X Days /\ TipIsServers
  BY DEF KioskTypeInv, TypeOK
<1>3. answer \in {"gone", "future", "old", "already", "ok"}
  OBVIOUS
<1> HIDE DEF answer
<1>4. tip' \in TipCall /\ tip'.employee = tip.employee /\ tip'.day = tip.day
  BY <1>1, <1>2, <1>3 DEF TipCall
<1>5. TipIsServers' /\ tips' \subseteq Servers \X Days
  BY <1>1, <1>2, <1>4 DEF TipIsServers
<1> QED BY <1>1, <1>4, <1>5 DEF KioskTypeInv, TypeOK

LEMMA ApplyTipsTyped == ASSUME KioskTypeInv, ApplyTips PROVE KioskTypeInv'
<1>1. /\ UNCHANGED <<now, touched, events, latest, autoOuts, tips, deleted, session, stored, removing,
                     saved, bootTips, refusal, punch, boot, faults>>
      /\ resolved' = (resolved \/ tip.answer # "error") /\ tip' = NoTip /\ tip.pc = "answered"
      /\ submitted' \in {submitted, submitted \cup Marked(tip)}
      /\ writes' = writes \/ writes' = Append(writes, submitted')
      /\ tipsAsked' \in {tipsAsked, FALSE} /\ pendingTip' \in {pendingTip, NoDay}
  BY DEF ApplyTips, Remember, worldVars, apiVars, tipVars, shiftVars
<1>2. /\ tip \in TipCall /\ submitted \subseteq Servers \X Days /\ TipIsServers
      /\ writes \in Seq(SUBSET (Servers \X Days))
      /\ tipsAsked \in BOOLEAN /\ pendingTip \in Days \cup {NoDay} /\ resolved \in BOOLEAN
  BY DEF KioskTypeInv, TypeOK
<1>3. submitted' \subseteq Servers \X Days
  BY <1>1, <1>2 DEF Marked, TipIsServers
<1>8. writes' \in Seq(SUBSET (Servers \X Days))
  BY <1>1, <1>2, <1>3
<1>4. tipsAsked' \in BOOLEAN
  BY <1>1, <1>2
<1>5. pendingTip' \in Days \cup {NoDay}
  BY <1>1, <1>2
<1>6. resolved' \in BOOLEAN
  BY <1>1, <1>2
<1>7. TipIsServers'
  BY <1>1 DEF TipIsServers, NoTip
<1> QED BY <1>1, <1>3, <1>4, <1>5, <1>6, <1>7, <1>8, NothingTyped DEF KioskTypeInv, TypeOK

LEMMA LoseTipsTyped == ASSUME KioskTypeInv, LoseTips PROVE KioskTypeInv'
<1>1. /\ UNCHANGED <<now, touched, events, latest, autoOuts, tips, deleted, session, stored, removing,
                     submitted, saved, writes, bootTips, tipsAsked, pendingTip, refusal, punch, boot, resolved>>
      /\ Fault /\ tip.pc # "idle"
      /\ tip' \in {[tip EXCEPT !.pc = "answered", !.answer = "error"],
                   [tip EXCEPT !.pc = "sent", !.answer = "none"]}
  BY DEF LoseTips, worldVars, apiVars, tipVars, diskTips, shiftVars
<1>2. tip \in TipCall /\ faults \in 0 .. MaxFaults /\ TipIsServers
  BY DEF KioskTypeInv, TypeOK
<1>3. tip' \in TipCall /\ tip'.employee = tip.employee /\ tip'.day = tip.day
  BY <1>1, <1>2 DEF TipCall
<1>4. faults' \in 0 .. MaxFaults /\ TipIsServers'
  BY <1>1, <1>2, <1>3, FaultTyped DEF TipIsServers
<1> QED BY <1>1, <1>3, <1>4 DEF KioskTypeInv, TypeOK

(* The app's own life, and the others.                                      *)
LEMMA RestartTyped ==
  ASSUME KioskTypeInv, Restart \/ RestoreShift \/ RestoreTips \/ SaveTips PROVE KioskTypeInv'
<1>1. CASE Restart
  <2>1. /\ UNCHANGED <<now, touched, events, latest, autoOuts, tips, deleted, stored, saved>>
        /\ session' = None /\ boot' = stored /\ tipsAsked' = FALSE /\ pendingTip' = NoDay
        /\ refusal' = NoRefusal /\ punch' = NoPunch /\ tip' = NoTip /\ resolved' = FALSE
        /\ removing' = FALSE /\ submitted' = {} /\ writes' = <<>>
        /\ bootTips' = [loaded |-> FALSE, tips |-> saved]
    BY <1>1 DEF Restart, worldVars, apiVars
  <2>2. faults' \in 0 .. MaxFaults
    BY <1>1, FaultTyped DEF Restart, KioskTypeInv, TypeOK
  <2>3. session' \in Somebody /\ boot' \in Somebody \cup {Loaded}
    BY <2>1 DEF KioskTypeInv, TypeOK, Somebody
  <2>4. TipIsServers'
    BY <2>1 DEF TipIsServers, NoTip
  <2>5. /\ bootTips' \in [loaded : BOOLEAN, tips : SUBSET (Servers \X Days)]
        /\ writes' \in Seq(SUBSET (Servers \X Days)) /\ submitted' \subseteq Servers \X Days
    BY <2>1 DEF KioskTypeInv, TypeOK
  <2> QED BY <2>1, <2>2, <2>3, <2>4, <2>5, NothingTyped DEF KioskTypeInv, TypeOK
<1>2. CASE RestoreShift
  <2>1. /\ UNCHANGED <<now, touched, events, latest, autoOuts, tips, deleted, stored, removing,
                       submitted, saved, writes, bootTips, tipsAsked, pendingTip, refusal, punch,
                       tip, resolved, faults>>
        /\ session' = boot /\ boot' = Loaded /\ boot # Loaded
    BY <1>2 DEF RestoreShift, worldVars, apiVars, tipVars, diskTips
  <2>2. session' \in Somebody /\ boot' \in Somebody \cup {Loaded}
    BY <2>1 DEF KioskTypeInv, TypeOK
  <2> QED BY <2>1, <2>2 DEF KioskTypeInv, TypeOK, TipIsServers
<1>3. CASE RestoreTips
  <2>1. /\ UNCHANGED <<now, touched, events, latest, autoOuts, tips, deleted, session, stored,
                       removing, saved, writes, tipsAsked, pendingTip, refusal, punch, tip, boot,
                       resolved, faults>>
        /\ submitted' \in {submitted, bootTips.tips} /\ bootTips' = [loaded |-> TRUE, tips |-> {}]
    BY <1>3 DEF RestoreTips, worldVars, apiVars, shiftVars
  <2>2. /\ bootTips' \in [loaded : BOOLEAN, tips : SUBSET (Servers \X Days)]
        /\ submitted' \subseteq Servers \X Days
    BY <2>1 DEF KioskTypeInv, TypeOK
  <2> QED BY <2>1, <2>2 DEF KioskTypeInv, TypeOK, TipIsServers
<1>4. CASE SaveTips
  <2>1. /\ UNCHANGED <<now, touched, events, latest, autoOuts, tips, deleted, session, stored,
                       removing, submitted, bootTips, tipsAsked, pendingTip, refusal, punch, tip,
                       boot, resolved, faults>>
        /\ writes # <<>> /\ saved' = Head(writes) /\ writes' = Tail(writes)
    BY <1>4 DEF SaveTips, worldVars, apiVars, shiftVars, tipVars
  <2>2. saved' \in SUBSET (Servers \X Days) /\ writes' \in Seq(SUBSET (Servers \X Days))
    BY <2>1 DEF KioskTypeInv, TypeOK
  <2> QED BY <2>1, <2>2 DEF KioskTypeInv, TypeOK, TipIsServers
<1> QED BY <1>1, <1>2, <1>3, <1>4

LEMMA OthersTyped ==
  ASSUME KioskTypeInv, NEW e \in Employees, AutoClockOut(e) \/ Delete(e) \/ TipsElsewhere(e)
  PROVE  KioskTypeInv'
<1>1. UNCHANGED <<now, session, stored, removing, submitted, saved, writes, bootTips, tipsAsked, pendingTip, refusal, punch, tip,
                  boot, resolved, faults>>
  BY DEF AutoClockOut, Delete, TipsElsewhere, tipVars, diskTips, shiftVars
<1>2. /\ events \in 0 .. MaxEvents /\ touched \subseteq Employees \X {"out", "gone", "tips"}
      /\ LocalDay(now) \in Days /\ latest \in [Employees -> Types]
      /\ autoOuts \subseteq Employees \X Days /\ tips \subseteq Servers \X Days
      /\ deleted \subseteq Employees
  BY DaysOfInstants DEF KioskTypeInv, TypeOK
<1>3. events' \in 0 .. MaxEvents /\ touched' \subseteq Employees \X {"out", "gone", "tips"}
  <2>1. PICK how \in {"out", "gone", "tips"} : Touch(e, how)
    BY DEF AutoClockOut, Delete, TipsElsewhere
  <2> QED BY <1>2, <2>1, KioskConstants DEF Touch
<1>4. latest' \in [Employees -> Types]
  <2>1. latest' = latest \/ latest' = [latest EXCEPT ![e] = "OUT"]
    BY DEF AutoClockOut, Delete, TipsElsewhere
  <2> QED BY <1>2, <2>1 DEF Types
<1>5. autoOuts' \subseteq Employees \X Days
  BY <1>2 DEF AutoClockOut, Delete, TipsElsewhere
<1>6. tips' \subseteq Servers \X Days /\ deleted' \subseteq Employees
  BY <1>2 DEF AutoClockOut, Delete, TipsElsewhere
<1> QED BY <1>1, <1>3, <1>4, <1>5, <1>6 DEF KioskTypeInv, TypeOK, TipIsServers

LEMMA TickTyped == ASSUME KioskTypeInv, Tick PROVE KioskTypeInv'
<1>1. now' \in 0 .. Last
  BY KioskConstants DEF Tick, KioskTypeInv, TypeOK
<1> QED BY <1>1 DEF Tick, apiVars, shiftVars, tipVars, diskTips, KioskTypeInv, TypeOK, TipIsServers

LEMMA KioskTypeStep == ASSUME KioskTypeInv, [Next]_vars PROVE KioskTypeInv'
<1>1. CASE UNCHANGED vars
  BY <1>1 DEF vars, KioskTypeInv, TypeOK, TipIsServers
<1>2. CASE PunchStep
  BY <1>2, RefusalTyped, StartPunchTyped, ServePunchTyped, ApplyPunchTyped, PersistedTyped,
     RefreshedTyped, LosePunchTyped DEF PunchStep
<1>4. CASE Restart \/ RestoreShift \/ RestoreTips \/ SaveTips
  BY <1>4, RestartTyped
<1>7. CASE TipStep
  BY <1>4, <1>7, StartTipsTyped, ServeTipsTyped, ApplyTipsTyped, LoseTipsTyped DEF TipStep
<1>5. CASE Others
  BY <1>5, OthersTyped DEF Others
<1>6. CASE Tick
  BY <1>6, TickTyped
<1> QED BY <1>1, <1>2, <1>4, <1>5, <1>6, <1>7 DEF Next

LEMMA InitKioskTypes == Init => KioskTypeInv
<1> SUFFICES ASSUME Init PROVE KioskTypeInv
  OBVIOUS
<1>1. /\ now = 0 /\ latest = [e \in Employees |-> "OUT"] /\ autoOuts = {} /\ tips = {}
      /\ deleted = {} /\ session = None /\ stored = None /\ removing = FALSE
      /\ submitted = {} /\ saved = {} /\ writes = <<>>
      /\ bootTips = [loaded |-> FALSE, tips |-> {}]
      /\ tipsAsked = FALSE /\ pendingTip = NoDay /\ refusal = NoRefusal
      /\ punch = NoPunch /\ tip = NoTip /\ boot = None /\ resolved = FALSE
      /\ touched = {} /\ faults = 0 /\ events = 0
  BY DEF Init
<1>2. TipIsServers
  BY <1>1 DEF TipIsServers, NoTip
<1>3. 0 \in 0 .. Last /\ 0 \in 0 .. MaxFaults /\ 0 \in 0 .. MaxEvents
  BY KioskConstants
<1>4. latest \in [Employees -> Types]
  BY <1>1 DEF Types
<1>5. /\ writes \in Seq(SUBSET (Servers \X Days))
      /\ bootTips \in [loaded : BOOLEAN, tips : SUBSET (Servers \X Days)]
  BY <1>1
<1> QED BY <1>5, <1>1, <1>2, <1>3, <1>4, NothingTyped DEF KioskTypeInv, TypeOK, Somebody

(* The rows of the API, the memory and the disk of the device, its handlers *)
(* and the days they speak of keep their types; the days are those around   *)
(* the instants of the run, in any time zone.                               *)
THEOREM KioskTypes == Spec => []TypeOK
<1>1. Init => KioskTypeInv
  BY InitKioskTypes
<1>2. KioskTypeInv /\ [Next]_vars => KioskTypeInv'
  BY KioskTypeStep
<1>3. KioskTypeInv => TypeOK
  BY DEF KioskTypeInv
<1> QED BY <1>1, <1>2, <1>3, PTL DEF Spec

----------------------------------------------------------------------------
(* An answer that makes the device remember a day speaks of tips that the  *)
(* API has, whatever has happened since it was given.                      *)
AnswerIsTrue == tip.answer \in {"ok", "already"} => <<tip.employee, tip.day>> \in tips

TipIsCall ==
    tip = [pc |-> tip.pc, employee |-> tip.employee, day |-> tip.day,
           pending |-> tip.pending, answer |-> tip.answer]

CacheInv == CacheIsTrue /\ AnswerIsTrue /\ TipIsCall

(* Nobody takes tips back: an answer and a cache stay true while the tips   *)
(* only grow and neither of them changes.                                   *)
LEMMA TipsStay ==
  ASSUME CacheInv, tips \subseteq tips', UNCHANGED <<submitted, saved, writes, bootTips, tip>>
  PROVE  CacheInv'
BY DEF CacheInv, CacheIsTrue, AnswerIsTrue, TipIsCall

(* The API gives the two answers only for tips that are in its table when   *)
(* it has answered.                                                         *)
LEMMA ServeTipsTrue == ASSUME CacheInv, ServeTips PROVE CacheInv'
<1> DEFINE key == <<tip.employee, tip.day>>
           answer == IF tip.employee \in deleted THEN "gone"
                     ELSE IF Future(tip.day, now) THEN "future"
                     ELSE IF Old(tip.day, now) THEN "old"
                     ELSE IF key \in tips THEN "already" ELSE "ok"
<1>1. /\ tip' = [tip EXCEPT !.pc = "answered", !.answer = answer]
      /\ tips' = IF answer = "ok" THEN tips \cup {key} ELSE tips
      /\ UNCHANGED <<submitted, saved, writes, bootTips>>
  BY DEF ServeTips, tipVars, diskTips
<1>2. answer = "already" => key \in tips
  OBVIOUS
<1>3. TipIsCall' /\ tip'.employee = tip.employee /\ tip'.day = tip.day /\ tip'.answer = answer
  <2> HIDE DEF answer
  <2> QED BY <1>1 DEF CacheInv, TipIsCall
<1>4. CacheIsTrue'
  BY <1>1 DEF CacheInv, CacheIsTrue
<1>5. answer \in {"ok", "already"} => key \in tips'
  BY <1>1, <1>2
<1> QED BY <1>3, <1>4, <1>5 DEF CacheInv, AnswerIsTrue

(* What the device remembers from an answer is what the answer was about.   *)
LEMMA ApplyTipsTrue == ASSUME KioskTypeInv, CacheInv, ApplyTips PROVE CacheInv'
<1>1. tips' = tips /\ tip' = NoTip /\ saved' = saved /\ bootTips' = bootTips
  BY DEF ApplyTips, apiVars
<1>2. AnswerIsTrue' /\ TipIsCall'
  BY <1>1 DEF AnswerIsTrue, TipIsCall, NoTip
<1>3. CASE tip.answer \in {"ok", "already"}
  <2>1. /\ submitted' = submitted \cup {<<tip.employee, tip.day>>}
        /\ writes' = writes \/ writes' = Append(writes, submitted')
    BY <1>3 DEF ApplyTips, Remember, Marked
  <2>2. submitted' \subseteq tips'
    BY <1>1, <1>3, <2>1 DEF CacheInv, CacheIsTrue, AnswerIsTrue
  <2>3. \A i \in DOMAIN writes' : writes'[i] \subseteq tips'
    <3>1. writes \in Seq(SUBSET (Servers \X Days)) /\ \A i \in DOMAIN writes : writes[i] \subseteq tips
      BY DEF KioskTypeInv, TypeOK, CacheInv, CacheIsTrue
    <3>2. CASE writes' = writes BY <1>1, <3>1, <3>2
    <3>3. CASE writes' = Append(writes, submitted')
      <4> SUFFICES ASSUME NEW i \in DOMAIN writes' PROVE writes'[i] \subseteq tips'
        OBVIOUS
      <4>1. i \in 1 .. Len(writes) \/ i = Len(writes) + 1
        BY <3>1, <3>3
      <4>2. CASE i \in 1 .. Len(writes)
        <5>1. writes'[i] = writes[i] /\ i \in DOMAIN writes
          BY <3>1, <3>3, <4>2
        <5> QED BY <1>1, <3>1, <5>1
      <4>3. CASE i = Len(writes) + 1
        <5>1. writes'[i] = submitted'
          BY <3>1, <3>3, <4>3
        <5> QED BY <2>2, <5>1
      <4> QED BY <4>1, <4>2, <4>3
    <3> QED BY <2>1, <3>2, <3>3
  <2> QED BY <1>1, <1>2, <2>2, <2>3 DEF CacheInv, CacheIsTrue
<1>4. CASE tip.answer \notin {"ok", "already"}
  <2>1. submitted' = submitted /\ writes' = writes
    BY <1>4 DEF ApplyTips, tipVars
  <2> QED BY <1>1, <1>2, <2>1 DEF CacheInv, CacheIsTrue
<1> QED BY <1>3, <1>4

(* A handler that starts, and a request that is lost or sent again, carry   *)
(* no answer that would be remembered.                                      *)
LEMMA NewCallTrue ==
  ASSUME CacheInv, tips' = tips, UNCHANGED <<submitted, saved, writes, bootTips>>,
         TipIsCall', tip'.answer \notin {"ok", "already"}
  PROVE  CacheInv'
BY DEF CacheInv, CacheIsTrue, AnswerIsTrue

(* The disk gets what was in memory, and memory what was on disk.           *)
LEMMA DiskTrue ==
  ASSUME KioskTypeInv, CacheInv, SaveTips \/ RestoreTips \/ Restart PROVE CacheInv'
<1>1. CASE SaveTips
  <2>1. /\ UNCHANGED <<tips, tip, submitted, bootTips>> /\ writes # <<>>
        /\ saved' = Head(writes) /\ writes' = Tail(writes)
    BY <1>1 DEF SaveTips, apiVars, tipVars
  <2>2. writes \in Seq(SUBSET (Servers \X Days)) /\ \A i \in DOMAIN writes : writes[i] \subseteq tips
    BY DEF KioskTypeInv, TypeOK, CacheInv, CacheIsTrue
  <2>3. saved' \subseteq tips
    <3>1. saved' = writes[1] /\ 1 \in DOMAIN writes
      BY <2>1, <2>2
    <3> QED BY <2>2, <3>1
  <2>4. ASSUME NEW i \in DOMAIN writes' PROVE writes'[i] \subseteq tips
    <3>1. writes'[i] = writes[i + 1] /\ i + 1 \in DOMAIN writes
      BY <2>1, <2>2
    <3> QED BY <2>2, <3>1
  <2> QED BY <2>1, <2>3, <2>4 DEF CacheInv, CacheIsTrue, AnswerIsTrue, TipIsCall
<1>2. CASE RestoreTips
  <2>1. /\ UNCHANGED <<tips, tip, saved, writes>> /\ submitted' \in {submitted, bootTips.tips}
        /\ bootTips'.tips = {}
    BY <1>2 DEF RestoreTips, apiVars
  <2> QED BY <2>1 DEF CacheInv, CacheIsTrue, AnswerIsTrue, TipIsCall
<1>3. CASE Restart
  <2>1. /\ UNCHANGED <<tips, saved>> /\ submitted' = {} /\ tip' = NoTip
        /\ bootTips' = [loaded |-> FALSE, tips |-> saved] /\ writes' = <<>>
    BY <1>3 DEF Restart, apiVars
  <2>2. TipIsCall' /\ tip'.answer = "none"
    BY <2>1 DEF TipIsCall, NoTip
  <2>3. CacheIsTrue'
    BY <2>1 DEF CacheInv, CacheIsTrue
  <2> QED BY <2>2, <2>3 DEF CacheInv, AnswerIsTrue
<1> QED BY <1>1, <1>2, <1>3

(* The steps of handlePunch leave the tips to themselves.                   *)
LEMMA PunchKeepsTips ==
  ASSUME PunchStep
  PROVE  /\ UNCHANGED <<tips, tip, submitted, saved, writes, bootTips, touched>>
         /\ faults' = faults \/ Fault
<1>1. ASSUME NEW e \in Employees, RefuseOut(e) \/ RefuseIn(e)
      PROVE  UNCHANGED <<tips, tip, submitted, saved, writes, bootTips, touched, faults>>
  BY <1>1 DEF RefuseOut, RefuseIn, apiVars, tipVars, diskTips, worldVars
<1>2. ASSUME NEW e \in Employees, NEW type \in Types, StartPunch(e, type)
      PROVE  /\ UNCHANGED <<tips, tip, submitted, saved, writes, bootTips, touched>>
             /\ faults' = faults \/ Fault
  BY <1>2 DEF StartPunch, apiVars, tipVars, diskTips, worldVars
<1>3. ServePunch => UNCHANGED <<tips, tip, submitted, saved, writes, bootTips, touched, faults>>
  BY DEF ServePunch, tipVars, diskTips, worldVars
<1>4. ApplyPunch => UNCHANGED <<tips, tip, submitted, saved, writes, bootTips, touched, faults>>
  BY DEF ApplyPunch, apiVars, diskTips, worldVars
<1>5. Persisted \/ Refreshed => UNCHANGED <<tips, tip, submitted, saved, writes, bootTips, touched, faults>>
  BY DEF Persisted, Refreshed, apiVars, diskTips, worldVars
<1>6. Removed => UNCHANGED <<tips, tip, submitted, saved, writes, bootTips, touched, faults>>
  BY DEF Removed, apiVars, tipVars, diskTips, worldVars
<1>7. LosePunch => /\ UNCHANGED <<tips, tip, submitted, saved, writes, bootTips, touched>> /\ Fault
  BY DEF LosePunch, apiVars, tipVars, diskTips, worldVars
<1> QED BY <1>1, <1>2, <1>3, <1>4, <1>5, <1>6, <1>7 DEF PunchStep

LEMMA CacheStep == ASSUME KioskTypeInv, CacheInv, [Next]_vars PROVE CacheInv'
<1>1. CASE ServeTips BY <1>1, ServeTipsTrue
<1>2. CASE ApplyTips BY <1>2, ApplyTipsTrue
<1>3. CASE LoseTips
  <2>1. tips' = tips /\ UNCHANGED <<submitted, saved, writes, bootTips>>
    BY <1>3 DEF LoseTips, apiVars, tipVars, diskTips
  <2>2. \/ tip' = [tip EXCEPT !.pc = "answered", !.answer = "error"]
        \/ tip' = [tip EXCEPT !.pc = "sent", !.answer = "none"]
    BY <1>3 DEF LoseTips
  <2>3. TipIsCall' /\ tip'.answer \notin {"ok", "already"}
    BY <2>2 DEF CacheInv, TipIsCall
  <2> QED BY <2>1, <2>3, NewCallTrue
<1>4. ASSUME NEW e \in Employees, StartTips(e) PROVE CacheInv'
  <2>1. tips' = tips /\ UNCHANGED <<submitted, saved, writes, bootTips>>
    BY <1>4 DEF StartTips, apiVars, diskTips
  <2>2. CASE tip' = tip BY <2>1, <2>2, TipsStay
  <2>3. CASE tip' = [NoTip EXCEPT !.pc = "sent", !.employee = e, !.day = TipDay,
                                  !.pending = pendingTip # NoDay]
    <3>1. TipIsCall' /\ tip'.answer = "none"
      BY <2>3 DEF TipIsCall, NoTip
    <3> QED BY <2>1, <3>1, NewCallTrue
  <2> QED BY <1>4, <2>2, <2>3 DEF StartTips
<1>5. CASE SaveTips \/ RestoreTips \/ Restart BY <1>5, DiskTrue
<1>6. CASE PunchStep
  <2>1. tips' = tips /\ UNCHANGED <<submitted, saved, writes, bootTips, tip>>
    BY <1>6, PunchKeepsTips
  <2> QED BY <2>1, TipsStay
<1>7. CASE RestoreShift \/ Others \/ Tick
  <2>1. tips \subseteq tips' /\ UNCHANGED <<submitted, saved, writes, bootTips, tip>>
    BY <1>7 DEF RestoreShift, Others, Tick, AutoClockOut, Delete, TipsElsewhere, apiVars, tipVars,
                diskTips
  <2> QED BY <2>1, TipsStay
<1>8. CASE UNCHANGED vars
  <2>1. tips' = tips /\ UNCHANGED <<submitted, saved, writes, bootTips, tip>>
    BY <1>8 DEF vars
  <2> QED BY <2>1, TipsStay
<1>9. TipStep => ServeTips \/ ApplyTips \/ SaveTips \/ LoseTips \/ \E e \in Employees : StartTips(e)
  BY DEF TipStep
<1>10. Next => PunchStep \/ TipStep \/ (RestoreTips \/ Restart) \/ (RestoreShift \/ Others \/ Tick)
  BY DEF Next
<1>11. CASE Next BY <1>1, <1>2, <1>3, <1>4, <1>5, <1>6, <1>7, <1>9, <1>10, <1>11
<1> QED BY <1>8, <1>11

(* The tips that handleSubmitTips has marked on the device, those on its    *)
(* disk and those on their way between the two are in the API's table,      *)
(* whatever gets lost, restarts or passes midnight.                         *)
THEOREM CacheAlwaysTrue == Spec => []CacheIsTrue
<1>1. Init => CacheInv
  <2> SUFFICES ASSUME Init PROVE CacheInv
    OBVIOUS
  <2>1. /\ tip = NoTip /\ submitted = {} /\ tips = {} /\ saved = {} /\ writes = <<>>
        /\ bootTips = [loaded |-> FALSE, tips |-> {}]
    BY DEF Init
  <2>2. TipIsCall /\ tip.answer = "none"
    BY <2>1 DEF TipIsCall, NoTip
  <2> QED BY <2>1, <2>2 DEF CacheInv, CacheIsTrue, AnswerIsTrue
<1>2. KioskTypeInv /\ CacheInv /\ [Next]_vars => CacheInv'
  BY CacheStep
<1>3. CacheInv => CacheIsTrue
  BY DEF CacheInv
<1>4. Init => KioskTypeInv
  BY InitKioskTypes
<1>5. KioskTypeInv /\ [Next]_vars => KioskTypeInv'
  BY KioskTypeStep
<1> QED BY <1>1, <1>2, <1>3, <1>4, <1>5, PTL DEF Spec

----------------------------------------------------------------------------
(* The session.  The inductive invariant says who has it at every await of  *)
(* handlePunch, what is on disk, and what it is to be when a removal that   *)
(* has been asked for is carried out.                                       *)

Untouched(e) == \A how \in {"out", "gone", "tips"} : <<e, how>> \notin touched

(* The shift the device has, or will have when it has read its disk.        *)
Holder == IF boot = Loaded THEN session ELSE boot

(* Whether the API has taken e's punch and the device is still at it.       *)
Taken(e) ==
    /\ punch.employee = e
    /\ \/ punch.pc \in {"persisting", "refreshing"}
       \/ punch.pc = "answered" /\ punch.answer \in {"ok", "active"}

Fits(e) ==
    /\ Holder = e => latest[e] \in Active
    /\ latest[e] = "IN" => Holder = e

Told(e) ==
    /\ punch.pc = "answered" =>
         IF punch.answer = "ok" THEN latest[e] = punch.type ELSE latest[e] \in Active
    /\ punch.pc = "persisting" =>
         IF punch.answer = "ok" THEN latest[e] = punch.type ELSE latest[e] \in Active
    /\ punch.pc = "refreshing" => latest[e] = punch.type

PunchIsCall ==
    /\ punch = [pc |-> punch.pc, employee |-> punch.employee, type |-> punch.type,
                answer |-> punch.answer, day |-> punch.day, held |-> punch.held]
    /\ punch.pc \in {"idle", "sent", "answered", "persisting", "refreshing"}
    /\ punch.type \in Types

Tables ==
    /\ latest \in [Employees -> Types] /\ faults \in Nat /\ PunchIsCall
    /\ \A e \in deleted : <<e, "gone">> \in touched
    /\ punch.pc = "answered" /\ punch.answer = "gone" => <<punch.employee, "gone">> \in touched

Device ==
    /\ boot # Loaded => punch.pc = "idle" /\ session = None /\ ~removing
    /\ punch.pc # "idle" => punch.employee \in Employees /\ session \in {punch.employee, None}
    /\ punch.pc # "persisting" /\ ~removing => stored = Holder
    /\ removing => Holder = None \/ punch.pc = "persisting"
    /\ punch.pc = "persisting" \/ (punch.pc = "refreshing" /\ punch.type = "IN")
         => session = punch.employee
    /\ Holder \in Somebody

Truth(e) == Untouched(e) => (Fits(e) \/ Taken(e)) /\ (Taken(e) => Told(e))

SessionInv ==
    /\ Tables
    /\ faults = 0 => Device /\ \A e \in Employees : Truth(e)

(* Steps of the others, and of the tips, leave the session to itself.       *)
LEMMA QuietStep ==
  ASSUME SessionInv, UNCHANGED <<deleted, session, stored, removing, punch, boot>>,
         touched \subseteq touched', faults' \in Nat, faults' = 0 => faults = 0,
         latest' \in [Employees -> Types],
         \A e \in Employees : Untouched(e)' => latest'[e] = latest[e]
  PROVE  SessionInv'
<1>1. Tables'
  BY DEF SessionInv, Tables, PunchIsCall
<1>2. ASSUME faults' = 0 PROVE Device'
  BY <1>2 DEF SessionInv, Device, Holder
<1>3. ASSUME faults' = 0, NEW e \in Employees, Untouched(e)' PROVE (Fits(e) \/ Taken(e))' /\ (Taken(e) => Told(e))'
  <2>1. Untouched(e) /\ latest'[e] = latest[e] /\ faults = 0
    BY <1>3 DEF Untouched
  <2>2. (Fits(e) \/ Taken(e)) /\ (Taken(e) => Told(e))
    BY <2>1 DEF SessionInv, Truth
  <2> QED BY <2>1, <2>2 DEF Fits, Taken, Told, Holder
<1> QED BY <1>1, <1>2, <1>3 DEF SessionInv, Truth

(* What a step of handlePunch has to show: the others are where they were.  *)
LEMMA HandlerStep ==
  ASSUME SessionInv, Tables', UNCHANGED <<deleted, touched, boot>>,
         faults' = 0 => faults = 0,
         faults = 0 => Device',
         \A e \in Employees : faults = 0 /\ Untouched(e) => (Fits(e) \/ Taken(e))' /\ (Taken(e) => Told(e))'
  PROVE  SessionInv'
BY DEF SessionInv, Truth, Untouched

LEMMA StartPunchStep ==
  ASSUME SessionInv, NEW e \in Employees, NEW type \in Types, StartPunch(e, type) PROVE SessionInv'
<1>1. /\ UNCHANGED <<deleted, touched, boot, latest, session, stored, removing>> /\ punch.pc = "idle"
      /\ punch' = [NoPunch EXCEPT !.pc = "sent", !.employee = e, !.type = type, !.held = session = e]
  BY DEF StartPunch, apiVars, worldVars, shiftVars
<1>2. faults' \in Nat /\ (faults' = 0 => faults = 0 /\ boot = Loaded)
  BY DEF StartPunch, SessionInv, Tables, Fault
<1>3. punch' = [pc |-> "sent", employee |-> e, type |-> type, answer |-> "none", day |-> NoDay,
               held |-> session = e]
  BY <1>1 DEF NoPunch
<1>4. Tables'
  BY <1>1, <1>2, <1>3 DEF SessionInv, Tables, PunchIsCall
<1>5. ASSUME faults' = 0 PROVE Device'
  BY <1>1, <1>2, <1>3, <1>5 DEF SessionInv, Device, Holder, StartPunch, Selected
<1>6. ASSUME faults' = 0, NEW x \in Employees, Untouched(x)'
      PROVE  (Fits(x) \/ Taken(x))' /\ (Taken(x) => Told(x))'
  <2>1. Fits(x)
    BY <1>1, <1>2, <1>6 DEF SessionInv, Truth, Untouched, Taken
  <2> QED BY <1>1, <1>3, <2>1 DEF Fits, Taken, Holder
<1> QED BY <1>4, <1>5, <1>6 DEF SessionInv, Truth

LEMMA ServePunchStep == ASSUME SessionInv, ServePunch PROVE SessionInv'
<1> DEFINE p == punch.employee
<1>1. UNCHANGED <<deleted, touched, boot, session, stored, removing, faults>> /\ punch.pc = "sent"
  BY DEF ServePunch, worldVars, shiftVars
<1>2. PICK answer \in {"gone", "refused", "active", "pending", "tips", "ok"},
           day \in Days \cup {NoDay} : AnswerPunch(answer, day)
  BY DEF ServePunch, Owed
<1>3. punch' = [pc |-> "answered", employee |-> p, type |-> punch.type, answer |-> answer, day |-> day,
               held |-> punch.held]
  BY <1>2 DEF AnswerPunch, SessionInv, Tables, PunchIsCall
<1>4. \/ answer = "gone" /\ p \in deleted /\ latest' = latest
      \/ answer \in {"refused", "pending", "tips"} /\ latest' = latest
      \/ answer = "active" /\ latest[p] \in Active /\ latest' = latest
      \/ answer = "ok" /\ latest' = [latest EXCEPT ![p] = punch.type]
  <2>1. ASSUME NEW a, NEW d, AnswerPunch(a, d) PROVE punch'.answer = a
    <3>1. punch' = [punch EXCEPT !.pc = "answered", !.answer = a, !.day = d]
      BY <2>1 DEF AnswerPunch
    <3>2. punch' = [pc |-> "answered", employee |-> p, type |-> punch.type, answer |-> a, day |-> d,
                   held |-> punch.held]
      BY <3>1 DEF SessionInv, Tables, PunchIsCall
    <3> QED BY <3>2
  <2>2. punch'.answer = answer
    BY <1>3
  <2>3. \/ punch'.answer = "gone" /\ p \in deleted /\ latest' = latest
        \/ punch'.answer \in {"refused", "pending", "tips"} /\ latest' = latest
        \/ punch'.answer = "active" /\ latest[p] \in Active /\ latest' = latest
        \/ punch'.answer = "ok" /\ latest' = [latest EXCEPT ![p] = punch.type]
    BY <2>1 DEF ServePunch
  <2> QED BY <2>2, <2>3
<1>5. Tables'
  BY <1>1, <1>3, <1>4 DEF SessionInv, Tables, PunchIsCall
<1>6. ASSUME faults = 0 PROVE Device'
  BY <1>1, <1>3, <1>6 DEF SessionInv, Device, Holder
<1>7. ASSUME NEW e \in Employees, faults = 0, Untouched(e)
      PROVE  (Fits(e) \/ Taken(e))' /\ (Taken(e) => Told(e))'
  <2>1. Fits(e) /\ p \in Employees
    BY <1>1, <1>7 DEF SessionInv, Truth, Taken, Device
  <2>2. CASE e = p /\ answer = "ok"
    <3>1. latest'[e] = punch.type
      BY <1>4, <2>1, <2>2 DEF SessionInv, Tables
    <3> QED BY <1>3, <2>2, <3>1 DEF Taken, Told
  <2>3. CASE e = p /\ answer = "active"
    BY <1>3, <1>4, <2>3 DEF Taken, Told
  <2>4. CASE e # p \/ answer \notin {"ok", "active"}
    <3>1. latest'[e] = latest[e] /\ ~Taken(e)'
      BY <1>3, <1>4, <2>1, <2>4 DEF SessionInv, Tables, Taken
    <3> QED BY <1>1, <2>1, <3>1 DEF Fits, Holder
  <2> QED BY <2>2, <2>3, <2>4
<1> QED BY <1>1, <1>5, <1>6, <1>7, HandlerStep

LEMMA ApplyPunchStep == ASSUME SessionInv, ApplyPunch PROVE SessionInv'
<1> DEFINE p == punch.employee
<1>1. UNCHANGED <<deleted, touched, boot, latest, stored, faults>> /\ punch.pc = "answered"
  BY DEF ApplyPunch, worldVars, apiVars
<1>2. \/ punch.answer \in {"ok", "active"} /\ session' = p /\ removing' = removing
           /\ punch' = [punch EXCEPT !.pc = "persisting"]
      \/ punch.answer = "ok" /\ punch.type # "IN" /\ UNCHANGED <<session, removing>>
           /\ punch' = [punch EXCEPT !.pc = "refreshing"]
      \/ punch.answer = "gone" /\ session' = None /\ removing' = TRUE /\ punch' = NoPunch
      \/ punch.answer \notin {"ok", "active"} /\ UNCHANGED <<session, removing>> /\ punch' = NoPunch
  BY DEF ApplyPunch, Cleared
<1>3. CASE punch.answer \in {"ok", "active"} /\ session' = p /\ removing' = removing
             /\ punch' = [punch EXCEPT !.pc = "persisting"]
  <2>1. punch' = [pc |-> "persisting", employee |-> p, type |-> punch.type, answer |-> punch.answer,
                  day |-> punch.day, held |-> punch.held]
    BY <1>3 DEF SessionInv, Tables, PunchIsCall
  <2>2. Tables'
    BY <1>1, <1>3, <2>1 DEF SessionInv, Tables, PunchIsCall
  <2>3. ASSUME faults = 0 PROVE Device'
    BY <1>1, <1>3, <2>1, <2>3 DEF SessionInv, Device, Holder, Somebody
  <2>4. ASSUME NEW e \in Employees, faults = 0, Untouched(e)
        PROVE  (Fits(e) \/ Taken(e))' /\ (Taken(e) => Told(e))'
    <3>1. CASE e = p
      BY <1>1, <1>3, <2>1, <2>4, <3>1 DEF SessionInv, Truth, Taken, Told
    <3>2. CASE e # p
      BY <1>1, <1>3, <2>1, <2>4, <3>2, KioskConstants
         DEF SessionInv, Truth, Taken, Fits, Holder, Device
    <3> QED BY <3>1, <3>2
  <2> QED BY <1>1, <2>2, <2>3, <2>4, HandlerStep
<1>4. CASE punch.answer = "ok" /\ punch.type # "IN" /\ UNCHANGED <<session, removing>>
             /\ punch' = [punch EXCEPT !.pc = "refreshing"]
  <2>1. punch' = [pc |-> "refreshing", employee |-> p, type |-> punch.type, answer |-> "ok",
                  day |-> punch.day, held |-> punch.held]
    BY <1>4 DEF SessionInv, Tables, PunchIsCall
  <2>2. Tables'
    BY <1>1, <2>1 DEF SessionInv, Tables, PunchIsCall
  <2>3. ASSUME faults = 0 PROVE Device'
    BY <1>1, <1>4, <2>1, <2>3 DEF SessionInv, Device, Holder
  <2>4. ASSUME NEW e \in Employees, faults = 0, Untouched(e)
        PROVE  (Fits(e) \/ Taken(e))' /\ (Taken(e) => Told(e))'
    BY <1>1, <1>4, <2>1, <2>4 DEF SessionInv, Truth, Taken, Told, Fits, Holder
  <2> QED BY <1>1, <2>2, <2>3, <2>4, HandlerStep
<1>5. CASE /\ punch.answer \notin {"ok", "active"} /\ punch' = NoPunch
           /\ \/ punch.answer = "gone" /\ session' = None /\ removing' = TRUE
              \/ UNCHANGED <<session, removing>>
  <2>2. Tables'
    BY <1>1, <1>5 DEF SessionInv, Tables, PunchIsCall, NoPunch, Types
  <2>3. ASSUME faults = 0 PROVE Device'
    BY <1>1, <1>5, <2>3 DEF SessionInv, Device, Holder, NoPunch, Somebody
  <2>4. ASSUME NEW e \in Employees, faults = 0, Untouched(e)
        PROVE  (Fits(e) \/ Taken(e))' /\ (Taken(e) => Told(e))'
    <3>1. Fits(e) /\ ~Taken(e)'
      BY <1>1, <1>5, <2>4 DEF SessionInv, Truth, Taken, NoPunch
    <3>2. boot = Loaded /\ session \in {p, None}
      BY <1>1, <2>4 DEF SessionInv, Device
    <3>3. CASE punch.answer = "gone"
      <4>1. e # p
        BY <1>1, <2>4, <3>3 DEF SessionInv, Tables, Untouched
      <4> QED BY <1>1, <1>5, <3>1, <3>2, <4>1, KioskConstants DEF Fits, Holder
    <3>4. CASE UNCHANGED <<session, removing>>
      BY <1>1, <3>1, <3>4 DEF Fits, Holder
    <3> QED BY <1>5, <3>3, <3>4
  <2> QED BY <1>1, <2>2, <2>3, <2>4, HandlerStep
<1> QED BY <1>2, <1>3, <1>4, <1>5

LEMMA PersistedStep == ASSUME SessionInv, Persisted PROVE SessionInv'
<1> DEFINE p == punch.employee
<1>1. /\ UNCHANGED <<deleted, touched, boot, latest, faults, session>> /\ punch.pc = "persisting"
      /\ stored' = p /\ removing' = FALSE
      /\ punch' = IF punch.answer = "ok" THEN [punch EXCEPT !.pc = "refreshing"] ELSE NoPunch
  BY DEF Persisted, worldVars, apiVars
<1>2. punch.answer = "ok" =>
        punch' = [pc |-> "refreshing", employee |-> p, type |-> punch.type, answer |-> "ok",
                  day |-> punch.day, held |-> punch.held]
  BY <1>1 DEF SessionInv, Tables, PunchIsCall
<1>3. punch.answer # "ok" => punch' = NoPunch
  BY <1>1
<1>4. Tables'
  BY <1>1, <1>2, <1>3 DEF SessionInv, Tables, PunchIsCall, NoPunch, Types
<1>5. ASSUME faults = 0 PROVE Device'
  BY <1>1, <1>2, <1>3, <1>5 DEF SessionInv, Device, Holder, NoPunch, Somebody
<1>6. ASSUME NEW e \in Employees, faults = 0, Untouched(e)
      PROVE  (Fits(e) \/ Taken(e))' /\ (Taken(e) => Told(e))'
  <2>1. boot = Loaded /\ session = p
    BY <1>1, <1>6 DEF SessionInv, Device
  <2>2. CASE e = p
    BY <1>1, <1>2, <1>3, <1>6, <2>1, <2>2 DEF SessionInv, Truth, Taken, Told, Fits, Holder, NoPunch
  <2>3. CASE e # p
    BY <1>1, <1>2, <1>3, <1>6, <2>1, <2>3 DEF SessionInv, Truth, Taken, Fits, Holder, NoPunch
  <2> QED BY <2>2, <2>3
<1> QED BY <1>1, <1>4, <1>5, <1>6, HandlerStep

LEMMA RefreshedStep == ASSUME SessionInv, Refreshed PROVE SessionInv'
<1> DEFINE p == punch.employee
<1>1. /\ UNCHANGED <<deleted, touched, boot, latest, stored, faults>>
      /\ punch.pc = "refreshing" /\ punch' = NoPunch
      /\ IF punch.type = "OUT" THEN session' = None /\ removing' = TRUE
                               ELSE UNCHANGED <<session, removing>>
  BY DEF Refreshed, Cleared, worldVars, apiVars
<1>2. Tables'
  BY <1>1 DEF SessionInv, Tables, PunchIsCall, NoPunch, Types
<1>3. ASSUME faults = 0 PROVE Device'
  BY <1>1, <1>3 DEF SessionInv, Device, Holder, NoPunch, Somebody
<1>4. ASSUME NEW e \in Employees, faults = 0, Untouched(e)
      PROVE  (Fits(e) \/ Taken(e))' /\ (Taken(e) => Told(e))'
  <2>1. boot = Loaded /\ session \in {p, None} /\ (punch.type = "IN" => session = p) /\ punch.type \in Types
    BY <1>1, <1>4 DEF SessionInv, Device, Tables, PunchIsCall
  <2>2. ~Taken(e)'
    BY <1>1 DEF Taken, NoPunch
  <2>3. CASE e = p
    <3>1. latest[e] = punch.type
      BY <1>1, <1>4, <2>3 DEF SessionInv, Truth, Taken, Told
    <3> QED BY <1>1, <2>1, <2>2, <2>3, <3>1, KioskConstants DEF Fits, Holder, Types, Active
  <2>4. CASE e # p
    <3>1. Fits(e)
      BY <1>4, <2>4 DEF SessionInv, Truth, Taken
    <3> QED BY <1>1, <2>1, <2>2, <2>4, <3>1, KioskConstants DEF Fits, Holder
  <2> QED BY <2>3, <2>4
<1> QED BY <1>1, <1>2, <1>3, <1>4, HandlerStep

LEMMA RemovedStep == ASSUME SessionInv, Removed PROVE SessionInv'
<1>1. /\ UNCHANGED <<latest, deleted, touched, boot, session, punch, faults>>
      /\ removing /\ stored' = None /\ removing' = FALSE
  BY DEF Removed, worldVars, apiVars
<1>2. Tables'
  BY <1>1 DEF SessionInv, Tables, PunchIsCall
<1>3. ASSUME faults = 0 PROVE Device'
  BY <1>1, <1>3 DEF SessionInv, Device, Holder
<1>4. ASSUME NEW e \in Employees, faults = 0, Untouched(e)
      PROVE  (Fits(e) \/ Taken(e))' /\ (Taken(e) => Told(e))'
  BY <1>1, <1>4 DEF SessionInv, Truth, Fits, Taken, Told, Holder
<1> QED BY <1>1, <1>2, <1>3, <1>4, HandlerStep

LEMMA LosePunchStep == ASSUME SessionInv, LosePunch PROVE SessionInv'
<1>1. /\ UNCHANGED <<deleted, touched, latest>> /\ faults' = faults + 1
      /\ \/ punch' = [punch EXCEPT !.pc = "answered", !.answer = "error"]
         \/ punch' = [punch EXCEPT !.pc = "sent", !.answer = "none", !.day = NoDay]
  BY DEF LosePunch, Fault, worldVars, apiVars
<1>2. \/ punch' = [pc |-> "answered", employee |-> punch.employee, type |-> punch.type,
                   answer |-> "error", day |-> punch.day, held |-> punch.held]
      \/ punch' = [pc |-> "sent", employee |-> punch.employee, type |-> punch.type,
                   answer |-> "none", day |-> NoDay, held |-> punch.held]
  BY <1>1 DEF SessionInv, Tables, PunchIsCall
<1>3. Tables'
  <2>1. punch.type \in Types
    BY DEF SessionInv, Tables, PunchIsCall
  <2>2. PICK pc, answer, day :
          /\ punch' = [pc |-> pc, employee |-> punch.employee, type |-> punch.type, answer |-> answer, day |-> day,
                       held |-> punch.held]
          /\ pc = "sent" \/ (pc = "answered" /\ answer = "error")
    BY <1>2
  <2>3. PunchIsCall' /\ (punch'.pc = "answered" => punch'.answer = "error")
    BY <2>1, <2>2 DEF PunchIsCall
  <2>4. faults' \in Nat /\ latest' = latest /\ deleted' = deleted /\ touched' = touched
    BY <1>1 DEF SessionInv, Tables
  <2> QED BY <2>3, <2>4 DEF SessionInv, Tables
<1>4. faults' # 0
  BY <1>1 DEF SessionInv, Tables
<1> QED BY <1>3, <1>4 DEF SessionInv

LEMMA RestartStep == ASSUME SessionInv, Restart PROVE SessionInv'
<1>1. /\ UNCHANGED <<deleted, touched, latest, stored>> /\ punch' = NoPunch
      /\ session' = None /\ boot' = stored /\ removing' = FALSE
      /\ faults' \in Nat /\ (faults' = 0 => faults = 0 /\ punch.pc = "idle" /\ ~removing)
  BY DEF Restart, Fault, worldVars, apiVars, SessionInv, Tables
<1>2. Tables'
  BY <1>1 DEF SessionInv, Tables, PunchIsCall, NoPunch, Types
<1>3. ASSUME faults' = 0 PROVE Device' /\ Holder' = Holder
  <2>1. stored = Holder /\ Holder \in Somebody
    BY <1>1, <1>3 DEF SessionInv, Device
  <2>2. stored # Loaded
    BY <2>1, KioskConstants DEF Somebody, None, Loaded
  <2> QED BY <1>1, <2>1, <2>2 DEF Device, Holder, NoPunch
<1>4. ASSUME faults' = 0, NEW e \in Employees, Untouched(e)' PROVE (Fits(e) \/ Taken(e))' /\ (Taken(e) => Told(e))'
  <2>1. Fits(e)
    BY <1>1, <1>4 DEF SessionInv, Truth, Untouched, Taken
  <2> QED BY <1>1, <1>3, <1>4, <2>1 DEF Fits, Taken, NoPunch
<1> QED BY <1>2, <1>3, <1>4 DEF SessionInv, Truth

LEMMA RestoreShiftStep == ASSUME SessionInv, RestoreShift PROVE SessionInv'
<1>1. /\ UNCHANGED <<deleted, touched, latest, stored, removing, punch, faults>>
      /\ session' = boot /\ boot' = Loaded /\ boot # Loaded
  BY DEF RestoreShift, worldVars, apiVars
<1>2. Tables'
  BY <1>1 DEF SessionInv, Tables, PunchIsCall
<1>3. ASSUME faults = 0 PROVE Device' /\ Holder' = Holder
  BY <1>1, <1>3 DEF SessionInv, Device, Holder
<1>4. ASSUME faults = 0, NEW e \in Employees, Untouched(e)' PROVE (Fits(e) \/ Taken(e))' /\ (Taken(e) => Told(e))'
  <2>1. (Fits(e) \/ Taken(e)) /\ (Taken(e) => Told(e))
    BY <1>1, <1>4 DEF SessionInv, Truth, Untouched
  <2> QED BY <1>1, <1>3, <1>4, <2>1 DEF Fits, Taken, Told
<1> QED BY <1>1, <1>2, <1>3, <1>4 DEF SessionInv, Truth

LEMMA OthersStep == ASSUME SessionInv, NEW e \in Employees PROVE
  /\ AutoClockOut(e) => SessionInv'
  /\ Delete(e) => SessionInv'
  /\ TipsElsewhere(e) => SessionInv'
<1>1. ASSUME AutoClockOut(e) PROVE SessionInv'
  <2>1. /\ UNCHANGED <<deleted, session, stored, removing, punch, boot, faults>>
        /\ touched' = touched \cup {<<e, "out">>} /\ latest' = [latest EXCEPT ![e] = "OUT"]
    BY <1>1 DEF AutoClockOut, Touch, shiftVars
  <2>2. latest' \in [Employees -> Types] /\ \A x \in Employees : Untouched(x)' => latest'[x] = latest[x]
    BY <2>1 DEF SessionInv, Tables, Untouched, Types
  <2>3. faults' \in Nat /\ touched \subseteq touched'
    BY <2>1 DEF SessionInv, Tables
  <2> QED BY <2>1, <2>2, <2>3, QuietStep
<1>2. ASSUME Delete(e) PROVE SessionInv'
  <2>1. /\ UNCHANGED <<latest, session, stored, removing, punch, boot, faults>>
        /\ touched' = touched \cup {<<e, "gone">>} /\ deleted' = deleted \cup {e}
    BY <1>2 DEF Delete, Touch, shiftVars
  <2>2. Tables'
    BY <2>1 DEF SessionInv, Tables, PunchIsCall
  <2>3. ASSUME faults = 0 PROVE Device'
    BY <2>1, <2>3 DEF SessionInv, Device, Holder
  <2>4. ASSUME faults = 0, NEW x \in Employees, Untouched(x)' PROVE (Fits(x) \/ Taken(x))' /\ (Taken(x) => Told(x))'
    <3>1. (Fits(x) \/ Taken(x)) /\ (Taken(x) => Told(x))
      BY <2>1, <2>4 DEF SessionInv, Truth, Untouched
    <3> QED BY <2>1, <3>1 DEF Fits, Taken, Told, Holder
  <2> QED BY <2>1, <2>2, <2>3, <2>4 DEF SessionInv, Truth
<1>3. ASSUME TipsElsewhere(e) PROVE SessionInv'
  <2>1. /\ UNCHANGED <<latest, deleted, session, stored, removing, punch, boot, faults>>
        /\ touched' = touched \cup {<<e, "tips">>}
    BY <1>3 DEF TipsElsewhere, Touch, shiftVars
  <2> QED BY <2>1, QuietStep DEF SessionInv, Tables
<1> QED BY <1>1, <1>2, <1>3

LEMMA SessionStep == ASSUME SessionInv, [Next]_vars PROVE SessionInv'
<1>1. CASE PunchStep
  <2>1. ASSUME NEW e \in Employees, RefuseOut(e) \/ RefuseIn(e) PROVE SessionInv'
    <3>1. UNCHANGED <<latest, deleted, session, stored, removing, punch, boot, touched, faults>>
      BY <2>1 DEF RefuseOut, RefuseIn, worldVars, apiVars, shiftVars
    <3> QED BY <3>1, QuietStep DEF SessionInv, Tables
  <2> QED BY <1>1, <2>1, ServePunchStep, ApplyPunchStep, PersistedStep, RefreshedStep, RemovedStep, LosePunchStep,
             StartPunchStep DEF PunchStep
<1>2. CASE TipStep
  <2>1. /\ UNCHANGED <<latest, deleted, session, stored, removing, punch, boot, touched>>
        /\ faults' = faults \/ faults' = faults + 1
    <3>1. ASSUME NEW e \in Employees, StartTips(e)
          PROVE  /\ UNCHANGED <<latest, deleted, session, stored, removing, punch, boot, touched>>
                 /\ faults' = faults \/ faults' = faults + 1
      BY <3>1 DEF StartTips, Fault, worldVars, apiVars, shiftVars
    <3>2. ServeTips \/ ApplyTips \/ SaveTips
            => UNCHANGED <<latest, deleted, session, stored, removing, punch, boot, touched, faults>>
      BY DEF ServeTips, ApplyTips, SaveTips, worldVars, apiVars, shiftVars
    <3>3. LoseTips => /\ UNCHANGED <<latest, deleted, session, stored, removing, punch, boot, touched>>
                      /\ faults' = faults + 1
      BY DEF LoseTips, Fault, worldVars, apiVars, shiftVars
    <3> QED BY <1>2, <3>1, <3>2, <3>3 DEF TipStep
  <2>2. faults' \in Nat /\ (faults' = 0 => faults = 0) /\ latest' \in [Employees -> Types]
    BY <2>1 DEF SessionInv, Tables
  <2> QED BY <2>1, <2>2, QuietStep
<1>3. CASE Others
  BY <1>3, OthersStep DEF Others
<1>4. CASE RestoreTips \/ Tick \/ UNCHANGED vars
  <2>1. UNCHANGED <<latest, deleted, session, stored, removing, punch, boot, touched, faults>>
    BY <1>4 DEF RestoreTips, Tick, vars, apiVars, worldVars, shiftVars
  <2> QED BY <2>1, QuietStep DEF SessionInv, Tables
<1>5. CASE Next
  BY <1>1, <1>2, <1>3, <1>4, <1>5, RestartStep, RestoreShiftStep DEF Next
<1> QED BY <1>4, <1>5

(* Without lost answers, interrupted handlers and apps that end before the  *)
(* disk has followed, the shift the device has at rest is the one the API   *)
(* has, for whoever is changed by nobody else.                              *)
THEOREM SessionAlwaysTrue == Spec => []SessionTellsTruth
<1>1. Init => SessionInv
  <2> SUFFICES ASSUME Init PROVE SessionInv
    OBVIOUS
  <2>1. /\ latest = [e \in Employees |-> "OUT"] /\ deleted = {} /\ faults = 0
        /\ session = None /\ stored = None /\ removing = FALSE /\ boot = None
        /\ punch = NoPunch
    BY DEF Init
  <2>2. Tables
    BY <2>1 DEF Tables, PunchIsCall, NoPunch, Types
  <2>3. Device
    BY <2>1, KioskConstants DEF Device, Holder, NoPunch, Somebody, None, Loaded
  <2>4. ASSUME NEW e \in Employees PROVE Fits(e) /\ ~Taken(e)
    BY <2>1, KioskConstants DEF Fits, Taken, Holder, NoPunch, None, Loaded
  <2> QED BY <2>2, <2>3, <2>4 DEF SessionInv, Truth
<1>2. SessionInv /\ [Next]_vars => SessionInv'
  BY SessionStep
<1>3. SessionInv => SessionTellsTruth
  <2> SUFFICES ASSUME SessionInv, faults = 0, punch.pc = "idle", boot = Loaded, NEW e \in Employees, Untouched(e)
               PROVE  (session = e => latest[e] \in Active) /\ (latest[e] = "IN" => session = e)
    BY Zenon DEF SessionTellsTruth, Untouched
  <2> QED BY DEF SessionInv, Truth, Fits, Taken, Holder
<1> QED BY <1>1, <1>2, <1>3, PTL DEF Spec
----------------------------------------------------------------------------
(* While no answer has been lost, tips the API has are known to the device, *)
(* about to be known to it, or were declared elsewhere.                     *)
Memory == IF bootTips.loaded THEN submitted ELSE bootTips.tips

Known(key) ==
    \/ key \in Memory
    \/ <<key[1], "tips">> \in touched
    \/ tip.pc = "answered" /\ tip.answer = "ok" /\ key = <<tip.employee, tip.day>>

(* What the disk has when it has followed is what is in memory, or will be  *)
(* once it is loaded; until then there is nothing to write.                 *)
DiskFollows ==
    /\ IF writes = <<>> THEN saved = Memory ELSE writes[Len(writes)] = Memory
    /\ ~bootTips.loaded => submitted = {} /\ tip.pc = "idle"

TipsAccounted == faults = 0 => DiskFollows /\ \A key \in tips : Known(key)

(* Steps that leave the tips where they are.                                *)
LEMMA TipsRest ==
  ASSUME KioskTypeInv, TipsAccounted, UNCHANGED <<tips, tip, submitted, saved, writes, bootTips>>,
         touched \subseteq touched', faults' = 0 => faults = 0
  PROVE  TipsAccounted'
BY DEF TipsAccounted, Known, DiskFollows, Memory

LEMMA FaultCounts == ASSUME KioskTypeInv, Fault PROVE faults' # 0
BY KioskConstants DEF Fault, KioskTypeInv, TypeOK

LEMMA TipsAccountedStep ==
  ASSUME KioskTypeInv, TipsAccounted, [Next]_vars
  PROVE  TipsAccounted'
<1>0. tip \in TipCall
  BY DEF KioskTypeInv, TypeOK
<1>1. CASE UNCHANGED vars
  BY <1>1, TipsRest DEF vars
<1>2. CASE PunchStep
  <2>1. UNCHANGED <<tips, tip, submitted, saved, writes, bootTips, touched>>
    BY <1>2, PunchKeepsTips
  <2>2. faults' = faults \/ Fault
    BY <1>2, PunchKeepsTips
  <2> QED BY <2>1, <2>2, TipsRest, FaultCounts
<1>3. CASE ServeTips
  <2> DEFINE key == <<tip.employee, tip.day>>
             answer == IF tip.employee \in deleted THEN "gone"
                       ELSE IF Future(tip.day, now) THEN "future"
                       ELSE IF Old(tip.day, now) THEN "old"
                       ELSE IF key \in tips THEN "already" ELSE "ok"
  <2>1. /\ tip' = [tip EXCEPT !.pc = "answered", !.answer = answer]
        /\ tips' = IF answer = "ok" THEN tips \cup {key} ELSE tips
        /\ tip.pc = "sent" /\ UNCHANGED <<submitted, saved, writes, bootTips, touched, faults>>
    BY <1>3 DEF ServeTips, tipVars, diskTips, worldVars
  <2> HIDE DEF answer
  <2>2. /\ tip'.pc = "answered" /\ tip'.answer = answer
        /\ tip'.employee = tip.employee /\ tip'.day = tip.day
    BY <1>0, <2>1 DEF TipCall
  <2>3. ASSUME faults = 0, NEW k \in tips' PROVE Known(k)'
    <3>1. CASE k \in tips
      <4>1. Known(k)
        BY <2>3, <3>1 DEF TipsAccounted
      <4> QED BY <2>1, <4>1 DEF Known, Memory
    <3>2. CASE answer = "ok" /\ k = key
      BY <2>2, <3>2 DEF Known
    <3> QED BY <2>1, <2>3, <3>1, <3>2
  <2>4. ASSUME faults = 0 PROVE DiskFollows'
    BY <2>1, <2>2, <2>4 DEF TipsAccounted, DiskFollows, Memory
  <2> QED BY <2>1, <2>3, <2>4 DEF TipsAccounted
<1>4. CASE ApplyTips
  <2>1. /\ UNCHANGED <<tips, touched, saved, bootTips, faults>> /\ submitted \subseteq submitted'
        /\ tip.pc = "answered" /\ tip' = NoTip
        /\ \/ submitted' = submitted /\ writes' = writes
           \/ writes' = Append(writes, submitted')
    BY <1>4 DEF ApplyTips, Remember, apiVars, worldVars, tipVars
  <2>2. tip.answer = "ok" => <<tip.employee, tip.day>> \in submitted'
    BY <1>4 DEF ApplyTips, Remember, Marked
  <2> SUFFICES ASSUME faults = 0 PROVE DiskFollows' /\ \A key \in tips : Known(key)'
    BY <2>1 DEF TipsAccounted
  <2>3. bootTips.loaded /\ DiskFollows /\ \A key \in tips : Known(key)
    BY <2>1 DEF TipsAccounted, DiskFollows
  <2>4. ASSUME NEW key \in tips PROVE Known(key)'
    <3>1. Known(key) /\ Memory = submitted /\ Memory' = submitted'
      BY <2>1, <2>3 DEF Memory
    <3>2. CASE tip.answer = "ok" /\ key = <<tip.employee, tip.day>>
      BY <2>2, <3>1, <3>2 DEF Known
    <3>3. CASE key \in submitted \/ <<key[1], "tips">> \in touched
      BY <2>1, <3>1, <3>3 DEF Known
    <3> QED BY <3>1, <3>2, <3>3 DEF Known
  <2>5. DiskFollows'
    <3>1. CASE submitted' = submitted /\ writes' = writes
      BY <2>1, <2>3, <3>1 DEF DiskFollows, Memory
    <3>2. CASE writes' = Append(writes, submitted')
      <4>1. writes \in Seq(SUBSET (Servers \X Days))
        BY DEF KioskTypeInv, TypeOK
      <4>2. writes' # <<>> /\ writes'[Len(writes')] = submitted'
        BY <3>2, <4>1
      <4> QED BY <2>1, <2>3, <4>2 DEF DiskFollows, Memory
    <3> QED BY <2>1, <3>1, <3>2
  <2> QED BY <2>4, <2>5
<1>11. CASE SaveTips
  <2>1. /\ UNCHANGED <<tips, tip, submitted, bootTips, touched, faults>> /\ writes # <<>>
        /\ saved' = Head(writes) /\ writes' = Tail(writes)
    BY <1>11 DEF SaveTips, apiVars, tipVars, worldVars
  <2>2. writes \in Seq(SUBSET (Servers \X Days))
    BY DEF KioskTypeInv, TypeOK
  <2>3. IF writes' = <<>> THEN saved' = writes[Len(writes)] ELSE writes'[Len(writes')] = writes[Len(writes)]
    <3>1. CASE Len(writes) = 1
      BY <2>1, <2>2, <3>1
    <3>2. CASE Len(writes) > 1
      <4>1. Len(writes') = Len(writes) - 1 /\ Len(writes) \in Nat
        BY <2>1, <2>2
      <4>2. writes'[Len(writes) - 1] = writes[Len(writes)]
        BY <2>1, <2>2, <3>2
      <4>3. writes' # <<>>
        BY <3>2, <4>1
      <4> QED BY <4>1, <4>2, <4>3
    <3>3. Len(writes) = 1 \/ Len(writes) > 1
      <4>1. Len(writes) \in Nat /\ Len(writes) # 0
        BY <2>1, <2>2
      <4>2. \A n \in Nat : n # 0 => n = 1 \/ n > 1
        OBVIOUS
      <4> QED BY <4>1, <4>2
    <3> QED BY <3>1, <3>2, <3>3
  <2> QED BY <2>1, <2>3 DEF TipsAccounted, DiskFollows, Known, Memory
<1>12. CASE RestoreTips
  <2>1. /\ UNCHANGED <<tips, tip, saved, writes, touched, faults>> /\ ~bootTips.loaded
        /\ submitted' = IF bootTips.tips = {} THEN submitted ELSE bootTips.tips
        /\ bootTips'.loaded
    BY <1>12 DEF RestoreTips, apiVars, worldVars
  <2> SUFFICES ASSUME faults = 0 PROVE DiskFollows' /\ \A key \in tips : Known(key)'
    BY <2>1 DEF TipsAccounted
  <2>2. submitted = {} /\ DiskFollows /\ \A key \in tips : Known(key)
    BY <2>1 DEF TipsAccounted, DiskFollows
  <2>3. Memory' = Memory
    BY <2>1, <2>2 DEF Memory
  <2> QED BY <2>1, <2>2, <2>3 DEF DiskFollows, Known
<1>5. CASE LoseTips
  BY <1>5, FaultCounts DEF LoseTips, TipsAccounted
<1>6. ASSUME NEW e \in Employees, StartTips(e) PROVE TipsAccounted'
  <2>1. /\ UNCHANGED <<tips, submitted, saved, writes, bootTips, touched>> /\ tip.pc = "idle"
        /\ (faults' = faults /\ bootTips.loaded) \/ Fault
    BY <1>6 DEF StartTips, apiVars, diskTips, worldVars
  <2>2. faults' = 0 => faults = 0 /\ bootTips.loaded
    BY <2>1, FaultCounts
  <2> QED BY <2>1, <2>2 DEF TipsAccounted, Known, DiskFollows, Memory
<1>7. CASE Restart
  <2>1. /\ UNCHANGED <<tips, saved, touched>> /\ submitted' = {} /\ tip' = NoTip /\ writes' = <<>>
        /\ bootTips' = [loaded |-> FALSE, tips |-> saved]
    BY <1>7 DEF Restart, apiVars, worldVars
  <2>2. faults' = 0 => faults = 0 /\ tip.pc = "idle" /\ writes = <<>>
    BY <1>7, FaultCounts DEF Restart
  <2>3. Memory' = saved /\ tip'.pc = "idle"
    BY <2>1 DEF Memory, NoTip
  <2> QED BY <2>1, <2>2, <2>3 DEF TipsAccounted, Known, DiskFollows
<1>8. CASE RestoreShift \/ Tick
  <2>1. UNCHANGED <<tips, tip, submitted, saved, writes, bootTips, touched, faults>>
    BY <1>8 DEF RestoreShift, Tick, apiVars, tipVars, diskTips, worldVars
  <2> QED BY <2>1, TipsRest
<1>9. ASSUME NEW e \in Employees, AutoClockOut(e) \/ Delete(e) PROVE TipsAccounted'
  <2>1. UNCHANGED <<tips, tip, submitted, saved, writes, bootTips, faults>> /\ touched \subseteq touched'
    BY <1>9 DEF AutoClockOut, Delete, Touch, tipVars, diskTips
  <2> QED BY <2>1, TipsRest
<1>10. ASSUME NEW e \in Employees, TipsElsewhere(e) PROVE TipsAccounted'
  <2> DEFINE key == <<e, LocalDay(now)>>
  <2>1. /\ tips' = tips \cup {key} /\ touched' = touched \cup {<<e, "tips">>}
        /\ UNCHANGED <<tip, submitted, saved, writes, bootTips, faults>>
    BY <1>10 DEF TipsElsewhere, Touch, tipVars, diskTips
  <2>2. key[1] = e
    OBVIOUS
  <2> HIDE DEF key
  <2> QED BY <2>1, <2>2 DEF TipsAccounted, Known, DiskFollows, Memory
<1> QED BY <1>1, <1>2, <1>3, <1>4, <1>5, <1>6, <1>7, <1>8, <1>9, <1>10, <1>11, <1>12
        DEF Next, TipStep, Others

(* A refusal to clock out, and what the device has looked up for it.        *)
LEMMA RefusalLooksUp ==
  ASSUME [Next]_vars, refusal' # refusal, refusal'.kind = "out"
  PROVE  /\ UNCHANGED <<tips, touched, faults, tip, bootTips>>
         /\ <<refusal'.employee, refusal'.day>> \notin submitted
<1>1. ~UNCHANGED vars
  BY DEF vars
<1>2. ASSUME NEW e \in Employees, RefuseOut(e)
      PROVE  /\ UNCHANGED <<tips, touched, faults, tip, bootTips>>
             /\ <<refusal'.employee, refusal'.day>> \notin submitted
  <2>1. refusal'.employee = e /\ refusal'.day = DayUTC(now)
    BY <1>2 DEF RefuseOut
  <2> QED BY <1>2, <2>1 DEF RefuseOut, HasSubmitted, apiVars, worldVars, diskTips
<1>3. ASSUME NEW e \in Employees, RefuseIn(e) PROVE FALSE
  BY <1>3 DEF RefuseIn
<1>4. ASSUME NEW e \in Employees, NEW type \in Types, StartPunch(e, type) PROVE FALSE
  BY <1>4 DEF StartPunch, NoRefusal
<1>5. ~(ServePunch \/ ApplyPunch \/ Persisted \/ Refreshed \/ Removed \/ LosePunch)
  BY DEF ServePunch, ApplyPunch, Persisted, Refreshed, Removed, LosePunch
<1>6. ~TipStep
  <2>1. ~ServeTips /\ ~ApplyTips
    BY DEF ServeTips, ApplyTips
  <2>2. ~SaveTips /\ ~LoseTips
    BY DEF SaveTips, LoseTips
  <2>3. ASSUME NEW e \in Employees, StartTips(e) PROVE FALSE
    BY <2>3 DEF StartTips
  <2> QED BY <2>1, <2>2, <2>3 DEF TipStep
<1>7. ~Restart
  BY DEF Restart, NoRefusal
<1>8. ~(RestoreShift \/ RestoreTips \/ Others \/ Tick)
  BY DEF RestoreShift, RestoreTips, Others, AutoClockOut, Delete, TipsElsewhere, Tick
<1> QED BY <1>1, <1>2, <1>3, <1>4, <1>5, <1>6, <1>7, <1>8 DEF Next, PunchStep

LEMMA NotAskedStep ==
  ASSUME TipsAccounted, [Next]_vars, NEW e \in Employees,
         refusal' # refusal, refusal'.kind = "out", refusal'.employee = e,
         faults = 0, bootTips.loaded, tip.pc = "idle", <<e, "tips">> \notin touched
  PROVE  <<e, refusal'.day>> \notin tips
<1>1. <<e, refusal'.day>> \notin submitted
  BY RefusalLooksUp
<1>2. ~Known(<<e, refusal'.day>>)
  BY <1>1 DEF Known, Memory
<1> QED BY <1>2 DEF TipsAccounted

(* A server who has declared his tips on this device is never refused a     *)
(* clock-out for them by handlePunch once the device has loaded what it has *)
(* stored, while no answer was lost and the disk had followed whenever the  *)
(* app ended: no day, owed or today's, is forgotten between the answer and  *)
(* a later tap, in this run of the app or the next.                         *)
THEOREM NotAskedTheorem == Spec => NotAskedTwice
<1> DEFINE Act ==
      \A e \in Employees :
         (/\ refusal' # refusal /\ refusal'.kind = "out" /\ refusal'.employee = e
          /\ faults = 0 /\ bootTips.loaded /\ tip.pc = "idle" /\ <<e, "tips">> \notin touched)
         => <<e, refusal'.day>> \notin tips
<1>1. Init => TipsAccounted
  <2> SUFFICES ASSUME Init PROVE TipsAccounted
    OBVIOUS
  <2>1. /\ tips = {} /\ submitted = {} /\ saved = {} /\ writes = <<>> /\ tip = NoTip
        /\ bootTips = [loaded |-> FALSE, tips |-> {}]
    BY DEF Init
  <2>2. tip.pc = "idle"
    BY <2>1 DEF NoTip
  <2> QED BY <2>1, <2>2 DEF TipsAccounted, DiskFollows, Memory
<1>2. KioskTypeInv /\ TipsAccounted /\ [Next]_vars => TipsAccounted'
  BY TipsAccountedStep
<1>3. TipsAccounted /\ [Next]_vars => Act
  BY NotAskedStep
<1>4. Init => KioskTypeInv
  BY InitKioskTypes
<1>5. KioskTypeInv /\ [Next]_vars => KioskTypeInv'
  BY KioskTypeStep
<1> HIDE DEF Act
<1>6. [][Act]_vars => NotAskedTwice
  BY PTL DEF NotAskedTwice, Act
<1>7. Spec => [][Act]_vars
  BY <1>1, <1>2, <1>3, <1>4, <1>5, PTL DEF Spec
<1> QED BY <1>6, <1>7, PTL
=============================================================================
