----------------------------- MODULE SerialProofs -----------------------------
(***************************************************************************)
(* What holds when requests are served one after the other: nothing in the *)
(* code itself keeps two of them apart.  No second shift is opened, a      *)
(* rejected request lets nobody in, notices and messages agree with the    *)
(* tables, all requests together implement PunchLedger, and sweeps number  *)
(* the strikes of a week.                                                  *)
(***************************************************************************)
EXTENDS AttendanceProofs

(* A request of one statement finds the only handler idle.                 *)
LEMMA OneStatementRests ==
  ASSUME Serial, OtherRequest
  PROVE  UNCHANGED task /\ \A h \in Handlers : task[h].pc = "idle"
BY DEF Serial, OtherRequest, SubmitTip, UpdateSchedule, SendMessage,
    MarkNoticeRead, MarkAllRead, UpdateRecord,
       DeleteRecord, OneStatement, Arrives, At

(* A handler about to open a shift: past enforceNoActiveShift, or with an  *)
(* approval past its own look at the latest punch.                         *)
Opens(t) ==
  \/ t.kind = "CLOCK" /\ t.type = "IN" /\ t.pc \in {"owed", "tips", "roster", "approved", "insert"}
  \/ t.kind = "APPROVE" /\ t.pc = "insert"

(* It has found none active, and none has been opened since.               *)
ClearToClockIn == \A h \in Handlers : Opens(task[h]) => MayBeInactive(task[h].emp)

(* A handler that opens a shift after its step was already going to, or    *)
(* has just found that none is active; either way it wrote no row.         *)
LEMMA OpeningStep ==
  ASSUME TypeOK, NEW h \in Handlers, HandlerStep(h), LastingChecksHoldOn, Opens(task'[h])
  PROVE  /\ punches' = punches /\ task'[h].emp = task[h].emp
         /\ Opens(task[h]) \/ MayBeInactive(task[h].emp)
<1> DEFINE t == task[h]
           u == task'[h]
<1>0. t \in Task /\ task \in [Handlers -> Task]
  BY DEF TypeOK
<1>1. u.pc \in {"owed", "tips", "roster", "approved", "insert"} /\ u.pc # "idle"
  BY DEF Opens
<1>2. ~Finish(h)
  BY <1>0, <1>1 DEF Finish, Idle
<1>3. CASE StartPunch(h)
  <2>1. PICK e \in Employees, type \in PunchTypes, at \in {ClockReading} \cup EditTimes :
          task' = [task EXCEPT ![h] =
                    [Idle EXCEPT !.kind = "CLOCK", !.type = type, !.emp = e,
                                 !.at = at, !.id = ClockReading,
                                 !.pc = FirstCheck(type)]]
    BY <1>3 DEF StartPunch
  <2>2. u.kind = "CLOCK" /\ u.type = type /\ u.pc = FirstCheck(type)
    BY <1>0, <2>1, IdleType DEF Idle
  <2> QED BY <2>2 DEF Opens, FirstCheck, PunchTypes
<1>4. CASE StartResolve(h) \/ StartManual(h) \/ StartSweep(h)
  <2>1. StartResolve(h) => u.pc = "resolve"
    BY <1>0 DEF StartResolve, Idle
  <2>2. StartManual(h) => u.kind = "MANUAL"
    BY <1>0 DEF StartManual, Idle
  <2>3. StartSweep(h) => u.pc = "sweep"
    BY <1>0 DEF StartSweep, Idle
  <2> QED BY <1>4, <2>1, <2>2, <2>3 DEF Opens
<1>5. CASE CheckActive(h)
  <2>1. punches' = punches /\ u = [t EXCEPT !.pc = "owed"] /\ MayBeInactive(t.emp)
    BY <1>0, <1>2, <1>5 DEF CheckActive, Goto
  <2> QED BY <1>0, <2>1 DEF Task
<1>6. CASE ReadOwedDays(h) \/ CheckOwedTips(h) \/ CheckRoster(h) \/ FindApproved(h)
  <2>1. punches' = punches /\ t.pc \in {"owed", "tips", "roster", "approved"}
    BY <1>6 DEF ReadOwedDays, CheckOwedTips, CheckRoster, FindApproved, At
  <2>2. t.kind = "CLOCK" /\ t.type = "IN"
    BY <2>1 DEF LastingChecksHoldOn, ChecksHoldOn
  <2>3. ReadOwedDays(h) => u.emp = t.emp
    BY <1>0 DEF ReadOwedDays, Task
  <2>4. CheckOwedTips(h) => u.emp = t.emp
    BY <1>0, <1>2 DEF CheckOwedTips, Task
  <2>5. CheckRoster(h) => u.emp = t.emp
    BY <1>0 DEF CheckRoster, Task
  <2>6. FindApproved(h) => u.emp = t.emp
    BY <1>0 DEF FindApproved, Goto, Task
  <2> QED BY <1>6, <2>1, <2>2, <2>3, <2>4, <2>5, <2>6 DEF Opens
<1>7. CASE CheckTip(h)
  <2>1. t.kind = "CLOCK" /\ t.type = "OUT"
    BY <1>7 DEF CheckTip, At, LastingChecksHoldOn, ChecksHoldOn
  <2>2. u = [t EXCEPT !.pc = "insert"]
    BY <1>0, <1>2, <1>7 DEF CheckTip, Goto
  <2> QED BY <1>0, <2>1, <2>2 DEF Opens, Task
<1>8. CASE ReadLatest(h)
  <2>1. punches' = punches /\ u.emp = t.emp
    BY <1>0, <1>8 DEF ReadLatest, Goto, Task
  <2>2. u.pc = "consume" \/ MayBeInactive(t.emp)
    BY <1>0, <1>8 DEF ReadLatest, Goto, Task
  <2> QED BY <1>1, <2>1, <2>2
<1>9. CASE RefuseOutsideGeofence(h) \/ NotifyRequest(h) \/ MarkRead(h) \/ UpdateNotice(h) \/ Abort(h)
  BY <1>2, <1>9 DEF RefuseOutsideGeofence, NotifyRequest, MarkRead, UpdateNotice, Abort
<1>10. CASE FindPending(h) \/ CreateRequest(h) \/ InsertPunch(h) \/ ConsumeOverride(h) \/ Announce(h)
  BY <1>0, <1>1, <1>2, <1>10
  DEF FindPending, CreateRequest, InsertPunch, ConsumeOverride, Announce, Goto, Task
<1>11. CASE ReadInbox(h)
  <2>1. PICK m : task' = [task EXCEPT ![h].pc = "mark", ![h].msg = m]
    BY <1>2, <1>11 DEF ReadInbox
  <2> QED BY <1>0, <1>1, <2>1 DEF Task
<1>12. CASE ReadRequest(h)
  BY <1>0, <1>1, <1>2, <1>12 DEF ReadRequest, Task
<1>13. CASE Decide(h)
  BY <1>0, <1>1, <1>13 DEF Decide, Goto, Task
<1>14. CASE SweepStep(h)
  <2>1. ASSUME NEW todo, Continue(h, todo)
        PROVE  FALSE
    BY <1>0, <1>1, <1>2, <2>1 DEF Continue, Task
  <2>2. CASE ReadCandidates(h)
    BY <1>0, <1>1, <1>2, <2>2 DEF ReadCandidates, Task
  <2>3. CASE Recheck(h)
    BY <1>0, <1>1, <2>1, <2>3 DEF Recheck, Task
  <2>4. CASE CountStrikes(h)
    BY <1>0, <1>1, <2>4 DEF CountStrikes, Task
  <2>5. CASE ReadTips(h)
    BY <1>0, <1>1, <2>5 DEF ReadTips, Task
  <2>6. CASE InsertClockOut(h)
    BY <1>0, <1>1, <2>6 DEF InsertClockOut, Task
  <2>7. CASE AnnounceClockOut(h)
    BY <2>1, <2>7 DEF AnnounceClockOut
  <2> QED BY <1>14, <2>2, <2>3, <2>4, <2>5, <2>6, <2>7 DEF SweepStep
<1> QED
  BY <1>3, <1>4, <1>5, <1>6, <1>7, <1>8, <1>9, <1>10, <1>11, <1>12, <1>13, <1>14
  DEF HandlerStep, StartRequest, PunchStep

LEMMA StepKeepsClear ==
  ASSUME Serial, IInv, ClearToClockIn, [AttendanceNext]_vars
  PROVE  ClearToClockIn'
<1>1. TypeOK /\ LastingChecksHoldOn /\ \A h \in Handlers : Opens(task[h]) => MayBeInactive(task[h].emp)
  BY DEF IInv, ClearToClockIn, Opens
<1>2. ASSUME NEW h \in Handlers, HandlerStep(h)
      PROVE  ClearToClockIn'
  <2>1. Opens(task'[h]) =>
          /\ punches' = punches /\ task'[h].emp = task[h].emp
          /\ MayBeInactive(task[h].emp)
    BY <1>1, <1>2, OpeningStep
  <2>2. Opens(task'[h]) => MayBeInactive(task[h].emp)'
    BY <2>1 DEF MayBeInactive, Latest
  <2>3. \A g \in Handlers : g = h
    BY DEF Serial
  <2> QED BY <2>2, <2>3 DEF ClearToClockIn, Opens
<1>3. CASE OtherRequest
  BY <1>3, OneStatementRests DEF ClearToClockIn, Opens
<1>4. CASE UNCHANGED <<punches, task>>
  BY <1>4 DEF ClearToClockIn, MayBeInactive, Latest
<1> QED
  BY <1>2, <1>3, <1>4 DEF AttendanceNext, Next, HandlerStep, Tick, Rest, vars

LEMMA ClearWhenSerial == Serial /\ AttendanceSpec => []ClearToClockIn
<1> SUFFICES ASSUME Serial PROVE AttendanceSpec => []ClearToClockIn
  OBVIOUS
<1>1. TableInit => ClearToClockIn
  BY DEF TableInit, ClearToClockIn, Opens, Idle
<1>2. IInv /\ ClearToClockIn /\ [AttendanceNext]_vars => ClearToClockIn'
  BY StepKeepsClear
<1> QED BY <1>1, <1>2, ChecksHold, PTL DEF AttendanceSpec

(* Served one after the other, a clock-in and an approval open a shift     *)
(* only when none is active at the moment the row is written, whatever the *)
(* administrators' corrections, the sweeps and the crashes in between.     *)
THEOREM SerialClockIn == Serial /\ AttendanceSpec => NoSecondClockIn
<1> SUFFICES ASSUME Serial PROVE AttendanceSpec => NoSecondClockIn
  OBVIOUS
<1> DEFINE Opened ==
      \A p \in punches' \ punches :
         p.type = "IN" /\ p.via \in {"SELF", "APPROVAL"} => MayBeInactive(p.emp)
<1>1. AttendanceSpec => []ClearToClockIn
  BY ClearWhenSerial
<1>2. IInv /\ ClearToClockIn /\ [AttendanceNext]_vars => Opened
  <2> SUFFICES ASSUME IInv, ClearToClockIn, [AttendanceNext]_vars,
                      NEW p \in punches' \ punches, p.type = "IN",
                      p.via \in {"SELF", "APPROVAL"}
               PROVE  MayBeInactive(p.emp)
    OBVIOUS
  <2>1. PICK h \in Handlers : InsertPunch(h) /\ p = RowOf(task[h])
    BY NewRow DEF IInv
  <2>2. task[h].pc = "insert" /\ task[h].kind \in {"CLOCK", "APPROVE"} /\ task[h].type = "IN"
    BY <2>1 DEF InsertPunch, At, RowOf, Origin
  <2>3. MayBeInactive(task[h].emp)
    BY <2>2 DEF ClearToClockIn, Opens
  <2> QED BY <2>1, <2>3 DEF RowOf
<1> HIDE DEF Opened
<1>3. AttendanceSpec => [][Opened]_vars
  BY <1>1, <1>2, ChecksHold, PTL DEF AttendanceSpec
<1> QED BY <1>3 DEF NoSecondClockIn, Opened

-----------------------------------------------------------------------------
(* What a request has found out so far is still so.                        *)

(* A request about the employee and the work date of a clock-in.           *)
About(i, t) ==
  i \in DOMAIN requests /\ requests[i].emp = t.emp /\ requests[i].day = Day(t.at)

Unused(i) == requests[i].status = "APPROVED" /\ requests[i].consumed = 0

NothingOwed(t) ==
  t.emp \in Servers => \A d \in OwedDays(t.emp, t.at) : d <= Day(t.at) => <<t.emp, d>> \in tips

InSchedule(t) == t.emp \in Owners \cup Kitchen \/ ~Violation(t.emp, t.at)

(* What a clock-in has found so far: no active shift, no tips owed, and    *)
(* either the schedule or an approval that is not used up.                 *)
ClockInFound(t) ==
  t.kind = "CLOCK" /\ t.type = "IN" =>
    /\ t.pc \in {"active", "owed", "tips", "roster", "approved", "pending", "request"} =>
         t.ov = 0
    /\ t.pc \in {"owed", "tips", "roster", "approved", "pending", "request", "insert"} =>
         MayBeInactive(t.emp)
    /\ t.pc = "tips" /\ t.emp \in Servers =>
         \A d \in OwedDays(t.emp, t.at) : d <= Day(t.at) => d \in t.note.owed
    /\ t.pc \in {"roster", "approved", "pending", "request", "insert"} => NothingOwed(t)
    /\ t.pc \in {"pending", "request"} => \A i \in DOMAIN requests : About(i, t) => ~Unused(i)
    /\ t.pc = "request" =>
         \A i \in DOMAIN requests : About(i, t) => requests[i].status # "PENDING"
    /\ t.pc = "insert" =>
         IF t.ov = 0 THEN InSchedule(t) ELSE About(t.ov, t) /\ Unused(t.ov)

(* The other rows a handler writes cite no request.                        *)
RowFound(t) ==
  /\ t.pc \in {"active", "owed", "tips", "roster", "approved", "pending", "request",
               "tipped", "decide", "latest", "insert", "consume"} =>
       t.at \in (1 .. now) \cup EditTimes
  /\ t.pc = "tipped" => t.ov = 0
  /\ t.pc = "insert" => t.kind \in {"CLOCK", "MANUAL", "APPROVE"}
  /\ t.pc = "insert" /\ (t.kind = "CLOCK" => t.type # "IN") /\ t.kind # "APPROVE" => t.ov = 0

(* What an administrator's answer has found and done.                      *)
AnswerFound(t) ==
  /\ t.pc = "resolve" => t.kind \in {"APPROVE", "REJECT"} /\ t.type = "IN"
  /\ t.pc = "decide" => requests[t.ov].status = "PENDING" /\ t.kind \in {"APPROVE", "REJECT"}
  /\ t.pc \in {"decide", "latest"} \/ (t.pc = "insert" /\ t.kind = "APPROVE") =>
       t.at \in 1 .. now /\ t.type = "IN"
  /\ t.pc = "latest" \/ (t.pc = "insert" /\ t.kind = "APPROVE") => Unused(t.ov)
  /\ t.pc = "insert" /\ t.kind = "APPROVE" => MayBeInactive(t.emp)
  /\ t.pc = "consume" =>
       t.ov \in DOMAIN requests /\ Unused(t.ov) /\ t.kind \in {"CLOCK", "APPROVE"}

(* The note of the clock-out that a sweep is about to write.               *)
Ticket(day, strike, owed) ==
  [auto |-> TRUE, day |-> day, strike |-> strike, penalty |-> strike > StrikeLimit,
   owed |-> owed]

Counted(t, owed) == Ticket(Day(t.at), Cardinality(PriorStrikes(t.emp, t.at)) + 1, owed)

(* The tips a sweep finds missing.                                         *)
Missing(t) == {d \in {Day(t.at)} : t.emp \in Servers /\ <<t.emp, d>> \notin tips}

Overstays(e, t) == e \notin Owners /\ Due(e, t.at)

(* What a sweep has found: who overstays, and the strike of the next one.  *)
SweepFound(t) ==
  /\ t.pc \in {"sweep", "recheck", "count", "owes", "clockout"} => t.kind = "SWEEP"
  /\ t.kind = "SWEEP" /\ t.pc \in {"sweep", "recheck", "count", "owes", "clockout", "announce"} =>
       t.at \in 1 .. now
  /\ t.kind = "SWEEP" /\ t.pc \in {"recheck", "count", "owes", "clockout", "announce"} =>
       \A e \in t.todo : Overstays(e, t)
  /\ t.pc \in {"count", "owes", "clockout"} => Overstays(t.emp, t) /\ MayBeActive(t.emp)
  /\ t.pc = "owes" => t.emp \in Servers /\ t.note = Counted(t, {})
  /\ t.pc = "clockout" => t.note = Counted(t, Missing(t))

Found(t) == ClockInFound(t) /\ RowFound(t) /\ AnswerFound(t) /\ SweepFound(t)

(* Only an approval is used up or cited by a punch.                        *)
OnlyApprovedCited ==
  /\ \A i \in DOMAIN requests : requests[i].consumed # 0 => requests[i].status = "APPROVED"
  /\ \A p \in punches :
       p.ov # 0 => p.ov \in DOMAIN requests /\ requests[p.ov].status = "APPROVED"

SerialInv == (\A h \in Handlers : Found(task[h])) /\ OnlyApprovedCited


-----------------------------------------------------------------------------
(* Found is kept by a step of its own handler.                             *)

(* A handler that only has to answer relies on nothing any more.           *)
LEMMA WaitsFound ==
  ASSUME NEW t, \/ t.pc \in {"idle", "tell", "notice", "inbox", "mark"}
                \/ t.pc = "announce" /\ t.kind # "SWEEP"
  PROVE  Found(t) /\ Found(t)'
BY DEF Found, ClockInFound, RowFound, AnswerFound, SweepFound

(* Found speaks of the tables and of the clock only.                       *)
LEMMA FoundStays ==
  ASSUME TypeOK, UNCHANGED <<punches, requests, tips, roster>>, now' \in {now, now + 1},
         NEW t, Found(t)
  PROVE  Found(t)'
<1>1. /\ MayBeInactive(t.emp)' = MayBeInactive(t.emp)
      /\ MayBeActive(t.emp)' = MayBeActive(t.emp)
  BY DEF MayBeInactive, MayBeActive, Latest
<1>2. OwedDays(t.emp, t.at)' = OwedDays(t.emp, t.at)
  BY DEF OwedDays, AutoOuts
<1>3. NothingOwed(t)' = NothingOwed(t)
  BY <1>2 DEF NothingOwed, Day
<1>4. InSchedule(t)' = InSchedule(t)
  BY DEF InSchedule, Violation, ShiftOn, Slot
<1>5. \A e : Overstays(e, t)' = Overstays(e, t)
  BY DEF Overstays, Due, ShiftOn, Slot
<1>6. \A owed : Counted(t, owed)' = Counted(t, owed)
  BY DEF Counted, PriorStrikes, AutoOuts, Day, Week
<1>7. 1 .. now \subseteq 1 .. now'
  BY DEF TypeOK
<1>8. ClockInFound(t)'
  BY <1>1, <1>2, <1>3, <1>4 DEF Found, ClockInFound, About, Unused, Day
<1>9. RowFound(t)'
  BY <1>7 DEF Found, RowFound
<1>10. AnswerFound(t)'
  BY <1>1, <1>7 DEF Found, AnswerFound, Unused
<1>11. Missing(t)' = Missing(t)
  BY DEF Missing, Day
<1>12. SweepFound(t)'
  BY <1>1, <1>5, <1>6, <1>7, <1>11 DEF Found, SweepFound
<1> QED BY <1>8, <1>9, <1>10, <1>12 DEF Found

(* The statements of a clock-in or clock-out that only read.               *)
LEMMA ReadingFound ==
  ASSUME TypeOK, NEW h \in Handlers, Found(task[h]), ChecksHoldOn(h),
         \/ CheckActive(h) \/ RefuseOutsideGeofence(h) \/ ReadOwedDays(h)
         \/ CheckOwedTips(h) \/ CheckRoster(h) \/ FindApproved(h) \/ FindPending(h)
         \/ CheckTip(h) \/ ReadInbox(h)
  PROVE  Found(task'[h])
<1> DEFINE t == task[h]
           u == task'[h]
<1>0. t \in Task /\ task \in [Handlers -> Task]
  BY DEF TypeOK
<1>1. ASSUME Finish(h)
      PROVE  Found(u)
  <2>1. u.pc = "idle"
    BY <1>0, <1>1 DEF Finish, Idle
  <2> QED BY <2>1, WaitsFound
<1>2. ASSUME NEW label, Goto(h, label)
      PROVE  /\ u.pc = label /\ u.kind = t.kind /\ u.type = t.type /\ u.emp = t.emp
             /\ u.at = t.at /\ u.ov = t.ov /\ u.off = t.off
  BY <1>0, <1>2 DEF Goto, Task
<1>3. /\ ClockInFound(t) /\ RowFound(t)
      /\ t.pc \in {"active", "owed", "tips", "roster", "approved", "pending", "request"} =>
           t.kind = "CLOCK" /\ t.type = "IN"
      /\ t.pc = "tipped" => t.kind = "CLOCK" /\ t.type = "OUT"
  BY DEF Found, ChecksHoldOn
<1>4. CASE CheckActive(h)
  <2>1. t.pc = "active"
    BY <1>4 DEF CheckActive, At
  <2>2. ASSUME MayBeInactive(t.emp), Goto(h, "owed")
        PROVE  Found(u)
    <3>1. /\ u.pc = "owed" /\ u.kind = "CLOCK" /\ u.type = "IN" /\ u.emp = t.emp
          /\ u.at = t.at /\ u.ov = 0
      BY <1>2, <1>3, <2>1, <2>2 DEF ClockInFound
    <3> QED BY <1>3, <2>1, <2>2, <3>1 DEF Found, ClockInFound, RowFound, AnswerFound, SweepFound
  <2> QED BY <1>1, <1>4, <2>2 DEF CheckActive
<1>5. CASE RefuseOutsideGeofence(h)
  BY <1>1, <1>5 DEF RefuseOutsideGeofence
<1>6. CASE ReadOwedDays(h)
  <2> DEFINE owed == IF t.emp \in Servers
                     THEN {d \in OwedDays(t.emp, t.at) : d <= Day(t.at)} ELSE {}
  <2>1. t.pc = "owed" /\ t.kind = "CLOCK" /\ t.type = "IN"
    BY <1>3, <1>6 DEF ReadOwedDays, At
  <2>2. task' = [task EXCEPT ![h].pc = IF owed = {} THEN "roster" ELSE "tips",
                             ![h].note.owed = owed]
    BY <1>6 DEF ReadOwedDays
  <2>3. t.note \in Note
    BY <1>0 DEF Task
  <2>4. /\ u.pc = IF owed = {} THEN "roster" ELSE "tips"
        /\ u.kind = "CLOCK" /\ u.type = "IN" /\ u.emp = t.emp /\ u.at = t.at
        /\ u.ov = t.ov /\ u.note.owed = owed
    <3> HIDE DEF owed
    <3> QED BY <1>0, <2>1, <2>2, <2>3 DEF Task, Note
  <2>5. u.ov = 0 /\ MayBeInactive(u.emp)
    BY <1>3, <2>1, <2>4 DEF ClockInFound
  <2>6. u.emp \in Servers => \A d \in OwedDays(u.emp, u.at) : d <= Day(u.at) => d \in u.note.owed
    BY <2>4
  <2>7. u.pc = "roster" => NothingOwed(u)
    BY <2>4, <2>6 DEF NothingOwed
  <2>8. u.at \in (1 .. now) \cup EditTimes /\ (u.pc = "roster" \/ u.pc = "tips")
    BY <1>3, <2>1, <2>4 DEF RowFound
  <2>9. u.kind = "CLOCK" /\ u.type = "IN"
    BY <2>4
  <2>10. Found(u)
    <3> HIDE DEF owed, u, t
    <3> QED BY <2>5, <2>6, <2>7, <2>8, <2>9
            DEF Found, ClockInFound, RowFound, AnswerFound, SweepFound
  <2> QED BY <2>10
<1>7. CASE CheckOwedTips(h)
  <2>1. t.pc = "tips" /\ t.kind = "CLOCK" /\ t.type = "IN"
    BY <1>3, <1>7 DEF CheckOwedTips, At
  <2>2. ASSUME \A d \in t.note.owed : <<t.emp, d>> \in tips,
               task' = [task EXCEPT ![h].pc = "roster", ![h].note = PlainNote]
        PROVE  Found(u)
    <3>1. /\ u.pc = "roster" /\ u.kind = "CLOCK" /\ u.type = "IN" /\ u.emp = t.emp
          /\ u.at = t.at /\ u.ov = t.ov
      BY <1>0, <2>1, <2>2 DEF Task
    <3>2. u.ov = 0 /\ MayBeInactive(u.emp) /\ u.at \in (1 .. now) \cup EditTimes
      BY <1>3, <2>1, <3>1 DEF ClockInFound, RowFound
    <3>3. NothingOwed(u)
      BY <1>3, <2>1, <2>2, <3>1 DEF ClockInFound, NothingOwed
    <3> HIDE DEF u
    <3> QED BY <3>1, <3>2, <3>3 DEF Found, ClockInFound, RowFound, AnswerFound, SweepFound
  <2> QED BY <1>1, <1>7, <2>2 DEF CheckOwedTips
<1>8. CASE CheckRoster(h)
  <2> DEFINE off == t.emp \notin Owners \cup Kitchen /\ Violation(t.emp, t.at)
  <2>1. t.pc = "roster" /\ t.kind = "CLOCK" /\ t.type = "IN"
    BY <1>3, <1>8 DEF CheckRoster, At
  <2>2. task' = [task EXCEPT ![h].pc = IF off THEN "approved" ELSE "insert", ![h].off = off]
    BY <1>8 DEF CheckRoster
  <2>3. /\ u.pc = IF off THEN "approved" ELSE "insert"
        /\ u.kind = "CLOCK" /\ u.type = "IN" /\ u.emp = t.emp /\ u.at = t.at /\ u.ov = t.ov
    <3> HIDE DEF off
    <3> QED BY <1>0, <2>1, <2>2 DEF Task
  <2>4. /\ u.ov = 0 /\ MayBeInactive(u.emp) /\ u.at \in (1 .. now) \cup EditTimes
        /\ NothingOwed(u)
    BY <1>3, <2>1, <2>3 DEF ClockInFound, RowFound, NothingOwed
  <2>5. u.pc = "approved" \/ (u.pc = "insert" /\ InSchedule(u))
    BY <2>3 DEF InSchedule
  <2>6. u.kind = "CLOCK" /\ u.type = "IN"
    BY <2>3
  <2>7. Found(u)
    <3> HIDE DEF u, off
    <3> QED BY <2>4, <2>5, <2>6 DEF Found, ClockInFound, RowFound, AnswerFound, SweepFound
  <2> QED BY <2>7
<1>9. CASE FindApproved(h)
  <2>1. t.pc = "approved" /\ t.kind = "CLOCK" /\ t.type = "IN"
    BY <1>3, <1>9 DEF FindApproved, At
  <2>2. ASSUME u.kind = "CLOCK", u.type = "IN", u.emp = t.emp, u.at = t.at
        PROVE  /\ MayBeInactive(u.emp) /\ u.at \in (1 .. now) \cup EditTimes
               /\ NothingOwed(u)
    BY <1>3, <2>1, <2>2 DEF ClockInFound, RowFound, NothingOwed
  <2>3. ASSUME NEW i \in RequestsFor(t.emp, Day(t.at), "APPROVED"), requests[i].consumed = 0,
               task' = [task EXCEPT ![h].pc = "insert", ![h].ov = i]
        PROVE  Found(u)
    <3>1. /\ u.pc = "insert" /\ u.kind = "CLOCK" /\ u.type = "IN" /\ u.emp = t.emp
          /\ u.at = t.at /\ u.ov = i
      BY <1>0, <2>1, <2>3 DEF Task
    <3>2. About(u.ov, u) /\ Unused(u.ov) /\ u.ov # 0
      BY <2>3, <3>1, ElementType DEF RequestsFor, About, Unused, TypeOK
    <3> HIDE DEF u
    <3> QED BY <2>2, <3>1, <3>2 DEF Found, ClockInFound, RowFound, AnswerFound, SweepFound
  <2>4. ASSUME {i \in RequestsFor(t.emp, Day(t.at), "APPROVED") : requests[i].consumed = 0} = {},
               Goto(h, "pending")
        PROVE  Found(u)
    <3>1. /\ u.pc = "pending" /\ u.kind = "CLOCK" /\ u.type = "IN" /\ u.emp = t.emp
          /\ u.at = t.at /\ u.ov = 0
      BY <1>2, <1>3, <2>1, <2>4 DEF ClockInFound
    <3>2. \A i \in DOMAIN requests : About(i, u) => ~Unused(i)
      BY <2>4, <3>1 DEF RequestsFor, About, Unused
    <3> HIDE DEF u
    <3> QED BY <2>2, <3>1, <3>2 DEF Found, ClockInFound, RowFound, AnswerFound, SweepFound
  <2> QED BY <1>9, <2>3, <2>4 DEF FindApproved
<1>10. CASE FindPending(h)
  <2>1. t.pc = "pending" /\ t.kind = "CLOCK" /\ t.type = "IN"
    BY <1>3, <1>10 DEF FindPending, At
  <2>2. ASSUME RequestsFor(t.emp, Day(t.at), "PENDING") = {}, Goto(h, "request")
        PROVE  Found(u)
    <3>1. /\ u.pc = "request" /\ u.kind = "CLOCK" /\ u.type = "IN" /\ u.emp = t.emp
          /\ u.at = t.at /\ u.ov = 0
      BY <1>2, <1>3, <2>1, <2>2 DEF ClockInFound
    <3>2. \A i \in DOMAIN requests : About(i, u) => requests[i].status # "PENDING"
      BY <2>2, <3>1 DEF RequestsFor, About
    <3>3. \A i \in DOMAIN requests : About(i, u) => ~Unused(i)
      BY <1>3, <2>1, <3>1 DEF ClockInFound, About
    <3>4. MayBeInactive(u.emp) /\ u.at \in (1 .. now) \cup EditTimes /\ NothingOwed(u)
      BY <1>3, <2>1, <3>1 DEF ClockInFound, RowFound, NothingOwed
    <3> HIDE DEF u
    <3> QED BY <3>1, <3>2, <3>3, <3>4
            DEF Found, ClockInFound, RowFound, AnswerFound, SweepFound
  <2> QED BY <1>1, <1>10, <2>2 DEF FindPending
<1>11. CASE CheckTip(h)
  <2>1. t.pc = "tipped" /\ t.kind = "CLOCK" /\ t.type = "OUT" /\ t.ov = 0
    BY <1>3, <1>11 DEF CheckTip, At, RowFound
  <2>2. ASSUME Goto(h, "insert")
        PROVE  Found(u)
    <3>1. /\ u.pc = "insert" /\ u.kind = "CLOCK" /\ u.type = "OUT" /\ u.ov = 0
          /\ u.at \in (1 .. now) \cup EditTimes
      BY <1>2, <1>3, <2>1, <2>2 DEF RowFound
    <3> HIDE DEF u
    <3> QED BY <3>1 DEF Found, ClockInFound, RowFound, AnswerFound, SweepFound
  <2> QED BY <1>1, <1>11, <2>2 DEF CheckTip
<1>12. CASE ReadInbox(h)
  <2>1. ASSUME NEW m, task' = [task EXCEPT ![h].pc = "mark", ![h].msg = m]
        PROVE  u.pc = "mark"
    BY <1>0, <2>1 DEF Task
  <2> QED BY <1>1, <1>12, <2>1, WaitsFound DEF ReadInbox
<1> QED BY <1>4, <1>5, <1>6, <1>7, <1>8, <1>9, <1>10, <1>11, <1>12

(* A request that arrives has found nothing yet.                           *)
LEMMA StartFound ==
  ASSUME TypeOK, NEW h \in Handlers, StartRequest(h) \/ StartSweep(h)
  PROVE  Found(task[h])'
<1> DEFINE u == task'[h]
<1>0. task \in [Handlers -> Task] /\ now \in Nat
  BY DEF TypeOK
<1>1. CASE StartPunch(h)
  <2>1. PICK e \in Employees, type \in PunchTypes, at \in {ClockReading} \cup EditTimes :
          task' = [task EXCEPT ![h] =
                    [Idle EXCEPT !.kind = "CLOCK", !.type = type, !.emp = e,
                                 !.at = at, !.id = ClockReading,
                                 !.pc = FirstCheck(type)]]
    BY <1>1 DEF StartPunch
  <2>2. u.kind = "CLOCK" /\ u.type = type /\ u.pc = FirstCheck(type) /\ u.at = at /\ u.ov = 0
    BY <1>0, <2>1, IdleType DEF Idle
  <2>3. u.at \in (1 .. now') \cup EditTimes
    BY <1>0, <1>1, <2>2 DEF StartPunch, ClockReading
  <2>4. \/ u.type = "IN" /\ u.pc = "active"
        \/ u.type = "OUT" /\ u.pc = "tipped"
        \/ u.type \in {"BREAK", "LUNCH"} /\ u.pc = "insert"
    BY <2>2 DEF FirstCheck, PunchTypes
  <2>5. ClockInFound(task[h])'
    BY <2>2, <2>4 DEF ClockInFound
  <2>6. RowFound(task[h])'
    BY <2>2, <2>3, <2>4 DEF RowFound
  <2>7. AnswerFound(task[h])'
    BY <2>2, <2>4 DEF AnswerFound
  <2>8. SweepFound(task[h])'
    BY <2>2, <2>4 DEF SweepFound
  <2> QED BY <2>5, <2>6, <2>7, <2>8 DEF Found
<1>2. CASE StartResolve(h)
  <2>1. u.pc = "resolve" /\ u.kind \in {"APPROVE", "REJECT"} /\ u.type = "IN"
    BY <1>0, <1>2, IdleType DEF StartResolve, Idle
  <2> QED BY <2>1 DEF Found, ClockInFound, RowFound, AnswerFound, SweepFound
<1>3. CASE StartManual(h)
  <2>1. u.pc = "insert" /\ u.kind = "MANUAL" /\ u.at \in EditTimes /\ u.ov = 0
    BY <1>0, <1>3, IdleType DEF StartManual, Idle
  <2> QED BY <2>1 DEF Found, ClockInFound, RowFound, AnswerFound, SweepFound
<1>4. CASE StartSweep(h)
  <2>1. u.pc = "sweep" /\ u.kind = "SWEEP" /\ u.at = now + 1 /\ now' = now + 1
    BY <1>0, <1>4, IdleType DEF StartSweep, Idle, ClockReading
  <2>2. u.at \in 1 .. now'
    BY <1>0, <2>1
  <2> QED BY <2>1, <2>2 DEF Found, ClockInFound, RowFound, AnswerFound, SweepFound
<1> QED BY <1>1, <1>2, <1>3, <1>4 DEF StartRequest

(* The statements of an administrator's answer.                            *)
LEMMA AnsweringFound ==
  ASSUME TypeOK, OnlyApprovedCited, NEW h \in Handlers, Found(task[h]), ChecksHoldOn(h),
         ReadRequest(h) \/ Decide(h) \/ ReadLatest(h) \/ UpdateNotice(h)
  PROVE  Found(task[h])'
<1> DEFINE t == task[h]
           u == task'[h]
<1>0. t \in Task /\ task \in [Handlers -> Task] /\ now \in Nat
  BY DEF TypeOK
<1>1. AnswerFound(t)
  BY DEF Found
<1>2. ASSUME Finish(h)
      PROVE  Found(task[h])'
  <2>1. u.pc = "idle"
    BY <1>0, <1>2 DEF Finish, Idle
  <2> QED BY <2>1, WaitsFound
<1>3. CASE ReadRequest(h)
  <2>1. t.pc = "resolve" /\ t.kind \in {"APPROVE", "REJECT"} /\ t.type = "IN"
    BY <1>1, <1>3 DEF ReadRequest, At, AnswerFound
  <2>2. ASSUME Decidable(requests[t.ov]), now' = now + 1,
               task' = [task EXCEPT ![h].pc = "decide", ![h].emp = requests[t.ov].emp,
                                    ![h].at = now + 1]
        PROVE  Found(task[h])'
    <3>1. /\ u.pc = "decide" /\ u.kind = t.kind /\ u.type = "IN" /\ u.ov = t.ov
          /\ u.at = now + 1
      BY <1>0, <2>1, <2>2 DEF Task
    <3>2. u.at \in 1 .. now' /\ requests'[u.ov].status = "PENDING"
      BY <1>0, <1>3, <2>2, <3>1 DEF Decidable, ReadRequest
    <3> QED BY <2>1, <3>1, <3>2 DEF Found, ClockInFound, RowFound, AnswerFound, SweepFound
  <2> QED BY <1>2, <1>3, <2>2 DEF ReadRequest, ClockReading
<1>4. CASE Decide(h)
  <2>1. /\ t.pc = "decide" /\ requests[t.ov].status = "PENDING" /\ t.ov \in DOMAIN requests
        /\ t.kind \in {"APPROVE", "REJECT"} /\ t.at \in 1 .. now /\ t.type = "IN"
    BY <1>1, <1>4 DEF Decide, At, AnswerFound, ChecksHoldOn
  <2>2. CASE t.kind = "APPROVE"
    <3>1. /\ u.pc = "latest" /\ u.kind = t.kind /\ u.type = "IN" /\ u.ov = t.ov
          /\ u.at = t.at /\ now' = now
      BY <1>0, <1>4, <2>1, <2>2 DEF Decide, Goto, Task
    <3>2. requests' = [requests EXCEPT ![t.ov] =
                         [requests[t.ov] EXCEPT !.status = "APPROVED", !.granted = TRUE]]
      BY <1>4, <2>2 DEF Decide
    <3>3. requests[t.ov] \in Request /\ requests[t.ov].consumed = 0
      BY <2>1, ElementType DEF OnlyApprovedCited
    <3>4. requests'[t.ov].status = "APPROVED" /\ requests'[t.ov].consumed = 0
      BY <2>1, <3>2, <3>3 DEF Request
    <3>5. Unused(task[h].ov)'
      BY <3>1, <3>4 DEF Unused
    <3>6. u.at \in 1 .. now'
      BY <2>1, <3>1
    <3> QED BY <2>2, <3>1, <3>5, <3>6
            DEF Found, ClockInFound, RowFound, AnswerFound, SweepFound
  <2>3. CASE t.kind # "APPROVE"
    <3>1. u.pc = "notice"
      BY <1>0, <1>4, <2>3 DEF Decide, Goto, Task
    <3> QED BY <3>1, WaitsFound
  <2> QED BY <2>2, <2>3
<1>5. CASE ReadLatest(h)
  <2>1. /\ t.pc = "latest" /\ t.kind = "APPROVE" /\ t.type = "IN" /\ t.at \in 1 .. now
        /\ Unused(t.ov) /\ t.ov \in DOMAIN requests
    BY <1>1, <1>5 DEF ReadLatest, At, AnswerFound, ChecksHoldOn
  <2>2. CASE Goto(h, "consume")
    <3>1. /\ u.pc = "consume" /\ u.kind = "APPROVE" /\ u.ov = t.ov /\ u.at = t.at
      BY <1>0, <2>1, <2>2 DEF Goto, Task
    <3>2. Found(u)
      BY <2>1, <3>1 DEF Found, ClockInFound, RowFound, AnswerFound, SweepFound
    <3> QED BY <1>5, <3>2, FoundStays DEF ReadLatest
  <2>3. CASE MayBeInactive(t.emp) /\ task' = [task EXCEPT ![h].pc = "insert", ![h].id = t.at]
    <3>1. /\ u.pc = "insert" /\ u.kind = "APPROVE" /\ u.ov = t.ov /\ u.at = t.at
          /\ u.type = "IN" /\ u.emp = t.emp
      BY <1>0, <2>1, <2>3 DEF Task
    <3>2. Found(u)
      BY <2>1, <2>3, <3>1 DEF Found, ClockInFound, RowFound, AnswerFound, SweepFound
    <3> QED BY <1>5, <3>2, FoundStays DEF ReadLatest
  <2> QED BY <1>5, <2>2, <2>3 DEF ReadLatest
<1>6. CASE UpdateNotice(h)
  BY <1>2, <1>6 DEF UpdateNotice
<1> QED BY <1>3, <1>4, <1>5, <1>6

(* The statements that write what was found.                               *)
LEMMA WritingFound ==
  ASSUME TypeOK, NEW h \in Handlers, Found(task[h]), ChecksHoldOn(h),
         \/ CreateRequest(h) \/ NotifyRequest(h) \/ InsertPunch(h)
         \/ ConsumeOverride(h) \/ Announce(h) \/ MarkRead(h) \/ Abort(h)
  PROVE  Found(task[h])'
<1> DEFINE t == task[h]
           u == task'[h]
<1>0. t \in Task /\ task \in [Handlers -> Task]
  BY DEF TypeOK
<1>1. RowFound(t) /\ AnswerFound(t) /\ ClockInFound(t)
  BY DEF Found
<1>2. ASSUME Finish(h)
      PROVE  u.pc = "idle"
  BY <1>0, <1>2 DEF Finish, Idle
<1>3. CASE CreateRequest(h)
  <2>1. u.pc = "tell"
    BY <1>0, <1>3 DEF CreateRequest, Task
  <2> QED BY <2>1, WaitsFound
<1>4. CASE NotifyRequest(h) \/ MarkRead(h) \/ Abort(h)
  BY <1>2, <1>4, WaitsFound DEF NotifyRequest, MarkRead, Abort
<1>5. CASE InsertPunch(h)
  <2>1. t.pc = "insert" /\ t.kind \in {"CLOCK", "MANUAL", "APPROVE"}
    BY <1>1, <1>5 DEF InsertPunch, At, RowFound
  <2>2. /\ u.pc = IF t.ov # 0 THEN "consume" ELSE "announce"
        /\ u.kind = t.kind /\ u.ov = t.ov /\ u.at = t.at /\ u.emp = t.emp /\ u.type = t.type
        /\ requests' = requests /\ now' = now
    BY <1>0, <1>5 DEF InsertPunch, Goto, Task
  <2>3. CASE t.ov = 0
    <3>1. u.pc = "announce" /\ u.kind # "SWEEP"
      BY <2>1, <2>2, <2>3
    <3> QED BY <3>1, WaitsFound
  <2>4. CASE t.ov # 0
    <3>1. /\ u.pc = "consume" /\ u.kind = t.kind /\ u.ov = t.ov
          /\ u.at \in (1 .. now') \cup EditTimes
      BY <1>1, <2>1, <2>2, <2>4 DEF RowFound
    <3>2. t.kind = "APPROVE" \/ (t.kind = "CLOCK" /\ t.type = "IN")
      BY <1>1, <2>1, <2>4 DEF RowFound
    <3>3. t.ov \in DOMAIN requests /\ Unused(t.ov)
      BY <1>1, <2>1, <2>4, <3>2 DEF AnswerFound, ClockInFound, About, ChecksHoldOn
    <3>4. t.ov \in DOMAIN requests' /\ Unused(t.ov)'
      BY <2>2, <3>3 DEF Unused, InsertPunch
    <3>5. u.kind = "CLOCK" \/ u.kind = "APPROVE"
      BY <3>1, <3>2
    <3>6. RowFound(task[h])'
      BY <3>1 DEF RowFound
    <3>7. AnswerFound(task[h])'
      BY <2>2, <3>1, <3>4, <3>5 DEF AnswerFound, Unused
    <3>8. ClockInFound(task[h])' /\ SweepFound(task[h])'
      BY <3>1, <3>5 DEF ClockInFound, SweepFound
    <3> QED BY <3>6, <3>7, <3>8 DEF Found
  <2> QED BY <2>3, <2>4
<1>6. CASE ConsumeOverride(h)
  <2>1. t.kind \in {"CLOCK", "APPROVE"}
    BY <1>1, <1>6 DEF ConsumeOverride, At, AnswerFound
  <2>2. u.pc \in {"notice", "announce"} /\ u.kind = t.kind
    BY <1>0, <1>6 DEF ConsumeOverride, Goto, Task
  <2> QED BY <2>1, <2>2, WaitsFound
<1>7. CASE Announce(h)
  <2>1. Finish(h) \/ u.pc \in {"notice", "inbox"}
    BY <1>0, <1>7 DEF Announce, Goto, Task
  <2> QED BY <1>2, <2>1, WaitsFound
<1> QED BY <1>3, <1>4, <1>5, <1>6, <1>7

(* The tips that are owed are added to the ticket.                         *)
LEMMA TicketOwed ==
  ASSUME NEW day, NEW strike, NEW owed, NEW missing
  PROVE  [Ticket(day, strike, owed) EXCEPT !.owed = missing] = Ticket(day, strike, missing)
<1>1. \A auto, penalty :
        [[auto |-> auto, day |-> day, strike |-> strike, penalty |-> penalty,
          owed |-> owed] EXCEPT !.owed = missing]
        = [auto |-> auto, day |-> day, strike |-> strike, penalty |-> penalty,
           owed |-> missing]
  OBVIOUS
<1> QED BY <1>1, Zenon DEF Ticket

(* The statements of a sweep.                                              *)
LEMMA SweepingFound ==
  ASSUME TypeOK, IsFiniteSet(punches), NEW h \in Handlers, Found(task[h]), SweepStep(h)
  PROVE  Found(task[h])'
<1> DEFINE t == task[h]
           u == task'[h]
<1>0. t \in Task /\ task \in [Handlers -> Task] /\ now \in Nat
  BY DEF TypeOK
<1>1. SweepFound(t)
  BY DEF Found
<1>2. ASSUME Finish(h)
      PROVE  Found(task[h])'
  <2>1. u.pc = "idle"
    BY <1>0, <1>2 DEF Finish, Idle
  <2> QED BY <2>1, WaitsFound
<1>3. ASSUME NEW todo, \A e \in todo : Overstays(e, t), t.kind = "SWEEP", t.at \in 1 .. now,
             task' = [task EXCEPT ![h].pc = "recheck", ![h].todo = todo,
                                  ![h].id = 0, ![h].note = PlainNote]
      PROVE  Found(u)
  <2>1. u.pc = "recheck" /\ u.kind = "SWEEP" /\ u.at = t.at /\ u.todo = todo
    BY <1>0, <1>3 DEF Task
  <2>2. \A e \in u.todo : Overstays(e, u)
    BY <1>3, <2>1 DEF Overstays
  <2> HIDE DEF u
  <2> QED BY <1>3, <2>1, <2>2 DEF Found, ClockInFound, RowFound, AnswerFound, SweepFound
<1>4. CASE ReadCandidates(h)
  <2>1. t.pc = "sweep" /\ t.kind = "SWEEP" /\ t.at \in 1 .. now
    BY <1>1, <1>4 DEF ReadCandidates, At, SweepFound
  <2>2. ASSUME NEW active,
               task' = [task EXCEPT ![h].pc = "recheck",
                                    ![h].todo = {e \in Swept(active) : Due(e, t.at)}]
        PROVE  Found(u)
    <3> DEFINE due == {e \in Swept(active) : Due(e, t.at)}
    <3>1. \A e \in due : Overstays(e, t)
      BY DEF Swept, Overstays
    <3>2. u.pc = "recheck" /\ u.kind = "SWEEP" /\ u.at = t.at /\ u.todo = due
      <4> HIDE DEF due
      <4> QED BY <1>0, <2>1, <2>2 DEF Task, due
    <3>3. \A e \in u.todo : Overstays(e, u)
      BY <3>1, <3>2 DEF Overstays
    <3> HIDE DEF u, due
    <3> QED BY <2>1, <3>2, <3>3 DEF Found, ClockInFound, RowFound, AnswerFound, SweepFound
  <2>3. Finish(h) \/ \E active : task' = [task EXCEPT ![h].pc = "recheck",
                                    ![h].todo = {e \in Swept(active) : Due(e, t.at)}]
    BY <1>4 DEF ReadCandidates
  <2>4. Finish(h) \/ Found(u)
    BY <2>2, <2>3
  <2> QED BY <1>2, <1>4, <2>4, FoundStays DEF ReadCandidates
<1>5. CASE Recheck(h)
  <2>1. /\ t.pc = "recheck" /\ t.kind = "SWEEP" /\ t.at \in 1 .. now
        /\ \A e \in t.todo : Overstays(e, t)
    BY <1>1, <1>5 DEF Recheck, At, SweepFound
  <2>2. PICK e \in t.todo :
          \/ /\ MayBeActive(e)
             /\ task' = [task EXCEPT ![h].pc = "count", ![h].emp = e, ![h].todo = @ \ {e}]
          \/ Continue(h, t.todo \ {e})
    BY <1>5 DEF Recheck
  <2>3. ASSUME MayBeActive(e),
               task' = [task EXCEPT ![h].pc = "count", ![h].emp = e, ![h].todo = @ \ {e}]
        PROVE  Found(u)
    <3>1. /\ u.pc = "count" /\ u.kind = "SWEEP" /\ u.at = t.at /\ u.emp = e
          /\ u.todo = t.todo \ {e}
      BY <1>0, <2>1, <2>3 DEF Task
    <3>2. Overstays(u.emp, u) /\ MayBeActive(u.emp) /\ \A x \in u.todo : Overstays(x, u)
      BY <2>1, <2>3, <3>1 DEF Overstays
    <3> HIDE DEF u
    <3> QED BY <2>1, <3>1, <3>2 DEF Found, ClockInFound, RowFound, AnswerFound, SweepFound
  <2>4. Continue(h, t.todo \ {e}) => Finish(h) \/ Found(u)
    <3> DEFINE todo == t.todo \ {e}
    <3>1. \A x \in todo : Overstays(x, t)
      BY <2>1
    <3> HIDE DEF todo
    <3>2. Continue(h, todo) => Finish(h) \/ Found(u)
      BY <1>3, <2>1, <3>1 DEF Continue
    <3> QED BY <3>2 DEF todo
  <2>5. Finish(h) \/ Found(u)
    BY <2>2, <2>3, <2>4
  <2> QED BY <1>2, <1>5, <2>5, FoundStays DEF Recheck
<1>6. CASE CountStrikes(h)
  <2> DEFINE strike == Cardinality(PriorStrikes(t.emp, t.at)) + 1
             note == [auto |-> TRUE, day |-> Day(t.at), strike |-> strike,
                      penalty |-> strike > StrikeLimit, owed |-> {}]
  <2>1. /\ t.pc = "count" /\ t.kind = "SWEEP" /\ t.at \in 1 .. now
        /\ Overstays(t.emp, t) /\ MayBeActive(t.emp)
        /\ \A e \in t.todo : Overstays(e, t)
    BY <1>1, <1>6 DEF CountStrikes, At, SweepFound
  <2>2. task' = [task EXCEPT ![h].pc = IF t.emp \in Servers THEN "owes" ELSE "clockout",
                             ![h].note = note]
    BY <1>6 DEF CountStrikes
  <2>3. /\ u.pc = IF t.emp \in Servers THEN "owes" ELSE "clockout"
        /\ u.kind = "SWEEP" /\ u.at = t.at /\ u.emp = t.emp /\ u.todo = t.todo /\ u.note = note
    <3> HIDE DEF note
    <3> QED BY <1>0, <2>1, <2>2 DEF Task
  <2>4. u.note = Counted(u, {})
    BY <2>3 DEF Counted, Ticket
  <2>5. t.emp \notin Servers => Missing(u) = {}
    BY <2>3 DEF Missing
  <2>6. \/ u.pc = "owes" /\ u.emp \in Servers
        \/ u.pc = "clockout" /\ u.note = Counted(u, Missing(u))
    BY <2>3, <2>4, <2>5
  <2>7. /\ u.kind = "SWEEP" /\ u.at \in 1 .. now
        /\ Overstays(u.emp, u) /\ MayBeActive(u.emp) /\ \A e \in u.todo : Overstays(e, u)
    BY <2>1, <2>3 DEF Overstays
  <2>8. Found(u)
    <3> HIDE DEF u
    <3> QED BY <2>4, <2>6, <2>7 DEF Found, ClockInFound, RowFound, AnswerFound, SweepFound
  <2> QED BY <1>6, <2>8, FoundStays DEF CountStrikes
<1>7. CASE ReadTips(h)
  <2> DEFINE owed == {d \in {Day(t.at)} : <<t.emp, d>> \notin tips}
  <2>1. /\ t.pc = "owes" /\ t.kind = "SWEEP" /\ t.at \in 1 .. now /\ t.emp \in Servers
        /\ Overstays(t.emp, t) /\ MayBeActive(t.emp) /\ t.note = Counted(t, {})
        /\ \A e \in t.todo : Overstays(e, t)
    BY <1>1, <1>7 DEF ReadTips, At, SweepFound
  <2>2. task' = [task EXCEPT ![h].pc = "clockout", ![h].note.owed = owed]
    BY <1>7 DEF ReadTips
  <2>3. /\ u.pc = "clockout" /\ u.kind = "SWEEP" /\ u.at = t.at /\ u.emp = t.emp
        /\ u.todo = t.todo /\ u.note = [t.note EXCEPT !.owed = owed]
    <3> HIDE DEF owed
    <3> QED BY <1>0, <2>1, <2>2 DEF Task
  <2>4. owed = Missing(u)
    BY <2>1, <2>3 DEF Missing
  <2>5. u.note = Counted(u, Missing(u))
    <3>1. \A missing : Counted(u, missing) = [Counted(t, {}) EXCEPT !.owed = missing]
      <4>1. u.emp = t.emp /\ u.at = t.at
        BY <2>3
      <4> HIDE DEF u, t
      <4> QED BY <4>1, TicketOwed DEF Counted
    <3> QED BY <2>1, <2>3, <2>4, <3>1
  <2>6. /\ u.at \in 1 .. now
        /\ Overstays(u.emp, u) /\ MayBeActive(u.emp) /\ \A e \in u.todo : Overstays(e, u)
    BY <2>1, <2>3 DEF Overstays
  <2>7. u.pc = "clockout" /\ u.kind = "SWEEP"
    BY <2>3
  <2>8. Found(u)
    <3> HIDE DEF u
    <3> QED BY <2>5, <2>6, <2>7 DEF Found, ClockInFound, RowFound, AnswerFound, SweepFound
  <2> QED BY <1>7, <2>8, FoundStays DEF ReadTips
<1>8. CASE InsertClockOut(h)
  <2>1. /\ t.kind = "SWEEP" /\ t.at \in 1 .. now /\ \A e \in t.todo : Overstays(e, t)
    BY <1>1, <1>8 DEF InsertClockOut, At, SweepFound
  <2>2. /\ u.pc = "announce" /\ u.kind = "SWEEP" /\ u.at = t.at /\ u.todo = t.todo
        /\ now' = now + 1 /\ roster' = roster
    BY <1>0, <1>8, <2>1 DEF InsertClockOut, ClockReading, Task
  <2>3. u.at \in 1 .. now'
    BY <1>0, <2>1, <2>2
  <2>4. \A e \in u.todo : Overstays(e, task[h])'
    BY <2>1, <2>2 DEF Overstays, Due, ShiftOn, Day, Slot
  <2> QED BY <2>2, <2>3, <2>4 DEF Found, ClockInFound, RowFound, AnswerFound, SweepFound
<1>9. CASE AnnounceClockOut(h)
  <2>1. /\ t.pc = "announce" /\ t.kind = "SWEEP" /\ t.at \in 1 .. now
        /\ \A e \in t.todo : Overstays(e, t)
    BY <1>1, <1>9 DEF AnnounceClockOut, At, SweepFound
  <2>2. Finish(h) \/ Found(u)
    BY <1>3, <1>9, <2>1 DEF AnnounceClockOut, Continue
  <2> QED BY <1>2, <1>9, <2>2, FoundStays DEF AnnounceClockOut
<1> QED BY <1>4, <1>5, <1>6, <1>7, <1>8, <1>9 DEF SweepStep

LEMMA OwnFound ==
  ASSUME IInv, OnlyApprovedCited, NEW h \in Handlers, Found(task[h]), HandlerStep(h)
  PROVE  Found(task[h])'
<1>1. TypeOK /\ IsFiniteSet(punches) /\ ChecksHoldOn(h)
  BY DEF IInv, LastingChecksHoldOn
<1>2. CASE \/ CheckActive(h) \/ RefuseOutsideGeofence(h) \/ ReadOwedDays(h)
           \/ CheckOwedTips(h) \/ CheckRoster(h) \/ FindApproved(h) \/ FindPending(h)
           \/ CheckTip(h) \/ ReadInbox(h)
  <2>1. UNCHANGED <<now, punches, requests, tips, roster>>
    BY <1>2 DEF CheckActive, RefuseOutsideGeofence, ReadOwedDays, CheckOwedTips,
                CheckRoster, FindApproved, FindPending, CheckTip, ReadInbox
  <2> QED BY <1>1, <1>2, <2>1, ReadingFound, FoundStays
<1> QED
  BY <1>1, <1>2, StartFound, AnsweringFound, WritingFound, SweepingFound
  DEF HandlerStep, PunchStep

-----------------------------------------------------------------------------
(* Only an approval is used up or cited.                                   *)

(* Replacing one request leaves the others.                                *)
LEMMA RequestPut ==
  ASSUME NEW i, NEW r, requests' = [requests EXCEPT ![i] = r]
  PROVE  /\ DOMAIN requests' = DOMAIN requests
         /\ \A j \in DOMAIN requests : requests'[j] = IF j = i THEN r ELSE requests[j]
OBVIOUS

(* A new request comes after the others.                                   *)
LEMMA RequestAdd ==
  ASSUME TypeOK, NEW r, requests' = Append(requests, r)
  PROVE  /\ DOMAIN requests = 1 .. Len(requests) /\ Len(requests) \in Nat
         /\ DOMAIN requests' = 1 .. (Len(requests) + 1)
         /\ \A i \in DOMAIN requests : i \in DOMAIN requests' /\ requests'[i] = requests[i]
         /\ requests'[Len(requests) + 1] = r
         /\ \A i \in DOMAIN requests' : i \in DOMAIN requests \/ i = Len(requests) + 1
<1>1. requests \in Seq(Request)
  BY DEF TypeOK
<1>2. /\ DOMAIN requests = 1 .. Len(requests) /\ Len(requests) \in Nat
      /\ DOMAIN requests' = 1 .. (Len(requests) + 1)
      /\ \A i \in 1 .. Len(requests) : requests'[i] = requests[i]
      /\ requests'[Len(requests) + 1] = r
  BY SMTT(30), <1>1
<1> QED BY <1>2

WritesRequest(h) ==
  NotifyRequest(h) \/ UpdateNotice(h) \/ Decide(h) \/ ConsumeOverride(h)

(* What a handler may do to a request: ask for one, decide one that is     *)
(* pending, use up one that is approved, or tell of it.                    *)
LEMMA RequestStep ==
  ASSUME TypeOK, NEW h \in Handlers, HandlerStep(h), Found(task[h])
  PROVE  \/ requests' = requests /\ ~WritesRequest(h)
         \/ CreateRequest(h)
         \/ LET i == task[h].ov IN
            /\ WritesRequest(h) /\ DOMAIN requests' = DOMAIN requests
            /\ \A j \in DOMAIN requests : j # i => requests'[j] = requests[j]
            /\ i \in DOMAIN requests =>
                 /\ requests'[i].emp = requests[i].emp /\ requests'[i].day = requests[i].day
                 /\ \/ /\ NotifyRequest(h) \/ UpdateNotice(h)
                       /\ requests'[i].status = requests[i].status
                       /\ requests'[i].consumed = requests[i].consumed
                       /\ requests'[i].notice =
                            IF task[h].pc = "tell" THEN "PENDING" ELSE NoticeStatus(task[h].kind)
                    \/ /\ Decide(h) /\ requests[i].status = "PENDING"
                       /\ requests'[i].status = NoticeStatus(task[h].kind)
                       /\ requests'[i].consumed = requests[i].consumed
                       /\ requests'[i].notice = requests[i].notice
                    \/ /\ ConsumeOverride(h) /\ Unused(i)
                       /\ requests'[i].status = "APPROVED"
                       /\ requests'[i].consumed = task[h].at
                       /\ requests'[i].notice = requests[i].notice
<1> DEFINE t == task[h]
           i == t.ov
<1>0. t \in Task /\ AnswerFound(t) /\ (i \in DOMAIN requests => requests[i] \in Request)
  BY ElementType DEF TypeOK, Found
<1>8. NotifyRequest(h) \/ UpdateNotice(h) \/ Decide(h) \/ ConsumeOverride(h) => WritesRequest(h)
  BY DEF WritesRequest
<1>1. CASE NotifyRequest(h)
  <2> DEFINE r == [requests[i] EXCEPT !.notice = "PENDING"]
  <2>1. requests' = [requests EXCEPT ![i] = r] /\ t.pc = "tell"
    BY <1>1 DEF NotifyRequest, At
  <2>2. i \in DOMAIN requests =>
          /\ r.emp = requests[i].emp /\ r.day = requests[i].day
          /\ r.status = requests[i].status /\ r.consumed = requests[i].consumed
          /\ r.notice = "PENDING"
    BY <1>0 DEF Request
  <2> HIDE DEF r
  <2>3. /\ DOMAIN requests' = DOMAIN requests
        /\ \A j \in DOMAIN requests : requests'[j] = IF j = i THEN r ELSE requests[j]
    BY <2>1, RequestPut
  <2> QED BY <1>1, <1>8, <2>1, <2>2, <2>3
<1>2. CASE UpdateNotice(h)
  <2> DEFINE r == [requests[i] EXCEPT !.notice = NoticeStatus(t.kind)]
  <2>1. requests' = [requests EXCEPT ![i] = r] /\ t.pc = "notice"
    BY <1>2 DEF UpdateNotice, At
  <2>2. i \in DOMAIN requests =>
          /\ r.emp = requests[i].emp /\ r.day = requests[i].day
          /\ r.status = requests[i].status /\ r.consumed = requests[i].consumed
          /\ r.notice = NoticeStatus(t.kind)
    BY <1>0 DEF Request
  <2> HIDE DEF r
  <2>3. /\ DOMAIN requests' = DOMAIN requests
        /\ \A j \in DOMAIN requests : requests'[j] = IF j = i THEN r ELSE requests[j]
    BY <2>1, RequestPut
  <2> QED BY <1>2, <1>8, <2>1, <2>2, <2>3
<1>3. CASE Decide(h)
  <2>1. requests[i].status = "PENDING" /\ t.kind \in {"APPROVE", "REJECT"}
    BY <1>0, <1>3 DEF Decide, At, AnswerFound
  <2>2. PICK r : /\ requests' = [requests EXCEPT ![i] = r]
                 /\ r = IF t.kind = "APPROVE"
                        THEN [requests[i] EXCEPT !.status = "APPROVED", !.granted = TRUE]
                        ELSE [requests[i] EXCEPT !.status = "REJECTED"]
    BY <1>3 DEF Decide
  <2>3. i \in DOMAIN requests =>
          /\ r.emp = requests[i].emp /\ r.day = requests[i].day
          /\ r.status = NoticeStatus(t.kind) /\ r.consumed = requests[i].consumed
          /\ r.notice = requests[i].notice
    BY <1>0, <2>2 DEF Request, NoticeStatus
  <2>4. /\ DOMAIN requests' = DOMAIN requests
        /\ \A j \in DOMAIN requests : requests'[j] = IF j = i THEN r ELSE requests[j]
    BY <2>2, RequestPut
  <2> QED BY <1>3, <1>8, <2>1, <2>3, <2>4
<1>4. CASE ConsumeOverride(h)
  <2> DEFINE r == Consumed(requests[i], t)
  <2>1. requests' = [requests EXCEPT ![i] = r]
    BY <1>4 DEF ConsumeOverride
  <2>2. Unused(i)
    BY <1>0, <1>4 DEF ConsumeOverride, At, AnswerFound
  <2>3. i \in DOMAIN requests =>
          /\ r.emp = requests[i].emp /\ r.day = requests[i].day
          /\ r.status = "APPROVED" /\ r.consumed = t.at
          /\ r.notice = requests[i].notice
    BY <1>0, <2>2 DEF Request, Consumed, Unused, Task
  <2> HIDE DEF r
  <2>4. /\ DOMAIN requests' = DOMAIN requests
        /\ \A j \in DOMAIN requests : requests'[j] = IF j = i THEN r ELSE requests[j]
    BY <2>1, RequestPut
  <2> QED BY <1>4, <1>8, <2>2, <2>3, <2>4
<1>5. CASE UNCHANGED requests /\ ~WritesRequest(h)
  BY <1>5
<1>6. CASE CreateRequest(h)
  BY <1>6
<1> HIDE DEF t, i
<1>7. WritesRequest(h) \/ CreateRequest(h) \/ UNCHANGED requests
  BY ZenonT(60)
  DEF HandlerStep, StartRequest, StartPunch, StartResolve, StartManual, StartSweep,
      PunchStep, CheckActive, RefuseOutsideGeofence, ReadOwedDays, CheckOwedTips,
      CheckRoster, FindApproved, FindPending, CheckTip, InsertPunch, Announce, ReadInbox,
      MarkRead, ReadRequest, ReadLatest, Abort, SweepStep, ReadCandidates, Recheck,
      CountStrikes, ReadTips, InsertClockOut, AnnounceClockOut, WritesRequest
<1> QED BY <1>1, <1>2, <1>3, <1>4, <1>5, <1>6, <1>7 DEF WritesRequest

(* A row was there before, corrected or not, or has just been written.     *)
LEMMA RowStep ==
  ASSUME TypeOK, [AttendanceNext]_vars, NEW p \in punches'
  PROVE  \/ \E q \in punches : p.ov = q.ov /\ p.id = q.id
         \/ \E h \in Handlers : InsertPunch(h) /\ p = RowOf(task[h])
         \/ \E h \in Handlers : /\ InsertClockOut(h)
                                /\ p.ov = 0 /\ p.id = now + 1 /\ task'[h].id = now + 1
<1>1. ASSUME NEW h \in Handlers, InsertPunch(h), p \notin punches
      PROVE  p = RowOf(task[h])
  BY <1>1 DEF InsertPunch
<1>2. ASSUME NEW h \in Handlers, InsertClockOut(h), p \notin punches
      PROVE  p.ov = 0 /\ p.id = now + 1 /\ task'[h].id = now + 1
  <2>1. p.ov = 0 /\ p.id = now + 1
    BY <1>2 DEF InsertClockOut, ClockReading
  <2>2. task'[h].id = now + 1
    BY <1>2 DEF InsertClockOut, ClockReading, TypeOK, Task
  <2> QED BY <2>1, <2>2
<1>3. ASSUME UpdateRecord, p \notin punches
      PROVE  \E q \in punches : p.ov = q.ov /\ p.id = q.id
  <2>1. PICK q \in punches : \E type, t, note :
          p = [q EXCEPT !.type = type, !.at = t, !.note = note, !.via = "MANUAL"]
    BY <1>3 DEF UpdateRecord
  <2>2. q \in Punch
    BY DEF TypeOK
  <2>3. p.ov = q.ov /\ p.id = q.id
    BY <2>1, <2>2 DEF Punch
  <2> QED BY <2>3
<1>4. CASE p \in punches
  BY <1>4
<1>5. CASE p \notin punches
  BY ZenonT(60), <1>1, <1>2, <1>3, <1>5
  DEF AttendanceNext, Next, vars, StartRequest, StartPunch, StartResolve, StartManual,
      PunchStep, CheckActive, RefuseOutsideGeofence, ReadOwedDays, CheckOwedTips,
      CheckRoster, FindApproved, FindPending, CreateRequest, NotifyRequest, CheckTip,
      ConsumeOverride, Announce, ReadInbox, MarkRead, ReadRequest, Decide, ReadLatest,
      UpdateNotice, Abort, OtherRequest, SubmitTip, UpdateSchedule, SendMessage,
      MarkNoticeRead, MarkAllRead,
      DeleteRecord, Tick, Rest, StartSweep, SweepStep, ReadCandidates, Recheck,
      CountStrikes, ReadTips, AnnounceClockOut
<1> QED BY <1>4, <1>5

(* The row of a handler cites nothing, or an approval not used up yet.     *)
LEMMA WrittenCites ==
  ASSUME TypeOK, NEW h \in Handlers, Found(task[h]), ChecksHoldOn(h), InsertPunch(h),
         task[h].ov # 0
  PROVE  task[h].ov \in DOMAIN requests /\ Unused(task[h].ov)
<1> DEFINE t == task[h]
<1>1. t.pc = "insert" /\ t \in Task
  BY DEF InsertPunch, At, TypeOK
<1>2. RowFound(t) /\ AnswerFound(t) /\ ClockInFound(t)
  BY DEF Found
<1>3. CASE t.kind = "CLOCK" /\ t.type = "IN"
  BY <1>1, <1>2, <1>3 DEF ClockInFound, About
<1>4. CASE t.kind = "APPROVE"
  BY <1>1, <1>2, <1>4 DEF AnswerFound, ChecksHoldOn
<1>5. CASE t.kind # "APPROVE" /\ (t.kind = "CLOCK" => t.type # "IN")
  BY <1>1, <1>2, <1>5 DEF RowFound
<1> QED BY <1>3, <1>4, <1>5

(* Used up implies approved, and approved stays approved.                  *)
LEMMA ApprovedStays ==
  ASSUME TypeOK, NEW h \in Handlers, HandlerStep(h), Found(task[h]), OnlyApprovedCited
  PROVE  /\ \A i \in DOMAIN requests : /\ i \in DOMAIN requests'
                                       /\ requests[i].status = "APPROVED"
                                            => requests'[i].status = "APPROVED"
         /\ \A i \in DOMAIN requests' :
              requests'[i].consumed # 0 => requests'[i].status = "APPROVED"
<1> DEFINE r == [emp |-> task[h].emp, day |-> Day(task[h].at), status |-> "PENDING",
                 consumed |-> 0, granted |-> FALSE, notice |-> "NONE"]
<1>1. CASE CreateRequest(h)
  <2>1. requests' = Append(requests, r) /\ r.consumed = 0
    BY <1>1 DEF CreateRequest
  <2> HIDE DEF r
  <2> QED BY <2>1, RequestAdd DEF OnlyApprovedCited
<1> QED BY <1>1, RequestStep DEF OnlyApprovedCited, Unused

LEMMA StepKeepsCited ==
  ASSUME Serial, IInv, SerialInv, [AttendanceNext]_vars
  PROVE  OnlyApprovedCited'
<1>0. TypeOK /\ OnlyApprovedCited /\ \A h \in Handlers : Found(task[h]) /\ ChecksHoldOn(h)
  BY DEF IInv, SerialInv, LastingChecksHoldOn
<1> DEFINE Kept ==
      /\ \A i \in DOMAIN requests : /\ i \in DOMAIN requests'
                                    /\ requests[i].status = "APPROVED"
                                         => requests'[i].status = "APPROVED"
      /\ \A i \in DOMAIN requests' :
           requests'[i].consumed # 0 => requests'[i].status = "APPROVED"
<1>1. Kept
  <2>1. ASSUME NEW h \in Handlers, HandlerStep(h)
        PROVE  Kept
    BY <1>0, <2>1, ApprovedStays
  <2>2. CASE UNCHANGED requests
    BY <1>0, <2>2 DEF OnlyApprovedCited
  <2> QED BY <2>1, <2>2
          DEF AttendanceNext, Next, HandlerStep, OtherRequest, SubmitTip, UpdateSchedule,
              SendMessage,
              MarkNoticeRead, MarkAllRead, UpdateRecord, DeleteRecord, Tick, Rest, vars
<1>2. ASSUME NEW p \in punches', p.ov # 0
      PROVE  p.ov \in DOMAIN requests /\ requests[p.ov].status = "APPROVED"
  <2>1. CASE \E q \in punches : p.ov = q.ov /\ p.id = q.id
    BY <1>0, <1>2, <2>1 DEF OnlyApprovedCited
  <2>2. ASSUME NEW h \in Handlers, InsertPunch(h), p = RowOf(task[h])
        PROVE  p.ov \in DOMAIN requests /\ requests[p.ov].status = "APPROVED"
    <3>1. p.ov = task[h].ov
      BY <2>2 DEF RowOf
    <3> QED BY <1>0, <1>2, <2>2, <3>1, WrittenCites DEF Unused
  <2> QED BY <1>0, <1>2, <2>1, <2>2, RowStep
<1> QED BY <1>1, <1>2 DEF OnlyApprovedCited

LEMMA StepKeepsSerial ==
  ASSUME Serial, IInv, SerialInv, [AttendanceNext]_vars
  PROVE  SerialInv'
<1>0. TypeOK /\ OnlyApprovedCited /\ \A h \in Handlers : Found(task[h])
  BY DEF IInv, SerialInv
<1>1. OnlyApprovedCited'
  BY StepKeepsCited
<1>2. ASSUME NEW h \in Handlers, HandlerStep(h)
      PROVE  \A g \in Handlers : Found(task[g])'
  <2>1. Found(task[h])'
    BY <1>0, <1>2, OwnFound
  <2>2. \A g \in Handlers : g = h
    BY DEF Serial
  <2> QED BY <2>1, <2>2
<1>3. CASE OtherRequest
  <2>1. \A h \in Handlers : task'[h].pc = "idle"
    BY <1>3, OneStatementRests
  <2> QED BY <1>1, <2>1, WaitsFound DEF SerialInv
<1>4. CASE Tick \/ Rest \/ UNCHANGED vars
  <2>1. /\ UNCHANGED <<punches, requests, tips, roster, task>>
        /\ now' = now \/ now' = now + 1
    BY <1>4 DEF Tick, Rest, vars, ClockReading
  <2>2. \A h \in Handlers : task'[h] = task[h] /\ Found(task[h])
    BY <1>0, <2>1
  <2>3. \A h \in Handlers : Found(task[h])'
    BY <1>0, <2>1, <2>2, FoundStays
  <2> QED BY <1>1, <2>3 DEF SerialInv
<1> QED
  BY <1>1, <1>2, <1>3, <1>4 DEF AttendanceNext, Next, HandlerStep, SerialInv

(* Served one after the other, a request in progress relies only on what   *)
(* is still so: the shift, the tips, the schedule or the approval it found *)
(* when it looked; and only an approval is ever used up or cited.          *)
THEOREM SerialInvariant == Serial /\ AttendanceSpec => []SerialInv
<1> SUFFICES ASSUME Serial PROVE AttendanceSpec => []SerialInv
  OBVIOUS
<1>1. TableInit => SerialInv
  <2> SUFFICES ASSUME TableInit PROVE SerialInv
    OBVIOUS
  <2>1. \A h \in Handlers : task[h].pc = "idle"
    BY DEF TableInit, Idle
  <2>2. OnlyApprovedCited
    BY DEF TableInit, OnlyApprovedCited
  <2> QED BY <2>1, <2>2, WaitsFound DEF SerialInv
<1>2. IInv /\ SerialInv /\ [AttendanceNext]_vars => SerialInv'
  BY StepKeepsSerial
<1> QED BY <1>1, <1>2, ChecksHold, PTL DEF AttendanceSpec

(* Served one after the other, a request that was rejected is never used   *)
(* up and no punch cites it, whatever the crashes and the corrections.     *)
THEOREM RejectedStayOut == Serial /\ AttendanceSpec => []RejectedAdmitsNobody
<1> SUFFICES ASSUME Serial PROVE AttendanceSpec => []RejectedAdmitsNobody
  OBVIOUS
<1>1. IInv /\ SerialInv => RejectedAdmitsNobody
  <2> SUFFICES ASSUME IInv, SerialInv, NEW i \in DOMAIN requests,
                      requests[i].status = "REJECTED"
               PROVE  requests[i].consumed = 0 /\ \A p \in punches : p.ov # i
    BY DEF RejectedAdmitsNobody
  <2>1. requests \in Seq(Request)
    BY DEF IInv, TypeOK
  <2>2. i # 0
    BY <2>1
  <2> QED BY <2>2 DEF SerialInv, OnlyApprovedCited
<1> QED BY <1>1, ChecksHold, SerialInvariant, PTL

-----------------------------------------------------------------------------
(* Manager messages.                                                       *)

(* A message is unread until it is shown or filed, none is shown before an *)
(* older unread one, and the one about to be marked is the oldest of them. *)
Settled(m) == IF m.unread THEN m.shown = 0 /\ ~m.filed
              ELSE m.shown = IF m.filed THEN 0 ELSE 1

InboxInv ==
  /\ \A m \in DOMAIN mail :
       /\ Settled(mail[m])
       /\ \A n \in DOMAIN mail : n < m /\ mail[n].emp = mail[m].emp /\ mail[n].unread
                                   => mail[m].shown = 0
  /\ \A h \in Handlers :
       LET t == task[h] IN
       At(h, "mark") =>
         /\ t.msg \in DOMAIN mail /\ mail[t.msg].unread
         /\ \A n \in DOMAIN mail : mail[n].emp = mail[t.msg].emp /\ mail[n].unread => t.msg <= n

(* The statement that each statement leads to.                             *)
LEMMA Flow ==
  ASSUME TypeOK, NEW h \in Handlers
  PROVE  LET next == task'[h].pc IN
         /\ StartPunch(h) => next \in {"active", "tipped", "insert"}
         /\ StartResolve(h) => next = "resolve"
         /\ StartManual(h) => next = "insert"
         /\ StartSweep(h) => next = "sweep"
         /\ CheckActive(h) => next \in {"idle", "owed"}
         /\ ReadOwedDays(h) => next \in {"roster", "tips"}
         /\ CheckOwedTips(h) => next \in {"idle", "roster"}
         /\ CheckRoster(h) => next \in {"approved", "insert"}
         /\ FindApproved(h) => next \in {"insert", "pending"}
         /\ FindPending(h) => next \in {"idle", "request"}
         /\ CreateRequest(h) => next = "tell"
         /\ CheckTip(h) => next \in {"idle", "insert"}
         /\ InsertPunch(h) => next = IF task[h].ov # 0 THEN "consume" ELSE "announce"
         /\ ConsumeOverride(h) => next = IF task[h].id = 0 THEN "notice" ELSE "announce"
         /\ Announce(h) => next \in {"idle", "notice", "inbox"}
         /\ ReadInbox(h) => next \in {"idle", "mark"}
         /\ ReadRequest(h) => next \in {"idle", "decide"}
         /\ Decide(h) => next \in {"latest", "notice"}
         /\ ReadLatest(h) => next \in {"consume", "insert"}
         /\ RefuseOutsideGeofence(h) \/ NotifyRequest(h) \/ MarkRead(h) \/ UpdateNotice(h)
              \/ Abort(h) => next = "idle"
         /\ InsertClockOut(h) => next = "announce"
         /\ SweepStep(h) => InsertClockOut(h) \/ next \in {"idle", "recheck", "count", "owes", "clockout"}
<1> DEFINE next == task'[h].pc
<1>0. task[h] \in Task /\ task \in [Handlers -> Task]
  BY DEF TypeOK
<1>1. /\ Finish(h) => next = "idle"
      /\ \A label : Goto(h, label) => next = label
  BY <1>0 DEF Finish, Idle, Goto, Task
<1>2. StartPunch(h) => next \in {"active", "tipped", "insert"}
  <2> SUFFICES ASSUME StartPunch(h) PROVE next \in {"active", "tipped", "insert"}
    OBVIOUS
  <2>1. PICK e \in Employees, type \in PunchTypes, at \in {ClockReading} \cup EditTimes :
          task' = [task EXCEPT ![h] =
                    [Idle EXCEPT !.kind = "CLOCK", !.type = type, !.emp = e,
                                 !.at = at, !.id = ClockReading,
                                 !.pc = FirstCheck(type)]]
    BY ZenonT(60) DEF StartPunch
  <2>2. next = FirstCheck(type)
    BY <1>0, <2>1, IdleType DEF Idle
  <2> QED BY <2>2 DEF FirstCheck
<1>3. /\ StartResolve(h) => next = "resolve"
      /\ StartManual(h) => next = "insert"
      /\ StartSweep(h) => next = "sweep"
  <2>1. StartResolve(h) => next = "resolve"
    BY <1>0 DEF StartResolve, Idle
  <2>2. StartManual(h) => next = "insert"
    BY <1>0 DEF StartManual, Idle
  <2>3. StartSweep(h) => next = "sweep"
    BY <1>0 DEF StartSweep, Idle
  <2> QED BY <2>1, <2>2, <2>3
<1>4. /\ CheckActive(h) => next \in {"idle", "owed"}
      /\ FindPending(h) => next \in {"idle", "request"}
      /\ CheckTip(h) => next \in {"idle", "insert"}
      /\ InsertPunch(h) => next = IF task[h].ov # 0 THEN "consume" ELSE "announce"
      /\ ConsumeOverride(h) => next = IF task[h].id = 0 THEN "notice" ELSE "announce"
  BY <1>1 DEF CheckActive, FindPending, CheckTip, InsertPunch, ConsumeOverride
<1>5. /\ Announce(h) => next \in {"idle", "notice", "inbox"}
      /\ Decide(h) => next \in {"latest", "notice"}
      /\ RefuseOutsideGeofence(h) \/ NotifyRequest(h) \/ MarkRead(h) \/ UpdateNotice(h)
           \/ Abort(h) => next = "idle"
  BY <1>1 DEF Announce, Decide, RefuseOutsideGeofence, NotifyRequest, MarkRead,
              UpdateNotice, Abort
<1>6. ReadOwedDays(h) => next \in {"roster", "tips"}
  BY <1>0 DEF ReadOwedDays, Task
<1>7. CheckOwedTips(h) => next \in {"idle", "roster"}
  BY <1>0, <1>1 DEF CheckOwedTips, Task
<1>8. CheckRoster(h) => next \in {"approved", "insert"}
  BY <1>0 DEF CheckRoster, Task
<1>9. FindApproved(h) => next \in {"insert", "pending"}
  <2>1. ASSUME NEW i, task' = [task EXCEPT ![h].pc = "insert", ![h].ov = i]
        PROVE  next = "insert"
    BY <1>0, <2>1 DEF Task
  <2> QED BY <1>1, <2>1 DEF FindApproved
<1>10. CreateRequest(h) => next = "tell"
  BY <1>0 DEF CreateRequest, Task
<1>11. ReadInbox(h) => next \in {"idle", "mark"}
  <2>1. ASSUME NEW m, task' = [task EXCEPT ![h].pc = "mark", ![h].msg = m]
        PROVE  next = "mark"
    BY <1>0, <2>1 DEF Task
  <2> QED BY <1>1, <2>1 DEF ReadInbox
<1>12. ReadRequest(h) => next \in {"idle", "decide"}
  BY <1>0, <1>1 DEF ReadRequest, Task
<1>13. ReadLatest(h) => next \in {"consume", "insert"}
  BY <1>0, <1>1 DEF ReadLatest, Task
<1>14. InsertClockOut(h) => next = "announce"
  BY <1>0 DEF InsertClockOut, Task
<1>15. SweepStep(h) => InsertClockOut(h) \/ next \in {"idle", "recheck", "count", "owes", "clockout"}
  <2>1. ASSUME NEW todo, Continue(h, todo)
        PROVE  next \in {"idle", "recheck"}
    BY <1>0, <1>1, <2>1 DEF Continue, Task
  <2>2. ReadCandidates(h) => next \in {"idle", "recheck"}
    <3>1. ASSUME NEW due, task' = [task EXCEPT ![h].pc = "recheck", ![h].todo = due]
          PROVE  next = "recheck"
      BY <1>0, <3>1 DEF Task
    <3> QED BY <1>1, <3>1 DEF ReadCandidates
  <2>3. Recheck(h) => next \in {"idle", "recheck", "count"}
    <3>1. ASSUME NEW e, task' = [task EXCEPT ![h].pc = "count", ![h].emp = e,
                                             ![h].todo = @ \ {e}]
          PROVE  next = "count"
      BY <1>0, <3>1 DEF Task
    <3> QED BY <2>1, <3>1 DEF Recheck
  <2>4. CountStrikes(h) \/ ReadTips(h) => next \in {"owes", "clockout"}
    BY <1>0 DEF CountStrikes, ReadTips, Task
  <2>5. AnnounceClockOut(h) => next \in {"idle", "recheck"}
    BY <2>1 DEF AnnounceClockOut
  <2> QED BY <1>14, <2>2, <2>3, <2>4, <2>5 DEF SweepStep
<1> HIDE DEF next
<1> QED
  BY <1>2, <1>3, <1>4, <1>5, <1>6, <1>7, <1>8, <1>9, <1>10, <1>11, <1>12, <1>13, <1>14, <1>15
  DEF next

(* Only ReadInbox leads to the statement that marks a message.             *)
LEMMA OnlyReadersMark ==
  ASSUME TypeOK, NEW h \in Handlers, HandlerStep(h), task'[h].pc = "mark"
  PROVE  ReadInbox(h)
BY SMTT(30), Flow DEF HandlerStep, StartRequest, PunchStep

LEMMA StepKeepsInbox ==
  ASSUME Serial, TypeOK, InboxInv, [AttendanceNext]_vars
  PROVE  InboxInv'
<1>0. task \in [Handlers -> Task] /\ mail \in Seq(Message)
  BY DEF TypeOK
<1>1. ASSUME NEW h \in Handlers, HandlerStep(h), ~MarkRead(h)
      PROVE  InboxInv'
  <2>1. mail' = mail
    BY ZenonT(60), <1>1
    DEF HandlerStep, StartRequest, StartPunch, StartResolve, StartManual, StartSweep,
        PunchStep, CheckActive, RefuseOutsideGeofence, ReadOwedDays, CheckOwedTips,
        CheckRoster, FindApproved, FindPending, CreateRequest, NotifyRequest, CheckTip,
        InsertPunch, ConsumeOverride, Announce, ReadInbox, ReadRequest, Decide,
        ReadLatest, UpdateNotice, Abort, SweepStep, ReadCandidates, Recheck,
        CountStrikes, ReadTips, InsertClockOut, AnnounceClockOut
  <2>2. \A g \in Handlers : g = h
    BY DEF Serial
  <2>3. ASSUME task'[h].pc = "mark"
        PROVE  LET u == task'[h] IN
               /\ u.msg \in DOMAIN mail /\ mail[u.msg].unread
               /\ \A n \in DOMAIN mail : mail[n].emp = mail[u.msg].emp /\ mail[n].unread => u.msg <= n
    <3> DEFINE unread == {m \in DOMAIN mail : mail[m].emp = task[h].emp /\ mail[m].unread}
    <3>1. ReadInbox(h)
      BY <1>1, <2>3, OnlyReadersMark
    <3>2. ~Finish(h)
      BY <1>0, <2>3 DEF Finish, Idle
    <3>3. PICK m \in unread : /\ ComesFirst(m, unread)
                              /\ task' = [task EXCEPT ![h].pc = "mark", ![h].msg = m]
      BY <3>1, <3>2 DEF ReadInbox
    <3>4. task'[h].msg = m
      BY <1>0, <3>3 DEF Task
    <3> QED BY <3>3, <3>4 DEF ComesFirst
  <2> QED BY <2>1, <2>2, <2>3 DEF InboxInv, At
<1>2. ASSUME NEW h \in Handlers, MarkRead(h)
      PROVE  InboxInv'
  <2> DEFINE k == task[h].msg
             x == [mail[k] EXCEPT !.unread = FALSE, !.shown = @ + 1]
  <2>1. /\ k \in DOMAIN mail /\ mail[k].unread /\ mail[k].shown = 0 /\ mail[k] \in Message
        /\ ~mail[k].filed
        /\ \A n \in DOMAIN mail : mail[n].emp = mail[k].emp /\ mail[n].unread => k <= n
    BY <1>2, ElementType DEF MarkRead, At, InboxInv, Settled
  <2>2. mail' = [mail EXCEPT ![k] = x]
    BY <1>2 DEF MarkRead
  <2>3. x.emp = mail[k].emp /\ x.unread = FALSE /\ x.shown = 1 /\ x.filed = mail[k].filed
    BY <2>1 DEF Message
  <2> HIDE DEF x
  <2>4. /\ DOMAIN mail' = DOMAIN mail
        /\ \A m \in DOMAIN mail : mail'[m] = IF m = k THEN x ELSE mail[m]
    BY <2>2
  <2>5. \A m \in DOMAIN mail : m \in Nat
    BY <1>0
  <2>6. \A g \in Handlers : task'[g].pc = "idle"
    BY <1>0, <1>2 DEF MarkRead, Finish, Idle, Serial
  <2>7. ASSUME NEW m \in DOMAIN mail
        PROVE  /\ Settled(mail'[m])
               /\ \A n \in DOMAIN mail : n < m /\ mail'[n].emp = mail'[m].emp /\ mail'[n].unread
                                           => mail'[m].shown = 0
    <3>1. Settled(mail'[m])
      BY <2>1, <2>3, <2>4 DEF InboxInv, Settled
    <3>2. ASSUME NEW n \in DOMAIN mail, n < m, mail'[n].emp = mail'[m].emp, mail'[n].unread
          PROVE  mail'[m].shown = 0
      <4>1. n # k /\ mail[n].unread /\ mail'[n] = mail[n]
        BY <2>3, <2>4, <3>2
      <4>2. CASE m = k
        <5>1. k <= n
          BY <2>1, <2>3, <2>4, <3>2, <4>1, <4>2
        <5> QED BY <2>5, <3>2, <4>2, <5>1
      <4>3. CASE m # k
        BY <2>4, <3>2, <4>1, <4>3 DEF InboxInv
      <4> QED BY <4>2, <4>3
    <3> QED BY <3>1, <3>2
  <2> QED BY <2>4, <2>6, <2>7 DEF InboxInv, At
<1>3. CASE SendMessage
  <2>1. PICK e \in Employees :
          mail' = Append(mail, [emp |-> e, unread |-> TRUE, shown |-> 0, filed |-> FALSE])
    BY <1>3 DEF SendMessage
  <2> DEFINE x == [emp |-> e, unread |-> TRUE, shown |-> 0, filed |-> FALSE]
  <2>2. x.unread /\ x.shown = 0 /\ ~x.filed
    OBVIOUS
  <2> HIDE DEF x
  <2>3. mail' = Append(mail, x)
    BY <2>1 DEF x
  <2>4. /\ DOMAIN mail = 1 .. Len(mail) /\ Len(mail) \in Nat
        /\ DOMAIN mail' = 1 .. (Len(mail) + 1)
        /\ \A m \in 1 .. Len(mail) : mail'[m] = mail[m]
        /\ mail'[Len(mail) + 1] = x
    BY <1>0, <2>3
  <2>5. \A h \in Handlers : task'[h].pc = "idle"
    BY <1>3, OneStatementRests DEF OtherRequest
  <2>6. ASSUME NEW m \in DOMAIN mail'
        PROVE  /\ Settled(mail'[m])
               /\ \A n \in DOMAIN mail' : n < m /\ mail'[n].emp = mail'[m].emp /\ mail'[n].unread
                                            => mail'[m].shown = 0
    <3>1. CASE m = Len(mail) + 1
      BY <2>2, <2>4, <3>1 DEF Settled
    <3>2. CASE m \in DOMAIN mail
      <4>1. \A n \in DOMAIN mail' : n < m => n \in DOMAIN mail /\ mail'[n] = mail[n]
        BY <2>4, <3>2
      <4> QED BY <2>4, <3>2, <4>1 DEF InboxInv
    <3> QED BY <2>4, <3>1, <3>2
  <2> QED BY <2>5, <2>6 DEF InboxInv, At
<1>4. CASE MarkNoticeRead \/ MarkAllRead
  <2>1. /\ DOMAIN mail' = DOMAIN mail
        /\ \A m \in DOMAIN mail : mail'[m] = mail[m] \/ mail'[m] = Filed(mail[m])
    BY <1>4 DEF MarkNoticeRead, MarkAllRead
  <2>2. \A m \in DOMAIN mail : mail[m] \in Message
    BY ElementType
  <2>3. \A h \in Handlers : task'[h].pc = "idle"
    BY <1>4, OneStatementRests DEF OtherRequest
  <2>4. ASSUME NEW m \in Message, Settled(m)
        PROVE  /\ Settled(Filed(m)) /\ Filed(m).shown = m.shown
               /\ Filed(m).emp = m.emp /\ ~Filed(m).unread
    BY <2>4 DEF Filed, Settled, Message
  <2>5. ASSUME NEW m \in DOMAIN mail
        PROVE  /\ Settled(mail'[m]) /\ mail'[m].shown = mail[m].shown
               /\ mail'[m].emp = mail[m].emp /\ (mail'[m].unread => mail[m].unread)
    <3>1. Settled(mail[m]) /\ mail[m] \in Message
      BY <2>2 DEF InboxInv
    <3> QED BY <2>1, <2>4, <3>1
  <2> QED BY <2>1, <2>3, <2>5 DEF InboxInv, At
<1>5. CASE UNCHANGED <<mail, task>>
  BY <1>5 DEF InboxInv, At
<1> QED
  BY <1>1, <1>2, <1>3, <1>4, <1>5
  DEF AttendanceNext, Next, HandlerStep, OtherRequest, SubmitTip, UpdateSchedule,
      UpdateRecord, DeleteRecord, Tick, Rest, vars

(* Served one after the other, the clock-ins of an employee return each    *)
(* manager message at most once, and pass over an earlier one only if an   *)
(* administrator had marked it as read, even if a clock-in dies between    *)
(* reading a message and marking it.                                       *)
THEOREM MessagesInOrder == Serial /\ AttendanceSpec => []MessagesShownInOrder
<1> SUFFICES ASSUME Serial PROVE AttendanceSpec => []MessagesShownInOrder
  OBVIOUS
<1>1. TableInit => InboxInv
  BY DEF TableInit, InboxInv, At, Idle
<1>2. IInv /\ InboxInv /\ [AttendanceNext]_vars => InboxInv'
  BY StepKeepsInbox DEF IInv
<1>3. IInv /\ InboxInv => MessagesShownInOrder
  <2> SUFFICES ASSUME IInv, InboxInv, NEW m \in DOMAIN mail
               PROVE  /\ mail[m].shown <= 1
                      /\ mail[m].shown = 1 =>
                           \A n \in 1 .. m : mail[n].emp = mail[m].emp
                                            => mail[n].shown = 1 \/ mail[n].filed
    BY DEF MessagesShownInOrder
  <2>1. mail \in Seq(Message)
    BY DEF IInv, TypeOK
  <2>2. \A n \in 1 .. m : n \in DOMAIN mail /\ (n < m \/ n = m)
    BY <2>1
  <2> QED BY <2>2 DEF InboxInv, Settled
<1> QED BY <1>1, <1>2, <1>3, ChecksHold, PTL DEF AttendanceSpec

-----------------------------------------------------------------------------
(* Notifications and announcements.                                        *)

(* A handler that will still write the notification of the request it has  *)
(* asked for or answered.                                                  *)
WillTell(t) ==
  \/ t.pc = "tell"
  \/ t.kind = "REJECT" /\ t.pc = "notice"
  \/ t.kind = "APPROVE" /\ t.pc \in {"latest", "insert", "consume", "announce", "notice"}

(* What it will write is the status of the request.                        *)
TellsTruth(t) ==
  /\ t.pc = "notice" => t.kind \in {"APPROVE", "REJECT"}
  /\ WillTell(t) =>
       /\ t.ov \in DOMAIN requests
       /\ requests[t.ov].status = IF t.pc = "tell" THEN "PENDING" ELSE NoticeStatus(t.kind)

(* A row that will be written has an id.                                   *)
Numbered(t) ==
  \/ t.pc \in {"active", "owed", "tips", "roster", "approved", "tipped", "insert"}
  \/ t.pc = "consume" /\ t.kind = "CLOCK"
  => t.id # 0

(* A notification or an announcement that lags behind is one that some     *)
(* handler is about to write.                                              *)
NoticesInv ==
  /\ \A h \in Handlers : TellsTruth(task[h]) /\ Numbered(task[h])
  /\ \A i \in DOMAIN requests :
       requests[i].notice # requests[i].status =>
         \E h \in Handlers : task[h].ov = i /\ WillTell(task[h])
  /\ \A p \in punches :
       /\ p.id # 0
       /\ p.id \notin announced =>
            \E h \in Handlers : task[h].id = p.id /\ task[h].pc \in {"consume", "announce"}

(* The statements of an answer keep what it is about.                      *)
LEMMA AnswerKeeps ==
  ASSUME TypeOK, NEW h \in Handlers, ~Finish(h),
         \/ InsertPunch(h) \/ ConsumeOverride(h) \/ Announce(h) \/ Decide(h) \/ ReadLatest(h)
  PROVE  /\ task'[h].kind = task[h].kind /\ task'[h].ov = task[h].ov
         /\ ~ReadLatest(h) => task'[h].id = task[h].id
<1>0. task[h] \in Task /\ task \in [Handlers -> Task]
  BY DEF TypeOK
<1>1. ASSUME NEW label, Goto(h, label)
      PROVE  /\ task'[h].kind = task[h].kind /\ task'[h].ov = task[h].ov
             /\ task'[h].id = task[h].id
  BY <1>0, <1>1 DEF Goto, Task
<1>2. CASE ReadLatest(h)
  BY <1>0, <1>1, <1>2 DEF ReadLatest, Task
<1>3. CASE InsertPunch(h) \/ ConsumeOverride(h) \/ Announce(h) \/ Decide(h)
  BY <1>1, <1>3 DEF InsertPunch, ConsumeOverride, Announce, Decide
<1> QED BY <1>2, <1>3

LEMMA StartKinds ==
  ASSUME NEW h \in Handlers, task \in [Handlers -> Task], StartPunch(h) \/ StartManual(h)
  PROVE  task'[h].kind \in {"CLOCK", "MANUAL"}
<1>1. CASE StartPunch(h)
  <2>1. PICK e \in Employees, type \in PunchTypes, at \in {ClockReading} \cup EditTimes :
          task' = [task EXCEPT ![h] =
                    [Idle EXCEPT !.kind = "CLOCK", !.type = type, !.emp = e,
                                 !.at = at, !.id = ClockReading,
                                 !.pc = FirstCheck(type)]]
    BY ZenonT(60), <1>1 DEF StartPunch
  <2> QED BY <2>1 DEF Idle
<1>2. StartManual(h) => task'[h].kind = "MANUAL"
  BY DEF StartManual, Idle
<1> QED BY <1>1, <1>2

(* A handler tells the truth after its step.                               *)
LEMMA StepTellsTruth ==
  ASSUME TypeOK, NEW h \in Handlers, HandlerStep(h), Found(task[h]), ChecksHoldOn(h),
         TellsTruth(task[h]), Numbered(task[h])
  PROVE  TellsTruth(task[h])'
<1> DEFINE t == task[h]
           u == task'[h]
<1>0. t \in Task /\ task \in [Handlers -> Task] /\ AnswerFound(t) /\ RowFound(t)
  BY DEF TypeOK, Found
<1>1. CASE CreateRequest(h)
  <2> DEFINE r == [emp |-> t.emp, day |-> Day(t.at), status |-> "PENDING",
                   consumed |-> 0, granted |-> FALSE, notice |-> "NONE"]
  <2>1. requests' = Append(requests, r) /\ u.ov = Len(requests) + 1 /\ u.pc = "tell"
    BY <1>0, <1>1 DEF CreateRequest, Task
  <2>2. r.status = "PENDING"
    OBVIOUS
  <2> HIDE DEF r
  <2>3. u.ov \in DOMAIN requests' /\ requests'[u.ov] = r
    BY <2>1, RequestAdd
  <2> QED BY <2>1, <2>2, <2>3 DEF TellsTruth, WillTell
<1>2. CASE Decide(h)
  <2>1. t.ov \in DOMAIN requests /\ t.kind \in {"APPROVE", "REJECT"} /\ t.pc = "decide"
    BY <1>0, <1>2 DEF Decide, At, AnswerFound, ChecksHoldOn
  <2>2. u.pc \in {"latest", "notice"}
    BY <1>2, Flow
  <2>3. u.kind = t.kind /\ u.ov = t.ov
    BY <1>0, <1>2, <2>2, AnswerKeeps DEF Finish, Idle
  <2>4. t.ov \in DOMAIN requests' /\ requests'[t.ov].status = NoticeStatus(t.kind)
    <3>1. ~CreateRequest(h) /\ ~NotifyRequest(h) /\ ~UpdateNotice(h) /\ ~ConsumeOverride(h)
      BY <2>1 DEF CreateRequest, NotifyRequest, UpdateNotice, ConsumeOverride, At
    <3> QED BY <1>2, <2>1, <3>1, RequestStep DEF WritesRequest
  <2> QED BY <2>1, <2>2, <2>3, <2>4 DEF TellsTruth, WillTell
<1>3. CASE InsertPunch(h) \/ Announce(h) \/ ReadLatest(h)
  <2>1. requests' = requests
    BY <1>3 DEF InsertPunch, Announce, ReadLatest
  <2>2. CASE Finish(h)
    BY <1>0, <2>2 DEF Finish, Idle, TellsTruth, WillTell
  <2>3. CASE ~Finish(h)
    <3>1. u.kind = t.kind /\ u.ov = t.ov
      BY <1>3, <2>3, AnswerKeeps
    <3>2. t.pc \in {"insert", "announce", "latest"}
      BY <1>3 DEF InsertPunch, Announce, ReadLatest, At
    <3>3. u.pc \in {"consume", "announce", "notice", "inbox", "idle", "insert"}
      BY <1>3, Flow
    <3>4. u.pc = "notice" => u.kind = "APPROVE"
      <4>1. InsertPunch(h) \/ ReadLatest(h) => u.pc # "notice"
        BY Flow
      <4>2. ASSUME NEW label, Goto(h, label)
            PROVE  u.pc = label
        BY <1>0, <4>2 DEF Goto, Task
      <4>3. Announce(h) /\ u.pc = "notice" => t.kind = "APPROVE"
        BY <2>3, <4>2 DEF Announce
      <4> QED BY <1>3, <3>1, <4>1, <4>3
    <3>5. WillTell(u) => WillTell(t)
      BY <3>1, <3>2, <3>3, <3>4 DEF WillTell
    <3>6. WillTell(u) => requests[t.ov].status = NoticeStatus(t.kind) /\ t.ov \in DOMAIN requests
      BY <3>2, <3>5 DEF TellsTruth
    <3>7. u.pc # "tell"
      BY <3>3
    <3> QED BY <2>1, <3>1, <3>4, <3>6, <3>7 DEF TellsTruth, WillTell
  <2> QED BY <2>2, <2>3
<1>4. CASE ConsumeOverride(h)
  <2>1. t.pc = "consume" /\ t.kind \in {"CLOCK", "APPROVE"} /\ t.ov \in DOMAIN requests
    BY <1>0, <1>4 DEF ConsumeOverride, At, AnswerFound
  <2>2. u.pc = IF t.id = 0 THEN "notice" ELSE "announce"
    BY <1>4, Flow
  <2>3. u.kind = t.kind /\ u.ov = t.ov
    BY <1>0, <1>4, <2>2, AnswerKeeps DEF Finish, Idle
  <2>4. t.ov \in DOMAIN requests' /\ requests'[t.ov].status = "APPROVED"
    <3>1. ~CreateRequest(h) /\ ~NotifyRequest(h) /\ ~UpdateNotice(h) /\ ~Decide(h)
      BY <2>1 DEF CreateRequest, NotifyRequest, UpdateNotice, Decide, At
    <3> QED BY <1>4, <2>1, <3>1, RequestStep DEF WritesRequest
  <2>5. t.id = 0 => t.kind = "APPROVE"
    BY <2>1 DEF Numbered
  <2> QED BY <2>1, <2>2, <2>3, <2>4, <2>5 DEF TellsTruth, WillTell, NoticeStatus
<1>5. CASE StartPunch(h) \/ StartManual(h)
  <2>1. u.kind \in {"CLOCK", "MANUAL"}
    BY <1>0, <1>5, StartKinds
  <2>2. u.pc \in {"active", "tipped", "insert"}
    BY <1>5, Flow
  <2> QED BY <2>1, <2>2 DEF TellsTruth, WillTell
<1>6. CASE CheckRoster(h) \/ FindApproved(h) \/ CheckTip(h)
  <2>1. t.kind = "CLOCK"
    BY <1>6 DEF CheckRoster, FindApproved, CheckTip, At, ChecksHoldOn
  <2>2. CheckRoster(h) => u.kind = t.kind
    BY <1>0 DEF CheckRoster, Task
  <2>3. FindApproved(h) => u.kind = t.kind
    <3>1. ASSUME NEW i, task' = [task EXCEPT ![h].pc = "insert", ![h].ov = i]
          PROVE  u.kind = t.kind
      BY <1>0, <3>1 DEF Task
    <3> QED BY <1>0, <3>1 DEF FindApproved, Goto, Task
  <2>4. CheckTip(h) => u.kind = t.kind \/ u.kind = "CLOCK"
    BY <1>0, IdleType DEF CheckTip, Goto, Finish, Idle, Task
  <2>5. u.pc \in {"approved", "insert", "pending", "idle"}
    BY <1>6, Flow
  <2> QED BY <1>6, <2>1, <2>2, <2>3, <2>4, <2>5 DEF TellsTruth, WillTell
<1>7. CASE SweepStep(h)
  <2>1. CASE InsertClockOut(h)
    <3>1. u.kind = "SWEEP" /\ u.pc = "announce"
      BY <1>0, <2>1 DEF InsertClockOut, At, Found, SweepFound, Task
    <3> QED BY <3>1 DEF TellsTruth, WillTell
  <2>2. CASE ~InsertClockOut(h)
    <3>1. u.pc \in {"idle", "recheck", "count", "owes", "clockout"}
      BY <1>7, <2>2, Flow
    <3> QED BY <3>1 DEF TellsTruth, WillTell
  <2> QED BY <2>1, <2>2
<1>8. CASE \/ StartResolve(h) \/ StartSweep(h) \/ CheckActive(h) \/ ReadOwedDays(h)
           \/ CheckOwedTips(h) \/ FindPending(h) \/ ReadInbox(h) \/ ReadRequest(h)
           \/ RefuseOutsideGeofence(h) \/ NotifyRequest(h) \/ MarkRead(h)
           \/ UpdateNotice(h) \/ Abort(h)
  <2>1. u.pc \in {"resolve", "sweep", "idle", "owed", "roster", "tips", "request", "mark",
                  "decide"}
    BY <1>8, Flow
  <2> QED BY <2>1 DEF TellsTruth, WillTell
<1> QED
  BY <1>1, <1>2, <1>3, <1>4, <1>5, <1>6, <1>7, <1>8 DEF HandlerStep, StartRequest, PunchStep

(* A row to be written has an id after each step.                          *)
LEMMA StepNumbers ==
  ASSUME TypeOK, NEW h \in Handlers, HandlerStep(h), Found(task[h]), ChecksHoldOn(h),
         Numbered(task[h])
  PROVE  Numbered(task[h])'
<1> DEFINE t == task[h]
           u == task'[h]
<1>0. t \in Task /\ task \in [Handlers -> Task] /\ AnswerFound(t) /\ now \in Nat
  BY DEF TypeOK, Found
<1>1. ASSUME NEW label, Goto(h, label)
      PROVE  u.id = t.id
  BY <1>0, <1>1 DEF Goto, Task
<1>2. ASSUME Finish(h)
      PROVE  u.pc = "idle"
  BY <1>0, <1>2 DEF Finish, Idle
<1>3. CASE StartPunch(h) \/ StartManual(h)
  <2>1. StartPunch(h) => u.id = now + 1
    <3>1. ASSUME NEW e, NEW type, NEW at,
                 task' = [task EXCEPT ![h] =
                   [Idle EXCEPT !.kind = "CLOCK", !.type = type, !.emp = e, !.at = at,
                                !.id = ClockReading, !.pc = FirstCheck(type)]]
          PROVE  u.id = now + 1
      BY <1>0, <3>1 DEF Idle, ClockReading
    <3> QED BY <3>1 DEF StartPunch
  <2>2. StartManual(h) => u.id = now + 1
    BY <1>0 DEF StartManual, Idle, ClockReading
  <2> QED BY <1>0, <1>3, <2>1, <2>2 DEF Numbered
<1>4. CASE ReadLatest(h)
  <2>1. t.at # 0 /\ t.kind = "APPROVE"
    BY <1>0, <1>4 DEF ReadLatest, At, AnswerFound, ChecksHoldOn
  <2>2. u.kind = t.kind /\ (u.pc = "consume" \/ (u.pc = "insert" /\ u.id = t.at))
    BY <1>0, <1>4 DEF ReadLatest, Goto, Task
  <2> QED BY <2>1, <2>2 DEF Numbered
<1>5. CASE \/ CheckActive(h) \/ ReadOwedDays(h) \/ CheckOwedTips(h) \/ CheckRoster(h)
           \/ FindApproved(h) \/ CheckTip(h) \/ InsertPunch(h)
  <2>1. t.id # 0
    BY <1>5 DEF CheckActive, ReadOwedDays, CheckOwedTips, CheckRoster, FindApproved,
                CheckTip, InsertPunch, At, Numbered
  <2>2. CheckActive(h) \/ CheckTip(h) \/ InsertPunch(h) => u.id = t.id \/ u.pc = "idle"
    BY <1>1, <1>2 DEF CheckActive, CheckTip, InsertPunch
  <2>3. ReadOwedDays(h) \/ CheckRoster(h) => u.id = t.id
    BY <1>0 DEF ReadOwedDays, CheckRoster, Task
  <2>4. CheckOwedTips(h) => u.id = t.id \/ u.pc = "idle"
    BY <1>0, <1>2 DEF CheckOwedTips, Task
  <2>5. FindApproved(h) => u.id = t.id
    <3>1. ASSUME NEW i, task' = [task EXCEPT ![h].pc = "insert", ![h].ov = i]
          PROVE  u.id = t.id
      BY <1>0, <3>1 DEF Task
    <3> QED BY <1>1, <3>1 DEF FindApproved
  <2> QED BY <1>5, <2>1, <2>2, <2>3, <2>4, <2>5 DEF Numbered
<1>6. CASE \/ StartResolve(h) \/ StartSweep(h) \/ RefuseOutsideGeofence(h) \/ FindPending(h)
           \/ CreateRequest(h) \/ NotifyRequest(h) \/ ConsumeOverride(h) \/ Announce(h)
           \/ ReadInbox(h) \/ MarkRead(h) \/ ReadRequest(h) \/ UpdateNotice(h)
           \/ Abort(h)
  <2>1. u.pc \in {"resolve", "sweep", "idle", "request", "tell", "notice", "announce",
                  "inbox", "mark", "decide"}
    BY <1>6, Flow
  <2> QED BY <2>1 DEF Numbered
<1>7. CASE Decide(h)
  <2>1. u.pc \in {"latest", "notice"}
    BY <1>7, Flow
  <2> QED BY <2>1 DEF Numbered
<1>8. CASE SweepStep(h)
  <2>1. u.pc \in {"announce", "idle", "recheck", "count", "owes", "clockout"}
    BY <1>8, Flow
  <2> QED BY <2>1 DEF Numbered
<1> QED
  BY <1>3, <1>4, <1>5, <1>6, <1>7, <1>8 DEF HandlerStep, StartRequest, PunchStep

(* Whoever was to write a notification still is, unless it just did.       *)
LEMMA TellingGoesOn ==
  ASSUME TypeOK, NEW h \in Handlers, HandlerStep(h), ~Abort(h), WillTell(task[h]),
         ~NotifyRequest(h), ~UpdateNotice(h)
  PROVE  task'[h].ov = task[h].ov /\ WillTell(task'[h])
<1> DEFINE t == task[h]
           u == task'[h]
<1>0. t \in Task /\ task \in [Handlers -> Task]
  BY DEF TypeOK
<1>1. t.pc \in {"tell", "latest", "insert", "consume", "announce", "notice"}
      /\ (t.pc # "tell" /\ t.pc # "notice" => t.kind = "APPROVE")
  BY DEF WillTell
<1>2. InsertPunch(h) \/ ConsumeOverride(h) \/ Announce(h) \/ ReadLatest(h)
  <2>1. t.pc # "idle" /\ (t.pc = "announce" => t.kind # "SWEEP")
    BY <1>1
  <2>2. ~StartRequest(h) /\ ~StartSweep(h)
    BY ZenonT(60), <2>1
    DEF StartRequest, StartPunch, StartResolve, StartManual, StartSweep, Arrives, At
  <2>3. ~SweepStep(h)
    BY ZenonT(60), <1>1, <2>1
    DEF SweepStep, ReadCandidates, Recheck, CountStrikes, ReadTips, InsertClockOut,
                      AnnounceClockOut, At
  <2>4. /\ ~CheckActive(h) /\ ~RefuseOutsideGeofence(h) /\ ~ReadOwedDays(h)
        /\ ~CheckOwedTips(h) /\ ~CheckRoster(h) /\ ~FindApproved(h) /\ ~FindPending(h)
        /\ ~CreateRequest(h) /\ ~CheckTip(h) /\ ~ReadInbox(h) /\ ~MarkRead(h)
        /\ ~ReadRequest(h) /\ ~Decide(h)
    BY <1>1 DEF CheckActive, RefuseOutsideGeofence, ReadOwedDays, CheckOwedTips, CheckRoster,
                FindApproved, FindPending, CreateRequest, CheckTip, ReadInbox, MarkRead,
                ReadRequest, Decide, At
  <2> QED BY <2>2, <2>3, <2>4 DEF HandlerStep, PunchStep
<1>3. t.kind = "APPROVE"
  BY <1>1, <1>2 DEF InsertPunch, ConsumeOverride, Announce, ReadLatest, At
<1>4. u.pc \in {"insert", "consume", "announce", "notice"}
  <2>1. Announce(h) => u.pc = "notice"
    BY <1>0, <1>3 DEF Announce, Goto, Task
  <2> QED BY <1>2, <2>1, Flow
<1>5. ~Finish(h)
  BY <1>0, <1>4 DEF Finish, Idle
<1>6. u.kind = t.kind /\ u.ov = t.ov
  BY <1>2, <1>5, AnswerKeeps
<1> QED BY <1>3, <1>4, <1>6 DEF WillTell

(* A step of the only handler leaves no notification behind.               *)
LEMMA StepTells ==
  ASSUME Serial, TypeOK, NEW h \in Handlers, HandlerStep(h), ~Abort(h), Found(task[h]),
         NoticesInv, NEW i \in DOMAIN requests',
         requests'[i].notice # requests'[i].status
  PROVE  task'[h].ov = i /\ WillTell(task'[h])
<1> DEFINE t == task[h]
           u == task'[h]
<1>0. t \in Task /\ task \in [Handlers -> Task] /\ TellsTruth(t) /\ \A g \in Handlers : g = h
  BY DEF TypeOK, NoticesInv, Serial
<1>1. ASSUME i \in DOMAIN requests, requests[i].notice # requests[i].status
      PROVE  t.ov = i /\ WillTell(t)
  BY <1>0, <1>1 DEF NoticesInv
<1>2. CASE CreateRequest(h)
  <2> DEFINE r == [emp |-> t.emp, day |-> Day(t.at), status |-> "PENDING",
                   consumed |-> 0, granted |-> FALSE, notice |-> "NONE"]
  <2>1. /\ requests' = Append(requests, r) /\ u.ov = Len(requests) + 1 /\ u.pc = "tell"
        /\ t.pc = "request"
    BY <1>0, <1>2 DEF CreateRequest, Task, At
  <2> HIDE DEF r
  <2>2. /\ i \in DOMAIN requests \/ i = Len(requests) + 1
        /\ i \in DOMAIN requests => requests'[i] = requests[i]
    BY <2>1, RequestAdd
  <2>3. i \notin DOMAIN requests
    BY <1>1, <2>1, <2>2 DEF WillTell
  <2> QED BY <2>1, <2>2, <2>3 DEF WillTell
<1>3. CASE requests' = requests /\ ~WritesRequest(h)
  <2>1. t.ov = i /\ WillTell(t)
    BY <1>1, <1>3
  <2> QED BY <1>3, <2>1, TellingGoesOn DEF WritesRequest
<1>4. CASE WritesRequest(h)
  <2>1. /\ DOMAIN requests' = DOMAIN requests
        /\ i # t.ov => requests'[i] = requests[i]
        /\ ~CreateRequest(h)
    <3>1. ~CreateRequest(h)
      BY <1>4 DEF WritesRequest, NotifyRequest, UpdateNotice, Decide, ConsumeOverride,
                  CreateRequest, At
    <3> QED BY <1>4, <3>1, RequestStep
  <2>2. i = t.ov
    BY <1>1, <2>1
  <2>3. \/ /\ NotifyRequest(h) \/ UpdateNotice(h)
           /\ requests'[i].status = requests[i].status
           /\ requests'[i].notice = IF t.pc = "tell" THEN "PENDING" ELSE NoticeStatus(t.kind)
        \/ Decide(h)
        \/ /\ ConsumeOverride(h) /\ requests[i].status = "APPROVED"
           /\ requests'[i].status = "APPROVED" /\ requests'[i].notice = requests[i].notice
    BY <1>4, <2>1, <2>2, RequestStep DEF Unused
  <2>4. CASE NotifyRequest(h) \/ UpdateNotice(h)
    <3>1. t.pc \in {"tell", "notice"}
      BY <2>4 DEF NotifyRequest, UpdateNotice, At
    <3>2. ~Decide(h) /\ ~ConsumeOverride(h)
      BY <3>1 DEF Decide, ConsumeOverride, At
    <3>3. WillTell(t)
      BY <1>0, <3>1 DEF TellsTruth, WillTell
    <3>4. requests[i].status = IF t.pc = "tell" THEN "PENDING" ELSE NoticeStatus(t.kind)
      BY <1>0, <2>2, <3>3 DEF TellsTruth
    <3> QED BY <2>3, <3>2, <3>4
  <2>5. CASE Decide(h)
    <3>1. t.kind \in {"APPROVE", "REJECT"}
      BY <2>5 DEF Decide, At, Found, AnswerFound
    <3>2. u.ov = t.ov /\ u.kind = t.kind /\ u.pc = IF t.kind = "APPROVE" THEN "latest" ELSE "notice"
      BY <1>0, <2>5 DEF Decide, Goto, Task
    <3> QED BY <2>2, <3>1, <3>2 DEF WillTell
  <2>6. CASE ConsumeOverride(h)
    <3>1. t.pc = "consume"
      BY <2>6 DEF ConsumeOverride, At
    <3>2. ~Decide(h) /\ ~NotifyRequest(h) /\ ~UpdateNotice(h)
      BY <3>1 DEF Decide, NotifyRequest, UpdateNotice, At
    <3>3. t.ov = i /\ WillTell(t)
      BY <1>1, <2>1, <2>3, <3>2
    <3> QED BY <3>2, <3>3, TellingGoesOn
  <2> QED BY <1>4, <2>4, <2>5, <2>6 DEF WritesRequest
<1> QED BY <1>2, <1>3, <1>4, RequestStep DEF WritesRequest

(* A step of the only handler leaves no punch unannounced.                 *)
LEMMA StepAnnounces ==
  ASSUME Serial, TypeOK, NEW h \in Handlers, HandlerStep(h), ~Abort(h), NoticesInv,
         NEW p \in punches', p.id \notin announced'
  PROVE  task'[h].id = p.id /\ task'[h].pc \in {"consume", "announce"}
<1> DEFINE t == task[h]
           u == task'[h]
<1>0. t \in Task /\ task \in [Handlers -> Task] /\ Numbered(t) /\ \A g \in Handlers : g = h
  BY DEF TypeOK, NoticesInv, Serial
<1>1. ASSUME InsertPunch(h), p = RowOf(t)
      PROVE  u.id = p.id /\ u.pc \in {"consume", "announce"}
  <2>1. u.pc \in {"consume", "announce"}
    BY <1>1, Flow
  <2>2. ~Finish(h)
    BY <1>0, <2>1 DEF Finish, Idle
  <2>3. u.id = t.id
    BY <1>1, <2>2, AnswerKeeps DEF InsertPunch, ReadLatest, At
  <2> QED BY <1>1, <2>1, <2>3 DEF RowOf
<1>2. ASSUME InsertClockOut(h), u.id = p.id
      PROVE  u.pc \in {"consume", "announce"}
  BY <1>2, Flow
<1>3. ASSUME NEW q \in punches, q.id = p.id
      PROVE  u.id = p.id /\ u.pc \in {"consume", "announce"}
  <2>1. q.id # 0 /\ (q.id \notin announced => t.id = p.id /\ t.pc \in {"consume", "announce"})
    BY <1>0, <1>3 DEF NoticesInv
  <2>2. CASE t.pc = "announce" /\ t.id = p.id
    <3>1. Announce(h) \/ AnnounceClockOut(h)
      BY <2>2 DEF HandlerStep, StartRequest, StartPunch, StartResolve, StartManual,
         StartSweep, Arrives, PunchStep, CheckActive, RefuseOutsideGeofence, ReadOwedDays,
         CheckOwedTips, CheckRoster, FindApproved, FindPending, CreateRequest, NotifyRequest,
         CheckTip, InsertPunch, ConsumeOverride, ReadInbox, MarkRead, ReadRequest, Decide,
         ReadLatest, UpdateNotice, SweepStep, ReadCandidates, Recheck, CountStrikes, ReadTips,
         InsertClockOut, At
    <3>2. t.id \in announced'
      BY <3>1 DEF Announce, AnnounceClockOut
    <3> QED BY <2>2, <3>2
  <2>3. CASE t.pc = "consume" /\ t.id = p.id
    <3>1. ConsumeOverride(h)
      BY <2>3 DEF HandlerStep, StartRequest, StartPunch, StartResolve, StartManual,
         StartSweep, Arrives, PunchStep, CheckActive, RefuseOutsideGeofence, ReadOwedDays,
         CheckOwedTips, CheckRoster, FindApproved, FindPending, CreateRequest, NotifyRequest,
         CheckTip, InsertPunch, Announce, ReadInbox, MarkRead, ReadRequest, Decide,
         ReadLatest, UpdateNotice, SweepStep, ReadCandidates, Recheck, CountStrikes, ReadTips,
         InsertClockOut, AnnounceClockOut, At
    <3>2. u.pc = "announce"
      BY <1>3, <2>1, <2>3, <3>1, Flow
    <3>3. ~Finish(h)
      BY <1>0, <3>2 DEF Finish, Idle
    <3>4. u.id = t.id
      BY <2>3, <3>1, <3>3, AnswerKeeps DEF ReadLatest, At
    <3> QED BY <2>3, <3>2, <3>4
  <2>4. CASE q.id \in announced
    <3>1. announced \subseteq announced'
      BY DEF HandlerStep, StartRequest, StartPunch, StartResolve, StartManual, StartSweep,
         PunchStep, CheckActive, RefuseOutsideGeofence, ReadOwedDays, CheckOwedTips,
         CheckRoster, FindApproved, FindPending, CreateRequest, NotifyRequest, CheckTip,
         InsertPunch, ConsumeOverride, Announce, ReadInbox, MarkRead, ReadRequest, Decide,
         ReadLatest, UpdateNotice, SweepStep, ReadCandidates, Recheck, CountStrikes, ReadTips,
         InsertClockOut, AnnounceClockOut
    <3> QED BY <1>3, <2>4, <3>1
  <2> QED BY <2>1, <2>2, <2>3, <2>4
<1>4. \/ \E q \in punches : p.ov = q.ov /\ p.id = q.id
      \/ InsertPunch(h) /\ p = RowOf(t)
      \/ InsertClockOut(h) /\ u.id = p.id
  <2>1. [AttendanceNext]_vars
    BY DEF HandlerStep, AttendanceNext, Next
  <2> QED BY <1>0, <2>1, RowStep
<1> QED BY <1>1, <1>2, <1>3, <1>4

LEMMA StepKeepsNotices ==
  ASSUME Serial, ~Crashes, IInv, SerialInv, NoticesInv, [AttendanceNext]_vars
  PROVE  NoticesInv'
<1>0. TypeOK /\ \A h \in Handlers : Found(task[h]) /\ ChecksHoldOn(h)
  BY DEF IInv, SerialInv, LastingChecksHoldOn
<1>1. ASSUME NEW h \in Handlers, HandlerStep(h)
      PROVE  NoticesInv'
  <2>0. \A g \in Handlers : g = h
    BY DEF Serial
  <2>1. ~Abort(h)
    BY DEF Abort
  <2>2. TellsTruth(task[h])' /\ Numbered(task[h])'
    BY <1>0, <1>1, StepTellsTruth, StepNumbers DEF NoticesInv
  <2>3. \A i \in DOMAIN requests' :
          requests'[i].notice # requests'[i].status =>
            task'[h].ov = i /\ WillTell(task'[h])
    BY <1>0, <1>1, <2>1, StepTells
  <2>4. \A p \in punches' :
          p.id \notin announced' =>
            task'[h].id = p.id /\ task'[h].pc \in {"consume", "announce"}
    BY <1>0, <1>1, <2>1, StepAnnounces
  <2>5. ASSUME NEW p \in punches'
        PROVE  p.id # 0
    <3>1. CASE \E q \in punches : p.ov = q.ov /\ p.id = q.id
      BY <3>1 DEF NoticesInv
    <3>2. ASSUME NEW g \in Handlers, InsertPunch(g), p = RowOf(task[g])
          PROVE  p.id # 0
      BY <3>2 DEF NoticesInv, Numbered, InsertPunch, At, RowOf
    <3>3. CASE p.id = now + 1
      BY <1>0, <3>3 DEF TypeOK
    <3> QED BY <1>0, <3>1, <3>2, <3>3, RowStep
  <2>6. \A g \in Handlers : TellsTruth(task[g])' /\ Numbered(task[g])'
    BY <2>0, <2>2
  <2>7. \A i \in DOMAIN requests' :
          requests'[i].notice # requests'[i].status =>
            \E g \in Handlers : task'[g].ov = i /\ WillTell(task'[g])
    BY <2>3
  <2>8. \A p \in punches' :
          /\ p.id # 0
          /\ p.id \notin announced' =>
               \E g \in Handlers : task'[g].id = p.id /\ task'[g].pc \in {"consume", "announce"}
    BY <2>4, <2>5
  <2> QED BY <2>6, <2>7, <2>8 DEF NoticesInv, WillTell
<1>2. ASSUME UNCHANGED <<requests, announced, task>>,
             \A p \in punches' : \E q \in punches : p.ov = q.ov /\ p.id = q.id
      PROVE  NoticesInv'
  BY <1>2 DEF NoticesInv, TellsTruth, Numbered, WillTell
<1>3. CASE OtherRequest
  <2>1. \A h \in Handlers : task[h].pc = "idle"
    BY SMTT(30), <1>3, OneStatementRests
  <2>2. UNCHANGED <<requests, announced, task>>
    BY <1>3, OneStatementRests
    DEF OtherRequest, SubmitTip, UpdateSchedule, SendMessage,
        MarkNoticeRead, MarkAllRead, UpdateRecord, DeleteRecord
  <2>3. \A h \in Handlers : ~InsertPunch(h) /\ ~InsertClockOut(h)
    BY <2>1 DEF InsertPunch, InsertClockOut, At
  <2>4. \A p \in punches' : \E q \in punches : p.ov = q.ov /\ p.id = q.id
    BY <1>0, <2>3, RowStep
  <2> QED BY <1>2, <2>2, <2>4
<1>4. CASE Tick \/ Rest \/ UNCHANGED vars
  <2>1. UNCHANGED <<punches, requests, announced, task>>
    BY <1>4 DEF Tick, Rest, vars
  <2> QED BY <1>2, <2>1
<1> QED
  BY <1>1, <1>3, <1>4 DEF AttendanceNext, Next, HandlerStep

(* Served one after the other and without crashes, once no request is in   *)
(* flight every notification says what its request's status is (each of    *)
(* ask, approve, reject and consume leaves it so), and every punch of the  *)
(* table has been announced.                                               *)
THEOREM QuietNotices == Serial /\ ~Crashes /\ AttendanceSpec => []QuietNoticesAgree
<1> SUFFICES ASSUME Serial, ~Crashes PROVE AttendanceSpec => []QuietNoticesAgree
  OBVIOUS
<1>1. TableInit => NoticesInv
  BY DEF TableInit, NoticesInv, TellsTruth, Numbered, WillTell, Idle
<1>2. IInv /\ SerialInv /\ NoticesInv /\ [AttendanceNext]_vars => NoticesInv'
  BY StepKeepsNotices
<1>3. IInv /\ NoticesInv => QuietNoticesAgree
  BY DEF NoticesInv, QuietNoticesAgree, Busy, WillTell
<1> QED BY <1>1, <1>2, <1>3, ChecksHold, SerialInvariant, PTL DEF AttendanceSpec

-----------------------------------------------------------------------------
(* Attendance implements PunchLedger.                                      *)

(* A punch that cites an approval not used up yet was written by a handler *)
(* that is about to use it up.                                             *)
CitedInv ==
  \A p \in punches :
    p.ov # 0 /\ requests[p.ov].consumed = 0 =>
      \E h \in Handlers : At(h, "consume") /\ task[h].ov = p.ov

LEMMA StepKeepsCitations ==
  ASSUME Serial, ~Crashes, IInv, SerialInv, CitedInv, [AttendanceNext]_vars
  PROVE  CitedInv'
<1>0. /\ TypeOK /\ RequestsGrow /\ OnlyApprovedCited
      /\ \A h \in Handlers : Found(task[h]) /\ ChecksHoldOn(h)
  BY StepGrowsRequests DEF IInv, SerialInv, LastingChecksHoldOn
<1>1. ASSUME NEW q \in punches, q.ov # 0, requests'[q.ov].consumed = 0
      PROVE  \E h \in Handlers : At(h, "consume")' /\ task'[h].ov = q.ov
  <2>1. q.ov \in DOMAIN requests /\ requests[q.ov].consumed = 0
    BY <1>0, <1>1 DEF OnlyApprovedCited, RequestsGrow
  <2>2. PICK h \in Handlers : At(h, "consume") /\ task[h].ov = q.ov
    BY <1>1, <2>1 DEF CitedInv
  <2>3. task[h].at # 0
    BY <1>0, <2>2, EditsAssumption DEF At, Found, RowFound, TypeOK
  <2>4. ASSUME HandlerStep(h)
        PROVE  FALSE
    <3>1. ConsumeOverride(h)
      BY <2>2, <2>4 DEF HandlerStep, StartRequest, StartPunch, StartResolve, StartManual,
         StartSweep, Arrives, PunchStep, CheckActive, RefuseOutsideGeofence, ReadOwedDays,
         CheckOwedTips, CheckRoster, FindApproved, FindPending, CreateRequest, NotifyRequest,
         CheckTip, InsertPunch, Announce, ReadInbox, MarkRead, ReadRequest, Decide,
         ReadLatest, UpdateNotice, Abort, SweepStep, ReadCandidates, Recheck, CountStrikes,
         ReadTips, InsertClockOut, AnnounceClockOut, At
    <3>2. ~CreateRequest(h) /\ ~NotifyRequest(h) /\ ~UpdateNotice(h) /\ ~Decide(h)
      BY <2>2 DEF CreateRequest, NotifyRequest, UpdateNotice, Decide, At
    <3>3. requests'[q.ov].consumed = task[h].at
      BY <1>0, <2>1, <2>2, <2>4, <3>1, <3>2, RequestStep DEF WritesRequest
    <3> QED BY <1>1, <2>3, <3>3
  <2>5. UNCHANGED task
    <3>1. ~OtherRequest
      BY <2>2, OneStatementRests DEF At
    <3>2. \A g \in Handlers : g = h
      BY DEF Serial
    <3> QED BY <2>4, <3>1, <3>2 DEF AttendanceNext, Next, HandlerStep, Tick, Rest, vars
  <2> QED BY <2>2, <2>5 DEF At
<1>2. ASSUME NEW h \in Handlers, InsertPunch(h), task[h].ov # 0
      PROVE  At(h, "consume")' /\ task'[h].ov = task[h].ov
  BY <1>0, <1>2 DEF InsertPunch, Goto, At, TypeOK, Task
<1> SUFFICES ASSUME NEW p \in punches', p.ov # 0, requests'[p.ov].consumed = 0
             PROVE  \E h \in Handlers : At(h, "consume")' /\ task'[h].ov = p.ov
  BY DEF CitedInv
<1>3. CASE \E q \in punches : p.ov = q.ov /\ p.id = q.id
  BY <1>1, <1>3
<1>4. ASSUME NEW h \in Handlers, InsertPunch(h), p = RowOf(task[h])
      PROVE  \E g \in Handlers : At(g, "consume")' /\ task'[g].ov = p.ov
  <2>1. p.ov = task[h].ov
    BY <1>4 DEF RowOf
  <2> QED BY <1>2, <1>4, <2>1
<1> QED BY <1>0, <1>3, <1>4, RowStep

(* The ledger's requests, when h is the only handler.                      *)
Settling(i, t) == t.pc = "consume" /\ t.ov = i

Entry(emp, day, status, consumed) ==
  [emp |-> emp, day |-> day, status |-> status, consumed |-> consumed]

Seen(r, settling, at) ==
  Entry(r.emp, r.day, r.status, IF r.consumed = 0 /\ settling THEN at ELSE r.consumed)

LEMMA LedgerView ==
  ASSUME Serial, NEW h \in Handlers
  PROVE  /\ LedgerRequests =
              [i \in DOMAIN requests |-> Seen(requests[i], Settling(i, task[h]), task[h].at)]
         /\ LedgerRequests' =
              [i \in DOMAIN requests' |->
                 Seen(requests'[i], Settling(i, task'[h]), task'[h].at)]
<1> DEFINE settling(i) == {g \in Handlers : At(g, "consume") /\ task[g].ov = i}
           settled(i) == {g \in Handlers : task'[g].pc = "consume" /\ task'[g].ov = i}
<1>1. \A g \in Handlers : g = h
  BY DEF Serial
<1>2. ASSUME NEW i
      PROVE  /\ settling(i) # {} <=> Settling(i, task[h])
             /\ settling(i) # {} => (CHOOSE g \in settling(i) : TRUE) = h
  <2>1. \A g \in settling(i) : g = h
    BY <1>1
  <2>2. settling(i) # {} => (CHOOSE g \in settling(i) : TRUE) \in settling(i)
    OBVIOUS
  <2> QED BY <1>1, <2>1, <2>2 DEF At, Settling
<1>3. ASSUME NEW i
      PROVE  /\ settled(i) # {} <=> Settling(i, task'[h])
             /\ settled(i) # {} => (CHOOSE g \in settled(i) : TRUE) = h
  <2>1. \A g \in settled(i) : g = h
    BY <1>1
  <2>2. settled(i) # {} => (CHOOSE g \in settled(i) : TRUE) \in settled(i)
    OBVIOUS
  <2> QED BY <1>1, <2>1, <2>2 DEF Settling
<1>4. LedgerRequests =
        [i \in DOMAIN requests |->
           Entry(requests[i].emp, requests[i].day, requests[i].status,
                 IF requests[i].consumed = 0 /\ settling(i) # {}
                 THEN task[CHOOSE g \in settling(i) : TRUE].at ELSE requests[i].consumed)]
  BY DEF LedgerRequests, Entry
<1>5. LedgerRequests' =
        [i \in DOMAIN requests' |->
           Entry(requests'[i].emp, requests'[i].day, requests'[i].status,
                 IF requests'[i].consumed = 0 /\ settled(i) # {}
                 THEN task'[CHOOSE g \in settled(i) : TRUE].at ELSE requests'[i].consumed)]
  BY DEF LedgerRequests, Entry, At
<1> HIDE DEF settling, settled
<1>6. ASSUME NEW i
      PROVE  Seen(requests[i], Settling(i, task[h]), task[h].at) =
               Entry(requests[i].emp, requests[i].day, requests[i].status,
                 IF requests[i].consumed = 0 /\ settling(i) # {}
                 THEN task[CHOOSE g \in settling(i) : TRUE].at ELSE requests[i].consumed)
  BY <1>2 DEF Seen
<1>7. ASSUME NEW i
      PROVE  Seen(requests'[i], Settling(i, task'[h]), task'[h].at) =
               Entry(requests'[i].emp, requests'[i].day, requests'[i].status,
                 IF requests'[i].consumed = 0 /\ settled(i) # {}
                 THEN task'[CHOOSE g \in settled(i) : TRUE].at ELSE requests'[i].consumed)
  BY <1>3 DEF Seen
<1> QED BY <1>4, <1>5, <1>6, <1>7

(* What a request looks like from the ledger.                              *)
LEMMA LedgerEntry ==
  ASSUME Serial, NEW h \in Handlers, task[h].pc # "consume"
  PROVE  /\ DOMAIN LedgerRequests = DOMAIN requests
         /\ \A i \in DOMAIN requests :
              /\ LedgerRequests[i].emp = requests[i].emp
              /\ LedgerRequests[i].day = requests[i].day
              /\ LedgerRequests[i].status = requests[i].status
              /\ LedgerRequests[i].consumed = requests[i].consumed
BY LedgerView DEF Settling, Seen, Entry

(* A step that the ledger's requests do not notice.                        *)
LEMMA SameView ==
  ASSUME Serial, NEW h \in Handlers, requests' = requests,
         task[h].pc # "consume", task'[h].pc # "consume"
  PROVE  LedgerRequests' = LedgerRequests
<1>1. \A i : Seen(requests'[i], Settling(i, task'[h]), task'[h].at)
             = Seen(requests[i], Settling(i, task[h]), task[h].at)
  BY DEF Settling, Seen
<1> QED BY <1>1, LedgerView

(* Nor does it notice consumedAt: the approval was used up before.         *)
LEMMA SettledView ==
  ASSUME Serial, TypeOK, NEW h \in Handlers, ConsumeOverride(h), Found(task[h])
  PROVE  LedgerRequests' = LedgerRequests
<1> DEFINE t == task[h]
           u == task'[h]
<1>1. t.pc = "consume" /\ t.ov \in DOMAIN requests /\ Unused(t.ov)
  BY DEF ConsumeOverride, At, Found, AnswerFound
<1>2. u.pc # "consume"
  BY Flow
<1>3. ~CreateRequest(h) /\ ~NotifyRequest(h) /\ ~UpdateNotice(h) /\ ~Decide(h)
  BY <1>1 DEF CreateRequest, NotifyRequest, UpdateNotice, Decide, At
<1>4. /\ DOMAIN requests' = DOMAIN requests
      /\ \A j \in DOMAIN requests : j # t.ov => requests'[j] = requests[j]
      /\ requests'[t.ov].emp = requests[t.ov].emp /\ requests'[t.ov].day = requests[t.ov].day
      /\ requests'[t.ov].status = "APPROVED" /\ requests'[t.ov].consumed = t.at
  BY <1>1, <1>3, RequestStep DEF HandlerStep, PunchStep, WritesRequest
<1>5. ASSUME NEW i \in DOMAIN requests
      PROVE  Seen(requests'[i], Settling(i, u), u.at) = Seen(requests[i], Settling(i, t), t.at)
  <2>1. CASE i = t.ov
    BY <1>1, <1>2, <1>4, <2>1 DEF Settling, Seen, Unused
  <2>2. CASE i # t.ov
    BY <1>2, <1>4, <2>2 DEF Settling, Seen
  <2> QED BY <2>1, <2>2
<1> QED BY <1>4, <1>5, LedgerView

(* Telling the administrators changes no ledger entry.                     *)
LEMMA ToldView ==
  ASSUME Serial, TypeOK, NEW h \in Handlers, NotifyRequest(h) \/ UpdateNotice(h), Found(task[h])
  PROVE  LedgerRequests' = LedgerRequests
<1> DEFINE t == task[h]
           u == task'[h]
<1>1. t.pc \in {"tell", "notice"}
  BY DEF NotifyRequest, UpdateNotice, At
<1>2. u.pc # "consume"
  BY Flow
<1>3. ~CreateRequest(h) /\ ~ConsumeOverride(h) /\ ~Decide(h)
  BY <1>1 DEF CreateRequest, ConsumeOverride, Decide, At
<1>4. /\ DOMAIN requests' = DOMAIN requests
      /\ \A j \in DOMAIN requests : j # t.ov => requests'[j] = requests[j]
      /\ t.ov \in DOMAIN requests =>
           /\ requests'[t.ov].emp = requests[t.ov].emp
           /\ requests'[t.ov].day = requests[t.ov].day
           /\ requests'[t.ov].status = requests[t.ov].status
           /\ requests'[t.ov].consumed = requests[t.ov].consumed
  BY <1>3, RequestStep DEF HandlerStep, PunchStep, WritesRequest
<1>5. ASSUME NEW i \in DOMAIN requests
      PROVE  Seen(requests'[i], Settling(i, u), u.at) = Seen(requests[i], Settling(i, t), t.at)
  <2>1. CASE i = t.ov
    BY <1>1, <1>2, <1>4, <2>1 DEF Settling, Seen
  <2>2. CASE i # t.ov
    BY <1>1, <1>2, <1>4, <2>2 DEF Settling, Seen
  <2> QED BY <2>1, <2>2
<1> QED BY <1>4, <1>5, LedgerView


(* An approval is used up when its punch is written.                       *)
LEMMA UsedUpView ==
  ASSUME Serial, NEW h \in Handlers, requests' = requests, NEW i \in DOMAIN requests, Unused(i),
         task[h].pc # "consume", task'[h].pc = "consume", task'[h].ov = i, task'[h].at = task[h].at
  PROVE  LedgerRequests' = [LedgerRequests EXCEPT ![i].consumed = task[h].at]
<1> DEFINE t == task[h]
           u == task'[h]
           r == Entry(requests[i].emp, requests[i].day, requests[i].status, t.at)
           old(j) == Seen(requests[j], Settling(j, t), t.at)
           new(j) == Seen(requests'[j], Settling(j, u), u.at)
<1>1. \A j \in DOMAIN requests : new(j) = IF j = i THEN r ELSE old(j)
  BY DEF Settling, Seen, Unused
<1>2. r = [LedgerRequests[i] EXCEPT !.consumed = t.at]
  <2>1. LedgerRequests[i] = Entry(requests[i].emp, requests[i].day, requests[i].status, 0)
    BY LedgerView DEF Settling, Seen, Unused
  <2> QED BY <2>1 DEF Entry
<1>3. /\ LedgerRequests = [j \in DOMAIN requests |-> old(j)]
      /\ LedgerRequests' = [j \in DOMAIN requests |-> new(j)]
  BY LedgerView
<1> HIDE DEF r, old, new
<1>4. LedgerRequests' = [LedgerRequests EXCEPT ![i] = r]
  BY <1>1, <1>3
<1> QED BY <1>2, <1>4

(* A request is decided.                                                   *)
LEMMA DecidedView ==
  ASSUME Serial, TypeOK, NEW h \in Handlers, Decide(h), Found(task[h]), ChecksHoldOn(h)
  PROVE  LET i == task[h].ov IN
         /\ i \in DOMAIN LedgerRequests /\ LedgerRequests[i].status = "PENDING"
         /\ LedgerRequests' = [LedgerRequests EXCEPT ![i].status = NoticeStatus(task[h].kind)]
<1> DEFINE t == task[h]
           u == task'[h]
           i == t.ov
           verdict == NoticeStatus(t.kind)
           r == Entry(requests[i].emp, requests[i].day, verdict, requests[i].consumed)
           old(j) == Seen(requests[j], Settling(j, t), t.at)
           new(j) == Seen(requests'[j], Settling(j, u), u.at)
<1>0. t.pc = "decide" /\ i \in DOMAIN requests /\ requests[i].status = "PENDING"
  BY DEF Decide, At, ChecksHoldOn, Found, AnswerFound
<1>1. u.pc # "consume"
  BY Flow
<1>2. ~CreateRequest(h) /\ ~ConsumeOverride(h) /\ ~NotifyRequest(h) /\ ~UpdateNotice(h)
  BY <1>0 DEF CreateRequest, ConsumeOverride, NotifyRequest, UpdateNotice, At
<1>3. /\ DOMAIN requests' = DOMAIN requests
      /\ \A j \in DOMAIN requests : j # i => requests'[j] = requests[j]
      /\ requests'[i].emp = requests[i].emp /\ requests'[i].day = requests[i].day
      /\ requests'[i].status = verdict /\ requests'[i].consumed = requests[i].consumed
  BY <1>0, <1>2, RequestStep DEF HandlerStep, PunchStep, WritesRequest
<1>4. \A j \in DOMAIN requests : new(j) = IF j = i THEN r ELSE old(j)
  BY <1>0, <1>1, <1>3 DEF Settling, Seen
<1>5. LedgerRequests[i] = Entry(requests[i].emp, requests[i].day, "PENDING", requests[i].consumed)
  BY <1>0, LedgerView DEF Settling, Seen
<1>6. r = [LedgerRequests[i] EXCEPT !.status = verdict] /\ LedgerRequests[i].status = "PENDING"
  BY <1>5 DEF Entry
<1>7. /\ LedgerRequests = [j \in DOMAIN requests |-> old(j)]
      /\ LedgerRequests' = [j \in DOMAIN requests |-> new(j)]
  BY <1>3, LedgerView
<1> HIDE DEF r, old, new, verdict
<1>8. LedgerRequests' = [LedgerRequests EXCEPT ![i] = r]
  BY <1>0, <1>4, <1>7
<1> QED BY <1>0, <1>6, <1>7, <1>8 DEF verdict

(* A request is made.                                                      *)
LEMMA AskedView ==
  ASSUME Serial, TypeOK, TypeOK', NEW h \in Handlers, CreateRequest(h)
  PROVE  LedgerRequests' =
           Append(LedgerRequests, Entry(task[h].emp, Day(task[h].at), "PENDING", 0))
<1> DEFINE t == task[h]
           u == task'[h]
           r == [emp |-> t.emp, day |-> Day(t.at), status |-> "PENDING",
                 consumed |-> 0, granted |-> FALSE, notice |-> "NONE"]
           x == Entry(t.emp, Day(t.at), "PENDING", 0)
           old(j) == Seen(requests[j], Settling(j, t), t.at)
           new(j) == Seen(requests'[j], Settling(j, u), u.at)
           n == Len(requests)
<1>1. requests' = Append(requests, r) /\ t.pc = "request" /\ u.pc # "consume"
  BY Flow DEF CreateRequest, At
<1>2. r.emp = t.emp /\ r.day = Day(t.at) /\ r.status = "PENDING" /\ r.consumed = 0
  OBVIOUS
<1> HIDE DEF r
<1>3. /\ DOMAIN requests = 1 .. n /\ n \in Nat /\ DOMAIN requests' = 1 .. (n + 1)
      /\ \A i \in 1 .. n : requests'[i] = requests[i]
      /\ requests'[n + 1] = r
  BY <1>1, RequestAdd
<1>4. \A i \in 1 .. n : new(i) = old(i)
  BY <1>1, <1>3 DEF Settling, Seen
<1>5. new(n + 1) = x
  BY <1>1, <1>2, <1>3 DEF Settling, Seen
<1>6. /\ LedgerRequests = [j \in 1 .. n |-> old(j)]
      /\ LedgerRequests' = [j \in 1 .. (n + 1) |-> new(j)]
  BY <1>3, LedgerView
<1>7. \A j \in 1 .. n : requests[j] \in Request
  BY <1>3, ElementType DEF TypeOK
<1>8. \A j \in 1 .. n : old(j) \in [emp : Employees, day : Int,
                                    status : {"PENDING", "APPROVED", "REJECTED"}, consumed : Nat]
  BY <1>1, <1>7 DEF Settling, Seen, Entry, Request
<1> DEFINE S == [emp : Employees, day : Int,
                 status : {"PENDING", "APPROVED", "REJECTED"}, consumed : Nat]
<1> HIDE DEF S, old, new, x, n
<1>9. LedgerRequests \in Seq(S)
  BY <1>3, <1>6, <1>8 DEF S
<1>10. Len(LedgerRequests) = n
  BY <1>3, <1>6, <1>9
<1>11. x \in S
  <2>1. t.emp \in Employees /\ t.at \in Nat
    BY DEF TypeOK, Task
  <2>2. Day(t.at) \in Int
    BY <2>1, DayIsInt
  <2> QED BY <2>1, <2>2 DEF x, S, Entry
<1>12. /\ Append(LedgerRequests, x) \in Seq(S) /\ Len(Append(LedgerRequests, x)) = n + 1
       /\ \A j \in 1 .. n : Append(LedgerRequests, x)[j] = LedgerRequests[j]
       /\ Append(LedgerRequests, x)[n + 1] = x
  BY <1>9, <1>10, <1>11, AppendProperties
<1>13. \A j \in 1 .. (n + 1) : new(j) \in S /\ new(j) = Append(LedgerRequests, x)[j]
  BY <1>3, <1>4, <1>5, <1>6, <1>8, <1>11, <1>12 DEF S
<1>14. LedgerRequests' \in Seq(S) /\ Len(LedgerRequests') = n + 1
  BY <1>3, <1>6, <1>13
<1>15. \A j \in 1 .. (n + 1) : LedgerRequests'[j] = Append(LedgerRequests, x)[j]
  BY <1>6, <1>13
<1>16. LedgerRequests' = Append(LedgerRequests, x)
  BY <1>12, <1>14, <1>15, SeqEqual
<1> QED BY <1>16 DEF x

(* The ledger reads the tables as the handlers do.                         *)
LEMMA LedgerReads ==
  /\ \A e : /\ Ledger!MayBeInactive(e) <=> MayBeInactive(e)
            /\ Ledger!MayBeActive(e) <=> MayBeActive(e)
  /\ \A e, t : /\ Ledger!OwedDays(e, t) = OwedDays(e, t)
               /\ Ledger!PriorStrikes(e, t) = PriorStrikes(e, t)
               /\ Ledger!Due(e, t) <=> Due(e, t)
               /\ Ledger!Violation(e, t) <=> Violation(e, t)
  /\ \A t : Ledger!Day(t) = Day(t)
<1>1. \A t : Ledger!Day(t) = Day(t) /\ Ledger!Slot(t) = Slot(t) /\ Ledger!Week(t) = Week(t)
  BY DEF Ledger!Day, Day, Ledger!Slot, Slot, Ledger!Week, Week
<1>2. \A e : Ledger!Latest(e) = Latest(e) /\ Ledger!AutoOuts(e) = AutoOuts(e)
  BY DEF Ledger!Latest, Latest, Ledger!AutoOuts, AutoOuts
<1>3. \A e, t : Ledger!ShiftOn(e, t) = ShiftOn(e, t)
  BY <1>1 DEF Ledger!ShiftOn, ShiftOn
<1>4. \A e : /\ Ledger!MayBeInactive(e) <=> MayBeInactive(e)
             /\ Ledger!MayBeActive(e) <=> MayBeActive(e)
  BY <1>2 DEF Ledger!MayBeInactive, MayBeInactive, Ledger!MayBeActive, MayBeActive,
              Ledger!ActiveWork, ActiveWork
<1>5. \A e, t : Ledger!OwedDays(e, t) = OwedDays(e, t)
  BY <1>2 DEF Ledger!OwedDays, OwedDays
<1>6. \A e, t : Ledger!PriorStrikes(e, t) = PriorStrikes(e, t)
  BY <1>1, <1>2 DEF Ledger!PriorStrikes, PriorStrikes
<1>7. \A e, t : Ledger!Due(e, t) <=> Due(e, t)
  BY <1>1, <1>3 DEF Ledger!Due, Due, Ledger!NoTime, NoTime
<1>8. \A e, t : Ledger!Violation(e, t) <=> Violation(e, t)
  BY <1>1, <1>3 DEF Ledger!Violation, Violation, Ledger!NoTime, NoTime, Ledger!Weekdays, Weekdays
<1> QED BY <1>1, <1>4, <1>5, <1>6, <1>7, <1>8

LEMMA LedgerCardinality == \A S : Ledger!Cardinality(S) = Cardinality(S)
BY DEF Ledger!Cardinality, Cardinality

(* A step the ledger takes, or does not notice.                            *)
LedgerStep == Ledger!LedgerNext \/ UNCHANGED <<punches, LedgerRequests, tips, roster>>

(* One row of the administrator's is a correction.                         *)
LEMMA OneRowCorrects ==
  ASSUME NEW p, NEW q, punches \ punches' \subseteq {p}, punches' \ punches \subseteq {q},
         q \in punches' \ punches => q.via = "MANUAL",
         UNCHANGED <<LedgerRequests, tips, roster>>
  PROVE  LedgerStep
<1>1. ASSUME NEW S, NEW x, S \subseteq {x}
      PROVE  Cardinality(S) <= 1
  <2>1. S = {} \/ S = {x}
    BY <1>1
  <2>2. Cardinality({}) = 0 /\ Cardinality({x}) = 1
    BY FS_EmptySet, FS_Singleton
  <2> QED BY <2>1, <2>2
<1>2. Cardinality(punches \ punches') <= 1 /\ Cardinality(punches' \ punches) <= 1
  BY <1>1
<1>3. \A x \in punches' \ punches : x.via = "MANUAL"
  OBVIOUS
<1>4. Ledger!Correct
  BY <1>2, <1>3, LedgerCardinality DEF Ledger!Correct
<1> QED BY <1>4 DEF LedgerStep, Ledger!LedgerNext

(* The row of a handler that cites nothing.                                *)
LEMMA PlainRowLedgered ==
  ASSUME Serial, TypeOK, NEW h \in Handlers, InsertPunch(h), Found(task[h]), ChecksHoldOn(h),
         task[h].ov = 0
  PROVE  LedgerStep
<1> DEFINE t == task[h]
           p == RowOf(t)
<1>1. /\ t.pc = "insert" /\ punches' = punches \cup {p}
      /\ requests' = requests /\ UNCHANGED <<tips, roster>> /\ t \in Task
  BY DEF InsertPunch, At, TypeOK
<1>2. task'[h].pc = "announce"
  BY Flow
<1>3. LedgerRequests' = LedgerRequests
  BY <1>1, <1>2, SameView
<1>4. /\ p.emp = t.emp /\ p.type = t.type /\ p.at = t.at /\ p.via = Origin(t.kind)
  BY DEF RowOf
<1>5. t.kind \in {"CLOCK", "MANUAL", "APPROVE"} /\ ClockInFound(t) /\ AnswerFound(t)
  BY <1>1 DEF Found, RowFound
<1> HIDE DEF p
<1>6. CASE p \in punches
  BY <1>1, <1>3, <1>6 DEF LedgerStep
<1>7. ASSUME p \notin punches
      PROVE  p \in punches' \ punches /\ Ledger!Enter(p)
  BY <1>1, <1>7 DEF Ledger!Enter
<1>8. CASE p \notin punches /\ t.kind = "CLOCK" /\ t.type = "IN"
  <2>1. MayBeInactive(t.emp) /\ NothingOwed(t) /\ InSchedule(t)
    BY <1>1, <1>5, <1>8 DEF ClockInFound
  <2>2. Ledger!MayBeInactive(p.emp) /\ Ledger!OnSchedule(p.emp, p.at)
    BY <1>4, <2>1, LedgerReads DEF InSchedule, Ledger!OnSchedule
  <2>3. p.emp \in Servers =>
          \A d \in Ledger!OwedDays(p.emp, p.at) : d <= Ledger!Day(p.at) => <<p.emp, d>> \in tips
    BY <1>4, <2>1, LedgerReads DEF NothingOwed
  <2>4. p.via = "SELF" /\ p.type = "IN"
    BY <1>4, <1>8 DEF Origin
  <2>5. Ledger!ClockIn
    BY <1>1, <1>3, <1>7, <1>8, <2>2, <2>3, <2>4 DEF Ledger!ClockIn
  <2> QED BY <2>5 DEF LedgerStep, Ledger!LedgerNext
<1>9. CASE p \notin punches /\ t.kind = "CLOCK" /\ t.type = "OUT"
  <2>1. p.emp \in Servers => <<p.emp, Ledger!Day(p.at)>> \in tips
    BY <1>1, <1>4, <1>9, LedgerReads DEF ChecksHoldOn
  <2>2. p.via = "SELF" /\ p.type = "OUT"
    BY <1>4, <1>9 DEF Origin
  <2>3. Ledger!ClockOut
    BY <1>1, <1>3, <1>7, <1>9, <2>1, <2>2 DEF Ledger!ClockOut
  <2> QED BY <2>3 DEF LedgerStep, Ledger!LedgerNext
<1>10. CASE p \notin punches /\ t.kind = "CLOCK" /\ t.type \notin {"IN", "OUT"}
  <2>1. p.via = "SELF" /\ p.type \in {"BREAK", "LUNCH"}
    BY <1>1, <1>4, <1>10 DEF Origin, Task, PunchTypes
  <2>2. Ledger!Pause
    BY <1>1, <1>3, <1>7, <1>10, <2>1 DEF Ledger!Pause
  <2> QED BY <2>2 DEF LedgerStep, Ledger!LedgerNext
<1>11. CASE p \notin punches /\ t.kind = "MANUAL"
  <2>1. p.via = "MANUAL"
    BY <1>4, <1>11 DEF Origin
  <2> QED BY <1>1, <1>3, <2>1, OneRowCorrects
<1>12. t.kind # "APPROVE"
  <2>1. requests \in Seq(Request)
    BY DEF TypeOK
  <2>2. 0 \notin DOMAIN requests
    BY <2>1
  <2> QED BY <1>1, <2>2 DEF ChecksHoldOn
<1> QED BY <1>5, <1>6, <1>8, <1>9, <1>10, <1>11, <1>12

(* The row of a handler that cites an approval.                            *)
LEMMA CitingRowLedgered ==
  ASSUME Serial, TypeOK, NEW h \in Handlers, InsertPunch(h), Found(task[h]), ChecksHoldOn(h),
         CitedInv, task[h].ov # 0
  PROVE  LedgerStep
<1> DEFINE t == task[h]
           u == task'[h]
           i == t.ov
           p == RowOf(t)
<1>1. /\ t.pc = "insert" /\ punches' = punches \cup {p}
      /\ requests' = requests /\ UNCHANGED <<tips, roster>> /\ t \in Task
  BY DEF InsertPunch, At, TypeOK
<1>2. u.pc = "consume" /\ u.ov = i /\ u.at = t.at
  BY DEF InsertPunch, Goto, TypeOK, Task
<1>3. i \in DOMAIN requests /\ Unused(i)
  BY WrittenCites
<1>4. /\ DOMAIN LedgerRequests = DOMAIN requests
      /\ LedgerRequests[i].emp = requests[i].emp /\ LedgerRequests[i].day = requests[i].day
      /\ LedgerRequests[i].status = "APPROVED" /\ LedgerRequests[i].consumed = 0
  BY <1>1, <1>3, LedgerEntry DEF Unused
<1>5. Ledger!Usable(i)
  BY <1>4 DEF Ledger!Usable
<1>6. LedgerRequests' = [LedgerRequests EXCEPT ![i].consumed = t.at]
  BY <1>1, <1>2, <1>3, UsedUpView
<1>7. /\ p.emp = t.emp /\ p.type = t.type /\ p.at = t.at /\ p.via = Origin(t.kind) /\ p.ov = i
  BY DEF RowOf
<1>8. p \notin punches
  <2>1. \A g \in Handlers : ~At(g, "consume")
    BY <1>1 DEF Serial, At
  <2> QED BY <1>3, <1>7, <2>1 DEF CitedInv, Unused
<1>9. t.kind \in {"CLOCK", "MANUAL", "APPROVE"} /\ ClockInFound(t) /\ AnswerFound(t)
      /\ (t.kind # "APPROVE" => t.kind = "CLOCK" /\ t.type = "IN")
  BY <1>1 DEF Found, RowFound
<1> HIDE DEF p
<1>10. p \in punches' \ punches /\ Ledger!Enter(p)
  BY <1>1, <1>8 DEF Ledger!Enter
<1>11. CASE t.kind = "CLOCK" /\ t.type = "IN"
  <2>1. MayBeInactive(t.emp) /\ NothingOwed(t) /\ About(i, t)
    BY <1>1, <1>9, <1>11 DEF ClockInFound
  <2>2. Ledger!MayBeInactive(p.emp)
    BY <1>7, <2>1, LedgerReads
  <2>3. p.emp \in Servers =>
          \A d \in Ledger!OwedDays(p.emp, p.at) : d <= Ledger!Day(p.at) => <<p.emp, d>> \in tips
    BY <1>7, <2>1, LedgerReads DEF NothingOwed
  <2>4. p.via = "SELF" /\ p.type = "IN"
    BY <1>7, <1>11 DEF Origin
  <2>5. /\ i \in DOMAIN LedgerRequests /\ LedgerRequests[i].emp = p.emp
        /\ LedgerRequests[i].day = Ledger!Day(p.at)
        /\ LedgerRequests' = [LedgerRequests EXCEPT ![i].consumed = p.at]
    BY <1>3, <1>4, <1>6, <1>7, <2>1, LedgerReads DEF About
  <2>6. Ledger!ClockIn
    BY <1>1, <1>5, <1>10, <2>2, <2>3, <2>4, <2>5 DEF Ledger!ClockIn
  <2> QED BY <2>6 DEF LedgerStep, Ledger!LedgerNext
<1>12. CASE t.kind = "APPROVE"
  <2>1. MayBeInactive(t.emp) /\ t.at \in 1 .. now /\ t.type = "IN" /\ requests[i].emp = t.emp
    BY <1>1, <1>9, <1>12 DEF AnswerFound, ChecksHoldOn
  <2>2. /\ p.via = "APPROVAL" /\ p.type = "IN" /\ p.emp = LedgerRequests[i].emp /\ p.at = t.at
        /\ Ledger!MayBeInactive(LedgerRequests[i].emp)
    BY <1>4, <1>7, <1>12, <2>1, LedgerReads DEF Origin
  <2>3. i \in DOMAIN LedgerRequests /\ t.at \in 1 .. now
    BY <1>3, <1>4, <2>1
  <2>4. \E q \in punches' \ punches :
          /\ q.via = "APPROVAL" /\ q.type = "IN" /\ q.emp = LedgerRequests[i].emp /\ q.at = t.at
          /\ Ledger!MayBeInactive(LedgerRequests[i].emp) /\ Ledger!Enter(q)
    BY <1>10, <2>2
  <2> HIDE DEF t, i
  <2>5. Ledger!Admit
    BY <1>1, <1>5, <1>6, <2>3, <2>4 DEF Ledger!Admit
  <2> QED BY <2>5 DEF LedgerStep, Ledger!LedgerNext
<1> QED BY <1>9, <1>11, <1>12

(* The clock-out that a sweep writes.                                      *)
LEMMA ClockOutLedgered ==
  ASSUME Serial, TypeOK, NEW h \in Handlers, InsertClockOut(h), Found(task[h])
  PROVE  LedgerStep
<1> DEFINE t == task[h]
           p == [id |-> ClockReading, emp |-> t.emp, type |-> "OUT", at |-> ClockReading,
                 note |-> t.note, via |-> "SWEEP", off |-> FALSE, ov |-> 0]
<1>1. /\ t.pc = "clockout" /\ punches' = punches \cup {p} /\ requests' = requests
      /\ UNCHANGED <<tips, roster>> /\ t \in Task /\ now \in Nat
  BY DEF InsertClockOut, At, TypeOK
<1>2. /\ p.emp = t.emp /\ p.type = "OUT" /\ p.at = now + 1 /\ p.note = t.note /\ p.via = "SWEEP"
  BY DEF ClockReading
<1> HIDE DEF p
<1>3. LedgerRequests' = LedgerRequests
  <2>1. task'[h].pc = "announce"
    BY Flow
  <2> QED BY <1>1, <2>1, SameView
<1>4. CASE p \in punches
  BY <1>1, <1>3, <1>4 DEF LedgerStep
<1>5. CASE p \notin punches
  <2>1. /\ t.at \in 1 .. now /\ t.emp \notin Owners /\ Due(t.emp, t.at) /\ MayBeActive(t.emp)
        /\ t.note = Counted(t, Missing(t))
    BY <1>1 DEF Found, SweepFound, Overstays
  <2>2. /\ p.note.auto /\ p.note.strike = Cardinality(PriorStrikes(t.emp, t.at)) + 1
        /\ p.note.penalty <=> p.note.strike > StrikeLimit
        /\ p.note.owed = Missing(t)
    <3>1. ASSUME NEW d, NEW k, NEW o
          PROVE  /\ Ticket(d, k, o).auto /\ Ticket(d, k, o).strike = k
                 /\ Ticket(d, k, o).penalty <=> k > StrikeLimit
                 /\ Ticket(d, k, o).owed = o
      <4>1. \A b : LET x == [auto |-> TRUE, day |-> d, strike |-> k, penalty |-> b, owed |-> o]
                   IN  x.auto /\ x.strike = k /\ x.penalty = b /\ x.owed = o
        OBVIOUS
      <4> QED BY <4>1 DEF Ticket
    <3> QED BY <1>2, <2>1, <3>1 DEF Counted
  <2>3. /\ Ledger!MayBeActive(p.emp) /\ Ledger!Due(p.emp, t.at)
        /\ p.note.strike = Ledger!Cardinality(Ledger!PriorStrikes(p.emp, t.at)) + 1
    BY <1>2, <2>1, <2>2, LedgerReads, LedgerCardinality
  <2>4. p.note.owed = {d \in {Ledger!Day(t.at)} : p.emp \in Servers /\ <<p.emp, d>> \notin tips}
    BY <1>2, <2>2, LedgerReads DEF Missing
  <2>5. t.at < p.at
    BY <1>1, <1>2, <2>1
  <2>6. p \in punches' \ punches /\ Ledger!Enter(p)
    BY <1>1, <1>5 DEF Ledger!Enter
  <2>7. Ledger!AutoOut
    <3> HIDE DEF t
    <3> QED BY <1>1, <1>2, <1>3, <2>1, <2>2, <2>3, <2>4, <2>5, <2>6 DEF Ledger!AutoOut, t
  <2> QED BY <2>7 DEF LedgerStep, Ledger!LedgerNext
<1> QED BY <1>4, <1>5

(* A clock-in that asks for an override.                                   *)
LEMMA RequestLedgered ==
  ASSUME Serial, TypeOK, TypeOK', NEW h \in Handlers, CreateRequest(h), Found(task[h]),
         ChecksHoldOn(h)
  PROVE  LedgerStep
<1> DEFINE t == task[h]
<1>1. /\ t.pc = "request" /\ UNCHANGED <<punches, tips, roster>> /\ t \in Task
      /\ t.kind = "CLOCK" /\ t.type = "IN"
  BY DEF CreateRequest, At, TypeOK, ChecksHoldOn
<1>2. /\ MayBeInactive(t.emp) /\ t.at \in (1 .. now) \cup EditTimes
      /\ \A i \in DOMAIN requests : About(i, t) => ~Unused(i) /\ requests[i].status # "PENDING"
  BY <1>1 DEF Found, ClockInFound, RowFound
<1>3. \A i \in DOMAIN LedgerRequests :
        LedgerRequests[i].emp = t.emp /\ LedgerRequests[i].day = Day(t.at) =>
          ~Ledger!Usable(i) /\ LedgerRequests[i].status # "PENDING"
  BY <1>1, <1>2, LedgerEntry DEF About, Unused, Ledger!Usable
<1>4. LedgerRequests' = Append(LedgerRequests, Entry(t.emp, Day(t.at), "PENDING", 0))
  BY AskedView
<1>5. t.emp \in Employees /\ Ledger!MayBeInactive(t.emp)
  BY <1>1, <1>2, LedgerReads DEF Task
<1>6. Day(t.at) \in {Ledger!Day(x) : x \in (1 .. now) \cup EditTimes}
  BY <1>2, LedgerReads
<1>7. Ledger!Ask
  <2> HIDE DEF t
  <2> QED BY <1>1, <1>3, <1>4, <1>5, <1>6 DEF Ledger!Ask, Entry
<1> QED BY <1>7 DEF LedgerStep, Ledger!LedgerNext

(* An answer, and an approval that lapses because a shift is active.       *)
LEMMA AnswerLedgered ==
  ASSUME Serial, TypeOK, NEW h \in Handlers, Decide(h) \/ ReadLatest(h), Found(task[h]),
         ChecksHoldOn(h)
  PROVE  LedgerStep
<1> DEFINE t == task[h]
           u == task'[h]
           i == t.ov
<1>0. t \in Task /\ UNCHANGED <<punches, tips, roster>> /\ AnswerFound(t)
  BY DEF TypeOK, Decide, ReadLatest, Found
<1>1. CASE Decide(h)
  <2>1. NoticeStatus(t.kind) \in {"APPROVED", "REJECTED"}
    BY DEF NoticeStatus
  <2>2. /\ i \in DOMAIN LedgerRequests /\ LedgerRequests[i].status = "PENDING"
        /\ LedgerRequests' = [LedgerRequests EXCEPT ![i].status = NoticeStatus(t.kind)]
    BY <1>1, DecidedView
  <2>3. Ledger!Answer
    BY <1>0, <2>1, <2>2 DEF Ledger!Answer
  <2> QED BY <2>3 DEF LedgerStep, Ledger!LedgerNext
<1>2. CASE ReadLatest(h)
  <2>1. /\ t.pc = "latest" /\ requests' = requests /\ Unused(i) /\ t.at \in 1 .. now
        /\ i \in DOMAIN requests /\ requests[i].emp = t.emp
    BY <1>0, <1>2 DEF ReadLatest, At, AnswerFound, ChecksHoldOn
  <2>2. CASE u.pc # "consume"
    <3>1. LedgerRequests' = LedgerRequests
      BY <2>1, <2>2, SameView
    <3> QED BY <1>0, <3>1 DEF LedgerStep
  <2>3. CASE u.pc = "consume"
    <3>1. MayBeActive(t.emp) /\ u.ov = i /\ u.at = t.at
      BY <1>0, <1>2, <2>3 DEF ReadLatest, Goto, TypeOK, Task
    <3>2. LedgerRequests' = [LedgerRequests EXCEPT ![i].consumed = t.at]
      BY <2>1, <2>3, <3>1, UsedUpView
    <3>3. /\ i \in DOMAIN LedgerRequests /\ Ledger!Usable(i) /\ LedgerRequests[i].emp = t.emp
      BY <2>1, LedgerEntry DEF Ledger!Usable, Unused
    <3>4. Ledger!MayBeActive(LedgerRequests[i].emp)
      BY <3>1, <3>3, LedgerReads
    <3>5. Ledger!Admit
      BY <1>0, <2>1, <3>2, <3>3, <3>4 DEF Ledger!Admit
    <3> QED BY <3>5 DEF LedgerStep, Ledger!LedgerNext
  <2> QED BY <2>2, <2>3
<1> QED BY <1>1, <1>2

(* The requests of one statement.                                          *)
LEMMA OtherLedgered ==
  ASSUME Serial, TypeOK, OtherRequest
  PROVE  LedgerStep
<1>1. PICK h \in Handlers : task[h].pc = "idle" /\ task'[h].pc = "idle"
  <2>1. \E h \in Handlers : TRUE
    BY ZenonT(60) DEF OtherRequest, SubmitTip, UpdateSchedule, SendMessage,
        MarkNoticeRead, MarkAllRead, UpdateRecord,
           DeleteRecord, OneStatement
  <2> QED BY <2>1, OneStatementRests
<1>2. requests' = requests
  BY DEF OtherRequest, SubmitTip, UpdateSchedule, SendMessage,
      MarkNoticeRead, MarkAllRead, UpdateRecord, DeleteRecord
<1>3. LedgerRequests' = LedgerRequests
  BY <1>1, <1>2, SameView
<1>4. CASE SubmitTip
  <2>1. PICK e \in Servers, d \in 0 .. Day(ClockReading) :
          <<e, d>> \notin tips /\ tips' = tips \cup {<<e, d>>}
    BY <1>4 DEF SubmitTip
  <2>2. d \in 0 .. Ledger!Day(now')
    BY <1>4, <2>1, LedgerReads DEF SubmitTip, OneStatement
  <2>3. UNCHANGED <<punches, roster>>
    BY <1>4 DEF SubmitTip
  <2>4. Ledger!DeclareTips
    BY <1>3, <2>1, <2>2, <2>3 DEF Ledger!DeclareTips
  <2> QED BY <2>4 DEF LedgerStep, Ledger!LedgerNext
<1>5. CASE UpdateSchedule
  <2>1. PICK e \in Employees, week \in Rosters : roster' = [roster EXCEPT ![e] = week]
    BY <1>5 DEF UpdateSchedule
  <2>2. roster'[e] = week
    BY <2>1 DEF TypeOK
  <2>3. Ledger!Reschedule
    BY <1>3, <1>5, <2>1, <2>2 DEF Ledger!Reschedule, UpdateSchedule
  <2> QED BY <2>3 DEF LedgerStep, Ledger!LedgerNext
<1>6. CASE SendMessage \/ MarkNoticeRead \/ MarkAllRead
  BY <1>3, <1>6 DEF SendMessage, MarkNoticeRead, MarkAllRead, LedgerStep
<1>7. CASE UpdateRecord
  <2>1. PICK p \in punches :
          \E q, type, at, note :
            /\ punches' = (punches \ {p}) \cup {q}
            /\ q = [p EXCEPT !.type = type, !.at = at, !.note = note, !.via = "MANUAL"]
    BY <1>7 DEF UpdateRecord
  <2> PICK q : /\ punches' = (punches \ {p}) \cup {q}
               /\ \E type, at, note :
                    q = [p EXCEPT !.type = type, !.at = at, !.note = note, !.via = "MANUAL"]
    BY <2>1
  <2>2. q.via = "MANUAL"
    <3>1. p \in Punch
      BY DEF TypeOK
    <3> QED BY <3>1 DEF Punch
  <2>3. punches \ punches' \subseteq {p} /\ punches' \ punches \subseteq {q}
    OBVIOUS
  <2>4. UNCHANGED <<tips, roster>>
    BY <1>7 DEF UpdateRecord
  <2> QED BY <1>3, <2>2, <2>3, <2>4, OneRowCorrects
<1>8. CASE DeleteRecord
  <2>1. PICK p \in punches : punches' = punches \ {p}
    BY <1>8 DEF DeleteRecord
  <2>2. punches \ punches' \subseteq {p} /\ punches' \ punches \subseteq {p}
        /\ p \notin punches' \ punches
    BY <2>1
  <2>3. UNCHANGED <<tips, roster>>
    BY <1>8 DEF DeleteRecord
  <2> QED BY <1>3, <2>2, <2>3, OneRowCorrects
<1> QED BY <1>4, <1>5, <1>6, <1>7, <1>8 DEF OtherRequest

(* Every step of Attendance is one of the ledger, or leaves it alone.      *)
LEMMA StepLedgered ==
  ASSUME Serial, ~Crashes, IInv, IInv', SerialInv, CitedInv, [AttendanceNext]_vars
  PROVE  LedgerStep
<1>0. TypeOK /\ TypeOK' /\ \A h \in Handlers : Found(task[h]) /\ ChecksHoldOn(h)
  BY DEF IInv, SerialInv, LastingChecksHoldOn
<1>1. ASSUME NEW h \in Handlers, HandlerStep(h),
             ~(InsertPunch(h) \/ InsertClockOut(h) \/ CreateRequest(h) \/ ReadLatest(h)),
             ~WritesRequest(h)
      PROVE  LedgerStep
  <2>1. UNCHANGED <<punches, requests, tips, roster>>
    BY ZenonT(60), <1>1
    DEF HandlerStep, StartRequest, StartPunch, StartResolve, StartManual, StartSweep,
         PunchStep, CheckActive, RefuseOutsideGeofence, ReadOwedDays, CheckOwedTips,
         CheckRoster, FindApproved, FindPending, CheckTip, Announce, ReadInbox, MarkRead,
         ReadRequest, Abort, SweepStep, ReadCandidates, Recheck, CountStrikes, ReadTips,
         AnnounceClockOut, WritesRequest
  <2>2. task[h].pc # "consume"
    <3>1. ~ConsumeOverride(h) /\ ~Abort(h)
      BY <1>1 DEF WritesRequest, Abort
    <3> QED
      BY ZenonT(60), <1>1, <3>1
      DEF HandlerStep, StartRequest, StartPunch, StartResolve, StartManual,
         StartSweep, Arrives, PunchStep, CheckActive, RefuseOutsideGeofence, ReadOwedDays,
         CheckOwedTips, CheckRoster, FindApproved, FindPending, CreateRequest, NotifyRequest,
         CheckTip, InsertPunch, Announce, ReadInbox, MarkRead, ReadRequest, Decide,
         ReadLatest, UpdateNotice, SweepStep, ReadCandidates, Recheck, CountStrikes,
         ReadTips, InsertClockOut, AnnounceClockOut, At
  <2>3. task'[h].pc # "consume"
    BY <1>0, <1>1, Flow DEF HandlerStep, StartRequest, PunchStep
  <2>4. LedgerRequests' = LedgerRequests
    BY <2>1, <2>2, <2>3, SameView
  <2> QED BY <2>1, <2>4 DEF LedgerStep
<1>2. ASSUME NEW h \in Handlers, InsertPunch(h)
      PROVE  LedgerStep
  BY <1>0, <1>2, PlainRowLedgered, CitingRowLedgered
<1>3. ASSUME NEW h \in Handlers, InsertClockOut(h) \/ CreateRequest(h)
      PROVE  LedgerStep
  BY <1>0, <1>3, ClockOutLedgered, RequestLedgered
<1>4. ASSUME NEW h \in Handlers, Decide(h) \/ ReadLatest(h)
      PROVE  LedgerStep
  BY <1>0, <1>4, AnswerLedgered
<1>5. ASSUME NEW h \in Handlers, NotifyRequest(h) \/ UpdateNotice(h) \/ ConsumeOverride(h)
      PROVE  LedgerStep
  <2>1. LedgerRequests' = LedgerRequests
    BY <1>0, <1>5, ToldView, SettledView
  <2> QED BY <1>5, <2>1 DEF NotifyRequest, UpdateNotice, ConsumeOverride, LedgerStep
<1>6. ASSUME NEW h \in Handlers, HandlerStep(h)
      PROVE  LedgerStep
  BY <1>1, <1>2, <1>3, <1>4, <1>5, <1>6 DEF WritesRequest
<1>7. CASE Tick \/ Rest \/ UNCHANGED vars
  <2>1. UNCHANGED <<punches, requests, tips, roster, task>>
    BY <1>7 DEF Tick, Rest, vars
  <2>2. LedgerRequests' = LedgerRequests
    BY <2>1 DEF LedgerRequests, At
  <2> QED BY <2>1, <2>2 DEF LedgerStep
<1> QED
  BY <1>0, <1>6, <1>7, OtherLedgered DEF AttendanceNext, Next, HandlerStep

(* Served one after the other and without crashes, the statements of       *)
(* createPunch, of the overrides and of the sweep amount to the entries of *)
(* PunchLedger, each justified by the tables at the moment it is made.     *)
THEOREM AttendanceImplementsLedger == Serial /\ ~Crashes /\ AttendanceSpec => ImplementsLedger
<1> SUFFICES ASSUME Serial, ~Crashes PROVE AttendanceSpec => ImplementsLedger
  OBVIOUS
<1>1. TableInit => CitedInv
  BY DEF TableInit, CitedInv
<1>2. TableInit => Ledger!LedgerInit
  <2> SUFFICES ASSUME TableInit PROVE Ledger!LedgerInit
    OBVIOUS
  <2>1. punches = {} /\ tips = {} /\ requests = << >>
    BY DEF TableInit
  <2>2. LedgerRequests = << >>
    BY <2>1 DEF LedgerRequests
  <2> QED BY <2>1, <2>2 DEF Ledger!LedgerInit
<1>3. IInv /\ SerialInv /\ CitedInv /\ [AttendanceNext]_vars => CitedInv'
  BY StepKeepsCitations
<1>4. IInv /\ IInv' /\ SerialInv /\ CitedInv /\ [AttendanceNext]_vars
        => [Ledger!LedgerNext]_(Ledger!ledger)
  BY StepLedgered DEF LedgerStep, Ledger!ledger
<1> QED
  BY <1>1, <1>2, <1>3, <1>4, ChecksHold, SerialInvariant, PTL
  DEF AttendanceSpec, ImplementsLedger, Ledger!LedgerSpec

-----------------------------------------------------------------------------
(* Strikes.                                                                *)

NoCorrections == "EDIT" \notin Traffic /\ "DELETE" \notin Traffic

(* Those a sweep has still to clock out.                                   *)
Sweeping(t) ==
  CASE t.pc = "sweep" -> Employees
    [] t.pc \in {"count", "owes", "clockout"} -> t.todo \cup {t.emp}
    [] OTHER -> t.todo

(* The automatic clock-outs are in the past, those of whom a sweep has     *)
(* still to clock out were made before it began, and nobody is swept twice.*)
StrikeInv ==
  /\ \A p \in punches : p.note.auto => p.type = "OUT" /\ p.at <= now
  /\ \A h \in Handlers :
       LET t == task[h] IN
       /\ t.kind # "SWEEP" => ~t.note.auto
       /\ t.kind = "SWEEP" =>
            /\ t.pc \in {"sweep", "recheck", "count", "owes", "clockout", "announce"}
            /\ \A p \in punches : p.note.auto /\ p.emp \in Sweeping(t) => p.at <= t.at
            /\ t.pc \in {"count", "owes", "clockout"} => t.emp \notin t.todo
  /\ StrikesNumbered

(* The statements of a punch write no ticket.                              *)
LEMMA PunchKeepsPlain ==
  ASSUME TypeOK, NEW h \in Handlers, PunchStep(h) \/ StartRequest(h) \/ Abort(h),
         task[h].kind # "SWEEP", ~task[h].note.auto
  PROVE  task'[h].kind # "SWEEP" /\ ~task'[h].note.auto
<1> DEFINE t == task[h]
           u == task'[h]
<1>0. t \in Task /\ task \in [Handlers -> Task] /\ t.note \in Note
  BY DEF TypeOK, Task
<1>1. Idle.kind = "CLOCK" /\ Idle.note = PlainNote /\ ~PlainNote.auto
  BY DEF Idle, PlainNote
<1>2. ASSUME Finish(h)
      PROVE  u.kind # "SWEEP" /\ ~u.note.auto
  BY <1>0, <1>1, <1>2 DEF Finish
<1>3. ASSUME NEW label, Goto(h, label)
      PROVE  u.kind # "SWEEP" /\ ~u.note.auto
  BY <1>0, <1>3 DEF Goto, Task
<1>4. CASE StartRequest(h)
  <2>1. ASSUME NEW e, NEW type, NEW at,
               task' = [task EXCEPT ![h] =
                 [Idle EXCEPT !.kind = "CLOCK", !.type = type, !.emp = e, !.at = at,
                              !.id = ClockReading, !.pc = FirstCheck(type)]]
        PROVE  u.kind = "CLOCK" /\ u.note = PlainNote
    BY <1>0, <2>1 DEF Idle
  <2>2. StartPunch(h) => u.kind = "CLOCK" /\ u.note = PlainNote
    BY <2>1 DEF StartPunch
  <2>3. StartManual(h) => u.kind = "MANUAL" /\ u.note = PlainNote
    BY <1>0 DEF StartManual, Idle
  <2>4. StartResolve(h) => u.kind \in {"APPROVE", "REJECT"} /\ u.note = PlainNote
    BY <1>0 DEF StartResolve, Idle
  <2> QED BY <1>1, <1>4, <2>2, <2>3, <2>4 DEF StartRequest
<1>5. CASE ReadOwedDays(h)
  <2>1. PICK label, owed : task' = [task EXCEPT ![h].pc = label, ![h].note.owed = owed]
    BY <1>5 DEF ReadOwedDays
  <2>2. u.kind = t.kind /\ u.note = [t.note EXCEPT !.owed = owed]
    BY <1>0, <2>1 DEF Task
  <2>3. u.note.auto = t.note.auto
    BY <1>0, <2>2 DEF Note
  <2> QED BY <2>2, <2>3
<1>6. CASE CheckOwedTips(h)
  <2>1. ASSUME task' = [task EXCEPT ![h].pc = "roster", ![h].note = PlainNote]
        PROVE  u.kind = t.kind /\ u.note = PlainNote
    BY <1>0, <2>1 DEF Task
  <2> QED BY <1>1, <1>2, <1>6, <2>1 DEF CheckOwedTips
<1>7. CASE CheckRoster(h) \/ CreateRequest(h)
  <2>1. u.kind = t.kind /\ u.note = t.note
    BY <1>0, <1>7 DEF CheckRoster, CreateRequest, Task
  <2> QED BY <2>1
<1>8. CASE FindApproved(h)
  <2>1. ASSUME NEW i, task' = [task EXCEPT ![h].pc = "insert", ![h].ov = i]
        PROVE  u.kind = t.kind /\ u.note = t.note
    BY <1>0, <2>1 DEF Task
  <2> QED BY <1>3, <1>8, <2>1 DEF FindApproved
<1>9. CASE ReadInbox(h)
  <2>1. ASSUME NEW m, task' = [task EXCEPT ![h].pc = "mark", ![h].msg = m]
        PROVE  u.kind = t.kind /\ u.note = t.note
    BY <1>0, <2>1 DEF Task
  <2>2. Finish(h) \/ (u.kind = t.kind /\ u.note = t.note)
    BY <1>9, <2>1 DEF ReadInbox
  <2> QED BY <1>2, <2>2
<1>10. CASE ReadRequest(h)
  <2>1. ASSUME NEW e, task' = [task EXCEPT ![h].pc = "decide", ![h].emp = e, ![h].at = ClockReading]
        PROVE  u.kind = t.kind /\ u.note = t.note
    BY <1>0, <2>1 DEF Task
  <2>2. Finish(h) \/ (u.kind = t.kind /\ u.note = t.note)
    BY <1>10, <2>1 DEF ReadRequest
  <2> QED BY <1>2, <2>2
<1>11. CASE ReadLatest(h)
  <2>1. ASSUME task' = [task EXCEPT ![h].pc = "insert", ![h].id = t.at]
        PROVE  u.kind = t.kind /\ u.note = t.note
    BY SMTT(30), <1>0, <2>1 DEF Task
  <2> QED BY <1>3, <1>11, <2>1 DEF ReadLatest
<1>12. CASE \/ CheckActive(h) \/ RefuseOutsideGeofence(h) \/ FindPending(h)
            \/ NotifyRequest(h) \/ CheckTip(h) \/ InsertPunch(h) \/ ConsumeOverride(h)
            \/ Announce(h) \/ MarkRead(h) \/ Decide(h) \/ UpdateNotice(h) \/ Abort(h)
  BY <1>2, <1>3, <1>12
  DEF CheckActive, RefuseOutsideGeofence, FindPending, NotifyRequest, CheckTip, InsertPunch,
      ConsumeOverride, Announce, MarkRead, Decide, UpdateNotice, Abort
<1> QED
  BY <1>4, <1>5, <1>6, <1>7, <1>8, <1>9, <1>10, <1>11, <1>12 DEF PunchStep

(* A sweep sticks to its instant and goes through its employees once.      *)
LEMMA SweepAdvances ==
  ASSUME TypeOK, NEW h \in Handlers, SweepStep(h), Found(task[h]), task[h].kind = "SWEEP",
         task[h].pc \in {"count", "owes", "clockout"} => task[h].emp \notin task[h].todo
  PROVE  \/ task'[h] = Idle
         \/ /\ task'[h].kind = "SWEEP" /\ task'[h].at = task[h].at
            /\ task'[h].pc \in {"sweep", "recheck", "count", "owes", "clockout", "announce"}
            /\ Sweeping(task'[h]) \subseteq Sweeping(task[h])
            /\ task'[h].pc \in {"count", "owes", "clockout"} => task'[h].emp \notin task'[h].todo
            /\ InsertClockOut(h) => task[h].emp \notin Sweeping(task'[h])
<1> DEFINE t == task[h]
           u == task'[h]
<1>0. t \in Task /\ task \in [Handlers -> Task]
  BY DEF TypeOK
<1>1. ASSUME Finish(h)
      PROVE  u = Idle
  BY <1>0, <1>1 DEF Finish
<1>2. ASSUME NEW todo, Continue(h, todo)
      PROVE  \/ u = Idle
             \/ u.kind = t.kind /\ u.at = t.at /\ u.pc = "recheck" /\ u.todo = todo
  BY <1>0, <1>1, <1>2 DEF Continue, Task
<1>3. CASE ReadCandidates(h)
  <2>1. ASSUME NEW due, task' = [task EXCEPT ![h].pc = "recheck", ![h].todo = due]
        PROVE  u.kind = t.kind /\ u.at = t.at /\ u.pc = "recheck" /\ u.todo = due
    BY <1>0, <2>1 DEF Task
  <2>2. PICK due : /\ due \subseteq Employees
                   /\ Finish(h) \/ task' = [task EXCEPT ![h].pc = "recheck", ![h].todo = due]
    BY <1>3 DEF ReadCandidates, Swept
  <2>3. t.pc = "sweep"
    BY <1>3 DEF ReadCandidates, At
  <2> QED BY <1>1, <2>1, <2>2, <2>3 DEF Sweeping, InsertClockOut, At
<1>4. CASE Recheck(h)
  <2>1. t.pc = "recheck"
    BY <1>4 DEF Recheck, At
  <2>2. ASSUME NEW e \in t.todo, task' = [task EXCEPT ![h].pc = "count", ![h].emp = e,
                                                      ![h].todo = @ \ {e}]
        PROVE  u.kind = t.kind /\ u.at = t.at /\ u.pc = "count" /\ u.emp = e /\ u.todo = t.todo \ {e}
    BY <1>0, <2>2 DEF Task
  <2>3. PICK e \in t.todo :
          \/ u.kind = t.kind /\ u.at = t.at /\ u.pc = "count" /\ u.emp = e /\ u.todo = t.todo \ {e}
          \/ u = Idle
          \/ u.kind = t.kind /\ u.at = t.at /\ u.pc = "recheck" /\ u.todo = t.todo \ {e}
    BY <1>2, <1>4, <2>2 DEF Recheck
  <2>4. ~InsertClockOut(h)
    BY <2>1 DEF InsertClockOut, At
  <2> QED BY <2>1, <2>3, <2>4 DEF Sweeping
<1>5. CASE CountStrikes(h) \/ ReadTips(h)
  <2>1. t.pc \in {"count", "owes"}
    BY <1>5 DEF CountStrikes, ReadTips, At
  <2>2. /\ u.kind = t.kind /\ u.at = t.at /\ u.emp = t.emp /\ u.todo = t.todo
        /\ u.pc \in {"owes", "clockout"}
    BY <1>0, <1>5 DEF CountStrikes, ReadTips, Task
  <2>3. ~InsertClockOut(h)
    BY <2>1 DEF InsertClockOut, At
  <2> QED BY <2>1, <2>2, <2>3 DEF Sweeping
<1>6. CASE InsertClockOut(h)
  <2>1. /\ t.pc = "clockout" /\ u.kind = t.kind /\ u.at = t.at /\ u.pc = "announce"
        /\ u.todo = t.todo
    BY <1>0, <1>6 DEF InsertClockOut, At, Task
  <2> QED BY <2>1 DEF Sweeping
<1>7. CASE AnnounceClockOut(h)
  <2>1. t.pc = "announce"
    BY <1>7 DEF AnnounceClockOut, At
  <2>2. \/ u = Idle
        \/ u.kind = t.kind /\ u.at = t.at /\ u.pc = "recheck" /\ u.todo = t.todo
    BY <1>2, <1>7 DEF AnnounceClockOut
  <2>3. ~InsertClockOut(h)
    BY <2>1 DEF InsertClockOut, At
  <2> QED BY <2>1, <2>2, <2>3 DEF Sweeping
<1> QED BY <1>3, <1>4, <1>5, <1>6, <1>7 DEF SweepStep

(* Without corrections, rows are only added, by a handler.                 *)
LEMMA RowsOnlyAdded ==
  ASSUME NoCorrections, [AttendanceNext]_vars
  PROVE  \/ punches' = punches
         \/ \E h \in Handlers : InsertPunch(h) \/ InsertClockOut(h)
BY ZenonT(60) DEF NoCorrections, AttendanceNext, Next, vars, StartRequest, StartPunch, StartResolve,
      StartManual, PunchStep, CheckActive, RefuseOutsideGeofence, ReadOwedDays, CheckOwedTips,
      CheckRoster, FindApproved, FindPending, CreateRequest, NotifyRequest, CheckTip,
      ConsumeOverride, Announce, ReadInbox, MarkRead, ReadRequest, Decide, ReadLatest,
      UpdateNotice, Abort, OtherRequest, SubmitTip, UpdateSchedule, SendMessage,
      MarkNoticeRead, MarkAllRead,
      UpdateRecord, DeleteRecord, OneStatement, Arrives, Tick, Rest, StartSweep, SweepStep,
      ReadCandidates, Recheck, CountStrikes, ReadTips, AnnounceClockOut

(* The automatic clock-outs of an employee in a week.                      *)
InWeek(outs, at) == {q \in outs : Week(q.at) = Week(at)}

UpTo(outs, at) == {q \in outs : q.at <= at}

OnTime(outs) == \A q \in outs : Day(q.at) = q.note.day

StrikeOf(p, outs) ==
  p.note.auto /\ OnTime(InWeek(outs, p.at)) =>
    /\ p.note.strike = Cardinality(UpTo(InWeek(outs, p.at), p.at))
    /\ p.note.penalty <=> p.note.strike > StrikeLimit

LEMMA StrikesMeanStrikeOf == StrikesNumbered <=> \A p \in punches : StrikeOf(p, AutoOuts(p.emp))
BY DEF StrikesNumbered, StrikeOf, OnTime, InWeek, UpTo

(* A later clock-out changes no strike.                                    *)
LEMMA LaterOutKeepsStrike ==
  ASSUME NEW p, NEW q, NEW outs, StrikeOf(p, outs), p.at \in Nat, q.at \in Nat, p.at < q.at
  PROVE  StrikeOf(p, outs \cup {q})
<1> DEFINE old == InWeek(outs, p.at)
           new == InWeek(outs \cup {q}, p.at)
<1>1. old \subseteq new /\ new \subseteq old \cup {q}
  BY DEF InWeek
<1>2. OnTime(new) => OnTime(old)
  BY <1>1 DEF OnTime
<1>3. UpTo(new, p.at) = UpTo(old, p.at)
  BY <1>1 DEF UpTo
<1> QED BY <1>2, <1>3 DEF StrikeOf

(* The strike a sweep writes is the number of the new clock-out.           *)
LEMMA NewOutStrike ==
  ASSUME NEW q, NEW outs, NEW at \in Nat, IsFiniteSet(outs), q.at \in Nat, at < q.at,
         \A p \in outs : p.at \in Nat /\ p.at <= at,
         q.note.day = Day(at),
         q.note.strike = Cardinality(UpTo(InWeek(outs, at), at)) + 1,
         q.note.penalty <=> q.note.strike > StrikeLimit
  PROVE  StrikeOf(q, outs \cup {q})
<1> DEFINE prior == UpTo(InWeek(outs, at), at)
           week == InWeek(outs \cup {q}, q.at)
<1> SUFFICES ASSUME OnTime(week)
             PROVE  q.note.strike = Cardinality(UpTo(week, q.at))
  BY DEF StrikeOf
<1>1. q \in week
  BY DEF InWeek
<1>2. Week(q.at) = Week(at)
  BY <1>1 DEF OnTime, Week
<1>3. \A p \in outs : p.at <= at /\ p.at <= q.at
  OBVIOUS
<1>4. UpTo(week, q.at) = prior \cup {q}
  BY <1>2, <1>3 DEF UpTo, InWeek
<1>5. q \notin prior
  BY DEF UpTo
<1>6. IsFiniteSet(prior)
  <2>1. prior \subseteq outs
    BY DEF UpTo, InWeek
  <2> QED BY <2>1, FS_Subset
<1>7. Cardinality(prior \cup {q}) = Cardinality(prior) + 1
  BY <1>5, <1>6, FS_AddElement
<1> QED BY <1>4, <1>7

LEMMA StepKeepsStrikes ==
  ASSUME Serial, NoCorrections, IInv, SerialInv, StrikeInv, [AttendanceNext]_vars
  PROVE  StrikeInv'
<1> DEFINE Past == \A p \in punches : p.note.auto => p.type = "OUT" /\ p.at <= now
           Kept(t) == /\ t.kind # "SWEEP" => ~t.note.auto
                      /\ t.kind = "SWEEP" =>
                           /\ t.pc \in {"sweep", "recheck", "count", "owes", "clockout", "announce"}
                           /\ \A p \in punches : p.note.auto /\ p.emp \in Sweeping(t) => p.at <= t.at
                           /\ t.pc \in {"count", "owes", "clockout"} => t.emp \notin t.todo
<1>0. /\ TypeOK /\ TypeOK' /\ IsFiniteSet(punches) /\ Past
      /\ \A h \in Handlers : Found(task[h]) /\ Kept(task[h])
      /\ now \in Nat /\ (now' = now \/ now' = now + 1) /\ \A p \in punches : p.at \in Nat /\ p.emp \in Employees
  <2>1. now' = now \/ now' = now + 1
    BY ZenonT(60)
    DEF AttendanceNext, Next, vars, StartRequest, StartPunch, StartResolve, StartManual,
      PunchStep, CheckActive, RefuseOutsideGeofence, ReadOwedDays, CheckOwedTips,
      CheckRoster, FindApproved, FindPending, CreateRequest, NotifyRequest, CheckTip,
      InsertPunch, ConsumeOverride, Announce, ReadInbox, MarkRead, ReadRequest, Decide, ReadLatest,
      UpdateNotice, Abort, OtherRequest, SubmitTip, UpdateSchedule, SendMessage,
      MarkNoticeRead, MarkAllRead,
      UpdateRecord, DeleteRecord, OneStatement, Tick, Rest, StartSweep, SweepStep, ReadCandidates,
      Recheck, CountStrikes, ReadTips, InsertClockOut, AnnounceClockOut, ClockReading
  <2>2. TypeOK'
    BY StepKeepsTypes
  <2> QED BY <2>1, <2>2 DEF IInv, SerialInv, StrikeInv, TypeOK, Punch
<1>1. CASE punches' = punches
  <2>1. Past'
    BY <1>0, <1>1
  <2>2. StrikesNumbered'
    BY <1>1 DEF StrikeInv, StrikesNumbered, AutoOuts
  <2>3. ASSUME NEW h \in Handlers
        PROVE  Kept(task[h])'
    <3>1. CASE UNCHANGED task
      BY <1>0, <1>1, <3>1 DEF Sweeping
    <3>2. CASE HandlerStep(h)
      <4>1. CASE StartSweep(h)
        <5>1. task'[h].kind = "SWEEP" /\ task'[h].pc = "sweep" /\ task'[h].at = now + 1
          BY <1>0, <4>1 DEF StartSweep, Idle, ClockReading, TypeOK
        <5> QED BY <1>0, <1>1, <5>1
      <4>2. CASE SweepStep(h)
        <5>1. task[h].kind = "SWEEP"
          BY <1>0, <4>2
          DEF Found, SweepFound, SweepStep, ReadCandidates, Recheck, CountStrikes, ReadTips,
              InsertClockOut, AnnounceClockOut, At
        <5>2. CASE task'[h] = Idle
          BY <5>2 DEF Idle, PlainNote
        <5>3. CASE task'[h] # Idle
          BY <1>0, <1>1, <4>2, <5>1, <5>3, SweepAdvances
        <5> QED BY <5>2, <5>3
      <4>3. CASE PunchStep(h) \/ StartRequest(h) \/ Abort(h)
        <5>1. CASE task[h].kind # "SWEEP"
          BY <1>0, <4>3, <5>1, PunchKeepsPlain
        <5>2. CASE task[h].kind = "SWEEP"
          <6>1. ~PunchStep(h) /\ ~StartRequest(h)
            BY ZenonT(60), <1>0, <5>2
            DEF StartRequest, StartPunch, StartResolve, StartManual, Arrives, At,
               PunchStep, CheckActive, RefuseOutsideGeofence, ReadOwedDays, CheckOwedTips,
               CheckRoster, FindApproved, FindPending, CreateRequest, NotifyRequest, CheckTip,
               InsertPunch, ConsumeOverride, Announce, ReadInbox, MarkRead, ReadRequest,
               Decide, ReadLatest, UpdateNotice
          <6>2. task'[h] = Idle
            BY <1>0, <4>3, <6>1 DEF Abort, Finish, TypeOK
          <6> QED BY <6>2 DEF Idle, PlainNote
        <5> QED BY <5>1, <5>2
      <4> QED BY <3>2, <4>1, <4>2, <4>3 DEF HandlerStep
    <3> QED
      BY <3>1, <3>2, OneStatementRests
      DEF Serial, AttendanceNext, Next, HandlerStep, Tick, Rest, vars
  <2> QED BY <2>1, <2>2, <2>3 DEF StrikeInv
<1>2. ASSUME NEW h \in Handlers, InsertPunch(h)
      PROVE  StrikeInv'
  <2> DEFINE t == task[h]
             p == RowOf(t)
  <2>1. t.pc = "insert" /\ punches' = punches \cup {p} /\ now' = now
    BY <1>2 DEF InsertPunch, At
  <2>2. t.kind # "SWEEP" /\ ~t.note.auto
    BY <1>0, <2>1
  <2>3. ~p.note.auto
    BY <2>2 DEF RowOf
  <2> HIDE DEF p
  <2>4. Past'
    BY <1>0, <2>1, <2>3
  <2>5. \A e : AutoOuts(e)' = AutoOuts(e)
    BY <2>1, <2>3 DEF AutoOuts
  <2>6. StrikesNumbered'
    <3>1. \A x \in punches : StrikeOf(x, AutoOuts(x.emp))
      BY StrikesMeanStrikeOf DEF StrikeInv
    <3>2. StrikeOf(p, AutoOuts(p.emp))
      BY <2>3 DEF StrikeOf
    <3>3. \A x \in punches' : StrikeOf(x, AutoOuts(x.emp)')
      BY <2>1, <2>5, <3>1, <3>2
    <3> QED BY <3>3 DEF StrikesNumbered, StrikeOf, OnTime, InWeek, UpTo
  <2>7. task'[h].kind # "SWEEP" /\ ~task'[h].note.auto
    BY <1>0, <1>2, <2>2, PunchKeepsPlain DEF PunchStep
  <2>8. \A g \in Handlers : g = h
    BY DEF Serial
  <2> QED BY <2>4, <2>6, <2>7, <2>8 DEF StrikeInv
<1>3. ASSUME NEW h \in Handlers, InsertClockOut(h)
      PROVE  StrikeInv'
  <2> DEFINE t == task[h]
             q == [id |-> ClockReading, emp |-> t.emp, type |-> "OUT", at |-> ClockReading,
                   note |-> t.note, via |-> "SWEEP", off |-> FALSE, ov |-> 0]
             outs == AutoOuts(t.emp)
  <2>1. /\ t.pc = "clockout" /\ punches' = punches \cup {q} /\ now' = now + 1
    BY <1>3 DEF InsertClockOut, At, ClockReading
  <2>2. q.emp = t.emp /\ q.type = "OUT" /\ q.at = now + 1 /\ q.note = t.note
    BY DEF ClockReading
  <2> HIDE DEF q
  <2>3. /\ t.kind = "SWEEP" /\ t.at \in 1 .. now /\ t.note = Counted(t, Missing(t))
        /\ t.emp \in Sweeping(t)
    BY <1>0, <2>1 DEF Found, SweepFound, Sweeping
  <2>4. Past'
    BY <1>0, <2>1, <2>2
  <2>5. /\ q.note.auto /\ q.note.day = Day(t.at)
        /\ q.note.strike = Cardinality(PriorStrikes(t.emp, t.at)) + 1
        /\ q.note.penalty <=> q.note.strike > StrikeLimit
    <3>1. ASSUME NEW d, NEW k, NEW o
          PROVE  /\ Ticket(d, k, o).auto /\ Ticket(d, k, o).strike = k
                 /\ Ticket(d, k, o).penalty <=> k > StrikeLimit
                 /\ Ticket(d, k, o).day = d
      <4>1. \A b : LET x == [auto |-> TRUE, day |-> d, strike |-> k, penalty |-> b, owed |-> o]
                   IN  x.auto /\ x.strike = k /\ x.penalty = b /\ x.day = d
        OBVIOUS
      <4> QED BY <4>1 DEF Ticket
    <3> QED BY <2>2, <2>3, <3>1 DEF Counted
  <2>6. \A p \in outs : p \in punches /\ p.note.auto /\ p.emp = t.emp /\ p.at \in Nat /\ p.at <= t.at
    BY <1>0, <2>3 DEF AutoOuts
  <2>7. PriorStrikes(t.emp, t.at) = UpTo(InWeek(outs, t.at), t.at)
    BY DEF PriorStrikes, UpTo, InWeek
  <2>8. IsFiniteSet(outs)
    <3>1. outs \subseteq punches
      BY DEF AutoOuts
    <3> QED BY <1>0, <3>1, FS_Subset
  <2>9. StrikeOf(q, outs \cup {q})
    <3>1. t.at \in Nat /\ q.at \in Nat /\ t.at < q.at
      BY <1>0, <2>2, <2>3
    <3> HIDE DEF outs
    <3> QED BY <2>5, <2>6, <2>7, <2>8, <3>1, NewOutStrike
  <2>10. \A e : AutoOuts(e)' = IF e = t.emp THEN outs \cup {q} ELSE AutoOuts(e)
    BY <2>1, <2>2, <2>5 DEF AutoOuts
  <2>11. ASSUME NEW p \in punches
         PROVE  StrikeOf(p, AutoOuts(p.emp)')
    <3>1. StrikeOf(p, AutoOuts(p.emp))
      BY StrikesMeanStrikeOf DEF StrikeInv
    <3>2. CASE p.note.auto
      <4>1. p.at \in Nat /\ q.at \in Nat /\ p.at < q.at
        BY <1>0, <2>2, <3>2
      <4> QED BY <2>10, <3>1, <4>1, LaterOutKeepsStrike
    <3>3. CASE ~p.note.auto
      BY <3>3 DEF StrikeOf
    <3> QED BY <3>2, <3>3
  <2>12. \A p \in punches' : StrikeOf(p, AutoOuts(p.emp)')
    BY <2>1, <2>2, <2>9, <2>10, <2>11
  <2>13. StrikesNumbered'
    BY <2>12 DEF StrikesNumbered, StrikeOf, OnTime, InWeek, UpTo
  <2>14. Kept(task[h])'
    <3>1. /\ task'[h].kind = "SWEEP" /\ task'[h].at = t.at
          /\ task'[h].pc \in {"sweep", "recheck", "count", "owes", "clockout", "announce"}
          /\ Sweeping(task'[h]) \subseteq Sweeping(t) /\ t.emp \notin Sweeping(task'[h])
          /\ task'[h].pc \in {"count", "owes", "clockout"} => task'[h].emp \notin task'[h].todo
      <4>1. task'[h].pc = "announce"
        BY <1>0, <1>3, Flow
      <4>2. task'[h] # Idle
        BY <4>1 DEF Idle
      <4> QED BY <1>0, <1>3, <2>3, <4>2, SweepAdvances DEF SweepStep
    <3> QED BY <1>0, <2>1, <2>2, <2>3, <3>1
  <2>15. \A g \in Handlers : g = h
    BY DEF Serial
  <2> QED BY <2>4, <2>13, <2>14, <2>15 DEF StrikeInv
<1> QED BY <1>1, <1>2, <1>3, RowsOnlyAdded

(* Sweeps that run one at a time over rows that nobody corrects number the *)
(* automatic clock-outs of each employee and week 1, 2, 3, ..., and charge *)
(* the penalty exactly beyond the limit (autoClockOutAfterSchedule counts  *)
(* before it writes), in every week in which no sweep ran across midnight. *)
THEOREM StrikesAreNumbered ==
  Serial /\ NoCorrections /\ AttendanceSpec => []StrikesNumbered
<1> SUFFICES ASSUME Serial, NoCorrections PROVE AttendanceSpec => []StrikesNumbered
  OBVIOUS
<1>1. TableInit => StrikeInv
  BY DEF TableInit, StrikeInv, StrikesNumbered, Idle, PlainNote
<1>2. IInv /\ SerialInv /\ StrikeInv /\ [AttendanceNext]_vars => StrikeInv'
  BY StepKeepsStrikes
<1>3. StrikeInv => StrikesNumbered
  BY DEF StrikeInv
<1> QED BY <1>1, <1>2, <1>3, ChecksHold, SerialInvariant, PTL DEF AttendanceSpec
=============================================================================
