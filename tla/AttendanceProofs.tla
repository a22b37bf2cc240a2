--------------------------- MODULE AttendanceProofs ---------------------------
(***************************************************************************)
(* Every step of Attendance keeps the types of the tables and of the       *)
(* handlers' local state, and keeps the punches finite; the inductive      *)
(* invariant of Attendance, and the properties that follow from it, for    *)
(* every value of the constants: any number of handlers and employees, any *)
(* schedules, with or without crashes.                                     *)
(***************************************************************************)
EXTENDS Attendance, TLAPS, FiniteSetTheorems, SequenceTheorems

-----------------------------------------------------------------------------
(* Lemmas about the helpers.                                               *)

(* The day of an instant is an integer.                                    *)
LEMMA DayIsInt == \A t \in Int : Day(t) \in Int
BY CalendarAssumption DEF Day

(* Moving a handler to another statement, or ending it, keeps task typed.  *)
LEMMA GotoType ==
  ASSUME TypeOK, NEW h \in Handlers, NEW label \in Labels, Goto(h, label)
  PROVE  task' \in [Handlers -> Task]
<1>1. task[h] \in Task /\ task \in [Handlers -> Task]
  BY DEF TypeOK
<1>2. [task[h] EXCEPT !.pc = label] \in Task
  BY <1>1 DEF Task
<1>3. task' = [task EXCEPT ![h] = [task[h] EXCEPT !.pc = label]]
  BY DEF Goto
<1> QED BY <1>1, <1>2, <1>3

LEMMA IdleType == Idle \in Task
BY PeopleAssumption DEF Idle, Task, PlainNote, Note, Labels, PunchTypes

LEMMA FinishType ==
  ASSUME TypeOK, NEW h \in Handlers, Finish(h)
  PROVE  task' \in [Handlers -> Task]
BY IdleType DEF TypeOK, Finish

(* The row a handler writes is a punch.                                    *)
LEMMA RowType == \A t \in Task : RowOf(t) \in Punch
BY DEF RowOf, Task, Punch, Origin

(* Using up a request keeps everything but consumed.                       *)
LEMMA ConsumedType ==
  ASSUME NEW r \in Request, NEW t \in Task
  PROVE  /\ Consumed(r, t) \in Request
         /\ Consumed(r, t).emp = r.emp /\ Consumed(r, t).day = r.day
         /\ Consumed(r, t).status = r.status /\ Consumed(r, t).granted = r.granted
         /\ r.consumed # 0 => Consumed(r, t).consumed = r.consumed
BY DEF Consumed, Request, Task

(* Replacing one element of a sequence keeps its type and length.          *)
LEMMA ReplaceType ==
  ASSUME NEW S, NEW seq \in Seq(S), NEW i, NEW x, i \in DOMAIN seq => x \in S
  PROVE  /\ [seq EXCEPT ![i] = x] \in Seq(S)
         /\ DOMAIN [seq EXCEPT ![i] = x] = DOMAIN seq
<1>1. CASE i \in DOMAIN seq
  BY <1>1, ExceptSeq
<1>2. CASE i \notin DOMAIN seq
  <2>1. [seq EXCEPT ![i] = x] = seq
    BY <1>2
  <2> QED BY <2>1
<1> QED BY <1>1, <1>2

-----------------------------------------------------------------------------
(* Every step keeps the types.                                             *)

LEMMA TypeInit == TableInit => TypeOK /\ IsFiniteSet(punches)
BY IdleType, FS_EmptySet DEF TableInit, TypeOK

(* Replacing a handler's task by a task.                                   *)
LEMMA TaskPutType ==
  ASSUME TypeOK, NEW h \in Handlers, NEW t \in Task, task' = [task EXCEPT ![h] = t]
  PROVE  task' \in [Handlers -> Task]
BY DEF TypeOK

LEMMA StartType ==
  ASSUME TypeOK, NEW h \in Handlers, StartRequest(h) \/ StartSweep(h)
  PROVE  TypeOK'
<1>0. now \in Nat /\ now + 1 \in Nat
  BY DEF TypeOK
<1>1. CASE StartPunch(h)
  <2>1. PICK e \in Employees, type \in PunchTypes, at \in {ClockReading} \cup EditTimes :
          task' = [task EXCEPT ![h] =
                    [Idle EXCEPT !.kind = "CLOCK", !.type = type, !.emp = e,
                                 !.at = at, !.id = now + 1,
                                 !.pc = FirstCheck(type)]]
    BY <1>1 DEF StartPunch, ClockReading
  <2>2. FirstCheck(type) \in Labels /\ at \in Nat
    BY <1>0, EditsAssumption DEF FirstCheck, Labels, ClockReading
  <2>3. [Idle EXCEPT !.kind = "CLOCK", !.type = type, !.emp = e, !.at = at,
                     !.id = now + 1, !.pc = FirstCheck(type)] \in Task
    BY <1>0, <2>2, IdleType DEF Task
  <2>4. task' \in [Handlers -> Task]
    BY <2>1, <2>3, TaskPutType
  <2> QED BY <1>0, <1>1, <2>4 DEF StartPunch, TypeOK, ClockReading
<1>2. CASE StartResolve(h)
  <2>1. PICK i \in DOMAIN requests, kind \in {"APPROVE", "REJECT"} :
          task' = [task EXCEPT ![h] =
                    [Idle EXCEPT !.pc = "resolve", !.kind = kind,
                                 !.type = "IN", !.ov = i]]
    BY <1>2 DEF StartResolve
  <2>2. i \in Nat /\ "resolve" \in Labels /\ "IN" \in PunchTypes
    BY DEF TypeOK, Labels, PunchTypes
  <2>3. [Idle EXCEPT !.pc = "resolve", !.kind = kind, !.type = "IN", !.ov = i] \in Task
    BY <2>2, IdleType DEF Task
  <2>4. task' \in [Handlers -> Task]
    BY <2>1, <2>3, TaskPutType
  <2> QED BY <1>2, <2>4 DEF StartResolve, TypeOK
<1>3. CASE StartManual(h)
  <2>1. PICK e \in Employees, type \in EditTypes, t \in EditTimes :
          task' = [task EXCEPT ![h] =
                    [Idle EXCEPT !.pc = "insert", !.kind = "MANUAL", !.emp = e,
                                 !.type = type, !.at = t, !.id = now + 1]]
    BY <1>3 DEF StartManual, ClockReading
  <2>2. type \in PunchTypes /\ t \in Nat /\ "insert" \in Labels
    BY EditsAssumption DEF Labels
  <2>3. [Idle EXCEPT !.pc = "insert", !.kind = "MANUAL", !.emp = e,
                     !.type = type, !.at = t, !.id = now + 1] \in Task
    BY <1>0, <2>2, IdleType DEF Task
  <2>4. task' \in [Handlers -> Task]
    BY <2>1, <2>3, TaskPutType
  <2> QED BY <1>0, <1>3, <2>4 DEF StartManual, TypeOK, ClockReading
<1>4. CASE StartSweep(h)
  <2>1. [Idle EXCEPT !.pc = "sweep", !.kind = "SWEEP", !.at = now + 1] \in Task
    BY <1>0, IdleType DEF Task, Labels
  <2>2. task' \in [Handlers -> Task]
    BY <1>4, <2>1, TaskPutType DEF StartSweep, ClockReading
  <2> QED BY <1>0, <1>4, <2>2 DEF StartSweep, TypeOK, ClockReading
<1> QED BY <1>1, <1>2, <1>3, <1>4 DEF StartRequest

(* A message that an administrator marks as read keeps its type.           *)
LEMMA FiledType ==
  ASSUME NEW m \in Message
  PROVE  Filed(m) \in Message
BY DEF Filed, Message

LEMMA OtherType ==
  ASSUME TypeOK, OtherRequest \/ Tick \/ Rest
  PROVE  TypeOK'
<1> USE DEF TypeOK, OneStatement, ClockReading
<1>1. CASE SubmitTip
  <2>1. PICK e \in Servers, d \in 0 .. Day(now + 1) : tips' = tips \cup {<<e, d>>}
    BY <1>1 DEF SubmitTip
  <2>2. d \in Int /\ e \in Employees
    BY PeopleAssumption
  <2> QED BY <1>1, <2>1, <2>2 DEF SubmitTip
<1>2. CASE UpdateSchedule
  BY <1>2 DEF UpdateSchedule
<1>3. CASE SendMessage
  <2>1. PICK e \in Employees :
          mail' = Append(mail, [emp |-> e, unread |-> TRUE, shown |-> 0, filed |-> FALSE])
    BY <1>3 DEF SendMessage
  <2>2. [emp |-> e, unread |-> TRUE, shown |-> 0, filed |-> FALSE] \in Message
    BY DEF Message
  <2>3. mail' \in Seq(Message)
    BY <2>1, <2>2, AppendProperties
  <2> QED BY <1>3, <2>3 DEF SendMessage
<1>8. CASE MarkNoticeRead
  <2>1. PICK m \in DOMAIN mail : mail' = [mail EXCEPT ![m] = Filed(mail[m])]
    BY <1>8 DEF MarkNoticeRead
  <2>2. mail' \in Seq(Message)
    BY <2>1, FiledType, ReplaceType
  <2> QED BY <1>8, <2>2 DEF MarkNoticeRead
<1>9. CASE MarkAllRead
  <2>1. mail' = [m \in DOMAIN mail |-> Filed(mail[m])]
    BY <1>9 DEF MarkAllRead
  <2>2. \A m \in 1 .. Len(mail) : Filed(mail[m]) \in Message
    BY FiledType
  <2>3. mail' \in Seq(Message)
    BY <2>1, <2>2
  <2> QED BY <1>9, <2>3 DEF MarkAllRead
<1>4. CASE UpdateRecord
  <2>1. PICK p \in punches, type \in PunchTypes, t \in Nat, note \in Note :
          punches' = (punches \ {p}) \cup
            {[p EXCEPT !.type = type, !.at = t, !.note = note, !.via = "MANUAL"]}
    BY <1>4, EditsAssumption DEF UpdateRecord, Punch, PlainNote, Note
  <2>2. [p EXCEPT !.type = type, !.at = t, !.note = note, !.via = "MANUAL"] \in Punch
    BY DEF Punch
  <2> QED BY <1>4, <2>1, <2>2 DEF UpdateRecord
<1>5. CASE DeleteRecord
  BY <1>5 DEF DeleteRecord
<1>6. CASE Tick
  BY <1>6 DEF Tick
<1>7. CASE Rest
  BY <1>7 DEF Rest, vars
<1> QED BY <1>1, <1>2, <1>3, <1>4, <1>5, <1>6, <1>7, <1>8, <1>9 DEF OtherRequest

(* A step of a handler that only changes its own task.                     *)
LEMMA OnlyTaskType ==
  ASSUME TypeOK, task' \in [Handlers -> Task],
         UNCHANGED <<now, punches, requests, tips, roster, mail, announced>>
  PROVE  TypeOK'
BY DEF TypeOK

LEMMA PlainNoteType == PlainNote \in Note
BY DEF PlainNote, Note

(* Replacing a request by one whose fields have the right types.           *)
LEMMA RequestPutType ==
  ASSUME TypeOK, NEW i, NEW r, i \in DOMAIN requests => r \in Request,
         requests' = [requests EXCEPT ![i] = r]
  PROVE  requests' \in Seq(Request) /\ DOMAIN requests' = DOMAIN requests
BY ReplaceType DEF TypeOK

(* Elements of the sequences, and their indexes, are typed.                *)
LEMMA ElementType ==
  ASSUME TypeOK
  PROVE  /\ \A i \in DOMAIN requests : i \in Nat /\ requests[i] \in Request
         /\ \A m \in DOMAIN mail : m \in Nat /\ mail[m] \in Message
BY DEF TypeOK

(* A message that is shown, and a request that is decided, keep their type. *)
LEMMA ShownType ==
  ASSUME NEW m \in Message
  PROVE  [m EXCEPT !.unread = FALSE, !.shown = @ + 1] \in Message
<1> DEFINE y == [m EXCEPT !.unread = FALSE]
<1>0. m.shown \in Nat
  BY DEF Message
<1>1. y \in Message
  BY DEF Message
<1>2. \A n \in Nat : [y EXCEPT !.shown = n] \in Message
  BY <1>1 DEF Message
<1>3. [m EXCEPT !.unread = FALSE, !.shown = @ + 1] = [y EXCEPT !.shown = m.shown + 1]
  OBVIOUS
<1>4. m.shown + 1 \in Nat
  BY <1>0
<1>5. [y EXCEPT !.shown = m.shown + 1] \in Message
  <2> HIDE DEF y
  <2> QED BY <1>2, <1>4
<1> QED BY <1>3, <1>5

LEMMA DecidedType ==
  ASSUME NEW r \in Request
  PROVE  /\ [r EXCEPT !.status = "APPROVED", !.granted = TRUE] \in Request
         /\ [r EXCEPT !.status = "REJECTED"] \in Request
BY DEF Request

LEMMA PunchStepType ==
  ASSUME TypeOK, NEW h \in Handlers, ChecksHoldOn(h), PunchStep(h)
  PROVE  TypeOK'
<1> DEFINE t == task[h]
<1>0. t \in Task /\ task \in [Handlers -> Task]
  BY DEF TypeOK
<1>1. CASE CheckActive(h)
  BY <1>1, GotoType, FinishType, OnlyTaskType DEF CheckActive, Labels
<1>2. CASE RefuseOutsideGeofence(h)
  BY <1>2, FinishType, OnlyTaskType DEF RefuseOutsideGeofence
<1>3. CASE ReadOwedDays(h)
  <2> DEFINE owed == IF t.emp \in Servers
                     THEN {d \in OwedDays(t.emp, t.at) : d <= Day(t.at)} ELSE {}
             u == [t EXCEPT !.pc = IF owed = {} THEN "roster" ELSE "tips",
                            !.note.owed = owed]
  <2>1. \A p \in punches : p.note.owed \in SUBSET Int
    BY DEF TypeOK, Punch, Note
  <2>2. owed \in SUBSET Int
    BY SMTT(30), <2>1 DEF OwedDays, AutoOuts
  <2>3. u \in Task
    BY <1>0, <2>2 DEF Task, Note, Labels
  <2>4. task' = [task EXCEPT ![h] = u]
    BY <1>0, <1>3 DEF ReadOwedDays
  <2> QED BY <1>3, <2>3, <2>4, TaskPutType, OnlyTaskType DEF ReadOwedDays
<1>4. CASE CheckOwedTips(h)
  <2> DEFINE u == [t EXCEPT !.pc = "roster", !.note = PlainNote]
  <2>1. u \in Task
    BY <1>0, PlainNoteType DEF Task, Labels
  <2>2. task' = [task EXCEPT ![h] = u] \/ Finish(h)
    BY <1>0, <1>4 DEF CheckOwedTips
  <2> QED BY <1>4, <2>1, <2>2, TaskPutType, FinishType, OnlyTaskType DEF CheckOwedTips
<1>5. CASE CheckRoster(h)
  <2> DEFINE off == t.emp \notin Owners \cup Kitchen /\ Violation(t.emp, t.at)
             u == [t EXCEPT !.pc = IF off THEN "approved" ELSE "insert", !.off = off]
  <2>1. off \in BOOLEAN
    BY DEF Violation
  <2>2. u \in Task
    BY <1>0, <2>1 DEF Task, Labels
  <2>3. task' = [task EXCEPT ![h] = u]
    BY <1>0, <1>5 DEF CheckRoster
  <2> QED BY <1>5, <2>2, <2>3, TaskPutType, OnlyTaskType DEF CheckRoster
<1>6. CASE FindApproved(h)
  <2>1. ASSUME NEW i \in DOMAIN requests,
               task' = [task EXCEPT ![h].pc = "insert", ![h].ov = i]
        PROVE  task' \in [Handlers -> Task]
    <3>1. [t EXCEPT !.pc = "insert", !.ov = i] \in Task
      BY <1>0, ElementType DEF Task, Labels
    <3>2. task' = [task EXCEPT ![h] = [t EXCEPT !.pc = "insert", !.ov = i]]
      BY <1>0, <2>1
    <3> QED BY <3>1, <3>2, TaskPutType
  <2>2. Goto(h, "pending") => task' \in [Handlers -> Task]
    BY GotoType DEF Labels
  <2>3. Goto(h, "pending") \/ \E i \in DOMAIN requests :
          task' = [task EXCEPT ![h].pc = "insert", ![h].ov = i]
    BY <1>6 DEF FindApproved, RequestsFor
  <2> QED BY <1>6, <2>1, <2>2, <2>3, OnlyTaskType DEF FindApproved
<1>7. CASE FindPending(h)
  BY <1>7, GotoType, FinishType, OnlyTaskType DEF FindPending, Labels
<1>8. CASE CreateRequest(h)
  <2> DEFINE r == [emp |-> t.emp, day |-> Day(t.at), status |-> "PENDING",
                   consumed |-> 0, granted |-> FALSE, notice |-> "NONE"]
             u == [t EXCEPT !.pc = "tell", !.ov = Len(requests) + 1]
  <2>1. r \in Request
    BY <1>0, DayIsInt DEF Task, Request
  <2>2. requests' \in Seq(Request)
    BY <1>8, <2>1, AppendProperties DEF CreateRequest, TypeOK
  <2>3. Len(requests) + 1 \in Nat
    BY DEF TypeOK
  <2>4. u \in Task
    BY <1>0, <2>3 DEF Task, Labels
  <2>5. task' = [task EXCEPT ![h] = u]
    BY <1>0, <1>8 DEF CreateRequest
  <2>6. task' \in [Handlers -> Task]
    BY <2>4, <2>5, TaskPutType
  <2> QED BY <1>8, <2>2, <2>6 DEF CreateRequest, TypeOK
<1>9. CASE NotifyRequest(h)
  <2>1. \A i \in DOMAIN requests : [requests[i] EXCEPT !.notice = "PENDING"] \in Request
    BY ElementType DEF Request
  <2>2. requests' = [requests EXCEPT ![t.ov] = [requests[t.ov] EXCEPT !.notice = "PENDING"]]
    BY <1>9 DEF NotifyRequest
  <2>3. requests' \in Seq(Request)
    BY <2>1, <2>2, RequestPutType
  <2> QED BY <1>9, <2>3, FinishType DEF NotifyRequest, TypeOK
<1>10. CASE CheckTip(h)
  BY <1>10, GotoType, FinishType, OnlyTaskType DEF CheckTip, Labels
<1>11. CASE InsertPunch(h)
  <2>1. task' \in [Handlers -> Task]
    BY <1>11, GotoType DEF InsertPunch, Labels
  <2>2. punches' \subseteq Punch
    BY <1>0, <1>11, RowType DEF InsertPunch, TypeOK
  <2> QED BY <1>11, <2>1, <2>2 DEF InsertPunch, TypeOK
<1>12. CASE ConsumeOverride(h)
  <2>1. task' \in [Handlers -> Task]
    BY <1>12, GotoType DEF ConsumeOverride, Labels
  <2>2. \A i \in DOMAIN requests : Consumed(requests[i], t) \in Request
    BY <1>0, ConsumedType DEF TypeOK
  <2>3. requests' = [requests EXCEPT ![t.ov] = Consumed(requests[t.ov], t)]
    BY <1>12 DEF ConsumeOverride
  <2>4. requests' \in Seq(Request)
    BY <2>2, <2>3, RequestPutType
  <2> QED BY <1>12, <2>1, <2>4 DEF ConsumeOverride, TypeOK
<1>13. CASE Announce(h)
  <2>1. task' \in [Handlers -> Task]
    BY <1>13, GotoType, FinishType DEF Announce, Labels
  <2>2. announced' \subseteq Nat
    BY <1>0, <1>13 DEF Announce, TypeOK, Task
  <2> QED BY <1>13, <2>1, <2>2 DEF Announce, TypeOK
<1>14. CASE ReadInbox(h)
  <2>1. ASSUME NEW m \in DOMAIN mail,
               task' = [task EXCEPT ![h].pc = "mark", ![h].msg = m]
        PROVE  task' \in [Handlers -> Task]
    <3>1. [t EXCEPT !.pc = "mark", !.msg = m] \in Task
      BY <1>0, ElementType DEF Task, Labels
    <3>2. task' = [task EXCEPT ![h] = [t EXCEPT !.pc = "mark", !.msg = m]]
      BY <1>0, <2>1
    <3> QED BY <3>1, <3>2, TaskPutType
  <2>2. Finish(h) \/ \E m \in DOMAIN mail :
          task' = [task EXCEPT ![h].pc = "mark", ![h].msg = m]
    BY <1>14 DEF ReadInbox
  <2> QED BY <1>14, <2>1, <2>2, FinishType, OnlyTaskType DEF ReadInbox
<1>15. CASE MarkRead(h)
  <2> DEFINE x == [mail[t.msg] EXCEPT !.unread = FALSE, !.shown = @ + 1]
  <2>1. ASSUME t.msg \in DOMAIN mail
        PROVE  x \in Message
    BY <2>1, ElementType, ShownType
  <2>2. mail' = [mail EXCEPT ![t.msg] = x]
    BY <1>15 DEF MarkRead
  <2>3. mail' \in Seq(Message)
    BY <2>1, <2>2, ReplaceType DEF TypeOK
  <2> QED BY <1>15, <2>3, FinishType DEF MarkRead, TypeOK
<1>16. CASE ReadRequest(h)
  <2> DEFINE r == requests[t.ov]
             u == [t EXCEPT !.pc = "decide", !.emp = r.emp, !.at = now + 1]
  <2>1. r \in Request /\ now + 1 \in Nat
    BY <1>16 DEF ChecksHoldOn, ReadRequest, At, TypeOK
  <2>2. u \in Task
    BY <1>0, <2>1 DEF Task, Labels, Request
  <2>3. Decidable(r) => task' = [task EXCEPT ![h] = u] /\ now' = now + 1
    BY <1>0, <1>16 DEF ReadRequest, ClockReading
  <2>4. ~Decidable(r) => Finish(h) /\ now' = now
    BY <1>16 DEF ReadRequest
  <2>5. task' \in [Handlers -> Task] /\ now' \in Nat
    BY <2>1, <2>2, <2>3, <2>4, TaskPutType, FinishType DEF TypeOK
  <2> QED BY <1>16, <2>5 DEF ReadRequest, TypeOK
<1>17. CASE Decide(h)
  <2>1. task' \in [Handlers -> Task]
    BY <1>17, GotoType DEF Decide, Labels
  <2>2. ASSUME t.ov \in DOMAIN requests
        PROVE  /\ [requests[t.ov] EXCEPT !.status = "APPROVED", !.granted = TRUE] \in Request
               /\ [requests[t.ov] EXCEPT !.status = "REJECTED"] \in Request
    BY <2>2, ElementType, DecidedType
  <2>3. \/ requests' = [requests EXCEPT ![t.ov] =
                [requests[t.ov] EXCEPT !.status = "APPROVED", !.granted = TRUE]]
        \/ requests' = [requests EXCEPT ![t.ov] =
                [requests[t.ov] EXCEPT !.status = "REJECTED"]]
    BY <1>17 DEF Decide
  <2>4. requests' \in Seq(Request)
    BY <2>2, <2>3, RequestPutType
  <2> QED BY <1>17, <2>1, <2>4 DEF Decide, TypeOK
<1>18. CASE ReadLatest(h)
  <2> DEFINE u == [t EXCEPT !.pc = "insert", !.id = t.at]
  <2>1. u \in Task
    BY <1>0 DEF Task, Labels
  <2>2. Goto(h, "consume") \/ task' = [task EXCEPT ![h] = u]
    BY <1>0, <1>18 DEF ReadLatest
  <2> QED BY <1>18, <2>1, <2>2, GotoType, TaskPutType, OnlyTaskType DEF ReadLatest, Labels
<1>19. CASE UpdateNotice(h)
  <2>1. \A i \in DOMAIN requests :
          [requests[i] EXCEPT !.notice = NoticeStatus(t.kind)] \in Request
    BY ElementType DEF Request, NoticeStatus
  <2>2. requests' = [requests EXCEPT ![t.ov] =
                       [requests[t.ov] EXCEPT !.notice = NoticeStatus(t.kind)]]
    BY <1>19 DEF UpdateNotice
  <2>3. requests' \in Seq(Request)
    BY <2>1, <2>2, RequestPutType
  <2> QED BY <1>19, <2>3, FinishType DEF UpdateNotice, TypeOK
<1> QED
  BY <1>1, <1>2, <1>3, <1>4, <1>5, <1>6, <1>7, <1>8, <1>9, <1>10, <1>11, <1>12, <1>13,
     <1>14, <1>15, <1>16, <1>17, <1>18, <1>19 DEF PunchStep

LEMMA ContinueType ==
  ASSUME TypeOK, NEW h \in Handlers, NEW todo \in SUBSET Employees, Continue(h, todo)
  PROVE  task' \in [Handlers -> Task]
<1> DEFINE u == [task[h] EXCEPT !.pc = "recheck", !.todo = todo,
                                !.id = 0, !.note = PlainNote]
<1>0. task[h] \in Task /\ task \in [Handlers -> Task]
  BY DEF TypeOK
<1>1. u \in Task
  BY <1>0, PlainNoteType DEF Task, Labels
<1>2. task' = [task EXCEPT ![h] = u] \/ Finish(h)
  BY <1>0 DEF Continue
<1> QED BY <1>1, <1>2, TaskPutType, FinishType

LEMMA SweepStepType ==
  ASSUME TypeOK, IsFiniteSet(punches), NEW h \in Handlers, SweepStep(h)
  PROVE  TypeOK'
<1> DEFINE t == task[h]
<1>0. t \in Task /\ task \in [Handlers -> Task]
  BY DEF TypeOK
<1>1. CASE ReadCandidates(h)
  <2>1. ASSUME NEW due \in SUBSET Employees,
               task' = [task EXCEPT ![h].pc = "recheck", ![h].todo = due]
        PROVE  task' \in [Handlers -> Task]
    <3>1. [t EXCEPT !.pc = "recheck", !.todo = due] \in Task
      BY <1>0 DEF Task, Labels
    <3>2. task' = [task EXCEPT ![h] = [t EXCEPT !.pc = "recheck", !.todo = due]]
      BY <1>0, <2>1
    <3> QED BY <3>1, <3>2, TaskPutType
  <2>2. Finish(h) \/ \E due \in SUBSET Employees :
          task' = [task EXCEPT ![h].pc = "recheck", ![h].todo = due]
    BY <1>1 DEF ReadCandidates, Swept
  <2> QED BY <1>1, <2>1, <2>2, FinishType, OnlyTaskType DEF ReadCandidates
<1>2. CASE Recheck(h)
  <2>1. PICK e \in t.todo :
          \/ task' = [task EXCEPT ![h].pc = "count", ![h].emp = e, ![h].todo = @ \ {e}]
          \/ Continue(h, t.todo \ {e})
    BY <1>2 DEF Recheck
  <2> DEFINE u == [t EXCEPT !.pc = "count", !.emp = e, !.todo = t.todo \ {e}]
  <2>2. t.todo \ {e} \in SUBSET Employees /\ e \in Employees
    BY <1>0 DEF Task
  <2>3. u \in Task
    BY <1>0, <2>2 DEF Task, Labels
  <2>4. task' = [task EXCEPT ![h] = u] \/ Continue(h, t.todo \ {e})
    BY <1>0, <2>1
  <2>5. task' \in [Handlers -> Task]
    BY <2>2, <2>3, <2>4, TaskPutType, ContinueType
  <2> QED BY <1>2, <2>5, OnlyTaskType DEF Recheck
<1>3. CASE CountStrikes(h)
  <2> DEFINE strike == Cardinality(PriorStrikes(t.emp, t.at)) + 1
             note == [auto |-> TRUE, day |-> Day(t.at), strike |-> strike,
                      penalty |-> strike > StrikeLimit, owed |-> {}]
             u == [t EXCEPT !.pc = IF t.emp \in Servers THEN "owes" ELSE "clockout",
                            !.note = note]
  <2>1. PriorStrikes(t.emp, t.at) \subseteq punches
    BY DEF PriorStrikes, AutoOuts
  <2>2. Cardinality(PriorStrikes(t.emp, t.at)) \in Nat
    BY <2>1, FS_Subset, FS_CardinalityType
  <2>3. strike \in Nat /\ (strike > StrikeLimit) \in BOOLEAN
    BY <2>2
  <2>4. Day(t.at) \in Int
    BY <1>0, DayIsInt DEF Task
  <2>5. note \in Note
    BY <2>3, <2>4 DEF Note
  <2>6. u \in Task
    BY <1>0, <2>5 DEF Task, Labels
  <2>7. task' = [task EXCEPT ![h] = u]
    BY <1>0, <1>3 DEF CountStrikes
  <2> QED BY <1>3, <2>6, <2>7, TaskPutType, OnlyTaskType DEF CountStrikes
<1>4. CASE ReadTips(h)
  <2> DEFINE owed == {d \in {Day(t.at)} : <<t.emp, d>> \notin tips}
             u == [t EXCEPT !.pc = "clockout", !.note = [t.note EXCEPT !.owed = owed]]
  <2>1. owed \in SUBSET Int
    BY <1>0, DayIsInt DEF Task
  <2>2. [t.note EXCEPT !.owed = owed] \in Note
    BY <1>0, <2>1 DEF Task, Note
  <2>3. u \in Task
    BY <1>0, <2>2 DEF Task, Labels
  <2>4. task' = [task EXCEPT ![h] = u]
    BY <1>0, <1>4 DEF ReadTips
  <2> QED BY <1>4, <2>3, <2>4, TaskPutType, OnlyTaskType DEF ReadTips
<1>5. CASE InsertClockOut(h)
  <2> DEFINE p == [id |-> now + 1, emp |-> t.emp, type |-> "OUT", at |-> now + 1,
                   note |-> t.note, via |-> "SWEEP", off |-> FALSE, ov |-> 0]
             u == [t EXCEPT !.pc = "announce", !.id = now + 1]
  <2>1. now + 1 \in Nat
    BY DEF TypeOK
  <2>2. p \in Punch
    BY <1>0, <2>1 DEF Task, Punch, PunchTypes
  <2>3. u \in Task
    BY <1>0, <2>1 DEF Task, Labels
  <2>4. punches' = punches \cup {p} /\ task' = [task EXCEPT ![h] = u] /\ now' = now + 1
    BY <1>0, <1>5 DEF InsertClockOut, ClockReading
  <2>5. task' \in [Handlers -> Task]
    BY <2>3, <2>4, TaskPutType
  <2> QED BY <1>5, <2>1, <2>2, <2>4, <2>5 DEF InsertClockOut, TypeOK
<1>6. CASE AnnounceClockOut(h)
  <2>1. t.todo \in SUBSET Employees /\ t.id \in Nat
    BY <1>0 DEF Task
  <2>2. task' \in [Handlers -> Task]
    BY <1>6, <2>1, ContinueType DEF AnnounceClockOut
  <2>3. announced' \subseteq Nat
    BY <1>6, <2>1 DEF AnnounceClockOut, TypeOK
  <2> QED BY <1>6, <2>2, <2>3 DEF AnnounceClockOut, TypeOK
<1> QED BY <1>1, <1>2, <1>3, <1>4, <1>5, <1>6 DEF SweepStep

LEMMA AbortType ==
  ASSUME TypeOK, NEW h \in Handlers, Abort(h)
  PROVE  TypeOK'
BY FinishType, OnlyTaskType DEF Abort

(* No step but an entry or an edit changes the punches, and by one row.    *)
LEMMA PunchesStayFinite ==
  ASSUME IsFiniteSet(punches), [AttendanceNext]_vars
  PROVE  IsFiniteSet(punches')
<1>1. \/ punches' = punches
      \/ \E p : punches' = punches \cup {p}
      \/ \E p : punches' = punches \ {p}
      \/ \E p, q : punches' = (punches \ {p}) \cup {q}
  BY ZenonT(60) DEF AttendanceNext, Next, vars, StartRequest, StartPunch, StartResolve, StartManual,
         PunchStep, CheckActive, RefuseOutsideGeofence, ReadOwedDays, CheckOwedTips,
         CheckRoster, FindApproved, FindPending, CreateRequest, NotifyRequest, CheckTip,
         InsertPunch, ConsumeOverride, Announce, ReadInbox, MarkRead, ReadRequest,
         Decide, ReadLatest, UpdateNotice, Abort, OtherRequest, SubmitTip,
         UpdateSchedule, SendMessage,
         MarkNoticeRead, MarkAllRead, UpdateRecord, DeleteRecord, Tick, Rest,
         StartSweep, SweepStep, ReadCandidates, Recheck, CountStrikes, ReadTips,
         InsertClockOut, AnnounceClockOut
<1>2. CASE punches' = punches
  BY <1>2
<1>3. ASSUME NEW p, punches' = punches \cup {p}
      PROVE  IsFiniteSet(punches')
  BY <1>3, FS_AddElement
<1>4. ASSUME NEW p, punches' = punches \ {p}
      PROVE  IsFiniteSet(punches')
  BY <1>4, FS_RemoveElement
<1>5. ASSUME NEW p, NEW q, punches' = (punches \ {p}) \cup {q}
      PROVE  IsFiniteSet(punches')
  <2>1. IsFiniteSet(punches \ {p})
    BY FS_RemoveElement
  <2> QED BY <1>5, <2>1, FS_AddElement
<1> QED BY <1>1, <1>2, <1>3, <1>4, <1>5

-----------------------------------------------------------------------------
(* What no step ever takes back.                                           *)

(* A request stays what it is about, stays granted, keeps its consumedAt   *)
(* and is never pending again.                                             *)
RequestsGrow ==
  /\ DOMAIN requests \subseteq DOMAIN requests'
  /\ \A i \in DOMAIN requests :
       /\ requests'[i].emp = requests[i].emp
       /\ requests'[i].day = requests[i].day
       /\ requests[i].granted => requests'[i].granted
       /\ requests[i].consumed # 0 => requests'[i].consumed = requests[i].consumed
       /\ requests[i].status # "PENDING" => requests'[i].status # "PENDING"

(* Replacing one request by one that is about the same employee and day.   *)
LEMMA RequestEdit ==
  ASSUME TypeOK, ApprovedWasGranted, NEW i, NEW r,
         requests' = [requests EXCEPT ![i] = r],
         i \in DOMAIN requests =>
           /\ r.emp = requests[i].emp /\ r.day = requests[i].day
           /\ requests[i].granted => r.granted
           /\ requests[i].consumed # 0 => r.consumed = requests[i].consumed
           /\ requests[i].status # "PENDING" => r.status # "PENDING"
           /\ r.status = "APPROVED" => r.granted
  PROVE  RequestsGrow /\ ApprovedWasGranted'
<1>1. /\ DOMAIN requests' = DOMAIN requests
      /\ \A j \in DOMAIN requests : requests'[j] = IF j = i THEN r ELSE requests[j]
  OBVIOUS
<1> QED BY <1>1 DEF RequestsGrow, ApprovedWasGranted

LEMMA StepGrowsRequests ==
  ASSUME TypeOK, ApprovedWasGranted, [AttendanceNext]_vars
  PROVE  RequestsGrow /\ ApprovedWasGranted'
<1>1. ASSUME NEW h \in Handlers, CreateRequest(h)
      PROVE  RequestsGrow /\ ApprovedWasGranted'
  <2> DEFINE r == [emp |-> task[h].emp, day |-> Day(task[h].at), status |-> "PENDING",
                   consumed |-> 0, granted |-> FALSE, notice |-> "NONE"]
  <2>1. requests' = Append(requests, r) /\ requests \in Seq(Request)
    BY <1>1 DEF CreateRequest, TypeOK
  <2>2. /\ DOMAIN requests = 1 .. Len(requests) /\ Len(requests) \in Nat
        /\ DOMAIN requests' = 1 .. Len(requests) + 1
        /\ \A i \in 1 .. Len(requests) : requests'[i] = requests[i]
        /\ requests'[Len(requests) + 1] = r
    <3> HIDE DEF r
    <3> QED BY <2>1
  <2>3. \A i \in DOMAIN requests' : i \in DOMAIN requests \/ i = Len(requests) + 1
    BY <2>2
  <2> QED BY <2>2, <2>3 DEF RequestsGrow, ApprovedWasGranted
<1>2. ASSUME NEW h \in Handlers, NotifyRequest(h)
      PROVE  RequestsGrow /\ ApprovedWasGranted'
  <2> DEFINE i == task[h].ov
             r == [requests[i] EXCEPT !.notice = "PENDING"]
  <2>1. requests' = [requests EXCEPT ![i] = r]
    BY <1>2 DEF NotifyRequest
  <2>2. i \in DOMAIN requests => requests[i] \in Request
    BY ElementType
  <2> QED BY <2>1, <2>2, RequestEdit DEF Request, ApprovedWasGranted
<1>3. ASSUME NEW h \in Handlers, ConsumeOverride(h)
      PROVE  RequestsGrow /\ ApprovedWasGranted'
  <2> DEFINE i == task[h].ov
             r == Consumed(requests[i], task[h])
  <2>1. requests' = [requests EXCEPT ![i] = r]
    BY <1>3 DEF ConsumeOverride
  <2>2. task[h] \in Task
    BY DEF TypeOK
  <2>3. i \in DOMAIN requests =>
          /\ r.emp = requests[i].emp /\ r.day = requests[i].day
          /\ r.status = requests[i].status /\ r.granted = requests[i].granted
          /\ requests[i].consumed # 0 => r.consumed = requests[i].consumed
    BY <2>2, ConsumedType, ElementType
  <2> HIDE DEF r
  <2> QED BY <2>1, <2>3, RequestEdit DEF ApprovedWasGranted
<1>4. ASSUME NEW h \in Handlers, Decide(h)
      PROVE  RequestsGrow /\ ApprovedWasGranted'
  <2> DEFINE i == task[h].ov
             yes == [requests[i] EXCEPT !.status = "APPROVED", !.granted = TRUE]
             no == [requests[i] EXCEPT !.status = "REJECTED"]
  <2>1. \/ requests' = [requests EXCEPT ![i] = yes]
        \/ requests' = [requests EXCEPT ![i] = no]
    BY <1>4 DEF Decide
  <2>2. ASSUME i \in DOMAIN requests
        PROVE  /\ yes.emp = requests[i].emp /\ yes.day = requests[i].day
               /\ yes.status = "APPROVED" /\ yes.granted
               /\ yes.consumed = requests[i].consumed
               /\ no.emp = requests[i].emp /\ no.day = requests[i].day
               /\ no.status = "REJECTED" /\ no.granted = requests[i].granted
               /\ no.consumed = requests[i].consumed
    BY <2>2, ElementType DEF Request
  <2> HIDE DEF yes, no
  <2>3. CASE requests' = [requests EXCEPT ![i] = yes]
    BY <2>2, <2>3, RequestEdit
  <2>4. CASE requests' = [requests EXCEPT ![i] = no]
    BY <2>2, <2>4, RequestEdit DEF ApprovedWasGranted
  <2> QED BY <2>1, <2>3, <2>4
<1>5. ASSUME NEW h \in Handlers, UpdateNotice(h)
      PROVE  RequestsGrow /\ ApprovedWasGranted'
  <2> DEFINE i == task[h].ov
             r == [requests[i] EXCEPT !.notice = NoticeStatus(task[h].kind)]
  <2>1. requests' = [requests EXCEPT ![i] = r]
    BY <1>5 DEF UpdateNotice
  <2>2. ASSUME i \in DOMAIN requests
        PROVE  /\ r.emp = requests[i].emp /\ r.day = requests[i].day
               /\ r.status = requests[i].status /\ r.granted = requests[i].granted
               /\ r.consumed = requests[i].consumed
    BY <2>2, ElementType DEF Request
  <2> HIDE DEF r
  <2> QED BY <2>1, <2>2, RequestEdit DEF ApprovedWasGranted
<1>6. CASE UNCHANGED requests
  BY <1>6 DEF RequestsGrow, ApprovedWasGranted
<1> QED
  BY ZenonT(60), <1>1, <1>2, <1>3, <1>4, <1>5, <1>6
  DEF AttendanceNext, Next, vars, StartRequest, StartPunch, StartResolve, StartManual,
      PunchStep, CheckActive, RefuseOutsideGeofence, ReadOwedDays, CheckOwedTips,
      CheckRoster, FindApproved, FindPending, CheckTip, InsertPunch, Announce,
      ReadInbox, MarkRead, ReadRequest, ReadLatest, Abort, OtherRequest, SubmitTip,
      UpdateSchedule, SendMessage,
      MarkNoticeRead, MarkAllRead, UpdateRecord, DeleteRecord, Tick, Rest,
      StartSweep, SweepStep, ReadCandidates, Recheck, CountStrikes, ReadTips,
      InsertClockOut, AnnounceClockOut

(* Tips are never withdrawn.                                               *)
LEMMA StepGrowsTips ==
  ASSUME [AttendanceNext]_vars
  PROVE  tips \subseteq tips'
BY ZenonT(60) DEF AttendanceNext, Next, vars, StartRequest, StartPunch, StartResolve, StartManual,
       PunchStep, CheckActive, RefuseOutsideGeofence, ReadOwedDays, CheckOwedTips,
       CheckRoster, FindApproved, FindPending, CreateRequest, NotifyRequest, CheckTip,
       InsertPunch, ConsumeOverride, Announce, ReadInbox, MarkRead, ReadRequest,
       Decide, ReadLatest, UpdateNotice, Abort, OtherRequest, SubmitTip,
       UpdateSchedule, SendMessage,
       MarkNoticeRead, MarkAllRead, UpdateRecord, DeleteRecord, Tick, Rest,
       StartSweep, SweepStep, ReadCandidates, Recheck, CountStrikes, ReadTips,
       InsertClockOut, AnnounceClockOut

-----------------------------------------------------------------------------
(* What a handler has checked holds on until it acts.                      *)

HandlerStep(h) == StartRequest(h) \/ PunchStep(h) \/ Abort(h) \/ StartSweep(h) \/ SweepStep(h)

(* A handler's step leaves the other handlers where they are.              *)
LEMMA OthersWait ==
  ASSUME TypeOK, NEW h \in Handlers, HandlerStep(h), NEW g \in Handlers, g # h
  PROVE  task'[g] = task[g]
BY ZenonT(60) DEF TypeOK, HandlerStep, StartRequest, StartPunch, StartResolve, StartManual,
       PunchStep, CheckActive, RefuseOutsideGeofence, ReadOwedDays, CheckOwedTips,
       CheckRoster, FindApproved, FindPending, CreateRequest, NotifyRequest, CheckTip,
       InsertPunch, ConsumeOverride, Announce, ReadInbox, MarkRead, ReadRequest,
       Decide, ReadLatest, UpdateNotice, Abort, StartSweep, SweepStep, ReadCandidates,
       Recheck, CountStrikes, ReadTips, InsertClockOut, AnnounceClockOut,
       Goto, Finish, Continue

(* Nobody else can take back what a waiting handler has checked.           *)
LEMMA WaitingChecksHold ==
  ASSUME NEW g, ChecksHoldOn(g), task'[g] = task[g], RequestsGrow, tips \subseteq tips'
  PROVE  ChecksHoldOn(g)'
BY DEF ChecksHoldOn, RequestsGrow

(* A handler that is free has checked nothing.                             *)
LEMMA IdleChecksHold ==
  ASSUME NEW h, task'[h] = Idle
  PROVE  ChecksHoldOn(h)'
BY DEF ChecksHoldOn, Idle

(* A handler goes on to act upon what it has just read.                    *)
LEMMA OwnChecksHold ==
  ASSUME TypeOK, ApprovedWasGranted, NEW h \in Handlers, HandlerStep(h),
         ChecksHoldOn(h), RequestsGrow, tips \subseteq tips'
  PROVE  ChecksHoldOn(h)'
<1> DEFINE t == task[h]
<1>0. t \in Task /\ task \in [Handlers -> Task]
  BY DEF TypeOK
<1>1. CASE Finish(h)
  BY <1>0, <1>1, IdleChecksHold DEF Finish
<1>2. ASSUME NEW label, Goto(h, label),
             label \in {"owed", "pending", "request"} /\ t.kind = "CLOCK" /\ t.type = "IN"
      PROVE  ChecksHoldOn(h)'
  <2>1. task'[h] = [t EXCEPT !.pc = label]
    BY <1>0, <1>2 DEF Goto
  <2>2. /\ task'[h].pc = label /\ task'[h].kind = "CLOCK" /\ task'[h].type = "IN"
    BY <1>0, <1>2, <2>1 DEF Task
  <2> QED BY <1>2, <2>2 DEF ChecksHoldOn
<1>3. ASSUME NEW label, task'[h].pc = label,
             label \in {"idle", "tell", "consume", "announce", "inbox", "mark", "notice", "sweep",
                       "recheck", "count", "owes", "clockout"}
      PROVE  ChecksHoldOn(h)'
  BY <1>3 DEF ChecksHoldOn
<1>4. CASE StartPunch(h)
  <2>1. PICK e \in Employees, type \in PunchTypes, at \in {ClockReading} \cup EditTimes :
          task' = [task EXCEPT ![h] =
                    [Idle EXCEPT !.kind = "CLOCK", !.type = type, !.emp = e,
                                 !.at = at, !.id = ClockReading,
                                 !.pc = FirstCheck(type)]]
    BY <1>4 DEF StartPunch
  <2>2. /\ task'[h].kind = "CLOCK" /\ task'[h].type = type
        /\ task'[h].pc = FirstCheck(type)
    BY <1>0, <2>1, IdleType DEF Idle
  <2> QED BY <2>2 DEF ChecksHoldOn, FirstCheck, PunchTypes
<1>5. CASE StartResolve(h)
  <2>1. PICK i \in DOMAIN requests, kind \in {"APPROVE", "REJECT"} :
          task' = [task EXCEPT ![h] =
                    [Idle EXCEPT !.pc = "resolve", !.kind = kind,
                                 !.type = "IN", !.ov = i]]
    BY <1>5 DEF StartResolve
  <2>2. task'[h].pc = "resolve" /\ task'[h].ov = i
    BY <1>0, <2>1 DEF Idle
  <2> QED BY <2>2 DEF ChecksHoldOn, RequestsGrow
<1>6. CASE StartManual(h)
  <2>1. task'[h].kind = "MANUAL" /\ task'[h].pc = "insert"
    BY <1>0, <1>6 DEF StartManual, Idle
  <2> QED BY <2>1 DEF ChecksHoldOn
<1>7. CASE StartSweep(h)
  <2>1. task'[h].pc = "sweep"
    BY <1>0, <1>7 DEF StartSweep, Idle
  <2> QED BY <2>1, <1>3
<1>8. CASE Abort(h)
  BY <1>1, <1>8 DEF Abort
<1>9. CASE SweepStep(h)
  <2>1. ASSUME NEW todo, Continue(h, todo)
        PROVE  task'[h].pc \in {"idle", "recheck"}
    BY <1>0, <2>1 DEF Continue, Finish, Idle, Task
  <2>2. CASE ReadCandidates(h)
    BY <1>0, <1>1, <1>3, <2>2 DEF ReadCandidates, Task
  <2>3. CASE Recheck(h)
    BY <1>0, <1>3, <2>1, <2>3 DEF Recheck, Task
  <2>4. CASE CountStrikes(h)
    BY <1>0, <1>3, <2>4 DEF CountStrikes, Task
  <2>5. CASE ReadTips(h)
    BY <1>0, <1>3, <2>5 DEF ReadTips, Task
  <2>6. CASE InsertClockOut(h)
    BY <1>0, <1>3, <2>6 DEF InsertClockOut, Task
  <2>7. CASE AnnounceClockOut(h)
    BY <1>0, <1>3, <2>1, <2>7 DEF AnnounceClockOut, Task
  <2> QED BY <1>9, <2>2, <2>3, <2>4, <2>5, <2>6, <2>7 DEF SweepStep
<1>10. CASE PunchStep(h)
  <2>1. CASE CheckActive(h)
    <3>1. t.kind = "CLOCK" /\ t.type = "IN"
      BY <2>1 DEF CheckActive, At, ChecksHoldOn
    <3> QED BY <2>1, <3>1, <1>1, <1>2 DEF CheckActive
  <2>2. CASE RefuseOutsideGeofence(h)
    BY <2>2, <1>1 DEF RefuseOutsideGeofence
  <2>3. CASE ReadOwedDays(h)
    <3>1. t.kind = "CLOCK" /\ t.type = "IN"
      BY <2>3 DEF ReadOwedDays, At, ChecksHoldOn
    <3>2. /\ task'[h].kind = t.kind /\ task'[h].type = t.type
          /\ task'[h].pc \in {"roster", "tips"}
      BY <1>0, <2>3 DEF ReadOwedDays, Task
    <3> QED BY <3>1, <3>2 DEF ChecksHoldOn
  <2>4. CASE CheckOwedTips(h)
    <3>1. t.kind = "CLOCK" /\ t.type = "IN"
      BY <2>4 DEF CheckOwedTips, At, ChecksHoldOn
    <3>2. \/ Finish(h)
          \/ task'[h].kind = t.kind /\ task'[h].type = t.type /\ task'[h].pc = "roster"
      BY <1>0, <2>4 DEF CheckOwedTips, Task
    <3> QED BY <3>1, <3>2, <1>1 DEF ChecksHoldOn
  <2>5. CASE CheckRoster(h)
    <3>1. t.kind = "CLOCK" /\ t.type = "IN"
      BY <2>5 DEF CheckRoster, At, ChecksHoldOn
    <3>2. /\ task'[h].kind = t.kind /\ task'[h].type = t.type
          /\ task'[h].pc = "approved" \/ (task'[h].pc = "insert" /\ ~task'[h].off)
      BY <1>0, <2>5 DEF CheckRoster, Task
    <3> QED BY <3>1, <3>2 DEF ChecksHoldOn
  <2>6. CASE FindApproved(h)
    <3>1. t.kind = "CLOCK" /\ t.type = "IN"
      BY <2>6 DEF FindApproved, At, ChecksHoldOn
    <3>2. ASSUME NEW i \in RequestsFor(t.emp, Day(t.at), "APPROVED"),
                 task' = [task EXCEPT ![h].pc = "insert", ![h].ov = i]
          PROVE  ChecksHoldOn(h)'
      <4>1. /\ task'[h].pc = "insert" /\ task'[h].ov = i /\ task'[h].kind = "CLOCK"
            /\ task'[h].type = "IN" /\ task'[h].emp = t.emp /\ task'[h].at = t.at
        BY <1>0, <3>1, <3>2 DEF Task
      <4>2. /\ i \in DOMAIN requests /\ requests[i].granted
            /\ requests[i].emp = t.emp /\ requests[i].day = Day(t.at)
        BY DEF RequestsFor, ApprovedWasGranted
      <4>3. /\ i \in DOMAIN requests' /\ requests'[i].granted
            /\ requests'[i].emp = t.emp /\ requests'[i].day = Day(t.at)
        BY <4>2 DEF RequestsGrow
      <4> QED BY <4>1, <4>3 DEF ChecksHoldOn, Day
    <3> QED BY <2>6, <3>1, <3>2, <1>2 DEF FindApproved
  <2>7. CASE FindPending(h)
    <3>1. t.kind = "CLOCK" /\ t.type = "IN"
      BY <2>7 DEF FindPending, At, ChecksHoldOn
    <3> QED BY <2>7, <3>1, <1>1, <1>2 DEF FindPending
  <2>8. CASE CreateRequest(h)
    <3>1. task'[h].pc = "tell"
      BY <1>0, <2>8 DEF CreateRequest, Task
    <3> QED BY <3>1, <1>3
  <2>9. CASE NotifyRequest(h)
    BY <2>9, <1>1 DEF NotifyRequest
  <2>10. CASE CheckTip(h)
    <3>1. t.kind = "CLOCK" /\ t.type = "OUT"
      BY <2>10 DEF CheckTip, At, ChecksHoldOn
    <3>2. ASSUME Goto(h, "insert"), t.emp \in Servers => <<t.emp, Day(t.at)>> \in tips
          PROVE  ChecksHoldOn(h)'
      <4>1. /\ task'[h].pc = "insert" /\ task'[h].kind = "CLOCK" /\ task'[h].type = "OUT"
            /\ task'[h].emp = t.emp /\ task'[h].at = t.at
        BY <1>0, <3>1, <3>2 DEF Goto, Task
      <4> QED BY <3>2, <4>1 DEF ChecksHoldOn, Day
    <3> QED BY <2>10, <3>2, <1>1 DEF CheckTip
  <2>11. CASE InsertPunch(h)
    <3>1. task'[h].pc \in {"consume", "announce"}
      BY <1>0, <2>11 DEF InsertPunch, Goto, Task
    <3> QED BY <3>1, <1>3
  <2>12. CASE ConsumeOverride(h)
    <3>1. task'[h].pc \in {"notice", "announce"}
      BY <1>0, <2>12 DEF ConsumeOverride, Goto, Task
    <3> QED BY <3>1, <1>3
  <2>13. CASE Announce(h)
    <3>1. Finish(h) \/ task'[h].pc \in {"notice", "inbox"}
      BY <1>0, <2>13 DEF Announce, Goto, Task
    <3> QED BY <3>1, <1>1, <1>3
  <2>14. CASE ReadInbox(h)
    <3>1. Finish(h) \/ \E m : task' = [task EXCEPT ![h].pc = "mark", ![h].msg = m]
      BY <2>14 DEF ReadInbox
    <3>2. ASSUME NEW m, task' = [task EXCEPT ![h].pc = "mark", ![h].msg = m]
          PROVE  task'[h].pc = "mark"
      BY <1>0, <3>2 DEF Task
    <3> QED BY <3>1, <3>2, <1>1, <1>3
  <2>15. CASE MarkRead(h)
    BY <2>15, <1>1 DEF MarkRead
  <2>16. CASE ReadRequest(h)
    <3>1. t.ov \in DOMAIN requests
      BY <2>16 DEF ReadRequest, At, ChecksHoldOn
    <3>2. \/ Finish(h)
          \/ /\ task'[h].pc = "decide" /\ task'[h].ov = t.ov
             /\ task'[h].emp = requests[t.ov].emp
      BY <1>0, <2>16 DEF ReadRequest, Task
    <3> QED BY <3>1, <3>2, <1>1 DEF ChecksHoldOn, RequestsGrow
  <2>17. CASE Decide(h)
    <3>1. t.ov \in DOMAIN requests /\ requests[t.ov].emp = t.emp
      BY <2>17 DEF Decide, At, ChecksHoldOn
    <3>2. CASE t.kind = "APPROVE"
      <4>1. /\ task'[h].pc = "latest" /\ task'[h].kind = "APPROVE"
            /\ task'[h].ov = t.ov /\ task'[h].emp = t.emp
        BY <1>0, <2>17, <3>2 DEF Decide, Goto, Task
      <4>2. requests' = [requests EXCEPT ![t.ov] =
                          [requests[t.ov] EXCEPT !.status = "APPROVED", !.granted = TRUE]]
        BY <2>17, <3>2 DEF Decide
      <4>3. requests[t.ov] \in Request
        BY <3>1, ElementType
      <4>4. requests'[t.ov].granted
        BY <3>1, <4>2, <4>3 DEF Request
      <4> QED BY <3>1, <4>1, <4>4 DEF ChecksHoldOn, RequestsGrow
    <3>3. CASE t.kind # "APPROVE"
      <4>1. task'[h].pc = "notice"
        BY <1>0, <2>17, <3>3 DEF Decide, Goto, Task
      <4> QED BY <4>1, <1>3
    <3> QED BY <3>2, <3>3
  <2>18. CASE ReadLatest(h)
    <3>1. /\ t.kind = "APPROVE" /\ t.ov \in DOMAIN requests
          /\ requests[t.ov].emp = t.emp /\ requests[t.ov].granted
      BY <2>18 DEF ReadLatest, At, ChecksHoldOn
    <3>2. /\ task'[h].pc \in {"consume", "insert"} /\ task'[h].kind = "APPROVE"
          /\ task'[h].ov = t.ov /\ task'[h].emp = t.emp
      BY <1>0, <2>18, <3>1 DEF ReadLatest, Goto, Task
    <3> QED BY <3>1, <3>2 DEF ChecksHoldOn, RequestsGrow
  <2>19. CASE UpdateNotice(h)
    BY SMTT(30), <2>19, <1>1 DEF UpdateNotice
  <2> QED
    BY <1>10, <2>1, <2>2, <2>3, <2>4, <2>5, <2>6, <2>7, <2>8, <2>9, <2>10, <2>11, <2>12,
       <2>13, <2>14, <2>15, <2>16, <2>17, <2>18, <2>19 DEF PunchStep
<1> QED
  BY <1>4, <1>5, <1>6, <1>7, <1>8, <1>9, <1>10 DEF HandlerStep, StartRequest

LEMMA StepKeepsChecks ==
  ASSUME TypeOK, ApprovedWasGranted, LastingChecksHoldOn, [AttendanceNext]_vars
  PROVE  LastingChecksHoldOn'
<1>1. RequestsGrow /\ tips \subseteq tips'
  BY StepGrowsRequests, StepGrowsTips
<1>2. CASE UNCHANGED task
  BY <1>1, <1>2, WaitingChecksHold DEF LastingChecksHoldOn
<1>3. ASSUME NEW h \in Handlers, HandlerStep(h)
      PROVE  LastingChecksHoldOn'
  <2>1. \A g \in Handlers \ {h} : task'[g] = task[g]
    BY <1>3, OthersWait
  <2>2. \A g \in Handlers \ {h} : ChecksHoldOn(g)'
    BY <1>1, <2>1, WaitingChecksHold DEF LastingChecksHoldOn
  <2>3. ChecksHoldOn(h)'
    BY <1>1, <1>3, OwnChecksHold DEF LastingChecksHoldOn
  <2> QED BY <2>2, <2>3 DEF LastingChecksHoldOn
<1> QED
  BY <1>2, <1>3
  DEF AttendanceNext, Next, HandlerStep, OtherRequest, SubmitTip, UpdateSchedule,
      SendMessage,
      MarkNoticeRead, MarkAllRead, UpdateRecord, DeleteRecord, Tick, Rest, vars

-----------------------------------------------------------------------------
(* Rows.                                                                   *)

(* A new row was written by a handler from what it has read, by a sweep,   *)
(* or by an administrator's correction.                                    *)
LEMMA NewRow ==
  ASSUME TypeOK, [AttendanceNext]_vars, NEW p \in punches' \ punches
  PROVE  \/ p.via \in {"SWEEP", "MANUAL"}
         \/ \E h \in Handlers : InsertPunch(h) /\ p = RowOf(task[h])
<1>1. ASSUME NEW h \in Handlers, InsertPunch(h)
      PROVE  p = RowOf(task[h])
  BY <1>1 DEF InsertPunch
<1>2. ASSUME NEW h \in Handlers, InsertClockOut(h)
      PROVE  p.via = "SWEEP"
  BY <1>2 DEF InsertClockOut
<1>3. ASSUME UpdateRecord
      PROVE  p.via = "MANUAL"
  <2>1. PICK q \in punches : \E type, t, note :
          p = [q EXCEPT !.type = type, !.at = t, !.note = note, !.via = "MANUAL"]
    BY <1>3 DEF UpdateRecord
  <2>2. q \in Punch
    BY DEF TypeOK
  <2> QED BY <2>1, <2>2 DEF Punch
<1> QED
  BY ZenonT(60), <1>1, <1>2, <1>3
  DEF AttendanceNext, Next, vars, StartRequest, StartPunch, StartResolve, StartManual,
      PunchStep, CheckActive, RefuseOutsideGeofence, ReadOwedDays, CheckOwedTips,
      CheckRoster, FindApproved, FindPending, CreateRequest, NotifyRequest, CheckTip,
      ConsumeOverride, Announce, ReadInbox, MarkRead, ReadRequest, Decide, ReadLatest,
      UpdateNotice, Abort, OtherRequest, SubmitTip, UpdateSchedule, SendMessage,
      MarkNoticeRead, MarkAllRead,
      DeleteRecord, Tick, Rest, StartSweep, SweepStep, ReadCandidates, Recheck,
      CountStrikes, ReadTips, AnnounceClockOut

LEMMA StepKeepsApproved ==
  ASSUME TypeOK, ApprovedWasGranted, LastingChecksHoldOn, OffScheduleIsApproved,
         [AttendanceNext]_vars
  PROVE  OffScheduleIsApproved'
<1>0. RequestsGrow
  BY StepGrowsRequests
<1> DEFINE Justified(p) ==
      /\ p.via = "SELF" /\ p.type = "IN" /\ p.off =>
           /\ p.ov \in DOMAIN requests
           /\ requests[p.ov].granted
           /\ requests[p.ov].emp = p.emp
           /\ requests[p.ov].day = Day(p.at)
      /\ p.via = "APPROVAL" =>
           /\ p.ov \in DOMAIN requests
           /\ requests[p.ov].granted
           /\ requests[p.ov].emp = p.emp
<1>1. ASSUME NEW p, Justified(p)
      PROVE  Justified(p)'
  BY <1>0, <1>1 DEF RequestsGrow, Day
<1>2. \A p \in punches : Justified(p)
  BY DEF OffScheduleIsApproved
<1>3. ASSUME NEW h \in Handlers, InsertPunch(h)
      PROVE  Justified(RowOf(task[h]))
  <2>1. task[h].pc = "insert" /\ ChecksHoldOn(h)
    BY <1>3 DEF InsertPunch, At, LastingChecksHoldOn
  <2> QED BY <2>1 DEF ChecksHoldOn, RowOf, Origin
<1>4. \A p \in punches' \ punches : Justified(p)
  BY <1>3, NewRow
<1>5. \A p \in punches' : Justified(p)'
  BY <1>1, <1>2, <1>4
<1> QED BY <1>5 DEF OffScheduleIsApproved

LEMMA StepKeepsTips ==
  ASSUME TypeOK, LastingChecksHoldOn, ServerOutHasTips, [AttendanceNext]_vars
  PROVE  ServerOutHasTips'
<1>0. tips \subseteq tips'
  BY StepGrowsTips
<1> DEFINE Declared(p) ==
      p.via = "SELF" /\ p.type = "OUT" /\ p.emp \in Servers => <<p.emp, Day(p.at)>> \in tips
<1>1. \A p \in punches : Declared(p)
  BY DEF ServerOutHasTips
<1>2. ASSUME NEW h \in Handlers, InsertPunch(h)
      PROVE  Declared(RowOf(task[h]))
  <2>1. task[h].pc = "insert" /\ ChecksHoldOn(h)
    BY <1>2 DEF InsertPunch, At, LastingChecksHoldOn
  <2> QED BY <2>1 DEF ChecksHoldOn, RowOf, Origin
<1>3. \A p \in punches' \ punches : Declared(p)
  BY <1>2, NewRow
<1>4. \A p \in punches' : Declared(p)
  BY <1>1, <1>3
<1> QED BY <1>0, <1>4 DEF ServerOutHasTips, Day

-----------------------------------------------------------------------------
(* The invariants and the action property, as theorems of AttendanceSpec.  *)

LEMMA InitHolds == TableInit => IInv
BY TypeInit
DEF TableInit, IInv, ApprovedWasGranted, LastingChecksHoldOn, ChecksHoldOn, Idle,
    OffScheduleIsApproved, ServerOutHasTips

LEMMA StepKeepsTypes ==
  ASSUME IInv, [AttendanceNext]_vars
  PROVE  TypeOK'
<1>1. TypeOK /\ IsFiniteSet(punches) /\ \A h \in Handlers : ChecksHoldOn(h)
  BY DEF IInv, LastingChecksHoldOn
<1>2. ASSUME NEW h \in Handlers, HandlerStep(h)
      PROVE  TypeOK'
  BY <1>1, <1>2, StartType, PunchStepType, SweepStepType, AbortType DEF HandlerStep
<1>3. CASE OtherRequest \/ Tick \/ Rest
  BY <1>1, <1>3, OtherType
<1>4. CASE UNCHANGED vars
  BY <1>1, <1>4 DEF TypeOK, vars
<1> QED BY <1>2, <1>3, <1>4 DEF AttendanceNext, Next, HandlerStep

LEMMA StepKeepsIInv == IInv /\ [AttendanceNext]_vars => IInv'
<1> SUFFICES ASSUME IInv, [AttendanceNext]_vars PROVE IInv'
  OBVIOUS
<1>1. TypeOK'
  BY StepKeepsTypes
<1>2. /\ TypeOK /\ IsFiniteSet(punches) /\ ApprovedWasGranted /\ LastingChecksHoldOn
      /\ OffScheduleIsApproved /\ ServerOutHasTips
  BY DEF IInv
<1>3. IsFiniteSet(punches') /\ ApprovedWasGranted' /\ LastingChecksHoldOn'
  BY <1>2, PunchesStayFinite, StepGrowsRequests, StepKeepsChecks
<1>4. OffScheduleIsApproved' /\ ServerOutHasTips'
  BY <1>2, StepKeepsApproved, StepKeepsTips
<1> QED BY <1>1, <1>3, <1>4 DEF IInv

(* The inductive invariant.  What the handlers in flight have checked and  *)
(* nobody takes back (the request exists, was approved, is of their        *)
(* employee and day; the tips are declared) is still so when they act upon *)
(* it, without any transaction.  That no shift is active can be taken back *)
(* and is not claimed.                                                     *)
THEOREM ChecksHold == AttendanceSpec => []IInv
<1>1. TableInit => IInv
  BY InitHolds
<1>2. IInv /\ [AttendanceNext]_vars => IInv'
  BY StepKeepsIInv
<1> QED BY <1>1, <1>2, PTL DEF AttendanceSpec

(* The tables and the handlers' local state stay well typed.               *)
THEOREM TypeCorrect == AttendanceSpec => []TypeOK
<1>1. IInv => TypeOK
  BY DEF IInv
<1> QED BY <1>1, ChecksHold, PTL

(* In particular, what a handler in flight has read of requests and tips   *)
(* holds on until it acts.  The check for an active shift does not: that   *)
(* one holds only of requests served one after the other (SerialProofs).   *)
THEOREM HandlersChecksHold == AttendanceSpec => []LastingChecksHoldOn
<1>1. IInv => LastingChecksHoldOn
  BY DEF IInv
<1> QED BY <1>1, ChecksHold, PTL

(* Every off-schedule clock-in of an employee, and every automatic one,    *)
(* cites a request that an administrator approved.                         *)
THEOREM OffScheduleNeedsApproval == AttendanceSpec => []OffScheduleIsApproved
<1>1. IInv => OffScheduleIsApproved
  BY DEF IInv
<1> QED BY <1>1, ChecksHold, PTL

(* Every clock-out a server makes finds the tips of its day declared.      *)
THEOREM ClockOutNeedsTips == AttendanceSpec => []ServerOutHasTips
<1>1. IInv => ServerOutHasTips
  BY DEF IInv
<1> QED BY <1>1, ChecksHold, PTL

(* consumedAt is written once and a decided request never waits again,     *)
(* however many administrators and clock-ins race for it.                  *)
THEOREM RequestsSettleOnce == AttendanceSpec => SettledOnce
<1> DEFINE Settles ==
      \A i \in DOMAIN requests :
         /\ requests[i].consumed # 0 => requests'[i].consumed = requests[i].consumed
         /\ requests[i].status # "PENDING" => requests'[i].status # "PENDING"
<1>1. IInv /\ [AttendanceNext]_vars => [Settles]_vars
  BY StepGrowsRequests DEF IInv, RequestsGrow
<1> QED BY <1>1, ChecksHold, PTL DEF AttendanceSpec, SettledOnce
=============================================================================
