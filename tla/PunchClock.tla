------------------------------ MODULE PunchClock ------------------------------
(***************************************************************************)
(* Punching the clock: EmployeePunchesService.createPunch with its four    *)
(* checks, the schedule override it may ask for, the administrator's       *)
(* answer with its automatic clock-in, and the administrator's own edits   *)
(* of punches, schedules and messages.  One action is one awaited          *)
(* statement of the code; pc names the statement that comes next.          *)
(***************************************************************************)
EXTENDS TimeClock

-----------------------------------------------------------------------------
(* createPunch.                                                            *)

(* A break or a lunch is not checked at all.                               *)
FirstCheck(type) == CASE type = "IN"  -> "active"
                      [] type = "OUT" -> "tipped"
                      [] OTHER        -> "insert"

(* The request is accepted (employee found, PIN right).  Its occurredAt is *)
(* the clock's, unless it states one.                                      *)
StartPunch(h) ==
    /\ now' = ClockReading
    /\ \E e \in Employees, type \in PunchTypes, t \in {ClockReading} \cup EditTimes :
         /\ Arrives(h, type)
         /\ task' = [task EXCEPT ![h] =
                      [Idle EXCEPT !.kind = "CLOCK", !.type = type, !.emp = e,
                                   !.at = t, !.id = ClockReading,
                                   !.pc = FirstCheck(type)]]
    /\ UNCHANGED <<punches, requests, tips, roster, mail, announced>>

(* Mutant: only an open clock-in counts as an active shift.                *)
CheckActiveIgnoringBreaks(h) ==
    /\ At(h, "active")
    /\ IF \E p \in Latest(task[h].emp) : p.type = "IN"
       THEN Finish(h)
       ELSE Goto(h, "owed")
    /\ UNCHANGED <<now, punches, requests, tips, roster, mail, announced>>

(* enforceNoActiveShift.                                                   *)
CheckActive(h) ==
    /\ At(h, "active")
    /\ \/ MayBeActive(task[h].emp) /\ Finish(h)
       \/ MayBeInactive(task[h].emp) /\ Goto(h, "owed")
    /\ UNCHANGED <<now, punches, requests, tips, roster, mail, announced>>

(* enforceClockInGeofence: the device is out of the office's reach.        *)
RefuseOutsideGeofence(h) ==
    /\ At(h, "owed")
    /\ Finish(h)
    /\ UNCHANGED <<now, punches, requests, tips, roster, mail, announced>>

(* enforcePendingAutoClockOutTipsBeforeClockIn reads the automatic         *)
(* clock-outs, then the tips; only the days that are owed by the first     *)
(* query, and not after today, are looked up by the second.                *)
ReadOwedDays(h) ==
    LET t    == task[h]
        owed == IF t.emp \in Servers
                THEN {d \in OwedDays(t.emp, t.at) : d <= Day(t.at)} ELSE {}
    IN  /\ At(h, "owed")
        /\ task' = [task EXCEPT ![h].pc = IF owed = {} THEN "roster" ELSE "tips",
                                ![h].note.owed = owed]
        /\ UNCHANGED <<now, punches, requests, tips, roster, mail, announced>>

CheckOwedTips(h) ==
    LET t == task[h] IN
    /\ At(h, "tips")
    /\ IF \A d \in t.note.owed : <<t.emp, d>> \in tips
       THEN task' = [task EXCEPT ![h].pc = "roster", ![h].note = PlainNote]
       ELSE Finish(h)
    /\ UNCHANGED <<now, punches, requests, tips, roster, mail, announced>>

(* The schedule, unless an owner, manager or kitchen employee is exempt.   *)
CheckRoster(h) ==
    LET t == task[h]
        off == t.emp \notin Owners \cup Kitchen /\ Violation(t.emp, t.at)
    IN  /\ At(h, "roster")
        /\ task' = [task EXCEPT ![h].pc = IF off THEN "approved" ELSE "insert",
                                ![h].off = off]
        /\ UNCHANGED <<now, punches, requests, tips, roster, mail, announced>>

(* Mutant: every request that was not rejected will do.                    *)
RequestsNotRejected(e, d, status) ==
    {i \in DOMAIN requests : /\ requests[i].emp = e
                             /\ requests[i].day = d
                             /\ requests[i].status # "REJECTED"}

RequestsFor(e, d, status) ==
    {i \in DOMAIN requests : /\ requests[i].emp = e
                             /\ requests[i].day = d
                             /\ requests[i].status = status}

(* enforceScheduleWithOverride: an approval that is not used up admits.    *)
FindApproved(h) ==
    LET t == task[h]
        usable == {i \in RequestsFor(t.emp, Day(t.at), "APPROVED") :
                     requests[i].consumed = 0}
    IN  /\ At(h, "approved")
        /\ \/ \E i \in usable :
                task' = [task EXCEPT ![h].pc = "insert", ![h].ov = i]
           \/ usable = {} /\ Goto(h, "pending")
        /\ UNCHANGED <<now, punches, requests, tips, roster, mail, announced>>

(* A request that already waits is enough: the clock-in is refused.        *)
FindPending(h) ==
    LET t == task[h] IN
    /\ At(h, "pending")
    /\ IF RequestsFor(t.emp, Day(t.at), "PENDING") # {}
       THEN Finish(h)
       ELSE Goto(h, "request")
    /\ UNCHANGED <<now, punches, requests, tips, roster, mail, announced>>

(* Mutant: the clock-in is refused without telling the administrators.     *)
CreateRequestSilently(h) ==
    LET t == task[h] IN
    /\ At(h, "request")
    /\ requests' = Append(requests,
                     [emp |-> t.emp, day |-> Day(t.at), status |-> "PENDING",
                      consumed |-> 0, granted |-> FALSE, notice |-> "NONE"])
    /\ Finish(h)
    /\ UNCHANGED <<now, punches, tips, roster, mail, announced>>

CreateRequest(h) ==
    LET t == task[h] IN
    /\ At(h, "request")
    /\ requests' = Append(requests,
                     [emp |-> t.emp, day |-> Day(t.at), status |-> "PENDING",
                      consumed |-> 0, granted |-> FALSE, notice |-> "NONE"])
    /\ task' = [task EXCEPT ![h].pc = "tell", ![h].ov = Len(requests) + 1]
    /\ UNCHANGED <<now, punches, tips, roster, mail, announced>>

(* notifyScheduleOverrideRequested, then the clock-in is refused.          *)
NotifyRequest(h) ==
    /\ At(h, "tell")
    /\ requests' = [requests EXCEPT ![task[h].ov].notice = "PENDING"]
    /\ Finish(h)
    /\ UNCHANGED <<now, punches, tips, roster, mail, announced>>

(* Mutant: the tips of any day will do.                                    *)
CheckTipOfAnyDay(h) ==
    LET t == task[h] IN
    /\ At(h, "tipped")
    /\ IF t.emp \in Servers /\ \A d \in 0 .. Day(t.at) : <<t.emp, d>> \notin tips
       THEN Finish(h)
       ELSE Goto(h, "insert")
    /\ UNCHANGED <<now, punches, requests, tips, roster, mail, announced>>

(* enforceServerTipBeforeClockOut.                                         *)
CheckTip(h) ==
    LET t == task[h] IN
    /\ At(h, "tipped")
    /\ IF t.emp \in Servers /\ <<t.emp, Day(t.at)>> \notin tips
       THEN Finish(h)
       ELSE Goto(h, "insert")
    /\ UNCHANGED <<now, punches, requests, tips, roster, mail, announced>>

Origin(kind) == CASE kind = "CLOCK"   -> "SELF"
                  [] kind = "APPROVE" -> "APPROVAL"
                  [] kind = "SWEEP"   -> "SWEEP"
                  [] OTHER            -> "MANUAL"

(* The row a handler writes: what it was asked for and what it has read.   *)
RowOf(t) == [id |-> t.id, emp |-> t.emp, type |-> t.type, at |-> t.at,
             note |-> t.note, via |-> Origin(t.kind), off |-> t.off, ov |-> t.ov]

(* employeePunch.create, by an employee, an approval or an administrator.  *)
InsertPunch(h) ==
    LET t == task[h] IN
    /\ At(h, "insert")
    /\ punches' = punches \cup {RowOf(t)}
    /\ Goto(h, IF t.ov # 0 THEN "consume" ELSE "announce")
    /\ UNCHANGED <<now, requests, tips, roster, mail, announced>>

(* Mutants: consumedAt is overwritten, not written, or kept in the status. *)
ConsumedAgain(r, t) == [r EXCEPT !.consumed = t.at]
NotConsumed(r, t) == r
ConsumedStatus(r, t) == [r EXCEPT !.status = "CONSUMED"]

(* updateMany ... where consumedAt is null.  createPunch also asks that    *)
(* the request still be approved; an approval's own clock-in does not.     *)
Consumed(r, t) ==
    IF r.consumed = 0 /\ (t.kind = "APPROVE" \/ r.status = "APPROVED")
    THEN [r EXCEPT !.consumed = t.at] ELSE r

ConsumeOverride(h) ==
    LET t == task[h] IN
    /\ At(h, "consume")
    /\ requests' = [requests EXCEPT ![t.ov] = Consumed(@, t)]
    /\ Goto(h, IF t.id = 0 THEN "notice" ELSE "announce")
    /\ UNCHANGED <<now, punches, tips, roster, mail, announced>>

(* notifyPunch; a clock-in then looks for a manager message.               *)
Announce(h) ==
    LET t == task[h] IN
    /\ At(h, "announce")
    /\ t.kind # "SWEEP"
    /\ announced' = announced \cup {t.id}
    /\ CASE t.kind = "APPROVE"                 -> Goto(h, "notice")
         [] t.kind = "CLOCK" /\ t.type = "IN"  -> Goto(h, "inbox")
         [] OTHER                              -> Finish(h)
    /\ UNCHANGED <<now, punches, requests, tips, roster, mail>>

(* Mutant: newest first.                                                   *)
ComesFirstNewest(m, unread) == \A n \in unread : m >= n

(* orderBy createdAt asc.                                                  *)
ComesFirst(m, unread) == \A n \in unread : m <= n

(* consumeManagerMessageForEmployee: the oldest unread message, which is   *)
(* then marked as read, by id, and returned to the device.                 *)
ReadInbox(h) ==
    LET unread == {m \in DOMAIN mail : mail[m].emp = task[h].emp /\ mail[m].unread}
    IN  /\ At(h, "inbox")
        /\ \/ unread = {} /\ Finish(h)
           \/ \E m \in unread :
                /\ ComesFirst(m, unread)
                /\ task' = [task EXCEPT ![h].pc = "mark", ![h].msg = m]
        /\ UNCHANGED <<now, punches, requests, tips, roster, mail, announced>>

MarkRead(h) ==
    /\ At(h, "mark")
    /\ mail' = [mail EXCEPT ![task[h].msg].unread = FALSE,
                            ![task[h].msg].shown = @ + 1]
    /\ Finish(h)
    /\ UNCHANGED <<now, punches, requests, tips, roster, announced>>

-----------------------------------------------------------------------------
(* approveScheduleOverride and rejectScheduleOverride.  The administrator  *)
(* knows a request from its notification.                                  *)

StartResolve(h) ==
    /\ \E i \in DOMAIN requests, kind \in {"APPROVE", "REJECT"} :
         /\ Arrives(h, kind)
         /\ requests[i].notice # "NONE"
         /\ task' = [task EXCEPT ![h] =
                      [Idle EXCEPT !.pc = "resolve", !.kind = kind,
                                   !.type = "IN", !.ov = i]]
    /\ UNCHANGED <<now, punches, requests, tips, roster, mail, announced>>

(* Mutant: an approval can be taken back.                                  *)
DecidableUnlessRejected(r) == r.status # "REJECTED"

Decidable(r) == r.status = "PENDING"

(* A request that is not pending is returned as it is.                     *)
ReadRequest(h) ==
    LET r == requests[task[h].ov] IN
    /\ At(h, "resolve")
    /\ IF Decidable(r)
       THEN /\ now' = ClockReading
            /\ task' = [task EXCEPT ![h].pc = "decide", ![h].emp = r.emp,
                                    ![h].at = ClockReading]
       ELSE Finish(h) /\ UNCHANGED now
    /\ UNCHANGED <<punches, requests, tips, roster, mail, announced>>

(* The update is by id: it does not look at the status again.              *)
Decide(h) ==
    LET t == task[h] IN
    /\ At(h, "decide")
    /\ IF t.kind = "APPROVE"
       THEN /\ requests' = [requests EXCEPT ![t.ov].status = "APPROVED",
                                            ![t.ov].granted = TRUE]
            /\ Goto(h, "latest")
       ELSE /\ requests' = [requests EXCEPT ![t.ov].status = "REJECTED"]
            /\ Goto(h, "notice")
    /\ UNCHANGED <<now, punches, tips, roster, mail, announced>>

(* Mutant: an approval that finds an active shift stays open.              *)
ReadLatestKeepingOpen(h) ==
    LET t == task[h] IN
    /\ At(h, "latest")
    /\ \/ MayBeActive(t.emp) /\ Goto(h, "notice")
       \/ /\ MayBeInactive(t.emp)
          /\ task' = [task EXCEPT ![h].pc = "insert", ![h].id = t.at]
    /\ UNCHANGED <<now, punches, requests, tips, roster, mail, announced>>

(* autoClockInApprovedOverride: clock the employee in, unless a shift is   *)
(* active; in either case the approval is used up.                         *)
ReadLatest(h) ==
    LET t == task[h] IN
    /\ At(h, "latest")
    /\ \/ MayBeActive(t.emp) /\ Goto(h, "consume")
       \/ /\ MayBeInactive(t.emp)
          /\ task' = [task EXCEPT ![h].pc = "insert", ![h].id = t.at]
    /\ UNCHANGED <<now, punches, requests, tips, roster, mail, announced>>

(* Mutant: the notification always says approved.                          *)
NoticeAlwaysApproved(kind) == "APPROVED"

NoticeStatus(kind) == IF kind = "APPROVE" THEN "APPROVED" ELSE "REJECTED"

(* updateScheduleOverrideNotificationState: the status this handler wrote. *)
UpdateNotice(h) ==
    LET t == task[h] IN
    /\ At(h, "notice")
    /\ requests' = [requests EXCEPT ![t.ov].notice = NoticeStatus(t.kind)]
    /\ Finish(h)
    /\ UNCHANGED <<now, punches, tips, roster, mail, announced>>

-----------------------------------------------------------------------------
(* Requests of one statement.  Each needs a free handler and takes an      *)
(* instant.                                                                *)

OneStatement(kind) == (\E h \in Handlers : Arrives(h, kind)) /\ now' = ClockReading

(* submitTip: at most one row for an employee and day (unique index), for  *)
(* today or one of the days before it that are still in the window.        *)
SubmitTip ==
    /\ OneStatement("TIP")
    /\ \E e \in Servers, d \in 0 .. Day(ClockReading) :
         /\ d > Day(ClockReading) - TipWindow
         /\ <<e, d>> \notin tips
         /\ tips' = tips \cup {<<e, d>>}
    /\ UNCHANGED <<punches, requests, roster, mail, announced, task>>

(* updateSchedule replaces the week of an employee in one transaction.     *)
UpdateSchedule ==
    /\ OneStatement("ROSTER")
    /\ \E e \in Employees, week \in Rosters :
         week # roster[e] /\ roster' = [roster EXCEPT ![e] = week]
    /\ UNCHANGED <<punches, requests, tips, mail, announced, task>>

(* createEmployeeMessage.                                                  *)
SendMessage ==
    /\ OneStatement("MESSAGE")
    /\ \E e \in Employees :
         mail' = Append(mail, [emp |-> e, unread |-> TRUE, shown |-> 0, filed |-> FALSE])
    /\ UNCHANGED <<punches, requests, tips, roster, announced, task>>

(* updateMany of readAt by an administrator: a manager message is a        *)
(* notification like any other, and is then no longer waiting.             *)
Filed(m) == [m EXCEPT !.unread = FALSE, !.filed = @ \/ m.unread]

(* markRead: one notification of the tenant.                               *)
MarkNoticeRead ==
    /\ OneStatement("READ")
    /\ \E m \in DOMAIN mail : mail' = [mail EXCEPT ![m] = Filed(mail[m])]
    /\ UNCHANGED <<punches, requests, tips, roster, announced, task>>

(* markAllRead: all of them.                                               *)
MarkAllRead ==
    /\ OneStatement("READ")
    /\ mail' = [m \in DOMAIN mail |-> Filed(mail[m])]
    /\ UNCHANGED <<punches, requests, tips, roster, announced, task>>

(* createManual: a row of any type at any instant, then notifyPunch.       *)
StartManual(h) ==
    /\ Arrives(h, "MANUAL")
    /\ now' = ClockReading
    /\ \E e \in Employees, type \in EditTypes, t \in EditTimes :
         task' = [task EXCEPT ![h] =
                   [Idle EXCEPT !.pc = "insert", !.kind = "MANUAL", !.emp = e,
                                !.type = type, !.at = t, !.id = ClockReading]]
    /\ UNCHANGED <<punches, requests, tips, roster, mail, announced>>

(* updateRecord: type, instant and notes, each if given.                   *)
UpdateRecord ==
    /\ OneStatement("EDIT")
    /\ \E p \in punches :
         \E type \in {p.type} \cup EditTypes, t \in {p.at} \cup EditTimes,
            note \in {p.note, PlainNote} :
           punches' = (punches \ {p}) \cup
             {[p EXCEPT !.type = type, !.at = t, !.note = note, !.via = "MANUAL"]}
    /\ UNCHANGED <<requests, tips, roster, mail, announced, task>>

DeleteRecord ==
    /\ OneStatement("DELETE")
    /\ \E p \in punches : punches' = punches \ {p}
    /\ UNCHANGED <<requests, tips, roster, mail, announced, task>>

-----------------------------------------------------------------------------
(* The specification.                                                      *)

(* The statements of a request that has arrived.                           *)
PunchStep(h) ==
    \/ CheckActive(h) \/ RefuseOutsideGeofence(h)
    \/ ReadOwedDays(h) \/ CheckOwedTips(h)
    \/ CheckRoster(h) \/ FindApproved(h) \/ FindPending(h)
    \/ CreateRequest(h) \/ NotifyRequest(h)
    \/ CheckTip(h)
    \/ InsertPunch(h) \/ ConsumeOverride(h) \/ Announce(h)
    \/ ReadInbox(h) \/ MarkRead(h)
    \/ ReadRequest(h) \/ Decide(h) \/ ReadLatest(h) \/ UpdateNotice(h)

StartRequest(h) == StartPunch(h) \/ StartResolve(h) \/ StartManual(h)

OtherRequest ==
    \/ SubmitTip \/ UpdateSchedule
    \/ SendMessage \/ MarkNoticeRead \/ MarkAllRead
    \/ UpdateRecord \/ DeleteRecord

Next ==
    \/ \E h \in Handlers : StartRequest(h) \/ PunchStep(h) \/ Abort(h)
    \/ OtherRequest
    \/ Tick
    \/ Rest

Spec == TableInit /\ [][Next]_vars

(* The runtime resumes every await: a request that arrived is carried on.  *)
Fairness == \A h \in Handlers : WF_vars(PunchStep(h))

FairSpec == Spec /\ Fairness

-----------------------------------------------------------------------------
(* Properties under any interleaving and any crash.                        *)

(* An employee who clocked in off schedule was let in by an override       *)
(* request of that employee for that work date which an administrator did  *)
(* approve; an automatic clock-in was made by such an approval too.  The   *)
(* approval is checked three statements before the row is written          *)
(* (enforceScheduleWithOverride), and another administrator may be         *)
(* rejecting the same request meanwhile.                                   *)
OffScheduleIsApproved ==
    \A p \in punches :
      /\ p.via = "SELF" /\ p.type = "IN" /\ p.off =>
           /\ p.ov \in DOMAIN requests
           /\ requests[p.ov].granted
           /\ requests[p.ov].emp = p.emp
           /\ requests[p.ov].day = Day(p.at)
      /\ p.via = "APPROVAL" =>
           /\ p.ov \in DOMAIN requests
           /\ requests[p.ov].granted
           /\ requests[p.ov].emp = p.emp

(* A server who clocks out has declared tips for the work date of that     *)
(* clock-out (enforceServerTipBeforeClockOut), even if the day or the      *)
(* roster changes before the row is written.                               *)
ServerOutHasTips ==
    \A p \in punches :
      p.via = "SELF" /\ p.type = "OUT" /\ p.emp \in Servers =>
        <<p.emp, Day(p.at)>> \in tips

(* consumedAt is written once: of the clock-ins and approvals that race    *)
(* for one request, the first to settle keeps it, and a decided request    *)
(* never waits again.                                                      *)
SettledOnce ==
    [][\A i \in DOMAIN requests :
         /\ requests[i].consumed # 0 => requests'[i].consumed = requests[i].consumed
         /\ requests[i].status # "PENDING" => requests'[i].status # "PENDING"]_vars

-----------------------------------------------------------------------------
(* Properties of requests served one after the other.                      *)

(* A shift is opened only when none is active (enforceNoActiveShift), by   *)
(* the employee or by an approval, judged when the row is written and not  *)
(* when it was checked.                                                    *)
NoSecondClockIn ==
    [][\A p \in punches' \ punches :
         p.type = "IN" /\ p.via \in {"SELF", "APPROVAL"} => MayBeInactive(p.emp)]_vars

(* A rejected request admits nobody: it is never used up and no punch      *)
(* cites it, because only a pending request can be decided.                *)
RejectedAdmitsNobody ==
    \A i \in DOMAIN requests :
      requests[i].status = "REJECTED" =>
        /\ requests[i].consumed = 0
        /\ \A p \in punches : p.ov # i

(* When all is quiet the notification an administrator sees agrees with    *)
(* the request, and every punch of the table that was not corrected has    *)
(* been announced.                                                         *)
QuietNoticesAgree ==
    Busy = {} =>
      /\ \A i \in DOMAIN requests : requests[i].notice = requests[i].status
      /\ \A p \in punches : p.id \in announced

(* A manager message is shown to its employee at most once, and an earlier *)
(* one is passed over only because an administrator had marked it as read  *)
(* (markRead, markAllRead) before the employee came to see it.             *)
MessagesShownInOrder ==
    \A m \in DOMAIN mail :
      /\ mail[m].shown <= 1
      /\ mail[m].shown = 1 =>
           \A n \in 1 .. m :
             mail[n].emp = mail[m].emp => mail[n].shown = 1 \/ mail[n].filed

(* The ledger's view of the requests: an approval is used up from the      *)
(* moment its punch is written, before consumedAt is.                      *)
LedgerRequests ==
    [i \in DOMAIN requests |->
      LET settling == {h \in Handlers : At(h, "consume") /\ task[h].ov = i}
          r == requests[i]
      IN  [emp |-> r.emp, day |-> r.day, status |-> r.status,
           consumed |-> IF r.consumed = 0 /\ settling # {}
                        THEN task[CHOOSE h \in settling : TRUE].at
                        ELSE r.consumed]]

Ledger == INSTANCE PunchLedger WITH requests <- LedgerRequests

(* Served one after the other and without crashes, punches are what        *)
(* PunchLedger says: each is justified when it is written, by the checks   *)
(* of createPunch, by an approval or by the sweep.                         *)
ImplementsLedger == Ledger!LedgerSpec

-----------------------------------------------------------------------------
(* Liveness, when no handler dies.                                         *)

(* An override request reaches the administrators: its notification is     *)
(* the only way to learn its id.                                           *)
RequestIsNotified ==
    \A i \in 1 .. MaxNow :
      i \in DOMAIN requests ~> i \in DOMAIN requests /\ requests[i].notice # "NONE"

(* An approval is used up, by the approving handler or a clock-in.         *)
ApprovalIsSettled ==
    \A i \in 1 .. MaxNow :
      i \in DOMAIN requests /\ requests[i].granted
        ~> i \in DOMAIN requests /\ requests[i].consumed # 0
=============================================================================
