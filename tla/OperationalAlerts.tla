--------------------------- MODULE OperationalAlerts ---------------------------
(***************************************************************************)
(* The alerts that a listing works out before it answers:                  *)
(* ensureOperationalAlerts of notifications.service.ts.  Nothing in the    *)
(* program runs on a timer: every listing of notifications and of recent   *)
(* punches runs the three parts in its own request,                        *)
(*   - break alerts for shifts of six hours without a break,               *)
(*   - reminders for employees late for their shift, who are clocked in    *)
(*     after the third,                                                    *)
(*   - the owner's report of the day by e-mail, after ten in the evening,  *)
(* and listings overlap between any two statements.                        *)
(*                                                                         *)
(* Instants are slots of one length; all times of a day are slots counted  *)
(* from local midnight.  Employees are those that are neither disabled nor *)
(* deleted.  The punches they make themselves are modelled by PunchClock;  *)
(* here they are single steps.                                             *)
(***************************************************************************)
EXTENDS Integers, Sequences, FiniteSets

CONSTANTS
    Employees,
    OwnerManagers,  \* employees with the owner-manager permission
    Start,          \* the start of each employee's shift, on every day
    Offices,        \* how many there are, or 1: each has a report of its own
    Listings,       \* requests that can be in flight at the same time
    DayLength, BreakAfter, Grace, Interval, MaxReminders, ReportTime,
    Last,           \* bound: the last instant
    MaxLag,         \* bound: slots from the clock reading of a part to its end
    Acting,         \* bound: employees who punch, or to whom messages are sent
    MaxOverlaps,    \* bound: listings that begin while another one is in flight
    MaxEvents       \* bound: punches the employees make themselves, messages
                    \* that are sent and requests that die

Instants == 0 .. Last
Day(t) == t \div DayLength
Time(t) == t % DayLength
Days == 0 .. Last

ASSUME AlertConstants ==
    /\ OwnerManagers \subseteq Employees /\ Acting \subseteq Employees
    /\ Start \in [Employees -> Nat] /\ Offices \in Nat \ {0}
    /\ DayLength \in Nat \ {0} /\ Last \in Nat
    /\ MaxLag \in Nat /\ MaxOverlaps \in Nat /\ MaxEvents \in Nat
    /\ BreakAfter \in Nat \ {0} /\ Grace \in Nat /\ Interval \in Nat
    /\ MaxReminders \in Nat \ {0} /\ ReportTime \in Nat

VARIABLES
    now,        \* the clock
    last,       \* the latest punch of each employee
    came,       \* the instants of each employee's punches IN
    late,       \* notifications of type LATE_CLOCK_IN_5M about an employee
    alerts,     \* notifications NO_BREAK_6H: how many about each shift
    alerted,    \* and the instant of the latest about an employee
    mails,      \* e-mails that reached the owner, by day and office
    reports,    \* notifications that remember a report
    listing,    \* the requests
    overlaps,   \* history: listings that began while another was in flight
    events, crashes

vars == <<now, last, came, late, alerts, alerted, mails, reports,
          listing, overlaps, events, crashes>>

(* Everybody has had such an alert, about an earlier shift.                 *)
Earlier == -1
Active == {"IN", "BREAK"}
Kinds == {"REMINDER", "MESSAGE"}
Notice == [kind : Kinds, employee : Employees, at : Instants]
ReportRow == [day : Days, scope : 1 .. Offices]
Queries == {"ins", "reminders", "latest"}
Labels == {"idle", "alertLoop", "alert", "snapshot", "lateLoop", "clockIn",
           "reportLoop", "mail", "row"}
Nobody == "nobody"

(* at is what the part read from the clock; todo, since, present, count and *)
(* left its local collections; asked the queries that have been answered.   *)
(* moved is history: who has punched since the part read the clock.         *)
Request == [pc : Labels, at : Instants, todo : SUBSET Employees,
            since : [Employees -> Instants], subject : Employees \cup {Nobody},
            asked : SUBSET Queries, present : SUBSET Employees,
            count : [Employees -> Nat], moved : SUBSET Employees,
            left : 0 .. Offices]

Idle == [pc |-> "idle", at |-> 0, todo |-> {}, since |-> [e \in Employees |-> 0],
         subject |-> Nobody, asked |-> {}, present |-> {},
         count |-> [e \in Employees |-> 0], moved |-> {}, left |-> 0]

TypeOK ==
    /\ now \in Instants
    /\ last \in [Employees -> [type : Active \cup {"OUT"}, at : Instants]]
    /\ came \in [Employees -> SUBSET Instants]
    /\ late \in Seq(Notice)
    /\ alerts \in [Employees -> [Instants -> Nat]]
    /\ alerted \in [Employees -> Instants \cup {Earlier}]
    /\ mails \in [Days \X (1 .. Offices) -> Nat]
    /\ reports \subseteq ReportRow
    /\ listing \in [Listings -> Request]
    /\ overlaps \in Nat
    /\ events \in Nat /\ crashes \in Nat

Init ==
    /\ now = 0
    /\ last = [e \in Employees |-> [type |-> "OUT", at |-> 0]]
    /\ came = [e \in Employees |-> {}]
    /\ late = <<>>
    /\ alerts = [e \in Employees |-> [t \in Instants |-> 0]]
    /\ alerted = [e \in Employees |-> Earlier]
    /\ mails = [x \in Days \X (1 .. Offices) |-> 0]
    /\ reports = {}
    /\ listing = [h \in Listings |-> Idle]
    /\ overlaps = 0
    /\ events = 0 /\ crashes = 0

At(h, label) == listing[h].pc = label

(* The rows of a table left alone by the part of a listing.                 *)
punchVars == <<last, came>>
breakVars == <<alerts, alerted>>
reportVars == <<mails, reports>>
historyVars == <<overlaps, events, crashes>>

----------------------------------------------------------------------------
(* From the last statement of a part a listing goes on to the next part     *)
(* without waiting, so the clock it reads there is that of the same step.   *)

Due(e, t) == e \notin OwnerManagers /\ Time(t) >= Start[e] + Grace

ReportPhaseFromOne ==
    IF Time(now) < ReportTime THEN Idle
    ELSE [Idle EXCEPT !.at = now, !.left = Offices + 1, !.pc = "reportLoop"]

ReportPhase ==
    IF Time(now) < ReportTime THEN Idle
    ELSE [Idle EXCEPT !.at = now, !.left = Offices, !.pc = "reportLoop"]

LatePhase ==
    LET due == {e \in Employees : Due(e, now)} IN
    IF due = {} THEN ReportPhase
    ELSE [Idle EXCEPT !.at = now, !.todo = due, !.pc = "snapshot"]

(* Break alerts.                                                            *)

Overdue(e, t) == last[e].type = "IN" /\ t - last[e].at >= BreakAfter

(* The list of a part without e; next, when it is through.                  *)
Proceed(r, e, next) ==
    IF r.todo = {e} THEN next ELSE [r EXCEPT !.todo = @ \ {e}, !.subject = Nobody]

Begin(h) ==
    /\ At(h, "idle")
    /\ LET overdue == {e \in Employees : Overdue(e, now)} IN
       listing' = [listing EXCEPT ![h] =
         IF overdue = {} THEN LatePhase
         ELSE [Idle EXCEPT
                 !.pc = "alertLoop", !.at = now, !.todo = overdue,
                 !.since = [e \in Employees |-> IF e \in overdue THEN last[e].at ELSE 0]]]
    /\ overlaps' = IF \E g \in Listings \ {h} : ~At(g, "idle") THEN overlaps + 1 ELSE overlaps
    /\ overlaps' <= MaxOverlaps
    /\ UNCHANGED <<now, punchVars, breakVars, late, reportVars, events, crashes>>

NotAlerted(h, e) == FALSE

AlertedEver(h, e) == alerted[e] >= Earlier

Alerted(h, e) == alerted[e] >= listing[h].since[e]

FindAlert(h, e) ==
    /\ At(h, "alertLoop") /\ e \in listing[h].todo
    /\ listing' = [listing EXCEPT ![h] =
         IF Alerted(h, e) THEN Proceed(@, e, LatePhase)
         ELSE [@ EXCEPT !.subject = e, !.pc = "alert"]]
    /\ UNCHANGED <<now, punchVars, breakVars, late, reportVars, historyVars>>

CreateAlert(h) ==
    /\ At(h, "alert")
    /\ LET e == listing[h].subject IN
       /\ alerts' = [alerts EXCEPT ![e][listing[h].since[e]] = @ + 1]
       /\ alerted' = [alerted EXCEPT ![e] = now]
       /\ listing' = [listing EXCEPT ![h] =
            Proceed([@ EXCEPT !.pc = "alertLoop"], e, LatePhase)]
    /\ UNCHANGED <<now, punchVars, late, reportVars, historyVars>>

----------------------------------------------------------------------------
(* Late reminders.                                                          *)

(* The reminders of the working day, as far as they are not younger than    *)
(* the clock reading of the part.                                           *)
EveryNotice(t, e) ==
    {i \in DOMAIN late : /\ late[i].employee = e
                         /\ Day(late[i].at) = Day(t) /\ late[i].at <= t}

RemindersBefore(t, e) ==
    {i \in DOMAIN late : /\ late[i].kind = "REMINDER" /\ late[i].employee = e
                         /\ Day(late[i].at) = Day(t) /\ late[i].at < t}

Reminders(t, e) ==
    {i \in DOMAIN late : /\ late[i].kind = "REMINDER" /\ late[i].employee = e
                         /\ Day(late[i].at) = Day(t) /\ late[i].at <= t}

CameSince(t, e) == \E x \in came[e] : Day(x) = Day(t) /\ x >= t

CameOn(t, e) == \E x \in came[e] : Day(x) = Day(t) /\ x <= t

(* All reminders have been sent.                                            *)
Spent(count) == count >= MaxReminders

WantedAtOnce(r) ==
    {e \in r.todo \ r.present : Spent(r.count[e]) \/ Time(r.at) >= Start[e] + Grace}

(* Who is to be reminded, or clocked in, by what the three queries said.    *)
Wanted(r) ==
    {e \in r.todo \ r.present :
       \/ Spent(r.count[e])
       \/ Time(r.at) >= Start[e] + Grace + r.count[e] * Interval}

(* The answer to one of three queries that run at the same time.            *)
Answered(query, r) ==
    LET known == [r EXCEPT !.asked = @ \cup {query}]
    IN  IF known.asked # Queries THEN known
        ELSE IF Wanted(known) = {} THEN ReportPhase
        ELSE [known EXCEPT !.asked = {}, !.present = {}, !.todo = Wanted(known),
                           !.pc = "lateLoop"]

WithClockIns(r) ==
    [r EXCEPT !.present = @ \cup {e \in r.todo : CameOn(r.at, e)}]

WithReminders(r) ==
    [r EXCEPT !.count = [e \in Employees |->
       IF e \in r.todo THEN Cardinality(Reminders(r.at, e)) ELSE 0]]

WithLatestPunches(r) ==
    [r EXCEPT !.present = @ \cup {e \in r.todo : last[e].type \in Active}]

ReadClockIns(h) ==
    /\ At(h, "snapshot") /\ "ins" \notin listing[h].asked
    /\ listing' = [listing EXCEPT ![h] = Answered("ins", WithClockIns(@))]
    /\ UNCHANGED <<now, punchVars, breakVars, late, reportVars, historyVars>>

ReadReminders(h) ==
    /\ At(h, "snapshot") /\ "reminders" \notin listing[h].asked
    /\ listing' = [listing EXCEPT ![h] = Answered("reminders", WithReminders(@))]
    /\ UNCHANGED <<now, punchVars, breakVars, late, reportVars, historyVars>>

ReadLatestPunches(h) ==
    /\ At(h, "snapshot") /\ "latest" \notin listing[h].asked
    /\ listing' = [listing EXCEPT ![h] = Answered("latest", WithLatestPunches(@))]
    /\ UNCHANGED <<now, punchVars, breakVars, late, reportVars, historyVars>>

(* The next reminder; after the last one the employee is clocked in.        *)
Remind(h, e) ==
    /\ At(h, "lateLoop") /\ e \in listing[h].todo
    /\ ~Spent(listing[h].count[e])
    /\ late' = Append(late, [kind |-> "REMINDER", employee |-> e, at |-> now])
    /\ listing' = [listing EXCEPT ![h] =
         IF Spent(@.count[e] + 1)
         THEN [@ EXCEPT !.subject = e, !.pc = "clockIn"]
         ELSE Proceed(@, e, ReportPhase)]
    /\ UNCHANGED <<now, punchVars, breakVars, reportVars, historyVars>>

GiveUp(h, e) ==
    /\ At(h, "lateLoop") /\ e \in listing[h].todo
    /\ Spent(listing[h].count[e])
    /\ listing' = [listing EXCEPT ![h].subject = e, ![h].pc = "clockIn"]
    /\ UNCHANGED <<now, punchVars, breakVars, late, reportVars, historyVars>>

(* A punch of an employee, and what the requests in flight do not know.     *)
Punched(e, type, requests) ==
    /\ last' = [last EXCEPT ![e] = [type |-> type, at |-> now]]
    /\ came' = [came EXCEPT ![e] = IF type = "IN" THEN @ \cup {now} ELSE @]
    /\ listing' = [h \in Listings |->
         IF requests[h].pc \in {"snapshot", "lateLoop", "clockIn"}
         THEN [requests[h] EXCEPT !.moved = @ \cup {e}] ELSE requests[h]]

ClockIn(h) ==
    /\ At(h, "clockIn")
    /\ LET e == listing[h].subject IN
       Punched(e, "IN", [listing EXCEPT ![h] =
         Proceed([@ EXCEPT !.pc = "lateLoop"], e, ReportPhase)])
    /\ UNCHANGED <<now, breakVars, late, reportVars, historyVars>>

----------------------------------------------------------------------------
(* The owner's report: for each office, unless a row remembers it already,  *)
(* the e-mail is sent and then the row is written.                          *)

NextScope(r) == IF r.left > 1 THEN [r EXCEPT !.left = @ - 1, !.pc = "reportLoop"] ELSE Idle

Slot(h) == <<Day(listing[h].at), Offices - listing[h].left + 1>>

NeverReported(h) == FALSE

Reported(h) == \E r \in reports : r.day = Slot(h)[1] /\ r.scope = Slot(h)[2]

FindReport(h) ==
    /\ At(h, "reportLoop")
    /\ listing' = [listing EXCEPT ![h] =
         IF Reported(h) THEN NextScope(@) ELSE [@ EXCEPT !.pc = "mail"]]
    /\ UNCHANGED <<now, punchVars, breakVars, late, reportVars, historyVars>>

(* The e-mail reaches the owner or does not; what the provider answers only *)
(* changes the wording of the row.                                          *)
SendMail(h) ==
    /\ At(h, "mail")
    /\ \E sent \in {0, 1} : mails' = [mails EXCEPT ![Slot(h)] = @ + sent]
    /\ listing' = [listing EXCEPT ![h].pc = "row"]
    /\ UNCHANGED <<now, punchVars, breakVars, late, reports, historyVars>>

WriteReport(h) ==
    /\ At(h, "row")
    /\ reports' = reports \cup {[day |-> Slot(h)[1], scope |-> Slot(h)[2]]}
    /\ listing' = [listing EXCEPT ![h] = NextScope(@)]
    /\ UNCHANGED <<now, punchVars, breakVars, late, mails, historyVars>>

----------------------------------------------------------------------------
(* Around the listings.                                                     *)

Event == events < MaxEvents /\ events' = events + 1

(* A statement is rejected or the process ends: the listing goes no further. *)
Die(h) ==
    /\ ~At(h, "idle")
    /\ listing' = [listing EXCEPT ![h] = Idle]
    /\ Event /\ crashes' = crashes + 1
    /\ UNCHANGED <<now, punchVars, breakVars, late, reportVars, overlaps>>

(* A punch that createPunch accepts: an IN only of those who are not on a    *)
(* shift, any other type always.                                            *)
OwnPunch(e) ==
    /\ Event
    /\ \E type \in Active \cup {"OUT"} :
         /\ type = "IN" => last[e].type \notin Active
         /\ Punched(e, type, listing)
    /\ UNCHANGED <<now, breakVars, late, reportVars, overlaps, crashes>>

(* createEmployeeMessage stores its message under the type of a reminder.   *)
SendMessage(e) ==
    /\ late' = Append(late, [kind |-> "MESSAGE", employee |-> e, at |-> now])
    /\ Event
    /\ UNCHANGED <<now, punchVars, breakVars, reportVars, listing,
                   overlaps, crashes>>

Tick ==
    /\ now < Last
    /\ \A h \in Listings : ~At(h, "idle") => now < listing[h].at + MaxLag
    /\ now' = now + 1
    /\ UNCHANGED <<punchVars, breakVars, late, reportVars, listing, historyVars>>

BreakPart(h) == CreateAlert(h) \/ \E e \in Employees : FindAlert(h, e)

LatePart(h) ==
    \/ ReadClockIns(h) \/ ReadReminders(h) \/ ReadLatestPunches(h) \/ ClockIn(h)
    \/ \E e \in Employees : Remind(h, e) \/ GiveUp(h, e)

ReportPart(h) == FindReport(h) \/ SendMail(h) \/ WriteReport(h)

Next ==
    \/ \E h \in Listings : Begin(h) \/ BreakPart(h) \/ LatePart(h) \/ ReportPart(h) \/ Die(h)
    \/ \E e \in Acting : OwnPunch(e) \/ SendMessage(e)
    \/ Tick

Spec == Init /\ [][Next]_vars

----------------------------------------------------------------------------
(* Properties.                                                              *)

Leaves(h, labels) ==
    listing[h].pc \in labels /\ listing'[h].pc \notin labels /\ crashes' = crashes

ClocksIn(h, e) == Leaves(h, {"clockIn"}) /\ listing[h].subject = e

MidnightOf(t) == DayLength * Day(t)

(* Nobody is clocked in automatically before three reminders of that        *)
(* working day, or later ones, have been written: not by messages of        *)
(* managers, which share their type, nor by yesterday's, in any             *)
(* interleaving of listings.                                                *)
RemindersSince(t, e) ==
    {i \in DOMAIN late : /\ late[i].kind = "REMINDER" /\ late[i].employee = e
                         /\ Day(late[i].at) >= Day(t)}

RemindedOften ==
    \A h \in Listings : At(h, "clockIn") =>
      Cardinality(RemindersSince(listing[h].at, listing[h].subject)) >= MaxReminders

(* One listing at a time, the third reminder and the automatic clock-in     *)
(* come no earlier than grace and two intervals after the shift's start.    *)
NotClockedInEarly ==
    [][\A h \in Listings, e \in Employees :
         ClocksIn(h, e) /\ overlaps = 0 =>
           now >= MidnightOf(listing[h].at) + Start[e] + Grace
                    + (MaxReminders - 1) * Interval]_vars

(* Whoever is clocked in automatically is absent and has not come on that   *)
(* day, unless he has punched since the listing read the clock.             *)
OnlyTheAbsent ==
    [][\A h \in Listings, e \in Employees :
         ClocksIn(h, e) /\ e \notin listing[h].moved =>
           /\ last[e].type \notin Active
           /\ \A x \in came[e] : Day(x) # Day(listing[h].at)]_vars

(* One listing at a time, nobody is reminded more than three times a day,   *)
(* whatever listing dies in between.                                        *)
RemindersEnd ==
    overlaps > 0 \/ \A e \in Employees, t \in Instants :
                    Cardinality({i \in DOMAIN late : /\ late[i].kind = "REMINDER"
                                                     /\ late[i].employee = e
                                                     /\ Day(late[i].at) = Day(t)})
                      <= MaxReminders

(* One listing at a time, a shift is reported once to be without a break.   *)
OneAlertPerShift ==
    overlaps > 0 \/ \A e \in Employees, t \in Instants : alerts[e][t] <= 1

(* A part that is through has left every employee whose shift is overdue    *)
(* with an alert that is not older than the shift.  Not with one about that *)
(* shift: a late alert about the shift before is as young, and the code     *)
(* takes it for one about the new.                                          *)
OverdueAlerted ==
    [][\A h \in Listings, e \in Employees :
         Leaves(h, {"alertLoop", "alert"})
         /\ listing[h].since[e] = last[e].at /\ Overdue(e, listing[h].at) =>
           alerted'[e] >= last[e].at]_vars

(* One listing at a time, the owner gets the report of a day and office     *)
(* once, and once more for each listing that died.                          *)
OneMailPerEvening ==
    overlaps > 0 \/ \A x \in DOMAIN mails : mails[x] <= 1 + crashes
=============================================================================
