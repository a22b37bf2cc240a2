------------------------------ MODULE TimeClock ------------------------------
(***************************************************************************)
(* The tables of the employee time clock, the clock, and the pool of       *)
(* request handlers that read and write them.                              *)
(*                                                                         *)
(* The API process serves each HTTP request by an async method.  Nothing   *)
(* in the punch services runs inside a database transaction, so every      *)
(* awaited statement is a step of its own and the handlers in flight       *)
(* interleave between statements.  task[h] is the local state of handler   *)
(* h: where it is (pc) and what it has read so far.                        *)
(*                                                                         *)
(* Instants are natural numbers.  Every reading of the clock by a request  *)
(* gives an instant of its own (ClockReading), so an instant also serves   *)
(* as the identity of what the request creates.  DayLength instants make a *)
(* local day; instant 0 is midnight of the first day of a week.            *)
(***************************************************************************)
EXTENDS Integers, Sequences, FiniteSets

CONSTANTS
    Employees,      \* employees of one tenant, none disabled or deleted
    Servers,        \* those with isServer: they declare tips
    Owners,         \* those linked to an owner or manager account
    Kitchen,        \* those the kitchen rule lets in off schedule
    Handlers,       \* requests that can be in flight at the same time
    Rosters,        \* the weekly schedules an administrator may save
    DayLength,      \* instants in a day
    WeekLength,     \* days in a week
    TipWindow,      \* TIP_EDIT_WINDOW_DAYS
    OwedLookback,   \* TIP_PENDING_LOOKBACK_DAYS
    Grace,          \* AUTO_OUT_GRACE_MINUTES, in instants
    StrikeLimit,    \* AUTO_OUT_WEEKLY_STRIKE_THRESHOLD
    Crashes,        \* may a handler die between two statements?
    Traffic,        \* bound: the kinds of request that arrive
    EditTypes,      \* bound: the punch types an administrator types in
    EditTimes,      \* bound: the instants a request states by itself
    MaxNow          \* bound: no request arrives after this instant

ASSUME PeopleAssumption ==
    /\ Employees # {}
    /\ Servers \subseteq Employees
    /\ Owners \subseteq Employees
    /\ Kitchen \subseteq Employees

ASSUME CalendarAssumption ==
    /\ DayLength \in Nat \ {0}
    /\ WeekLength \in Nat \ {0}
    /\ TipWindow \in Nat
    /\ OwedLookback \in Nat
    /\ Grace \in Nat
    /\ StrikeLimit \in Nat
    /\ MaxNow \in Nat

Weekdays == 0 .. WeekLength - 1

(* One weekday of EmployeeSchedule: absent (on = FALSE), or a window.  A   *)
(* time that is not set, or does not parse, is NoTime.                     *)
NoTime == -1

ShiftRow == [on : BOOLEAN, start : Nat \cup {NoTime}, end : Nat \cup {NoTime}]

ASSUME RosterAssumption == Rosters # {} /\ Rosters \subseteq [Weekdays -> ShiftRow]

PunchTypes == {"IN", "OUT", "BREAK", "LUNCH"}

ASSUME EditsAssumption == EditTypes \subseteq PunchTypes /\ EditTimes \subseteq Nat \ {0}

ASSUME CrashesAssumption == Crashes \in BOOLEAN

VARIABLES
    now,        \* the last instant read by a request
    punches,    \* EmployeePunch rows
    requests,   \* ScheduleOverrideRequest rows, in creation order
    tips,       \* <<employee, day>> of the EmployeeTip rows
    roster,     \* EmployeeSchedule rows, by employee and weekday
    mail,       \* manager messages, in creation order
    announced,  \* ids of the punches that have a Notification row
    task        \* the handlers

vars == <<now, punches, requests, tips, roster, mail, announced, task>>

-----------------------------------------------------------------------------
(* Rows.                                                                   *)

ActiveWork == {"IN", "BREAK", "LUNCH"}

(* The tokens autoClockOutAfterSchedule writes into a punch's notes.       *)
Note == [auto : BOOLEAN, day : Int, strike : Nat, penalty : BOOLEAN,
         owed : SUBSET Int]

PlainNote == [auto |-> FALSE, day |-> 0, strike |-> 0, penalty |-> FALSE,
              owed |-> {}]

(* via, off and ov are history: who wrote the row, whether its schedule    *)
(* check failed, and the override request it was admitted by (0: none).    *)
Punch == [id : Nat, emp : Employees, type : PunchTypes, at : Nat, note : Note,
          via : {"SELF", "APPROVAL", "SWEEP", "MANUAL"}, off : BOOLEAN, ov : Nat]

(* consumed = 0 stands for a null consumedAt; granted is history: was it   *)
(* ever approved; notice is metadata.status of its notification.           *)
Request == [emp : Employees, day : Int,
            status : {"PENDING", "APPROVED", "REJECTED"},
            consumed : Nat, granted : BOOLEAN,
            notice : {"NONE", "PENDING", "APPROVED", "REJECTED"}]

(* shown and filed are history: how many clock-ins have returned the       *)
(* message, and whether an administrator marked it as read while it waited.*)
Message == [emp : Employees, unread : BOOLEAN, shown : Nat, filed : BOOLEAN]

(* The statement a handler will execute next.                              *)
Labels == {"idle", "active", "owed", "tips", "roster", "approved", "pending",
           "request", "tell", "tipped", "insert", "consume", "announce",
           "inbox", "mark", "resolve", "decide", "latest", "notice",
           "sweep", "recheck", "count", "owes", "clockout"}

Task == [pc : Labels,
         kind : {"CLOCK", "MANUAL", "APPROVE", "REJECT", "SWEEP"},
         type : PunchTypes, emp : Employees, at : Nat, id : Nat,
         off : BOOLEAN, ov : Nat, msg : Nat,
         note : Note, todo : SUBSET Employees]

Idle == [pc |-> "idle", kind |-> "CLOCK", type |-> "OUT",
         emp |-> CHOOSE e \in Employees : TRUE, at |-> 0, id |-> 0,
         off |-> FALSE, ov |-> 0, msg |-> 0, note |-> PlainNote, todo |-> {}]

TypeOK ==
    /\ now \in Nat
    /\ punches \subseteq Punch
    /\ requests \in Seq(Request)
    /\ tips \subseteq Employees \X Int
    /\ roster \in [Employees -> Rosters]
    /\ mail \in Seq(Message)
    /\ announced \subseteq Nat
    /\ task \in [Handlers -> Task]

TableInit ==
    /\ now = 0
    /\ punches = {}
    /\ requests = << >>
    /\ tips = {}
    /\ roster \in [Employees -> Rosters]
    /\ mail = << >>
    /\ announced = {}
    /\ task = [h \in Handlers |-> Idle]

-----------------------------------------------------------------------------
(* The calendar.                                                           *)

Day(t) == t \div DayLength

Slot(t) == t % DayLength

Week(t) == Day(t) \div WeekLength

ShiftOn(e, t) == roster[e][Day(t) % WeekLength]

(* getScheduleViolation: no row for the weekday of an employee who has     *)
(* rows, or an instant outside the row's window.  A window that ends       *)
(* before it starts is not enforced.                                       *)
Violation(e, t) ==
    LET s == ShiftOn(e, t) IN
    \/ /\ ~s.on
       /\ \E w \in Weekdays : roster[e][w].on
    \/ /\ s.on
       /\ NoTime \notin {s.start, s.end}
       /\ s.start < s.end
       /\ Slot(t) < s.start \/ Slot(t) > s.end

(* autoClockOutAfterSchedule: the end of today's row and the grace after   *)
(* it have passed, whatever the row's start is.                            *)
Due(e, t) ==
    LET s == ShiftOn(e, t) IN
    s.on /\ s.end # NoTime /\ Slot(t) >= s.end + Grace

-----------------------------------------------------------------------------
(* Queries.                                                                *)

(* orderBy occurredAt desc: rows that share the greatest instant come back *)
(* in an order the database chooses, so a reader gets any one of them.     *)
Latest(e) ==
    {p \in punches : p.emp = e /\ \A q \in punches : q.emp = e => q.at <= p.at}

MayBeActive(e) == \E p \in Latest(e) : p.type \in ActiveWork

MayBeInactive(e) == Latest(e) = {} \/ \E p \in Latest(e) : p.type \notin ActiveWork

AutoOuts(e) == {p \in punches : p.emp = e /\ p.type = "OUT" /\ p.note.auto}

(* enforcePendingAutoClockOutTipsBeforeClockIn, its first query: the work  *)
(* dates that the automatic clock-outs of the lookback left without tips.  *)
OwedDays(e, t) ==
    UNION {p.note.owed : p \in {q \in AutoOuts(e) :
                                t - OwedLookback * DayLength <= q.at /\ q.at <= t}}

(* Mutant: the count does not start again with the week.                   *)
PriorStrikesEver(e, t) == {p \in AutoOuts(e) : p.at <= t}

(* The automatic clock-outs of the week so far, as of the sweep's start.   *)
PriorStrikes(e, t) == {p \in AutoOuts(e) : Week(p.at) = Week(t) /\ p.at <= t}

-----------------------------------------------------------------------------
(* Handler steps.                                                          *)

Busy == {h \in Handlers : task[h].pc # "idle"}

At(h, label) == task[h].pc = label

ClockReading == now + 1

Goto(h, label) == task' = [task EXCEPT ![h].pc = label]

Finish(h) == task' = [task EXCEPT ![h] = Idle]

(* A request of some kind arrives while a handler is free.                 *)
Arrives(h, kind) == kind \in Traffic /\ At(h, "idle") /\ now < MaxNow

(* Nothing is requested for a while.                                       *)
Tick ==
    /\ now < MaxNow
    /\ now' = ClockReading
    /\ UNCHANGED <<punches, requests, tips, roster, mail, announced, task>>

(* A statement throws, or the process dies: the handler goes no further.   *)
Abort(h) ==
    /\ Crashes
    /\ h \in Busy
    /\ Finish(h)
    /\ UNCHANGED <<now, punches, requests, tips, roster, mail, announced>>

(* The bound has been reached and every handler has answered.              *)
Rest ==
    /\ now >= MaxNow
    /\ Busy = {}
    /\ UNCHANGED vars
=============================================================================
