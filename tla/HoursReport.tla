----------------------------- MODULE HoursReport -----------------------------
(***************************************************************************)
(* The hours of reports.service.ts, computed over the punches that the     *)
(* time clock has written: getPunchContext selects the rows of a range of  *)
(* days, buildDailySummary turns them into hours by day, getPayrollReport  *)
(* adds the days up by week and pays overtime.                             *)
(*                                                                         *)
(* A slot of the calendar stands for the minutes of an hour.  The offset   *)
(* of the request is that of the calendar, over the whole range.  The last *)
(* millisecond of a range stands for its midnight.                         *)
(***************************************************************************)
EXTENDS TimeClock, Folds, FiniteSetsExt

CONSTANTS
    Penalty,        \* AUTO_OUT_PENALTY_MINUTES, in slots
    RoundTo,        \* roundMinutes of the request, in slots
    WeekStartsOn,   \* weekStartsOn of the request
    Threshold,      \* overtimeThreshold of the request, in slots
    Rate            \* half the pay of a slot

ASSUME ReportAssumption ==
    /\ Penalty \in Nat /\ RoundTo \in Nat \ {0}
    /\ WeekStartsOn \in Weekdays /\ Threshold \in Nat /\ Rate \in Nat

Midnight(d) == d * DayLength

PunchesOf(e, from, to) == {p \in punches : p.emp = e /\ Day(p.at) \in from .. to}

(* orderBy occurredAt asc: this row is read after the others.               *)
LastOf(rows) == CHOOSE p \in rows : \A q \in rows : q.at <= p.at

(* lastBeforeMap: is the employee at work when the range begins?            *)
WorkingBefore(e, from) ==
    \E p \in punches :
      /\ p.emp = e /\ p.at < Midnight(from) /\ p.type = "IN"
      /\ \A q \in punches : q.emp = e /\ q.at < Midnight(from) => q.at <= p.at

(* Mutant: every punch but OUT counts as work.                              *)
ReadBreaksAsWork(acc, p) ==
    IF p.type # "OUT" THEN [acc EXCEPT !.start = IF @ = NoTime THEN p.at ELSE @]
    ELSE IF acc.start = NoTime THEN acc
    ELSE [start |-> NoTime, done |-> acc.done \cup {<<acc.start, p.at>>}]

(* The loop over the punches: IN opens an interval unless one is open, and  *)
(* any other punch closes it.                                               *)
Read(acc, p) ==
    IF p.type = "IN" THEN [acc EXCEPT !.start = IF @ = NoTime THEN p.at ELSE @]
    ELSE IF acc.start = NoTime THEN acc
    ELSE [start |-> NoTime, done |-> acc.done \cup {<<acc.start, p.at>>}]

AtFirst(e, from) ==
    [start |-> IF WorkingBefore(e, from) THEN Midnight(from) ELSE NoTime, done |-> {}]

(* punchesByEmployee, read one by one.                                      *)
ReadAll(acc, rows) ==
    MapThenFoldSet(LAMBDA p, before : Read(before, p), acc, LAMBDA p : p, LastOf, rows)

(* A shift that is still open lasts to the end of the range.                *)
Intervals(e, from, to) ==
    LET read == ReadAll(AtFirst(e, from), PunchesOf(e, from, to))
    IN  IF read.start = NoTime THEN read.done
        ELSE read.done \cup {<<read.start, Midnight(to + 1)>>}

(* The segment of an interval that falls on a day.                          *)
Segment(interval, d) ==
    Max({0, Min({interval[2], Midnight(d + 1)}) - Max({interval[1], Midnight(d)})})

MinutesOn(intervals, d) == MapThenSumSet(LAMBDA i : Segment(i, d), intervals)

PenaltyOn(e, from, to, d) ==
    Penalty * Cardinality({p \in PunchesOf(e, from, to) :
                           Day(p.at) = d /\ p.type = "OUT" /\ p.note.auto /\ p.note.penalty})

(* Math.round to the nearest multiple.                                      *)
Rounded(minutes) == ((2 * minutes + RoundTo) \div (2 * RoundTo)) * RoundTo

(* The row of a day.                                                        *)
DayMinutes(e, from, to, d) ==
    Rounded(Max({0, MinutesOn(Intervals(e, from, to), d) - PenaltyOn(e, from, to, d)}))

(* Mutant: weeks are those of the calendar, whatever the request says.      *)
CalendarWeek(d) == d - (d % WeekLength)

(* getWeekStart.                                                            *)
WeekStart(d) == d - ((d - WeekStartsOn) % WeekLength)

WeekMinutes(e, from, to, w) ==
    MapThenSumSet(LAMBDA d : DayMinutes(e, from, to, d), {d \in from .. to : WeekStart(d) = w})

(* Beyond the threshold of a week an hour pays half as much again.          *)
WeekPay(minutes) ==
    Rate * (2 * Min({minutes, Threshold}) + 3 * Max({0, minutes - Threshold}))

TotalPay(e, from, to) ==
    MapThenSumSet(LAMBDA w : WeekPay(WeekMinutes(e, from, to, w)), {WeekStart(d) : d \in from .. to})

-----------------------------------------------------------------------------
(* Properties, of reports that are read when every request is served.       *)

ReportDays == 0 .. Day(MaxNow)

(* The employee is at work from t to t + 1: his latest punch by then is IN. *)
AtWork(e, t) ==
    \E p \in punches :
      /\ p.emp = e /\ p.type = "IN" /\ p.at <= t
      /\ \A q \in punches : q.emp = e /\ q.at <= t => q.at <= p.at

(* No two rows of the employee share an instant: the order of such rows is  *)
(* the database's choice.                                                   *)
OneAtATime(e) == \A p, q \in punches : p.emp = e /\ q.emp = e /\ p.at = q.at => p = q

(* Whatever was punched, corrected, deleted or entered late, and whichever  *)
(* range is asked for, a day's hours are the time at which the employee's   *)
(* latest punch was IN, midnights, breaks, repeated clock-ins and shifts    *)
(* that began before the range included.                                    *)
HoursAreWorked ==
    now = MaxNow /\ Busy = {} =>
      \A e \in Employees : \A from, to \in ReportDays : \A d \in from .. to :
        OneAtATime(e) =>
          MinutesOn(Intervals(e, from, to), d)
             = Cardinality({t \in Midnight(d) .. Midnight(d + 1) - 1 : AtWork(e, t)})

(* Whether a payroll is drawn for weeks together or one by one, with shifts *)
(* open at the turn of the week, penalties and rounding, it pays the same.  *)
PayrollSplits ==
    now = MaxNow /\ Busy = {} =>
      \A e \in Employees : \A from, to \in ReportDays : \A k \in from .. to - 1 :
        OneAtATime(e) /\ (k + 1) % WeekLength = WeekStartsOn
        => TotalPay(e, from, to) = TotalPay(e, from, k) + TotalPay(e, k + 1, to)
=============================================================================
