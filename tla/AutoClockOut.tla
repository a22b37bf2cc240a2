---------------------------- MODULE AutoClockOut ----------------------------
(***************************************************************************)
(* autoClockOutAfterSchedule: the sweep that every listing of the recent   *)
(* punches (getRecent) runs first.  It clocks out whoever is still on a    *)
(* shift long after the end of the day's schedule, counts the strike and   *)
(* notes the tips a server still owes.                                     *)
(***************************************************************************)
EXTENDS TimeClock

StartSweep(h) ==
    /\ Arrives(h, "SWEEP")
    /\ now' = ClockReading
    /\ task' = [task EXCEPT ![h] = [Idle EXCEPT !.pc = "sweep", !.kind = "SWEEP",
                                              !.at = ClockReading]]
    /\ UNCHANGED <<punches, requests, tips, roster, mail, announced>>

(* Mutant: owners and managers are swept as well.                          *)
SweptEveryone(active) == active

(* Owners and managers are left alone.                                     *)
Swept(active) == active \ Owners

(* The latest punch of every employee, then the schedules of the weekday.  *)
ReadCandidates(h) ==
    /\ At(h, "sweep")
    /\ \E active \in SUBSET {e \in Employees : MayBeActive(e)} :
         LET due == {e \in Swept(active) : Due(e, task[h].at)} IN
         /\ \A e \in Employees : MayBeActive(e) /\ ~MayBeInactive(e) => e \in active
         /\ IF due = {} THEN Finish(h)
            ELSE task' = [task EXCEPT ![h].pc = "recheck", ![h].todo = due]
    /\ UNCHANGED <<now, punches, requests, tips, roster, mail, announced>>

(* On to the next employee of the sweep, if any is left.                   *)
Continue(h, todo) ==
    IF todo = {} THEN Finish(h)
    ELSE task' = [task EXCEPT ![h].pc = "recheck", ![h].todo = todo,
                              ![h].id = 0, ![h].note = PlainNote]

(* The latest punch is read again: the employee may have left meanwhile.   *)
Recheck(h) ==
    /\ At(h, "recheck")
    /\ \E e \in task[h].todo :
         \/ /\ MayBeActive(e)
            /\ task' = [task EXCEPT ![h].pc = "count", ![h].emp = e,
                                    ![h].todo = @ \ {e}]
         \/ MayBeInactive(e) /\ Continue(h, task[h].todo \ {e})
    /\ UNCHANGED <<now, punches, requests, tips, roster, mail, announced>>

(* The strike is this week's count plus one; beyond the limit it costs.      *)
CountStrikes(h) ==
    LET t == task[h]
        strike == Cardinality(PriorStrikes(t.emp, t.at)) + 1
    IN  /\ At(h, "count")
        /\ task' = [task EXCEPT
             ![h].pc = IF t.emp \in Servers THEN "owes" ELSE "clockout",
             ![h].note = [auto |-> TRUE, day |-> Day(t.at), strike |-> strike,
                          penalty |-> strike > StrikeLimit, owed |-> {}]]
        /\ UNCHANGED <<now, punches, requests, tips, roster, mail, announced>>

(* A server without tips for the sweep's work date will owe them.          *)
ReadTips(h) ==
    LET t == task[h] IN
    /\ At(h, "owes")
    /\ task' = [task EXCEPT ![h].pc = "clockout",
                            ![h].note.owed =
                              {d \in {Day(t.at)} : <<t.emp, d>> \notin tips}]
    /\ UNCHANGED <<now, punches, requests, tips, roster, mail, announced>>

(* The row carries an instant of its own, read when it is written.         *)
InsertClockOut(h) ==
    LET t == task[h] IN
    /\ At(h, "clockout")
    /\ now' = ClockReading
    /\ punches' = punches \cup
         {[id |-> ClockReading, emp |-> t.emp, type |-> "OUT", at |-> ClockReading,
           note |-> t.note, via |-> "SWEEP", off |-> FALSE, ov |-> 0]}
    /\ task' = [task EXCEPT ![h].pc = "announce", ![h].id = ClockReading]
    /\ UNCHANGED <<requests, tips, roster, mail, announced>>

(* notifyPunch with the strike, then the next employee.                    *)
AnnounceClockOut(h) ==
    LET t == task[h] IN
    /\ At(h, "announce")
    /\ t.kind = "SWEEP"
    /\ announced' = announced \cup {t.id}
    /\ Continue(h, t.todo)
    /\ UNCHANGED <<now, punches, requests, tips, roster, mail>>

SweepStep(h) ==
    \/ ReadCandidates(h) \/ Recheck(h) \/ CountStrikes(h) \/ ReadTips(h)
    \/ InsertClockOut(h) \/ AnnounceClockOut(h)
=============================================================================
