----------------------------- MODULE Attendance -----------------------------
(***************************************************************************)
(* The time clock as a whole: punch requests, administrators and sweeps    *)
(* share the tables and the handlers.                                      *)
(***************************************************************************)
EXTENDS PunchClock, AutoClockOut

AttendanceNext == Next \/ \E h \in Handlers : StartSweep(h) \/ SweepStep(h)

AttendanceSpec == TableInit /\ [][AttendanceNext]_vars

AttendanceFairSpec ==
    /\ AttendanceSpec
    /\ \A h \in Handlers : WF_vars(PunchStep(h) \/ SweepStep(h))

-----------------------------------------------------------------------------
(* What the handlers in flight rely on.                                    *)

(* The checks of facts that nobody takes back hold on: that its request    *)
(* exists and is of its employee, that it was approved, that the tips are  *)
(* declared is still so when a handler acts upon it, although no           *)
(* transaction protects it.  Not among them is the check that no shift is  *)
(* active, which another clock-in can undo (DoubleClockIn shows it).       *)
ChecksHoldOn(h) ==
    LET t == task[h]
        own == t.ov \in DOMAIN requests /\ requests[t.ov].emp = t.emp
    IN  /\ t.pc \in {"active", "owed", "tips", "roster", "approved", "pending", "request"} =>
             t.kind = "CLOCK" /\ t.type = "IN"
        /\ t.pc = "tipped" => t.kind = "CLOCK" /\ t.type = "OUT"
        /\ t.pc = "resolve" => t.ov \in DOMAIN requests
        /\ t.pc = "latest" => t.kind = "APPROVE"
        /\ t.pc = "decide" => own
        /\ t.pc = "latest" \/ (t.pc = "insert" /\ t.kind = "APPROVE") =>
             own /\ requests[t.ov].granted
        /\ t.pc = "insert" /\ t.kind = "CLOCK" /\ t.type = "IN" /\ t.off =>
             own /\ requests[t.ov].granted /\ requests[t.ov].day = Day(t.at)
        /\ t.pc = "insert" /\ t.kind = "CLOCK" /\ t.type = "OUT" /\ t.emp \in Servers =>
             <<t.emp, Day(t.at)>> \in tips

(* So it is of every handler in flight, under any interleaving and crash:  *)
(* enforceScheduleWithOverride, resolveScheduleOverride and                *)
(* enforceServerTipBeforeClockOut read statements before the row is        *)
(* written.                                                                *)
LastingChecksHoldOn == \A h \in Handlers : ChecksHoldOn(h)

ApprovedWasGranted ==
    \A i \in DOMAIN requests : requests[i].status = "APPROVED" => requests[i].granted

(* The inductive invariant.                                                *)
IInv ==
    /\ TypeOK
    /\ IsFiniteSet(punches)
    /\ ApprovedWasGranted
    /\ LastingChecksHoldOn
    /\ OffScheduleIsApproved
    /\ ServerOutHasTips

(* Requests are served one after the other.                                *)
Serial == \A g, h \in Handlers : g = h

-----------------------------------------------------------------------------
(* Properties of sweeps and clock-ins together.                            *)

(* Sweeps that run one at a time number the strikes of a week 1, 2, 3, ... *)
(* and charge the penalty exactly beyond the limit, as long as no row is   *)
(* corrected and no sweep runs across midnight.                            *)
StrikesNumbered ==
    \A p \in punches :
      LET week == {q \in AutoOuts(p.emp) : Week(q.at) = Week(p.at)} IN
      p.note.auto /\ (\A q \in week : Day(q.at) = q.note.day) =>
        /\ p.note.strike = Cardinality({q \in week : q.at <= p.at})
        /\ p.note.penalty <=> p.note.strike > StrikeLimit

(* When a server's clock-in waits for the tips of a day                    *)
(* (enforcePendingAutoClockOutTipsBeforeClockIn), those tips can still be  *)
(* declared (assertWithinEditWindow).                                      *)
OwedTipsCanBeDeclared ==
    \A h \in Handlers :
      LET t == task[h] IN
      At(h, "tips") =>
        \A d \in t.note.owed : <<t.emp, d>> \in tips \/ d > Day(t.at) - TipWindow

(* "... was auto clocked out 30 minutes after schedule end": a shift that  *)
(* runs past midnight has not ended on the day it starts.                  *)
AutoOutAfterShiftEnd ==
    \A p \in punches :
      LET s == ShiftOn(p.emp, p.at) IN
      p.via = "SWEEP" /\ s.on /\ s.end < s.start => Slot(p.at) < s.start
=============================================================================
