---------------------------- MODULE MCAttendance ----------------------------
(***************************************************************************)
(* Small instances of Attendance.                                          *)
(***************************************************************************)
EXTENDS Attendance, TLC

CONSTANTS ana, ben, h1, h2

(* Handlers are interchangeable: no property of a run that uses this        *)
(* symmetry names one, and those runs check safety only.                   *)
HandlerSymmetry == Permutations(Handlers)

Early == [on |-> TRUE, start |-> 0, end |-> 1]
Noon  == [on |-> TRUE, start |-> 1, end |-> 2]
Late  == [on |-> TRUE, start |-> 2, end |-> 0]
NoRow == [on |-> FALSE, start |-> NoTime, end |-> NoTime]

(* Every day the first instants of the day.                                *)
EarlyDays == {[w \in Weekdays |-> Early]}

(* Every day from the second instant on.                                   *)
NoonDays == {[w \in Weekdays |-> Noon]}

(* Nobody has a schedule.                                                  *)
NoSchedule == {[w \in Weekdays |-> NoRow]}

(* Early days, or no schedule at all.                                      *)
EarlyOrNone == EarlyDays \cup NoSchedule

(* Free on the first weekday, early on the others.                         *)
FirstDayOff == {[w \in Weekdays |-> IF w = 0 THEN NoRow ELSE Early]}

(* Every day from the third instant past midnight.                         *)
OverMidnight == {[w \in Weekdays |-> Late]}
=============================================================================
