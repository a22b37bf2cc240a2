----------------------------- MODULE MCReports -----------------------------
(***************************************************************************)
(* Small instances of Attendance with the reports over its punches.        *)
(***************************************************************************)
EXTENDS MCAttendance, HoursReport
=============================================================================
