------------------------------ MODULE PunchLedger ------------------------------
(***************************************************************************)
(* What punching the clock promises, with no handlers: every punch is one  *)
(* indivisible entry that is justified by the tables at that very moment,  *)
(* and an approval is used up by the entry it justifies.                   *)
(*                                                                         *)
(* The variables are those of TimeClock; task, mail and announced do not   *)
(* matter here, and a request only has its emp, day, status and consumed.  *)
(***************************************************************************)
EXTENDS TimeClock

ledger == <<punches, requests, tips, roster>>

LedgerInit ==
    /\ punches = {}
    /\ requests = << >>
    /\ tips = {}

Enter(p) == p \notin punches /\ punches' = punches \cup {p}

OnSchedule(e, t) == e \in Owners \cup Kitchen \/ ~Violation(e, t)

Usable(i) == requests[i].status = "APPROVED" /\ requests[i].consumed = 0

(* A clock-in starts a shift only when none is active, when no tips are    *)
(* owed, and on schedule or on an approval for that employee and day.      *)
ClockIn ==
    \E p \in punches' \ punches :
      /\ p.via = "SELF" /\ p.type = "IN"
      /\ Enter(p)
      /\ MayBeInactive(p.emp)
      /\ p.emp \in Servers =>
           \A d \in OwedDays(p.emp, p.at) : d <= Day(p.at) => <<p.emp, d>> \in tips
      /\ \/ OnSchedule(p.emp, p.at) /\ UNCHANGED requests
         \/ \E i \in DOMAIN requests :
              /\ Usable(i)
              /\ requests[i].emp = p.emp /\ requests[i].day = Day(p.at)
              /\ requests' = [requests EXCEPT ![i].consumed = p.at]
      /\ UNCHANGED <<tips, roster>>

(* A server leaves only with the day's tips declared.                      *)
ClockOut ==
    \E p \in punches' \ punches :
      /\ p.via = "SELF" /\ p.type = "OUT"
      /\ Enter(p)
      /\ p.emp \in Servers => <<p.emp, Day(p.at)>> \in tips
      /\ UNCHANGED <<requests, tips, roster>>

Pause ==
    \E p \in punches' \ punches :
      /\ p.via = "SELF" /\ p.type \in {"BREAK", "LUNCH"}
      /\ Enter(p)
      /\ UNCHANGED <<requests, tips, roster>>

(* The sweep ends the shift of somebody who stayed past the schedule of    *)
(* the day it looked at, with the next strike of the week and with the     *)
(* tips of the day if they are missing.                                    *)
AutoOut ==
    \E p \in punches' \ punches, t \in 1 .. now :
      /\ p.via = "SWEEP" /\ p.type = "OUT" /\ p.emp \notin Owners
      /\ Enter(p)
      /\ MayBeActive(p.emp)
      /\ t < p.at /\ Due(p.emp, t)
      /\ p.note.auto
      /\ p.note.strike = Cardinality(PriorStrikes(p.emp, t)) + 1
      /\ p.note.penalty <=> p.note.strike > StrikeLimit
      /\ p.note.owed = {d \in {Day(t)} : p.emp \in Servers /\ <<p.emp, d>> \notin tips}
      /\ UNCHANGED <<requests, tips, roster>>

(* One request waits for an employee and a day, and none is made while an  *)
(* approval is at hand or a shift is active.                               *)
Ask ==
    \E e \in Employees, d \in {Day(t) : t \in (1 .. now) \cup EditTimes} :
      /\ MayBeInactive(e)
      /\ \A i \in DOMAIN requests :
           requests[i].emp = e /\ requests[i].day = d =>
             ~Usable(i) /\ requests[i].status # "PENDING"
      /\ requests' = Append(requests, [emp |-> e, day |-> d,
                                       status |-> "PENDING", consumed |-> 0])
      /\ UNCHANGED <<punches, tips, roster>>

(* A request is decided once.                                              *)
Answer ==
    \E i \in DOMAIN requests, verdict \in {"APPROVED", "REJECTED"} :
      /\ requests[i].status = "PENDING"
      /\ requests' = [requests EXCEPT ![i].status = verdict]
      /\ UNCHANGED <<punches, tips, roster>>

(* An approval clocks its employee in, or lapses if a shift is active.     *)
Admit ==
    \E i \in DOMAIN requests, t \in 1 .. now :
      LET e == requests[i].emp IN
      /\ Usable(i)
      /\ requests' = [requests EXCEPT ![i].consumed = t]
      /\ \/ MayBeActive(e) /\ UNCHANGED punches
         \/ \E p \in punches' \ punches :
              /\ p.via = "APPROVAL" /\ p.type = "IN" /\ p.emp = e /\ p.at = t
              /\ MayBeInactive(e)
              /\ Enter(p)
      /\ UNCHANGED <<tips, roster>>

(* The administrator's entries and corrections are taken as they are.      *)
Correct ==
    /\ Cardinality(punches \ punches') <= 1
    /\ Cardinality(punches' \ punches) <= 1
    /\ \A p \in punches' \ punches : p.via = "MANUAL"
    /\ UNCHANGED <<requests, tips, roster>>

DeclareTips ==
    \E e \in Servers, d \in 0 .. Day(now') :
      /\ <<e, d>> \notin tips
      /\ tips' = tips \cup {<<e, d>>}
      /\ UNCHANGED <<punches, requests, roster>>

Reschedule ==
    /\ \E e \in Employees : roster' = [roster EXCEPT ![e] = roster'[e]]
    /\ UNCHANGED <<punches, requests, tips>>

LedgerNext ==
    \/ ClockIn \/ ClockOut \/ Pause \/ AutoOut \/ Ask \/ Answer \/ Admit
    \/ Correct \/ DeclareTips \/ Reschedule

LedgerSpec == LedgerInit /\ [][LedgerNext]_ledger
=============================================================================
