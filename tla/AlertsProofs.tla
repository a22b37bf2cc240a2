----------------------------- MODULE AlertsProofs -----------------------------
(***************************************************************************)
(* Proofs about OperationalAlerts, for any number of employees, offices    *)
(* and listings in flight, and listings that die anywhere.                 *)
(*                                                                         *)
(* The argument is about one listing at a time.  What its snapshot says is *)
(* out of date in one direction only: rows of reminders are never taken    *)
(* away, so the number it has counted is still there, and whoever punches  *)
(* after it has read the clock is in its history variable moved.  Good     *)
(* says so of a listing r, with the tables as parameters, so that the      *)
(* proofs can compare it before and after a step.                          *)
(*                                                                         *)
(* The second half is about listings that come one at a time (overlaps is  *)
(* 0 as long as they do): BreakInv, MailInv and ReminderInv say what such  *)
(* a listing still knows when it writes, one for each part of a listing.   *)
(***************************************************************************)
EXTENDS OperationalAlerts, TLAPS, FiniteSetTheorems

Rows(l, t, e) ==
    {i \in DOMAIN l : /\ l[i].kind = "REMINDER" /\ l[i].employee = e
                      /\ Day(l[i].at) >= Day(t)}

Deciding == {"snapshot", "lateLoop", "clockIn"}

Good(r, n, l, c, p) ==
    /\ r.at <= n
    /\ r.pc \in {"reportLoop", "mail", "row"} => r.left >= 1
    /\ r.pc \in {"alert", "clockIn"} => r.subject \in r.todo
    /\ \A e \in Employees : r.count[e] <= Cardinality(Rows(l, r.at, e))
    /\ r.pc = "clockIn" => Cardinality(Rows(l, r.at, r.subject)) >= MaxReminders
    /\ r.pc \in {"lateLoop", "clockIn"} => r.present = {}
    /\ r.pc \in Deciding => \A e \in r.todo \ r.moved :
         /\ \A x \in c[e] : x <= r.at
         /\ (r.pc # "snapshot" \/ "ins" \in r.asked) /\ e \notin r.present =>
              \A x \in c[e] : Day(x) # Day(r.at)
         /\ (r.pc # "snapshot" \/ "latest" \in r.asked) /\ e \notin r.present =>
              p[e].type \notin Active

EarlierPunches == \A e \in Employees : \A x \in came[e] : x <= now

AllGood == \A h \in Listings : Good(listing[h], now, late, came, last)

AlertInv == TypeOK /\ EarlierPunches /\ AllGood

----------------------------------------------------------------------------
(* Arithmetic of days, and the rows of a table that only grows.             *)

LEMMA DayIsMonotone ==
    ASSUME NEW a \in Nat, NEW b \in Nat, a <= b
    PROVE  Day(a) <= Day(b)
BY AlertConstants DEF Day

LEMMA DayOfInstant ==
    ASSUME NEW t \in Instants
    PROVE  Day(t) \in Days /\ Day(t) \in Nat
BY AlertConstants DEF Day, Days, Instants

LEMMA RowsFinite ==
    ASSUME NEW l \in Seq(Notice), NEW t, NEW e
    PROVE  IsFiniteSet(Rows(l, t, e)) /\ Cardinality(Rows(l, t, e)) \in Nat
<1>1. IsFiniteSet(1 .. Len(l))
  BY FS_Interval
<1>2. Rows(l, t, e) \subseteq 1 .. Len(l)
  BY DEF Rows
<1> QED BY <1>1, <1>2, FS_Subset, FS_CardinalityType

LEMMA RowsGrow ==
    ASSUME NEW l \in Seq(Notice), NEW n \in Notice, NEW t, NEW e
    PROVE  /\ Append(l, n) \in Seq(Notice)
           /\ Cardinality(Rows(l, t, e)) <= Cardinality(Rows(Append(l, n), t, e))
           /\ n.kind = "REMINDER" /\ n.employee = e /\ Day(n.at) >= Day(t) =>
                Cardinality(Rows(Append(l, n), t, e)) = Cardinality(Rows(l, t, e)) + 1
<1> DEFINE m == Append(l, n)
<1>1. m \in Seq(Notice) /\ Len(m) = Len(l) + 1 /\ m[Len(l) + 1] = n
      /\ \A i \in 1 .. Len(l) : m[i] = l[i]
  OBVIOUS
<1> HIDE DEF m
<1>2. Rows(l, t, e) \subseteq Rows(m, t, e)
  BY <1>1 DEF Rows
<1>3. IsFiniteSet(Rows(m, t, e)) /\ IsFiniteSet(Rows(l, t, e))
  BY <1>1, RowsFinite
<1>4. Cardinality(Rows(l, t, e)) <= Cardinality(Rows(m, t, e))
  BY <1>2, <1>3, FS_Subset
<1>5. ASSUME n.kind = "REMINDER", n.employee = e, Day(n.at) >= Day(t)
      PROVE  Cardinality(Rows(m, t, e)) = Cardinality(Rows(l, t, e)) + 1
  <2>1. Rows(m, t, e) = Rows(l, t, e) \cup {Len(l) + 1}
    BY <1>1, <1>5 DEF Rows
  <2>2. Len(l) + 1 \notin Rows(l, t, e)
    BY DEF Rows
  <2> QED BY <2>1, <2>2, <1>3, FS_AddElement
<1> QED BY <1>1, <1>4, <1>5 DEF m

----------------------------------------------------------------------------
(* The parts of a listing.                                                  *)

LEMMA IdleGood ==
    ASSUME NEW n \in Instants, NEW l \in Seq(Notice), NEW c, NEW p
    PROVE  Idle \in Request /\ Good(Idle, n, l, c, p)
<1>1. Idle \in Request
  BY AlertConstants DEF Idle, Request, Instants, Labels
<1>2. \A e \in Employees : Cardinality(Rows(l, 0, e)) \in Nat
  BY RowsFinite
<1> QED BY <1>1, <1>2 DEF Idle, Good, Instants, Deciding

LEMMA IdleFields ==
    /\ Idle \in Request /\ Idle.count = [e \in Employees |-> 0] /\ Idle.asked = {}
<1>1. Idle \in Request
  BY AlertConstants DEF Idle, Request, Instants, Labels
<1> QED BY <1>1 DEF Idle

LEMMA ReportPhaseGood ==
    ASSUME now \in Instants, NEW l \in Seq(Notice), NEW c, NEW p
    PROVE  ReportPhase \in Request /\ Good(ReportPhase, now, l, c, p)
<1>1. CASE Time(now) < ReportTime
  BY <1>1, IdleGood DEF ReportPhase
<1>2. CASE ~(Time(now) < ReportTime)
  <2> DEFINE r == [Idle EXCEPT !.at = now, !.left = Offices, !.pc = "reportLoop"]
  <2>0. Offices \in 0 .. Offices
    BY AlertConstants
  <2>1. r \in Request /\ r.pc = "reportLoop" /\ r.at = now /\ r.left = Offices
        /\ r.count = [e \in Employees |-> 0]
    BY <2>0, IdleFields DEF Request, Labels
  <2>2. \A e \in Employees : Cardinality(Rows(l, now, e)) \in Nat
    BY RowsFinite
  <2>3. Good(r, now, l, c, p)
    BY <2>1, <2>2, AlertConstants DEF Good, Instants, Deciding
  <2> QED BY <1>2, <2>1, <2>3 DEF ReportPhase
<1> QED BY <1>1, <1>2

LEMMA LatePhaseGood ==
    ASSUME TypeOK, EarlierPunches
    PROVE  LatePhase \in Request /\ Good(LatePhase, now, late, came, last)
<1> DEFINE due == {e \in Employees : Due(e, now)}
           r == [Idle EXCEPT !.at = now, !.todo = due, !.pc = "snapshot"]
<1>1. now \in Instants /\ late \in Seq(Notice) /\ due \subseteq Employees
  BY DEF TypeOK
<1> HIDE DEF due
<1>2. r \in Request /\ r.pc = "snapshot" /\ r.at = now /\ r.asked = {}
      /\ r.count = [e \in Employees |-> 0] /\ r.todo \subseteq Employees
  BY <1>1, IdleFields DEF Request, Labels
<1>3. \A e \in Employees : Cardinality(Rows(late, now, e)) \in Nat
  BY <1>1, RowsFinite
<1> HIDE DEF r
<1>4. Good(r, now, late, came, last)
  BY <1>1, <1>2, <1>3 DEF Good, Instants, Deciding, EarlierPunches
<1> QED BY <1>1, <1>2, <1>4, ReportPhaseGood DEF LatePhase, r, due

(* What is left of a list.                                                  *)
LEMMA ProceedGood ==
    ASSUME NEW n \in Instants, NEW l \in Seq(Notice), NEW c, NEW p,
           NEW r \in Request, Good(r, n, l, c, p),
           NEW pc \in {"alertLoop", "lateLoop"},
           pc = "alertLoop" \/ r.pc \in {"lateLoop", "clockIn"},
           NEW next \in Request, Good(next, n, l, c, p), NEW e
    PROVE  /\ Proceed([r EXCEPT !.pc = pc], e, next) \in Request
           /\ Good(Proceed([r EXCEPT !.pc = pc], e, next), n, l, c, p)
<1> DEFINE s == [r EXCEPT !.pc = pc]
           q == [s EXCEPT !.todo = @ \ {e}, !.subject = Nobody]
<1>1. /\ q \in Request /\ q.pc = pc /\ q.at = r.at /\ q.count = r.count
      /\ q.todo \subseteq r.todo /\ q.asked = r.asked /\ q.present = r.present
      /\ q.moved = r.moved
  BY DEF Request, Labels
<1>2. Good(q, n, l, c, p)
  BY <1>1 DEF Good, Deciding
<1> QED BY <1>1, <1>2 DEF Proceed

(* A punch makes nothing wrong of what another listing relies on.           *)
LEMMA MovedGood ==
    ASSUME TypeOK, NEW e \in Employees, NEW type \in Active \cup {"OUT"},
           NEW r \in Request, Good(r, now, late, came, last),
           NEW c, NEW p,
           c = [came EXCEPT ![e] = IF type = "IN" THEN @ \cup {now} ELSE @],
           p = [last EXCEPT ![e] = [type |-> type, at |-> now]],
           NEW s, s = IF r.pc \in {"snapshot", "lateLoop", "clockIn"}
                      THEN [r EXCEPT !.moved = @ \cup {e}] ELSE r
    PROVE  s \in Request /\ Good(s, now, late, c, p)
<1>1. /\ s \in Request /\ s.pc = r.pc /\ s.at = r.at /\ s.count = r.count
      /\ s.todo = r.todo /\ s.asked = r.asked /\ s.present = r.present
      /\ s.subject = r.subject /\ s.left = r.left
      /\ (r.pc \in Deciding => s.moved = r.moved \cup {e})
  BY DEF Request, Deciding
<1>2. \A x \in Employees \ {e} : c[x] = came[x] /\ p[x] = last[x]
  BY DEF TypeOK
<1>3. r.todo \subseteq Employees
  BY DEF Request
<1> QED BY <1>1, <1>2, <1>3 DEF Good, Deciding

(* The three queries: with the last answer the listing knows whom to remind. *)
LEMMA AnsweredGood ==
    ASSUME TypeOK, NEW q \in Queries, NEW r \in Request, r.pc = "snapshot",
           Good([r EXCEPT !.asked = @ \cup {q}], now, late, came, last)
    PROVE  /\ Answered(q, r) \in Request
           /\ Good(Answered(q, r), now, late, came, last)
<1> DEFINE k == [r EXCEPT !.asked = @ \cup {q}]
           f == [k EXCEPT !.asked = {}, !.present = {}, !.todo = Wanted(k),
                          !.pc = "lateLoop"]
<1>1. /\ k \in Request /\ k.pc = "snapshot"
  BY DEF Request
<1>2. now \in Instants /\ late \in Seq(Notice)
  BY DEF TypeOK
<1>3. CASE k.asked # Queries
  BY <1>1, <1>3 DEF Answered
<1>4. CASE k.asked = Queries /\ Wanted(k) = {}
  BY <1>2, <1>4, ReportPhaseGood DEF Answered
<1>5. CASE k.asked = Queries /\ Wanted(k) # {}
  <2>1. Wanted(k) \subseteq k.todo \ k.present /\ k.todo \subseteq Employees
    BY <1>1 DEF Wanted, Request
  <2>2. Good(k, now, late, came, last)
    OBVIOUS
  <2> HIDE DEF k
  <2>3. f \in Request /\ f.pc = "lateLoop" /\ f.at = k.at /\ f.count = k.count
        /\ f.todo = Wanted(k) /\ f.moved = k.moved /\ f.present = {}
    BY <1>1, <2>1 DEF Request, Labels
  <2> HIDE DEF f
  <2>4. Good(f, now, late, came, last)
    BY <1>1, <1>5, <2>1, <2>2, <2>3 DEF Good, Deciding, Queries
  <2> QED BY <1>5, <2>3, <2>4 DEF Answered, k, f
<1> QED BY <1>3, <1>4, <1>5

LEMMA ReadClockInsGood ==
    ASSUME TypeOK, NEW r \in Request, r.pc = "snapshot",
           Good(r, now, late, came, last),
           NEW s, s = WithClockIns(r)
    PROVE  /\ Answered("ins", s) \in Request
           /\ Good(Answered("ins", s), now, late, came, last)
<1> DEFINE k == [s EXCEPT !.asked = @ \cup {"ins"}]
<1>1. /\ s \in Request /\ s.pc = "snapshot" /\ "ins" \in Queries
      /\ k.pc = "snapshot" /\ k.at = r.at /\ k.todo = r.todo /\ k.count = r.count
      /\ k.moved = r.moved /\ k.asked = r.asked \cup {"ins"}
      /\ k.present = r.present \cup {e \in r.todo : CameOn(r.at, e)}
  BY DEF Request, Queries, WithClockIns
<1> HIDE DEF k
<1>2. Good(k, now, late, came, last)
  BY <1>1 DEF Good, Deciding, CameOn
<1> QED BY <1>1, <1>2, AnsweredGood DEF k

LEMMA ReadLatestGood ==
    ASSUME TypeOK, NEW r \in Request, r.pc = "snapshot",
           Good(r, now, late, came, last),
           NEW s, s = WithLatestPunches(r)
    PROVE  /\ Answered("latest", s) \in Request
           /\ Good(Answered("latest", s), now, late, came, last)
<1> DEFINE k == [s EXCEPT !.asked = @ \cup {"latest"}]
<1>1. /\ s \in Request /\ s.pc = "snapshot" /\ "latest" \in Queries
      /\ k.pc = "snapshot" /\ k.at = r.at /\ k.todo = r.todo /\ k.count = r.count
      /\ k.moved = r.moved /\ k.asked = r.asked \cup {"latest"}
      /\ k.present = r.present \cup {e \in r.todo : last[e].type \in Active}
  BY DEF Request, Queries, WithLatestPunches
<1> HIDE DEF k
<1>2. Good(k, now, late, came, last)
  BY <1>1 DEF Good, Deciding
<1> QED BY <1>1, <1>2, AnsweredGood DEF k

LEMMA ReadRemindersGood ==
    ASSUME TypeOK, NEW r \in Request, r.pc = "snapshot",
           Good(r, now, late, came, last),
           NEW s, s = WithReminders(r)
    PROVE  /\ Answered("reminders", s) \in Request
           /\ Good(Answered("reminders", s), now, late, came, last)
<1> DEFINE k == [s EXCEPT !.asked = @ \cup {"reminders"}]
<1>1. late \in Seq(Notice)
  BY DEF TypeOK
<1>2. \A e \in Employees : /\ Cardinality(Reminders(r.at, e)) \in Nat
                           /\ Cardinality(Rows(late, r.at, e)) \in Nat
                           /\ Cardinality(Reminders(r.at, e)) <= Cardinality(Rows(late, r.at, e))
  <2> TAKE e \in Employees
  <2>1. \A i \in DOMAIN late : Day(late[i].at) \in Int
    <3> TAKE i \in DOMAIN late
    <3>1. late[i] \in Notice
      BY <1>1
    <3>2. late[i].at \in Instants
      BY <3>1 DEF Notice
    <3> QED BY <3>2, DayOfInstant
  <2>2. r.at \in Instants /\ Day(r.at) \in Int
    BY DayOfInstant DEF Request
  <2>3. Reminders(r.at, e) \subseteq Rows(late, r.at, e)
    BY <2>1, <2>2 DEF Reminders, Rows
  <2> QED BY <1>1, <2>3, RowsFinite, FS_Subset, FS_CardinalityType
<1>3. /\ s \in Request /\ s.pc = "snapshot" /\ "reminders" \in Queries
      /\ k.pc = "snapshot" /\ k.at = r.at /\ k.todo = r.todo
      /\ \A e \in Employees : k.count[e] = IF e \in r.todo
                                THEN Cardinality(Reminders(r.at, e)) ELSE 0
      /\ k.moved = r.moved /\ k.asked = r.asked \cup {"reminders"}
      /\ k.present = r.present
  BY <1>2 DEF Request, Queries, WithReminders
<1> HIDE DEF k
<1>4. Good(k, now, late, came, last)
  BY <1>2, <1>3 DEF Good, Deciding
<1> QED BY <1>3, <1>4, AnsweredGood DEF k

----------------------------------------------------------------------------
(* The steps.                                                               *)

(* A step of one listing that touches neither clock, punches nor reminders. *)
LEMMA OneListing ==
    ASSUME AlertInv, NEW h \in Listings, NEW r \in Request,
           Good(r, now, late, came, last),
           listing' = [listing EXCEPT ![h] = r],
           UNCHANGED <<now, late, came, last>>
    PROVE  listing' \in [Listings -> Request] /\ EarlierPunches' /\ AllGood'
<1>1. listing \in [Listings -> Request]
  BY DEF AlertInv, TypeOK
<1>2. listing' \in [Listings -> Request]
  BY <1>1
<1>3. EarlierPunches'
  BY DEF AlertInv, EarlierPunches
<1>4. ASSUME NEW g \in Listings
      PROVE  Good(listing'[g], now', late', came', last')
  <2>1. CASE g = h
    BY <2>1, <1>1
  <2>2. CASE g # h
    BY <2>2, <1>1 DEF AlertInv, AllGood
  <2> QED BY <2>1, <2>2
<1> QED BY <1>2, <1>3, <1>4 DEF AllGood

LEMMA BeginInv ==
    ASSUME AlertInv, NEW h \in Listings, Begin(h)
    PROVE  AlertInv'
<1> DEFINE overdue == {e \in Employees : Overdue(e, now)}
           r == [Idle EXCEPT
                   !.pc = "alertLoop", !.at = now, !.todo = overdue,
                   !.since = [e \in Employees |-> IF e \in overdue THEN last[e].at ELSE 0]]
           next == IF overdue = {} THEN LatePhase ELSE r
<1>1. TypeOK /\ EarlierPunches /\ now \in Instants /\ late \in Seq(Notice)
  BY DEF AlertInv, TypeOK
<1>2. r \in Request /\ Good(r, now, late, came, last)
  <2>1. overdue \subseteq Employees
    OBVIOUS
  <2>2. [e \in Employees |-> IF e \in overdue THEN last[e].at ELSE 0] \in [Employees -> Instants]
    BY <1>1, AlertConstants DEF TypeOK, Instants
  <2> DEFINE since == [e \in Employees |-> IF e \in overdue THEN last[e].at ELSE 0]
  <2> HIDE DEF overdue, since
  <2>3. r \in Request /\ r.pc = "alertLoop" /\ r.at = now
        /\ r.count = [e \in Employees |-> 0]
    BY <1>1, <2>1, <2>2, IdleFields DEF Request, Labels, since
  <2>4. \A e \in Employees : Cardinality(Rows(late, now, e)) \in Nat
    BY <1>1, RowsFinite
  <2> HIDE DEF r
  <2> QED BY <1>1, <2>3, <2>4 DEF Good, Deciding, Instants
<1>3. next \in Request /\ Good(next, now, late, came, last)
  BY <1>1, <1>2, LatePhaseGood
<1>4. listing' = [listing EXCEPT ![h] = next] /\ UNCHANGED <<now, late, came, last>>
  BY DEF Begin, punchVars
<1> HIDE DEF next
<1>5. listing' \in [Listings -> Request] /\ EarlierPunches' /\ AllGood'
  BY <1>3, <1>4, OneListing
<1> QED BY SMTT(30), <1>5 DEF AlertInv, TypeOK, Begin, punchVars, breakVars, reportVars

LEMMA SamePc ==
    ASSUME NEW r \in Request
    PROVE  [r EXCEPT !.pc = r.pc] = r
BY DEF Request

LEMMA FindAlertInv ==
    ASSUME AlertInv, NEW h \in Listings, NEW e \in Employees, FindAlert(h, e)
    PROVE  AlertInv'
<1> DEFINE r == listing[h]
           s == [r EXCEPT !.subject = e, !.pc = "alert"]
           next == IF Alerted(h, e) THEN Proceed(r, e, LatePhase) ELSE s
<1>1. /\ TypeOK /\ EarlierPunches /\ now \in Instants /\ late \in Seq(Notice)
      /\ r \in Request /\ Good(r, now, late, came, last)
      /\ r.pc = "alertLoop" /\ e \in r.todo
  BY DEF AlertInv, TypeOK, AllGood, FindAlert, At
<1>2. s \in Request /\ Good(s, now, late, came, last)
  <2>1. s \in Request /\ s.pc = "alert" /\ s.at = r.at /\ s.count = r.count
        /\ s.todo = r.todo /\ s.subject = e
    BY <1>1 DEF Request, Labels
  <2> HIDE DEF s, r
  <2> QED BY <1>1, <2>1 DEF Good, Deciding
<1>3. Proceed(r, e, LatePhase) \in Request /\ Good(Proceed(r, e, LatePhase), now, late, came, last)
  <2>1. LatePhase \in Request /\ Good(LatePhase, now, late, came, last)
    BY <1>1, LatePhaseGood
  <2>2. [r EXCEPT !.pc = "alertLoop"] = r
    BY <1>1, SamePc
  <2>3. /\ Proceed([r EXCEPT !.pc = "alertLoop"], e, LatePhase) \in Request
        /\ Good(Proceed([r EXCEPT !.pc = "alertLoop"], e, LatePhase), now, late, came, last)
    BY <1>1, <2>1, ProceedGood
  <2> QED BY <2>2, <2>3
<1>4. next \in Request /\ Good(next, now, late, came, last)
  BY <1>2, <1>3
<1>5. listing' = [listing EXCEPT ![h] = next] /\ UNCHANGED <<now, late, came, last>>
  BY <1>1 DEF FindAlert, punchVars, TypeOK
<1> HIDE DEF next
<1>6. listing' \in [Listings -> Request] /\ EarlierPunches' /\ AllGood'
  BY <1>4, <1>5, OneListing
<1> QED BY <1>6 DEF AlertInv, TypeOK, FindAlert, punchVars, breakVars, reportVars, historyVars

LEMMA CreateAlertInv ==
    ASSUME AlertInv, NEW h \in Listings, CreateAlert(h)
    PROVE  AlertInv'
<1> DEFINE r == listing[h]
           e == r.subject
           s == [r EXCEPT !.pc = "alertLoop"]
           next == Proceed(s, e, LatePhase)
<1>1. /\ TypeOK /\ EarlierPunches /\ now \in Instants /\ late \in Seq(Notice)
      /\ r \in Request /\ Good(r, now, late, came, last) /\ r.pc = "alert"
  BY DEF AlertInv, TypeOK, AllGood, CreateAlert, At
<1>2. next \in Request /\ Good(next, now, late, came, last)
  BY <1>1, LatePhaseGood, ProceedGood
<1>3. listing' = [listing EXCEPT ![h] = next] /\ UNCHANGED <<now, late, came, last>>
  BY <1>1 DEF CreateAlert, punchVars, TypeOK
<1> HIDE DEF next
<1>4. listing' \in [Listings -> Request] /\ EarlierPunches' /\ AllGood'
  BY <1>2, <1>3, OneListing
<1>5. e \in Employees /\ r.since \in [Employees -> Instants]
  <2>1. r.todo \subseteq Employees /\ r.since \in [Employees -> Instants]
    BY <1>1 DEF Request
  <2> HIDE DEF r
  <2> QED BY <2>1, <1>1 DEF Good
<1>6. alerts' \in [Employees -> [Instants -> Nat]]
      /\ alerted' \in [Employees -> Instants \cup {Earlier}]
  <2>1. alerts' = [alerts EXCEPT ![e] = [alerts[e] EXCEPT ![r.since[e]] = alerts[e][r.since[e]] + 1]]
        /\ alerted' = [alerted EXCEPT ![e] = now]
    BY DEF CreateAlert
  <2> QED BY SMTT(30), <2>1, <1>1, <1>5 DEF TypeOK
<1> QED BY <1>4, <1>6 DEF AlertInv, TypeOK, CreateAlert, punchVars, reportVars, historyVars

LEMMA QueriesInv ==
    ASSUME AlertInv, NEW h \in Listings,
           ReadClockIns(h) \/ ReadReminders(h) \/ ReadLatestPunches(h)
    PROVE  AlertInv'
<1> DEFINE r == listing[h]
           ins == WithClockIns(r)
           counts == WithReminders(r)
           latest == WithLatestPunches(r)
<1>1. /\ TypeOK /\ r \in Request /\ Good(r, now, late, came, last) /\ r.pc = "snapshot"
      /\ listing \in [Listings -> Request]
  BY DEF AlertInv, TypeOK, AllGood, ReadClockIns, ReadReminders, ReadLatestPunches, At
<1>2. \E next \in Request : /\ Good(next, now, late, came, last)
                            /\ listing' = [listing EXCEPT ![h] = next]
  <2>1. CASE ReadClockIns(h)
    <3>1. Answered("ins", ins) \in Request /\ Good(Answered("ins", ins), now, late, came, last)
      BY <1>1, ReadClockInsGood
    <3>2. listing' = [listing EXCEPT ![h] = Answered("ins", ins)]
      BY <2>1, <1>1 DEF ReadClockIns
    <3> QED BY <3>1, <3>2
  <2>2. CASE ReadReminders(h)
    <3>1. /\ Answered("reminders", counts) \in Request
          /\ Good(Answered("reminders", counts), now, late, came, last)
      BY <1>1, ReadRemindersGood
    <3>2. listing' = [listing EXCEPT ![h] = Answered("reminders", counts)]
      BY <2>2, <1>1 DEF ReadReminders
    <3> QED BY <3>1, <3>2
  <2>3. CASE ReadLatestPunches(h)
    <3>1. /\ Answered("latest", latest) \in Request
          /\ Good(Answered("latest", latest), now, late, came, last)
      BY <1>1, ReadLatestGood
    <3>2. listing' = [listing EXCEPT ![h] = Answered("latest", latest)]
      BY <2>3, <1>1 DEF ReadLatestPunches
    <3> QED BY <3>1, <3>2
  <2> QED BY <2>1, <2>2, <2>3
<1>3. UNCHANGED <<now, late, came, last>>
  BY DEF ReadClockIns, ReadReminders, ReadLatestPunches, punchVars
<1>4. listing' \in [Listings -> Request] /\ EarlierPunches' /\ AllGood'
  BY <1>2, <1>3, OneListing
<1>5. UNCHANGED <<alerts, alerted, mails, reports, overlaps, events, crashes>>
  BY DEF ReadClockIns, ReadReminders, ReadLatestPunches, breakVars, reportVars, historyVars
<1> QED BY <1>3, <1>4, <1>5 DEF AlertInv, TypeOK

(* What was true of a listing stays true with one more notification.        *)
LEMMA GoodGrows ==
    ASSUME NEW t \in Instants, NEW l \in Seq(Notice), NEW n \in Notice, NEW c, NEW p,
           NEW r \in Request, Good(r, t, l, c, p)
    PROVE  Append(l, n) \in Seq(Notice) /\ Good(r, t, Append(l, n), c, p)
<1>1. \A x : /\ Cardinality(Rows(l, r.at, x)) <= Cardinality(Rows(Append(l, n), r.at, x))
             /\ Cardinality(Rows(l, r.at, x)) \in Nat
             /\ Cardinality(Rows(Append(l, n), r.at, x)) \in Nat
  BY RowsGrow, RowsFinite
<1>2. r.count \in [Employees -> Nat]
  BY DEF Request
<1>3. Append(l, n) \in Seq(Notice)
  OBVIOUS
<1> DEFINE m == Append(l, n)
<1> HIDE DEF m
<1>4. Good(r, t, m, c, p)
  BY <1>1, <1>2, AlertConstants DEF Good, m
<1> QED BY <1>3, <1>4 DEF m

LEMMA RemindInv ==
    ASSUME AlertInv, NEW h \in Listings, NEW e \in Employees, Remind(h, e)
    PROVE  AlertInv'
<1> DEFINE r == listing[h]
           n == [kind |-> "REMINDER", employee |-> e, at |-> now]
           l == Append(late, n)
           s == [r EXCEPT !.subject = e, !.pc = "clockIn"]
           next == IF Spent(r.count[e] + 1) THEN s ELSE Proceed(r, e, ReportPhase)
<1>1. /\ TypeOK /\ EarlierPunches /\ now \in Instants /\ late \in Seq(Notice)
      /\ r \in Request /\ Good(r, now, late, came, last)
      /\ r.pc = "lateLoop" /\ e \in r.todo /\ listing \in [Listings -> Request]
  BY DEF AlertInv, TypeOK, AllGood, Remind, At
<1>2. n \in Notice
  BY <1>1 DEF Notice, Kinds
<1>3. l \in Seq(Notice) /\ Good(r, now, l, came, last)
  BY <1>1, <1>2, GoodGrows
<1>4. Day(r.at) <= Day(now)
  <2>1. r.at \in Nat /\ now \in Nat /\ r.at <= now
    BY <1>1 DEF Good, Request, Instants
  <2> QED BY <2>1, DayIsMonotone
<1>5. Cardinality(Rows(l, r.at, e)) = Cardinality(Rows(late, r.at, e)) + 1
  <2>1. n.kind = "REMINDER" /\ n.employee = e /\ n.at = now
    OBVIOUS
  <2>2. r.at \in Instants
    BY <1>1 DEF Request
  <2>3. Day(n.at) >= Day(r.at)
    BY <1>1, <1>4, <2>1, <2>2, DayOfInstant
  <2> HIDE DEF n
  <2> QED BY <1>1, <1>2, <2>1, <2>3, RowsGrow
<1>6. r.count[e] \in Nat /\ r.count[e] <= Cardinality(Rows(late, r.at, e))
      /\ Cardinality(Rows(late, r.at, e)) \in Nat
  BY <1>1, RowsFinite DEF Request, Good
<1>7. ASSUME Spent(r.count[e] + 1)
      PROVE  s \in Request /\ Good(s, now, l, came, last)
  <2>1. /\ s \in Request /\ s.pc = "clockIn" /\ s.at = r.at /\ s.count = r.count
        /\ s.todo = r.todo /\ s.subject = e /\ s.present = r.present
        /\ s.asked = r.asked /\ s.moved = r.moved
    BY <1>1 DEF Request, Labels
  <2>2. Cardinality(Rows(l, r.at, e)) >= MaxReminders
    BY <1>5, <1>6, <1>7, AlertConstants DEF Spent
  <2> HIDE DEF s, r, l
  <2> QED BY <1>1, <1>3, <2>1, <2>2 DEF Good, Deciding
<1>8. Proceed(r, e, ReportPhase) \in Request
      /\ Good(Proceed(r, e, ReportPhase), now, l, came, last)
  <2>1. ReportPhase \in Request /\ Good(ReportPhase, now, l, came, last)
    BY <1>1, <1>3, ReportPhaseGood
  <2>2. [r EXCEPT !.pc = "lateLoop"] = r
    BY <1>1, SamePc
  <2>3. /\ Proceed([r EXCEPT !.pc = "lateLoop"], e, ReportPhase) \in Request
        /\ Good(Proceed([r EXCEPT !.pc = "lateLoop"], e, ReportPhase), now, l, came, last)
    <3> HIDE DEF l
    <3> QED BY <1>1, <1>3, <2>1, ProceedGood
  <2> QED BY <2>2, <2>3
<1>9. next \in Request /\ Good(next, now, l, came, last)
  BY <1>7, <1>8
<1>10. listing' = [listing EXCEPT ![h] = next] /\ late' = l
       /\ UNCHANGED <<now, came, last>>
  BY DEF Remind, punchVars
<1> HIDE DEF next
<1>11. \A g \in Listings : Good(listing[g], now, l, came, last)
  <2> TAKE g \in Listings
  <2>1. listing[g] \in Request /\ Good(listing[g], now, late, came, last)
    BY <1>1 DEF AlertInv, AllGood
  <2> QED BY <1>1, <1>2, <2>1, GoodGrows
<1>12. AllGood'
  <2>1. ASSUME NEW g \in Listings PROVE Good(listing'[g], now', late', came', last')
    <3>1. CASE g = h
      BY <3>1, <1>1, <1>9, <1>10
    <3>2. CASE g # h
      BY <3>2, <1>1, <1>10, <1>11
    <3> QED BY <3>1, <3>2
  <2> QED BY <2>1 DEF AllGood
<1>13. listing' \in [Listings -> Request]
  BY <1>1, <1>9, <1>10
<1>14. EarlierPunches'
  BY <1>1, <1>10 DEF EarlierPunches
<1>15. UNCHANGED <<alerts, alerted, mails, reports, overlaps, events, crashes>>
  BY DEF Remind, breakVars, reportVars, historyVars
<1> HIDE DEF l
<1> QED BY <1>3, <1>10, <1>12, <1>13, <1>14, <1>15 DEF AlertInv, TypeOK

LEMMA GiveUpInv ==
    ASSUME AlertInv, NEW h \in Listings, NEW e \in Employees, GiveUp(h, e)
    PROVE  AlertInv'
<1> DEFINE r == listing[h]
           s == [r EXCEPT !.subject = e, !.pc = "clockIn"]
<1>1. /\ TypeOK /\ late \in Seq(Notice) /\ r \in Request /\ Good(r, now, late, came, last)
      /\ r.pc = "lateLoop" /\ e \in r.todo /\ listing \in [Listings -> Request]
      /\ Spent(r.count[e])
  BY DEF AlertInv, TypeOK, AllGood, GiveUp, At
<1>2. Cardinality(Rows(late, r.at, e)) >= MaxReminders
  <2>1. /\ r.count[e] \in Nat /\ r.count[e] <= Cardinality(Rows(late, r.at, e))
        /\ Cardinality(Rows(late, r.at, e)) \in Nat
    BY <1>1, RowsFinite DEF Request, Good
  <2> QED BY SMTT(30), <1>1, <2>1, AlertConstants DEF Spent
<1>3. /\ s \in Request /\ s.pc = "clockIn" /\ s.at = r.at /\ s.count = r.count
      /\ s.todo = r.todo /\ s.subject = e /\ s.present = r.present
      /\ s.asked = r.asked /\ s.moved = r.moved
  BY <1>1 DEF Request, Labels
<1>4. listing' = [listing EXCEPT ![h] = s] /\ UNCHANGED <<now, late, came, last>>
  BY <1>1 DEF GiveUp, punchVars
<1> HIDE DEF s
<1>5. Good(s, now, late, came, last)
  <2> HIDE DEF r
  <2> QED BY <1>1, <1>2, <1>3 DEF Good, Deciding
<1>6. listing' \in [Listings -> Request] /\ EarlierPunches' /\ AllGood'
  BY <1>3, <1>4, <1>5, OneListing
<1>7. UNCHANGED <<now, last, came, late, alerts, alerted, mails, reports,
                  overlaps, events, crashes>>
  BY DEF GiveUp, punchVars, breakVars, reportVars, historyVars
<1> QED BY <1>6, <1>7 DEF AlertInv, TypeOK

(* A punch, in a state where the requests are those given.                  *)
LEMMA PunchedInv ==
    ASSUME AlertInv, NEW e \in Employees, NEW type \in Active \cup {"OUT"},
           NEW q \in [Listings -> Request],
           \A h \in Listings : Good(q[h], now, late, came, last),
           Punched(e, type, q), UNCHANGED <<now, late>>
    PROVE  /\ listing' \in [Listings -> Request] /\ EarlierPunches' /\ AllGood'
           /\ last' \in [Employees -> [type : Active \cup {"OUT"}, at : Instants]]
           /\ came' \in [Employees -> SUBSET Instants]
<1>1. TypeOK /\ EarlierPunches /\ now \in Instants /\ now \in Nat
  BY DEF AlertInv, TypeOK, Instants
<1>2. /\ last' = [last EXCEPT ![e] = [type |-> type, at |-> now]]
      /\ came' = [came EXCEPT ![e] = IF type = "IN" THEN @ \cup {now} ELSE @]
      /\ now' = now /\ late' = late
      /\ listing' = [h \in Listings |->
           IF q[h].pc \in {"snapshot", "lateLoop", "clockIn"}
           THEN [q[h] EXCEPT !.moved = @ \cup {e}] ELSE q[h]]
  BY DEF Punched
<1>3. \A h \in Listings : listing'[h] \in Request
                           /\ Good(listing'[h], now', late', came', last')
  <2> TAKE h \in Listings
  <2> DEFINE s == IF q[h].pc \in {"snapshot", "lateLoop", "clockIn"}
                  THEN [q[h] EXCEPT !.moved = @ \cup {e}] ELSE q[h]
  <2>1. listing'[h] = s
    BY <1>2
  <2>2. q[h] \in Request /\ Good(q[h], now, late, came, last)
    OBVIOUS
  <2> HIDE DEF s
  <2>3. s \in Request /\ Good(s, now, late, came', last')
    BY <1>1, <1>2, <2>2, MovedGood DEF s
  <2> QED BY <1>2, <2>1, <2>3
<1>4. listing' \in [Listings -> Request]
  BY <1>2, <1>3
<1>5. /\ last' \in [Employees -> [type : Active \cup {"OUT"}, at : Instants]]
      /\ came' \in [Employees -> SUBSET Instants]
  BY <1>1, <1>2 DEF TypeOK
<1>6. EarlierPunches'
  BY <1>1, <1>2 DEF EarlierPunches, TypeOK
<1> QED BY <1>3, <1>4, <1>5, <1>6 DEF AllGood

LEMMA ClockInInv ==
    ASSUME AlertInv, NEW h \in Listings, ClockIn(h)
    PROVE  AlertInv'
<1> DEFINE r == listing[h]
           e == r.subject
           s == Proceed([r EXCEPT !.pc = "lateLoop"], e, ReportPhase)
           q == [listing EXCEPT ![h] = s]
<1>1. /\ TypeOK /\ now \in Instants /\ late \in Seq(Notice)
      /\ r \in Request /\ Good(r, now, late, came, last) /\ r.pc = "clockIn"
      /\ listing \in [Listings -> Request]
  BY DEF AlertInv, TypeOK, AllGood, ClockIn, At
<1>2. e \in Employees
  <2>1. r.todo \subseteq Employees
    BY <1>1 DEF Request
  <2> HIDE DEF r
  <2> QED BY <2>1, <1>1 DEF Good
<1>3. s \in Request /\ Good(s, now, late, came, last)
  <2>1. ReportPhase \in Request /\ Good(ReportPhase, now, late, came, last)
    BY <1>1, ReportPhaseGood
  <2> HIDE DEF r
  <2> QED BY <1>1, <2>1, ProceedGood
<1>4. Punched(e, "IN", q) /\ UNCHANGED <<now, late>>
  BY DEF ClockIn
<1> HIDE DEF s
<1>5. q \in [Listings -> Request]
  BY <1>1, <1>3
<1>6. \A g \in Listings : Good(q[g], now, late, came, last)
  <2> TAKE g \in Listings
  <2>1. CASE g = h
    BY <2>1, <1>1, <1>3
  <2>2. CASE g # h
    BY <2>2, <1>1 DEF AlertInv, AllGood
  <2> QED BY <2>1, <2>2
<1> HIDE DEF q, e
<1>7. "IN" \in Active \cup {"OUT"}
  BY DEF Active
<1>8. /\ listing' \in [Listings -> Request] /\ EarlierPunches' /\ AllGood'
      /\ last' \in [Employees -> [type : Active \cup {"OUT"}, at : Instants]]
      /\ came' \in [Employees -> SUBSET Instants]
  BY <1>2, <1>4, <1>5, <1>6, <1>7, PunchedInv
<1>9. UNCHANGED <<now, late, alerts, alerted, mails, reports, overlaps, events, crashes>>
  BY DEF ClockIn, breakVars, reportVars, historyVars
<1> QED BY <1>8, <1>9 DEF AlertInv, TypeOK

LEMMA OwnPunchInv ==
    ASSUME AlertInv, NEW e \in Employees, OwnPunch(e)
    PROVE  AlertInv'
<1>1. PICK type \in Active \cup {"OUT"} : Punched(e, type, listing)
  BY DEF OwnPunch
<1>2. /\ listing \in [Listings -> Request] /\ events \in Nat
      /\ \A h \in Listings : Good(listing[h], now, late, came, last)
  BY DEF AlertInv, TypeOK, AllGood
<1>3. UNCHANGED <<now, late, alerts, alerted, mails, reports, overlaps, crashes>>
  BY DEF OwnPunch, breakVars, reportVars
<1>4. /\ listing' \in [Listings -> Request] /\ EarlierPunches' /\ AllGood'
      /\ last' \in [Employees -> [type : Active \cup {"OUT"}, at : Instants]]
      /\ came' \in [Employees -> SUBSET Instants]
  BY <1>1, <1>2, <1>3, PunchedInv
<1>5. events' \in Nat
  BY <1>2 DEF OwnPunch, Event
<1> QED BY <1>3, <1>4, <1>5 DEF AlertInv, TypeOK

LEMMA SendMessageInv ==
    ASSUME AlertInv, NEW e \in Employees, SendMessage(e)
    PROVE  AlertInv'
<1> DEFINE n == [kind |-> "MESSAGE", employee |-> e, at |-> now]
           l == Append(late, n)
<1>1. /\ TypeOK /\ EarlierPunches /\ now \in Instants /\ late \in Seq(Notice)
      /\ listing \in [Listings -> Request] /\ events \in Nat
      /\ \A h \in Listings : Good(listing[h], now, late, came, last)
  BY DEF AlertInv, TypeOK, AllGood
<1>2. n \in Notice
  BY <1>1 DEF Notice, Kinds
<1>3. \A h \in Listings : Good(listing[h], now, l, came, last)
  <2> TAKE h \in Listings
  <2>1. listing[h] \in Request /\ Good(listing[h], now, late, came, last)
    BY <1>1
  <2> QED BY <1>1, <1>2, <2>1, GoodGrows
<1>4. l \in Seq(Notice)
  BY <1>1, <1>2
<1>5. late' = l /\ events' = events + 1
      /\ UNCHANGED <<now, last, came, alerts, alerted, mails, reports, listing, overlaps, crashes>>
  BY DEF SendMessage, Event, punchVars, breakVars, reportVars
<1> HIDE DEF l
<1> QED BY <1>1, <1>3, <1>4, <1>5 DEF AlertInv, TypeOK, EarlierPunches, AllGood

LEMMA TickInv ==
    ASSUME AlertInv, Tick
    PROVE  AlertInv'
<1>1. /\ TypeOK /\ EarlierPunches /\ now \in Nat /\ now' = now + 1
      /\ now' \in Instants
  BY AlertConstants DEF AlertInv, TypeOK, Tick, Instants
<1>2. UNCHANGED <<last, came, late, alerts, alerted, mails, reports, listing,
                  overlaps, events, crashes>>
  BY DEF Tick, punchVars, breakVars, reportVars, historyVars
<1>3. EarlierPunches'
  <2>1. ASSUME NEW e \in Employees, NEW x \in came[e] PROVE x <= now'
    <3>1. x \in Nat /\ x <= now
      BY <1>1 DEF TypeOK, EarlierPunches, Instants
    <3> QED BY <3>1, <1>1
  <2> QED BY <2>1, <1>2 DEF EarlierPunches
<1>4. ASSUME NEW h \in Listings
      PROVE  Good(listing'[h], now', late', came', last')
  <2>1. Good(listing[h], now, late, came, last) /\ listing[h] \in Request
    BY <1>1 DEF AlertInv, AllGood, TypeOK
  <2>2. listing[h].at \in Nat
    BY <2>1 DEF Request, Instants
  <2> QED BY <1>1, <1>2, <2>1, <2>2 DEF Good
<1> QED BY <1>1, <1>2, <1>3, <1>4 DEF AlertInv, TypeOK, AllGood

(* The next office, or the end.                                             *)
LEMMA NextScopeGood ==
    ASSUME NEW n \in Instants, NEW l \in Seq(Notice), NEW c, NEW p,
           NEW r \in Request, Good(r, n, l, c, p)
    PROVE  NextScope(r) \in Request /\ Good(NextScope(r), n, l, c, p)
<1>1. CASE r.left > 1
  <2> DEFINE s == [r EXCEPT !.left = @ - 1, !.pc = "reportLoop"]
  <2>1. r.left \in 0 .. Offices /\ r.left - 1 \in 0 .. Offices
    BY <1>1, AlertConstants DEF Request
  <2>2. s \in Request /\ s.pc = "reportLoop" /\ s.at = r.at /\ s.count = r.count
        /\ s.left = r.left - 1
    BY <2>1 DEF Request, Labels
  <2> HIDE DEF s
  <2>3. Good(s, n, l, c, p)
    BY <1>1, <2>1, <2>2 DEF Good, Deciding
  <2> QED BY <1>1, <2>2, <2>3 DEF NextScope, s
<1>2. CASE ~(r.left > 1)
  BY <1>2, IdleGood DEF NextScope
<1> QED BY <1>1, <1>2

LEMMA FindReportInv ==
    ASSUME AlertInv, NEW h \in Listings, FindReport(h)
    PROVE  AlertInv'
<1> DEFINE r == listing[h]
           s == [r EXCEPT !.pc = "mail"]
           next == IF Reported(h) THEN NextScope(r) ELSE s
<1>1. /\ TypeOK /\ now \in Instants /\ late \in Seq(Notice) /\ r \in Request
      /\ Good(r, now, late, came, last)
      /\ r.pc = "reportLoop"
  BY DEF AlertInv, TypeOK, AllGood, FindReport, At
<1>2. s \in Request /\ Good(s, now, late, came, last)
  <2>1. s \in Request /\ s.pc = "mail" /\ s.at = r.at /\ s.count = r.count /\ s.left = r.left
    BY <1>1 DEF Request, Labels
  <2> HIDE DEF s, r
  <2> QED BY <1>1, <2>1 DEF Good, Deciding
<1>3. next \in Request /\ Good(next, now, late, came, last)
  BY <1>1, <1>2, NextScopeGood
<1>4. listing' = [listing EXCEPT ![h] = next]
      /\ UNCHANGED <<now, last, came, late, alerts, alerted, mails, reports,
                     overlaps, events, crashes>>
  BY DEF FindReport, punchVars, breakVars, reportVars, historyVars
<1> HIDE DEF next
<1>5. listing' \in [Listings -> Request] /\ EarlierPunches' /\ AllGood'
  BY <1>3, <1>4, OneListing
<1> QED BY <1>4, <1>5 DEF AlertInv, TypeOK

(* Where a report is filed.                                                 *)
LEMMA SlotType ==
    ASSUME AlertInv, NEW h \in Listings, listing[h].pc \in {"mail", "row"}
    PROVE  /\ Slot(h)[1] = Day(listing[h].at) /\ Slot(h)[1] \in Days
           /\ Slot(h)[2] = Offices - listing[h].left + 1 /\ Slot(h)[2] \in 1 .. Offices
           /\ Slot(h) \in Days \X (1 .. Offices)
<1>1. listing[h] \in Request /\ Good(listing[h], now, late, came, last)
  BY DEF AlertInv, TypeOK, AllGood
<1>2. listing[h].at \in Instants /\ listing[h].left \in 1 .. Offices
  BY <1>1, AlertConstants DEF Request, Good
<1>3. Day(listing[h].at) \in Days
  BY <1>2, DayOfInstant
<1>4. Offices - listing[h].left + 1 \in 1 .. Offices
  BY <1>2, AlertConstants
<1> QED BY <1>3, <1>4 DEF Slot

LEMMA SendMailInv ==
    ASSUME AlertInv, NEW h \in Listings, SendMail(h)
    PROVE  AlertInv'
<1> DEFINE r == listing[h]
           s == [r EXCEPT !.pc = "row"]
<1>1. /\ TypeOK /\ r \in Request /\ Good(r, now, late, came, last) /\ r.pc = "mail"
  BY DEF AlertInv, TypeOK, AllGood, SendMail, At
<1>2. s \in Request /\ Good(s, now, late, came, last)
  <2>1. s \in Request /\ s.pc = "row" /\ s.at = r.at /\ s.count = r.count /\ s.left = r.left
    BY <1>1 DEF Request, Labels
  <2> HIDE DEF s, r
  <2> QED BY <1>1, <2>1 DEF Good, Deciding
<1>3. listing' = [listing EXCEPT ![h] = s]
      /\ UNCHANGED <<now, last, came, late, alerts, alerted, reports, overlaps, events, crashes>>
  BY DEF SendMail, punchVars, breakVars, historyVars
<1> HIDE DEF s
<1>4. listing' \in [Listings -> Request] /\ EarlierPunches' /\ AllGood'
  BY <1>2, <1>3, OneListing
<1>5. mails' \in [Days \X (1 .. Offices) -> Nat]
  <2>1. PICK sent \in {0, 1} : mails' = [mails EXCEPT ![Slot(h)] = @ + sent]
    BY DEF SendMail
  <2>2. Slot(h) \in Days \X (1 .. Offices)
    BY <1>1, SlotType
  <2>3. mails \in [Days \X (1 .. Offices) -> Nat] /\ sent \in Nat
    BY <1>1 DEF TypeOK
  <2> QED BY <2>1, <2>2, <2>3
<1> QED BY <1>3, <1>4, <1>5 DEF AlertInv, TypeOK

LEMMA WriteReportInv ==
    ASSUME AlertInv, NEW h \in Listings, WriteReport(h)
    PROVE  AlertInv'
<1> DEFINE r == listing[h]
           next == NextScope(r)
           row == [day |-> Slot(h)[1], scope |-> Slot(h)[2]]
<1>1. /\ TypeOK /\ now \in Instants /\ late \in Seq(Notice) /\ r \in Request
      /\ Good(r, now, late, came, last)
      /\ r.pc = "row"
  BY DEF AlertInv, TypeOK, AllGood, WriteReport, At
<1>2. next \in Request /\ Good(next, now, late, came, last)
  BY <1>1, NextScopeGood
<1>3. /\ listing' = [listing EXCEPT ![h] = next] /\ reports' = reports \cup {row}
      /\ UNCHANGED <<now, last, came, late, alerts, alerted, mails, overlaps, events, crashes>>
  BY DEF WriteReport, punchVars, breakVars, historyVars
<1> HIDE DEF next
<1>4. listing' \in [Listings -> Request] /\ EarlierPunches' /\ AllGood'
  BY <1>2, <1>3, OneListing
<1>5. row \in ReportRow
  BY <1>1, SlotType DEF ReportRow
<1>6. reports' \subseteq ReportRow
  BY <1>1, <1>3, <1>5 DEF TypeOK
<1> QED BY <1>3, <1>4, <1>6 DEF AlertInv, TypeOK

LEMMA DieInv ==
    ASSUME AlertInv, NEW h \in Listings, Die(h)
    PROVE  AlertInv'
<1>1. now \in Instants /\ late \in Seq(Notice) /\ events \in Nat /\ crashes \in Nat /\ TypeOK
  BY DEF AlertInv, TypeOK
<1>2. Idle \in Request /\ Good(Idle, now, late, came, last)
  BY <1>1, IdleGood
<1>3. listing' = [listing EXCEPT ![h] = Idle]
      /\ UNCHANGED <<now, last, came, late, alerts, alerted, mails, reports, overlaps>>
  BY DEF Die, punchVars, breakVars, reportVars
<1>4. listing' \in [Listings -> Request] /\ EarlierPunches' /\ AllGood'
  BY <1>2, <1>3, OneListing
<1>5. events' \in Nat /\ crashes' \in Nat
  BY <1>1 DEF Die, Event
<1> QED BY <1>1, <1>3, <1>4, <1>5 DEF AlertInv, TypeOK

LEMMA AlertsStep ==
    ASSUME AlertInv, [Next]_vars
    PROVE  AlertInv'
<1>1. CASE \E h \in Listings : Begin(h) \/ BreakPart(h) \/ LatePart(h) \/ ReportPart(h) \/ Die(h)
  <2>1. PICK h \in Listings : Begin(h) \/ BreakPart(h) \/ LatePart(h) \/ ReportPart(h) \/ Die(h)
    BY <1>1
  <2>2. BreakPart(h) => AlertInv'
    BY FindAlertInv, CreateAlertInv DEF BreakPart
  <2>3. LatePart(h) => AlertInv'
    BY QueriesInv, ClockInInv, RemindInv, GiveUpInv DEF LatePart
  <2>4. ReportPart(h) => AlertInv'
    BY FindReportInv, SendMailInv, WriteReportInv DEF ReportPart
  <2> QED BY <2>1, <2>2, <2>3, <2>4, BeginInv, DieInv
<1>2. CASE \E e \in Acting : OwnPunch(e) \/ SendMessage(e)
  <2>1. Acting \subseteq Employees
    BY AlertConstants
  <2> QED BY <1>2, <2>1, OwnPunchInv, SendMessageInv
<1>3. CASE Tick
  BY <1>3, TickInv
<1>4. CASE UNCHANGED vars
  BY <1>4 DEF vars, AlertInv, TypeOK, EarlierPunches, AllGood
<1> QED BY <1>1, <1>2, <1>3, <1>4 DEF Next

LEMMA AlertsInit == Init => AlertInv
<1> SUFFICES ASSUME Init PROVE AlertInv
  OBVIOUS
<1>1. now \in Instants /\ late \in Seq(Notice) /\ late = <<>>
  BY AlertConstants DEF Init, Instants
<1>2. TypeOK
  <2>1. Idle \in Request
    BY <1>1, IdleGood
  <2>2. listing \in [Listings -> Request]
    BY <2>1 DEF Init
  <2>3. last \in [Employees -> [type : Active \cup {"OUT"}, at : Instants]]
    BY <1>1 DEF Init
  <2>4. /\ alerts \in [Employees -> [Instants -> Nat]]
        /\ alerted \in [Employees -> Instants \cup {Earlier}]
        /\ mails \in [Days \X (1 .. Offices) -> Nat]
    BY DEF Init
  <2> QED BY <1>1, <2>2, <2>3, <2>4 DEF Init, TypeOK
<1>3. AllGood
  <2> SUFFICES ASSUME NEW h \in Listings
               PROVE  Good(listing[h], now, late, came, last)
    BY DEF AllGood
  <2>1. listing[h] = Idle
    BY DEF Init
  <2> QED BY <1>1, <2>1, IdleGood
<1> QED BY <1>2, <1>3 DEF AlertInv, EarlierPunches, Init

----------------------------------------------------------------------------
(* The theorems.                                                            *)

(* The inductive invariant of the sweeps.                                   *)
THEOREM AlertInvariant == Spec => []AlertInv
<1>1. AlertInv /\ [Next]_vars => AlertInv'
  BY AlertsStep
<1> QED BY <1>1, AlertsInit, PTL DEF Spec

(* Every table and every request of the listings has its type.              *)
THEOREM AlertsTyped == Spec => []TypeOK
<1>1. AlertInv => TypeOK
  BY DEF AlertInv
<1> QED BY <1>1, AlertInvariant, PTL

(* Nobody is clocked in automatically before three reminders of that        *)
(* working day or later ones exist, in any interleaving of any number of    *)
(* listings.                                                                *)
THEOREM ClockedInAfterReminders == Spec => []RemindedOften
<1>1. AlertInv => RemindedOften
  <2> SUFFICES ASSUME AlertInv, NEW h \in Listings, At(h, "clockIn")
               PROVE  Cardinality(RemindersSince(listing[h].at, listing[h].subject))
                        >= MaxReminders
    BY DEF RemindedOften
  <2>1. RemindersSince(listing[h].at, listing[h].subject)
          = Rows(late, listing[h].at, listing[h].subject)
    BY DEF RemindersSince, Rows
  <2> QED BY <2>1 DEF AlertInv, AllGood, Good, At
<1> QED BY <1>1, AlertInvariant, PTL

(* Whoever is clocked in automatically is absent, and has not come on that  *)
(* day, unless he has punched since the listing read the clock.             *)
THEOREM ClocksInTheAbsent == Spec => OnlyTheAbsent
<1>1. AlertInv => [\A h \in Listings, e \in Employees :
                     ClocksIn(h, e) /\ e \notin listing[h].moved =>
                       /\ last[e].type \notin Active
                       /\ \A x \in came[e] : Day(x) # Day(listing[h].at)]_vars
  <2> SUFFICES ASSUME AlertInv, NEW h \in Listings, NEW e \in Employees,
                      ClocksIn(h, e), e \notin listing[h].moved
               PROVE  /\ last[e].type \notin Active
                      /\ \A x \in came[e] : Day(x) # Day(listing[h].at)
    OBVIOUS
  <2>1. Good(listing[h], now, late, came, last)
    BY DEF AlertInv, AllGood
  <2>2. listing[h].pc = "clockIn" /\ listing[h].subject = e
    BY DEF ClocksIn, Leaves
  <2> QED BY <2>1, <2>2 DEF Good, Deciding
<1> QED BY <1>1, AlertInvariant, PTL DEF OnlyTheAbsent
----------------------------------------------------------------------------
(* One listing at a time.  As long as no listing has begun while another    *)
(* was in flight, whatever one of them does it does alone.                  *)

Alone == \A g, h \in Listings : ~At(g, "idle") /\ ~At(h, "idle") => g = h

(* A listing that has at most learnt of a punch.                            *)
Kept(r, s) ==
    /\ s.pc = r.pc /\ s.at = r.at /\ s.todo = r.todo /\ s.since = r.since
    /\ s.subject = r.subject /\ s.asked = r.asked /\ s.count = r.count
    /\ s.left = r.left

ListingStep(h) == Begin(h) \/ BreakPart(h) \/ LatePart(h) \/ ReportPart(h) \/ Die(h)

LEMMA OneAtATime ==
    ASSUME AlertInv, NEW h \in Listings,
           BreakPart(h) \/ LatePart(h) \/ ReportPart(h) \/ Die(h)
    PROVE  /\ ~At(h, "idle") /\ overlaps' = overlaps
           /\ \A g \in Listings \ {h} : Kept(listing[g], listing'[g])
<1> USE DEF At, Kept
<1>0. listing \in [Listings -> Request]
  BY DEF AlertInv, TypeOK
<1>1. ASSUME NEW e \in Employees, FindAlert(h, e)
      PROVE  /\ listing[h].pc = "alertLoop" /\ overlaps' = overlaps
             /\ \A g \in Listings \ {h} : listing'[g] = listing[g]
  BY <1>0, <1>1 DEF FindAlert, historyVars
<1>2. ASSUME CreateAlert(h)
      PROVE  /\ listing[h].pc = "alert" /\ overlaps' = overlaps
             /\ \A g \in Listings \ {h} : listing'[g] = listing[g]
  BY <1>0, <1>2 DEF CreateAlert, historyVars
<1>3. ASSUME ReadClockIns(h) \/ ReadReminders(h) \/ ReadLatestPunches(h)
      PROVE  /\ listing[h].pc = "snapshot" /\ overlaps' = overlaps
             /\ \A g \in Listings \ {h} : listing'[g] = listing[g]
  BY <1>0, <1>3 DEF ReadClockIns, ReadReminders, ReadLatestPunches, historyVars
<1>4. ASSUME NEW e \in Employees, Remind(h, e) \/ GiveUp(h, e)
      PROVE  /\ listing[h].pc = "lateLoop" /\ overlaps' = overlaps
             /\ \A g \in Listings \ {h} : listing'[g] = listing[g]
  <2>1. CASE Remind(h, e)
    BY <1>0, <2>1 DEF Remind, historyVars
  <2>2. CASE GiveUp(h, e)
    BY <1>0, <2>2 DEF GiveUp, historyVars
  <2> QED BY <1>4, <2>1, <2>2
<1>5. ASSUME ClockIn(h)
      PROVE  /\ listing[h].pc = "clockIn" /\ overlaps' = overlaps
             /\ \A g \in Listings \ {h} : Kept(listing[g], listing'[g])
  <2> DEFINE q == [listing EXCEPT ![h] = Proceed([@ EXCEPT !.pc = "lateLoop"], @.subject, ReportPhase)]
  <2>1. listing' = [g \in Listings |->
                      IF q[g].pc \in {"snapshot", "lateLoop", "clockIn"}
                      THEN [q[g] EXCEPT !.moved = @ \cup {listing[h].subject}] ELSE q[g]]
    BY <1>5, <1>0 DEF ClockIn, Punched
  <2>2. \A g \in Listings \ {h} : q[g] = listing[g] /\ listing[g] \in Request
    BY <1>0
  <2> HIDE DEF q
  <2>3. \A g \in Listings \ {h} : Kept(listing[g], listing'[g])
    BY <2>1, <2>2 DEF Request
  <2> QED BY <1>5, <2>3 DEF ClockIn, historyVars
<1>6. ASSUME FindReport(h) \/ SendMail(h) \/ WriteReport(h)
      PROVE  /\ listing[h].pc \in {"reportLoop", "mail", "row"} /\ overlaps' = overlaps
             /\ \A g \in Listings \ {h} : listing'[g] = listing[g]
  BY <1>0, <1>6 DEF FindReport, SendMail, WriteReport, historyVars
<1>7. ASSUME Die(h)
      PROVE  /\ listing[h].pc # "idle" /\ overlaps' = overlaps
             /\ \A g \in Listings \ {h} : listing'[g] = listing[g]
  BY <1>0, <1>7 DEF Die
<1>8. CASE BreakPart(h)
  BY <1>8, <1>1, <1>2 DEF BreakPart
<1>9. CASE LatePart(h)
  BY <1>9, <1>3, <1>4, <1>5 DEF LatePart
<1>10. CASE ReportPart(h)
  BY <1>10, <1>6 DEF ReportPart
<1> QED BY <1>7, <1>8, <1>9, <1>10

LEMMA OthersIdle ==
    ASSUME AlertInv, overlaps = 0 => Alone, overlaps' = 0,
           NEW h \in Listings, ListingStep(h)
    PROVE  /\ overlaps = 0 /\ Alone /\ Alone'
           /\ \A g \in Listings \ {h} : At(g, "idle") /\ At(g, "idle")'
<1>0. listing \in [Listings -> Request] /\ overlaps \in Nat
  BY DEF AlertInv, TypeOK
<1>1. CASE Begin(h)
  <2>1. overlaps = 0 /\ \A g \in Listings \ {h} : At(g, "idle")
    BY <1>0, <1>1 DEF Begin
  <2>2. \A g \in Listings \ {h} : listing'[g] = listing[g]
    BY <1>0, <1>1 DEF Begin
  <2> QED BY <2>1, <2>2 DEF Alone, At
<1>2. CASE BreakPart(h) \/ LatePart(h) \/ ReportPart(h) \/ Die(h)
  BY <1>2, OneAtATime DEF Alone, Kept, At
<1> QED BY <1>1, <1>2 DEF ListingStep

(* The other steps leave everybody where he is.                             *)
LEMMA WorldStep ==
    ASSUME AlertInv,
           (\E e \in Employees : OwnPunch(e) \/ SendMessage(e)) \/ Tick \/ UNCHANGED vars
    PROVE  /\ overlaps' = overlaps /\ crashes' = crashes
           /\ Alone => Alone'
           /\ \A h \in Listings : Kept(listing[h], listing'[h])
<1>0. listing \in [Listings -> Request]
  BY DEF AlertInv, TypeOK
<1>1. ASSUME NEW e \in Employees, NEW type, Punched(e, type, listing), NEW h \in Listings
      PROVE  Kept(listing[h], listing'[h])
  BY <1>0, <1>1 DEF Punched, Request, Kept
<1>2. CASE \E e \in Employees : OwnPunch(e)
  <2>1. PICK e \in Employees : OwnPunch(e)
    BY <1>2
  <2>2. PICK type \in Active \cup {"OUT"} : Punched(e, type, listing)
    BY <2>1 DEF OwnPunch
  <2>3. overlaps' = overlaps /\ crashes' = crashes
    BY <2>1 DEF OwnPunch
  <2>4. \A h \in Listings : Kept(listing[h], listing'[h])
    BY <2>2, <1>1
  <2> QED BY <2>3, <2>4 DEF Alone, At, Kept
<1>3. CASE (\E e \in Employees : SendMessage(e)) \/ Tick \/ UNCHANGED vars
  <2>1. listing' = listing /\ overlaps' = overlaps /\ crashes' = crashes
    BY <1>3 DEF SendMessage, Tick, vars, historyVars
  <2> QED BY <2>1 DEF Alone, At, Kept
<1> QED BY <1>2, <1>3

LEMMA OthersKept ==
    ASSUME AlertInv, NEW h \in Listings, ListingStep(h), NEW g \in Listings \ {h}
    PROVE  Kept(listing[g], listing'[g])
<1>1. CASE Begin(h)
  <2>1. listing'[g] = listing[g]
    BY <1>1 DEF Begin, AlertInv, TypeOK
  <2> QED BY <2>1 DEF Kept
<1>2. CASE BreakPart(h) \/ LatePart(h) \/ ReportPart(h) \/ Die(h)
  BY <1>2, OneAtATime
<1> QED BY <1>1, <1>2 DEF ListingStep

(* Where a listing goes from the end of a part.                             *)
LEMMA ReportPhaseFields ==
    ReportPhase.pc \in {"idle", "reportLoop"}
<1>1. Idle \in Request /\ Idle.pc = "idle"
  <2>1. Idle.pc = "idle"
    BY DEF Idle
  <2> QED BY <2>1, IdleFields
<1>2. [Idle EXCEPT !.at = now, !.left = Offices, !.pc = "reportLoop"].pc = "reportLoop"
  BY <1>1 DEF Request
<1> QED BY <1>1, <1>2 DEF ReportPhase

LEMMA LatePhaseFields ==
    /\ LatePhase.pc \in {"idle", "reportLoop", "snapshot"}
    /\ LatePhase.pc = "snapshot" =>
         /\ LatePhase.at = now /\ LatePhase.asked = {}
         /\ LatePhase.todo = {e \in Employees : Due(e, now)}
<1> DEFINE due == {e \in Employees : Due(e, now)}
           r == [Idle EXCEPT !.at = now, !.todo = due, !.pc = "snapshot"]
<1>1. Idle \in Request /\ Idle.asked = {}
  BY IdleFields
<1> HIDE DEF due
<1>2. r.pc = "snapshot" /\ r.at = now /\ r.asked = {} /\ r.todo = due
  BY <1>1 DEF Request
<1> HIDE DEF r
<1>3. LatePhase = ReportPhase \/ LatePhase = r
  BY DEF LatePhase, r, due
<1> QED BY <1>2, <1>3, ReportPhaseFields DEF due

LeftOver(r, pc, e, next, q) ==
    \/ q = next /\ r.todo = {e}
    \/ /\ q.pc = pc /\ q.at = r.at /\ q.since = r.since /\ q.count = r.count
       /\ q.asked = r.asked /\ q.todo = r.todo \ {e}

LEMMA ProceedFields ==
    ASSUME NEW r \in Request, NEW pc \in {"alertLoop", "lateLoop"}, NEW next, NEW e
    PROVE  LeftOver(r, pc, e, next, Proceed([r EXCEPT !.pc = pc], e, next))
<1> DEFINE s == [r EXCEPT !.pc = pc]
           q == Proceed(s, e, next)
<1>1. s \in Request /\ s.pc = pc /\ s.at = r.at /\ s.since = r.since
      /\ s.count = r.count /\ s.asked = r.asked /\ s.todo = r.todo
  BY DEF Request, Labels
<1> HIDE DEF s, q
<1>2. q = IF s.todo = {e} THEN next ELSE [s EXCEPT !.todo = s.todo \ {e}, !.subject = Nobody]
  BY DEF Proceed, q
<1>3. ASSUME s.todo = {e} PROVE LeftOver(r, pc, e, next, q)
  BY <1>1, <1>2, <1>3 DEF LeftOver
<1>4. ASSUME s.todo # {e} PROVE LeftOver(r, pc, e, next, q)
  BY <1>1, <1>2, <1>4 DEF Request, LeftOver
<1>5. LeftOver(r, pc, e, next, q)
  BY <1>3, <1>4
<1> QED BY <1>5 DEF q, s

----------------------------------------------------------------------------
(* Break alerts.                                                            *)

(* A listing that is looking through the overdue shifts has on its list, or *)
(* behind it with an alert, every shift that is still overdue at its clock. *)
Checked(r, p, a) ==
    r.pc \in {"alertLoop", "alert"} =>
      /\ \A e \in Employees : r.since[e] <= r.at
      /\ \A e \in Employees : p[e].type = "IN" /\ r.at - p[e].at >= BreakAfter =>
           r.since[e] = p[e].at /\ (e \in r.todo \/ a[e] >= p[e].at)

AllChecked == \A h \in Listings : Checked(listing[h], last, alerted)

(* The latest alert of an employee is younger than every shift alerted.     *)
LatestAlert ==
    /\ \A e \in Employees : alerted[e] <= now
    /\ \A e \in Employees, t \in Instants : alerts[e][t] >= 1 => alerted[e] >= t

Unalerted(h) ==
    At(h, "alert") =>
      alerted[listing[h].subject] < listing[h].since[listing[h].subject]

BreakInv ==
    /\ AllChecked
    /\ LatestAlert
    /\ overlaps = 0 =>
         /\ Alone
         /\ \A h \in Listings : Unalerted(h)
         /\ \A e \in Employees, t \in Instants : alerts[e][t] <= 1

(* Neither a punch of this instant nor one more alert takes anything away.  *)
LEMMA CheckedKept ==
    ASSUME NEW r, NEW s, Kept(r, s), r.at \in Nat, NEW n \in Nat, r.at <= n,
           NEW p, NEW q, NEW a \in [Employees -> Int], NEW b \in [Employees -> Int],
           Checked(r, p, a),
           \A e \in Employees : b[e] >= a[e],
           \A e \in Employees : p[e].at \in Nat,
           \A e \in Employees : q[e] = p[e] \/ q[e].at = n
    PROVE  Checked(s, q, b)
<1>1. BreakAfter \in Nat /\ BreakAfter >= 1
  BY AlertConstants
<1> SUFFICES ASSUME r.pc \in {"alertLoop", "alert"}
             PROVE  /\ \A e \in Employees : r.since[e] <= r.at
                    /\ \A e \in Employees : q[e].type = "IN" /\ r.at - q[e].at >= BreakAfter =>
                         r.since[e] = q[e].at /\ (e \in r.todo \/ b[e] >= q[e].at)
  BY DEF Checked, Kept
<1>2. ASSUME NEW e \in Employees, q[e].type = "IN", r.at - q[e].at >= BreakAfter
      PROVE  r.since[e] = q[e].at /\ (e \in r.todo \/ b[e] >= q[e].at)
  <2>1. q[e].at # n
    BY <1>1, <1>2
  <2>2. q[e] = p[e]
    BY <2>1
  <2>3. r.since[e] = p[e].at /\ (e \in r.todo \/ a[e] >= p[e].at)
    BY <1>2, <2>2 DEF Checked
  <2>4. a[e] \in Int /\ b[e] \in Int /\ b[e] >= a[e] /\ p[e].at \in Nat
    OBVIOUS
  <2> QED BY <2>2, <2>3, <2>4
<1> QED BY <1>2 DEF Checked

(* What the last step of an automatic clock-in leaves of its listing.       *)
LEMMA ClockInFields ==
    ASSUME AlertInv, NEW h \in Listings, ClockIn(h)
    PROVE  /\ listing[h] \in Request /\ listing[h].pc = "clockIn"
           /\ listing[h].subject \in Employees
           /\ Kept(Proceed([listing[h] EXCEPT !.pc = "lateLoop"], listing[h].subject,
                           ReportPhase), listing'[h])
           /\ \A e \in Employees : last'[e] = last[e] \/ last'[e].at = now
           /\ UNCHANGED <<now, late, alerts, alerted, mails, reports, crashes>>
<1> DEFINE r == listing[h]
           p == Proceed([r EXCEPT !.pc = "lateLoop"], r.subject, ReportPhase)
           q == [listing EXCEPT ![h] = p]
<1>1. /\ r \in Request /\ r.pc = "clockIn" /\ Good(r, now, late, came, last)
      /\ listing \in [Listings -> Request] /\ TypeOK /\ now \in Instants
      /\ late \in Seq(Notice)
  BY DEF AlertInv, TypeOK, AllGood, ClockIn, At
<1>2. r.subject \in Employees
  <2>1. r.todo \subseteq Employees
    BY <1>1 DEF Request
  <2> HIDE DEF r
  <2> QED BY <2>1, <1>1 DEF Good
<1>3. p \in Request
  <2>1. ReportPhase \in Request /\ Good(ReportPhase, now, late, came, last)
    BY <1>1, ReportPhaseGood
  <2> HIDE DEF r
  <2> QED BY <1>1, <2>1, ProceedGood
<1>4. Punched(r.subject, "IN", q)
  BY DEF ClockIn
<1> HIDE DEF p
<1>5. q[h] = p
  BY <1>1
<1>6. Kept(p, listing'[h])
  BY <1>3, <1>4, <1>5 DEF Punched, Kept, Request
<1>7. \A e \in Employees : last'[e] = last[e] \/ last'[e].at = now
  BY <1>1, <1>4 DEF Punched, TypeOK
<1>8. UNCHANGED <<now, late, alerts, alerted, mails, reports, crashes>>
  BY DEF ClockIn, breakVars, reportVars, historyVars
<1> QED BY <1>1, <1>2, <1>6, <1>7, <1>8 DEF p

LEMMA ReportPartPc ==
    ASSUME AlertInv, NEW h \in Listings, ReportPart(h) \/ Die(h)
    PROVE  listing'[h].pc \in {"idle", "reportLoop", "mail", "row"}
<1>1. /\ listing \in [Listings -> Request] /\ listing[h] \in Request
  BY DEF AlertInv, TypeOK
<1>2. Idle.pc = "idle"
  BY DEF Idle
<1>3. NextScope(listing[h]).pc \in {"idle", "reportLoop"}
  BY <1>1, <1>2 DEF NextScope, Request
<1>4. CASE Die(h)
  BY <1>1, <1>2, <1>4 DEF Die
<1>5. CASE FindReport(h)
  BY <1>1, <1>3, <1>5 DEF FindReport, Request
<1>6. CASE SendMail(h)
  BY <1>1, <1>6 DEF SendMail, Request
<1>7. CASE WriteReport(h)
  BY <1>1, <1>3, <1>7 DEF WriteReport
<1> QED BY <1>4, <1>5, <1>6, <1>7 DEF ReportPart

(* The last of the three answers.                                           *)
AfterAnswer(k, s) ==
    \/ s = k /\ k.asked # Queries
    \/ s = ReportPhase
    \/ /\ k.asked = Queries /\ s.pc = "lateLoop" /\ s.at = k.at
       /\ s.todo = Wanted(k) /\ s.count = k.count

LEMMA AnsweredFields ==
    ASSUME NEW r \in Request, r.pc = "snapshot", NEW q \in Queries
    PROVE  AfterAnswer([r EXCEPT !.asked = @ \cup {q}], Answered(q, r))
<1> DEFINE k == [r EXCEPT !.asked = @ \cup {q}]
           s == Answered(q, r)
<1>1. k \in Request /\ k.pc = "snapshot"
  BY DEF Request
<1>2. s = IF k.asked # Queries THEN k
          ELSE IF Wanted(k) = {} THEN ReportPhase
          ELSE [k EXCEPT !.asked = {}, !.present = {}, !.todo = Wanted(k), !.pc = "lateLoop"]
  BY DEF Answered
<1> HIDE DEF k, s
<1>3. ASSUME k.asked # Queries PROVE AfterAnswer(k, s)
  BY <1>2, <1>3 DEF AfterAnswer
<1>4. ASSUME k.asked = Queries, Wanted(k) = {} PROVE AfterAnswer(k, s)
  BY <1>2, <1>4 DEF AfterAnswer
<1>5. ASSUME k.asked = Queries, Wanted(k) # {} PROVE AfterAnswer(k, s)
  BY <1>1, <1>2, <1>5 DEF Request, AfterAnswer
<1>6. AfterAnswer(k, s)
  BY <1>3, <1>4, <1>5
<1> QED BY <1>6 DEF k, s

LEMMA QueryTypes ==
    ASSUME NEW r \in Request, r.pc = "snapshot", NEW l \in Seq(Notice), late = l
    PROVE  /\ WithClockIns(r) \in Request /\ WithClockIns(r).pc = "snapshot"
           /\ WithReminders(r) \in Request /\ WithReminders(r).pc = "snapshot"
           /\ WithLatestPunches(r) \in Request /\ WithLatestPunches(r).pc = "snapshot"
<1>1. \A e \in Employees : Cardinality(Reminders(r.at, e)) \in Nat
  <2> TAKE e \in Employees
  <2>1. IsFiniteSet(1 .. Len(l))
    BY FS_Interval
  <2>2. Reminders(r.at, e) \subseteq 1 .. Len(l)
    BY DEF Reminders
  <2> QED BY <2>1, <2>2, FS_Subset, FS_CardinalityType
<1>2. WithClockIns(r) \in Request /\ WithClockIns(r).pc = "snapshot"
  BY DEF WithClockIns, Request
<1>3. WithReminders(r) \in Request /\ WithReminders(r).pc = "snapshot"
  BY <1>1 DEF WithReminders, Request
<1>4. WithLatestPunches(r) \in Request /\ WithLatestPunches(r).pc = "snapshot"
  BY DEF WithLatestPunches, Request
<1> QED BY <1>2, <1>3, <1>4

LEMMA LatePartPc ==
    ASSUME AlertInv, NEW h \in Listings, LatePart(h)
    PROVE  listing'[h].pc \in {"idle", "reportLoop", "snapshot", "lateLoop", "clockIn"}
<1>1. /\ listing \in [Listings -> Request] /\ listing[h] \in Request
      /\ late \in Seq(Notice)
  BY DEF AlertInv, TypeOK
<1>2. CASE ClockIn(h)
  <2> DEFINE p == Proceed([listing[h] EXCEPT !.pc = "lateLoop"], listing[h].subject, ReportPhase)
  <2>1. Kept(p, listing'[h])
    BY <1>2, ClockInFields
  <2>2. p.pc \in {"lateLoop", "idle", "reportLoop"}
    <3>1. LeftOver(listing[h], "lateLoop", listing[h].subject, ReportPhase, p)
      BY <1>1, ProceedFields
    <3> HIDE DEF p
    <3>2. p = ReportPhase \/ p.pc = "lateLoop"
      BY <3>1 DEF LeftOver
    <3> QED BY <3>2, ReportPhaseFields
  <2> HIDE DEF p
  <2> QED BY <2>1, <2>2 DEF Kept
<1>3. ASSUME NEW r \in Request, r.pc = "snapshot", NEW q \in Queries
      PROVE  Answered(q, r).pc \in {"idle", "reportLoop", "snapshot", "lateLoop", "clockIn"}
  <2> DEFINE k == [r EXCEPT !.asked = @ \cup {q}]
             s == Answered(q, r)
  <2>1. k.pc = "snapshot"
    BY <1>3 DEF Request
  <2> HIDE DEF k, s
  <2>2. s = k \/ s = ReportPhase \/ s.pc = "lateLoop"
    BY <1>3, AnsweredFields DEF k, s, AfterAnswer
  <2>3. s.pc \in {"idle", "reportLoop", "snapshot", "lateLoop", "clockIn"}
    BY <2>1, <2>2, ReportPhaseFields
  <2> QED BY <2>3 DEF s
<1>4. CASE ReadClockIns(h) \/ ReadReminders(h) \/ ReadLatestPunches(h)
  <2>1. listing[h].pc = "snapshot"
    BY <1>4 DEF ReadClockIns, ReadReminders, ReadLatestPunches, At
  <2>2. \/ listing'[h] = Answered("ins", WithClockIns(listing[h]))
        \/ listing'[h] = Answered("reminders", WithReminders(listing[h]))
        \/ listing'[h] = Answered("latest", WithLatestPunches(listing[h]))
    BY <1>1, <1>4 DEF ReadClockIns, ReadReminders, ReadLatestPunches
  <2>3. "ins" \in Queries /\ "reminders" \in Queries /\ "latest" \in Queries
    BY DEF Queries
  <2> QED BY <1>1, <1>3, <2>1, <2>2, <2>3, QueryTypes
<1>5. ASSUME NEW e \in Employees, Remind(h, e)
      PROVE  listing'[h].pc \in {"idle", "reportLoop", "snapshot", "lateLoop", "clockIn"}
  <2>1. listing[h].pc = "lateLoop"
    BY <1>5 DEF Remind, At
  <2> DEFINE p == Proceed(listing[h], e, ReportPhase)
  <2>2. p = ReportPhase \/ p.pc = "lateLoop"
    <3>1. [listing[h] EXCEPT !.pc = "lateLoop"] = listing[h]
      BY <1>1, <2>1, SamePc
    <3>2. LeftOver(listing[h], "lateLoop", e, ReportPhase,
                   Proceed([listing[h] EXCEPT !.pc = "lateLoop"], e, ReportPhase))
      BY <1>1, ProceedFields
    <3> QED BY <3>1, <3>2 DEF LeftOver
  <2>3. listing'[h] = p \/ listing'[h] = [listing[h] EXCEPT !.subject = e, !.pc = "clockIn"]
    BY <1>1, <1>5 DEF Remind
  <2> HIDE DEF p
  <2>4. [listing[h] EXCEPT !.subject = e, !.pc = "clockIn"].pc = "clockIn"
    BY <1>1 DEF Request
  <2> QED BY <2>2, <2>3, <2>4, ReportPhaseFields
<1>6. ASSUME NEW e \in Employees, GiveUp(h, e)
      PROVE  listing'[h].pc \in {"idle", "reportLoop", "snapshot", "lateLoop", "clockIn"}
  BY <1>1, <1>6 DEF GiveUp, Request
<1> QED BY <1>2, <1>4, <1>5, <1>6 DEF LatePart

LEMMA BeginBreak ==
    ASSUME AlertInv, NEW h \in Listings, Begin(h)
    PROVE  listing'[h].pc # "alert" /\ Checked(listing'[h], last, alerted)
<1> DEFINE overdue == {e \in Employees : Overdue(e, now)}
           since == [e \in Employees |-> IF e \in overdue THEN last[e].at ELSE 0]
           r == [Idle EXCEPT !.pc = "alertLoop", !.at = now, !.todo = overdue, !.since = since]
<1>1. /\ now \in Nat /\ \A e \in Employees : last[e].at \in Nat
      /\ listing \in [Listings -> Request]
  BY DEF AlertInv, TypeOK, Instants
<1>2. listing'[h] = LatePhase \/ listing'[h] = r
  BY <1>1 DEF Begin
<1>3. LatePhase.pc # "alert" /\ Checked(LatePhase, last, alerted)
  BY LatePhaseFields DEF Checked
<1>4. r.pc = "alertLoop" /\ r.at = now /\ r.todo = overdue /\ r.since = since
  <2> HIDE DEF overdue, since
  <2> QED BY IdleFields DEF Request
<1> HIDE DEF r
<1>5. \A e \in Employees : r.since[e] <= r.at
  <2> TAKE e \in Employees
  <2>1. CASE e \in overdue
    <3>1. now - last[e].at >= BreakAfter
      BY <2>1 DEF Overdue
    <3> QED BY <3>1, <2>1, <1>1, <1>4, AlertConstants
  <2>2. CASE e \notin overdue
    BY <2>2, <1>1, <1>4
  <2> QED BY <2>1, <2>2
<1>6. ASSUME NEW e \in Employees, last[e].type = "IN", r.at - last[e].at >= BreakAfter
      PROVE  r.since[e] = last[e].at /\ e \in r.todo
  BY <1>4, <1>6 DEF Overdue
<1>7. Checked(r, last, alerted)
  BY <1>5, <1>6 DEF Checked
<1> QED BY <1>2, <1>3, <1>4, <1>7

LEMMA FindAlertBreak ==
    ASSUME AlertInv, BreakInv, NEW h \in Listings, NEW e \in Employees, FindAlert(h, e)
    PROVE  /\ listing'[h].pc = "alert" =>
                /\ listing'[h].subject = e /\ listing'[h].since = listing[h].since
                /\ alerted[e] < listing[h].since[e]
           /\ Checked(listing'[h], last, alerted)
<1> DEFINE r == listing[h]
           p == Proceed(r, e, LatePhase)
           s == [r EXCEPT !.subject = e, !.pc = "alert"]
<1>1. /\ r \in Request /\ r.pc = "alertLoop" /\ e \in r.todo
      /\ listing \in [Listings -> Request] /\ r.since[e] \in Int /\ alerted[e] \in Int
  <2>1. listing \in [Listings -> Request] /\ alerted \in [Employees -> Instants \cup {Earlier}]
    BY DEF AlertInv, TypeOK
  <2>2. r \in Request /\ r.pc = "alertLoop" /\ e \in r.todo
    BY <2>1 DEF FindAlert, At
  <2>3. r.since \in [Employees -> Instants]
    BY <2>2 DEF Request
  <2> QED BY <2>1, <2>2, <2>3 DEF Instants, Earlier
<1>2. listing'[h] = IF Alerted(h, e) THEN p ELSE s
  BY <1>1 DEF FindAlert
<1>3. Checked(r, last, alerted)
  BY DEF BreakInv, AllChecked
<1>4. CASE Alerted(h, e)
  <2>1. LeftOver(r, "alertLoop", e, LatePhase, p)
    <3>1. [r EXCEPT !.pc = "alertLoop"] = r
      BY <1>1, SamePc
    <3>2. LeftOver(r, "alertLoop", e, LatePhase, Proceed([r EXCEPT !.pc = "alertLoop"], e, LatePhase))
      BY <1>1, ProceedFields
    <3> QED BY <3>1, <3>2
  <2>2. alerted[e] >= r.since[e]
    BY <1>4 DEF Alerted
  <2> HIDE DEF p, r
  <2>3. CASE p = LatePhase
    BY <1>2, <1>4, <2>3, LatePhaseFields DEF Checked
  <2>4. CASE p.pc = "alertLoop" /\ p.at = r.at /\ p.since = r.since /\ p.todo = r.todo \ {e}
    <3>1. Checked(p, last, alerted)
      BY <1>1, <1>3, <2>2, <2>4 DEF Checked
    <3> QED BY <3>1, <2>4, <1>2, <1>4
  <2> QED BY <2>1, <2>3, <2>4 DEF LeftOver
<1>5. CASE ~Alerted(h, e)
  <2>1. s.pc = "alert" /\ s.at = r.at /\ s.since = r.since /\ s.todo = r.todo /\ s.subject = e
    BY <1>1 DEF Request
  <2>2. alerted[e] < r.since[e]
    BY <1>1, <1>5 DEF Alerted
  <2> HIDE DEF s, r
  <2>3. Checked(s, last, alerted)
    BY <1>1, <1>3, <2>1 DEF Checked
  <2> QED BY <1>2, <1>5, <2>1, <2>2, <2>3 DEF r
<1> QED BY <1>4, <1>5

LEMMA CreateAlertBreak ==
    ASSUME AlertInv, BreakInv, NEW h \in Listings, CreateAlert(h)
    PROVE  /\ listing'[h].pc # "alert"
           /\ Checked(listing'[h], last, alerted')
           /\ LatestAlert'
           /\ \A e \in Employees : alerted'[e] >= alerted[e]
           /\ overlaps = 0 => \A e \in Employees, t \in Instants : alerts'[e][t] <= 1
<1> DEFINE r == listing[h]
           e == r.subject
           p == Proceed([r EXCEPT !.pc = "alertLoop"], e, LatePhase)
           t == r.since[e]
<1>1. /\ r \in Request /\ r.pc = "alert" /\ Good(r, now, late, came, last)
      /\ listing \in [Listings -> Request] /\ now \in Nat /\ now \in Int
      /\ alerted \in [Employees -> Int] /\ alerts \in [Employees -> [Instants -> Nat]]
      /\ \A x \in Employees : last[x].at \in Nat
      /\ \A x \in Instants : x \in Int
  BY DEF AlertInv, TypeOK, AllGood, CreateAlert, At, Instants, Earlier
<1>2. /\ e \in Employees /\ t \in Instants /\ t \in Nat /\ r.at \in Nat /\ r.at <= now
      /\ e \in r.todo
  <2>1. r.todo \subseteq Employees /\ r.since \in [Employees -> Instants] /\ r.at \in Instants
    BY <1>1 DEF Request
  <2> HIDE DEF r
  <2> QED BY <2>1, <1>1 DEF Good, Instants
<1>3. /\ alerts' = [alerts EXCEPT ![e] = [alerts[e] EXCEPT ![t] = alerts[e][t] + 1]]
      /\ alerted' = [alerted EXCEPT ![e] = now]
      /\ listing'[h] = p /\ now' = now
  BY <1>1 DEF CreateAlert
<1>4. /\ Checked(r, last, alerted) /\ LatestAlert
      /\ overlaps = 0 => /\ alerted[e] < t
                         /\ \A x \in Employees, u \in Instants : alerts[x][u] <= 1
  BY <1>1 DEF BreakInv, AllChecked, Unalerted, At
<1>5. LeftOver(r, "alertLoop", e, LatePhase, p)
  BY <1>1, ProceedFields
<1> HIDE DEF r, p
<1>6. t <= now /\ now \in Nat
  <2>1. t <= r.at
    BY <1>1, <1>2, <1>4 DEF Checked
  <2> QED BY <2>1, <1>1, <1>2
<1> HIDE DEF t, e
<1>7. \A x \in Employees : alerted'[x] = IF x = e THEN now ELSE alerted[x]
  BY <1>1, <1>2, <1>3
<1>8. \A x \in Employees : alerted'[x] >= alerted[x] /\ alerted'[x] <= now
  BY <1>1, <1>4, <1>7 DEF LatestAlert
<1>9. /\ \A x \in Employees, u \in Instants :
           alerts'[x][u] = IF x = e /\ u = t THEN alerts[e][t] + 1 ELSE alerts[x][u]
  BY <1>1, <1>2, <1>3
<1>10. LatestAlert'
  <2>1. ASSUME NEW x \in Employees, NEW u \in Instants, alerts'[x][u] >= 1
        PROVE  alerted'[x] >= u
    <3>1. CASE x = e /\ u = t
      BY <3>1, <1>2, <1>6, <1>7
    <3>2. CASE ~(x = e /\ u = t)
      <4>1. alerted[x] >= u
        BY <2>1, <3>2, <1>4, <1>9 DEF LatestAlert
      <4>2. alerted'[x] >= alerted[x] /\ alerted[x] \in Int /\ alerted'[x] \in Int /\ u \in Int
        BY <1>1, <1>7, <1>8
      <4> QED BY <4>1, <4>2
    <3> QED BY <3>1, <3>2
  <2> QED BY <2>1, <1>3, <1>8 DEF LatestAlert
<1>11. ASSUME overlaps = 0, NEW x \in Employees, NEW u \in Instants
       PROVE  alerts'[x][u] <= 1
  <2>1. CASE x = e /\ u = t
    <3>1. ~(alerts[e][t] >= 1)
      <4>1. alerted[e] < t
        BY <1>4, <1>11
      <4> QED BY <4>1, <1>1, <1>2, <1>4 DEF LatestAlert
    <3>2. alerts[e][t] \in Nat
      BY <1>1, <1>2
    <3> QED BY <2>1, <3>1, <3>2, <1>9
  <2>2. CASE ~(x = e /\ u = t)
    BY <2>2, <1>4, <1>9, <1>11
  <2> QED BY <2>1, <2>2
<1>12. Checked(p, last, alerted') /\ p.pc # "alert"
  <2>1. CASE p = LatePhase
    BY <2>1, LatePhaseFields DEF Checked
  <2>2. CASE p.pc = "alertLoop" /\ p.at = r.at /\ p.since = r.since /\ p.todo = r.todo \ {e}
    <3>1. ASSUME NEW x \in Employees, last[x].type = "IN", r.at - last[x].at >= BreakAfter
          PROVE  r.since[x] = last[x].at /\ (x \in r.todo \ {e} \/ alerted'[x] >= last[x].at)
      <4>1. r.since[x] = last[x].at /\ (x \in r.todo \/ alerted[x] >= last[x].at)
        BY <3>1, <1>1, <1>4 DEF Checked
      <4>2. CASE x = e
        <5>1. last[x].at <= r.at /\ last[x].at \in Nat
          BY <3>1, <1>1, <1>2, AlertConstants
        <5>2. last[x].at <= now
          BY <5>1, <1>1, <1>2
        <5> QED BY <5>2, <4>1, <4>2, <1>7
      <4>3. CASE x # e
        BY <4>1, <4>3, <1>7
      <4> QED BY <4>2, <4>3
    <3>2. \A x \in Employees : r.since[x] <= r.at
      BY <1>1, <1>4 DEF Checked
    <3> QED BY <2>2, <3>1, <3>2 DEF Checked
  <2> QED BY <1>5, <2>1, <2>2 DEF LeftOver
<1> QED BY <1>3, <1>8, <1>10, <1>11, <1>12

LEMMA BreakStepOfOne ==
    ASSUME AlertInv, AlertInv', BreakInv, NEW h \in Listings, ListingStep(h),
           \A e \in Employees : alerted'[e] >= alerted[e],
           \A e \in Employees : last'[e] = last[e] \/ last'[e].at = now,
           Checked(listing'[h], last', alerted'), LatestAlert',
           overlaps' = 0 => /\ Unalerted(h)'
                            /\ \A e \in Employees, t \in Instants : alerts'[e][t] <= 1
    PROVE  BreakInv'
<1>1. /\ alerted \in [Employees -> Int] /\ alerted' \in [Employees -> Int] /\ now \in Nat
      /\ \A e \in Employees : last[e].at \in Nat
      /\ \A g \in Listings : listing[g].at \in Nat /\ listing[g].at <= now
  <2>1. TypeOK /\ TypeOK' /\ AllGood
    BY DEF AlertInv
  <2>2. /\ alerted \in [Employees -> Int] /\ alerted' \in [Employees -> Int] /\ now \in Nat
        /\ \A e \in Employees : last[e].at \in Nat
    BY <2>1 DEF TypeOK, Instants, Earlier
  <2>3. \A g \in Listings : listing[g] \in Request /\ Good(listing[g], now, late, came, last)
    BY <2>1 DEF TypeOK, AllGood
  <2> QED BY <2>2, <2>3 DEF Request, Instants, Good
<1>2. AllChecked'
  <2>1. ASSUME NEW g \in Listings PROVE Checked(listing'[g], last', alerted')
    <3>1. CASE g = h
      BY <3>1
    <3>2. CASE g # h
      <4>1. Kept(listing[g], listing'[g])
        BY <3>2, OthersKept
      <4>2. Checked(listing[g], last, alerted)
        BY DEF BreakInv, AllChecked
      <4> QED BY <4>1, <4>2, <1>1, CheckedKept
    <3> QED BY <3>1, <3>2
  <2> QED BY <2>1 DEF AllChecked
<1>3. ASSUME overlaps' = 0
      PROVE  Alone' /\ \A g \in Listings : Unalerted(g)'
  <2>1. /\ Alone' /\ \A g \in Listings \ {h} : At(g, "idle")'
    BY <1>3, OthersIdle DEF BreakInv
  <2>2. ASSUME NEW g \in Listings PROVE Unalerted(g)'
    <3>1. CASE g = h
      BY <1>3, <3>1
    <3>2. CASE g # h
      BY <3>2, <2>1 DEF Unalerted, At
    <3> QED BY <3>1, <3>2
  <2> QED BY <2>1, <2>2
<1> QED BY <1>2, <1>3 DEF BreakInv

(* Steps that touch no alert.                                               *)
LEMMA LatestAlertKept ==
    ASSUME AlertInv, LatestAlert, now' = now \/ now' = now + 1, UNCHANGED breakVars
    PROVE  LatestAlert'
<1>1. alerted \in [Employees -> Int] /\ now \in Nat
  BY DEF AlertInv, TypeOK, Instants, Earlier
<1>2. \A e \in Employees : alerted[e] <= now'
  BY <1>1 DEF LatestAlert
<1> QED BY <1>2 DEF LatestAlert, breakVars

LEMMA BreakStep ==
    ASSUME AlertInv, AlertInv', BreakInv, [Next]_vars
    PROVE  BreakInv'
<1>0. /\ alerted \in [Employees -> Int] /\ now \in Nat
      /\ listing \in [Listings -> Request]
  BY DEF AlertInv, TypeOK, Instants, Earlier
<1>1. LatestAlert /\ AllChecked
  BY DEF BreakInv
<1>2. ASSUME NEW h \in Listings, Begin(h) PROVE BreakInv'
  <2>1. UNCHANGED <<now, last, alerts, alerted>>
    BY <1>2 DEF Begin, punchVars, breakVars
  <2>2. listing'[h].pc # "alert" /\ Checked(listing'[h], last, alerted)
    BY <1>2, BeginBreak
  <2>3. ListingStep(h)
    BY <1>2 DEF ListingStep
  <2>4. LatestAlert'
    BY <1>1, <2>1, LatestAlertKept DEF breakVars
  <2>5. overlaps' = 0 => \A e \in Employees, t \in Instants : alerts'[e][t] <= 1
    BY <2>1, <2>3, OthersIdle DEF BreakInv
  <2>6. \A e \in Employees : alerted'[e] >= alerted[e]
    BY <2>1, <1>0
  <2> QED BY <2>1, <2>2, <2>3, <2>4, <2>5, <2>6, BreakStepOfOne DEF Unalerted, At
<1>3. ASSUME NEW h \in Listings, NEW e \in Employees, FindAlert(h, e) PROVE BreakInv'
  <2>1. UNCHANGED <<now, last, alerts, alerted, overlaps>>
    BY <1>3 DEF FindAlert, punchVars, breakVars, historyVars
  <2>2. ListingStep(h)
    BY <1>3 DEF ListingStep, BreakPart
  <2>3. Unalerted(h)'
    BY <1>3, <2>1, FindAlertBreak DEF Unalerted, At
  <2>4. Checked(listing'[h], last, alerted)
    BY <1>3, FindAlertBreak
  <2>5. LatestAlert'
    BY <1>1, <2>1, LatestAlertKept DEF breakVars
  <2>6. \A x \in Employees : alerted'[x] >= alerted[x]
    BY <2>1, <1>0
  <2>7. overlaps' = 0 => \A x \in Employees, t \in Instants : alerts'[x][t] <= 1
    BY <2>1 DEF BreakInv
  <2> QED BY <2>1, <2>2, <2>3, <2>4, <2>5, <2>6, <2>7, BreakStepOfOne
<1>4. ASSUME NEW h \in Listings, CreateAlert(h) PROVE BreakInv'
  <2>1. UNCHANGED <<now, last, overlaps>>
    BY <1>4 DEF CreateAlert, punchVars, historyVars
  <2>2. ListingStep(h)
    BY <1>4 DEF ListingStep, BreakPart
  <2>3. /\ listing'[h].pc # "alert" /\ Checked(listing'[h], last, alerted') /\ LatestAlert'
        /\ \A e \in Employees : alerted'[e] >= alerted[e]
        /\ overlaps = 0 => \A e \in Employees, t \in Instants : alerts'[e][t] <= 1
    BY <1>4, CreateAlertBreak
  <2>4. Unalerted(h)'
    BY <2>3 DEF Unalerted, At
  <2> QED BY <2>1, <2>2, <2>3, <2>4, BreakStepOfOne
<1>5. ASSUME NEW h \in Listings, LatePart(h) \/ ReportPart(h) \/ Die(h) PROVE BreakInv'
  <2>1. UNCHANGED <<now, alerts, alerted, overlaps>>
        /\ \A e \in Employees : last'[e] = last[e] \/ last'[e].at = now
    <3>1. CASE ClockIn(h)
      <4>1. overlaps' = overlaps
        BY <3>1 DEF ClockIn, historyVars
      <4> QED BY <3>1, <4>1, ClockInFields
    <3>2. CASE ReadClockIns(h) \/ ReadReminders(h) \/ ReadLatestPunches(h)
      BY <3>2 DEF ReadClockIns, ReadReminders, ReadLatestPunches, punchVars, breakVars, historyVars
    <3>3. CASE \E e \in Employees : Remind(h, e) \/ GiveUp(h, e)
      BY <3>3 DEF Remind, GiveUp, punchVars, breakVars, historyVars
    <3>4. CASE ReportPart(h) \/ Die(h)
      BY <3>4 DEF ReportPart, FindReport, SendMail, WriteReport, Die, punchVars, breakVars,
                  historyVars
    <3> QED BY <1>5, <3>1, <3>2, <3>3, <3>4 DEF LatePart
  <2>2. ListingStep(h)
    BY <1>5 DEF ListingStep
  <2>3. listing'[h].pc \notin {"alertLoop", "alert"}
    BY <1>5, LatePartPc, ReportPartPc
  <2>4. Checked(listing'[h], last', alerted') /\ Unalerted(h)'
    BY <2>3 DEF Checked, Unalerted, At
  <2>5. LatestAlert'
    BY <1>1, <2>1, LatestAlertKept DEF breakVars
  <2>6. \A x \in Employees : alerted'[x] >= alerted[x]
    BY <2>1, <1>0
  <2>7. overlaps' = 0 => \A x \in Employees, t \in Instants : alerts'[x][t] <= 1
    BY <2>1 DEF BreakInv
  <2> QED BY <2>1, <2>2, <2>4, <2>5, <2>6, <2>7, BreakStepOfOne
<1>6. ASSUME (\E e \in Employees : OwnPunch(e) \/ SendMessage(e)) \/ Tick \/ UNCHANGED vars
      PROVE  BreakInv'
  <2>1. /\ overlaps' = overlaps /\ (Alone => Alone')
        /\ \A h \in Listings : Kept(listing[h], listing'[h])
    BY <1>6, WorldStep
  <2>2. UNCHANGED breakVars /\ (now' = now \/ now' = now + 1)
    BY <1>6 DEF OwnPunch, SendMessage, Tick, vars, breakVars
  <2>3. \A e \in Employees : last'[e] = last[e] \/ last'[e].at = now
    <3>1. ASSUME NEW e \in Employees, OwnPunch(e), NEW x \in Employees
          PROVE  last'[x] = last[x] \/ last'[x].at = now
      <4>1. PICK type \in Active \cup {"OUT"} : Punched(e, type, listing)
        BY <3>1 DEF OwnPunch
      <4>2. last \in [Employees -> [type : Active \cup {"OUT"}, at : Instants]]
        BY DEF AlertInv, TypeOK
      <4> QED BY <4>1, <4>2 DEF Punched
    <3>2. ASSUME (\E e \in Employees : SendMessage(e)) \/ Tick \/ UNCHANGED vars
          PROVE  last' = last
      BY <3>2 DEF SendMessage, Tick, vars, punchVars
    <3> QED BY <1>6, <3>1, <3>2
  <2>4. ASSUME NEW h \in Listings PROVE Checked(listing'[h], last', alerted')
    <3>1. Checked(listing[h], last, alerted) /\ Kept(listing[h], listing'[h])
      BY <1>1, <2>1 DEF AllChecked
    <3>2. /\ listing[h].at \in Nat /\ listing[h].at <= now
      <4>1. listing[h] \in Request /\ Good(listing[h], now, late, came, last)
        BY DEF AlertInv, TypeOK, AllGood
      <4> QED BY <4>1 DEF Good, Request, Instants
    <3>3. \A e \in Employees : last[e].at \in Nat
      BY DEF AlertInv, TypeOK, Instants
    <3>4. \A e \in Employees : alerted[e] >= alerted[e]
      BY <1>0
    <3>5. Checked(listing'[h], last', alerted)
      BY <3>1, <3>2, <3>3, <3>4, <2>3, <1>0, CheckedKept
    <3> QED BY <3>5, <2>2 DEF breakVars
  <2>5. LatestAlert'
    BY <1>1, <2>2, LatestAlertKept
  <2>6. \A h \in Listings : Unalerted(h) => Unalerted(h)'
    BY <2>1, <2>2 DEF Unalerted, At, Kept, breakVars
  <2>7. overlaps = 0 =>
          /\ Alone /\ \A h \in Listings : Unalerted(h)
          /\ \A e \in Employees, t \in Instants : alerts[e][t] <= 1
    BY DEF BreakInv
  <2>8. alerts' = alerts
    BY <2>2 DEF breakVars
  <2> QED BY <2>1, <2>4, <2>5, <2>6, <2>7, <2>8 DEF BreakInv, AllChecked
<1>7. CASE \E h \in Listings : Begin(h) \/ BreakPart(h) \/ LatePart(h) \/ ReportPart(h) \/ Die(h)
  BY <1>7, <1>2, <1>3, <1>4, <1>5 DEF BreakPart
<1>8. CASE \E e \in Acting : OwnPunch(e) \/ SendMessage(e)
  <2>1. Acting \subseteq Employees
    BY AlertConstants
  <2> QED BY <1>6, <1>8, <2>1
<1> QED BY <1>6, <1>7, <1>8 DEF Next

LEMMA BreakInit == Init => BreakInv
<1> SUFFICES ASSUME Init PROVE BreakInv
  OBVIOUS
<1>1. \A h \in Listings : listing[h].pc = "idle"
  BY DEF Init, Idle
<1>2. now = 0 /\ \A e \in Employees : alerted[e] = -1
  BY DEF Init, Earlier
<1>3. \A e \in Employees, t \in Instants : alerts[e][t] = 0
  BY DEF Init
<1> QED BY <1>1, <1>2, <1>3 DEF BreakInv, AllChecked, Checked, LatestAlert, Alone, Unalerted, At

----------------------------------------------------------------------------
(* What the break alerts promise.                                           *)

(* What the listings know of overdue shifts, and of the alerts about them.  *)
THEOREM BreaksAreChecked == Spec => []BreakInv
<1>1. AlertInv /\ AlertInv' /\ BreakInv /\ [Next]_vars => BreakInv'
  BY BreakStep
<1> QED BY <1>1, BreakInit, AlertInvariant, PTL DEF Spec

(* As long as listings come one at a time, a shift without a break is       *)
(* reported once, by whatever listing, and wherever others have died.       *)
THEOREM ShiftsAlertedOnce == Spec => []OneAlertPerShift
<1>1. AlertInv /\ BreakInv => OneAlertPerShift
  <2> SUFFICES ASSUME AlertInv, BreakInv, ~(overlaps > 0)
               PROVE  \A e \in Employees, t \in Instants : alerts[e][t] <= 1
    BY DEF OneAlertPerShift
  <2>1. overlaps = 0
    BY DEF AlertInv, TypeOK
  <2> QED BY <2>1 DEF BreakInv
<1> QED BY <1>1, AlertInvariant, BreaksAreChecked, PTL

(* A listing that goes on from the break alerts leaves, for every employee  *)
(* whose shift was overdue at its clock and still is his last punch, an     *)
(* alert that is not older than the shift, in any interleaving of listings  *)
(* and punches.  It need not be about that shift: a late alert about the    *)
(* one before is as young.                                                  *)
THEOREM NobodyOverlooked == Spec => OverdueAlerted
<1>1. AlertInv /\ AlertInv' /\ BreakInv /\ [Next]_vars =>
        [\A h \in Listings, e \in Employees :
           Leaves(h, {"alertLoop", "alert"})
           /\ listing[h].since[e] = last[e].at /\ Overdue(e, listing[h].at) =>
             alerted'[e] >= last[e].at]_vars
  <2> SUFFICES ASSUME AlertInv, BreakInv, [Next]_vars, NEW h \in Listings, NEW e \in Employees,
                      Leaves(h, {"alertLoop", "alert"}), Overdue(e, listing[h].at)
               PROVE  alerted'[e] >= last[e].at
    OBVIOUS
  <2>1. /\ listing \in [Listings -> Request] /\ listing[h] \in Request /\ crashes \in Nat
        /\ alerted \in [Employees -> Int] /\ now \in Nat /\ last[e].at \in Nat
        /\ Good(listing[h], now, late, came, last)
    BY DEF AlertInv, AllGood, TypeOK, Instants, Earlier
  <2>2. /\ listing[h].pc \in {"alertLoop", "alert"}
        /\ listing'[h].pc \notin {"alertLoop", "alert"} /\ crashes' = crashes
    BY DEF Leaves
  <2>3. /\ listing[h].since[e] = last[e].at /\ last[e].at <= listing[h].at
        /\ e \in listing[h].todo \/ alerted[e] >= last[e].at
    <3>1. Checked(listing[h], last, alerted) /\ listing[h].since[e] \in Nat
          /\ listing[h].at \in Nat
      BY <2>1 DEF BreakInv, AllChecked, Request, Instants
    <3>2. /\ listing[h].since[e] = last[e].at
          /\ e \in listing[h].todo \/ alerted[e] >= last[e].at
      BY <3>1, <2>2 DEF Checked, Overdue
    <3> QED BY <3>1, <3>2, <2>2 DEF Checked
  <2>4. ASSUME NEW x \in Employees, FindAlert(h, x) PROVE alerted'[e] >= last[e].at
    <3> DEFINE p == Proceed(listing[h], x, LatePhase)
    <3>1. /\ listing[h].pc = "alertLoop" /\ alerted' = alerted
          /\ listing'[h] = IF Alerted(h, x) THEN p
                            ELSE [listing[h] EXCEPT !.subject = x, !.pc = "alert"]
      BY <2>1, <2>4 DEF FindAlert, At, breakVars
    <3>2. [listing[h] EXCEPT !.subject = x, !.pc = "alert"].pc = "alert"
      BY <2>1 DEF Request
    <3>3. Alerted(h, x) /\ listing'[h] = p
      BY <3>1, <3>2, <2>2
    <3>4. LeftOver(listing[h], "alertLoop", x, LatePhase, p)
      <4>1. [listing[h] EXCEPT !.pc = "alertLoop"] = listing[h]
        BY <2>1, <3>1, SamePc
      <4>2. LeftOver(listing[h], "alertLoop", x, LatePhase,
                     Proceed([listing[h] EXCEPT !.pc = "alertLoop"], x, LatePhase))
        BY <2>1, ProceedFields
      <4> QED BY <4>1, <4>2
    <3> HIDE DEF p
    <3>5. listing[h].todo = {x}
      BY <3>3, <3>4, <2>2 DEF LeftOver
    <3> QED BY <2>3, <3>1, <3>3, <3>5 DEF Alerted
  <2>5. ASSUME CreateAlert(h) PROVE alerted'[e] >= last[e].at
    <3> DEFINE p == Proceed([listing[h] EXCEPT !.pc = "alertLoop"], listing[h].subject, LatePhase)
    <3>1. alerted' = [alerted EXCEPT ![listing[h].subject] = now] /\ listing'[h] = p
      BY <2>1, <2>5 DEF CreateAlert
    <3>2. LeftOver(listing[h], "alertLoop", listing[h].subject, LatePhase, p)
      BY <2>1, ProceedFields
    <3> HIDE DEF p
    <3>3. listing[h].todo = {listing[h].subject}
      BY <3>1, <3>2, <2>2 DEF LeftOver
    <3>4. last[e].at <= now
      BY <2>1, <2>3 DEF Good, Request, Instants
    <3>5. alerted'[e] = IF e = listing[h].subject THEN now ELSE alerted[e]
      BY <2>1, <3>1
    <3> QED BY <2>3, <3>3, <3>4, <3>5
  <2>6. ~(LatePart(h) \/ ReportPart(h) \/ Begin(h))
    BY <2>2 DEF LatePart, ReportPart, Begin, ReadClockIns, ReadReminders, ReadLatestPunches,
                ClockIn, Remind, GiveUp, FindReport, SendMail, WriteReport, At
  <2>7. ~Die(h)
    BY <2>1, <2>2 DEF Die
  <2>8. ASSUME NEW g \in Listings, ListingStep(g) PROVE g = h
    BY <2>2, <2>8, OthersKept DEF Kept
  <2>9. ~((\E x \in Employees : OwnPunch(x) \/ SendMessage(x)) \/ Tick \/ UNCHANGED vars)
    BY <2>2, WorldStep DEF Kept
  <2>10. Acting \subseteq Employees
    BY AlertConstants
  <2>11. PICK g \in Listings : ListingStep(g)
    BY <2>9, <2>10 DEF Next, ListingStep
  <2>12. ListingStep(h)
    BY <2>8, <2>11
  <2>13. BreakPart(h)
    BY <2>12, <2>6, <2>7 DEF ListingStep
  <2> QED BY <2>13, <2>4, <2>5 DEF BreakPart
<1> QED BY <1>1, AlertInvariant, BreaksAreChecked, PTL DEF OverdueAlerted, Spec

----------------------------------------------------------------------------
(* The owner's report.                                                      *)

(* An e-mail that is not remembered by a row is about to be, or its listing *)
(* has died.                                                                *)
Accounted(x) ==
    \/ \E r \in reports : r.day = x[1] /\ r.scope = x[2]
    \/ \E h \in Listings : At(h, "row") /\ Slot(h) = x

MailsCounted ==
    \A x \in Days \X (1 .. Offices) :
      mails[x] <= crashes + 1 /\ (mails[x] = crashes + 1 => Accounted(x))

Unreported(h) == At(h, "mail") => ~Reported(h)

MailInv == overlaps = 0 => Alone /\ MailsCounted /\ \A h \in Listings : Unreported(h)

(* The step of a listing that is alone, and sends nothing.                  *)
LEMMA MailsKept ==
    ASSUME AlertInv, MailsCounted, UNCHANGED mails,
           crashes' = crashes \/ crashes' = crashes + 1,
           crashes' = crashes => \A x \in Days \X (1 .. Offices) : Accounted(x) => Accounted(x)'
    PROVE  MailsCounted'
<1>1. mails \in [Days \X (1 .. Offices) -> Nat] /\ crashes \in Nat
  BY DEF AlertInv, TypeOK
<1>2. CASE crashes' = crashes
  BY <1>1, <1>2 DEF MailsCounted
<1>3. CASE crashes' = crashes + 1
  <2>1. ASSUME NEW x \in Days \X (1 .. Offices)
        PROVE  mails[x] <= crashes' + 1 /\ mails[x] # crashes' + 1
    <3>1. mails[x] \in Nat /\ mails[x] <= crashes + 1
      BY <1>1 DEF MailsCounted
    <3> QED BY <3>1, <1>1, <1>3
  <2> QED BY <2>1 DEF MailsCounted
<1> QED BY <1>2, <1>3

LEMMA MailStepOfOne ==
    ASSUME AlertInv, MailInv, NEW h \in Listings, ListingStep(h),
           overlaps' = 0
    PROVE  Alone' /\ MailsCounted' /\ \A g \in Listings : Unreported(g)'
<1>1. /\ overlaps = 0 /\ Alone /\ Alone'
      /\ \A g \in Listings \ {h} : At(g, "idle") /\ At(g, "idle")'
  BY OthersIdle DEF MailInv
<1>2. /\ MailsCounted /\ Unreported(h)
      /\ listing \in [Listings -> Request] /\ listing[h] \in Request
      /\ mails \in [Days \X (1 .. Offices) -> Nat] /\ crashes \in Nat
  BY <1>1 DEF MailInv, AlertInv, TypeOK
<1>3. ASSUME Unreported(h)' PROVE \A g \in Listings : Unreported(g)'
  <2> TAKE g \in Listings
  <2>1. CASE g = h
    BY <2>1, <1>3
  <2>2. CASE g # h
    BY <2>2, <1>1 DEF Unreported, At
  <2> QED BY <2>1, <2>2
<1>4. ASSUME NEW x, Accounted(x), listing[h].pc # "row"
      PROVE  \E r \in reports : r.day = x[1] /\ r.scope = x[2]
  BY <1>1, <1>4 DEF Accounted, At
<1>5. CASE Begin(h) \/ BreakPart(h) \/ LatePart(h)
  <2>1. /\ UNCHANGED <<mails, reports, crashes>> /\ listing[h].pc # "row"
    <3>1. CASE Begin(h)
      BY SMTT(30), <3>1 DEF Begin, At, reportVars
    <3>2. CASE BreakPart(h)
      BY <3>2 DEF BreakPart, CreateAlert, FindAlert, At, reportVars, historyVars
    <3>3. CASE ClockIn(h)
      BY <3>3, ClockInFields DEF ClockIn, reportVars
    <3>4. CASE ReadClockIns(h) \/ ReadReminders(h) \/ ReadLatestPunches(h)
      BY <3>4 DEF ReadClockIns, ReadReminders, ReadLatestPunches, At, reportVars, historyVars
    <3>5. CASE \E e \in Employees : Remind(h, e) \/ GiveUp(h, e)
      BY <3>5 DEF Remind, GiveUp, At, reportVars, historyVars
    <3> QED BY <1>5, <3>1, <3>2, <3>3, <3>4, <3>5 DEF LatePart
  <2>2. \A x \in Days \X (1 .. Offices) : Accounted(x) => Accounted(x)'
    BY <2>1, <1>4 DEF Accounted
  <2>3. listing'[h].pc # "mail"
    <3>1. CASE Begin(h)
      <4> DEFINE o == {e \in Employees : Overdue(e, now)}
                 s == [e \in Employees |-> IF e \in o THEN last[e].at ELSE 0]
                 r == [Idle EXCEPT !.pc = "alertLoop", !.at = now, !.todo = o, !.since = s]
      <4>1. listing'[h] = LatePhase \/ listing'[h] = r
        BY <1>2, <3>1 DEF Begin
      <4>2. r.pc = "alertLoop"
        <5> HIDE DEF o, s
        <5> QED BY IdleFields DEF Request
      <4> HIDE DEF r
      <4> QED BY <4>1, <4>2, LatePhaseFields
    <3>2. ASSUME NEW e \in Employees, FindAlert(h, e) PROVE listing'[h].pc # "mail"
      <4> DEFINE p == Proceed(listing[h], e, LatePhase)
      <4>1. /\ listing[h].pc = "alertLoop"
            /\ listing'[h] = p \/ listing'[h] = [listing[h] EXCEPT !.subject = e, !.pc = "alert"]
        BY <1>2, <3>2 DEF FindAlert, At
      <4>2. LeftOver(listing[h], "alertLoop", e, LatePhase, p)
        <5>1. [listing[h] EXCEPT !.pc = "alertLoop"] = listing[h]
          BY <1>2, <4>1, SamePc
        <5>2. LeftOver(listing[h], "alertLoop", e, LatePhase,
                       Proceed([listing[h] EXCEPT !.pc = "alertLoop"], e, LatePhase))
          BY <1>2, ProceedFields
        <5> QED BY <5>1, <5>2
      <4> HIDE DEF p
      <4>3. [listing[h] EXCEPT !.subject = e, !.pc = "alert"].pc = "alert"
        BY <1>2 DEF Request
      <4> QED BY <4>1, <4>2, <4>3, LatePhaseFields DEF LeftOver
    <3>3. CASE CreateAlert(h)
      <4> DEFINE p == Proceed([listing[h] EXCEPT !.pc = "alertLoop"], listing[h].subject, LatePhase)
      <4>1. listing'[h] = p
        BY <1>2, <3>3 DEF CreateAlert
      <4>2. LeftOver(listing[h], "alertLoop", listing[h].subject, LatePhase, p)
        BY <1>2, ProceedFields
      <4> HIDE DEF p
      <4> QED BY <4>1, <4>2, LatePhaseFields DEF LeftOver
    <3>4. CASE LatePart(h)
      BY <3>4, LatePartPc
    <3> QED BY <1>5, <3>1, <3>2, <3>3, <3>4 DEF BreakPart
  <2>4. Unreported(h)'
    BY <2>3 DEF Unreported, At
  <2> QED BY <1>1, <1>2, <1>3, <2>1, <2>2, <2>4, MailsKept
<1>6. CASE Die(h)
  <2>1. UNCHANGED mails /\ crashes' = crashes + 1 /\ listing'[h] = Idle
    BY <1>2, <1>6 DEF Die, reportVars
  <2>2. Unreported(h)'
    BY <2>1 DEF Unreported, At, Idle
  <2>3. MailsCounted'
    BY <1>2, <2>1, MailsKept
  <2> QED BY <1>1, <1>3, <2>2, <2>3
<1>7. CASE FindReport(h)
  <2>1. /\ UNCHANGED <<mails, reports, crashes>> /\ listing[h].pc = "reportLoop"
        /\ listing'[h] = IF Reported(h) THEN NextScope(listing[h])
                         ELSE [listing[h] EXCEPT !.pc = "mail"]
    BY <1>2, <1>7 DEF FindReport, At, reportVars, historyVars
  <2>2. \A x \in Days \X (1 .. Offices) : Accounted(x) => Accounted(x)'
    BY <2>1, <1>4 DEF Accounted
  <2>3. CASE Reported(h)
    <3>1. listing'[h].pc # "mail"
      BY <1>2, <2>1, <2>3 DEF NextScope, Request, Idle
    <3>2. Unreported(h)'
      BY <3>1 DEF Unreported, At
    <3> QED BY <1>1, <1>2, <1>3, <2>1, <2>2, <3>2, MailsKept
  <2>4. CASE ~Reported(h)
    <3>1. listing'[h].at = listing[h].at /\ listing'[h].left = listing[h].left
      BY <1>2, <2>1, <2>4 DEF Request
    <3>2. Slot(h)' = Slot(h)
      BY <3>1 DEF Slot
    <3>3. Unreported(h)'
      BY <2>1, <2>4, <3>2 DEF Unreported, Reported
    <3> QED BY <1>1, <1>2, <1>3, <2>1, <2>2, <3>3, MailsKept
  <2> QED BY <2>3, <2>4
<1>8. CASE SendMail(h)
  <2>1. /\ UNCHANGED <<reports, crashes>> /\ listing[h].pc = "mail"
        /\ listing'[h] = [listing[h] EXCEPT !.pc = "row"]
    BY <1>2, <1>8 DEF SendMail, At, historyVars
  <2>2. PICK sent \in {0, 1} : mails' = [mails EXCEPT ![Slot(h)] = @ + sent]
    BY <1>8 DEF SendMail
  <2>3. /\ listing'[h].pc = "row" /\ Slot(h)' = Slot(h)
    <3>1. /\ listing'[h].pc = "row" /\ listing'[h].at = listing[h].at
          /\ listing'[h].left = listing[h].left
      BY <1>2, <2>1 DEF Request
    <3> QED BY <3>1 DEF Slot
  <2>4. Slot(h) \in Days \X (1 .. Offices)
    BY <2>1, SlotType
  <2>5. ~Accounted(Slot(h))
    BY <1>2, <1>4, <2>1 DEF Unreported, Reported, At
  <2>6. Accounted(Slot(h))'
    BY <2>3 DEF Accounted, At
  <2>7. ASSUME NEW x \in Days \X (1 .. Offices)
        PROVE  mails'[x] <= crashes' + 1 /\ (mails'[x] = crashes' + 1 => Accounted(x)')
    <3>1. mails[x] \in Nat /\ mails[x] <= crashes + 1 /\ (mails[x] = crashes + 1 => Accounted(x))
      BY <1>2 DEF MailsCounted
    <3>2. CASE x = Slot(h)
      <4>1. mails'[x] = mails[x] + sent
        BY <3>2, <2>2, <2>4, <1>2
      <4>2. mails[x] # crashes + 1
        BY <3>1, <3>2, <2>5
      <4>3. mails'[x] <= crashes' + 1
        BY <4>1, <4>2, <3>1, <2>1, <1>2
      <4>4. Accounted(x)'
        BY <2>3, <3>2 DEF Accounted, At
      <4> QED BY <4>3, <4>4
    <3>3. CASE x # Slot(h)
      <4>1. mails'[x] = mails[x]
        BY <3>3, <2>2, <1>2
      <4>2. Accounted(x) => Accounted(x)'
        BY <1>4, <2>1 DEF Accounted
      <4> QED BY <4>1, <4>2, <3>1, <2>1
    <3> QED BY <3>2, <3>3
  <2>8. Unreported(h)'
    BY <2>3 DEF Unreported, At
  <2> QED BY <1>1, <1>3, <2>7, <2>8 DEF MailsCounted
<1>9. CASE WriteReport(h)
  <2>1. /\ UNCHANGED <<mails, crashes>> /\ listing[h].pc = "row"
        /\ listing'[h] = NextScope(listing[h])
        /\ reports' = reports \cup {[day |-> Slot(h)[1], scope |-> Slot(h)[2]]}
    BY <1>2, <1>9 DEF WriteReport, At, historyVars
  <2>2. listing'[h].pc # "mail"
    BY <1>2, <2>1 DEF NextScope, Request, Idle
  <2>3. Unreported(h)'
    BY <2>2 DEF Unreported, At
  <2>4. ASSUME NEW x \in Days \X (1 .. Offices), Accounted(x) PROVE Accounted(x)'
    <3>1. CASE \E r \in reports : r.day = x[1] /\ r.scope = x[2]
      BY <3>1, <2>1 DEF Accounted
    <3>2. CASE Slot(h) = x
      <4>1. [day |-> Slot(h)[1], scope |-> Slot(h)[2]] \in reports'
        BY <2>1
      <4> QED BY <4>1, <3>2 DEF Accounted
    <3>3. ASSUME NEW g \in Listings, At(g, "row") PROVE g = h
      BY <3>3, <1>1 DEF At
    <3> QED BY <2>4, <3>1, <3>2, <3>3 DEF Accounted
  <2> QED BY <1>1, <1>2, <1>3, <2>1, <2>3, <2>4, MailsKept
<1> QED BY <1>5, <1>6, <1>7, <1>8, <1>9 DEF ListingStep, ReportPart

LEMMA MailStep ==
    ASSUME AlertInv, MailInv, [Next]_vars
    PROVE  MailInv'
<1>1. ASSUME NEW h \in Listings, ListingStep(h) PROVE MailInv'
  BY <1>1, MailStepOfOne DEF MailInv
<1>2. ASSUME (\E e \in Employees : OwnPunch(e) \/ SendMessage(e)) \/ Tick \/ UNCHANGED vars
      PROVE  MailInv'
  <2>1. /\ overlaps' = overlaps /\ crashes' = crashes /\ (Alone => Alone')
        /\ \A h \in Listings : Kept(listing[h], listing'[h])
    BY <1>2, WorldStep
  <2>2. UNCHANGED <<mails, reports>>
    BY <1>2 DEF OwnPunch, SendMessage, Tick, vars, reportVars
  <2>3. \A h \in Listings : Slot(h)' = Slot(h) /\ (\A l : At(h, l)' <=> At(h, l))
    BY <2>1 DEF Kept, Slot, At
  <2>4. \A x : Accounted(x) => Accounted(x)'
    BY <2>2, <2>3 DEF Accounted
  <2>5. \A h \in Listings : Unreported(h) => Unreported(h)'
    BY <2>2, <2>3 DEF Unreported, Reported
  <2>6. MailsCounted => MailsCounted'
    BY <2>1, <2>2, <2>4, MailsKept
  <2> QED BY <2>1, <2>5, <2>6 DEF MailInv
<1>3. Acting \subseteq Employees
  BY AlertConstants
<1> QED BY <1>1, <1>2, <1>3 DEF Next, ListingStep

LEMMA MailInit == Init => MailInv
<1> SUFFICES ASSUME Init PROVE MailInv
  OBVIOUS
<1>1. \A h \in Listings : listing[h].pc = "idle"
  BY DEF Init, Idle
<1>2. crashes = 0 /\ \A x \in Days \X (1 .. Offices) : mails[x] = 0
  BY DEF Init
<1> QED BY <1>1, <1>2 DEF MailInv, MailsCounted, Alone, Unreported, At

(* As long as listings come one at a time, the owner gets the report of an  *)
(* evening and office once, and once more at most for each listing that     *)
(* died between the e-mail and the row that remembers it.                   *)
THEOREM EveningsMailedOnce == Spec => []OneMailPerEvening
<1>1. AlertInv /\ MailInv => OneMailPerEvening
  <2> SUFFICES ASSUME AlertInv, MailInv, ~(overlaps > 0)
               PROVE  \A x \in DOMAIN mails : mails[x] <= 1 + crashes
    BY DEF OneMailPerEvening
  <2>1. overlaps = 0 /\ crashes \in Nat /\ mails \in [Days \X (1 .. Offices) -> Nat]
    BY DEF AlertInv, TypeOK
  <2> QED BY <2>1 DEF MailInv, MailsCounted
<1>2. AlertInv /\ MailInv /\ [Next]_vars => MailInv'
  BY MailStep
<1> QED BY <1>1, <1>2, MailInit, AlertInvariant, PTL DEF Spec

----------------------------------------------------------------------------
(* The reminders of a day.                                                  *)

(* From when the reminder after k others may be written.                    *)
DueTime(e, k) == Start[e] + Grace + k * Interval

RemindersOn(l, d, e) ==
    {i \in DOMAIN l : l[i].kind = "REMINDER" /\ l[i].employee = e /\ Day(l[i].at) = d}

(* What a listing that is alone has found out of an employee stays true     *)
(* until it has dealt with him.                                             *)
Counted(r, e, l) ==
    /\ \A i \in DOMAIN l : l[i].kind = "REMINDER" /\ l[i].employee = e => l[i].at <= r.at
    /\ (r.pc # "snapshot" \/ "reminders" \in r.asked) =>
         r.count[e] = Cardinality(RemindersOn(l, Day(r.at), e))
    /\ r.pc # "snapshot" => Spent(r.count[e]) \/ Time(r.at) >= DueTime(e, r.count[e])

Reminding(r, n, l) ==
    r.pc \in Deciding =>
      /\ \A e \in r.todo : Time(r.at) >= DueTime(e, 0)
      /\ \A e \in r.todo : (r.pc = "clockIn" => e # r.subject) => Counted(r, e, l)
      /\ r.pc = "clockIn" => n >= MidnightOf(r.at) + DueTime(r.subject, MaxReminders - 1)

DaysReminders(n, l) ==
    /\ \A i \in DOMAIN l : l[i].at <= n
    /\ \A e \in Employees, d \in Days :
         /\ Cardinality(RemindersOn(l, d, e)) <= MaxReminders
         /\ Cardinality(RemindersOn(l, d, e)) >= 2 =>
              n >= DayLength * d + DueTime(e, Cardinality(RemindersOn(l, d, e)) - 1)

ReminderInv ==
    overlaps = 0 =>
      /\ Alone
      /\ DaysReminders(now, late)
      /\ \A h \in Listings : Reminding(listing[h], now, late)

LEMMA DueTimeType ==
    ASSUME NEW e \in Employees, NEW k \in Nat
    PROVE  DueTime(e, k) \in Nat
<1>1. k * Interval \in Nat
  BY AlertConstants
<1>2. Start[e] \in Nat /\ Grace \in Nat
  BY AlertConstants
<1> QED BY <1>1, <1>2 DEF DueTime

LEMMA DueAtOnce ==
    ASSUME NEW e \in Employees
    PROVE  DueTime(e, 0) = Start[e] + Grace
BY AlertConstants DEF DueTime

LEMMA DaysAndTimes ==
    ASSUME NEW t \in Instants
    PROVE  /\ Day(t) \in Days /\ Day(t) \in Nat /\ Time(t) \in Nat /\ MidnightOf(t) \in Nat
           /\ MidnightOf(t) = DayLength * Day(t) /\ t = MidnightOf(t) + Time(t)
<1>1. Day(t) \in Days /\ Day(t) \in Nat
  BY DayOfInstant
<1>2. t \in Nat /\ DayLength \in Nat /\ DayLength > 0
  BY AlertConstants DEF Instants
<1>3. t = DayLength * (t \div DayLength) + (t % DayLength) /\ t % DayLength \in Nat
  BY <1>2
<1>4. DayLength * Day(t) \in Nat
  BY <1>1, <1>2
<1> QED BY <1>1, <1>3, <1>4 DEF Day, Time, MidnightOf

LEMMA RemindersOnType ==
    ASSUME NEW l \in Seq(Notice), NEW d, NEW e
    PROVE  IsFiniteSet(RemindersOn(l, d, e)) /\ Cardinality(RemindersOn(l, d, e)) \in Nat
<1>1. IsFiniteSet(1 .. Len(l))
  BY FS_Interval
<1>2. RemindersOn(l, d, e) \subseteq 1 .. Len(l)
  BY DEF RemindersOn
<1> QED BY <1>1, <1>2, FS_Subset, FS_CardinalityType

LEMMA RemindersOnGrow ==
    ASSUME NEW l \in Seq(Notice), NEW n \in Notice, NEW d, NEW e
    PROVE  /\ n.kind = "REMINDER" /\ n.employee = e /\ Day(n.at) = d =>
                Cardinality(RemindersOn(Append(l, n), d, e))
                  = Cardinality(RemindersOn(l, d, e)) + 1
           /\ ~(n.kind = "REMINDER" /\ n.employee = e /\ Day(n.at) = d) =>
                RemindersOn(Append(l, n), d, e) = RemindersOn(l, d, e)
<1> DEFINE m == Append(l, n)
<1>1. m \in Seq(Notice) /\ Len(m) = Len(l) + 1 /\ m[Len(l) + 1] = n
      /\ \A i \in 1 .. Len(l) : m[i] = l[i]
  OBVIOUS
<1> HIDE DEF m
<1>2. ASSUME n.kind = "REMINDER", n.employee = e, Day(n.at) = d
      PROVE  Cardinality(RemindersOn(m, d, e)) = Cardinality(RemindersOn(l, d, e)) + 1
  <2>1. RemindersOn(m, d, e) = RemindersOn(l, d, e) \cup {Len(l) + 1}
    BY <1>1, <1>2 DEF RemindersOn
  <2>2. Len(l) + 1 \notin RemindersOn(l, d, e)
    BY DEF RemindersOn
  <2> QED BY <2>1, <2>2, RemindersOnType, FS_AddElement
<1>3. ASSUME ~(n.kind = "REMINDER" /\ n.employee = e /\ Day(n.at) = d)
      PROVE  RemindersOn(m, d, e) = RemindersOn(l, d, e)
  BY <1>1, <1>3 DEF RemindersOn
<1> QED BY <1>2, <1>3 DEF m

LEMMA CountedGrows ==
    ASSUME NEW l \in Seq(Notice), NEW n \in Notice, NEW r, NEW e, Counted(r, e, l),
           ~(n.kind = "REMINDER" /\ n.employee = e)
    PROVE  Counted(r, e, Append(l, n))
<1> DEFINE m == Append(l, n)
<1>1. m \in Seq(Notice) /\ Len(m) = Len(l) + 1 /\ m[Len(l) + 1] = n
      /\ \A i \in 1 .. Len(l) : m[i] = l[i]
  OBVIOUS
<1>2. RemindersOn(m, Day(r.at), e) = RemindersOn(l, Day(r.at), e)
  BY RemindersOnGrow
<1> HIDE DEF m
<1>3. \A i \in DOMAIN m : m[i].kind = "REMINDER" /\ m[i].employee = e => m[i].at <= r.at
  BY <1>1 DEF Counted
<1>4. Counted(r, e, m)
  BY <1>2, <1>3 DEF Counted
<1> QED BY <1>4 DEF m

LEMMA RemindingKept ==
    ASSUME NEW r \in Request, NEW s, Kept(r, s), NEW n \in Nat, NEW o \in Nat, n <= o,
           NEW l, Reminding(r, n, l), r.pc = "clockIn" => r.subject \in Employees
    PROVE  Reminding(s, o, l)
<1>1. r.at \in Instants
  BY DEF Request
<1>2. ASSUME r.pc = "clockIn"
      PROVE  o >= MidnightOf(r.at) + DueTime(r.subject, MaxReminders - 1)
  <2>1. MidnightOf(r.at) \in Nat /\ DueTime(r.subject, MaxReminders - 1) \in Nat
    BY <1>1, <1>2, DaysAndTimes, DueTimeType, AlertConstants
  <2>2. n >= MidnightOf(r.at) + DueTime(r.subject, MaxReminders - 1)
    BY <1>2 DEF Reminding, Deciding
  <2> QED BY <2>1, <2>2
<1> QED BY <1>2 DEF Reminding, Kept, Counted

LEMMA LatePhaseReminding ==
    ASSUME AlertInv, DaysReminders(now, late)
    PROVE  Reminding(LatePhase, now, late)
<1>1. LatePhase.pc # "snapshot" => Reminding(LatePhase, now, late)
  BY LatePhaseFields DEF Reminding, Deciding
<1>2. ASSUME LatePhase.pc = "snapshot"
      PROVE  Reminding(LatePhase, now, late)
  <2> DEFINE p == LatePhase
  <2>1. p.at = now /\ p.asked = {} /\ p.todo = {e \in Employees : Due(e, now)}
        /\ p.pc = "snapshot"
    BY <1>2, LatePhaseFields
  <2> HIDE DEF p
  <2>2. \A e \in p.todo : Time(p.at) >= DueTime(e, 0)
    BY <2>1, DueAtOnce DEF Due
  <2>3. \A e \in p.todo : Counted(p, e, late)
    BY <2>1 DEF Counted, DaysReminders
  <2>4. Reminding(p, now, late)
    BY <2>1, <2>2, <2>3 DEF Reminding
  <2> QED BY <2>4 DEF p
<1> QED BY <1>1, <1>2

(* The rows that the query for reminders counts are those of the day.       *)
LEMMA AllCounted ==
    ASSUME NEW l \in Seq(Notice), late = l, NEW t, NEW e,
           \A i \in DOMAIN l : l[i].kind = "REMINDER" /\ l[i].employee = e => l[i].at <= t
    PROVE  Reminders(t, e) = RemindersOn(l, Day(t), e)
BY DEF Reminders, RemindersOn

LEMMA AnsweredReminding ==
    ASSUME NEW r \in Request, r.pc = "snapshot", NEW q \in Queries, NEW n, NEW l,
           Reminding([r EXCEPT !.asked = @ \cup {q}], n, l)
    PROVE  Reminding(Answered(q, r), n, l)
<1> DEFINE k == [r EXCEPT !.asked = @ \cup {q}]
           s == Answered(q, r)
<1>1. AfterAnswer(k, s)
  BY AnsweredFields
<1>2. k \in Request /\ k.pc = "snapshot" /\ Reminding(k, n, l)
  BY DEF Request
<1> HIDE DEF k, s
<1>3. CASE s = k
  BY <1>2, <1>3 DEF s
<1>4. CASE s = ReportPhase
  <2>1. Reminding(s, n, l)
    BY <1>4, ReportPhaseFields DEF Reminding, Deciding
  <2> QED BY <2>1 DEF s
<1>5. CASE k.asked = Queries /\ s.pc = "lateLoop" /\ s.at = k.at
           /\ s.todo = Wanted(k) /\ s.count = k.count
  <2>1. Wanted(k) \subseteq k.todo
    BY DEF Wanted
  <2>2. \A e \in s.todo : Time(s.at) >= DueTime(e, 0)
    BY <1>2, <1>5, <2>1 DEF Reminding, Deciding
  <2>3. ASSUME NEW e \in s.todo PROVE Counted(s, e, l)
    <3>1. Counted(k, e, l)
      BY <1>2, <1>5, <2>1 DEF Reminding, Deciding
    <3>2. Spent(s.count[e]) \/ Time(s.at) >= DueTime(e, s.count[e])
      BY <1>5 DEF Wanted, DueTime
    <3> QED BY <3>1, <3>2, <1>5 DEF Counted, Queries
  <2>4. Reminding(s, n, l)
    BY <1>5, <2>2, <2>3 DEF Reminding
  <2> QED BY <2>4 DEF s
<1> QED BY <1>1, <1>3, <1>4, <1>5 DEF AfterAnswer

LEMMA QueriesReminding ==
    ASSUME AlertInv, NEW h \in Listings, Reminding(listing[h], now, late),
           ReadClockIns(h) \/ ReadReminders(h) \/ ReadLatestPunches(h)
    PROVE  Reminding(listing'[h], now, late)
<1> DEFINE r == listing[h]
           Asked(w, q) == [w EXCEPT !.asked = @ \cup {q}]
<1>1. /\ listing \in [Listings -> Request] /\ r \in Request /\ late \in Seq(Notice)
      /\ r.pc = "snapshot" /\ Reminding(r, now, late)
  BY DEF AlertInv, TypeOK, ReadClockIns, ReadReminders, ReadLatestPunches, At
<1>2. "ins" \in Queries /\ "reminders" \in Queries /\ "latest" \in Queries
  BY DEF Queries
<1>3. \A e \in r.todo : Time(r.at) >= DueTime(e, 0) /\ Counted(r, e, late)
  BY <1>1 DEF Reminding, Deciding
<1>4. CASE ReadClockIns(h)
  <2> DEFINE w == WithClockIns(r)
             k == Asked(w, "ins")
  <2>1. w \in Request /\ w.pc = "snapshot"
    BY <1>1, QueryTypes
  <2>2. /\ k.pc = "snapshot" /\ k.at = r.at /\ k.todo = r.todo /\ k.count = r.count
        /\ k.asked = r.asked \cup {"ins"}
    BY <1>1 DEF WithClockIns, Request
  <2>3. Reminding(k, now, late)
    <3> HIDE DEF k, r
    <3> QED BY <1>3, <2>2 DEF Reminding, Counted
  <2>4. Reminding(Answered("ins", w), now, late)
    <3> HIDE DEF w
    <3> QED BY <1>2, <2>1, <2>3, AnsweredReminding
  <2>5. listing'[h] = Answered("ins", w)
    BY <1>1, <1>4 DEF ReadClockIns
  <2> QED BY <2>4, <2>5
<1>5. CASE ReadLatestPunches(h)
  <2> DEFINE w == WithLatestPunches(r)
             k == Asked(w, "latest")
  <2>1. w \in Request /\ w.pc = "snapshot"
    BY <1>1, QueryTypes
  <2>2. /\ k.pc = "snapshot" /\ k.at = r.at /\ k.todo = r.todo /\ k.count = r.count
        /\ k.asked = r.asked \cup {"latest"}
    BY <1>1 DEF WithLatestPunches, Request
  <2>3. Reminding(k, now, late)
    <3> HIDE DEF k, r
    <3> QED BY <1>3, <2>2 DEF Reminding, Counted
  <2>4. Reminding(Answered("latest", w), now, late)
    <3> HIDE DEF w
    <3> QED BY <1>2, <2>1, <2>3, AnsweredReminding
  <2>5. listing'[h] = Answered("latest", w)
    BY <1>1, <1>5 DEF ReadLatestPunches
  <2> QED BY <2>4, <2>5
<1>6. CASE ReadReminders(h)
  <2> DEFINE w == WithReminders(r)
             k == Asked(w, "reminders")
  <2>1. w \in Request /\ w.pc = "snapshot"
    BY <1>1, QueryTypes
  <2>2. /\ k.pc = "snapshot" /\ k.at = r.at /\ k.todo = r.todo
        /\ k.asked = r.asked \cup {"reminders"}
        /\ k.count = [e \in Employees |->
                        IF e \in r.todo THEN Cardinality(Reminders(r.at, e)) ELSE 0]
    BY <1>1 DEF WithReminders, Request
  <2>3. \A e \in r.todo : k.count[e] = Cardinality(RemindersOn(late, Day(r.at), e))
    <3>1. r.todo \subseteq Employees
      BY <1>1 DEF Request
    <3> HIDE DEF k, r
    <3>2. TAKE e \in r.todo
    <3>3. k.count[e] = Cardinality(Reminders(r.at, e))
      BY <2>2, <3>1
    <3>4. \A i \in DOMAIN late : late[i].kind = "REMINDER" /\ late[i].employee = e =>
                                   late[i].at <= r.at
      BY <1>3 DEF Counted
    <3> QED BY <1>1, <3>3, <3>4, AllCounted
  <2>4. Reminding(k, now, late)
    <3> HIDE DEF k, r
    <3> QED BY <1>3, <2>2, <2>3 DEF Reminding, Counted
  <2>5. Reminding(Answered("reminders", w), now, late)
    <3> HIDE DEF w
    <3> QED BY <1>2, <2>1, <2>4, AnsweredReminding
  <2>6. listing'[h] = Answered("reminders", w)
    BY <1>1, <1>6 DEF ReadReminders
  <2> QED BY <2>5, <2>6
<1> QED BY <1>4, <1>5, <1>6

(* What is left of the list when an employee has been dealt with.           *)
LEMMA LeftOverReminding ==
    ASSUME NEW r \in Request, r.pc \in {"lateLoop", "clockIn"}, NEW e, NEW n, NEW l,
           \A x \in r.todo : Time(r.at) >= DueTime(x, 0),
           \A x \in r.todo \ {e} : Counted(r, x, l),
           NEW p, LeftOver(r, "lateLoop", e, ReportPhase, p)
    PROVE  Reminding(p, n, l)
<1>1. CASE p = ReportPhase
  BY <1>1, ReportPhaseFields DEF Reminding, Deciding
<1>2. CASE /\ p.pc = "lateLoop" /\ p.at = r.at /\ p.count = r.count /\ p.asked = r.asked
           /\ p.todo = r.todo \ {e}
  BY <1>2 DEF Reminding, Counted
<1> QED BY <1>1, <1>2 DEF LeftOver

LEMMA RemindReminding ==
    ASSUME AlertInv, NEW h \in Listings, NEW e \in Employees, Remind(h, e),
           Reminding(listing[h], now, late), DaysReminders(now, late)
    PROVE  DaysReminders(now, late') /\ Reminding(listing'[h], now, late')
<1> DEFINE r == listing[h]
           n == [kind |-> "REMINDER", employee |-> e, at |-> now]
           l == Append(late, n)
           c == r.count[e]
           d == Day(now)
           p == Proceed(r, e, ReportPhase)
           s == [r EXCEPT !.subject = e, !.pc = "clockIn"]
<1>1. /\ now \in Instants /\ now \in Nat /\ late \in Seq(Notice) /\ r \in Request
      /\ listing \in [Listings -> Request] /\ r.pc = "lateLoop" /\ e \in r.todo
      /\ r.at \in Instants /\ r.at \in Nat /\ r.at <= now /\ ~Spent(c) /\ c \in Nat
      /\ r.todo \subseteq Employees
  <2>1. TypeOK /\ Good(r, now, late, came, last)
    BY DEF AlertInv, AllGood
  <2>2. now \in Instants /\ late \in Seq(Notice) /\ r \in Request
        /\ listing \in [Listings -> Request]
    BY <2>1 DEF TypeOK
  <2>3. r.pc = "lateLoop" /\ e \in r.todo /\ ~Spent(c)
    BY DEF Remind, At
  <2>4. r.at \in Instants /\ r.count \in [Employees -> Nat] /\ r.todo \subseteq Employees
    BY <2>2 DEF Request
  <2> HIDE DEF r
  <2> QED BY <2>1, <2>2, <2>3, <2>4 DEF Good, Instants
<1>2. /\ \A x \in r.todo : Time(r.at) >= DueTime(x, 0) /\ Counted(r, x, late)
  BY <1>1 DEF Reminding, Deciding
<1>3. /\ late' = l /\ listing'[h] = IF Spent(c + 1) THEN s ELSE p
  BY <1>1 DEF Remind
<1>4. n \in Notice /\ n.kind = "REMINDER" /\ n.employee = e /\ n.at = now
  BY <1>1 DEF Notice, Kinds
<1>5. /\ s.pc = "clockIn" /\ s.at = r.at /\ s.todo = r.todo /\ s.count = r.count
      /\ s.asked = r.asked /\ s.subject = e
  BY <1>1 DEF Request
<1>6. LeftOver(r, "lateLoop", e, ReportPhase, p)
  <2>1. [r EXCEPT !.pc = "lateLoop"] = r
    BY <1>1, SamePc
  <2>2. LeftOver(r, "lateLoop", e, ReportPhase, Proceed([r EXCEPT !.pc = "lateLoop"], e, ReportPhase))
    BY <1>1, ProceedFields
  <2> QED BY <2>1, <2>2
<1>7. l \in Seq(Notice) /\ Len(l) = Len(late) + 1 /\ l[Len(late) + 1] = n
      /\ \A i \in 1 .. Len(late) : l[i] = late[i]
  <2> HIDE DEF n
  <2> QED BY <1>1, <1>4
<1> HIDE DEF r, n, s, p
<1>8. \A x \in r.todo \ {e} : Counted(r, x, l)
  BY <1>1, <1>2, <1>4, CountedGrows
<1>9. /\ c = Cardinality(RemindersOn(late, Day(r.at), e))
      /\ c < MaxReminders /\ Time(r.at) >= DueTime(e, c)
  BY <1>1, <1>2, AlertConstants DEF Counted, Spent
<1>10. /\ now >= MidnightOf(r.at) + DueTime(e, c)
       /\ DayLength * Day(r.at) = MidnightOf(r.at) /\ Day(r.at) \in Nat /\ d \in Nat /\ d \in Days
       /\ Day(r.at) <= d
  <2>1. /\ r.at = MidnightOf(r.at) + Time(r.at) /\ MidnightOf(r.at) \in Nat
        /\ Time(r.at) \in Nat /\ DueTime(e, c) \in Nat /\ Day(r.at) \in Nat
        /\ d \in Nat /\ d \in Days /\ MidnightOf(r.at) = DayLength * Day(r.at)
    BY <1>1, DaysAndTimes, DueTimeType
  <2>2. Day(r.at) <= d
    BY <1>1, DayIsMonotone
  <2> QED BY <2>1, <2>2, <1>1, <1>9
<1>11. Cardinality(RemindersOn(l, d, e)) = Cardinality(RemindersOn(late, d, e)) + 1
  BY <1>1, <1>4, RemindersOnGrow
<1>12. ASSUME NEW x \in Employees, NEW y \in Days, ~(x = e /\ y = d)
       PROVE  RemindersOn(l, y, x) = RemindersOn(late, y, x)
  BY <1>1, <1>4, <1>12, RemindersOnGrow
<1>13. \A i \in DOMAIN late : late[i].kind = "REMINDER" /\ late[i].employee = e => late[i].at <= r.at
  BY <1>1, <1>2 DEF Counted
<1> HIDE DEF l, d
<1>14. /\ Cardinality(RemindersOn(l, d, e)) <= MaxReminders
       /\ Cardinality(RemindersOn(l, d, e)) >= 2 =>
            now >= DayLength * d + DueTime(e, Cardinality(RemindersOn(l, d, e)) - 1)
  <2>1. CASE d = Day(r.at)
    <3>1. Cardinality(RemindersOn(l, d, e)) = c + 1
      BY <1>9, <1>11, <2>1
    <3> DEFINE k == Cardinality(RemindersOn(l, d, e))
    <3>2. k <= MaxReminders /\ k - 1 = c
      BY <1>1, <1>9, <3>1, AlertConstants
    <3>3. DueTime(e, k - 1) = DueTime(e, c)
      BY <3>2
    <3>4. now >= DayLength * d + DueTime(e, c)
      BY <1>10, <2>1
    <3> QED BY <3>2, <3>3, <3>4
  <2>2. CASE d # Day(r.at)
    <3>1. ASSUME NEW i \in RemindersOn(late, d, e) PROVE FALSE
      <4>1. late[i] \in Notice /\ late[i].at <= r.at /\ Day(late[i].at) = d
        BY <1>1, <1>13 DEF RemindersOn
      <4>2. late[i].at \in Nat
        BY <4>1 DEF Notice, Instants
      <4>3. d <= Day(r.at)
        BY <4>1, <4>2, <1>1, DayIsMonotone
      <4> QED BY <4>3, <2>2, <1>10
    <3>2. RemindersOn(late, d, e) = {}
      BY <3>1
    <3>3. Cardinality(RemindersOn(l, d, e)) = 1
      BY <3>2, <1>11, FS_EmptySet
    <3> QED BY <3>3, AlertConstants
  <2> QED BY <2>1, <2>2
<1>15. DaysReminders(now, l)
  <2>1. \A i \in DOMAIN l : l[i].at <= now
    BY <1>1, <1>4, <1>7 DEF DaysReminders
  <2>2. ASSUME NEW x \in Employees, NEW y \in Days
        PROVE  /\ Cardinality(RemindersOn(l, y, x)) <= MaxReminders
               /\ Cardinality(RemindersOn(l, y, x)) >= 2 =>
                    now >= DayLength * y + DueTime(x, Cardinality(RemindersOn(l, y, x)) - 1)
    <3>1. CASE x = e /\ y = d
      BY <3>1, <1>14
    <3>2. CASE ~(x = e /\ y = d)
      BY <3>2, <1>12 DEF DaysReminders
    <3> QED BY <3>1, <3>2
  <2> QED BY <2>1, <2>2 DEF DaysReminders
<1>16. ASSUME Spent(c + 1)
       PROVE  Reminding(s, now, l)
  <2>1. c = MaxReminders - 1
    BY <1>1, <1>9, <1>16, AlertConstants DEF Spent
  <2>2. now >= MidnightOf(s.at) + DueTime(s.subject, MaxReminders - 1)
    BY <1>5, <1>10, <2>1
  <2>3. ASSUME NEW x \in s.todo, x # s.subject PROVE Counted(s, x, l)
    <3>1. Counted(r, x, l)
      BY <2>3, <1>5, <1>8
    <3> QED BY <3>1, <1>1, <1>5 DEF Counted
  <2> QED BY <1>2, <1>5, <2>2, <2>3 DEF Reminding
<1>17. Reminding(p, now, l)
  BY <1>1, <1>2, <1>6, <1>8, LeftOverReminding
<1> QED BY <1>3, <1>15, <1>16, <1>17

LEMMA GiveUpReminding ==
    ASSUME AlertInv, NEW h \in Listings, NEW e \in Employees, GiveUp(h, e),
           Reminding(listing[h], now, late), DaysReminders(now, late)
    PROVE  Reminding(listing'[h], now, late)
<1> DEFINE r == listing[h]
           s == [r EXCEPT !.subject = e, !.pc = "clockIn"]
           c == r.count[e]
<1>1. /\ now \in Instants /\ now \in Nat /\ late \in Seq(Notice) /\ r \in Request
      /\ listing \in [Listings -> Request] /\ r.pc = "lateLoop" /\ e \in r.todo
      /\ r.at \in Instants /\ r.at \in Nat /\ r.at <= now /\ Spent(c) /\ c \in Nat
      /\ r.todo \subseteq Employees
  <2>1. TypeOK /\ Good(r, now, late, came, last)
    BY DEF AlertInv, AllGood
  <2>2. now \in Instants /\ late \in Seq(Notice) /\ r \in Request
        /\ listing \in [Listings -> Request]
    BY <2>1 DEF TypeOK
  <2>3. r.pc = "lateLoop" /\ e \in r.todo /\ Spent(c)
    BY DEF GiveUp, At
  <2>4. r.at \in Instants /\ r.count \in [Employees -> Nat] /\ r.todo \subseteq Employees
    BY <2>2 DEF Request
  <2> HIDE DEF r
  <2> QED BY <2>1, <2>2, <2>3, <2>4 DEF Good, Instants
<1>2. \A x \in r.todo : Time(r.at) >= DueTime(x, 0) /\ Counted(r, x, late)
  BY <1>1 DEF Reminding, Deciding
<1>3. /\ listing'[h] = s
      /\ s.pc = "clockIn" /\ s.at = r.at /\ s.todo = r.todo /\ s.count = r.count
      /\ s.asked = r.asked /\ s.subject = e
  BY <1>1 DEF GiveUp, Request
<1> HIDE DEF r, s
<1>4. /\ MidnightOf(r.at) = DayLength * Day(r.at) /\ r.at = MidnightOf(r.at) + Time(r.at)
      /\ MidnightOf(r.at) \in Nat /\ Time(r.at) \in Nat /\ Day(r.at) \in Days
  BY <1>1, DaysAndTimes
<1>5. c = Cardinality(RemindersOn(late, Day(r.at), e))
  BY <1>1, <1>2 DEF Counted
<1>6. c = MaxReminders
  <2>1. c <= MaxReminders
    BY <1>1, <1>4, <1>5 DEF DaysReminders
  <2> QED BY <2>1, <1>1, AlertConstants DEF Spent
<1>7. now >= MidnightOf(r.at) + DueTime(e, MaxReminders - 1)
  <2>1. CASE MaxReminders = 1
    <3>1. Time(r.at) >= DueTime(e, 0) /\ DueTime(e, 0) \in Nat
      BY <1>1, <1>2, DueTimeType
    <3>2. now >= MidnightOf(r.at) + DueTime(e, 0)
      BY <3>1, <1>1, <1>4
    <3>3. MaxReminders - 1 = 0
      BY <2>1
    <3> QED BY <3>2, <3>3
  <2>2. CASE MaxReminders # 1
    <3>1. c >= 2
      BY <1>6, <2>2, AlertConstants
    <3>2. now >= DayLength * Day(r.at) + DueTime(e, c - 1)
      BY <1>1, <1>4, <1>5, <3>1 DEF DaysReminders
    <3> HIDE DEF c
    <3> QED BY <3>2, <1>4, <1>6
  <2> QED BY <2>1, <2>2
<1>8. ASSUME NEW x \in s.todo PROVE Counted(s, x, late)
  <2>1. Counted(r, x, late)
    BY <1>8, <1>2, <1>3
  <2> QED BY <2>1, <1>1, <1>3 DEF Counted
<1> QED BY <1>2, <1>3, <1>7, <1>8 DEF Reminding

LEMMA ClockInReminding ==
    ASSUME AlertInv, NEW h \in Listings, ClockIn(h), Reminding(listing[h], now, late)
    PROVE  Reminding(listing'[h], now, late)
<1> DEFINE r == listing[h]
           p == Proceed([r EXCEPT !.pc = "lateLoop"], r.subject, ReportPhase)
<1>1. r \in Request /\ r.pc = "clockIn" /\ Kept(p, listing'[h])
  BY ClockInFields
<1>2. LeftOver(r, "lateLoop", r.subject, ReportPhase, p)
  BY <1>1, ProceedFields
<1>3. /\ \A x \in r.todo : Time(r.at) >= DueTime(x, 0)
      /\ \A x \in r.todo \ {r.subject} : Counted(r, x, late)
  BY <1>1 DEF Reminding, Deciding
<1> HIDE DEF r, p
<1>4. Reminding(p, now, late)
  BY <1>1, <1>2, <1>3, LeftOverReminding
<1>5. p.pc # "clockIn"
  BY <1>2, ReportPhaseFields DEF LeftOver
<1> QED BY <1>1, <1>4, <1>5 DEF Kept, Reminding, Counted

LEMMA ReminderStepOfOne ==
    ASSUME AlertInv, ReminderInv, NEW h \in Listings, ListingStep(h), overlaps' = 0
    PROVE  /\ Alone' /\ DaysReminders(now, late)'
           /\ \A g \in Listings : Reminding(listing[g], now, late)'
<1>1. /\ overlaps = 0 /\ Alone /\ Alone'
      /\ \A g \in Listings \ {h} : At(g, "idle")'
  BY OthersIdle DEF ReminderInv
<1>2. /\ DaysReminders(now, late) /\ Reminding(listing[h], now, late)
      /\ listing \in [Listings -> Request] /\ listing[h] \in Request
  BY <1>1 DEF ReminderInv, AlertInv, TypeOK
<1>3. ASSUME Reminding(listing'[h], now', late')
      PROVE  \A g \in Listings : Reminding(listing'[g], now', late')
  <2> TAKE g \in Listings
  <2>1. CASE g = h
    BY <2>1, <1>3
  <2>2. CASE g # h
    BY <2>2, <1>1 DEF Reminding, Deciding, At
  <2> QED BY <2>1, <2>2
<1>4. ASSUME Begin(h) \/ BreakPart(h)
      PROVE  UNCHANGED <<now, late>> /\ Reminding(listing'[h], now, late)
  <2>1. Reminding(LatePhase, now, late)
    BY <1>2, LatePhaseReminding
  <2>2. CASE Begin(h)
    <3> DEFINE o == {e \in Employees : Overdue(e, now)}
               s == [e \in Employees |-> IF e \in o THEN last[e].at ELSE 0]
               r == [Idle EXCEPT !.pc = "alertLoop", !.at = now, !.todo = o, !.since = s]
    <3>1. listing'[h] = LatePhase \/ listing'[h] = r
      BY <1>2, <2>2 DEF Begin
    <3>2. UNCHANGED <<now, late>>
      BY <2>2 DEF Begin
    <3>3. r.pc = "alertLoop"
      <4> HIDE DEF o, s
      <4> QED BY IdleFields DEF Request
    <3> HIDE DEF r
    <3>4. Reminding(r, now, late)
      BY <3>3 DEF Reminding, Deciding
    <3> QED BY <3>1, <3>2, <3>4, <2>1
  <2>3. ASSUME NEW e \in Employees, FindAlert(h, e)
        PROVE  UNCHANGED <<now, late>> /\ Reminding(listing'[h], now, late)
    <3> DEFINE p == Proceed(listing[h], e, LatePhase)
               s == [listing[h] EXCEPT !.subject = e, !.pc = "alert"]
    <3>1. /\ listing[h].pc = "alertLoop" /\ UNCHANGED <<now, late>>
          /\ listing'[h] = p \/ listing'[h] = s
      BY <1>2, <2>3 DEF FindAlert, At
    <3>2. LeftOver(listing[h], "alertLoop", e, LatePhase, p)
      <4>1. [listing[h] EXCEPT !.pc = "alertLoop"] = listing[h]
        BY <1>2, <3>1, SamePc
      <4>2. LeftOver(listing[h], "alertLoop", e, LatePhase,
                     Proceed([listing[h] EXCEPT !.pc = "alertLoop"], e, LatePhase))
        BY <1>2, ProceedFields
      <4> QED BY <4>1, <4>2
    <3>3. s.pc = "alert"
      BY <1>2 DEF Request
    <3> HIDE DEF p, s
    <3>4. Reminding(s, now, late)
      BY <3>3 DEF Reminding, Deciding
    <3>5. CASE p.pc = "alertLoop"
      BY <3>1, <3>4, <3>5 DEF Reminding, Deciding
    <3>6. CASE p = LatePhase
      BY <3>1, <3>4, <3>6, <2>1
    <3> QED BY <3>2, <3>5, <3>6 DEF LeftOver
  <2>4. ASSUME CreateAlert(h)
        PROVE  UNCHANGED <<now, late>> /\ Reminding(listing'[h], now, late)
    <3> DEFINE p == Proceed([listing[h] EXCEPT !.pc = "alertLoop"], listing[h].subject, LatePhase)
    <3>1. listing'[h] = p /\ UNCHANGED <<now, late>>
      BY <1>2, <2>4 DEF CreateAlert
    <3>2. LeftOver(listing[h], "alertLoop", listing[h].subject, LatePhase, p)
      BY <1>2, ProceedFields
    <3> HIDE DEF p
    <3>3. CASE p.pc = "alertLoop"
      BY <3>1, <3>3 DEF Reminding, Deciding
    <3>4. CASE p = LatePhase
      BY <3>1, <3>4, <2>1
    <3> QED BY <3>2, <3>3, <3>4 DEF LeftOver
  <2> QED BY <1>4, <2>2, <2>3, <2>4 DEF BreakPart
<1>5. ASSUME ReadClockIns(h) \/ ReadReminders(h) \/ ReadLatestPunches(h) \/ ClockIn(h)
             \/ \E e \in Employees : GiveUp(h, e)
      PROVE  UNCHANGED <<now, late>> /\ Reminding(listing'[h], now, late)
  <2>1. UNCHANGED <<now, late>>
    BY <1>5 DEF ReadClockIns, ReadReminders, ReadLatestPunches, ClockIn, GiveUp
  <2> QED BY <1>2, <1>5, <2>1, QueriesReminding, ClockInReminding, GiveUpReminding
<1>6. ASSUME ReportPart(h) \/ Die(h)
      PROVE  UNCHANGED <<now, late>> /\ Reminding(listing'[h], now, late)
  <2>1. UNCHANGED <<now, late>>
    BY <1>6 DEF ReportPart, FindReport, SendMail, WriteReport, Die
  <2>2. listing'[h].pc \notin Deciding
    BY <1>6, ReportPartPc DEF Deciding
  <2> QED BY <2>1, <2>2 DEF Reminding
<1>7. ASSUME NEW e \in Employees, Remind(h, e)
      PROVE  /\ now' = now /\ DaysReminders(now, late') /\ Reminding(listing'[h], now, late')
  BY <1>2, <1>7, RemindReminding DEF Remind
<1>8. CASE \E e \in Employees : Remind(h, e)
  BY <1>1, <1>3, <1>7, <1>8
<1>9. CASE ~\E e \in Employees : Remind(h, e)
  <2>1. UNCHANGED <<now, late>> /\ Reminding(listing'[h], now, late)
    BY <1>4, <1>5, <1>6, <1>9 DEF ListingStep, LatePart
  <2> QED BY <1>1, <1>2, <1>3, <2>1
<1> QED BY <1>8, <1>9

(* A message of a manager is no reminder, and time only helps.              *)
LEMMA MessageReminding ==
    ASSUME AlertInv, NEW e \in Employees, SendMessage(e), DaysReminders(now, late)
    PROVE  /\ DaysReminders(now, late')
           /\ \A r : Reminding(r, now, late) => Reminding(r, now, late')
<1> DEFINE n == [kind |-> "MESSAGE", employee |-> e, at |-> now]
           l == Append(late, n)
<1>1. now \in Instants /\ now \in Nat /\ late \in Seq(Notice) /\ late' = l
  BY DEF AlertInv, TypeOK, SendMessage, Instants
<1>2. n \in Notice /\ n.kind # "REMINDER" /\ n.at = now
  BY <1>1 DEF Notice, Kinds
<1> HIDE DEF n
<1>3. l \in Seq(Notice) /\ Len(l) = Len(late) + 1 /\ l[Len(late) + 1] = n
      /\ \A i \in 1 .. Len(late) : l[i] = late[i]
  BY <1>1, <1>2
<1>4. \A d, x : RemindersOn(l, d, x) = RemindersOn(late, d, x)
  BY <1>1, <1>2, RemindersOnGrow
<1>5. \A r, x : Counted(r, x, late) => Counted(r, x, l)
  BY <1>1, <1>2, CountedGrows
<1> HIDE DEF l
<1>6. \A i \in DOMAIN l : l[i].at <= now
  BY <1>1, <1>2, <1>3 DEF DaysReminders
<1>7. DaysReminders(now, l)
  BY <1>4, <1>6 DEF DaysReminders
<1>8. \A r : Reminding(r, now, late) => Reminding(r, now, l)
  BY <1>5 DEF Reminding
<1> QED BY <1>1, <1>7, <1>8

LEMMA LaterReminding ==
    ASSUME NEW n \in Nat, NEW l \in Seq(Notice), DaysReminders(n, l)
    PROVE  DaysReminders(n + 1, l)
<1>1. ASSUME NEW i \in DOMAIN l PROVE l[i].at <= n + 1
  <2>1. l[i] \in Notice /\ l[i].at <= n
    BY DEF DaysReminders
  <2> QED BY <2>1 DEF Notice, Instants
<1>2. ASSUME NEW e \in Employees, NEW d \in Days,
             Cardinality(RemindersOn(l, d, e)) >= 2
      PROVE  n + 1 >= DayLength * d + DueTime(e, Cardinality(RemindersOn(l, d, e)) - 1)
  <2> DEFINE k == Cardinality(RemindersOn(l, d, e))
             t == DueTime(e, k - 1)
  <2>1. k \in Nat /\ k >= 2 /\ k - 1 \in Nat
    BY <1>2, RemindersOnType
  <2> HIDE DEF k
  <2>2. t \in Nat /\ DayLength * d \in Nat
    BY SMTT(30), <2>1, DueTimeType, AlertConstants DEF Days
  <2>3. n >= DayLength * d + t
    BY <1>2 DEF DaysReminders, k
  <2> HIDE DEF t
  <2>4. n + 1 >= DayLength * d + t
    BY <2>2, <2>3
  <2> QED BY <2>4 DEF t, k
<1> QED BY <1>1, <1>2 DEF DaysReminders

LEMMA ReminderStep ==
    ASSUME AlertInv, ReminderInv, [Next]_vars
    PROVE  ReminderInv'
<1>0. now \in Nat /\ late \in Seq(Notice) /\ listing \in [Listings -> Request]
  BY DEF AlertInv, TypeOK, Instants
<1>1. ASSUME NEW h \in Listings, ListingStep(h) PROVE ReminderInv'
  BY <1>1, ReminderStepOfOne DEF ReminderInv
<1>2. ASSUME (\E e \in Employees : OwnPunch(e) \/ SendMessage(e)) \/ Tick \/ UNCHANGED vars
      PROVE  ReminderInv'
  <2>1. /\ overlaps' = overlaps /\ (Alone => Alone')
        /\ \A h \in Listings : Kept(listing[h], listing'[h])
    BY <1>2, WorldStep
  <2>2. SUFFICES ASSUME overlaps = 0
                 PROVE  /\ DaysReminders(now, late)'
                        /\ \A h \in Listings : Reminding(listing[h], now, late)'
    BY <2>1 DEF ReminderInv
  <2>3. DaysReminders(now, late) /\ \A h \in Listings : Reminding(listing[h], now, late)
    BY <2>2 DEF ReminderInv
  <2>4. ASSUME NEW h \in Listings, listing[h].pc = "clockIn"
        PROVE  listing[h].subject \in Employees
    <3>1. Good(listing[h], now, late, came, last) /\ listing[h].todo \subseteq Employees
      BY <1>0 DEF AlertInv, AllGood, Request
    <3> QED BY <2>4, <3>1 DEF Good
  <2>5. CASE \E e \in Employees : SendMessage(e)
    <3>1. /\ DaysReminders(now, late')
          /\ \A r : Reminding(r, now, late) => Reminding(r, now, late')
      BY <2>3, <2>5, MessageReminding
    <3>2. now' = now /\ listing' = listing
      BY <2>5 DEF SendMessage
    <3> QED BY <2>3, <3>1, <3>2
  <2>6. CASE ~\E e \in Employees : SendMessage(e)
    <3>1. late' = late /\ (now' = now \/ now' = now + 1)
      BY <1>2, <2>6 DEF OwnPunch, Tick, vars
    <3>2. DaysReminders(now, late)'
      BY <1>0, <2>3, <3>1, LaterReminding
    <3>3. now' \in Nat /\ now <= now'
      BY <1>0, <3>1
    <3>4. ASSUME NEW h \in Listings PROVE Reminding(listing'[h], now', late)
      BY <1>0, <2>1, <2>3, <2>4, <3>3, RemindingKept
    <3> QED BY <3>1, <3>2, <3>4
  <2> QED BY <2>5, <2>6
<1>3. Acting \subseteq Employees
  BY AlertConstants
<1> QED BY <1>1, <1>2, <1>3 DEF Next, ListingStep

LEMMA ReminderInit == Init => ReminderInv
<1> SUFFICES ASSUME Init PROVE ReminderInv
  OBVIOUS
<1>1. \A h \in Listings : listing[h].pc = "idle"
  BY DEF Init, Idle
<1>2. late = <<>> /\ now = 0
  BY DEF Init
<1>3. \A d, e : RemindersOn(late, d, e) = {}
  BY <1>2 DEF RemindersOn
<1>4. \A d, e : Cardinality(RemindersOn(late, d, e)) = 0
  BY <1>3, FS_EmptySet
<1>5. DaysReminders(now, late)
  BY <1>2, <1>4, AlertConstants DEF DaysReminders
<1> QED BY <1>1, <1>5 DEF ReminderInv, Reminding, Deciding, Alone, At

----------------------------------------------------------------------------
(* What the reminders promise when listings come one at a time.             *)

(* What a listing that is alone knows of the reminders is still true when   *)
(* it writes the next one.                                                  *)
THEOREM RemindersAreCounted == Spec => []ReminderInv
<1>1. AlertInv /\ ReminderInv /\ [Next]_vars => ReminderInv'
  BY ReminderStep
<1> QED BY <1>1, ReminderInit, AlertInvariant, PTL DEF Spec

(* Nobody is reminded more often than three times a day, whatever listing   *)
(* has died in between, and across midnight too.                            *)
THEOREM RemindedThrice == Spec => []RemindersEnd
<1>1. AlertInv /\ ReminderInv => RemindersEnd
  <2> SUFFICES ASSUME AlertInv, ReminderInv, ~(overlaps > 0),
                      NEW e \in Employees, NEW t \in Instants
               PROVE  Cardinality({i \in DOMAIN late : /\ late[i].kind = "REMINDER"
                                                       /\ late[i].employee = e
                                                       /\ Day(late[i].at) = Day(t)})
                        <= MaxReminders
    BY DEF RemindersEnd
  <2>1. overlaps = 0
    BY DEF AlertInv, TypeOK
  <2>2. Cardinality(RemindersOn(late, Day(t), e)) <= MaxReminders
    BY <2>1, DayOfInstant DEF ReminderInv, DaysReminders
  <2> QED BY <2>2 DEF RemindersOn
<1> QED BY <1>1, RemindersAreCounted, AlertInvariant, PTL

(* The automatic clock-in comes no earlier than grace and all but one of    *)
(* the intervals after the start of the shift.                              *)
THEOREM ClockedInNoEarlier == Spec => NotClockedInEarly
<1>1. AlertInv /\ ReminderInv =>
        [\A h \in Listings, e \in Employees :
           ClocksIn(h, e) /\ overlaps = 0 =>
             now >= MidnightOf(listing[h].at) + Start[e] + Grace
                      + (MaxReminders - 1) * Interval]_vars
  <2> SUFFICES ASSUME AlertInv, ReminderInv, NEW h \in Listings, NEW e \in Employees,
                      ClocksIn(h, e), overlaps = 0
               PROVE  now >= MidnightOf(listing[h].at) + Start[e] + Grace
                               + (MaxReminders - 1) * Interval
    OBVIOUS
  <2>1. listing[h].pc = "clockIn" /\ listing[h].subject = e /\ listing[h] \in Request
    BY DEF ClocksIn, Leaves, AlertInv, TypeOK
  <2>2. now >= MidnightOf(listing[h].at) + DueTime(e, MaxReminders - 1)
    BY <2>1 DEF ReminderInv, Reminding, Deciding
  <2>3. MidnightOf(listing[h].at) \in Nat
    BY <2>1, DaysAndTimes DEF Request
  <2>4. (MaxReminders - 1) * Interval \in Nat /\ Start[e] \in Nat /\ Grace \in Nat
    BY AlertConstants
  <2> QED BY <2>2, <2>3, <2>4 DEF DueTime
<1> QED BY <1>1, RemindersAreCounted, AlertInvariant, PTL DEF NotClockedInEarly
=============================================================================
