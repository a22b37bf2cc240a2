# ClockIn: the employee time clock in TLA+

A formal model of the multi-tenant employee time clock in this repository. TLA+
modules describe its punch service, schedule overrides and sweeps, the reports
over the punches, the employees' device, the supplier orders, and what deletes
data. TLC checks them on small instances; of every safety property that a passing run
checks, TLAPS checks a proof for every value of the constants.

## The system

`apps/api` is a NestJS service over PostgreSQL (through Prisma). The web
application (`apps/web`), the tablet and phone application (`apps/mobile`) and
the administrator's application (`apps/mobile-admin`) are its clients. All of
the API's state is in the database; its process keeps nothing between requests.
Each request is served by an async method, one awaited statement after another;
only the order merge, the two deletions, the replacement of a schedule, the
correction of a shift and the editing of an account use a transaction. So what
is hard here is not an algorithm but what happens *between two statements*:
another request runs, a transaction commits, the process dies, midnight passes.
The device adds a second hazard: it decides by what it remembers, and its
answers get lost.

| component (under `apps/api/src`) | state | operations | what makes it correct |
|---|---|---|---|
| employee-punches | EmployeePunch, ScheduleOverrideRequest | createPunch, approve / reject, createManual, updateRecord, deleteRecord, getRecent with its sweep | no second shift, off-schedule clock-ins approved, approvals used once, strikes numbered by week |
| notifications | Notification | notifyPunch, override notices, manager messages, marking as read; break alerts, late reminders with an automatic clock-in, the owner's e-mail | notices agree with requests, messages shown once and in order, three reminders before an automatic clock-in, one alert, one e-mail |
| employee-tips | EmployeeTip | submitTip | one row per day, in the window, before the server leaves |
| employee-schedules | EmployeeSchedule | updateSchedule | the week is replaced as a whole |
| employees | Employee | create, update, soft delete, restore, permanent delete | an active employee is erased only if he was restored meanwhile; what refers to him is cleared first |
| company-orders | CompanyOrder and its items, catalogue | createOrder (merges the week's submissions), updateCatalog | no quantity lost or counted twice |
| tenancy | Tenant, User, Membership | requireTenantAndUser, resolveAdminAccess, features | a late request does not bring a tenant's data back |
| tenant-accounts, tenant-directory | Tenant and all its rows | provisioning, disabling, deletion with its report, lookup | no data deleted unseen, none left |
| offices, settings, groups, statuses, admin-devices | one row each | CRUD | limit of one office, one settings row |
| reports | none | hours, payroll, tips, sales, expenses | hours are hours worked; payroll does not depend on the range |
| punches | Punch (older API) | create, recent | - |
| `apps/mobile` | session, stored shift, submitted tips, order draft | handlePunch, handleSubmitTips, order submission | the device believes only what the API has |
| `apps/mobile-admin`, `apps/web` | drafts, lists | the administrators' pages | - |

Interaction: `createPunch` and `resolveScheduleOverride` call the notification
service (`notifyPunch`, `notifyScheduleOverrideRequested`,
`consumeManagerMessageForEmployee`); `getRecent` first runs
`ensureOperationalAlerts` and `autoClockOutAfterSchedule`, so *listing* the
punches writes punches: nothing runs on a timer. Punches, tips, schedules and
requests are shared tables that all of these read and write; reports read the
punches; every request first upserts its tenant, its user and its membership,
and a deletion takes all but the user away; a device knows the API only through
its answers.

`PROJECT.json` lists every component with its status and every hazard at its
line, with the properties that would catch it.

## Modules

| module | what it is |
|---|---|
| `TimeClock` | constants with their assumptions, the tables of the time clock, the calendar, the queries, the pool of handlers |
| `PunchClock` | `createPunch`, override requests and their resolution, the administrator's edits, tips, schedules, messages; `Spec`, `FairSpec`, properties |
| `AutoClockOut` | the sweep `autoClockOutAfterSchedule` |
| `Attendance` | both together (`AttendanceSpec`, `AttendanceFairSpec`), the inductive invariant `IInv`, properties of the composition |
| `PunchLedger` | abstract specification: every punch is one indivisible entry justified by the tables at that moment |
| `HoursReport` | pure: `getPunchContext`, `buildDailySummary`, the weeks and the pay of `getPayrollReport`, over the punches of `TimeClock` |
| `OperationalAlerts` | `ensureOperationalAlerts`: break alerts, late reminders and automatic clock-in, the owner's report, in overlapping listings |
| `CompanyOrders` | `createOrder` as statements of READ COMMITTED transactions, `updateCatalog` |
| `OrderClients` | the devices that submit orders, composed with `CompanyOrders` |
| `Kiosk` | `handlePunch` and `handleSubmitTips` of the employees' app over the API, its memory and its disk, lost answers and restarts |
| `TenantData` | deletion of tenants and employees, the requests they run into with their users, and the disabling of a tenant |
| `MCAttendance`, `MCReports`, `MCAlerts`, `MCOrders`, `MCKiosk`, `MCTenantData` | values for TLC |
| `AttendanceProofs` | types, the inductive invariant and what follows from it, for any traffic |
| `SerialProofs` | what holds of requests served one after the other, `PunchLedger` and the strikes among it |
| `HoursProofs` | the reports over the punches that `Attendance` can have |
| `AlertsProofs`, `CompanyOrdersProofs`, `KioskProofs`, `TenantDataProofs` | proofs about those modules |
| `Sums` | lemmas about sums over finite sets, for `HoursProofs` and `CompanyOrdersProofs` |

Five systems are checked: `Attendance` (with `PunchClock`, `AutoClockOut` and
`HoursReport` over the same tables), `OperationalAlerts`, `OrderClients` over
`CompanyOrders`, `Kiosk`, and `TenantData`. Where one needs another, it has it as
single steps: `OperationalAlerts` has the employees' own punches, `Kiosk` has
`createPunch`, `submitTip` and the sweep. That their statements interleave with
other requests is what `PunchClock` checks.

### How the model corresponds to the code

*Handlers.* `task[h]` (`listing[h]` for the alerts) is a request in flight: `pc`
names the awaited statement it executes next, the other fields are its local
variables. One action is one awaited statement with the computation up to the
next one. `StartPunch` ... `UpdateNotice` follow the text of `createPunch`,
`resolveScheduleOverride` and `autoClockInApprovedOverride` from top to bottom;
likewise `Begin` ... `WriteReport` that of `ensureOperationalAlerts`, `Receive`
... `Commit` that of `createOrder`. The `map` of `PROJECT.json` gives each
definition its lines.

*History variables.* `via`, `off` and `ov` of a punch, `granted` of a request,
`shown` and `filed` of a message; `moved`, `overlaps` and `crashes` of the alerts; `stale`,
`sent`, `posts`, `kept`, `troubled` of the orders; `touched`, `faults` of the
kiosk; `missed` of the deletions. No guard of an operation reads them. They say
why a row was written, or that somebody has come between.

*Crashes.* With `Crashes = TRUE` (attendance), by `Die` (alerts) and by `Abort`
(orders, deletions) a request ends before any statement: a statement throws and
nothing catches it, or the process ends. What was committed stays; there is no
recovery code, so a restart is only the loss of the handlers. Where a
transaction is open it is rolled back: that is also its timeout of five seconds
and the choice of a deadlock's victim. On the device, `Restart` ends the app
anywhere and brings back what its disk had carried out by then: what it had only
been asked for (`removing`, `writes`) is lost.

**Time clock.** Instants are numbers; `DayLength` of them are a local day,
`WeekLength` days a week, and every reading of the clock by a request gives a
new instant, which therefore also names what the request creates (`id`). A
client may state `occurredAt` itself, and an administrator types instants in:
these are `EditTimes`. Time zones and daylight saving are part of `Day` and
`Slot`. `orderBy occurredAt desc` leaves the order of equal instants to the
database: `Latest` is a set, and a reader gets any of its rows.
`getScheduleViolation` reads the day's row and then, if there is none, whether
there is any; the sweep reads the latest punches, the owners and the day's
schedules: each is one action. Left out: `attemptedAt` (never read), wording, IP
address and coordinates (`RefuseOutsideGeofence` may refuse any clock-in), PIN
and access checks (a request that fails them changes nothing), the notification
of tip summaries, push delivery, the read flag of notifications other than
manager messages (of those `markRead` and `markAllRead` are modelled, since a
message that is read is not shown any more), the amounts of tips, the 14-day
bound of the strike query (a week is shorter). `allowManualTimeEdits = false` is
traffic without edits. Employees are neither disabled nor deleted here.

**Reports.** `ReadAll` is the loop over the punches (`Read` is its body,
`LastOf` the order in which it takes them), `Intervals` what it yields,
`Segment` the cutting at midnights, `PenaltyOn` the penalty of automatic
clock-outs, `DayMinutes` the row of a day. A slot stands for minutes, the last
millisecond of a range for its midnight. `orderBy occurredAt` leaves the order
of equal instants to the database: nothing is claimed of an employee with two
rows of one instant (`OneAtATime`), which take a stated `occurredAt` or a
correction. One offset serves the whole range, as in the code; across a change
of daylight saving time the code's days are an hour off local midnight, which is
not visible here. A shift that is open when a report is drawn counts to the end
of the range, even if that is in the future, as in the code.

**Alerts.** Instants are slots of equal length counted from midnight; working days
are calendar days. `MaxLag` bounds the slots from a part's reading of the clock to
its end: the code has no such limit, but the times between reading and writing
are database round trips and one e-mail. Reminders and the manager's messages
share a notification type, and the metadata tell them apart, as in the code.

**Orders.** A statement sees what is committed when it starts; a statement that
meets a row another transaction has written waits for it and then finds it gone
or still there. What a transaction has deleted and written is in `task[h]` until
`Commit`. Orders of other weeks and locations share no row with these. An order
names the first `MaxContributors` of those who submitted to it (`Listed`);
`SignedIn` is in whose name a request may be posted. On the device, one
submission is one request per supplier, each after the answer to the one before;
the loop stops at the first error and the draft stays.

**Kiosk.** The device takes the date of its tips from UTC and the API judges
by the tenant's time zone: `Ahead` is the difference. Its user may choose any
name and action before a tap, so neither is a variable. PINs, coordinates and
overrides are an answer "refused". Memory and disk are separate: the session and
`stored`, the submitted tips and `saved`. The code waits for the disk when it
stores a shift (`Persisted`), but neither when it removes one
(`clearActiveShiftSession`, then `Removed`) nor when it stores tips (`Remember`,
then `SaveTips`). After `Restart` the app reads both again, one independently of
the other (`RestoreShift`, `RestoreTips`), and its user may tap before either has
come. The disk is AsyncStorage, which is assumed to work in the order asked and not
to fail. A *fault* is a lost request or answer, an app that ends within a handler
or before its disk has followed, or a tap before what is stored has been loaded.
`SessionTellsTruth` and `NotAskedTwice` are claimed as long as there was no fault,
restarts at rest included; `CacheIsTrue` whatever happens.

**Deletions.** A row is its table, its employee and a number. `Parents` and
`Restricting` are the schema's foreign keys with Prisma's defaults: a relation
that must be set restricts the deletion of what it refers to, one that may be null
is set to null. `companyOrderCatalogOverride`, a table the orders service creates
by raw SQL, has no foreign key. `Counted` is what the report counts, `PurgeOrder`
and `ClearOrder` are the orders in which the two transactions delete. `Kept` picks
the tables that have rows; the proofs hold for every such choice, the run has
one restricting and one nullable table. A transaction's deleted rows (`gone`) make
others wait (`Free`). A request is let in by an upsert of its tenant, unless that is
disabled (`LetIn`), of its user (`User`) and of its membership (`Member`). The
user's e-mail address is unique in the whole database, and whoever has none gets the
same one, so `User` can be refused. What a request has read, and others can
therefore change under it, is only the tenant until it has found its row (`ReadOf`).

## Runs

| run | instance | shows |
|---|---|---|
| `AttendanceSerial` | one handler, one server, all kinds of traffic, 5 instants in days of 3 | `ImplementsLedger`: each punch is justified when written. `NoSecondClockIn`, `RejectedAdmitsNobody`, `QuietNoticesAgree`, `MessagesShownInOrder`, and of the reports over these punches `HoursAreWorked` |
| `AttendanceRaces` | two handlers, crashes, clock-ins, clock-outs, approvals, rejections, tips and sweeps, 5 instants in days of 4 | `LastingChecksHoldOn`, `OffScheduleIsApproved`, `ServerOutHasTips`, `SettledOnce` under every interleaving |
| `AttendanceLive` | two handlers, no crash, 4 instants | `RequestIsNotified`, `ApprovalIsSettled` |
| `WeeklyStrikes` | one handler, an employee and an owner, 8 instants over two weeks, sweeps in both | `StrikesNumbered`, `ImplementsLedger`, `PayrollSplits` |
| `Reminders` | two listings that overlap once, an employee and an owner-manager, two days begun, two events | `RemindedOften`, `OnlyTheAbsent`, `OverdueAlerted` in any interleaving; `RemindersEnd`, `OneAlertPerShift`, `OneMailPerEvening`, `NotClockedInEarly` without overlap, listings that die included |
| `OrderMerge` | one device, two handlers (a lost request goes on while the device sends again), two suppliers, four submissions by three people of whom an order names two, two events | `NobodyRevivesAnOrder`, `MergeConserves`, `OwnQuantitiesCount`, and for the device `SavedMeansCounted`, `DoubledOnlyAfterError` |
| `KioskDay` | a server and another employee, two days of one slot, one fault, one change by others, restarts anywhere | `CacheIsTrue`, `SessionTellsTruth`, `NotAskedTwice` |
| `Deletions` | two requests, two users with one e-mail address, one employee, a restricting and a nullable table, two tenants in succession | `OnlyRacesFail`, `DeletedKnowingly`, `NothingOutlivesItsTenant` |
| `DoubleClockIn` | two handlers, clock-ins only | violates `NoSecondClockIn` |
| `TipsLockout` | one server, sweep at the end of a day | violates `OwedTipsCanBeDeclared` |
| `OvernightAutoOut` | a schedule over midnight | violates `AutoOutAfterShiftEnd` |
| `KioskEveningTips` | days of two slots, UTC one ahead | violates `RefusalCanBeMet` |

Every module has one type invariant, checked with the run of its system.

*Bounds and why they are enough.*

* Attendance: `MaxNow` bounds the instants at which requests arrive; `Rest` is
  the stuttering of the bounded model once all handlers have answered, so
  deadlock checking stays on. The longest interesting story is: a clock-in is
  refused and asks for an override (1), it is approved (2) while another clock-in
  (3) is under way, the employee leaves (4), a sweep or a second attempt follows
  (5). Two handlers are what a race over one row needs; `Handlers` is symmetric
  where they are used for safety. Days are as short as still gives a time before,
  within and after a shift; `WeekLength` 1 or 2 makes Monday happen. The tables
  are per employee: one suffices except where an exemption is told apart
  (`WeeklyStrikes`). There the shifts run over midnight and are due at every slot,
  so that a sweep clocks out on each day of both weeks: the count passes its limit
  in the first and starts again in the second. `StrikeLimit` 1 puts both sides of
  the threshold in reach.
* Reports: evaluated when all requests of a run have been served, for every
  range of days (the theorems need no such moment); edits and deletions come from
  the traffic, penalties from the sweep. Rounding to two slots and a threshold of three make
  both branches of each happen.
* Alerts: `Last` = 4 in days of 4 is a working day and the midnight after it, with
  shift start 0, grace 1, interval 1, limit 3, break after 2 and report at 3, so
  each threshold is reached on its own instant. `MaxLag` 1 lets the clock pass
  between reading and writing, over midnight too. `MaxOverlaps` 1: two listings at
  a time are what a race needs. `MaxEvents` 2 is two of: a punch, a message, a
  death. The run may stop at `Last`, so deadlock checking is off.
* Orders: the story is a submission whose answer is lost while its request is
  still being served, sent again (two requests of two suppliers): `MaxPosts` 4,
  `MaxEvents` 2. Two orders of one week need two overlapping first submissions,
  their folding a third, which four allow. Quantities 0 and 1 tell lost, kept and
  doubled apart. Three names and `MaxContributors` 2 make an order pass one over.
  The run ends when no submission is left, so deadlock checking is off.
* Kiosk: one day and its midnight, one fault and any number of restarts without
  one, one sweep,
  deletion or tip from elsewhere. Two employees, because the device is shared.
  `Last` 3 in `KioskEveningTips` has an evening on which the UTC date is ahead.
* Deletions: two requests are what a race needs; a third would only be another
  visit. One employee, because no statement touches two except the purge, which
  treats them alike. `MaxTenants` 2 is a deleted tenant and the one that a late
  request creates again. Two users of one address are what a refusal takes. The
  proofs hold for any number of all of them.

*Fairness.* The runtime resumes every await, so a request that has arrived is
carried on: weak fairness of `PunchStep(h)` or `SweepStep(h)`, per handler. No
fairness is assumed of arrivals, of the clock or of administrators; nothing is
claimed under crashes, because no code retries what a dead handler left. The
other systems make no progress claims: their alerts come only when somebody
lists, and their retries are the user's.

### What the violations say

* `DoubleClockIn`: `enforceNoActiveShift` (1100-1111) reads, the row is inserted
  at 147, and no transaction or constraint connects them. Two handlers of one
  employee pass the check before either inserts, although the code promises
  "Employee already has an active shift. Clock out before clocking in again."
* `TipsLockout`: a clock-in is refused for owed tips found in the last 7 x 24
  hours; tips may be declared for today and the six days before. On the seventh
  day a server is told to submit tips the other service refuses.
* `OvernightAutoOut`: a schedule row whose end precedes its start is accepted (and
  not enforced at clock-in), but the sweep compares the time of day with the end
  alone, and clocks the employee out on the first evening "30 minutes after
  schedule end".
* `KioskEveningTips`: west of UTC, once UTC is on the next day, the device asks
  a server for the tips of that day before clocking out, and the API refuses tips
  for future dates: he can neither submit them nor clock out there.

### What holds only up to an exception

Some properties name what breaks them, mostly a race, and say that nothing else
does; each of these exceptions is one the code permits:

* a submission's quantities are lost or doubled only if another one to the same
  week and supplier was committed after this one had read (`MergeConserves`, whose
  exception is `stale`), and an order names as many of its submitters as
  `MAX_CONTRIBUTORS` allows; a part of a draft is ordered twice only after an error was
  shown (`DoubledOnlyAfterError`);
* a fourth reminder, a second alert or a second e-mail takes overlapping
  listings, or a death between the e-mail and its row;
* an active employee is erased only if he was restored between the deletion's
  read and its commit; unreported data is lost with a tenant only if it was
  entered after the report; a catalogue stays behind only if its saving overlapped
  the deletion;
* an employee whose shift is overdue has an alert that is not older than the shift,
  but a late alert about an earlier one is enough (`OverdueAlerted`);
* a request meets a constraint of the database only if others changed rows it had
  read, or if somebody else has its user's e-mail address (`OnlyRacesFail`): this
  second exception takes no race, only a second user without an address;
* a manager message is passed over only if an administrator had marked it as read;
* the device forgets a shift or tips, or believes in a shift that is over, only
  after a fault (above) or a change by others;
* serial runs of the attendance assume one request at a time because the code
  does nothing to keep two apart: besides the double clock-in, two requests for one
  day, two equal strikes and a message shown twice are possible under concurrency.

## Proofs

All theorems hold for any sets of employees and handlers, any lengths and
limits, under the assumptions named in the modules (`TimeClock`'s,
`OrderConstants`, `DeviceConstants`, `AlertConstants`, `KioskConstants`,
`DataAssumption`), which TLC evaluates in the runs.

**Attendance.**

* `AttendanceProofs` begins with one lemma per kind of step that `TypeOK` is kept.
  `TypeOK` alone is not inductive for one step, the verdict of an administrator:
  `requests[ov]` must be a request for its employee to be one, so the lemma
  assumes `ChecksHoldOn(h)`.
* `AttendanceProofs!ChecksHold`: `AttendanceSpec => []IInv`. `OffScheduleIsApproved`
  is not inductive: the row is written statements after the approval was read.
  The strengthening is `LastingChecksHoldOn`: at each `pc`, what the handler has
  found of requests, approvals and tips, which nobody takes back, is true *now*.
  (That no shift is active is not such a fact, and `DoubleClockIn` shows it does
  not last.) The argument has three parts.
  1. `StepGrowsRequests`, `StepGrowsTips`: no step of anybody takes back what a
     check has seen. A request keeps its employee and day, stays granted, keeps
     its consumedAt and is never pending again; tips are never withdrawn.
  2. `WaitingChecksHold`: therefore a handler that does not move keeps its checks;
     `OwnChecksHold`: a handler that moves has just read what it will rely on.
  3. `NewRow`: a new row was written by a handler from its checks, by a sweep or
     by a correction; so it is justified (`StepKeepsApproved`, `StepKeepsTips`).
* From it: `TypeCorrect`, `HandlersChecksHold`, `OffScheduleNeedsApproval`,
  `ClockOutNeedsTips`, and the action property `RequestsSettleOnce`.
* `SerialProofs` assumes `Serial`, one request in flight at a time, because nothing
  in the code keeps two apart: `DoubleClockIn` shows what happens otherwise.
  - `SerialInv` (`SerialInvariant`) says for each `pc` what the request has found
    (the shift, the tips, the schedule, the approval) and that it is still so. From
    it, by the lemma `ClearWhenSerial`, `NoSecondClockIn`, crashes and corrections
    included.
  - A rejected request is not used up (`OnlyApprovedCited`), so nobody comes in by
    it (`RejectedStayOut`); messages are shown once, and an earlier one is
    passed over only if it was filed by an administrator (`InboxInv`,
    `MessagesInOrder`); both with crashes.
  - Without crashes, what has been written and not yet told is what the handler in
    flight will tell (`NoticesInv`, `QuietNotices`). A process that ends between a
    row and its notice leaves it untold: hence `~Crashes`.
  - `AttendanceImplementsLedger`: the initial states are the ledger's and each
    statement is an entry, a correction or a stutter. A punch that cites an approval
    which is not used up was written by the handler that will use it up
    (`CitedInv`); a crash in between leaves an approval for a second punch, which
    the ledger forbids, hence `~Crashes` again.
  - `StrikesAreNumbered`: a sweep's count is the number of automatic clock-outs in
    the week, so the next one has the next number (`StrikeInv`, over cardinalities).
    `NoCorrections`: to edit or delete an automatic clock-out changes the count.

**Reports** (`HoursProofs`). They are functions of the punches, so their theorems
follow from what every reachable table is: finite and well typed (`IInv`).
`HoursTheorem` walks through the instants of a range. `Right(a, ..., t)` says of
what the loop has after the rows before `t`: an interval is open iff the latest
punch before `t` is IN, and the minutes of the closed intervals and the open one
are the hours worked before `t`. `RightAtFirst` has it at the first midnight
(`lastBeforeRange`), `RightNext` for one instant more (`RightStays`, `RightOpens`,
`RightCloses`), and no instant can be the first to break it. That gives a day's
minutes without the range; a week's days lie on one side of a cut at its start
(`WeekStartBefore`, `WeekStartAfter`), so the payrolls add up (`PayrollTheorem`).

**Sums.** A sum over a set is a fold: a function on the subsets of the set, chosen
by the equation that defines it. That there is one, that its value is the sum of
its terms in any order, that it is a number no smaller than a term, is proved on a
least subset that would be an exception (`LeastSubset`): the library's induction
theorems take an operator as a parameter, which the provers cannot instantiate,
but the well-foundedness of the strict subsets of a finite set is a fact of first
order. `HoursProofs` does the same for the loop over the punches (`ReadLast`).

**Alerts** (`AlertsProofs`). A listing decides by a snapshot that is out of date
in one direction only: reminders are never taken away, so the number it has
counted is still there, and whoever punches after it has read the clock is in
`moved`. `Good` says so of one listing; `AlertInv` is `TypeOK`, `Good` of every
listing, and that no punch is later than the clock. From it `ClockedInAfterReminders`
(three reminders before an automatic clock-in, in any interleaving of any number
of listings) and `ClocksInTheAbsent`.

* `BreakInv`: a listing that looks through the overdue shifts has each shift that
  is still overdue on its list, or behind it with an alert (`AllChecked`); the
  latest alert of an employee is no older than any shift that was alerted
  (`LatestAlert`). So it leaves no employee with an overdue shift without an alert
  that is at least as young as the shift, overlapping or not (`NobodyOverlooked`);
  that the alert is about this shift is more than the code ensures. Alone, a
  listing that is about to alert has found the shift unalerted (`Unalerted`), and
  a shift is reported once (`ShiftsAlertedOnce`). A break takes time: `BreakAfter
  > 0` is six hours in the code.
* `MailInv`: every mail of an evening is accounted for by a listing that has died,
  except one, which the row remembers or is about to (`MailsCounted`,
  `EveningsMailedOnce`).
* `ReminderInv`: what a listing that is alone counts is still the count when it
  writes, and the times of the reminders are that far apart
  (`RemindedThrice`, `ClockedInNoEarlier`).

That listings do not overlap is part of these properties (`overlaps = 0`), not of
the specification; listings that die half-way are included.

**Orders** (`CompanyOrdersProofs`).

* Locks: what a transaction holds was created before (`HeldIsCreated`), two never
  hold the same row (`LocksAreExclusive`), and an order that is being rewritten is
  there (`NobodyRevivesAnOrder`); that no item outlives its order
  (`NoOrphanItems`, a part of `OrderInv`) is what the schema's cascade is for.
  `OrderInv` needs no types: `Shape` says of the fields the locks do not depend on
  only that they are there.
* Devices: every supplier of a submission is still to be asked, or was asked once
  and that order is kept, under way or turned down (`DeviceInv`). So "saved" means
  ordered once, and twice takes an error (`SavedTheorem`, `DoubledTheorem`).
* Quantities: no two orders have merged the same submission (`OneSupplier`, a
  transaction's claims included); what a transaction will write is what it has
  read and its own (`Own`); and what it has read is what is there, unless it is
  `stale` (`UpToDate`). These three need each other and the locks (`MergeInv`); from
  them `OrderTypes`, since a sum is a number only of finitely many rows,
  `MergeTheorem` and `OwnQuantitiesTheorem`. Of the contributors it needs only how
  many `Listed` keeps, and from whom.

**Kiosk** (`KioskProofs`). `CacheAlwaysTrue`: an answer that makes the device
remember a day speaks of tips the API has, and nobody takes tips back. So what is
in memory, on the disk, among the disk's writes or about to be loaded is true over
midnights, owed days, lost answers and restarts. `SessionAlwaysTrue`: without
faults, the session is that of the employee whose punch was the last to be
answered, by a strengthening for each `pc` of the handler, and the disk says the
same or is about to. `NotAskedTheorem`: without faults, a day whose tips the API
has is remembered by the device or about to be loaded, was declared elsewhere, or
is in an answer still under way (`TipsAccounted`), and the disk has what the memory
has or is about to. `KioskTypes` needs the days of local and UTC instants to be
within bounds in every time zone (`DivisionBounds`).

**Deletions** (`TenantDataProofs`). `DataInv` says of each handler what it may
rely on: what was there when it read is there, or is in `missed` (`ReliesOn`);
every row of a table that the transaction has dealt with is deleted by it or
missed (`Clears`, `Purges`). `OthersKeep` shows once that a step of another
handler keeps this, if it tells what it changes (`Told`); a request that has
failed stays `Excused`, by something it misses or by an address that is taken,
since nothing deletes a user (`UsersKeep`); `StepKeeps` reduces every action to
its own handler. That the tables which must refer to an employee are purged
before the employees, and every table before the tenant, is read from the two
orders (`PurgeFacts`, `ClearFacts`, `RowsArePurged`). From `DataInv`:
`TypesTheorem`, `RacesTheorem`, and the action properties `KnowinglyTheorem` and
`OutlivesTheorem`.

*Only model-checked.* Liveness (`RequestIsNotified`, `ApprovalIsSettled`): the
prover does not do fairness. Every other property of a passing run is the
property of a theorem; for the serial ones and those of listings that do not
overlap, under the premises above.

## Not modelled

Most of the repository's lines are user interface: screens of the three
applications, their styles and lists, and the web application's proxy routes. They
have no state of their own that could go wrong but what `Kiosk` and `OrderClients`
model. In particular:

* the liquor-control, sales and expense pages and reports: sums and single-row
  writes, some in a store of the web application;
* exports of orders, reports and tenant data (PDF, CSV, Excel): formatting;
* the clock of the web application: its order of tips and punch is a listed hazard;
  otherwise it repeats the device's without its disk;
* rosters, location choice and the administrators' screens of the mobile apps:
  loads into user interface, which a late answer may show stale;
* editing tenant accounts (but for whether they are active), owners' memberships
  and the tenant directory; columns of employees, manager permissions among them;
  offices, groups, statuses, devices, the older punches API: one row, one
  statement, and no reader in the modelled code that relies on two of them
  together. Two requests can exceed the limit of one office, whose count precedes
  the insert, and a unique index decides between two tenants of one slug;
* JWT verification, access summaries, features of a role: read-only functions of
  a row;
* push delivery and e-mail transport, PostgreSQL and Prisma: external. They
  appear as an outcome (`SendMail`, `Free`, `Thrown`, `Restricting`, `Abort`).

## Plan

What is left, most important first:

1. `createPunch` and the deletions together: `Attendance` with employees that go
   while a request about them is in flight (today `TenantData` has such a request
   as `record`).
2. Manager permissions: an update that overlaps a demotion writes permissions
   back that a later promotion revives.
3. The clock of the web application as a second device beside `Kiosk`.
