SPECIFICATION AttendanceSpec
CONSTANTS
  ana = ana
  ben = ben
  h1 = h1
  h2 = h2
  Employees = {ana}
  Servers = {ana}
  Owners = {}
  Kitchen = {}
  Handlers = {h1}
  Rosters <- EarlyOrNone
  DayLength = 3
  WeekLength = 1
  TipWindow = 2
  OwedLookback = 2
  Grace = 1
  StrikeLimit = 1
  Crashes = FALSE
  Traffic = {"IN", "OUT", "BREAK", "APPROVE", "REJECT", "TIP", "ROSTER", "MESSAGE", "READ", "MANUAL", "EDIT", "DELETE", "SWEEP"}
  EditTypes = {"IN", "OUT"}
  EditTimes = {2}
  MaxNow = 5
  Penalty = 1
  RoundTo = 2
  WeekStartsOn = 0
  Threshold = 3
  Rate = 1
INVARIANT TypeOK
INVARIANT RejectedAdmitsNobody
INVARIANT QuietNoticesAgree
INVARIANT MessagesShownInOrder
INVARIANT HoursAreWorked
PROPERTY NoSecondClockIn
PROPERTY ImplementsLedger
