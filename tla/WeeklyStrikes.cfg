SPECIFICATION AttendanceSpec
CONSTANTS
  ana = ana
  ben = ben
  h1 = h1
  h2 = h2
  Employees = {ana, ben}
  Servers = {}
  Owners = {ben}
  Kitchen = {}
  Handlers = {h1}
  Rosters <- OverMidnight
  DayLength = 4
  WeekLength = 2
  TipWindow = 2
  OwedLookback = 2
  Grace = 0
  StrikeLimit = 1
  Crashes = FALSE
  Traffic = {"IN", "OUT", "SWEEP"}
  EditTypes = {"OUT"}
  EditTimes = {}
  MaxNow = 8
  Penalty = 1
  RoundTo = 2
  WeekStartsOn = 1
  Threshold = 3
  Rate = 1
INVARIANT StrikesNumbered
INVARIANT PayrollSplits
PROPERTY ImplementsLedger
