SPECIFICATION AttendanceSpec
CONSTANTS
  ana = ana
  ben = ben
  h1 = h1
  h2 = h2
  Employees = {ana}
  Servers = {ana}
  Owners = {}
  Kitchen = {}
  Handlers = {h1}
  Rosters <- OverMidnight
  DayLength = 4
  WeekLength = 2
  TipWindow = 2
  OwedLookback = 2
  Grace = 1
  StrikeLimit = 1
  Crashes = FALSE
  Traffic = {"IN", "OUT", "TIP", "SWEEP"}
  EditTypes = {"OUT"}
  EditTimes = {}
  MaxNow = 6
INVARIANT AutoOutAfterShiftEnd
