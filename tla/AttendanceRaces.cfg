SPECIFICATION AttendanceSpec
CONSTANTS
  ana = ana
  ben = ben
  h1 = h1
  h2 = h2
  Employees = {ana}
  Servers = {ana}
  Owners = {}
  Kitchen = {}
  Handlers = {h1, h2}
  Rosters <- FirstDayOff
  DayLength = 4
  WeekLength = 2
  TipWindow = 2
  OwedLookback = 2
  Grace = 0
  StrikeLimit = 1
  Crashes = TRUE
  Traffic = {"IN", "OUT", "APPROVE", "REJECT", "TIP", "SWEEP"}
  EditTypes = {"OUT"}
  EditTimes = {}
  MaxNow = 5
SYMMETRY HandlerSymmetry
INVARIANT LastingChecksHoldOn
INVARIANT OffScheduleIsApproved
INVARIANT ServerOutHasTips
PROPERTY SettledOnce
