SPECIFICATION AttendanceSpec
CONSTANTS
  ana = ana
  ben = ben
  h1 = h1
  h2 = h2
  Employees = {ana}
  Servers = {ana}
  Owners = {}
  Kitchen = {}
  Handlers = {h1, h2}
  Rosters <- NoSchedule
  DayLength = 4
  WeekLength = 2
  TipWindow = 2
  OwedLookback = 2
  Grace = 0
  StrikeLimit = 1
  Crashes = FALSE
  Traffic = {"IN", "OUT"}
  EditTypes = {"OUT"}
  EditTimes = {}
  MaxNow = 3
PROPERTY NoSecondClockIn
