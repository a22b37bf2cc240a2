SPECIFICATION Spec
CONSTANTS
    sam = sam
    kim = kim
    Employees <- MCEmployees
    Servers <- MCServers
    DayLength = 2
    Ahead = 1
    EditWindow = 7
    Last = 3
    MaxFaults = 1
    MaxEvents = 1
INVARIANT RefusalCanBeMet
