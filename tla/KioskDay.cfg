SPECIFICATION Spec
CONSTANTS
    sam = sam
    kim = kim
    Employees <- MCEmployees
    Servers <- MCServers
    DayLength = 1
    Ahead = 0
    EditWindow = 7
    Last = 1
    MaxFaults = 1
    MaxEvents = 1
INVARIANTS
    TypeOK
    CacheIsTrue
    SessionTellsTruth
PROPERTY NotAskedTwice
