SPECIFICATION Spec
CONSTANTS
    ann = ann
    eve = eve
    l1 = l1
    l2 = l2
    Employees <- MCEmployees
    OwnerManagers <- MCOwnerManagers
    Acting <- MCActing
    Start <- MCStart
    Offices = 1
    Listings <- MCListings
    DayLength = 4
    BreakAfter = 2
    Grace = 1
    Interval = 1
    MaxReminders = 3
    ReportTime = 3
    Last = 4
    MaxLag = 1
    MaxOverlaps = 1
    MaxEvents = 2
INVARIANTS
    TypeOK
    RemindedOften
    RemindersEnd
    OneAlertPerShift
    OneMailPerEvening
PROPERTIES
    NotClockedInEarly
    OnlyTheAbsent
    OverdueAlerted
CHECK_DEADLOCK FALSE
SYMMETRY MCSymmetry
