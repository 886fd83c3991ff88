CONSTANTS
    Settle = 2
    Hold = 3
    Base = 4
    FirstIdle = 5
    Durations = {0, 1}
    Interval = 1
    MaxFaults = 1
SPECIFICATION FairSpec
INVARIANTS TypeOK PeriodKept
PROPERTIES PressSeen HostUpToDate
