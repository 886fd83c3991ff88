CONSTANTS
    Keys <- SomeKeys
    RingSize = 2
    MaxEvents = 3
    Resends = 1
    Resets = 3
    MaxFaults = 3
SPECIFICATION FairSpec
INVARIANTS TypeOK ReportFollowsKeys LedStateIsAwaited LedsAgree
PROPERTY HeartbeatGoesOn
