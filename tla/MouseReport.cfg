CONSTANTS
    Packets <- SomePackets
    RingSize = 2
    Timeout = 2
    MaxPackets = 3
SPECIFICATION FairSpec
INVARIANTS TypeOK TriggerMeansSilence DeflectionHasDeadline ReportFollowsMouse
PROPERTY ComesToRest
