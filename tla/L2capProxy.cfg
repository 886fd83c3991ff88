CONSTANTS
    Buffer = 1
    MaxPackets = 2
SPECIFICATION FairSpec
INVARIANTS RelaysFaithfully
PROPERTIES EverythingHandled ClosesTogether
CHECK_DEADLOCK FALSE
