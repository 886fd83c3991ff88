CONSTANTS
    Scripts <- TwoBytes
    DataMask = 2
    MaxFaults = 1
    MaxSends = 0
SPECIFICATION Spec
INVARIANT OnlySentBytesQueued
CHECK_DEADLOCK FALSE
