CONSTANTS
    Scripts <- TwoBytes
    DataMask = 1
    MaxFaults = 1
    MaxSends = 1
SPECIFICATION Spec
INVARIANTS TypeOK Aligned Faithful
CHECK_DEADLOCK FALSE
