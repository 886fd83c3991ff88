CONSTANTS
    Byte = {zero, b1}
    Size = 2
    MaxAdds = 6
    Zero = zero
SPECIFICATION FairSpec
INVARIANTS WellFormed YesIsStable
PROPERTIES ImplementsFifo EverythingDelivered
CHECK_DEADLOCK FALSE
