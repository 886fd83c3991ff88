CONSTANTS
    Cases <- OnlyKeepsUp
    RingSize = 2
    Moves = {0, 250}
    Requests <- NoRequests
SPECIFICATION Spec
INVARIANT PacketsIntact
