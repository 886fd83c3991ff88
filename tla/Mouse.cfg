CONSTANTS
    Cases <- AllCases
    RingSize = 2
    Moves = {0, 250}
    Requests <- NewSettings
SPECIFICATION FairSpec
INVARIANTS TypeOK StreamingMeansConfigured NeverConfused NoFalseAlarm PacketsIntactUnlessReset
PROPERTY HandshakeEnds
