CONSTANTS
    Kinds <- AllKinds
    Whims <- OneOfEach
    MaxFaults = 2
SPECIFICATION FairSpec
INVARIANTS WellFormed IdentityKept NoHarmIfPatient PairedMeansMaster
PROPERTIES CompletedMeansServed PairsUnlessStuck
CHECK_DEADLOCK FALSE
