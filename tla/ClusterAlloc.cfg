CONSTANTS
    NrClusters = 6
    MftLcn = 2
    StandardMftLcn = 1
    Multiplier = 4
    ByteBits = 2
    PageBytes = 1
    DataBytes = 4
    RlBlock = 2
    MaxFiles = 1
    Requests <- AnyRequests
    UsedAtMount <- AnyUsed
    Faults = {"page", "nomem", "bits", "map"}
SPECIFICATION FairSpec
CONSTRAINT UntilErrors
INVARIANTS RunlistExact DataEnospcMeansFull NoDoubleAllocation FreeCountExact
PROPERTIES CallsEnd DataAvoidsMftZone CallsLeakNothing FailedFreeRestores
