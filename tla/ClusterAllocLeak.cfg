CONSTANTS
    NrClusters = 6
    MftLcn = 2
    StandardMftLcn = 1
    Multiplier = 4
    ByteBits = 2
    PageBytes = 1
    DataBytes = 4
    RlBlock = 2
    MaxFiles = 2
    Requests <- FragmentRequests
    UsedAtMount <- AnyUsed
    Faults = {}
SPECIFICATION Spec
INVARIANTS NoClusterLeak
