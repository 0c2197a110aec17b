CONSTANTS
    Keys = {1, 2, 3, 4, 5, 6, 7, 8, 9}
    KeySize <- MCKeySize
    VcnSize = 1
    BlockSize = 8
    RootSize = 4
    MaxBlocks = 9
    ByteBits = 2
    BitmapStep = 2
    Trees <- MCTrees
    MaxCalls = 1
    Faults = {"read", "alloc", "clear", "remap", "relock", "free", "scan", "resize", "empty"}
    NoCall = NoCall
    Absent = 2
    MaxHeight = 3
SPECIFICATION FairSpec
CONSTRAINT UntilDamaged
INVARIANTS SearchFindsListing BlocksExact WellShaped
PROPERTIES ImplementsOrderedIndex CallsReturn
