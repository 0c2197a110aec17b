SPECIFICATION MCSpec
CONSTANTS
    Threads = {t1, t2, t3}
    Inodes = {i1, i2, i3}
    Keys = {k1}
    NoThread = NoThread
    NoKey = NoKey
    NoInode = NoInode
    Ops = {"vget", "lookup", "create", "unlink"}
    Faults = {"nomem", "read", "index", "addvnode", "bdwrite", "eexist",
              "bread", "reread", "map", "clearbit", "getmftbmp"}
    InUseAtInit = {}
SYMMETRY Symmetry
INVARIANTS HashUnique NoUseAfterFree DeletedIsUnlinked ReusedRecordNotCached PanicNeedsWriteError LostRecordIsNoted
CHECK_DEADLOCK FALSE
