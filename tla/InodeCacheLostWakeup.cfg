SPECIFICATION MCSpec
CONSTANTS
    Threads = {t1, t2}
    Inodes = {i1, i2}
    Keys = {k1}
    NoThread = NoThread
    NoKey = NoKey
    NoInode = NoInode
    Ops = {"vget"}
    Faults = {}
    InUseAtInit = {k1}

INVARIANT NoLostWakeup
