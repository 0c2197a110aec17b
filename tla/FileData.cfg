INIT MCInit
NEXT Next
CONSTANTS
  Threads = {t1, t2}
  MaxSize = 4
  PageSize = 2
  ClusterSize = 2
  ResidentMax = 2
  Faults = {"alloc", "convert", "read", "zero", "free", "write"}
  MaxCalls = 2
  Requests <- MCRequests
  StoreUnits = {0, 2}
  Zero = Zero
  Data = Data
  Junk = Junk
  Hole = Hole
  None = None
SYMMETRY Symmetry
CHECK_DEADLOCK FALSE
INVARIANTS SizesAgree SyncDurable
PROPERTY ImplementsFile
