CONSTANTS
    MaxVcn = 4
    Strands = 2
    Workloads <- SoundLoads
SPECIFICATION Spec
INVARIANTS WellFormed FindsEveryCluster CallsSucceed
CHECK_DEADLOCK FALSE
