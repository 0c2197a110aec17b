CONSTANTS
    v1 = v1
    v2 = v2
    Volumes <- MCVolumes
    Workloads <- MCWorkloads
    MaxKext = 3
SPECIFICATION Spec
INVARIANTS SharedTables NoInodeWithoutVolume NeedsCheckStaysDirty CleanIsConsistent
PROPERTIES MustNotWrite JournalRespected VolumeFreed
