CONSTANTS
    v1 = v1
    v2 = v2
    Volumes <- MCVolumes
    Workloads <- DirtyWorkloads
    MaxKext = 3
SPECIFICATION Spec
INVARIANT NeedsCheckStaysDirty
