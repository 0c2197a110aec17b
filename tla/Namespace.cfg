CONSTANTS
    Root = Root
    A = A
    B = B
    f = f
    Dirs = {Root, A, B}
    Files = {f}
    Names = {x, y}
    Threads = {t1, t2}
    MaxLinks = 2
    Trees <- MCTrees
    Faults = {"unlink", "link", "create"}
    None = None
SPECIFICATION Spec
SYMMETRY Symmetry
CONSTRAINT UntilErrors
CHECK_DEADLOCK FALSE
INVARIANTS TreeStays LinkCountsExact LockedInOrder
PROPERTIES FailedCallsUndone
