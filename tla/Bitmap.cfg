CONSTANTS
    ByteBits = 2
    PageBytes = 2
    Pages = 3
    MayFail = TRUE
SPECIFICATION Spec
CONSTRAINT UntilErrors
INVARIANTS OnlyTheRun
PROPERTIES AllOrNothing
