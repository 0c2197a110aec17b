CONSTANTS
    ByteBits = 2
    Lcns <- Places
    Lengths = {1, 5}
    MaxRuns = 3
    Rooms = {4, 6, 16}
    MajorVers = {1, 3}
SPECIFICATION Spec
INVARIANTS ReadBackExact SizeExact
CHECK_DEADLOCK FALSE
