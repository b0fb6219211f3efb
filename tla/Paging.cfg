CONSTANTS
    p1 = p1  p2 = p2
    Procs = {p1, p2}
    LastPage = 4
    ExeLast = 1
    FilePages = 2
    StackEnd = 3
    Writable = {FALSE}
    Touched = {3}
    MaxMaps = 1
    NULL = null
SPECIFICATION FairSpec
CHECK_DEADLOCK FALSE
INVARIANTS VTypeOK LocksMatch PresentIsListed
PROPERTIES DirtySaved CallsEnd
