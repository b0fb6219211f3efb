CONSTANTS
    main = main  t1 = t1  t2 = t2
    Threads = {main, t1, t2}
    Started = {main, t1, t2}
    Main = main
    Idle = idle
    NULL = null
    Locks = {0}
    TidLock = 0
    Semas = {}
    Pris = {1, 2}
    NewPris = {}
    SliceExpires = TRUE
    SemaMax = 1
    Durations <- SleepTimes
    MaxTicks = 4
SPECIFICATION ASpec
SYMMETRY Perms
CHECK_DEADLOCK FALSE
INVARIANTS ATypeOK WakeAccounting
PROPERTIES NeverEarly NoOversleep
