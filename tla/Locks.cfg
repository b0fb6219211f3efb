CONSTANTS
    main = main  t1 = t1  t2 = t2  t3 = t3
    Threads = {main, t1, t2}
    Started = {main}
    Main = main
    Idle = idle
    NULL = null
    Locks = {0, 1}
    TidLock = 0
    Semas = {}
    Pris = {1, 2}
    NewPris = {}
    SliceExpires = TRUE
    SemaMax = 1
SPECIFICATION Spec
SYMMETRY Perms
CHECK_DEADLOCK FALSE
INVARIANTS TypeOK MutualExclusion QueuesExclusive NoLostWakeup
