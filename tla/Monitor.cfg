CONSTANTS
    main = main  t1 = t1  t2 = t2  c1 = c1
    Threads = {main, t1, t2}
    Started = {main, t1, t2}
    Main = main
    Idle = idle
    NULL = null
    Locks = {0, 1}
    TidLock = 0
    Semas = {}
    Pris = {1}
    NewPris = {}
    SliceExpires = TRUE
    SemaMax = 1
    Conds = {c1}
    CondLock <- OneLock
SPECIFICATION MSpec
SYMMETRY Perms
CHECK_DEADLOCK FALSE
INVARIANTS MTypeOK SignalAccounting
