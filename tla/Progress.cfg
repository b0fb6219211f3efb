CONSTANTS
    main = main  t1 = t1  t2 = t2  t3 = t3
    Threads = {main, t1, t2, t3}
    Started = {main, t1}
    Main = main
    Idle = idle
    NULL = null
    Locks = {0}
    TidLock = 0
    Semas = {s1}
    Pris = {1}
    NewPris = {1}
    SliceExpires = TRUE
    SemaMax = 1
SPECIFICATION FairSpec
CHECK_DEADLOCK FALSE
INVARIANTS TidsUnique
PROPERTIES FreeLockIsTaken SemaIsTaken ImplementsMutex
