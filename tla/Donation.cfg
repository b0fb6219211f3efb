CONSTANTS
    main = main  t1 = t1  t2 = t2  t3 = t3
    Threads = {main, t1, t2, t3}
    Started = {main}
    Main = main
    Idle = idle
    NULL = null
    Locks = {0, 1, 2}
    TidLock = 0
    Semas = {}
    Pris = {1, 2}
    NewPris = {}
    SliceExpires = FALSE
    SemaMax = 1
SPECIFICATION UnpreemptedSpec
SYMMETRY Perms
CHECK_DEADLOCK FALSE
INVARIANTS RunningIsMax HolderIsBoosted DonationRecalled
