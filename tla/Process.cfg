CONSTANTS
    b1 = b1  b2 = b2  b3 = b3
    LastTid = 3
    Blocks = {b1, b2, b3}
    Statuses = {0}
    NULL = null
SPECIFICATION Spec
SYMMETRY Perms
CHECK_DEADLOCK FALSE
INVARIANTS PTypeOK StatusReported OwnInfo ListedOnce ExecTells WaitersServed RunningDenied
