CONSTANTS
    b1 = b1  b2 = b2  b3 = b3
    LastTid = 2
    Blocks = {b1, b2}
    Statuses = {0}
    NULL = null
SPECIFICATION FairSpec
CHECK_DEADLOCK FALSE
PROPERTIES CallsReturn
