CONSTANTS
    h1 = h1  h2 = h2
    SIZE = 8
    BLOCK_SECTOR_SIZE = 4
    DIRECT = 1
    LastName = 1
    DIR_ENTRIES = 0
    Handles = {h1, h2}
    Sizes = {2}
    Vals = {1}
    Positions = {0, 5}
    NULL = null
SPECIFICATION Spec
SYMMETRY Perms
CHECK_DEADLOCK FALSE
INVARIANTS SectorsDistinct ReleasesMarked CountsAgree
PROPERTIES ImplementsFiles
