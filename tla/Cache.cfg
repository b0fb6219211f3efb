CONSTANTS
    CACHE_SIZE = 2
    Sectors = {0, 1, 2}
    FREE_MAP_DATA = 2
    Parts = {p1, p2}
    Vals = {v1, v2}
    Images <- MCImages
    NULL = null
SPECIFICATION Spec
SYMMETRY Perms
INVARIANTS CacheTypeOK OneEntry CloseSaves MapSaved VictimExists
PROPERTIES ImplementsStore
