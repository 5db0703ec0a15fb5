SPECIFICATION FairSpec
CONSTANTS
    Harts = {h1, h2}
    MaxPages = 3
INVARIANTS
    TypeOK
    MutualExclusion
    FreeListSound
PROPERTIES
    Refinement
    LockReleased
