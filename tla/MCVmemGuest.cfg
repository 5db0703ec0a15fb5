SPECIFICATION Spec
CONSTANTS
    Pool = {p1, p2, p3, p4, p5, p6, p7}
    MachineRoot = root
    NULL = null
    N = 4
    Half = 2
    RamL3 = 1
    Offset = 4
    HostMemory <- Memory
    Garbage <- OldData
    GuestTables = {16, 17}
    GuestPtes <- GoodPtes
    GuestRoots = {16, 17}
    Uninitialized = {}
    Virt <- GoodVirt
    Accesses <- GoodAccesses
SYMMETRY Symmetry
INVARIANTS
    PermittedServed
PROPERTIES
    FaultRepairs
    ShadowIsTlb
