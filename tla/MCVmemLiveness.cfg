SPECIFICATION FairSpec
CONSTANTS
    Pool = {p1, p2, p3, p4, p5}
    MachineRoot = root
    NULL = null
    N = 4
    Half = 2
    RamL3 = 1
    Offset = 4
    HostMemory <- Memory
    Garbage <- OldData
    GuestTables = {16, 17}
    GuestPtes <- LoopPtes
    GuestRoots = {16}
    Uninitialized = {}
    Virt <- LoopVirt
    Accesses <- LoopAccesses
PROPERTIES
    FaultsEnd
