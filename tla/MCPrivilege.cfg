SPECIFICATION Spec
CONSTANTS
    NPc = 3
    Word = 16
    Quantum = 1
    AdditionalCycles = 0
    Ops <- AllOps
    Deadlines = {0}
    MaxTime = 0
    EntryTicks = 0
    ExitTicks = 0
INVARIANTS
    MdtInGM
    SatpMatchesLevel
    NoDeliverablePending
    DeferredNeverPanics
PROPERTIES
    TableFollowsLevel
    ContinuationKept
    TimerKept
