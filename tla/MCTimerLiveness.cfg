SPECIFICATION FairSpec
CONSTANTS
    NPc = 2
    Word = 32
    Quantum = 2
    AdditionalCycles = 0
    Ops <- ClockOps
    Deadlines = {2, 4, 15, 24}
    MaxTime = 5
    EntryTicks = 0
    ExitTicks = 0
PROPERTIES
    TrapsEnd
    TimerRaised
