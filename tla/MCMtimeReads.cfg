SPECIFICATION Spec
CONSTANTS
    NPc = 2
    Word = 64
    Quantum = 3
    AdditionalCycles = 2
    Ops <- ClockOps
    Deadlines = {3}
    MaxTime = 16
    EntryTicks = 1
    ExitTicks = 1
PROPERTIES
    MtimeReadsMonotone
