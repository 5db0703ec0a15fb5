SPECIFICATION Spec
CONSTANTS
    NPc = 2
    Word = 64
    Quantum = 3
    AdditionalCycles = 2
    Ops <- ClockOps
    Deadlines = {3, 6, 30, 63}
    MaxTime = 16
    EntryTicks = 1
    ExitTicks = 1
INVARIANTS
    TypeOK
    ComparatorCovers
PROPERTIES
    GuestClockMonotone
    TimerNotEarly
