SPECIFICATION Spec
CONSTANTS
    Instructions <- EdgeInstructions
    Following <- AnyFollowing
    OldRegister <- OldRegisters
    Loaded <- EdgeBytes
CHECK_DEADLOCK FALSE
INVARIANTS
    AccessDecoded
    SystemDecoded
    LoadExtends
