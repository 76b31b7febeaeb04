SPECIFICATION Spec
CONSTANTS
    Typed <- Session
    Buses <- OneBus
INVARIANTS
    MachineTypeOK
    NumbersAsWritten
    BreakpointsAsTyped
PROPERTIES
    WriteChangesOneByte
