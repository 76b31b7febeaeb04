SPECIFICATION Spec
CONSTANTS
    W = 12
    Cartridge = {"looping", "broken"}
    Program <- MCProgram
    HasPpu = TRUE
    MaxNest = 2
    Longest = 5
    FrameCycles = 13
    MaxSteps = 2
    MaxBreaks = 1
    BreakAddresses = {5, 40}
    SetValues = {}
INVARIANTS
    DebuggerTypeOK
PROPERTIES
    BreakpointsPauseOutsideNmi
    PlainStepIsOneInstruction
    Uninterrupted
