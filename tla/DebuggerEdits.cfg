SPECIFICATION FairSpec
CONSTANTS
    W = 12
    Cartridge = {"broken"}
    Program <- MCProgram
    HasPpu = TRUE
    MaxNest = 2
    Longest = 3
    FrameCycles = 9
    MaxSteps = 1
    MaxBreaks = 0
    BreakAddresses = {}
    SetValues = {3, 16}
INVARIANTS
    DebuggerTypeOK
PROPERTIES
    StepReturns
