SPECIFICATION Spec
CONSTANTS
    W = 12
    Cartridge <- MCCartridge
    Program <- MCProgram
    HasPpu = TRUE
    MaxNest = 2
    Longest = 5
    FrameCycles = 13
    MaxSteps = 2
    MaxBreaks = 1
    BreakAddresses = {5, 40}
    SetValues = {}
PROPERTIES
    StepIsOneInstruction
