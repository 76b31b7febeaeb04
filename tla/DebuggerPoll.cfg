SPECIFICATION FairSpec
CONSTANTS
    W = 12
    Cartridge = {"waiting"}
    Program <- MCProgram
    HasPpu = TRUE
    MaxNest = 2
    Longest = 7
    FrameCycles = 28
    MaxSteps = 1
    MaxBreaks = 0
    BreakAddresses = {}
    SetValues = {}
PROPERTIES
    PollAnswered
