SPECIFICATION FairSpec
CONSTANTS
    W = 10
    Cartridge <- MCCartridge
    Program <- MCProgram
    HasPpu = TRUE
    MaxNest = 2
    Longest = 7
    WarmupCycles = 12
    RenderCycles = 15
    VBlankCycles = 7
INVARIANTS
    ConsoleTypeOK
    NoNestedNmi
    NmiOnlyWhenAsked
PROPERTIES
    Uninterrupted
    PollAnswered
