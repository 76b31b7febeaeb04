SPECIFICATION CpuSpec
CONSTANTS
    W = 16
    Cartridge <- MCCartridge
    Program <- MCProgram
    HasPpu = TRUE
    MaxNest = 2
    Longest = 3
INVARIANTS
    CpuTypeOK
    StackKept
PROPERTIES
    NmiSavesContext
    HandlerReturnsToContext
    Uninterrupted
