SPECIFICATION EmulatorSpec
CONSTANTS
    WarmupCycles = 20
    RenderCycles = 100
    VBlankCycles = 300
    Files <- AnyFile
    Ppus <- PowerOnPpus
    Pads <- PowerOnPads
    Hands <- TwoHands
    MaxFrames = 4
INVARIANTS EmulatorTypeOK PressesCounted PaletteAsWritten FilesJudged RunsFromGoodFiles
