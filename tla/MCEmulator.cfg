\* Whole runs of the emulator: system calls, TOHOST, UART and the step limit.
CONSTANTS
    Byte       = 16
    XLEN       = 16
    ByteAnd    <- MCAnd
    ByteOr     <- MCOr
    ByteXor    <- MCXor
    NumSlots   = 4
    Map        <- EmuMap
    NumRegs    = 5
    Decode     <- MCDecode
    Misa       = 4
    ResetPc    = 0
    InitialRam <- MCBlank
    Table      <- EmuTable
    Length     = 6
    A0         = 1
    A1         = 2
    A2         = 3
    A7         = 4
    Limits     = {0, 1, 4, 6}
    ResetPcs   = {0}
    Loads      <- MCLoads
    Verdicts   = {3}
    Scenarios  <- MCScenarios
    Unknown    = {"-x"}
    HexValue   <- MCHex
    DecValue   <- MCDec
    EmbedCap   = 2
    CycleCap   = 7
SPECIFICATION MainSpec
INVARIANTS MainTypeOK StepsBounded WriteIsPrefix ParsedAsWritten SuccessMeansGuestExit
PROPERTIES GuestStopsAtHalt HaltsForCause WriteReturnsCount CallsDrawToEnd LoadsAreVisible RunsTheLoop Exits
CHECK_DEADLOCK FALSE
