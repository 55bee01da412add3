\* Trap entry and return under interrupts: all three-word programs.
CONSTANTS
    Byte       = 16
    XLEN       = 16
    ByteAnd    <- MCAnd
    ByteOr     <- MCOr
    ByteXor    <- MCXor
    NumSlots   = 1
    Map        <- TrapMap
    NumRegs    = 3
    Decode     <- MCDecode
    Misa       = 4
    ResetPc    = 0
    InitialRam <- TrapPrograms
    Table      <- TrapTable
    Length     = 3
SPECIFICATION TrapSpec
INVARIANTS TrapTypeOK FrameHeld MisalignedOnlyByMret
PROPERTIES MretResumes PreciseTrap
