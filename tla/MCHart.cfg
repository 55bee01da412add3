\* Data accesses and the retirement record: all three-word programs.
CONSTANTS
    Byte       = 16
    XLEN       = 16
    ByteAnd    <- MCAnd
    ByteOr     <- MCOr
    ByteXor    <- MCXor
    NumSlots   = 3
    Map        <- DataMap
    NumRegs    = 3
    Decode     <- MCDecode
    Misa       = 4
    ResetPc    = 0
    InitialRam <- Programs
    Table      <- DataTable
    Length     = 3
SPECIFICATION StepSpec
INVARIANTS TypeOK MisalignedOnlyByMret
PROPERTIES PreciseTrap RecordComplete DividesByTheManual MemoryIsBytes
