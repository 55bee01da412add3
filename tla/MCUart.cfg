\* A UART with a receive file: peer, prefetch and guest interleaved.
CONSTANTS
    Byte        = 16
    XLEN        = 16
    Letter      = {0, 7}
    MaxSent     = 4
    GuestWrites <- MCWrites
    MaxTx       = 1
SPECIFICATION UartSpec
INVARIANTS UartTypeOK StatusIsHonest
PROPERTIES ReceivesStream EveryByteRead
CHECK_DEADLOCK FALSE
