\* Every opcode and funct3, and the bits of every immediate.
CONSTANT Instructions <- MCInstructions
SPECIFICATION Spec
INVARIANTS TypeOK DecodesIsa RoundTrip LineReadsBack
CHECK_DEADLOCK FALSE
