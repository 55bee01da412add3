\* Every table of three slots over four addresses, every address.
CONSTANTS
    NumSlots  = 3
    AddrSpace = 4
SPECIFICATION Spec
INVARIANTS TypeOK ReturnsOwner BestSoFar
PROPERTY Terminates
CHECK_DEADLOCK FALSE
