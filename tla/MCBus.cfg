\* Three slots, four addresses, memories up to the whole address space.
CONSTANTS
    NumSlots  = 3
    AddrSpace = 4
    Context   = {m1, m2, m3}
    External  = External
    MaxSize   = 4
SYMMETRY Perms
SPECIFICATION Spec
INVARIANTS TypeOK CountIsActive NoLeak
PROPERTY AddOnlyCaptures
