\* Overlapping ranges are accepted.
CONSTANTS
    NumSlots  = 3
    AddrSpace = 4
    Context   = {m1, m2, m3}
    External  = External
    MaxSize   = 4
SPECIFICATION Spec
INVARIANT NoOverlap
