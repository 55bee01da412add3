\* Illegal branches, stores and SYSTEM instructions are marked valid.
CONSTANT Instructions <- MCInstructions
SPECIFICATION Spec
INVARIANT ValidIsLegal
CHECK_DEADLOCK FALSE
