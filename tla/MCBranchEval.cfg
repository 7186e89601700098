SPECIFICATION Spec
CONSTANTS
    W = 3
    InsnSz = 2
    Insns <- MCInsns
    Starts <- MCStarts
INVARIANTS TypeOK GoesWhereCpuGoes RefusedForReason CallFrames
