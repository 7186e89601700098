SPECIFICATION Spec
CONSTANTS
    P = 4
    LogP = 2
    Top = 20
    MaxSz = 3
    Frames = 7
    Blocks <- MCBlocks
INVARIANTS TypeOK FindsBlockEnd FailsForReason StackBound
