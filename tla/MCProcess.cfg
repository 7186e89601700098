SPECIFICATION Spec
CONSTANTS
    PageSz = 4
    Top <- MCTop
    Programs <- MCPrograms
    Bases <- MCBases
    StackWords = 40
    Commands <- MCCommands
    U = 32
    Requests = {3, 5, 8}
    Random = 901
    Arch = 902
INVARIANTS TypeOK ImageExact BreakBehind StackReadsBack AuxTrue
