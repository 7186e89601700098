SPECIFICATION Spec
CONSTANTS
    P = 4
    Top = 30
    U = 16
    Starts = {5, 8}
PROPERTIES OnlyAdds
