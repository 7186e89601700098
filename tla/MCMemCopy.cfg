SPECIFICATION FairSpec
CONSTANTS
    P = 3
    NPages = 2
    L = 2
    Code <- MCCode
    Val <- MCVal
    Zero = 13
    Images <- MCImages
    Stored = {9}
INVARIANTS TypeOK RoundTrip ReadExact Removable DiesForReason
PROPERTIES CopiesEnd
