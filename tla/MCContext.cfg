SPECIFICATION Spec
CONSTANTS
    Slots = 6
    Feature = {"sse", "avx", "avx2", "avx512f"}
INVARIANTS TypeOK DumpsCovered Resumed OwnStack
