CONSTANTS
    Half = 3
    ShiftAmounts = {0, 1, 2, 3, 4, 5, 6, 7}
    ArithmeticException = ArithmeticException
    MemSize = 4
    ByteBits = 1
    MaxLength = 3
    Values <- MCValues
    OverlappingMemoryError = OverlappingMemoryError
    Width64 = 4
    MaxData = 3
    NameBytes = 2
SPECIFICATION Spec
INVARIANTS
    ArithmeticMatchesReference
    MemoryCallsMatchReference
    ConsoleTextReadsBack
    BufferTypeOK
    ReadsAreComplete
