CONSTANTS
    E32 = 4
    M32 = 2
    E64 = 4
    M64 = 4
    E128 = 3
    M128 = 1
    N32 = 4
    N64 = 6
    Sample64 <- MCSample64
    Primaries = {1, 2}
    NoRow = NoRow
    End = End
    TransactionException = TransactionException
SPECIFICATION MCSpec
INVARIANTS
    MinMaxNaNReturnsOther
