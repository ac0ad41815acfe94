CONSTANTS
    Half = 3
    ShiftAmounts = {0, 1, 2, 3, 4, 5, 6, 7}
    ArithmeticException = ArithmeticException
SPECIFICATION Spec
INVARIANTS
    SignedResultsExact
