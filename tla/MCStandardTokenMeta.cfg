CONSTANTS
    Accounts = {T1, T2, U, Fee}
    Tokens = {T1, T2}
    FeeAccount = Fee
    T1 = T1
    T2 = T2
    U = U
    Fee = Fee
    Symbols = {Core, S1}
    DefaultSymbol = Core
    Core = Core
    S1 = S1
    TextSizes <- MCTextSizes
    Amounts <- MCAmounts
    FeeAmounts <- MCFeeAmounts
    Weights <- MCWeights
    Weight1x <- MCWeight1x
    MaxSystemTokens <- MCMaxSystemTokens
    MaxSupply <- MCMaxSupply
    MetaBytes = 2
    BalanceBytes = 1
    NoMeta = NoMeta
    NoRow = NoRow

SPECIFICATION Spec
INVARIANT MetaSymbolIsRequested
