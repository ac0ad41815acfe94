CONSTANTS
    Accounts = {D1, D2, A, Fee}
    Depositories = {D1, D2}
    DepOrder <- MCDepOrder
    FeeAccount = Fee
    Users = {D1, A}
    D1 = D1
    D2 = D2
    A = A
    Fee = Fee
    Amounts <- MCAmounts
    MaxAmount = 3
    FeeOps = {"issue", "redeem", "transfer", "ntransfer"}
    FeeValues <- MCFeeValues
    KycTypes = {"send", "receive"}
    KycValues = {{"kyc"}}
    KycOf <- MCKycOf
    Blacklisted = {}
    NoRow = NoRow

SPECIFICATION Spec
INVARIANT FeeTransferNeverAborts
