CONSTANTS
    Accounts = {NullName, alice}
    ActionNames = {NullName, transfer}
    NullName = NullName
    alice = alice
    transfer = transfer
    FeeValues <- MCFeeValues
    FeeTypes = {FixedPerAction, OtherType}
    FixedPerAction = FixedPerAction
    OtherType = OtherType
    BuiltinFee <- MCBuiltinFee
    NoEntry = NoEntry
    Receivers = {eosio, user}
    eosio = eosio
    user = user
    System = eosio
    Configs = {cfg1, cfg2}
    cfg1 = cfg1
    cfg2 = cfg2
    InvalidConfig = InvalidConfig
    TokenLists = {list1, list2}
    list1 = list1
    list2 = list2
    InvalidList = InvalidList
    LimitValues <- MCLimitValues
    MaxCalls = 2
    NoAction = NoAction

SPECIFICATION Spec
INVARIANT TypeOK
INVARIANT LookupIsMostSpecific
PROPERTY ChainWrittenOnlyByPrivileged
PROPERTY ContextFreeActionsWriteNothing
