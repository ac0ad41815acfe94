----------------------------- MODULE TxFeeTable -----------------------------
(***************************************************************************)
(* The transaction-fee table of InfraBlockchain                            *)
(* (transaction_fee_table_manager.cpp).  A row keyed by (code, action)     *)
(* holds a fee value and a fee type.  Two sentinel keys carry fallbacks:   *)
(* (0, action) is the fee of a built-in common action and (0, 0) the       *)
(* default fee.  A lookup falls back from the exact key to the common key  *)
(* to the default key and finally to a hard-coded fee.                     *)
(*                                                                         *)
(* The empty name account_name(0) / action_name(0) is the model value      *)
(* NullName, a member of both Accounts and ActionNames.                    *)
(***************************************************************************)
EXTENDS Integers

CONSTANTS
    Accounts,         \* contract accounts (codes), NullName included
    ActionNames,      \* action names, NullName included
    NullName,         \* account_name(0) and action_name(0)
    FeeValues,        \* candidate tx_fee_value_type arguments, negatives included
    FeeTypes,         \* candidate tx_fee_type_type arguments
    FixedPerAction,   \* fixed_tx_fee_per_action_type
    BuiltinFee,       \* the value returned when no row applies (10000)
    NoEntry           \* no transaction_fee_object row for a key

ASSUME NullName \in Accounts /\ NullName \in ActionNames
ASSUME FixedPerAction \in FeeTypes /\ BuiltinFee \in Nat

VARIABLE txfee        \* the transaction_fee_object index: (code, action) -> row

Keys == Accounts \X ActionNames
\* a row as the setter admits it: a non-negative fixed-per-action fee
TxFeeForAction == [value : FeeValues \cap Nat, fee_type : {FixedPerAction}]

\* TypeOK: every stored row is one that set_tx_fee_for_action accepts
TypeOK == txfee \in [Keys -> TxFeeForAction \cup {NoEntry}]

Init == txfee = [k \in Keys |-> NoEntry]

\* mutant: the value check of set_tx_fee_for_action dropped
SetTxFeeForActionAnyValue(code, action, value, fee_type) ==
    /\ fee_type = FixedPerAction
    /\ txfee' = [txfee EXCEPT ![<<code, action>>] =
                    [value |-> value, fee_type |-> fee_type]]

(***************************************************************************)
(* set_tx_fee_for_action: rejects a negative value and any fee type other  *)
(* than fixed-per-action, then creates or modifies the row.                *)
(***************************************************************************)
SetTxFeeForAction(code, action, value, fee_type) ==
    /\ value >= 0
    /\ fee_type = FixedPerAction
    /\ txfee' = [txfee EXCEPT ![<<code, action>>] =
                    [value |-> value, fee_type |-> fee_type]]

SetTxFeeForCommonAction(action, value, fee_type) ==
    SetTxFeeForAction(NullName, action, value, fee_type)

SetDefaultTxFee(value, fee_type) ==
    SetTxFeeForAction(NullName, NullName, value, fee_type)

\* code_name_for_built_in_actions and code_name_for_default_tx_fee /
\* action_name_for_default_tx_fee are the empty name: the getters look the
\* sentinel rows up under account_name(0) and action_name(0).

\* unset_tx_fee_entry_for_action: the row must exist
UnsetTxFeeEntryForAction(code, action) ==
    /\ txfee[<<code, action>>] # NoEntry
    /\ txfee' = [txfee EXCEPT ![<<code, action>>] = NoEntry]

(***************************************************************************)
(* The lookup chain: get_tx_fee_for_action -> get_tx_fee_for_common_action *)
(* -> get_default_tx_fee.                                                  *)
(***************************************************************************)
GetDefaultTxFee ==
    IF txfee[<<NullName, NullName>>] # NoEntry
    THEN txfee[<<NullName, NullName>>]
    ELSE [value |-> BuiltinFee, fee_type |-> FixedPerAction]

\* mutant: the common-action lookup falls straight through to the default
GetTxFeeForCommonActionSkipped(action) == GetDefaultTxFee

GetTxFeeForCommonAction(action) ==
    IF txfee[<<NullName, action>>] # NoEntry
    THEN txfee[<<NullName, action>>]
    ELSE GetDefaultTxFee

GetTxFeeForAction(code, action) ==
    IF txfee[<<code, action>>] # NoEntry
    THEN txfee[<<code, action>>]
    ELSE GetTxFeeForCommonAction(action)

Next ==
    \/ \E c \in Accounts, a \in ActionNames, v \in FeeValues, t \in FeeTypes :
          SetTxFeeForAction(c, a, v, t)
    \/ \E a \in ActionNames, v \in FeeValues, t \in FeeTypes :
          SetTxFeeForCommonAction(a, v, t)
    \/ \E v \in FeeValues, t \in FeeTypes : SetDefaultTxFee(v, t)
    \/ \E c \in Accounts, a \in ActionNames : UnsetTxFeeEntryForAction(c, a)

Spec == Init /\ [][Next]_txfee

-----------------------------------------------------------------------------
(***************************************************************************)
(* Reference definition of the lookup (spec section 4.5): the fee of       *)
(* (code, action) is the row of the most specific key present among        *)
(* (code, action), (0, action), (0, 0), else the built-in fee.             *)
(***************************************************************************)
FallbackKeys(code, action) ==
    <<<<code, action>>, <<NullName, action>>, <<NullName, NullName>>>>

MostSpecificFee(code, action) ==
    LET present == {i \in 1..3 : txfee[FallbackKeys(code, action)[i]] # NoEntry}
    IN  IF present = {}
        THEN [value |-> BuiltinFee, fee_type |-> FixedPerAction]
        ELSE txfee[FallbackKeys(code, action)[
                 CHOOSE i \in present : \A j \in present : i <= j]]

(***************************************************************************)
(* LookupIsMostSpecific: get_tx_fee_for_action, through its chain of three *)
(* fallbacks, returns the row of the most specific configured key for      *)
(* every (code, action), whatever sequence of set and unset calls led to   *)
(* the table, the sentinel keys themselves included.                       *)
(***************************************************************************)
LookupIsMostSpecific ==
    \A c \in Accounts, a \in ActionNames :
        GetTxFeeForAction(c, a) = MostSpecificFee(c, a)

=============================================================================
