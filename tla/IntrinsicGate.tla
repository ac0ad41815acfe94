---------------------------- MODULE IntrinsicGate ----------------------------
(***************************************************************************)
(* The access checks of the intrinsic dispatcher (wasm_interface.cpp) and  *)
(* the chain state the privileged intrinsics write.                        *)
(*                                                                         *)
(* Every intrinsic call constructs its API class on the running apply      *)
(* context.  context_aware_api's constructor refuses a class not built     *)
(* with context_free = true inside a context-free action;                  *)
(* context_free_api refuses a context that is not context free;            *)
(* privileged_api refuses a receiver that is not privileged.  Two classes  *)
(* that write chain-wide state are plain context-aware classes and check   *)
(* privilege elsewhere: system_token_api::set_system_token_list_packed     *)
(* checks it inline, and infrablockchain_transaction_api leaves it to      *)
(* apply_context ("checked on apply_context impl", outside src).           *)
(*                                                                         *)
(* A refused or failed call throws, and the transaction's changes are     *)
(* undone (snap).  An action is one transaction.  apply_context reads the *)
(* receiver's privileged flag when the action starts (outside src).  The   *)
(* fee table is TxFeeTable, written through its own operations.           *)
(***************************************************************************)
EXTENDS Integers

CONSTANTS
    Accounts, ActionNames, NullName, FeeValues, FeeTypes, FixedPerAction,
    BuiltinFee, NoEntry,  \* the fee table's constants (TxFeeTable)
    Receivers,            \* accounts whose contracts run actions
    System,               \* config::system_account_name
    Configs,              \* packed chain_config values
    InvalidConfig,        \* a chain_config whose validate() throws
    TokenLists,           \* packed system-token lists
    InvalidList,          \* a list set_system_token_list_packed rejects
    LimitValues,          \* int64 arguments of set_resource_limits
    MaxCalls,             \* bound on the intrinsic calls of one action
    NoAction

ASSUME System \in Receivers

VARIABLES
    txfee,       \* the transaction_fee_object table
    privileged,  \* account_metadata_object::is_privileged per receiver
    config,      \* global_property_object::configuration
    sysTokens,   \* the standard token manager's system-token list
    limits,      \* the resource limits set per account
    act,         \* the running action, or NoAction
    snap         \* the chain state when the action started

F == INSTANCE TxFeeTable

chain == <<txfee, privileged, config, sysTokens, limits>>
vars  == <<chain, act, snap>>

\* the limits an account can have: -1 (unlimited, as created) and the
\* values set_resource_limits admits, [-1, INT64_MAX]
Accepted == {-1} \cup {v \in LimitValues : v >= -1}

TypeOK ==
    /\ F!TypeOK
    /\ privileged \in [Receivers -> BOOLEAN]
    /\ config \in Configs /\ sysTokens \in TokenLists
    /\ limits \in [Receivers -> [ram : Accepted, net : Accepted, cpu : Accepted]]
    /\ act \in [receiver : Receivers, cfree : BOOLEAN, priv : BOOLEAN,
                sysAuth : BOOLEAN, calls : 0 .. MaxCalls] \cup {NoAction}

Init ==
    /\ F!Init
    /\ privileged = [r \in Receivers |-> r = System]
    /\ config \in Configs /\ sysTokens \in TokenLists
    /\ limits = [r \in Receivers |-> [ram |-> -1, net |-> -1, cpu |-> -1]]
    /\ act = NoAction
    /\ snap = chain

\* the classes whose constructor passes context_free = true
\* (softfloat, crypto, context-free system, action, console, memory,
\* context-free transaction, compiler builtins, call depth)
ContextFreeApis ==
    {"softfloat_api", "crypto_api", "context_free_system_api", "action_api",
     "console_api", "memory_api", "context_free_transaction_api",
     "compiler_builtins", "call_depth_api", "context_free_api"}

\* mutant: context_aware_api's context-free check dropped
RefusedNoContextFreeCheck(cls) ==
    \/ cls = "context_free_api" /\ ~act.cfree
    \/ cls = "privileged_api" /\ ~act.priv

\* the constructors of context_aware_api, context_free_api, privileged_api
Refused(cls) ==
    \/ act.cfree /\ cls \notin ContextFreeApis
    \/ cls = "context_free_api" /\ ~act.cfree
    \/ cls = "privileged_api" /\ ~act.priv

\* an exception: the transaction's changes are undone
Abort ==
    /\ act' = NoAction
    /\ txfee' = snap[1] /\ privileged' = snap[2] /\ config' = snap[3]
    /\ sysTokens' = snap[4] /\ limits' = snap[5]
    /\ UNCHANGED snap

Running == act # NoAction

\* an intrinsic call of the running action, within the bound
CanCall == Running /\ act.calls < MaxCalls

\* the call returned normally
Called == act' = [act EXCEPT !.calls = @ + 1]

\* apply_context::exec_one: an action of receiver r starts; is_privileged()
\* is the flag as the action found it
StartAction ==
    /\ ~Running
    /\ \E r \in Receivers, cf \in BOOLEAN, auth \in BOOLEAN :
          act' = [receiver |-> r, cfree |-> cf, priv |-> privileged[r],
                  sysAuth |-> auth, calls |-> 0]
    /\ snap' = chain
    /\ UNCHANGED chain

\* the action returns and its transaction commits
EndAction == Running /\ act' = NoAction /\ UNCHANGED <<chain, snap>>

\* privileged_api::set_privileged
SetPrivileged ==
    /\ CanCall
    /\ \E n \in Receivers, isPriv \in BOOLEAN :
          IF Refused("privileged_api") THEN Abort
          ELSE /\ privileged' = [privileged EXCEPT ![n] = isPriv]
               /\ UNCHANGED <<txfee, config, sysTokens, limits, snap>> /\ Called

\* privileged_api::activate_feature: always "Unsupported Hardfork Detected"
ActivateFeature == CanCall /\ Abort

\* privileged_api::set_blockchain_parameters_packed: cfg.validate() throws
\* on an invalid configuration
SetBlockchainParametersPacked ==
    /\ CanCall
    /\ \E cfg \in Configs \cup {InvalidConfig} :
          IF Refused("privileged_api") \/ cfg = InvalidConfig THEN Abort
          ELSE /\ config' = cfg
               /\ UNCHANGED <<txfee, privileged, sysTokens, limits, snap>> /\ Called

\* privileged_api::set_resource_limits: each value >= -1, then
\* resource_limits_manager::set_account_limits
SetResourceLimits ==
    /\ CanCall
    /\ \E a \in Receivers, ram, net, cpu \in LimitValues :
          IF Refused("privileged_api") \/ ram < -1 \/ net < -1 \/ cpu < -1 THEN Abort
          ELSE /\ limits' = [limits EXCEPT ![a] = [ram |-> ram, net |-> net, cpu |-> cpu]]
               /\ UNCHANGED <<txfee, privileged, config, sysTokens, snap>> /\ Called

\* mutant: the inline is_privileged() assertion dropped
SetSystemTokenListPackedNoPrivCheck ==
    /\ CanCall
    /\ \E list \in TokenLists \cup {InvalidList} :
          IF Refused("system_token_api") \/ ~act.sysAuth \/ list = InvalidList
          THEN Abort
          ELSE /\ sysTokens' = list
               /\ UNCHANGED <<txfee, privileged, config, limits, snap>> /\ Called

\* system_token_api::set_system_token_list_packed: is_privileged(),
\* require_authorization(eosio), then the list's validation
SetSystemTokenListPacked ==
    /\ CanCall
    /\ \E list \in TokenLists \cup {InvalidList} :
          IF Refused("system_token_api") \/ ~act.priv \/ ~act.sysAuth
             \/ list = InvalidList
          THEN Abort
          ELSE /\ sysTokens' = list
               /\ UNCHANGED <<txfee, privileged, config, limits, snap>> /\ Called

\* the checks before the fee table is written: the class, and the privilege
\* check of apply_context::set/unset_transaction_fee_for_action
FeeCallRefused == Refused("infrablockchain_transaction_api") \/ ~act.priv

FeeUnchanged == UNCHANGED <<privileged, config, sysTokens, limits, snap>> /\ Called

\* infrablockchain_transaction_api::set_trx_fee_for_action; the table's
\* own assertions (value >= 0, fixed type) throw
SetTrxFeeForAction ==
    /\ CanCall
    /\ \E c \in Accounts, a \in ActionNames, v \in FeeValues, t \in FeeTypes :
          IF FeeCallRefused THEN Abort
          ELSE \/ F!SetTxFeeForAction(c, a, v, t) /\ FeeUnchanged
               \/ ~(v >= 0 /\ t = FixedPerAction) /\ Abort

\* infrablockchain_transaction_api::unset_trx_fee_for_action: the row must
\* exist
UnsetTrxFeeForAction ==
    /\ CanCall
    /\ \E c \in Accounts, a \in ActionNames :
          IF FeeCallRefused THEN Abort
          ELSE \/ F!UnsetTxFeeEntryForAction(c, a) /\ FeeUnchanged
               \/ txfee[<<c, a>>] = NoEntry /\ Abort

Next ==
    \/ StartAction \/ EndAction
    \/ SetPrivileged \/ ActivateFeature \/ SetBlockchainParametersPacked
    \/ SetResourceLimits \/ SetSystemTokenListPacked
    \/ SetTrxFeeForAction \/ UnsetTrxFeeForAction

Spec == Init /\ [][Next]_vars
-----------------------------------------------------------------------------
(***************************************************************************)
(* ChainWrittenOnlyByPrivileged: no step changes the privileged flags, the *)
(* chain configuration, the resource limits, the system-token list or the  *)
(* fee table unless it belongs to an action whose receiver was privileged  *)
(* when the action started.  The check sits in three places (the          *)
(* privileged_api constructor, set_system_token_list_packed's own          *)
(* assertion, apply_context for the fee intrinsics), and an account made   *)
(* privileged by one action may write in the next.                         *)
(***************************************************************************)
ChainWrittenOnlyByPrivileged ==
    [][chain' # chain => Running /\ act.priv]_vars

(***************************************************************************)
(* ContextFreeActionsWriteNothing: a context-free action, whatever its     *)
(* receiver's privilege, leaves the chain state as it found it: every      *)
(* class with a writing intrinsic is constructed with context_free = false *)
(* and refused in a context-free action.                                   *)
(***************************************************************************)
ContextFreeActionsWriteNothing ==
    [][Running /\ act.cfree => chain' = chain]_vars
=============================================================================
