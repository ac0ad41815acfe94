--------------------------- MODULE StandardToken ---------------------------
(***************************************************************************)
(* The standard token manager (yosemite/standard_token_manager.cpp): token *)
(* meta rows, per-(token, account) balance rows with their RAM billing,    *)
(* the weighted system-token list, and pay_transaction_fee, which walks    *)
(* that list and dispatches a `txfee` action per charged token inside the  *)
(* fee payer's transaction.  Any failed assertion aborts the transaction,  *)
(* and the chainbase undo session then discards every write made so far,   *)
(* the `txfee` actions already dispatched included.                        *)
(*                                                                         *)
(* Every handler runs to completion before the next one starts (actions    *)
(* are applied one at a time), so each is one atomic step here.           *)
(***************************************************************************)
EXTENDS Integers, Sequences, SequencesExt, FiniteSets

CONSTANTS
    Accounts,          \* account names
    Tokens,            \* token ids: accounts whose code is a token contract
    FeeAccount,        \* the account the `txfee` handler credits
    Symbols,           \* valid token symbols settokenmeta may carry
    DefaultSymbol,     \* symbol() of a fresh token_meta_object (CORE_SYMBOL)
    TextSizes,         \* sizes of the url / description in settokenmeta, 1..255
    Amounts,           \* positive amounts of issue / transfer / retire
    FeeAmounts,        \* fee_amount arguments of pay_transaction_fee
    Weights,           \* system_token::token_weight values
    Weight1x,          \* system_token::token_weight_1x (10000)
    MaxSystemTokens,   \* max_system_tokens
    MaxSupply,         \* bound on a token's total supply (the model's only bound)
    MetaBytes,         \* billable_size_v<token_meta_object>
    BalanceBytes,      \* billable_size_v<token_balance_object>
    NoMeta, NoRow      \* no token_meta_object / no token_balance_object

ASSUME Tokens \subseteq Accounts /\ FeeAccount \in Accounts
ASSUME DefaultSymbol \in Symbols
ASSUME \A w \in Weights : w > 0

VARIABLES
    meta,        \* token_meta_object by token_id
    balance,     \* token_balance_object by (token_id, account)
    ram,         \* RAM usage billed to each account by this manager
    sysTokens,   \* yosemite_global_property_object.system_token_list
    metaSymbol   \* ghost: the symbol of the last accepted settokenmeta

vars == <<meta, balance, ram, sysTokens, metaSymbol>>

SystemToken == [token_id : Tokens, token_weight : Weights]
Meta == [symbol : Symbols, total_supply : 0..MaxSupply,
         url : TextSizes, description : TextSizes]

TypeOK ==
    /\ meta \in [Tokens -> Meta \cup {NoMeta}]
    /\ balance \in [Tokens -> [Accounts -> (0..MaxSupply) \cup {NoRow}]]
    /\ ram \in [Accounts -> Nat]
    /\ sysTokens \in BoundedSeq(SystemToken, MaxSystemTokens)
    /\ metaSymbol \in [Tokens -> Symbols]

Init ==
    /\ meta = [t \in Tokens |-> NoMeta]
    /\ balance = [t \in Tokens |-> [a \in Accounts |-> NoRow]]
    /\ ram = [a \in Accounts |-> 0]
    /\ sysTokens = <<>>
    /\ metaSymbol = [t \in Tokens |-> DefaultSymbol]

-----------------------------------------------------------------------------
(***************************************************************************)
(* Balance-row helpers.  They act on a database record db = [balance, ram] *)
(* so that pay_transaction_fee can thread the rows through its loop.       *)
(***************************************************************************)
Db == [balance |-> balance, ram |-> ram]

\* mutant: a new row is created without charging RAM to its owner
AddTokenBalanceNoRam(db, t, owner, value) ==
    IF db.balance[t][owner] # NoRow
    THEN [db EXCEPT !.balance[t][owner] = @ + value]
    ELSE [db EXCEPT !.balance[t][owner] = value]

\* add_token_balance: grow the row, or create it and bill its RAM to owner
AddTokenBalance(db, t, owner, value) ==
    IF db.balance[t][owner] # NoRow
    THEN [db EXCEPT !.balance[t][owner] = @ + value]
    ELSE [db EXCEPT !.balance[t][owner] = value,
                    !.ram[owner] = @ + BalanceBytes]

\* mutant: the insufficient-balance assertion dropped
CanSubtractTokenBalanceAny(db, t, owner, value) == db.balance[t][owner] # NoRow

\* subtract_token_balance's assertions: the row exists and covers value
CanSubtractTokenBalance(db, t, owner, value) ==
    /\ db.balance[t][owner] # NoRow
    /\ db.balance[t][owner] >= value

\* mutant: the row is kept at zero instead of being removed
SubtractTokenBalanceKeepRow(db, t, owner, value) ==
    [db EXCEPT !.balance[t][owner] = @ - value]

\* subtract_token_balance: remove the emptied row and release its RAM
SubtractTokenBalance(db, t, owner, value) ==
    IF db.balance[t][owner] = value
    THEN [db EXCEPT !.balance[t][owner] = NoRow,
                    !.ram[owner] = @ - BalanceBytes]
    ELSE [db EXCEPT !.balance[t][owner] = @ - value]

\* mutant: the supply row is left unmodified
UpdateTokenTotalSupplyUnmodified(m, delta) == m

\* update_token_total_supply
UpdateTokenTotalSupply(m, delta) == [m EXCEPT !.total_supply = @ + delta]

\* the `txfee` action on token t: move amount from the payer to FeeAccount
TxFee(db, t, payer, amount) ==
    AddTokenBalance(SubtractTokenBalance(db, t, payer, amount),
                    t, FeeAccount, amount)
-----------------------------------------------------------------------------
(***************************************************************************)
(* set_token_meta_info.  The lambda's parameter is also named token_meta,  *)
(* so inside it `token_meta` is the stored object: the symbol is assigned  *)
(* to itself and url / description are resized and copied onto            *)
(* themselves.  A created row therefore keeps symbol() and zero-filled     *)
(* url / description of the requested sizes; an update can only resize    *)
(* them.  A stored zero-filled string never equals a non-empty payload     *)
(* c_str(), so the "same as old one" assertion always passes.              *)
(***************************************************************************)
SetTokenMetaInfo(t, sym, url, desc) ==
    /\ IF meta[t] = NoMeta
       THEN /\ meta' = [meta EXCEPT ![t] = [symbol |-> DefaultSymbol,
                          total_supply |-> 0, url |-> url, description |-> desc]]
            /\ ram' = [ram EXCEPT ![t] = @ + MetaBytes]
       ELSE /\ meta[t].symbol = sym
            /\ meta' = [meta EXCEPT ![t].url = url, ![t].description = desc]
            /\ UNCHANGED ram
    /\ metaSymbol' = [metaSymbol EXCEPT ![t] = sym]
    /\ UNCHANGED <<balance, sysTokens>>

(***************************************************************************)
(* The issue / transfer / retire handlers of the apply context, built on   *)
(* the manager's helpers with receiver = token id.                          *)
(***************************************************************************)
IssueToken(t, to, amount) ==
    /\ meta[t] # NoMeta
    /\ meta[t].total_supply + amount <= MaxSupply
    /\ meta' = [meta EXCEPT ![t] = UpdateTokenTotalSupply(@, amount)]
    /\ balance' = AddTokenBalance(Db, t, to, amount).balance
    /\ ram' = AddTokenBalance(Db, t, to, amount).ram
    /\ UNCHANGED <<sysTokens, metaSymbol>>

TransferToken(t, from, to, amount) ==
    /\ meta[t] # NoMeta
    /\ CanSubtractTokenBalance(Db, t, from, amount)
    /\ LET db == AddTokenBalance(SubtractTokenBalance(Db, t, from, amount),
                                 t, to, amount)
       IN  balance' = db.balance /\ ram' = db.ram
    /\ UNCHANGED <<meta, sysTokens, metaSymbol>>

RetireToken(t, amount) ==
    /\ meta[t] # NoMeta
    /\ CanSubtractTokenBalance(Db, t, t, amount)
    /\ meta' = [meta EXCEPT ![t] = UpdateTokenTotalSupply(@, -amount)]
    /\ balance' = SubtractTokenBalance(Db, t, t, amount).balance
    /\ ram' = SubtractTokenBalance(Db, t, t, amount).ram
    /\ UNCHANGED <<sysTokens, metaSymbol>>

(***************************************************************************)
(* set_system_token_list_packed: at most max_system_tokens entries, each   *)
(* valid (positive weight) and naming an account, no token id twice; the  *)
(* manager then replaces the list.                                          *)
(***************************************************************************)
SetSystemTokenListPacked(list) ==
    /\ Len(list) <= MaxSystemTokens
    /\ Cardinality({list[i].token_id : i \in DOMAIN list}) = Len(list)
    /\ sysTokens' = list
    /\ UNCHANGED <<meta, balance, ram, metaSymbol>>
-----------------------------------------------------------------------------
(***************************************************************************)
(* pay_transaction_fee.  For a token of weight w the remaining fee is worth *)
(* fee * 1x / w of that token (integer division).  A balance that covers   *)
(* it is charged that much and ends the walk; a smaller one is charged in  *)
(* full and takes cur * w / 1x off the fee.  For w = 1x both divisions are *)
(* exact, so one formula serves the code's two branches.                   *)
(***************************************************************************)
\* mutant: a partial charge does not reduce the remaining fee
ChargeForTokenNoDecrement(fee, cur, w) ==
    IF cur >= (fee * Weight1x) \div w
    THEN [amount |-> (fee * Weight1x) \div w, fee |-> 0]
    ELSE [amount |-> cur, fee |-> fee]

\* mutant: a covering balance is charged in full instead of the fee's worth
ChargeForTokenWholeBalance(fee, cur, w) ==
    IF cur >= (fee * Weight1x) \div w
    THEN [amount |-> cur, fee |-> 0]
    ELSE [amount |-> cur, fee |-> fee - (cur * w) \div Weight1x]

ChargeForToken(fee, cur, w) ==
    IF cur >= (fee * Weight1x) \div w
    THEN [amount |-> (fee * Weight1x) \div w, fee |-> 0]
    ELSE [amount |-> cur, fee |-> fee - (cur * w) \div Weight1x]

(***************************************************************************)
(* One iteration of the walk over the system-token list.  The state st is  *)
(* [db, fee, ok]; once the fee is covered (break) or an assertion failed   *)
(* (ok = FALSE) the remaining iterations do nothing.                       *)
(***************************************************************************)
PayFeeForSysToken(payer, st, sys_token) ==
    LET t   == sys_token.token_id
        cur == st.db.balance[t][payer]
        c   == ChargeForToken(st.fee, cur, sys_token.token_weight)
    IN  IF st.fee <= 0 \/ ~st.ok \/ cur = NoRow THEN st
        ELSE IF meta[t] = NoMeta THEN [st EXCEPT !.ok = FALSE]
        ELSE [db |-> TxFee(st.db, t, payer, c.amount), fee |-> c.fee, ok |-> TRUE]

\* the loop of pay_transaction_fee and the final assertion on its result
FeeWalk(payer, fee) ==
    FoldLeft(LAMBDA st, tok : PayFeeForSysToken(payer, st, tok),
             [db |-> Db, fee |-> fee, ok |-> TRUE], sysTokens)
FeePaid(payer, fee) == FeeWalk(payer, fee).ok /\ FeeWalk(payer, fee).fee <= 0

(***************************************************************************)
(* The whole call.  A failed assertion aborts the transaction and the undo *)
(* session rolls every dispatched `txfee` back, leaving no trace.          *)
(***************************************************************************)
PayTransactionFee(payer, fee) ==
    /\ fee > 0
    /\ IF FeePaid(payer, fee)
       THEN /\ balance' = FeeWalk(payer, fee).db.balance
            /\ ram' = FeeWalk(payer, fee).db.ram
       ELSE UNCHANGED <<balance, ram>>
    /\ UNCHANGED <<meta, sysTokens, metaSymbol>>

Next ==
    \/ \E t \in Tokens, sym \in Symbols, url, desc \in TextSizes :
          SetTokenMetaInfo(t, sym, url, desc)
    \/ \E t \in Tokens, to \in Accounts, amt \in Amounts : IssueToken(t, to, amt)
    \/ \E t \in Tokens, from, to \in Accounts, amt \in Amounts :
          TransferToken(t, from, to, amt)
    \/ \E t \in Tokens, amt \in Amounts : RetireToken(t, amt)
    \/ \E list \in BoundedSeq(SystemToken, MaxSystemTokens) :
          SetSystemTokenListPacked(list)
    \/ \E payer \in Accounts, fee \in FeeAmounts : PayTransactionFee(payer, fee)

Spec == Init /\ [][Next]_vars
-----------------------------------------------------------------------------
Rows(t) == {a \in Accounts : balance[t][a] # NoRow}

\* a balance, an absent row counting as 0
Bal(b) == IF b = NoRow THEN 0 ELSE b

\* what a paid call takes from the payer in token t
Loss(payer, fee, t) ==
    Bal(balance[t][payer]) - Bal(FeeWalk(payer, fee).db.balance[t][payer])

\* the exact worth of per-token amounts, in fee units times 1x:
\* sum of amount(t) * w over the system-token list, with no rounding
ExactWorth(amount(_)) ==
    FoldLeft(LAMBDA acc, st : acc + amount(st.token_id) * st.token_weight, 0, sysTokens)

\* the rounding allowance: 1x - 1 for every listed token of weight other
\* than 1x that is in the set S; a charge of c such tokens loses less than
\* one fee unit of worth to the floor division of cur * w / 1x
Allowance(S(_)) ==
    FoldLeft(LAMBDA acc, st : acc + IF st.token_weight # Weight1x /\ S(st.token_id)
                                    THEN Weight1x - 1 ELSE 0,
             0, sysTokens)

(***************************************************************************)
(* SupplyConserved: the balance rows of a token add up to the total_supply *)
(* of its meta row, and a token without meta has no rows, after any        *)
(* sequence of issue, transfer, retire and fee payments, a fee payment      *)
(* rolled back half way included.                                           *)
(***************************************************************************)
SupplyConserved ==
    \A t \in Tokens :
        IF meta[t] = NoMeta THEN Rows(t) = {}
        ELSE meta[t].total_supply = MapThenSumSet(LAMBDA a : balance[t][a], Rows(t))

(***************************************************************************)
(* BalanceRowsPositive: subtract_token_balance removes a row that reaches  *)
(* zero, so no balance row ever holds 0 (spec: "0 implies row absent").    *)
(***************************************************************************)
BalanceRowsPositive ==
    \A t \in Tokens, a \in Accounts : balance[t][a] # NoRow => balance[t][a] > 0

(***************************************************************************)
(* RamMatchesRows: the RAM add_ram_usage billed to every account equals    *)
(* the rows it owns (its meta row and its balance rows), whatever order of *)
(* row creations, removals, self-transfers and rolled-back fees led here.  *)
(***************************************************************************)
RamMatchesRows ==
    \A a \in Accounts :
        ram[a] = (IF a \in Tokens /\ meta[a] # NoMeta THEN MetaBytes ELSE 0)
                 + BalanceBytes * Cardinality({t \in Tokens : balance[t][a] # NoRow})

(***************************************************************************)
(* NoOvercharge: a pay_transaction_fee call that succeeds takes from the  *)
(* payer, valued exactly (sum of amount * w over the txfee debits), no    *)
(* more than fee_amount * 1x, beyond a rounding allowance of less than    *)
(* one fee unit for each token of weight other than 1x whose row the walk *)
(* empties.  The code does overcharge by that much: a partial charge of   *)
(* cur reduces the fee by cur * w / 1x rounded down (line 167), so 1 unit *)
(* of a 0.5x token is taken for nothing.  The property fails if the       *)
(* covering token is charged more than its share or a 1x token loses      *)
(* anything to rounding.                                                   *)
(***************************************************************************)
NoOvercharge ==
    \A payer \in Accounts \ {FeeAccount}, fee \in FeeAmounts :
        FeePaid(payer, fee) =>
            ExactWorth(LAMBDA t : Loss(payer, fee, t))
              <= fee * Weight1x
                 + Allowance(LAMBDA t : balance[t][payer] # NoRow
                                        /\ FeeWalk(payer, fee).db.balance[t][payer] = NoRow)

(***************************************************************************)
(* FeeOnlyFailsWhenShort: a pay_transaction_fee call fails (the meta      *)
(* assertion or "does not have enough system token") only when the        *)
(* payer's balances of the listed tokens, valued exactly, fall short of   *)
(* fee_amount * 1x by less than the rounding allowance of the tokens of   *)
(* weight other than 1x it holds.  The code can refuse a payer who holds  *)
(* enough (two 0.5x tokens of 1 against a fee of 1), but only by that     *)
(* rounding; a walk that skips a held token, credits a partial charge     *)
(* wrongly or asserts on the meta of a held token breaks the property.    *)
(***************************************************************************)
FeeOnlyFailsWhenShort ==
    \A payer \in Accounts, fee \in FeeAmounts :
        ~FeePaid(payer, fee) =>
            ExactWorth(LAMBDA t : Bal(balance[t][payer]))
              < fee * Weight1x + Allowance(LAMBDA t : balance[t][payer] # NoRow)

(***************************************************************************)
(* FeeFullyCharged (spec 4.4 step 2 and section 8 "fee exhaustion"): a    *)
(* pay_transaction_fee call that succeeds debits the payer at least        *)
(* fee_amount's worth, sum(amount * w) >= fee_amount * 1x, as charging the *)
(* covering token ceil(fee_amount * 1x / w) would.                         *)
(***************************************************************************)
FeeFullyCharged ==
    \A payer \in Accounts \ {FeeAccount}, fee \in FeeAmounts :
        FeePaid(payer, fee) =>
            FoldLeft(LAMBDA acc, st : acc + Loss(payer, fee, st.token_id) * st.token_weight,
                     0, sysTokens) >= fee * Weight1x

(***************************************************************************)
(* MetaSymbolIsRequested (spec 4.4 and scenario 6): the symbol stored by  *)
(* set_token_meta_info is the one the accepted settokenmeta carried.       *)
(***************************************************************************)
MetaSymbolIsRequested ==
    \A t \in Tokens : meta[t] # NoMeta => meta[t].symbol = metaSymbol[t]
=============================================================================
