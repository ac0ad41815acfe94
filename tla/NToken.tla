------------------------------- MODULE NToken -------------------------------
(***************************************************************************)
(* The yx.ntoken contract (contracts/yx.ntoken/yx.ntoken.cpp): native      *)
(* tokens issued by system depositories, held per (account, depository)   *)
(* in accounts_native rows plus one accounts_native_total row per account, *)
(* with the transaction fee paid through inline actions.                   *)
(*                                                                         *)
(* A transaction starts with one top-level action.  Each action runs to    *)
(* completion; the inline actions it sends run after it, in the order      *)
(* sent, each followed by its own inline actions (depth first).  pending   *)
(* is that queue.  A failed eosio_assert anywhere aborts the transaction   *)
(* and every write since it started is undone (snap).                      *)
(***************************************************************************)
EXTENDS Integers, Sequences, SequencesExt, FiniteSets

CONSTANTS
    Accounts,          \* account names
    Depositories,      \* accounts for which is_authorized_sys_depository holds
    DepOrder,          \* Depositories in primary-key order of accounts_native
    FeeAccount,        \* YOSEMITE_TX_FEE_ACCOUNT
    Users,             \* accounts that sign top-level actions
    Amounts,           \* positive token amounts of top-level actions
    MaxAmount,         \* asset::max_amount (2^62 - 1), scaled down
    FeeOps,            \* operation names of get_transaction_fee / setfee
    FeeValues,         \* fee amounts setfee may be given, negatives included
    KycTypes,          \* NTOKEN_KYC_RULE_TYPE_TRANSFER_SEND / _RECEIVE
    KycValues,         \* kyc flag sets setkycrule may store
    KycOf,             \* the identity contract's KYC flags of each account
    Blacklisted,       \* accounts with YOSEMITE_ID_ACC_STATE_BLACKLISTED
    NoRow              \* no row in a multi_index table

ASSUME Depositories \subseteq Accounts /\ FeeAccount \in Accounts
ASSUME DepOrder \in Seq(Depositories) /\ ToSet(DepOrder) = Depositories
ASSUME {"issue", "redeem", "transfer", "ntransfer"} \subseteq FeeOps

VARIABLES
    stats,      \* stats_native supply row, scope = depository
    native,     \* accounts_native rows: owner -> depository -> amount
    total,      \* accounts_native_total row of each owner
    kycRule,    \* kyc_rule_index: type -> kyc flags
    fees,       \* the fee contract's `fees` table: operation -> amount
    pending,    \* inline actions still to run in the current transaction
    snap,       \* the tables as the current transaction found them
    status,     \* "idle", "running", "committed", or the action that aborted
    feeDue,     \* ghost: fees sent to payfee in the current transaction
    request     \* ghost: the top-level action that started it

vars == <<stats, native, total, kycRule, fees, pending, snap, status, feeDue, request>>

Amount == 0..MaxAmount
Tables == [stats : [Depositories -> Amount \cup {NoRow}],
           native : [Accounts -> [Depositories -> Amount \cup {NoRow}]],
           total : [Accounts -> Amount \cup {NoRow}]]

TypeOK ==
    /\ [stats |-> stats, native |-> native, total |-> total] \in Tables
    /\ kycRule \in [KycTypes -> KycValues \cup {NoRow}]
    /\ fees \in [FeeOps -> (FeeValues \cap Nat) \cup {NoRow}]
    /\ feeDue \in Nat

Init ==
    /\ stats = [d \in Depositories |-> NoRow]
    /\ native = [a \in Accounts |-> [d \in Depositories |-> NoRow]]
    /\ total = [a \in Accounts |-> NoRow]
    /\ kycRule = [t \in KycTypes |-> NoRow]
    /\ fees = [op \in FeeOps |-> NoRow]
    /\ pending = <<>>
    /\ snap = [stats |-> stats, native |-> native, total |-> total]
    /\ status = "idle"
    /\ feeDue = 0
    /\ request = NoRow
-----------------------------------------------------------------------------
(***************************************************************************)
(* Table helpers on db = [stats, native, total].  Each has its assertions  *)
(* as a separate predicate, evaluated on the db it is applied to.          *)
(***************************************************************************)
Db == [stats |-> stats, native |-> native, total |-> total]

\* a row incremented by amt, or created holding amt
Incr(row, amt) == IF row = NoRow THEN amt ELSE row + amt

\* add_native_token_balance: a modified row must stay in 1..max_amount
AddNativeTokenBalanceOk(db, owner, amt, dep) ==
    /\ db.native[owner][dep] # NoRow => db.native[owner][dep] + amt \in 1..MaxAmount
    /\ db.total[owner] # NoRow => db.total[owner] + amt \in 1..MaxAmount

AddNativeTokenBalance(db, owner, amt, dep) ==
    [db EXCEPT !.native[owner][dep] = Incr(@, amt), !.total[owner] = Incr(@, amt)]

\* sub_native_token_balance: both rows exist and cover amt
SubNativeTokenBalanceOk(db, owner, amt, dep) ==
    /\ db.native[owner][dep] # NoRow /\ db.native[owner][dep] >= amt
    /\ db.total[owner] # NoRow /\ db.total[owner] >= amt

\* mutant: the total row is left as it was
SubNativeTokenBalanceRowOnly(db, owner, amt, dep) ==
    [db EXCEPT !.native[owner][dep] = @ - amt]

\* rows are decremented and kept, a zero amount included
SubNativeTokenBalance(db, owner, amt, dep) ==
    [db EXCEPT !.native[owner][dep] = @ - amt, !.total[owner] = @ - amt]

\* check_identity_auth_for_transfer: not blacklisted, the rule is set, and
\* the account has every KYC flag the rule asks for
CheckIdentityAuthForTransfer(acc, type) ==
    /\ acc \notin Blacklisted
    /\ kycRule[type] # NoRow
    /\ kycRule[type] \subseteq KycOf[acc]

\* get_transaction_fee reads the fee contract's row; a missing row asserts
HasTransactionFee(op) == fees[op] # NoRow

\* charge_fee: the inline payfee it sends, if the fee is positive
ChargeFee(payer, op) ==
    IF fees[op] > 0 THEN <<[name |-> "payfee", payer |-> payer, amount |-> fees[op]]>>
    ELSE <<>>

NTransferAct(from, to, amt, dep) ==
    [name |-> "wpntransfer", from |-> from, to |-> to, amount |-> amt, dep |-> dep,
     payer |-> from, sys |-> TRUE]

-----------------------------------------------------------------------------
(***************************************************************************)
(* Running the head action.  Finish commits its writes and queues the     *)
(* inline actions it sent ahead of the rest; Abort undoes the transaction. *)
(* When the transaction ends, the ghosts snap, feeDue and request are      *)
(* cleared, so that idle states carry no history.                          *)
(***************************************************************************)
Finish(db, sent) ==
    LET done == sent = <<>> /\ Len(pending) = 1
    IN  /\ stats' = db.stats /\ native' = db.native /\ total' = db.total
        /\ pending' = sent \o Tail(pending)
        /\ status' = IF done THEN "committed" ELSE "running"
        /\ feeDue' = IF done THEN 0
                     ELSE feeDue + FoldLeft(LAMBDA acc, x : acc +
                              IF x.name = "payfee" THEN x.amount ELSE 0, 0, sent)
        /\ snap' = IF done THEN db ELSE snap
        /\ request' = IF done THEN NoRow ELSE request
        /\ UNCHANGED <<kycRule, fees>>

Abort(name) ==
    /\ stats' = snap.stats /\ native' = snap.native /\ total' = snap.total
    /\ pending' = <<>>
    /\ status' = name
    /\ feeDue' = 0 /\ request' = NoRow
    /\ UNCHANGED <<kycRule, fees, snap>>

Run(ok, db, sent) == IF ok THEN Finish(db, sent) ELSE Abort(Head(pending).name)
-----------------------------------------------------------------------------
(***************************************************************************)
(* The handlers, each run on the head of pending.                          *)
(***************************************************************************)
Act == Head(pending)
Min2(x, y) == IF x <= y THEN x ELSE y

\* nissue: the first issue of a depository creates its stats row without a
\* fee; later ones charge the fee and may not pass max_amount.  The issuer
\* is credited, then an inline ntransfer with system auth moves the tokens.
\* mutant: the first issue creates the stats row with a zero supply
NIssueNoFirstSupply ==
    LET a == Act
        first == stats[a.dep] = NoRow
        db == [Db EXCEPT !.stats[a.dep] = IF first THEN 0 ELSE @ + a.amount]
        sent == (IF first THEN <<>> ELSE ChargeFee(a.dep, "issue"))
                \o (IF a.to # a.dep THEN <<NTransferAct(a.dep, a.to, a.amount, a.dep)>>
                    ELSE <<>>)
    IN  /\ pending # <<>> /\ a.name = "nissue"
        /\ Run(/\ first \/ (HasTransactionFee("issue")
                            /\ stats[a.dep] + a.amount \in 1..MaxAmount)
               /\ AddNativeTokenBalanceOk(db, a.dep, a.amount, a.dep),
               AddNativeTokenBalance(db, a.dep, a.amount, a.dep), sent)

NIssue ==
    LET a == Act
        first == stats[a.dep] = NoRow
        db == [Db EXCEPT !.stats[a.dep] = Incr(@, a.amount)]
        sent == (IF first THEN <<>> ELSE ChargeFee(a.dep, "issue"))
                \o (IF a.to # a.dep THEN <<NTransferAct(a.dep, a.to, a.amount, a.dep)>>
                    ELSE <<>>)
    IN  /\ pending # <<>> /\ a.name = "nissue"
        /\ Run(/\ first \/ (HasTransactionFee("issue")
                            /\ stats[a.dep] + a.amount \in 1..MaxAmount)
               /\ AddNativeTokenBalanceOk(db, a.dep, a.amount, a.dep),
               AddNativeTokenBalance(db, a.dep, a.amount, a.dep), sent)

\* nredeem: the depository burns from its own balance, paying the fee
NRedeem ==
    LET a == Act
        db == [Db EXCEPT !.stats[a.dep] = @ - a.amount]
    IN  /\ pending # <<>> /\ a.name = "nredeem"
        /\ Run(/\ stats[a.dep] # NoRow /\ stats[a.dep] >= a.amount
               /\ HasTransactionFee("redeem")
               /\ SubNativeTokenBalanceOk(db, a.dep, a.amount, a.dep),
               SubNativeTokenBalance(db, a.dep, a.amount, a.dep),
               ChargeFee(a.dep, "redeem"))

(***************************************************************************)
(* One iteration of wptransfer's loop over from's accounts_native rows.    *)
(* The fee the queued payfee will take is deducted from the rows first,    *)
(* by calculation; what is left of a row is sent by an inline ntransfer    *)
(* (or wpntransfer when another account pays) until the amount is covered. *)
(* st = [fee, left, out].                                                  *)
(***************************************************************************)
\* mutant: the loop sends wptransfer inline instead of wpntransfer
WpTransferStepRecursive(a, st, d) ==
    LET row == native[a.from][d]
        fromBalance == IF st.fee > 0 THEN IF row <= st.fee THEN 0 ELSE row - st.fee
                       ELSE row
        fee == IF st.fee > 0 THEN IF row <= st.fee THEN st.fee - row ELSE 0 ELSE st.fee
        toBalance == Min2(fromBalance, st.left)
    IN  IF row = NoRow \/ st.left = 0 THEN st
        ELSE IF fromBalance <= 0 THEN [st EXCEPT !.fee = fee]
        ELSE [fee |-> fee, left |-> st.left - toBalance,
              out |-> Append(st.out, [NTransferAct(a.from, a.to, toBalance, d)
                                      EXCEPT !.payer = a.payer, !.name = "wptransfer"])]

\* mutant: the inline ntransfer is built with `from` and `to` swapped
WpTransferStepSwapped(a, st, d) ==
    LET row == native[a.from][d]
        fromBalance == IF st.fee > 0 THEN IF row <= st.fee THEN 0 ELSE row - st.fee
                       ELSE row
        fee == IF st.fee > 0 THEN IF row <= st.fee THEN st.fee - row ELSE 0 ELSE st.fee
        toBalance == Min2(fromBalance, st.left)
    IN  IF row = NoRow \/ st.left = 0 THEN st
        ELSE IF fromBalance <= 0 THEN [st EXCEPT !.fee = fee]
        ELSE [fee |-> fee, left |-> st.left - toBalance,
              out |-> Append(st.out, [NTransferAct(a.to, a.from, toBalance, d)
                                      EXCEPT !.payer = a.payer])]

WpTransferStep(a, st, d) ==
    LET row == native[a.from][d]
        fromBalance == IF st.fee > 0 THEN IF row <= st.fee THEN 0 ELSE row - st.fee
                       ELSE row
        fee == IF st.fee > 0 THEN IF row <= st.fee THEN st.fee - row ELSE 0 ELSE st.fee
        toBalance == Min2(fromBalance, st.left)
    IN  IF row = NoRow \/ st.left = 0 THEN st
        ELSE IF fromBalance <= 0 THEN [st EXCEPT !.fee = fee]
        ELSE [fee |-> fee, left |-> st.left - toBalance,
              out |-> Append(st.out, [NTransferAct(a.from, a.to, toBalance, d)
                                      EXCEPT !.payer = a.payer])]

\* wptransfer (and transfer, its payer = from case)
WpTransfer ==
    LET a == Act
        fee == IF a.sys THEN 0 ELSE fees["transfer"]
        loop == FoldLeft(LAMBDA st, d : WpTransferStep(a, st, d),
                         [fee |-> fee, left |-> a.amount, out |-> <<>>], DepOrder)
    IN  /\ pending # <<>> /\ a.name = "wptransfer"
        /\ Run(/\ a.sys \/ (a.from # a.to /\ HasTransactionFee("transfer"))
               /\ CheckIdentityAuthForTransfer(a.from, "send")
               /\ CheckIdentityAuthForTransfer(a.to, "receive")
               /\ total[a.from] # NoRow
               /\ fee > 0 => /\ a.amount + fee \in 1..MaxAmount
                             /\ total[a.from] >= a.amount + fee,
               Db,
               (IF a.sys THEN <<>> ELSE ChargeFee(a.payer, "transfer")) \o loop.out)

\* wpntransfer (and ntransfer, its payer = from case)
WpnTransfer ==
    LET a == Act
        db == SubNativeTokenBalance(Db, a.from, a.amount, a.dep)
    IN  /\ pending # <<>> /\ a.name = "wpntransfer"
        /\ Run(/\ a.sys \/ (a.from # a.to /\ HasTransactionFee("ntransfer"))
               /\ CheckIdentityAuthForTransfer(a.from, "send")
               /\ CheckIdentityAuthForTransfer(a.to, "receive")
               /\ SubNativeTokenBalanceOk(Db, a.from, a.amount, a.dep)
               /\ AddNativeTokenBalanceOk(db, a.to, a.amount, a.dep),
               AddNativeTokenBalance(db, a.to, a.amount, a.dep),
               IF a.sys THEN <<>> ELSE ChargeFee(a.payer, "ntransfer"))

\* one iteration of payfee's loop: take what the row holds, up to the rest
\* mutant: the loop stops after the first row it charges
PayFeeStepFirstRowOnly(a, st, d) ==
    LET row == native[a.payer][d]
    IN  IF row = NoRow \/ st.left = 0 \/ st.out # <<>> THEN st
        ELSE [left |-> st.left - Min2(row, st.left),
              out |-> Append(st.out, [name |-> "feetransfer", payer |-> a.payer,
                                      amount |-> Min2(row, st.left), dep |-> d])]

PayFeeStep(a, st, d) ==
    LET row == native[a.payer][d]
    IN  IF row = NoRow \/ st.left = 0 THEN st
        ELSE [left |-> st.left - Min2(row, st.left),
              out |-> Append(st.out, [name |-> "feetransfer", payer |-> a.payer,
                                      amount |-> Min2(row, st.left), dep |-> d])]

PayFee ==
    LET a == Act
        loop == FoldLeft(LAMBDA st, d : PayFeeStep(a, st, d),
                         [left |-> a.amount, out |-> <<>>], DepOrder)
    IN  /\ pending # <<>> /\ a.name = "payfee"
        /\ IF a.amount = 0 THEN Finish(Db, <<>>)
           ELSE Run(/\ total[a.payer] # NoRow /\ total[a.payer] >= a.amount
                    /\ CheckIdentityAuthForTransfer(a.payer, "send"),
                    Db, loop.out)

FeeTransfer ==
    LET a == Act
        db == SubNativeTokenBalance(Db, a.payer, a.amount, a.dep)
    IN  /\ pending # <<>> /\ a.name = "feetransfer"
        /\ Run(/\ SubNativeTokenBalanceOk(Db, a.payer, a.amount, a.dep)
               /\ AddNativeTokenBalanceOk(db, FeeAccount, a.amount, a.dep),
               AddNativeTokenBalance(db, FeeAccount, a.amount, a.dep), <<>>)
-----------------------------------------------------------------------------
(***************************************************************************)
(* Transactions.  A user submits one of the contract's actions; `sys`      *)
(* says whether YOSEMITE_SYSTEM_ACCOUNT also signed (has_auth).  payfee and *)
(* feetransfer need the system or the contract's own authority and are     *)
(* only sent inline.                                                       *)
(***************************************************************************)
TopLevel ==
    [name : {"nissue"}, to : Users, amount : Amounts, dep : Depositories]
    \cup [name : {"nredeem"}, amount : Amounts, dep : Depositories]
    \cup [name : {"wptransfer"}, from : Users, to : Users, amount : Amounts,
          payer : Users, sys : BOOLEAN]
    \cup [name : {"wpntransfer"}, from : Users, to : Users, amount : Amounts,
          dep : Depositories, payer : Users, sys : BOOLEAN]

Submit(act) ==
    /\ pending = <<>>
    /\ pending' = <<act>>
    /\ snap' = Db
    /\ status' = "running"
    /\ feeDue' = 0
    /\ request' = act
    /\ UNCHANGED <<stats, native, total, kycRule, fees>>

\* setkycrule: system-signed, its own transaction
SetKycRule(type, kyc) ==
    /\ pending = <<>>
    /\ kycRule' = [kycRule EXCEPT ![type] = kyc]
    /\ UNCHANGED <<stats, native, total, fees, pending, snap, status, feeDue, request>>

\* mutant: the negative-fee assertion dropped
SetFeeAnyValue(op, fee) ==
    /\ pending = <<>>
    /\ fees' = [fees EXCEPT ![op] = fee]
    /\ UNCHANGED <<stats, native, total, kycRule, pending, snap, status, feeDue, request>>

\* fee_contract::setfee: a non-negative fee for a known operation
SetFee(op, fee) ==
    /\ pending = <<>>
    /\ fee >= 0
    /\ fees' = [fees EXCEPT ![op] = fee]
    /\ UNCHANGED <<stats, native, total, kycRule, pending, snap, status, feeDue, request>>

Next ==
    \/ \E act \in TopLevel : Submit(act)
    \/ NIssue \/ NRedeem \/ WpTransfer \/ WpnTransfer \/ PayFee \/ FeeTransfer
    \/ \E type \in KycTypes, kyc \in KycValues : SetKycRule(type, kyc)
    \/ \E op \in FeeOps, fee \in FeeValues : SetFee(op, fee)

Spec == Init /\ [][Next]_vars

\* apply_context runs the queued inline actions one after another, each as
\* soon as the one before it returns; nothing else runs in between
Execute == NIssue \/ NRedeem \/ WpTransfer \/ WpnTransfer \/ PayFee \/ FeeTransfer

FairSpec == Spec /\ WF_vars(Execute)

-----------------------------------------------------------------------------
Held(row) == IF row = NoRow THEN 0 ELSE row
Holding(db, acc) == Held(db.total[acc])

(***************************************************************************)
(* SupplyMatchesBalances: the stats_native supply of every depository      *)
(* equals the sum of its accounts_native rows, after every action,         *)
(* including the middle of a transaction and after an abort.               *)
(***************************************************************************)
SupplyMatchesBalances ==
    \A d \in Depositories :
        Held(stats[d]) = MapThenSumSet(LAMBDA a : Held(native[a][d]), Accounts)

(***************************************************************************)
(* TotalMatchesRows: every account's accounts_native_total row is the sum  *)
(* of its per-depository rows, and exists exactly when one of them does.   *)
(***************************************************************************)
TotalMatchesRows ==
    \A a \in Accounts :
        /\ (total[a] = NoRow) <=> (\A d \in Depositories : native[a][d] = NoRow)
        /\ Held(total[a]) = MapThenSumSet(LAMBDA d : Held(native[a][d]), Depositories)

(***************************************************************************)
(* FeeCollected: when a transaction commits, the fee account has received  *)
(* exactly the fees its actions charged through charge_fee: payfee's       *)
(* feetransfers, sent row by row in depository order, deliver it all, and  *)
(* wptransfer's own deduction of the fee leaves it to them.                *)
(***************************************************************************)
Commits == status = "running" /\ status' = "committed"

FeeCollected ==
    [][Commits => Holding(Db', FeeAccount) = Holding(snap, FeeAccount) + feeDue]_vars

(***************************************************************************)
(* TransferExact: a committed wptransfer (or transfer) moves exactly the   *)
(* requested amount from `from` to `to`; asserting the balance, as it does  *)
(* when a fee is charged, is the only way the loop can run short.          *)
(***************************************************************************)
TransferExact ==
    [][Commits /\ request.name = "wptransfer" /\ request.to \notin {request.from, request.payer}
         => Holding(Db', request.to) = Holding(snap, request.to) + request.amount]_vars

(***************************************************************************)
(* FeeTransferNeverAborts ("Assume that payfee operation is called only"): *)
(* payfee has asserted that the payer's total covers the fee, so the       *)
(* feetransfers it sends, row by row, never fail.                          *)
(***************************************************************************)
FeeTransferNeverAborts == status # "feetransfer"

(***************************************************************************)
(* TransactionCompletes: a submitted transaction eventually commits or     *)
(* aborts on an assertion of its own: the inline actions its handlers send *)
(* form a finite tree, without relying on the runtime's limit on inline    *)
(* action depth or on the transaction deadline.                            *)
(***************************************************************************)
TransactionCompletes == status = "running" ~> status # "running"

(***************************************************************************)
(* The native ledger this contract implements.  What other transactions   *)
(* and users see of the tables is what the last transaction committed,     *)
(* snap, which Finish replaces at commit and Abort leaves alone; the      *)
(* request of the transaction in flight is the ghost `request`.            *)
(***************************************************************************)
Ledger == INSTANCE NativeLedger WITH
    balance  <- [a \in Accounts |-> [d \in Depositories |-> Held(snap.native[a][d])]],
    supply   <- [d \in Depositories |-> Held(snap.stats[d])],
    inflight <- request,
    Requests <- TopLevel,
    NoRequest <- NoRow

(***************************************************************************)
(* ImplementsNativeLedger: every behaviour of the contract, inline actions *)
(* and rollbacks included, is a behaviour of NativeLedger.  A transaction  *)
(* commits as one step that conserves each depository's token except for   *)
(* the amount its nissue or nredeem names, debits only the depository, or *)
(* `from` and `payer`, and credits only `to` and the fee account; the      *)
(* inline wpntransfer, payfee and feetransfer carry system or contract     *)
(* authority, so nothing but the handlers' choice of accounts confines     *)
(* them.                                                                   *)
(***************************************************************************)
ImplementsNativeLedger == Ledger!Spec
=============================================================================
