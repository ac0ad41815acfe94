----------------------------- MODULE NativeLedger -----------------------------
(***************************************************************************)
(* What the native token promises its users, without tables, inline       *)
(* actions or fees: each account holds an amount of each depository's     *)
(* token, each depository has a supply, and a transaction that one         *)
(* request starts either leaves everything as it was or settles at once.   *)
(* Nothing a transaction does in between is visible.                       *)
(*                                                                         *)
(* A settling transaction conserves every depository's token, except that  *)
(* an issue adds the amount to its depository's supply and a redeem takes  *)
(* it away; it lowers only the holdings of the accounts that signed for or *)
(* pay for the request, and raises only those of the recipient and of the  *)
(* fee account.                                                            *)
(***************************************************************************)
EXTENDS Integers, FiniteSetsExt

CONSTANTS Accounts, Depositories, FeeAccount, MaxAmount,
          Requests,      \* the top-level actions a transaction may start with
          NoRequest      \* no transaction in flight

VARIABLES balance,       \* balance[acc][dep]: acc's holding of dep's token
          supply,        \* supply[dep]: the amount of dep's token issued
          inflight       \* the request of the transaction in flight

vars == <<balance, supply, inflight>>

Init ==
    /\ balance = [a \in Accounts |-> [d \in Depositories |-> 0]]
    /\ supply = [d \in Depositories |-> 0]
    /\ inflight = NoRequest

\* the change a request makes to the supply of depository d
Minted(r, d) ==
    IF r.name \notin {"nissue", "nredeem"} \/ r.dep # d THEN 0
    ELSE IF r.name = "nissue" THEN r.amount ELSE -r.amount

\* who may lose tokens: the signer of the request and the payer of its fee
Payers(r) == IF r.name \in {"nissue", "nredeem"} THEN {r.dep} ELSE {r.from, r.payer}

\* who may gain tokens: the recipient and the fee account
Payees(r) == IF r.name = "nredeem" THEN {FeeAccount} ELSE {r.to, FeeAccount}

Begin(r) ==
    /\ inflight = NoRequest
    /\ inflight' = r
    /\ UNCHANGED <<balance, supply>>

Cancel ==
    /\ inflight # NoRequest
    /\ inflight' = NoRequest
    /\ UNCHANGED <<balance, supply>>

Settle ==
    LET r == inflight
    IN  /\ r # NoRequest
        /\ inflight' = NoRequest
        /\ balance' \in [Accounts -> [Depositories -> 0 .. MaxAmount]]
        /\ supply' = [d \in Depositories |-> supply[d] + Minted(r, d)]
        /\ \A d \in Depositories :
              MapThenSumSet(LAMBDA a : balance'[a][d] - balance[a][d], Accounts)
                  = Minted(r, d)
        /\ \A a \in Accounts, d \in Depositories :
              /\ balance'[a][d] < balance[a][d] => a \in Payers(r)
              /\ balance'[a][d] > balance[a][d] => a \in Payees(r)

Next == (\E r \in Requests : Begin(r)) \/ Cancel \/ Settle

Spec == Init /\ [][Next]_vars
=============================================================================
