------------------------------ MODULE MCNToken ------------------------------
(* Model of NToken: two depositories and one plain user, the fee account, *)
(* max_amount scaled down to 2 so that its assertions are reachable.       *)
EXTENDS NToken

CONSTANTS D1, D2   \* the depositories, in primary-key order

MCDepOrder == <<D1, D2>>
MCAmounts == {1, 2}
MCFeeValues == {-1, 1}
MCKycOf == [a \in Accounts |-> {"kyc"}]
=============================================================================
