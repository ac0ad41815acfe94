-------------------------- MODULE MCStandardToken --------------------------
(* Model of StandardToken: two tokens, a plain account and the fee         *)
(* account; weights 0.5x and 1x so that every charge is positive; supply   *)
(* bounded by 3 so that fees, partial charges and failures all occur.      *)
EXTENDS StandardToken

MCTextSizes == {1}
MCAmounts == {1, 2}
MCFeeAmounts == {1, 2}
MCWeights == {5000, 10000}
MCWeight1x == 10000
MCMaxSystemTokens == 2
MCMaxSupply == 3

\* weights 1x and 2x: a 2x token is worth two fee units per unit
MCWeightsDouble == {10000, 20000}
=============================================================================
