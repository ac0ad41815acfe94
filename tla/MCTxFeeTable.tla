---------------------------- MODULE MCTxFeeTable ----------------------------
(***************************************************************************)
(* The fee table written through the fee intrinsics of the dispatcher      *)
(* (IntrinsicGate).  One contract besides the empty name and one action    *)
(* besides the empty name give the four keys of the fallback chain; a      *)
(* negative value and an unsupported fee type exercise the setter's        *)
(* assertions.  The system account and one user run actions; chain         *)
(* configurations, system-token lists and resource limits have two valid *)
(* values each and one the code rejects.                                   *)
(***************************************************************************)
EXTENDS IntrinsicGate

MCFeeValues == {-1, 0, 1}
MCBuiltinFee == 10000
MCLimitValues == {-2, 0}

(***************************************************************************)
(* LookupIsMostSpecific: get_tx_fee_for_action, through its chain of three *)
(* fallbacks, returns the row of the most specific configured key, for     *)
(* every table the fee intrinsics can leave behind, rolled-back calls      *)
(* included.                                                               *)
(***************************************************************************)
LookupIsMostSpecific == F!LookupIsMostSpecific
=============================================================================
