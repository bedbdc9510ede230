---------------------------- MODULE MCTaskPayment ----------------------------
(* Small instances of TaskPayment for TLC; the cfgs give the values.        *)
EXTENDS TaskPaymentInv, TLC

(* Requests are told apart by nothing but their names.                      *)
RequestSymmetry == Permutations(Requests)
=============================================================================
