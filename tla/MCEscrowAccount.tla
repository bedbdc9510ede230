--------------------------- MODULE MCEscrowAccount ---------------------------
(* Small instances of EscrowAccount for TLC; the cfgs give the values.       *)
EXTENDS EscrowAccountInv, TLC

EscrowSymmetry == Permutations(Requests) \cup Permutations(Empty)
                    \cup Permutations(Deposits \ Empty)
=============================================================================
