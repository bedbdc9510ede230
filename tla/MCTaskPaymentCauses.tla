------------------------- MODULE MCTaskPaymentCauses -------------------------
(* A small instance of TaskPaymentCauses: interchangeable requests.        *)
EXTENDS TaskPaymentCauses, TLC

RequestSymmetry == Permutations(Requests)

(* Bound: a job is run again once, after a failed attempt or a stall.      *)
TwoRuns == \A j \in Jobs : job[j].state \in Live => RunOf(j) <= 2
=============================================================================
