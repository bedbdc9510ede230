------------------------- MODULE MCRecurringPayments -------------------------
(* Small instances of RecurringPayments for TLC; the cfgs give the values.   *)
EXTENDS RecurringPaymentsInv, TLC

PaymentSymmetry == Permutations(Payments)

(* Months of 2, 2, 1 and 2 days, and a week of one: every second day of a    *)
(* month is one that the third month lacks.                                  *)
Starts == (0 :> 0) @@ (1 :> 2) @@ (2 :> 4) @@ (3 :> 5) @@ (4 :> 7)

AllTerms == {<<"WEEKLY", 1>>, <<"MONTHLY", 0>>, <<"MONTHLY", 1>>, <<"other", 3>>}
WeeklyTerms == {<<"WEEKLY", 0>>}
=============================================================================
