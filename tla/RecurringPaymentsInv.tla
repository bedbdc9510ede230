------------------------ MODULE RecurringPaymentsInv ------------------------
(***************************************************************************)
(* The inductive invariant behind the safety properties of                 *)
(* RecurringPayments: what a run of the processor knows of the payments it *)
(* selected, and which payments have a transfer that is not booked yet.    *)
(***************************************************************************)
EXTENDS RecurringPayments

Working     == run.pc \notin {"idle", "next"}
At(p, pcs)  == run.cur = p /\ run.pc \in pcs
Selected(p) == \E b \in run.left : b[1] = p
ToSend(p)   == Selected(p) \/ At(p, {"check", "send"})

(* The batch and the payment at work are due, with their own due date, and *)
(* no payment is in the batch and at work at once.                         *)
RunInv ==
  /\ run.pc = "idle" => run.left = {}
  /\ \A b \in run.left : /\ b[2] = salary[b[1]].due
                         /\ b[2] <= day
                         /\ salary[b[1]].status # "none"
  /\ Working => /\ run.cur \in Payments
                /\ run.due <= day
                /\ run.pc \in {"check", "send", "record", "advance"} =>
                     run.due = salary[run.cur].due
                /\ salary[run.cur].status # "none"
                /\ ~Selected(run.cur)

(* Each of the five steps of the processor is ahead of the next one.       *)
BooksInv ==
  /\ BooksTrailTransfers
  /\ run.pc = "record"  => rows[run.cur] < sent[run.cur]
  /\ run.pc = "advance" => count[run.cur] < rows[run.cur]
  /\ run.pc = "release" => released[run.cur] < count[run.cur]
  /\ run.pc = "deduct"  => deducted[run.cur] < released[run.cur]

(* Nothing is sent before today's timer, nor twice in the run it started,  *)
(* and what is written after a transfer is about one of today.             *)
DayInv ==
  /\ OncePerDay
  /\ ~fired => timer /\ run.pc = "idle" /\ \A p \in Payments : today[p] = 0
  /\ \A p \in Payments : ToSend(p) => today[p] = 0
  /\ run.pc \in {"record", "advance", "release", "deduct"} => today[run.cur] > 0

(* A payment that will be sent, or may be selected, has no unbooked        *)
(* transfer but those the owner or a lost run accounts for.                *)
CauseInv ==
  /\ RepeatsNeedCause
  /\ \A p \in Payments :
       /\ salary[p].status = "none" => sent[p] = 0
       /\ ToSend(p) => sent[p] <= count[p] + resumed[p] + lost
       /\ salary[p].status = "ACTIVE" /\ ~At(p, {"record", "advance", "fail"}) =>
            sent[p] <= count[p] + resumed[p] + lost

(* Paid once a day from the first due date on, which comes first, and no   *)
(* period before there is a salary.                                        *)
ScheduleInv ==
  /\ NoSalaryAhead /\ PaydaysKeep
  /\ \A p \in Payments :
       /\ salary[p].status = "none" => count[p] = 0
       /\ salary[p].first <= salary[p].due
       /\ sent[p] = 0 \/ salary[p].first + sent[p] <= day + today[p]

PayrollInv ==
  TypeOK /\ RunInv /\ BooksInv /\ DayInv /\ CauseInv /\ ScheduleInv

-----------------------------------------------------------------------------
(* A payment that today's run should pay and will not: it is due, not paid *)
(* today, and the processor is past it.                                    *)
InHands(p)  == ToSend(p) \/ At(p, {"pause", "fail"})
PassedBy(p) == Due(p) /\ fired /\ today[p] = 0 /\ ~InHands(p)

(* No due salary is passed by, however the owner's requests fall into a    *)
(* run, unless the owner makes it due after the run selected its batch, a  *)
(* crash or an aborted run loses it, the row of the payment at work is     *)
(* deleted, for which the catch block throws, or the day begins under a    *)
(* server that came up without Redis and has no timer: the safety behind   *)
(* DueIsServed.                                                            *)
DueIsTakenUp ==
  [][\A p \in Payments : ~PassedBy(p) /\ PassedBy(p)' =>
       \/ ~Due(p) /\ salary'[p] # salary[p]
       \/ lost' > lost
       \/ run.pc = "fail" /\ ~Exists(run.cur)
       \/ day' > day /\ ~timer]_vars
=============================================================================
