-------------------------- MODULE RecurringPayments --------------------------
(***************************************************************************)
(* Salaries: recurring payments are created, paused, resumed and cancelled *)
(* over HTTP (routes/recurring-payments.ts, routes/payment-config.ts) and  *)
(* paid by processRecurringPayments, which a timer of index.ts starts at   *)
(* midnight UTC.                                                           *)
(*                                                                         *)
(* One step per await of the processor.  Each HTTP handler here makes one  *)
(* unconditional update and uses what it read before only to refuse, so it *)
(* is one step.  The timer is set when the server starts, and only if      *)
(* Redis answered connectRedis by then; a server without it runs on.       *)
(*                                                                         *)
(* Time is counted in days; a run is assumed to end before the next        *)
(* midnight.  Amounts, escrow and wallet decide only whether a payment is  *)
(* possible, which the model leaves open at every check.                   *)
(***************************************************************************)
EXTENDS Calendar, FiniteSets

CONSTANTS
  Payments,      \* recurring payments that may be created
  MaxDay,        \* bound: the last day of the model
  Terms,         \* bound: frequencies and start dates that may be asked for
  MaxLosses,     \* bound: crashes and aborted runs
  MaxResumes,    \* bound: none is resumed once one was this often
  NoPayment      \* no payment is being processed

ASSUME PayrollAssumption ==
  /\ MaxDay \in Dates
  /\ Terms \subseteq Frequencies \X (0 .. MaxDay)
  /\ \A d \in 0 .. MaxDay, f \in Frequencies : NextDate(d, f) \in Dates
  /\ MaxLosses \in Nat
  /\ MaxResumes \in Nat
  /\ NoPayment \notin Payments

Days     == 0 .. MaxDay
Statuses == {"none", "ACTIVE", "PAUSED", "CANCELLED", "removed"}
RunPCs   == {"idle", "next", "check", "pause", "send", "record", "advance",
             "release", "deduct", "fail"}

Salaries == [status : Statuses, frequency : Frequencies,
             first : Dates, due : Dates]
(* The processor: its place, its batch, the payment at work and that       *)
(* payment's due date as it was when the batch was selected.               *)
RunRecords == [pc : RunPCs, left : SUBSET (Payments \X Dates),
               cur : Payments \cup {NoPayment}, due : Dates]

VARIABLES
  day,        \* days since the start
  timer,      \* the server that runs has set scheduleDailyPayments' timer
  fired,      \* today's timer has fired, or there is none
  salary,     \* the RecurringPayment rows, with the first and the next due date
  count,      \* paymentCount; totalPaid and lastPaidDate change with it
  run,        \* processRecurringPayments between two awaits
  sent,       \* transfers submitted for a payment
  today,      \* of these, the ones submitted today
  rows,       \* SALARY_PAYMENT rows, all written as CONFIRMED
  released,   \* how often the amount was added to project.releasedFunds
  deducted,   \* how often it was taken from escrow.currentBalance
  resumed,    \* how often the owner resumed the payment
  lost        \* crashes and aborted runs so far

money == <<sent, today, rows, released, deducted>>
vars  == <<day, timer, fired, salary, count, run, money, resumed, lost>>

NoSalary == [status |-> "none", frequency |-> "other", first |-> 0, due |-> 0]
IdleRun  == [pc |-> "idle", left |-> {}, cur |-> NoPayment, due |-> 0]
Zero     == [p \in Payments |-> 0]
Exists(p) == salary[p].status \notin {"none", "removed"}

Init ==
  /\ day = 0
  /\ timer \in BOOLEAN
  /\ fired = TRUE
  /\ salary = [p \in Payments |-> NoSalary]
  /\ run = IdleRun
  /\ count = Zero /\ resumed = Zero
  /\ sent = Zero /\ today = Zero
  /\ rows = Zero /\ released = Zero /\ deducted = Zero
  /\ lost = 0

-----------------------------------------------------------------------------
(* The owner's requests                                                    *)

(* POST recurring-payments, POST payment-config of a SALARY and an invite  *)
(* with salary terms: the first due date is one period after a start date  *)
(* that may lie in the past, and the frequency is stored as it comes.      *)
CreateSalary(p, frequency, start) ==
  /\ salary[p].status = "none"
  /\ salary' = [salary EXCEPT ![p] =
                  [status |-> "ACTIVE", frequency |-> frequency,
                   first |-> NextDate(start, frequency),
                   due |-> NextDate(start, frequency)]]
  /\ UNCHANGED <<day, timer, fired, count, run, money, resumed, lost>>

SetStatus(p, s) == salary' = [salary EXCEPT ![p].status = s]

Pause(p) ==
  /\ Exists(p)
  /\ SetStatus(p, "PAUSED")
  /\ UNCHANGED <<day, timer, fired, count, run, money, resumed, lost>>

(* Whatever the status was: a cancelled payment is resumed as well.        *)
Resume(p) ==
  /\ Exists(p)
  /\ \A q \in Payments : resumed[q] < MaxResumes
  /\ resumed' = [resumed EXCEPT ![p] = @ + 1]
  /\ SetStatus(p, "ACTIVE")
  /\ UNCHANGED <<day, timer, fired, count, run, money, lost>>

Cancel(p) ==
  /\ Exists(p)
  /\ SetStatus(p, "CANCELLED")
  /\ UNCHANGED <<day, timer, fired, count, run, money, resumed, lost>>

(* The member's UserRole is deleted; the payment goes with it (Cascade).   *)
RemoveRole(p) ==
  /\ Exists(p)
  /\ SetStatus(p, "removed")
  /\ UNCHANGED <<day, timer, fired, count, run, money, resumed, lost>>

-----------------------------------------------------------------------------
(* processRecurringPayments                                                *)

Due(p) == salary[p].status = "ACTIVE" /\ salary[p].due <= day

Batch(ps) == {<<p, salary[p].due>> : p \in ps}

(* Mutants of StartRun: a day too early, and a timer that is not repeated. *)
StartRunEarly ==
  /\ run.pc = "idle"
  /\ ~fired
  /\ fired' = TRUE
  /\ run' = [run EXCEPT !.pc = "next",
       !.left = Batch({p \in Payments : salary[p].status = "ACTIVE"
                                         /\ salary[p].due <= day + 1})]
  /\ UNCHANGED <<day, timer, salary, count, money, resumed, lost>>

StartRunOnce ==
  /\ run.pc = "idle"
  /\ ~fired
  /\ fired' = TRUE
  /\ run' = IF day > 1 THEN run
            ELSE [run EXCEPT !.pc = "next",
                             !.left = Batch({p \in Payments : Due(p)})]
  /\ UNCHANGED <<day, timer, salary, count, money, resumed, lost>>

(* The payments due, with the due dates they have now.                     *)
StartRun ==
  /\ run.pc = "idle"
  /\ ~fired
  /\ fired' = TRUE
  /\ run' = [run EXCEPT !.pc = "next",
                        !.left = Batch({p \in Payments : Due(p)})]
  /\ UNCHANGED <<day, timer, salary, count, money, resumed, lost>>

NextPayment ==
  /\ run.pc = "next"
  /\ \/ /\ run.left = {}
        /\ run' = IdleRun
     \/ \E b \in run.left :
          run' = [pc |-> "check", left |-> run.left \ {b},
                  cur |-> b[1], due |-> b[2]]
  /\ UNCHANGED <<day, timer, fired, salary, count, money, resumed, lost>>

Goto(pc) == run' = [run EXCEPT !.pc = pc]

(* No escrow, a balance too low (or read as 0 because the node does not    *)
(* answer), no wallet: the payment is paused.                              *)
CheckPayment ==
  /\ run.pc = "check"
  /\ Goto("pause") \/ Goto("send")
  /\ UNCHANGED <<day, timer, fired, salary, count, money, resumed, lost>>

(* Mutant: the catch block only logs.                                      *)
PauseSkipped ==
  /\ run.pc \in {"pause", "fail"}
  /\ Goto("next")
  /\ UNCHANGED <<day, timer, fired, salary, count, money, resumed, lost>>

(* Mutant: the loop returns after a pause.                                 *)
PausePaymentReturns ==
  /\ run.pc \in {"pause", "fail"}
  /\ \/ /\ Exists(run.cur)
        /\ SetStatus(run.cur, "PAUSED")
        /\ run' = IdleRun
     \/ /\ run.pc = "pause"
        /\ Goto("fail")
        /\ UNCHANGED salary
  /\ UNCHANGED <<day, timer, fired, count, money, resumed, lost>>

(* pausePayment throws when the row is gone or the database does not       *)
(* answer; inside the catch block that ends the whole run.                 *)
PausePayment ==
  /\ run.pc \in {"pause", "fail"}
  /\ \/ /\ Exists(run.cur)
        /\ SetStatus(run.cur, "PAUSED")
        /\ Goto("next")
        /\ UNCHANGED lost
     \/ /\ run.pc = "pause"
        /\ Goto("fail")
        /\ UNCHANGED <<salary, lost>>
     \/ /\ run.pc = "fail"
        /\ lost < MaxLosses \/ ~Exists(run.cur)
        /\ lost' = IF Exists(run.cur) THEN lost + 1 ELSE lost
        /\ run' = IdleRun
        /\ UNCHANGED salary
  /\ UNCHANGED <<day, timer, fired, count, money, resumed>>

(* createPaymentTransaction, which may throw before or after the transfer  *)
(* was submitted.                                                          *)
SendSalary ==
  /\ run.pc = "send"
  /\ \/ /\ sent' = [sent EXCEPT ![run.cur] = @ + 1]
        /\ today' = [today EXCEPT ![run.cur] = @ + 1]
        /\ Goto("record") \/ Goto("fail")
     \/ /\ Goto("fail")
        /\ UNCHANGED <<sent, today>>
  /\ UNCHANGED <<day, timer, fired, salary, count, rows, released, deducted,
                 resumed, lost>>

(* The four writes after the transfer, each of which may fail.             *)
RecordSalary ==
  /\ run.pc = "record"
  /\ \/ /\ rows' = [rows EXCEPT ![run.cur] = @ + 1]
        /\ Goto("advance")
     \/ /\ Goto("fail")
        /\ UNCHANGED rows
  /\ UNCHANGED <<day, timer, fired, salary, count, sent, today, released,
                 deducted, resumed, lost>>

(* nextPaymentDate becomes the date that follows d.                        *)
SetDue(p, d) ==
  salary' = [salary EXCEPT ![p].due = NextDate(d, salary[p].frequency)]

(* Mutants: an error of the schedule's update is swallowed, and the next   *)
(* period is counted from today.                                           *)
AdvanceSwallowed ==
  /\ run.pc = "advance"
  /\ IF Exists(run.cur)
       THEN /\ SetDue(run.cur, run.due)
            /\ count' = [count EXCEPT ![run.cur] = @ + 1]
       ELSE UNCHANGED <<salary, count>>
  /\ Goto("release")
  /\ UNCHANGED <<day, timer, fired, money, resumed, lost>>

AdvanceFromToday ==
  /\ run.pc = "advance"
  /\ \/ /\ Exists(run.cur)
        /\ SetDue(run.cur, day)
        /\ count' = [count EXCEPT ![run.cur] = @ + 1]
        /\ Goto("release")
     \/ /\ Goto("fail")
        /\ UNCHANGED <<salary, count>>
  /\ UNCHANGED <<day, timer, fired, money, resumed, lost>>

AdvanceSchedule ==
  /\ run.pc = "advance"
  /\ \/ /\ Exists(run.cur)
        /\ SetDue(run.cur, run.due)
        /\ count' = [count EXCEPT ![run.cur] = @ + 1]
        /\ Goto("release")
     \/ /\ Goto("fail")
        /\ UNCHANGED <<salary, count>>
  /\ UNCHANGED <<day, timer, fired, money, resumed, lost>>

ReleaseFunds ==
  /\ run.pc = "release"
  /\ \/ /\ released' = [released EXCEPT ![run.cur] = @ + 1]
        /\ Goto("deduct")
     \/ /\ Goto("fail")
        /\ UNCHANGED released
  /\ UNCHANGED <<day, timer, fired, salary, count, sent, today, rows, deducted,
                 resumed, lost>>

DeductBalance ==
  /\ run.pc = "deduct"
  /\ \/ /\ deducted' = [deducted EXCEPT ![run.cur] = @ + 1]
        /\ Goto("next")
     \/ /\ Goto("fail")
        /\ UNCHANGED deducted
  /\ UNCHANGED <<day, timer, fired, salary, count, sent, today, rows, released,
                 resumed, lost>>

-----------------------------------------------------------------------------
(* The clock and crashes                                                   *)

(* Midnight UTC: scheduleDailyPayments' timer is due, if it was ever set.  *)
Midnight ==
  /\ day < MaxDay
  /\ run.pc = "idle"
  /\ fired
  /\ day' = day + 1
  /\ fired' = ~timer
  /\ today' = [p \in Payments |-> 0]
  /\ UNCHANGED <<timer, salary, count, run, sent, rows, released, deducted,
                 resumed, lost>>

(* Mutant: the server runs the processor when it starts.                   *)
CrashRearmed ==
  /\ lost < MaxLosses
  /\ lost' = lost + 1
  /\ timer' \in BOOLEAN
  /\ fired' = FALSE
  /\ run' = IdleRun
  /\ UNCHANGED <<day, salary, count, money, resumed>>

(* A restarted server waits for the next midnight; it does so for ever if  *)
(* connectRedis threw, for then it sets no timer.                          *)
Crash ==
  /\ lost < MaxLosses
  /\ lost' = lost + 1
  /\ timer' \in BOOLEAN
  /\ fired' = TRUE
  /\ run' = IdleRun
  /\ UNCHANGED <<day, salary, count, money, resumed>>

Process == \/ StartRun \/ NextPayment \/ CheckPayment \/ PausePayment
           \/ SendSalary \/ RecordSalary \/ AdvanceSchedule \/ ReleaseFunds
           \/ DeductBalance

Owner == \E p \in Payments : \/ \E t \in Terms : CreateSalary(p, t[1], t[2])
                             \/ Pause(p) \/ Resume(p) \/ Cancel(p) \/ RemoveRole(p)

Next == Owner \/ Process \/ Midnight \/ Crash

Spec == Init /\ [][Next]_vars

(* Time goes on, and so does a run; the owner owes nothing, and nothing    *)
(* brings a missing timer back.                                            *)
FairSpec == Spec /\ WF_vars(Process) /\ WF_vars(Midnight)

-----------------------------------------------------------------------------
(* Types of the variables.                                                 *)
TypeOK ==
  /\ day \in Days
  /\ timer \in BOOLEAN
  /\ fired \in BOOLEAN
  /\ salary \in [Payments -> Salaries]
  /\ run \in RunRecords
  /\ \A c \in {count, sent, today, rows, released, deducted, resumed} :
       c \in [Payments -> Nat]
  /\ lost \in 0 .. MaxLosses

(* The books never run ahead of the transfers: whichever of the            *)
(* processor's five steps fails or is cut off by a crash, what is counted  *)
(* as deducted, released, paid and recorded was sent at least that often.  *)
BooksTrailTransfers ==
  \A p \in Payments :
    /\ deducted[p] <= released[p] /\ released[p] <= count[p]
    /\ count[p] <= rows[p] /\ rows[p] <= sent[p]

(* However overdue a payment is, and however often the server restarts, a  *)
(* day sees at most one transfer of it: a backlog is paid day by day.      *)
OncePerDay == \A p \in Payments : today[p] <= 1

(* A failed payment is not sent again by itself: beyond the one transfer   *)
(* that may be unbooked, each repeated transfer of a period takes a resume *)
(* by the owner, a crash or an aborted run (processor's catch block).      *)
RepeatsNeedCause ==
  \A p \in Payments : sent[p] <= count[p] + 1 + resumed[p] + lost

(* No salary in advance: apart from such repeats, no more transfers than   *)
(* periods that have fallen due since the first due date; a salary whose   *)
(* frequency is none of the three is paid for every day.                   *)
Span(frequency) ==
  CASE frequency = "WEEKLY"   -> Week
    [] frequency = "BIWEEKLY" -> 2 * Week
    [] OTHER                  -> 1
PeriodsBy(d, s) ==
  CASE d < s.first -> 0
    [] d >= s.first /\ s.frequency = "MONTHLY" ->
         MonthOf[d] - MonthOf[s.first] + 1
    [] OTHER -> (d - s.first) \div Span(s.frequency) + 1
NoSalaryAhead ==
  \A p \in Payments : sent[p] <= PeriodsBy(day, salary[p]) + resumed[p] + lost

(* Paydays do not drift, however late a payment is and however often it is *)
(* paused or tried again: the next one is count periods after the first.   *)
(* A monthly one keeps its day of the month; on a day that some month      *)
(* lacks it slides once, into the month after, and stays there.  A         *)
(* frequency the processor does not know leaves the payment due for good.  *)
OnSchedule(s, n) ==
  CASE s.frequency \in {"WEEKLY", "BIWEEKLY"} ->
         s.due = s.first + n * Span(s.frequency)
    [] s.frequency = "MONTHLY" ->
         \/ /\ MonthOf[s.due] = MonthOf[s.first] + n
            /\ DayOf(s.due) = DayOf(s.first)
         \/ /\ ~FitsEveryMonth(s.first) /\ FitsEveryMonth(s.due)
            /\ MonthOf[s.due] = MonthOf[s.first] + n + 1
    [] OTHER -> s.due = s.first
PaydaysKeep ==
  \A p \in Payments :
    salary[p].status # "none" => OnSchedule(salary[p], count[p])

(* A due payment is sent or leaves ACTIVE within the next runs: one lost   *)
(* run per crash, and one per payment removed in the middle of a run.      *)
(* Unless the server came up without Redis: it then never pays anything,   *)
(* and nothing but another restart changes that.                           *)
DueIsServed ==
  \A p \in Payments :
    (Due(p) /\ day + MaxLosses + Cardinality(Payments \ {p}) < MaxDay)
       ~> (today[p] > 0 \/ salary[p].status # "ACTIVE" \/ ~timer)

=============================================================================
