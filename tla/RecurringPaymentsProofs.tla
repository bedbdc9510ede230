----------------------- MODULE RecurringPaymentsProofs -----------------------
(***************************************************************************)
(* Proofs about module RecurringPayments: its safety properties for any    *)
(* number of salaries, any calendar and any number of days, crashes and      *)
(* resumes.                                                                *)
(***************************************************************************)
EXTENDS RecurringPaymentsInv, TLAPS

(* What the updates of the specification do.                               *)
LEMMA Increment ==
  ASSUME NEW f \in [Payments -> Nat], NEW p \in Payments, NEW g,
         g = [f EXCEPT ![p] = @ + 1]
  PROVE  /\ g \in [Payments -> Nat]
         /\ g[p] = f[p] + 1
         /\ \A q \in Payments : q # p => g[q] = f[q]
  OBVIOUS

LEMMA GotoIs ==
  ASSUME run \in RunRecords, NEW pc \in RunPCs, Goto(pc)
  PROVE  /\ run' \in RunRecords
         /\ run'.pc = pc /\ run'.left = run.left
         /\ run'.cur = run.cur /\ run'.due = run.due
  BY DEF Goto, RunRecords

LEMMA DaysAreDates ==
  MaxDay \in Nat /\ Days \subseteq Dates /\ Days \subseteq Nat
  <1>1. MaxDay \in 0 .. LastDate /\ LastDate \in Nat
    BY PayrollAssumption, CalendarAssumption DEF Dates
  <1> QED
    BY <1>1 DEF Days, Dates

LEMMA IdleRunIs ==
  /\ IdleRun \in RunRecords
  /\ IdleRun.pc = "idle" /\ IdleRun.left = {} /\ IdleRun.cur = NoPayment
  <1>1. 0 \in Dates
    BY CalendarAssumption DEF Dates
  <1> QED
    BY <1>1 DEF IdleRun, RunRecords, RunPCs

LEMMA SetStatusIs ==
  ASSUME salary \in [Payments -> Salaries], NEW p \in Payments, NEW s \in Statuses,
         SetStatus(p, s)
  PROVE  /\ salary' \in [Payments -> Salaries]
         /\ salary'[p].status = s
         /\ salary'[p].frequency = salary[p].frequency
         /\ salary'[p].first = salary[p].first
         /\ salary'[p].due = salary[p].due
         /\ \A q \in Payments : q # p => salary'[q] = salary[q]
  <1> DEFINE x == [salary[p] EXCEPT !.status = s]
  <1>1. /\ x \in Salaries /\ x.status = s /\ x.frequency = salary[p].frequency
        /\ x.first = salary[p].first /\ x.due = salary[p].due
    BY DEF Salaries
  <1>2. salary' = [salary EXCEPT ![p] = x]
    BY DEF SetStatus
  <1> HIDE DEF x
  <1> QED
    BY <1>1, <1>2

-----------------------------------------------------------------------------
(* What a step of the owner does.                                          *)

KeepsTerms(p) == /\ salary'[p].frequency = salary[p].frequency
                 /\ salary'[p].first = salary[p].first
                 /\ salary'[p].due = salary[p].due

Created(p) == /\ salary[p].status = "none" /\ salary'[p].status = "ACTIVE"
              /\ salary'[p].due = salary'[p].first
              /\ UNCHANGED resumed
Marked(p)  == /\ salary[p].status # "none"
              /\ salary'[p].status \in {"PAUSED", "CANCELLED", "removed"}
              /\ KeepsTerms(p)
              /\ UNCHANGED resumed
Resumed(p) == /\ salary[p].status # "none" /\ salary'[p].status = "ACTIVE"
              /\ KeepsTerms(p)
              /\ resumed' = [resumed EXCEPT ![p] = @ + 1]

OwnerStep(p) ==
  /\ Created(p) \/ Marked(p) \/ Resumed(p)
  /\ salary' \in [Payments -> Salaries]
  /\ \A q \in Payments : q # p => salary'[q] = salary[q]
  /\ UNCHANGED <<day, timer, fired, count, run, money, lost>>

LEMMA OwnerSteps ==
  ASSUME TypeOK, Owner
  PROVE  \E p \in Payments : OwnerStep(p)
  <1> USE DEF Statuses
  <1>0. salary \in [Payments -> Salaries]
    BY DEF TypeOK
  <1>1. ASSUME NEW p \in Payments, NEW t \in Terms, CreateSalary(p, t[1], t[2])
        PROVE  OwnerStep(p)
    <2> DEFINE e == NextDate(t[2], t[1])
               x == [status |-> "ACTIVE", frequency |-> t[1], first |-> e, due |-> e]
    <2>1. t[1] \in Frequencies /\ e \in Dates
      BY PayrollAssumption
    <2>2. salary' = [salary EXCEPT ![p] = x]
      BY <1>1 DEF CreateSalary
    <2> HIDE DEF e
    <2>3. x \in Salaries /\ x.status = "ACTIVE" /\ x.first = x.due
      BY <2>1 DEF Salaries
    <2> HIDE DEF x
    <2>4. /\ salary' \in [Payments -> Salaries] /\ salary'[p] = x
          /\ \A q \in Payments : q # p => salary'[q] = salary[q]
      BY <1>0, <2>2, <2>3
    <2> QED
      BY <1>1, <2>3, <2>4 DEF CreateSalary, OwnerStep, Created
  <1>2. ASSUME NEW p \in Payments, Pause(p) PROVE OwnerStep(p)
    BY <1>0, <1>2, SetStatusIs
       DEF Pause, OwnerStep, Marked, KeepsTerms, Exists
  <1>3. ASSUME NEW p \in Payments, Resume(p) PROVE OwnerStep(p)
    BY <1>0, <1>3, SetStatusIs
       DEF Resume, OwnerStep, Resumed, KeepsTerms, Exists
  <1>4. ASSUME NEW p \in Payments, Cancel(p) PROVE OwnerStep(p)
    BY <1>0, <1>4, SetStatusIs
       DEF Cancel, OwnerStep, Marked, KeepsTerms, Exists
  <1>5. ASSUME NEW p \in Payments, RemoveRole(p) PROVE OwnerStep(p)
    BY <1>0, <1>5, SetStatusIs
       DEF RemoveRole, OwnerStep, Marked, KeepsTerms, Exists
  <1> QED
    BY <1>1, <1>2, <1>3, <1>4, <1>5 DEF Owner

-----------------------------------------------------------------------------
(* What a step of the processor does to its own place.                     *)

SameRun == run'.left = run.left /\ run'.cur = run.cur /\ run'.due = run.due

Starts == /\ run.pc = "idle" /\ ~fired /\ fired'
          /\ run'.pc = "next" /\ run'.cur = run.cur
          /\ \A b \in run'.left : b[1] \in Payments /\ Due(b[1]) /\ b[2] = salary[b[1]].due
          /\ \A p \in Payments : Due(p) => \E b \in run'.left : b[1] = p
          /\ UNCHANGED <<day, timer, salary, count, money, resumed, lost>>

Ends == /\ run.pc = "next" /\ run'.pc = "idle" /\ run.left = {} /\ run'.left = {}
        /\ UNCHANGED <<day, timer, fired, salary, count, money, resumed, lost>>

Picks == /\ run.pc = "next" /\ run'.pc = "check"
         /\ \E b \in run.left : /\ run'.cur = b[1] /\ run'.due = b[2]
                                /\ run'.left = run.left \ {b}
         /\ UNCHANGED <<day, timer, fired, salary, count, money, resumed, lost>>

Checks == /\ run.pc = "check" /\ run'.pc \in {"pause", "send"} /\ SameRun
          /\ UNCHANGED <<day, timer, fired, salary, count, money, resumed, lost>>

Pauses == /\ run.pc \in {"pause", "fail"} /\ run'.pc = "next" /\ SameRun
          /\ Exists(run.cur) /\ SetStatus(run.cur, "PAUSED")
          /\ UNCHANGED <<day, timer, fired, count, money, resumed, lost>>

Fails == /\ run.pc \in {"pause", "send", "record", "advance", "release", "deduct"}
         /\ run'.pc = "fail" /\ SameRun
         /\ UNCHANGED <<day, timer, fired, salary, count, money, resumed, lost>>

Aborts == /\ run.pc = "fail" /\ run'.pc = "idle" /\ run'.left = {} /\ run'.cur = NoPayment
          /\ lost < MaxLosses \/ ~Exists(run.cur)
          /\ lost' = IF Exists(run.cur) THEN lost + 1 ELSE lost
          /\ UNCHANGED <<day, timer, fired, salary, count, money, resumed>>

Sends == /\ run.pc = "send" /\ run'.pc \in {"record", "fail"} /\ SameRun
         /\ sent' = [sent EXCEPT ![run.cur] = @ + 1]
         /\ today' = [today EXCEPT ![run.cur] = @ + 1]
         /\ UNCHANGED <<day, timer, fired, salary, count, rows, released, deducted, resumed, lost>>

Records == /\ run.pc = "record" /\ run'.pc = "advance" /\ SameRun
           /\ rows' = [rows EXCEPT ![run.cur] = @ + 1]
           /\ UNCHANGED <<day, timer, fired, salary, count, sent, today, released, deducted,
                          resumed, lost>>

Advances == /\ run.pc = "advance" /\ run'.pc = "release" /\ SameRun
            /\ Exists(run.cur)
            /\ SetDue(run.cur, run.due)
            /\ count' = [count EXCEPT ![run.cur] = @ + 1]
            /\ UNCHANGED <<day, timer, fired, money, resumed, lost>>

Releases == /\ run.pc = "release" /\ run'.pc = "deduct" /\ SameRun
            /\ released' = [released EXCEPT ![run.cur] = @ + 1]
            /\ UNCHANGED <<day, timer, fired, salary, count, sent, today, rows, deducted,
                           resumed, lost>>

Deducts == /\ run.pc = "deduct" /\ run'.pc = "next" /\ SameRun
           /\ deducted' = [deducted EXCEPT ![run.cur] = @ + 1]
           /\ UNCHANGED <<day, timer, fired, salary, count, sent, today, rows, released,
                          resumed, lost>>

ProcessStep ==
  \/ Starts \/ Ends \/ Picks \/ Checks \/ Pauses \/ Fails \/ Aborts \/ Sends
  \/ Records \/ Advances \/ Releases \/ Deducts

LEMMA ProcessSteps ==
  ASSUME TypeOK, RunInv, Process
  PROVE  ProcessStep /\ run' \in RunRecords
  <1> USE DEF RunPCs
  <1>0. run \in RunRecords
    BY DEF TypeOK
  <1>1. CASE StartRun
    <2> DEFINE B == Batch({p \in Payments : Due(p)})
               x == [run EXCEPT !.pc = "next", !.left = B]
    <2>1. /\ B \in SUBSET (Payments \X Dates)
          /\ \A b \in B : b[1] \in Payments /\ Due(b[1]) /\ b[2] = salary[b[1]].due
      BY DEF Batch, TypeOK, Salaries
    <2>5. ASSUME NEW p \in Payments, Due(p) PROVE \E b \in B : b[1] = p
      <3>1. <<p, salary[p].due>> \in B
        BY <2>5 DEF Batch
      <3> QED
        BY <3>1
    <2> HIDE DEF B
    <2>2. /\ x \in RunRecords /\ x.pc = "next" /\ x.left = B /\ x.cur = run.cur
      BY <1>0, <2>1 DEF RunRecords
    <2>3. run' = x
      BY <1>1 DEF StartRun, B
    <2> HIDE DEF x
    <2>4. Starts
      BY <1>1, <2>1, <2>2, <2>3, <2>5 DEF StartRun, Starts
    <2> QED
      BY <2>2, <2>3, <2>4 DEF ProcessStep
  <1>2. CASE NextPayment
    <2>1. CASE run.left = {} /\ run' = IdleRun
      BY <1>2, <2>1, IdleRunIs DEF NextPayment, ProcessStep, Ends
    <2>2. ASSUME NEW b \in run.left,
                 run' = [pc |-> "check", left |-> run.left \ {b}, cur |-> b[1],
                         due |-> b[2]]
          PROVE  ProcessStep /\ run' \in RunRecords
      <3>1. b \in Payments \X Dates /\ run.left \in SUBSET (Payments \X Dates)
        BY <1>0 DEF RunRecords
      <3>2. run' \in RunRecords
        BY <2>2, <3>1 DEF RunRecords
      <3>3. Picks
        BY <1>2, <2>2 DEF NextPayment, Picks
      <3> QED
        BY <3>2, <3>3 DEF ProcessStep
    <2> QED
      BY <1>2, <2>1, <2>2 DEF NextPayment
  <1>3. CASE CheckPayment
    <2>1. Goto("pause") \/ Goto("send")
      BY <1>3 DEF CheckPayment
    <2> QED
      BY <1>0, <1>3, <2>1, GotoIs DEF CheckPayment, ProcessStep, Checks, SameRun
  <1>4. CASE PausePayment
    <2>1. CASE Exists(run.cur) /\ SetStatus(run.cur, "PAUSED") /\ Goto("next")
               /\ UNCHANGED lost
      BY <1>0, <1>4, <2>1, GotoIs DEF PausePayment, ProcessStep, Pauses, SameRun
    <2>2. CASE run.pc = "pause" /\ Goto("fail") /\ UNCHANGED <<salary, lost>>
      BY <1>0, <1>4, <2>2, GotoIs DEF PausePayment, ProcessStep, Fails, SameRun
    <2>3. CASE /\ run.pc = "fail" /\ run' = IdleRun /\ UNCHANGED salary
               /\ lost < MaxLosses \/ ~Exists(run.cur)
               /\ lost' = IF Exists(run.cur) THEN lost + 1 ELSE lost
      BY <1>4, <2>3, IdleRunIs DEF PausePayment, ProcessStep, Aborts
    <2> QED
      BY <1>4, <2>1, <2>2, <2>3 DEF PausePayment
  <1>5. CASE SendSalary
    <2>1. CASE sent' = [sent EXCEPT ![run.cur] = @ + 1]
      <3>1. Goto("record") \/ Goto("fail")
        BY <1>5 DEF SendSalary
      <3>2. CASE today' = [today EXCEPT ![run.cur] = @ + 1]
        BY <1>0, <1>5, <2>1, <3>1, <3>2, GotoIs
           DEF SendSalary, ProcessStep, Sends, SameRun
      <3>3. CASE UNCHANGED <<sent, today>> /\ Goto("fail")
        BY <1>0, <1>5, <3>3, GotoIs DEF SendSalary, ProcessStep, Fails, SameRun, money
      <3> QED
        BY <1>5, <3>2, <3>3 DEF SendSalary
    <2>2. CASE UNCHANGED <<sent, today>> /\ Goto("fail")
      BY <1>0, <1>5, <2>2, GotoIs DEF SendSalary, ProcessStep, Fails, SameRun, money
    <2> QED
      BY <1>5, <2>1, <2>2 DEF SendSalary
  <1>6. CASE RecordSalary
    <2>1. CASE rows' = [rows EXCEPT ![run.cur] = @ + 1] /\ Goto("advance")
      BY <1>0, <1>6, <2>1, GotoIs DEF RecordSalary, ProcessStep, Records, SameRun
    <2>2. CASE Goto("fail") /\ UNCHANGED rows
      BY <1>0, <1>6, <2>2, GotoIs DEF RecordSalary, ProcessStep, Fails, SameRun, money
    <2> QED
      BY <1>6, <2>1, <2>2 DEF RecordSalary
  <1>7. CASE AdvanceSchedule
    <2>1. CASE /\ Exists(run.cur) /\ Goto("release")
               /\ SetDue(run.cur, run.due)
               /\ count' = [count EXCEPT ![run.cur] = @ + 1]
      BY <1>0, <1>7, <2>1, GotoIs DEF AdvanceSchedule, ProcessStep, Advances, SameRun
    <2>2. CASE Goto("fail") /\ UNCHANGED <<salary, count>>
      BY <1>0, <1>7, <2>2, GotoIs DEF AdvanceSchedule, ProcessStep, Fails, SameRun
    <2> QED
      BY <1>7, <2>1, <2>2 DEF AdvanceSchedule
  <1>8. CASE ReleaseFunds
    <2>1. CASE released' = [released EXCEPT ![run.cur] = @ + 1] /\ Goto("deduct")
      BY <1>0, <1>8, <2>1, GotoIs DEF ReleaseFunds, ProcessStep, Releases, SameRun
    <2>2. CASE Goto("fail") /\ UNCHANGED released
      BY <1>0, <1>8, <2>2, GotoIs DEF ReleaseFunds, ProcessStep, Fails, SameRun, money
    <2> QED
      BY <1>8, <2>1, <2>2 DEF ReleaseFunds
  <1>9. CASE DeductBalance
    <2>1. CASE deducted' = [deducted EXCEPT ![run.cur] = @ + 1] /\ Goto("next")
      BY <1>0, <1>9, <2>1, GotoIs DEF DeductBalance, ProcessStep, Deducts, SameRun
    <2>2. CASE Goto("fail") /\ UNCHANGED deducted
      BY <1>0, <1>9, <2>2, GotoIs DEF DeductBalance, ProcessStep, Fails, SameRun, money
    <2> QED
      BY <1>9, <2>1, <2>2 DEF DeductBalance
  <1> QED
    BY <1>1, <1>2, <1>3, <1>4, <1>5, <1>6, <1>7, <1>8, <1>9 DEF Process

(* The schedule's update, and the start of a day.                          *)
LEMMA AdvanceIs ==
  ASSUME TypeOK, RunInv, Advances
  PROVE  /\ run.cur \in Payments
         /\ salary' \in [Payments -> Salaries]
         /\ salary'[run.cur].status = salary[run.cur].status
         /\ salary'[run.cur].frequency = salary[run.cur].frequency
         /\ salary'[run.cur].first = salary[run.cur].first
         /\ salary'[run.cur].due = NextDate(run.due, salary[run.cur].frequency)
         /\ salary'[run.cur].due \in Dates
         /\ \A q \in Payments : q # run.cur => salary'[q] = salary[q]
  <1> DEFINE p == run.cur
             e == NextDate(run.due, salary[p].frequency)
             x == [salary[p] EXCEPT !.due = e]
  <1>1. p \in Payments /\ run.due <= day /\ salary \in [Payments -> Salaries]
    BY DEF RunInv, Working, Advances, TypeOK
  <1>2. run.due \in Nat /\ day \in 0 .. MaxDay /\ MaxDay \in Nat
    BY PayrollAssumption DEF TypeOK, RunRecords, Dates, Days
  <1>3. run.due \in 0 .. MaxDay
    BY <1>1, <1>2
  <1>4. salary[p].frequency \in Frequencies
    BY <1>1 DEF Salaries
  <1>5. e \in Dates
    BY <1>3, <1>4, PayrollAssumption
  <1>6. salary' = [salary EXCEPT ![p] = x]
    BY DEF Advances, SetDue
  <1> HIDE DEF e
  <1>7. /\ x \in Salaries /\ x.status = salary[p].status /\ x.first = salary[p].first
        /\ x.frequency = salary[p].frequency /\ x.due = e
    BY <1>1, <1>5 DEF Salaries
  <1>8. salary'[p] = x /\ \A q \in Payments : q # p => salary'[q] = salary[q]
    BY <1>1, <1>6
  <1>9. salary' \in [Payments -> Salaries]
    BY <1>1, <1>6, <1>7
  <1> HIDE DEF x
  <1> QED
    BY <1>1, <1>5, <1>7, <1>8, <1>9 DEF e

-----------------------------------------------------------------------------
LEMMA TypedNext == TypeOK /\ RunInv /\ [Next]_vars => TypeOK'
  <1> SUFFICES ASSUME TypeOK, RunInv, [Next]_vars PROVE TypeOK'
    OBVIOUS
  <1>1. /\ count \in [Payments -> Nat] /\ sent \in [Payments -> Nat]
        /\ today \in [Payments -> Nat] /\ rows \in [Payments -> Nat]
        /\ released \in [Payments -> Nat] /\ deducted \in [Payments -> Nat]
        /\ resumed \in [Payments -> Nat]
    BY DEF TypeOK
  <1>2. /\ day \in Days /\ timer \in BOOLEAN /\ fired \in BOOLEAN /\ salary \in [Payments -> Salaries]
        /\ run \in RunRecords /\ lost \in 0 .. MaxLosses
    BY DEF TypeOK
  <1>3. SUFFICES
          /\ /\ count' \in [Payments -> Nat] /\ sent' \in [Payments -> Nat]
             /\ today' \in [Payments -> Nat] /\ rows' \in [Payments -> Nat]
             /\ released' \in [Payments -> Nat] /\ deducted' \in [Payments -> Nat]
             /\ resumed' \in [Payments -> Nat]
          /\ /\ day' \in Days /\ timer' \in BOOLEAN /\ fired' \in BOOLEAN
             /\ salary' \in [Payments -> Salaries]
             /\ run' \in RunRecords /\ lost' \in 0 .. MaxLosses
    BY DEF TypeOK
  <1>4. CASE Owner
    <2>1. PICK p \in Payments : OwnerStep(p)
      BY <1>4, OwnerSteps
    <2>2. resumed' \in [Payments -> Nat]
      BY <1>1, <2>1, Increment DEF OwnerStep, Created, Marked, Resumed
    <2> QED
      BY <1>1, <1>2, <2>1, <2>2 DEF OwnerStep, money
  <1>5. CASE Process
    <2>1. ProcessStep /\ run' \in RunRecords
      BY <1>5, ProcessSteps
    <2>2. Working => run.cur \in Payments
      BY DEF RunInv
    <2>3. CASE Starts \/ Ends \/ Picks \/ Checks \/ Fails
      BY <1>1, <1>2, <2>1, <2>3 DEF Starts, Ends, Picks, Checks, Fails, money
    <2>4. CASE Pauses
      <3>1. run.cur \in Payments /\ "PAUSED" \in Statuses
        BY <2>2, <2>4 DEF Pauses, Working, Statuses
      <3>2. salary' \in [Payments -> Salaries]
        BY <1>2, <2>4, <3>1, SetStatusIs DEF Pauses
      <3> QED
        BY <1>1, <1>2, <2>1, <2>4, <3>2 DEF Pauses, money
    <2>5. CASE Aborts
      <3>1. lost' \in 0 .. MaxLosses
        BY <2>5, <1>2, PayrollAssumption DEF Aborts
      <3> QED
        BY <1>1, <1>2, <2>1, <2>5, <3>1 DEF Aborts, money
    <2>6. CASE Sends
      <3>1. run.cur \in Payments
        BY <2>2, <2>6 DEF Sends, Working
      <3>2. sent' \in [Payments -> Nat] /\ today' \in [Payments -> Nat]
        BY <1>1, <2>6, <3>1, Increment DEF Sends
      <3> QED
        BY <1>1, <1>2, <2>1, <2>6, <3>2 DEF Sends
    <2>7. CASE Records
      <3>1. run.cur \in Payments
        BY <2>2, <2>7 DEF Records, Working
      <3>2. rows' \in [Payments -> Nat]
        BY <1>1, <2>7, <3>1, Increment DEF Records
      <3> QED
        BY <1>1, <1>2, <2>1, <2>7, <3>2 DEF Records
    <2>8. CASE Advances
      <3>1. run.cur \in Payments /\ salary' \in [Payments -> Salaries]
        BY <2>8, AdvanceIs
      <3>2. count' \in [Payments -> Nat]
        BY <1>1, <2>8, <3>1, Increment DEF Advances
      <3> QED
        BY <1>1, <1>2, <2>1, <2>8, <3>1, <3>2 DEF Advances, money
    <2>9. CASE Releases
      <3>1. run.cur \in Payments
        BY <2>2, <2>9 DEF Releases, Working
      <3>2. released' \in [Payments -> Nat]
        BY <1>1, <2>9, <3>1, Increment DEF Releases
      <3> QED
        BY <1>1, <1>2, <2>1, <2>9, <3>2 DEF Releases
    <2>10. CASE Deducts
      <3>1. run.cur \in Payments
        BY <2>2, <2>10 DEF Deducts, Working
      <3>2. deducted' \in [Payments -> Nat]
        BY <1>1, <2>10, <3>1, Increment DEF Deducts
      <3> QED
        BY <1>1, <1>2, <2>1, <2>10, <3>2 DEF Deducts
    <2> QED
      BY <2>1, <2>3, <2>4, <2>5, <2>6, <2>7, <2>8, <2>9, <2>10 DEF ProcessStep
  <1>6. CASE Midnight
    <2>1. day' \in Days
      BY <1>2, <1>6, DaysAreDates DEF Midnight, Days
    <2>2. today' \in [Payments -> Nat]
      BY <1>6 DEF Midnight
    <2> QED
      BY <1>1, <1>2, <1>6, <2>1, <2>2 DEF Midnight
  <1>7. CASE Crash
    <2>1. lost' \in 0 .. MaxLosses
      BY <1>2, <1>7, PayrollAssumption DEF Crash
    <2> QED
      BY <1>1, <1>2, <1>7, <2>1, IdleRunIs DEF Crash, money
  <1>8. CASE UNCHANGED vars
    BY <1>1, <1>2, <1>8 DEF vars, money
  <1> QED
    BY <1>4, <1>5, <1>6, <1>7, <1>8 DEF Next

-----------------------------------------------------------------------------
LEMMA BatchIsTyped ==
  ASSUME TypeOK, NEW b \in run.left
  PROVE  b[1] \in Payments /\ b[2] \in Dates /\ b = <<b[1], b[2]>>
  <1>1. run.left \in SUBSET (Payments \X Dates)
    BY DEF TypeOK, RunRecords
  <1> QED
    BY <1>1

LEMMA RunNext == TypeOK /\ RunInv /\ [Next]_vars => RunInv'
  <1> SUFFICES ASSUME TypeOK, RunInv, [Next]_vars PROVE RunInv'
    OBVIOUS
  <1>1. \A b \in run.left : b[1] \in Payments /\ b = <<b[1], b[2]>>
    BY BatchIsTyped
  <1>2. day \in Nat /\ day' \in Nat
    BY TypedNext, PayrollAssumption DEF TypeOK, Days
  <1>3. CASE Owner
    <2>1. PICK p \in Payments : OwnerStep(p)
      BY <1>3, OwnerSteps
    <2>2. /\ run' = run /\ day' = day
          /\ \A q \in Payments :
               /\ salary[q].status # "none" => /\ salary'[q].status # "none"
                                               /\ salary'[q].due = salary[q].due
      BY <2>1 DEF OwnerStep, Created, Marked, Resumed, KeepsTerms
    <2> QED
      BY <1>1, <2>2 DEF RunInv, Working, Selected
  <1>4. CASE Process
    <2>1. ProcessStep
      BY <1>4, ProcessSteps
    <2>2. CASE Starts
      <3>1. run'.pc = "next" /\ day' = day /\ salary' = salary
        BY <2>2 DEF Starts
      <3>2. \A b \in run'.left : /\ b[2] = salary[b[1]].due /\ b[2] <= day
                                 /\ salary[b[1]].status # "none"
        BY <2>2 DEF Starts, Due
      <3> QED
        BY <3>1, <3>2 DEF RunInv, Working
    <2>3. CASE Ends \/ Aborts
      BY <2>3 DEF Ends, Aborts, RunInv, Working
    <2>4. CASE Picks
      <3>1. PICK b \in run.left : /\ run'.cur = b[1] /\ run'.due = b[2]
                                  /\ run'.left = run.left \ {b}
        BY <2>4 DEF Picks
      <3>2. run'.pc = "check" /\ day' = day /\ salary' = salary
        BY <2>4 DEF Picks
      <3>3. \A c \in run.left : /\ c[2] = salary[c[1]].due /\ c[2] <= day
                                /\ salary[c[1]].status # "none"
        BY DEF RunInv
      <3>4. \A c \in run.left \ {b} : c[1] # b[1]
        BY <1>1, <3>3
      <3> QED
        BY <1>1, <3>1, <3>2, <3>3, <3>4 DEF RunInv, Working, Selected
    <2>5. CASE Checks \/ Fails
      BY <2>5 DEF Checks, Fails, SameRun, RunInv, Working, Selected
    <2>6. CASE Pauses
      <3>1. run.cur \in Payments /\ "PAUSED" \in Statuses
        BY <2>6 DEF Pauses, RunInv, Working, Statuses
      <3>2. \A q \in Payments :
              /\ salary[q].status # "none" => salary'[q].status # "none"
              /\ salary'[q].due = salary[q].due
        BY <2>6, <3>1, SetStatusIs DEF Pauses, TypeOK
      <3>3. run'.pc = "next" /\ run'.left = run.left /\ day' = day
        BY <2>6 DEF Pauses, SameRun
      <3> QED
        BY <1>1, <3>2, <3>3 DEF RunInv, Working
    <2>7. CASE Sends \/ Records
      BY <2>7 DEF Sends, Records, SameRun, RunInv, Working, Selected
    <2>8. CASE Advances
      <3>1. /\ run.cur \in Payments
            /\ salary'[run.cur].status = salary[run.cur].status
            /\ \A q \in Payments : q # run.cur => salary'[q] = salary[q]
        BY <2>8, AdvanceIs
      <3>2. run.pc = "advance" /\ run'.pc = "release" /\ SameRun /\ day' = day
        BY <2>8 DEF Advances
      <3>3. \A b \in run.left : b[1] # run.cur
        BY <3>2 DEF RunInv, Working, Selected
      <3> QED
        BY <1>1, <3>1, <3>2, <3>3 DEF RunInv, Working, Selected, SameRun
    <2>9. CASE Releases \/ Deducts
      BY <2>9 DEF Releases, Deducts, SameRun, RunInv, Working, Selected
    <2> QED
      BY <2>1, <2>2, <2>3, <2>4, <2>5, <2>6, <2>7, <2>8, <2>9 DEF ProcessStep
  <1>5. CASE Midnight
    BY <1>2, <1>5 DEF Midnight, RunInv, Working
  <1>6. CASE Crash
    <2>1. run'.pc = "idle" /\ run'.left = {}
      BY <1>6, IdleRunIs DEF Crash
    <2> QED
      BY <2>1 DEF RunInv, Working
  <1>7. CASE UNCHANGED vars
    BY <1>7 DEF vars, RunInv, Working, Selected
  <1> QED
    BY <1>3, <1>4, <1>5, <1>6, <1>7 DEF Next

-----------------------------------------------------------------------------
LEMMA BooksNext == TypeOK /\ RunInv /\ BooksInv /\ [Next]_vars => BooksInv'
  <1> SUFFICES ASSUME TypeOK, RunInv, BooksInv, [Next]_vars PROVE BooksInv'
    OBVIOUS
  <1> USE DEF BooksInv, BooksTrailTransfers
  <1>1. /\ count \in [Payments -> Nat] /\ sent \in [Payments -> Nat]
        /\ rows \in [Payments -> Nat]
        /\ released \in [Payments -> Nat] /\ deducted \in [Payments -> Nat]
    BY DEF TypeOK
  <1>2. Working => run.cur \in Payments
    BY DEF RunInv
  <1>3. CASE UNCHANGED <<count, sent, rows, released, deducted>>
             /\ run'.pc \notin {"record", "advance", "release", "deduct"}
    BY <1>3
  <1>4. CASE UNCHANGED <<count, sent, rows, released, deducted, run>>
    BY <1>4
  <1>5. CASE Process
    <2>1. ProcessStep
      BY <1>5, ProcessSteps
    <2>2. CASE Sends
      <3>1. run.cur \in Payments
        BY <1>2, <2>2 DEF Sends, Working
      <3>2. /\ sent'[run.cur] = sent[run.cur] + 1
            /\ \A q \in Payments : q # run.cur => sent'[q] = sent[q]
        BY <1>1, <2>2, <3>1, Increment DEF Sends
      <3>3. /\ UNCHANGED <<count, rows, released, deducted>> /\ run'.cur = run.cur
            /\ run'.pc \in {"record", "fail"}
        BY <2>2 DEF Sends, SameRun
      <3> QED
        BY <1>1, <3>1, <3>2, <3>3
    <2>3. CASE Records
      <3>1. run.cur \in Payments
        BY <1>2, <2>3 DEF Records, Working
      <3>2. /\ rows'[run.cur] = rows[run.cur] + 1
            /\ \A q \in Payments : q # run.cur => rows'[q] = rows[q]
        BY <1>1, <2>3, <3>1, Increment DEF Records
      <3>3. /\ UNCHANGED <<count, sent, released, deducted>> /\ run'.cur = run.cur
            /\ run.pc = "record" /\ run'.pc = "advance"
        BY <2>3 DEF Records, SameRun
      <3> QED
        BY <1>1, <3>1, <3>2, <3>3
    <2>4. CASE Advances
      <3>1. run.cur \in Payments
        BY <1>2, <2>4 DEF Advances, Working
      <3>2. /\ count'[run.cur] = count[run.cur] + 1
            /\ \A q \in Payments : q # run.cur => count'[q] = count[q]
        BY <1>1, <2>4, <3>1, Increment DEF Advances
      <3>3. /\ UNCHANGED <<sent, rows, released, deducted>> /\ run'.cur = run.cur
            /\ run.pc = "advance" /\ run'.pc = "release"
        BY <2>4 DEF Advances, SameRun, money
      <3> QED
        BY <1>1, <3>1, <3>2, <3>3
    <2>5. CASE Releases
      <3>1. run.cur \in Payments
        BY <1>2, <2>5 DEF Releases, Working
      <3>2. /\ released'[run.cur] = released[run.cur] + 1
            /\ \A q \in Payments : q # run.cur => released'[q] = released[q]
        BY <1>1, <2>5, <3>1, Increment DEF Releases
      <3>3. /\ UNCHANGED <<count, sent, rows, deducted>> /\ run'.cur = run.cur
            /\ run.pc = "release" /\ run'.pc = "deduct"
        BY <2>5 DEF Releases, SameRun
      <3> QED
        BY <1>1, <3>1, <3>2, <3>3
    <2>6. CASE Deducts
      <3>1. run.cur \in Payments
        BY <1>2, <2>6 DEF Deducts, Working
      <3>2. /\ deducted'[run.cur] = deducted[run.cur] + 1
            /\ \A q \in Payments : q # run.cur => deducted'[q] = deducted[q]
        BY <1>1, <2>6, <3>1, Increment DEF Deducts
      <3>3. /\ UNCHANGED <<count, sent, rows, released>>
            /\ run.pc = "deduct" /\ run'.pc = "next"
        BY <2>6 DEF Deducts
      <3> QED
        BY <1>1, <3>1, <3>2, <3>3
    <2> QED
      BY <1>3, <2>1, <2>2, <2>3, <2>4, <2>5, <2>6
         DEF ProcessStep, Starts, Ends, Picks, Checks, Pauses, Fails, Aborts, money
  <1>6. CASE Owner
    <2>1. \E p \in Payments : OwnerStep(p)
      BY <1>6, OwnerSteps
    <2> QED
      BY <1>4, <2>1 DEF OwnerStep, money
  <1>7. CASE Crash
    BY <1>3, <1>7, IdleRunIs DEF Crash, money
  <1> QED
    BY <1>4, <1>5, <1>6, <1>7 DEF Next, Midnight, vars, money

-----------------------------------------------------------------------------
LEMMA DayNext == TypeOK /\ RunInv /\ DayInv /\ [Next]_vars => DayInv'
  <1> SUFFICES ASSUME TypeOK, RunInv, DayInv, [Next]_vars PROVE DayInv'
    OBVIOUS
  <1> USE DEF DayInv, OncePerDay
  <1>1. today \in [Payments -> Nat]
    BY DEF TypeOK
  <1>2. CASE UNCHANGED <<timer, fired, today, run>>
    BY <1>2 DEF ToSend, Selected, At
  <1>3. CASE Process
    <2>1. ProcessStep
      BY <1>3, ProcessSteps
    <2>2. CASE Starts
      <3>1. fired' /\ today' = today /\ run'.pc = "next" /\ \A p \in Payments : today[p] = 0
        BY <2>2 DEF Starts, money
      <3> QED
        BY <3>1
    <2>3. CASE Picks
      <3>1. /\ UNCHANGED <<timer, fired, today>> /\ run.pc = "next" /\ run'.pc = "check"
            /\ \A p \in Payments : ToSend(p)' => Selected(p)
        BY <2>3 DEF Picks, money, ToSend, Selected, At
      <3> QED
        BY <3>1 DEF ToSend
    <2>4. CASE Sends
      <3>1. /\ run.cur \in Payments /\ ~Selected(run.cur) /\ run.pc = "send"
        BY <2>4 DEF Sends, RunInv, Working
      <3>2. /\ today'[run.cur] = today[run.cur] + 1
            /\ \A q \in Payments : q # run.cur => today'[q] = today[q]
        BY <1>1, <2>4, <3>1, Increment DEF Sends
      <3>3. today[run.cur] = 0
        BY <3>1 DEF ToSend, At
      <3>4. /\ UNCHANGED <<timer, fired>> /\ run'.cur = run.cur /\ \A p \in Payments : ToSend(p)' => Selected(p)
        BY <2>4 DEF Sends, SameRun, ToSend, Selected, At
      <3> QED
        BY <3>1, <3>2, <3>3, <3>4 DEF ToSend
    <2>5. CASE Ends \/ Checks \/ Pauses \/ Fails \/ Aborts \/ Records \/ Advances
               \/ Releases \/ Deducts
      <3>1. /\ UNCHANGED <<timer, fired, today>> /\ run.pc # "idle"
            /\ \A p \in Payments : ToSend(p)' => ToSend(p)
            /\ run'.pc \in {"record", "advance", "release", "deduct"} =>
                 /\ run'.cur = run.cur
                 /\ run.pc \in {"record", "advance", "release", "deduct"}
        BY <2>5
           DEF Ends, Checks, Pauses, Fails, Aborts, Records, Advances, Releases, Deducts,
               SameRun, ToSend, Selected, At, money
      <3> QED
        BY <3>1
    <2> QED
      BY <2>1, <2>2, <2>3, <2>4, <2>5 DEF ProcessStep
  <1>4. CASE Midnight
    <2>1. /\ run' = run /\ run.pc = "idle" /\ \A p \in Payments : today'[p] = 0
      BY <1>4 DEF Midnight
    <2>2. ~fired' => timer'
      BY <1>4 DEF Midnight
    <2>3. \A p \in Payments : ~ToSend(p)'
      BY <2>1 DEF RunInv, ToSend, Selected, At
    <2> QED
      BY <2>1, <2>2, <2>3
  <1>5. CASE Crash
    <2>1. fired' /\ today' = today /\ run'.pc = "idle" /\ run'.left = {}
      BY <1>5, IdleRunIs DEF Crash, money
    <2> QED
      BY <2>1 DEF ToSend, Selected, At
  <1>6. CASE Owner
    <2>1. \E p \in Payments : OwnerStep(p)
      BY <1>6, OwnerSteps
    <2> QED
      BY <1>2, <2>1 DEF OwnerStep, money
  <1> QED
    BY <1>2, <1>3, <1>4, <1>5, <1>6 DEF Next, vars, money

-----------------------------------------------------------------------------
LEMMA CauseNext ==
  TypeOK /\ RunInv /\ CauseInv /\ [Next]_vars => CauseInv'
  <1> SUFFICES ASSUME TypeOK, RunInv, CauseInv, [Next]_vars PROVE CauseInv'
    OBVIOUS
  <1> DEFINE Excused(p) == At(p, {"record", "advance", "fail"})
  <1>1. /\ count \in [Payments -> Nat] /\ sent \in [Payments -> Nat]
        /\ resumed \in [Payments -> Nat] /\ lost \in Nat
    BY PayrollAssumption DEF TypeOK
  <1>2. \A p \in Payments :
          /\ sent[p] <= count[p] + 1 + resumed[p] + lost
          /\ salary[p].status = "none" => sent[p] = 0
          /\ ToSend(p) => sent[p] <= count[p] + resumed[p] + lost
          /\ salary[p].status = "ACTIVE" /\ ~Excused(p) =>
               sent[p] <= count[p] + resumed[p] + lost
    BY DEF CauseInv, RepeatsNeedCause
  <1>3. SUFFICES
        \A p \in Payments :
          /\ sent'[p] <= count'[p] + 1 + resumed'[p] + lost'
          /\ salary'[p].status = "none" => sent'[p] = 0
          /\ ToSend(p)' => sent'[p] <= count'[p] + resumed'[p] + lost'
          /\ salary'[p].status = "ACTIVE" /\ ~Excused(p)' =>
               sent'[p] <= count'[p] + resumed'[p] + lost'
    BY DEF CauseInv, RepeatsNeedCause
  <1> DEFINE Goal(p) ==
          /\ sent'[p] <= count'[p] + 1 + resumed'[p] + lost'
          /\ salary'[p].status = "none" => sent'[p] = 0
          /\ ToSend(p)' => sent'[p] <= count'[p] + resumed'[p] + lost'
          /\ salary'[p].status = "ACTIVE" /\ ~Excused(p)' =>
               sent'[p] <= count'[p] + resumed'[p] + lost'
  <1>4. ASSUME UNCHANGED <<count, sent, resumed, lost, run>>,
               NEW p \in Payments, salary'[p] = salary[p]
        PROVE  Goal(p)
    BY <1>1, <1>2, <1>4 DEF ToSend, Selected, At
  <1>5. ASSUME Owner, NEW q \in Payments PROVE Goal(q)
    <2>1. PICK p \in Payments : OwnerStep(p)
      BY <1>5, OwnerSteps
    <2>2. UNCHANGED <<count, sent, lost, run>> /\ (q # p => salary'[q] = salary[q])
      BY <2>1 DEF OwnerStep, money
    <2>3. /\ ToSend(q)' <=> ToSend(q)
          /\ Excused(q)' <=> Excused(q)
      BY <2>2 DEF ToSend, Selected, At
    <2>4. CASE Created(p)
      BY <1>1, <1>2, <2>2, <2>3, <2>4 DEF Created
    <2>5. CASE Marked(p)
      BY <1>1, <1>2, <2>2, <2>3, <2>5 DEF Marked
    <2>6. CASE Resumed(p)
      <3>1. /\ resumed'[p] = resumed[p] + 1
            /\ \A r \in Payments : r # p => resumed'[r] = resumed[r]
            /\ salary[p].status # "none" /\ salary'[p].status = "ACTIVE"
        BY <1>1, <2>6, Increment DEF Resumed
      <3>2. CASE q = p
        BY <1>1, <1>2, <2>2, <3>1, <3>2
      <3>3. CASE q # p
        BY <1>1, <1>2, <2>2, <2>3, <3>1, <3>3
      <3> QED
        BY <3>2, <3>3
    <2> QED
      BY <2>1, <2>4, <2>5, <2>6 DEF OwnerStep
  <1>6. ASSUME Process, NEW q \in Payments PROVE Goal(q)
    <2>1. ProcessStep
      BY <1>6, ProcessSteps
    <2>2. CASE Starts
      <3>1. /\ UNCHANGED <<salary, count, sent, resumed, lost>> /\ run.pc = "idle"
            /\ run'.pc = "next"
        BY <2>2 DEF Starts, money
      <3>2. ToSend(q)' => salary[q].status = "ACTIVE"
        BY <2>2 DEF Starts, ToSend, Selected, At, Due
      <3> QED
        BY <1>1, <1>2, <3>1, <3>2 DEF At
    <2>3. CASE Ends \/ Picks \/ Checks \/ Releases \/ Deducts
      <3>1. /\ UNCHANGED <<salary, count, sent, resumed, lost>> /\ ~Excused(q)
        BY <2>3 DEF Ends, Picks, Checks, Releases, Deducts, At, money
      <3>2. ToSend(q)' => ToSend(q)
        BY <2>3 DEF Ends, Picks, Checks, Releases, Deducts, SameRun, ToSend, Selected, At
      <3> QED
        BY <1>1, <1>2, <3>1, <3>2
    <2>4. CASE Pauses
      <3>1. /\ salary'[run.cur].status = "PAUSED"
            /\ q # run.cur => salary'[q] = salary[q]
        <4>1. run.cur \in Payments /\ "PAUSED" \in Statuses
          BY <2>4 DEF Pauses, RunInv, Working, Statuses
        <4> QED
          BY <2>4, <4>1, SetStatusIs DEF Pauses, TypeOK
      <3>2. UNCHANGED <<count, sent, resumed, lost>> /\ (ToSend(q)' => ToSend(q))
        BY <2>4 DEF Pauses, SameRun, ToSend, Selected, At, money
      <3>3. q # run.cur => ~Excused(q)
        BY DEF At
      <3> QED
        BY <1>1, <1>2, <3>1, <3>2, <3>3
    <2>5. CASE Fails \/ Records
      <3>1. /\ UNCHANGED <<salary, count, sent, resumed, lost>>
            /\ ToSend(q)' => ToSend(q)
            /\ Excused(q) => Excused(q)'
        BY <2>5 DEF Fails, Records, SameRun, ToSend, Selected, At, money
      <3> QED
        BY <1>1, <1>2, <3>1
    <2>6. CASE Aborts
      <3>1. UNCHANGED <<salary, count, sent, resumed>> /\ ~ToSend(q)'
        BY <2>6, PayrollAssumption DEF Aborts, ToSend, Selected, At, money
      <3>2. lost' \in Nat /\ lost <= lost'
        BY <1>1, <2>6 DEF Aborts
      <3>3. Excused(q) /\ salary[q].status = "ACTIVE" => lost' = lost + 1
        BY <2>6 DEF Aborts, At, Exists
      <3> QED
        BY <1>1, <1>2, <3>1, <3>2, <3>3
    <2>7. CASE Sends
      <3>1. run.cur \in Payments /\ ~Selected(run.cur) /\ salary[run.cur].status # "none"
        BY <2>7 DEF Sends, RunInv, Working
      <3>2. /\ sent'[run.cur] = sent[run.cur] + 1
            /\ \A p \in Payments : p # run.cur => sent'[p] = sent[p]
        BY <1>1, <2>7, <3>1, Increment DEF Sends
      <3>3. UNCHANGED <<salary, count, resumed, lost>> /\ (ToSend(q)' => Selected(q))
        BY <2>7 DEF Sends, SameRun, ToSend, Selected, At
      <3>4. CASE q = run.cur
        <4>1. ToSend(q) /\ Excused(q)' /\ ~ToSend(q)'
          BY <2>7, <3>1, <3>3, <3>4 DEF Sends, SameRun, ToSend, At
        <4> QED
          BY <1>1, <1>2, <3>1, <3>2, <3>3, <3>4, <4>1
      <3>5. CASE q # run.cur
        <4>1. ~Excused(q)
          BY <3>5 DEF At
        <4> QED
          BY <1>1, <1>2, <3>2, <3>3, <3>5, <4>1 DEF ToSend
      <3> QED
        BY <3>4, <3>5
    <2>8. CASE Advances
      <3>1. /\ run.cur \in Payments /\ ~Selected(run.cur)
            /\ salary'[run.cur].status = salary[run.cur].status
            /\ q # run.cur => salary'[q] = salary[q]
        BY <2>8, AdvanceIs DEF Advances, RunInv, Working
      <3>2. /\ count'[run.cur] = count[run.cur] + 1
            /\ \A p \in Payments : p # run.cur => count'[p] = count[p]
        BY <1>1, <2>8, <3>1, Increment DEF Advances
      <3>3. UNCHANGED <<sent, resumed, lost>> /\ (ToSend(q)' => ToSend(q))
        BY <2>8 DEF Advances, SameRun, ToSend, Selected, At, money
      <3>4. CASE q = run.cur
        BY <1>1, <1>2, <3>1, <3>2, <3>3, <3>4
      <3>5. CASE q # run.cur
        <4>1. ~Excused(q)
          BY <3>5 DEF At
        <4> QED
          BY <1>1, <1>2, <3>1, <3>2, <3>3, <3>5, <4>1
      <3> QED
        BY <3>4, <3>5
    <2> QED
      BY <2>1, <2>2, <2>3, <2>4, <2>5, <2>6, <2>7, <2>8 DEF ProcessStep
  <1>7. ASSUME Crash, NEW q \in Payments PROVE Goal(q)
    <2>1. /\ UNCHANGED <<salary, count, sent, resumed>> /\ lost' = lost + 1
          /\ run'.pc = "idle" /\ run'.left = {}
      BY <1>7, IdleRunIs DEF Crash, money
    <2>2. ~ToSend(q)'
      BY <2>1 DEF ToSend, Selected, At
    <2> QED
      BY <1>1, <1>2, <2>1, <2>2
  <1>8. ASSUME Midnight \/ UNCHANGED vars, NEW q \in Payments PROVE Goal(q)
    BY <1>4, <1>8 DEF Midnight, vars, money
  <1> QED
    BY <1>5, <1>6, <1>7, <1>8 DEF Next

-----------------------------------------------------------------------------
(* Two facts of integer division.                                          *)
LEMMA DivAtLeast ==
  ASSUME NEW a \in Nat, NEW b \in Nat \ {0}, NEW c \in Nat, c * b <= a
  PROVE  a \div b \in Nat /\ a \div b >= c
  <1> DEFINE q == a \div b
  <1>1. q \in Nat /\ q * b <= a /\ a < (q + 1) * b
    BY SMT
  <1> HIDE DEF q
  <1>2. ASSUME q < c PROVE FALSE
    <2>1. q + 1 <= c
      BY <1>1, <1>2
    <2>2. (q + 1) * b <= c * b
      BY <1>1, <2>1, SMT
    <2> QED
      BY <1>1, <2>2
  <1>3. q >= c
    BY <1>1, <1>2
  <1> QED
    BY <1>1, <1>3 DEF q

LEMMA DivGrows ==
  ASSUME NEW a \in Nat, NEW b \in Nat \ {0}
  PROVE  a \div b \in Nat /\ a \div b <= (a + 1) \div b
  <1> DEFINE q == a \div b
  <1>1. q \in Nat /\ q * b <= a
    BY SMT
  <1> HIDE DEF q
  <1>2. q * b <= a + 1
    BY <1>1, SMT
  <1>3. (a + 1) \div b >= q
    BY <1>1, <1>2, DivAtLeast
  <1> QED
    BY <1>1, <1>3 DEF q

-----------------------------------------------------------------------------
(* The calendar.                                                           *)
LEMMA MonthHasDay ==
  ASSUME NEW d \in Dates
  PROVE  /\ d \in Nat /\ MonthOf[d] \in Months
         /\ MonthStart[MonthOf[d]] <= d /\ d < MonthStart[MonthOf[d] + 1]
  <1> DEFINE Has(m) == MonthStart[m] <= d /\ d < MonthStart[m + 1]
  <1>1. d \in Nat /\ \E m \in Months : Has(m)
    BY CalendarAssumption DEF Dates
  <1>2. MonthOf[d] = CHOOSE m \in Months : Has(m)
    BY DEF MonthOf
  <1>3. MonthOf[d] \in Months /\ Has(MonthOf[d])
    BY <1>1, <1>2
  <1> QED
    BY <1>1, <1>3

LEMMA StartsAreNatural ==
  ASSUME NEW m \in Months
  PROVE  /\ m \in Nat /\ m + 1 \in 0 .. (LastMonth + 1)
         /\ MonthStart[m] \in Nat /\ MonthStart[m + 1] \in Nat
         /\ MonthStart[m] < MonthStart[m + 1]
         /\ Length(m) \in Nat /\ MonthStart[m + 1] = MonthStart[m] + Length(m)
  <1>1. /\ m \in Nat /\ m \in 0 .. (LastMonth + 1) /\ m + 1 \in 0 .. (LastMonth + 1)
        /\ m < m + 1
    BY CalendarAssumption DEF Months
  <1>2. /\ MonthStart[m] \in Nat /\ MonthStart[m + 1] \in Nat
        /\ MonthStart[m] < MonthStart[m + 1]
    BY <1>1, CalendarAssumption
  <1> QED
    BY <1>1, <1>2 DEF Length

LEMMA StartsInOrder ==
  ASSUME NEW m \in 0 .. (LastMonth + 1), NEW n \in 0 .. (LastMonth + 1), m <= n
  PROVE  MonthStart[m] <= MonthStart[n]
  <1>1. MonthStart[m] \in Nat /\ MonthStart[n] \in Nat
    BY CalendarAssumption
  <1>2. CASE m = n
    BY <1>1, <1>2
  <1>3. CASE m < n
    BY <1>1, <1>3, CalendarAssumption
  <1> QED
    BY <1>2, <1>3, CalendarAssumption

(* A later date is in no earlier month.                                    *)
LEMMA MonthsInOrder ==
  ASSUME NEW d \in Dates, NEW e \in Dates, d <= e
  PROVE  MonthOf[d] <= MonthOf[e]
  <1> DEFINE m == MonthOf[d]
             n == MonthOf[e]
  <1>1. /\ m \in Months /\ n \in Months /\ d \in Nat /\ e \in Nat
        /\ MonthStart[m] <= d /\ e < MonthStart[n + 1]
    BY MonthHasDay
  <1> HIDE DEF m, n
  <1>2. /\ m \in Nat /\ n \in Nat /\ m \in 0 .. (LastMonth + 1)
        /\ n + 1 \in 0 .. (LastMonth + 1)
        /\ MonthStart[m] \in Nat /\ MonthStart[n + 1] \in Nat
    BY <1>1, StartsAreNatural, CalendarAssumption DEF Months
  <1>3. ASSUME n + 1 <= m PROVE FALSE
    <2>1. MonthStart[n + 1] <= MonthStart[m]
      BY <1>2, <1>3, StartsInOrder
    <2> QED
      BY <1>1, <1>2, <2>1
  <1>4. m <= n
    BY <1>2, <1>3
  <1> QED
    BY <1>4 DEF m, n

LEMMA MonthIs ==
  ASSUME NEW d \in Dates, NEW m \in Months,
         MonthStart[m] <= d, d < MonthStart[m + 1]
  PROVE  MonthOf[d] = m
  <1> DEFINE n == MonthOf[d]
  <1>1. n \in Months /\ d \in Nat /\ MonthStart[n] <= d /\ d < MonthStart[n + 1]
    BY MonthHasDay
  <1> HIDE DEF n
  <1>2. /\ m \in Nat /\ n \in Nat
        /\ m \in 0 .. (LastMonth + 1) /\ n \in 0 .. (LastMonth + 1)
        /\ m + 1 \in 0 .. (LastMonth + 1) /\ n + 1 \in 0 .. (LastMonth + 1)
        /\ MonthStart[m] \in Nat /\ MonthStart[n] \in Nat
        /\ MonthStart[m + 1] \in Nat /\ MonthStart[n + 1] \in Nat
    BY <1>1, StartsAreNatural, CalendarAssumption DEF Months
  <1>3. ASSUME n + 1 <= m PROVE FALSE
    <2>1. MonthStart[n + 1] <= MonthStart[m]
      BY <1>2, <1>3, StartsInOrder
    <2> QED
      BY <1>1, <1>2, <2>1
  <1>4. ASSUME m + 1 <= n PROVE FALSE
    <2>1. MonthStart[m + 1] <= MonthStart[n]
      BY <1>2, <1>4, StartsInOrder
    <2> QED
      BY <1>1, <1>2, <2>1
  <1>5. n = m
    BY <1>2, <1>3, <1>4
  <1> QED
    BY <1>5 DEF n

LEMMA DayIs ==
  ASSUME NEW d \in Dates
  PROVE  /\ DayOf(d) \in Nat /\ d = MonthStart[MonthOf[d]] + DayOf(d)
         /\ DayOf(d) < Length(MonthOf[d])
  <1>1. /\ d \in Nat /\ MonthOf[d] \in Months
        /\ MonthStart[MonthOf[d]] <= d /\ d < MonthStart[MonthOf[d] + 1]
    BY MonthHasDay
  <1>2. MonthStart[MonthOf[d]] \in Nat /\ MonthStart[MonthOf[d] + 1] \in Nat
    BY <1>1, StartsAreNatural
  <1> QED
    BY <1>1, <1>2 DEF DayOf, Length

(* setMonth keeps the day of the month, or runs over into the month after  *)
(* next, onto a day that every month has.                                  *)
LEMMA NextMonthIs ==
  ASSUME NEW d \in Dates, NextDate(d, "MONTHLY") \in Dates
  PROVE  LET e == NextDate(d, "MONTHLY")
         IN  /\ d <= e
             /\ \/ MonthOf[e] = MonthOf[d] + 1 /\ DayOf(e) = DayOf(d)
                \/ /\ MonthOf[e] = MonthOf[d] + 2
                   /\ ~FitsEveryMonth(d) /\ FitsEveryMonth(e)
  <1> DEFINE e == NextDate(d, "MONTHLY")
             m == MonthOf[d]
             x == DayOf(d)
             n == MonthOf[e]
  <1>1. e = MonthStart[m + 1] + x
    BY DEF NextDate
  <1>2. e \in Dates
    OBVIOUS
  <1>3. /\ m \in Months /\ x \in Nat /\ x < Length(m)
        /\ d = MonthStart[m] + x
    BY MonthHasDay, DayIs
  <1>4. /\ m \in Nat /\ m + 1 \in 0 .. (LastMonth + 1) /\ Length(m) \in Nat
        /\ MonthStart[m] \in Nat /\ MonthStart[m + 1] \in Nat
        /\ MonthStart[m] < MonthStart[m + 1]
    BY <1>3, StartsAreNatural
  <1> HIDE DEF e
  <1>5. /\ n \in Months /\ e \in Nat /\ MonthStart[n] <= e /\ e < MonthStart[n + 1]
    BY <1>2, MonthHasDay
  <1> HIDE DEF m, x, n
  <1>6. /\ n \in Nat /\ n + 1 \in 0 .. (LastMonth + 1) /\ n <= LastMonth
        /\ LastMonth \in Nat /\ MonthStart[n + 1] \in Nat
    BY <1>5, StartsAreNatural, CalendarAssumption DEF Months
  <1>7. m + 1 <= n
    <2>1. ASSUME n + 1 <= m + 1 PROVE FALSE
      <3>1. MonthStart[n + 1] <= MonthStart[m + 1]
        BY <1>4, <1>6, <2>1, StartsInOrder
      <3> QED
        BY <1>1, <1>3, <1>4, <1>5, <1>6, <3>1
    <2> QED
      BY <1>4, <1>6, <2>1
  <1>8. m + 1 \in Months
    BY <1>4, <1>6, <1>7 DEF Months
  <1>9. /\ Length(m + 1) \in Nat /\ MonthStart[m + 1 + 1] \in Nat
        /\ m + 1 + 1 \in 0 .. (LastMonth + 1)
        /\ MonthStart[m + 1 + 1] = MonthStart[m + 1] + Length(m + 1)
    BY <1>8, StartsAreNatural
  <1>10. d <= e
    BY <1>1, <1>3, <1>4
  <1>11. CASE x < Length(m + 1)
    <2>1. e < MonthStart[m + 1 + 1] /\ MonthStart[m + 1] <= e
      BY <1>1, <1>3, <1>4, <1>9, <1>11
    <2>2. n = m + 1
      BY <1>2, <1>8, <2>1, MonthIs DEF n
    <2>3. DayOf(e) = x
      BY <1>1, <1>3, <1>4, <2>2 DEF DayOf, n
    <2> QED
      BY <1>10, <2>2, <2>3 DEF e, n, m, x
  <1>12. CASE ~(x < Length(m + 1))
    <2> DEFINE y == x - Length(m + 1)
    <2>1. y \in Nat /\ e = MonthStart[m + 1 + 1] + y
      BY <1>1, <1>3, <1>4, <1>9, <1>12
    <2>2. \A k \in Months : y < Length(k)
      <3> TAKE k \in Months
      <3>1. Length(m) <= Length(m + 1) + Length(m + 1)
            /\ Length(m) <= Length(k) + Length(k)
        BY <1>3, <1>8, CalendarAssumption
      <3>2. Length(k) \in Nat
        BY StartsAreNatural
      <3> QED
        BY <1>3, <1>4, <1>9, <1>12, <3>1, <3>2
    <2> HIDE DEF y
    <2>3. m + 1 + 1 <= n
      <3>1. ASSUME n + 1 <= m + 1 + 1 PROVE FALSE
        <4>1. MonthStart[n + 1] <= MonthStart[m + 1 + 1]
          BY <1>6, <1>9, <3>1, StartsInOrder
        <4> QED
          BY <1>5, <1>6, <1>9, <2>1, <4>1
      <3> QED
        BY <1>4, <1>6, <3>1
    <2>4. m + 1 + 1 \in Months
      BY <1>4, <1>6, <2>3 DEF Months
    <2>5. /\ Length(m + 1 + 1) \in Nat /\ MonthStart[m + 1 + 1 + 1] \in Nat
          /\ MonthStart[m + 1 + 1 + 1] = MonthStart[m + 1 + 1] + Length(m + 1 + 1)
      BY <2>4, StartsAreNatural
    <2>6. y < Length(m + 1 + 1)
      BY <2>2, <2>4
    <2>7. MonthStart[m + 1 + 1] <= e /\ e < MonthStart[m + 1 + 1 + 1]
      BY <1>9, <2>1, <2>5, <2>6
    <2>8. n = m + 1 + 1
      BY <1>2, <2>4, <2>7, MonthIs DEF n
    <2>9. DayOf(e) = y
      BY <1>9, <2>1, <2>8 DEF DayOf, n
    <2>10. FitsEveryMonth(e)
      BY <2>2, <2>9 DEF FitsEveryMonth
    <2>11. ~FitsEveryMonth(d)
      BY <1>8, <1>12 DEF FitsEveryMonth, x
    <2>12. n = m + 2
      BY <1>4, <2>8
    <2> QED
      BY <1>10, <2>10, <2>11, <2>12 DEF e, n, m
  <1> QED
    BY <1>11, <1>12

-----------------------------------------------------------------------------
(* The schedule of a salary.                                               *)
LEMMA SalaryIs ==
  ASSUME NEW s \in Salaries
  PROVE  /\ s.frequency \in Frequencies
         /\ s.first \in Dates /\ s.due \in Dates
         /\ s.first \in Nat /\ s.due \in Nat
         /\ Span(s.frequency) \in Nat \ {0}
  <1>1. s.frequency \in Frequencies /\ s.first \in Dates /\ s.due \in Dates
    BY DEF Salaries
  <1>2. \A d \in Dates : d \in Nat
    BY CalendarAssumption DEF Dates
  <1>3. Span(s.frequency) \in Nat \ {0}
    BY <1>1, CalendarAssumption DEF Span, Frequencies
  <1> QED
    BY <1>1, <1>2, <1>3

LEMMA FirstOnSchedule ==
  ASSUME NEW s \in Salaries, s.due = s.first
  PROVE  OnSchedule(s, 0)
  <1>1. s.first \in Nat /\ Span(s.frequency) \in Nat /\ s.frequency \in Frequencies
        /\ MonthOf[s.first] \in Nat
    BY SalaryIs, MonthHasDay, StartsAreNatural
  <1>2. CASE s.frequency \in {"WEEKLY", "BIWEEKLY"}
    BY <1>1, <1>2 DEF OnSchedule
  <1>3. CASE s.frequency = "MONTHLY"
    BY <1>1, <1>3 DEF OnSchedule
  <1>4. CASE s.frequency = "other"
    BY <1>4 DEF OnSchedule
  <1> QED
    BY <1>1, <1>2, <1>3, <1>4 DEF Frequencies

LEMMA NextOnSchedule ==
  ASSUME NEW s \in Salaries, NEW n \in Nat, OnSchedule(s, n), s.first <= s.due,
         NEW t \in Salaries, t.frequency = s.frequency, t.first = s.first,
         t.due = NextDate(s.due, s.frequency)
  PROVE  OnSchedule(t, n + 1) /\ t.first <= t.due
  <1>1. /\ s.frequency \in Frequencies /\ s.first \in Dates /\ s.due \in Dates
        /\ s.first \in Nat /\ s.due \in Nat /\ t.due \in Dates /\ t.due \in Nat
        /\ Span(s.frequency) \in Nat
    BY SalaryIs
  <1>2. CASE s.frequency \in {"WEEKLY", "BIWEEKLY"}
    <2> DEFINE w == Span(s.frequency)
    <2>1. t.due = s.due + w
      BY <1>2 DEF NextDate, Span
    <2>2. s.due = s.first + n * w
      BY <1>2 DEF OnSchedule
    <2>3. n * w \in Nat /\ (n + 1) * w = n * w + w
      BY <1>1
    <2> HIDE DEF w
    <2>4. t.due = t.first + (n + 1) * w /\ t.first <= t.due
      BY <1>1, <2>1, <2>2, <2>3 DEF w
    <2> QED
      BY <1>2, <2>4 DEF OnSchedule, w
  <1>3. CASE s.frequency = "MONTHLY"
    <2> DEFINE d == s.due
               e == t.due
               f == s.first
    <2>1. e = NextDate(d, "MONTHLY") /\ d \in Dates /\ e \in Dates
      BY <1>1, <1>3
    <2>2. /\ d <= e
          /\ \/ MonthOf[e] = MonthOf[d] + 1 /\ DayOf(e) = DayOf(d)
             \/ /\ MonthOf[e] = MonthOf[d] + 2
                /\ ~FitsEveryMonth(d) /\ FitsEveryMonth(e)
      BY <2>1, NextMonthIs
    <2>3. \/ MonthOf[d] = MonthOf[f] + n /\ DayOf(d) = DayOf(f)
          \/ /\ ~FitsEveryMonth(f) /\ FitsEveryMonth(d)
             /\ MonthOf[d] = MonthOf[f] + n + 1
      BY <1>3 DEF OnSchedule
    <2>4. MonthOf[d] \in Nat /\ MonthOf[e] \in Nat /\ MonthOf[f] \in Nat
      BY <1>1, MonthHasDay, StartsAreNatural
    <2>5. f <= e
      BY <1>1, <2>2
    <2>6. /\ DayOf(d) = DayOf(f) => (FitsEveryMonth(d) <=> FitsEveryMonth(f))
          /\ DayOf(d) = DayOf(e) => (FitsEveryMonth(d) <=> FitsEveryMonth(e))
      BY DEF FitsEveryMonth
    <2> HIDE DEF d, e, f
    <2>7. \/ MonthOf[e] = MonthOf[f] + (n + 1) /\ DayOf(e) = DayOf(f)
          \/ /\ ~FitsEveryMonth(f) /\ FitsEveryMonth(e)
             /\ MonthOf[e] = MonthOf[f] + (n + 1) + 1
      <3>1. CASE MonthOf[d] = MonthOf[f] + n /\ DayOf(d) = DayOf(f)
        BY <2>2, <2>4, <2>6, <3>1
      <3>2. CASE /\ ~FitsEveryMonth(f) /\ FitsEveryMonth(d)
                 /\ MonthOf[d] = MonthOf[f] + n + 1
        BY <2>2, <2>4, <2>6, <3>2
      <3> QED
        BY <2>3, <3>1, <3>2
    <2> QED
      BY <1>3, <2>5, <2>7 DEF OnSchedule, e, f
  <1>4. CASE s.frequency = "other"
    <2>1. t.due = s.due
      BY <1>4 DEF NextDate
    <2> QED
      BY <1>1, <1>4, <2>1 DEF OnSchedule
  <1> QED
    BY <1>1, <1>2, <1>3, <1>4 DEF Frequencies

-----------------------------------------------------------------------------
(* The periods that have fallen due.                                       *)
LEMMA PeriodsAre ==
  ASSUME NEW s \in Salaries, NEW d \in Dates
  PROVE  /\ d < s.first => PeriodsBy(d, s) = 0
         /\ s.first <= d /\ s.frequency = "MONTHLY" =>
              PeriodsBy(d, s) = MonthOf[d] - MonthOf[s.first] + 1
         /\ s.first <= d /\ s.frequency # "MONTHLY" =>
              /\ d - s.first \in Nat
              /\ PeriodsBy(d, s) = (d - s.first) \div Span(s.frequency) + 1
         /\ PeriodsBy(d, s) \in Nat
  <1>1. /\ s.first \in Dates /\ s.first \in Nat /\ d \in Nat
        /\ Span(s.frequency) \in Nat \ {0}
    BY SalaryIs, MonthHasDay
  <1>2. CASE d < s.first
    BY <1>1, <1>2 DEF PeriodsBy
  <1>3. CASE s.first <= d /\ s.frequency = "MONTHLY"
    <2>1. MonthOf[d] \in Nat /\ MonthOf[s.first] \in Nat /\ MonthOf[s.first] <= MonthOf[d]
      BY <1>1, <1>3, MonthHasDay, StartsAreNatural, MonthsInOrder
    <2>2. PeriodsBy(d, s) = MonthOf[d] - MonthOf[s.first] + 1
      BY <1>1, <1>3 DEF PeriodsBy
    <2> QED
      BY <1>1, <1>3, <2>1, <2>2
  <1>4. CASE s.first <= d /\ s.frequency # "MONTHLY"
    <2> DEFINE a == d - s.first
               w == Span(s.frequency)
    <2>1. a \in Nat /\ w \in Nat \ {0}
      BY <1>1, <1>4
    <2>2. PeriodsBy(d, s) = a \div w + 1
      BY <1>1, <1>4 DEF PeriodsBy
    <2> HIDE DEF a, w
    <2>3. a \div w + 1 \in Nat
      BY <2>1, DivGrows
    <2> QED
      BY <1>1, <1>4, <2>1, <2>2, <2>3 DEF a, w
  <1> QED
    BY <1>1, <1>2, <1>3, <1>4

LEMMA PeriodsGrow ==
  ASSUME NEW s \in Salaries, NEW d \in Dates, d + 1 \in Dates
  PROVE  PeriodsBy(d, s) <= PeriodsBy(d + 1, s)
  <1>1. /\ s.first \in Dates /\ s.first \in Nat /\ d \in Nat
        /\ Span(s.frequency) \in Nat \ {0}
        /\ PeriodsBy(d, s) \in Nat /\ PeriodsBy(d + 1, s) \in Nat
    BY SalaryIs, MonthHasDay, PeriodsAre
  <1>2. CASE d < s.first
    BY <1>1, <1>2, PeriodsAre
  <1>3. CASE s.first <= d /\ s.frequency = "MONTHLY"
    <2>1. /\ MonthOf[d] \in Nat /\ MonthOf[d + 1] \in Nat /\ MonthOf[s.first] \in Nat
          /\ MonthOf[d] <= MonthOf[d + 1]
      BY <1>1, MonthHasDay, StartsAreNatural, MonthsInOrder
    <2>2. /\ PeriodsBy(d, s) = MonthOf[d] - MonthOf[s.first] + 1
          /\ PeriodsBy(d + 1, s) = MonthOf[d + 1] - MonthOf[s.first] + 1
      BY <1>1, <1>3, PeriodsAre
    <2> QED
      BY <2>1, <2>2
  <1>4. CASE s.first <= d /\ s.frequency # "MONTHLY"
    <2> DEFINE a == d - s.first
               w == Span(s.frequency)
    <2>1. a \in Nat /\ w \in Nat \ {0} /\ d + 1 - s.first = a + 1
      BY <1>1, <1>4
    <2>2. /\ PeriodsBy(d, s) = a \div w + 1
          /\ PeriodsBy(d + 1, s) = (d + 1 - s.first) \div w + 1
      BY <1>1, <1>4, PeriodsAre
    <2> HIDE DEF a, w
    <2>3. /\ a \div w \in Nat /\ a \div w <= (a + 1) \div w
          /\ (a + 1) \div w \in Nat
      BY <2>1, DivGrows
    <2> QED
      BY <2>1, <2>2, <2>3
  <1> QED
    BY <1>1, <1>2, <1>3, <1>4

(* A salary that is due and on schedule has a period that is not paid yet. *)
LEMMA PeriodIsDue ==
  ASSUME NEW s \in Salaries, NEW n \in Nat, OnSchedule(s, n),
         s.first <= s.due, NEW d \in Dates, s.due <= d, s.frequency # "other"
  PROVE  n + 1 <= PeriodsBy(d, s)
  <1>1. /\ s.first \in Dates /\ s.first \in Nat /\ d \in Nat /\ s.due \in Nat
        /\ s.due \in Dates /\ Span(s.frequency) \in Nat \ {0}
        /\ s.frequency \in Frequencies
    BY SalaryIs, MonthHasDay
  <1>2. s.first <= d
    BY <1>1
  <1>3. CASE s.frequency = "MONTHLY"
    <2>1. /\ MonthOf[d] \in Nat /\ MonthOf[s.due] \in Nat /\ MonthOf[s.first] \in Nat
          /\ MonthOf[s.due] <= MonthOf[d]
      BY <1>1, MonthHasDay, StartsAreNatural, MonthsInOrder
    <2>2. \/ MonthOf[s.due] = MonthOf[s.first] + n
          \/ MonthOf[s.due] = MonthOf[s.first] + n + 1
      BY <1>3 DEF OnSchedule
    <2>3. PeriodsBy(d, s) = MonthOf[d] - MonthOf[s.first] + 1
      BY <1>2, <1>3, PeriodsAre
    <2> QED
      BY <2>1, <2>2, <2>3
  <1>4. CASE s.frequency # "MONTHLY"
    <2> DEFINE a == d - s.first
               w == Span(s.frequency)
    <2>1. PeriodsBy(d, s) = a \div w + 1 /\ a \in Nat /\ w \in Nat \ {0}
      BY <1>1, <1>2, <1>4, PeriodsAre
    <2>2. s.due = s.first + n * w /\ n * w \in Nat
      BY <1>1, <1>4 DEF OnSchedule, Frequencies
    <2>3. n * w <= a
      BY <1>1, <2>2
    <2> HIDE DEF a, w
    <2>4. a \div w \in Nat /\ a \div w >= n
      BY <2>1, <2>3, DivAtLeast
    <2> QED
      BY <2>1, <2>4
  <1> QED
    BY <1>3, <1>4

(* A salary without a period is due for every day.                         *)
LEMMA PeriodIsDay ==
  ASSUME NEW s \in Salaries, NEW d \in Dates, s.first <= d, s.frequency = "other"
  PROVE  PeriodsBy(d, s) = d - s.first + 1
  <1>1. s.first \in Nat /\ d \in Nat /\ d - s.first \in Nat
    BY SalaryIs, MonthHasDay
  <1>2. Span(s.frequency) = 1
    BY DEF Span
  <1>3. PeriodsBy(d, s) = (d - s.first) \div 1 + 1
    BY <1>2, PeriodsAre
  <1>4. \A a \in Nat : a \div 1 = a
    OBVIOUS
  <1> QED
    BY <1>1, <1>3, <1>4

-----------------------------------------------------------------------------
LEMMA ScheduleNext ==
  TypeOK /\ RunInv /\ DayInv /\ CauseInv /\ ScheduleInv /\ [Next]_vars => ScheduleInv'
  <1> SUFFICES ASSUME TypeOK, RunInv, DayInv, CauseInv, ScheduleInv, [Next]_vars
               PROVE  ScheduleInv'
    OBVIOUS
  <1> DEFINE Ahead(p) == sent[p] <= PeriodsBy(day, salary[p]) + resumed[p] + lost
             Keeps(p) == /\ salary[p].status # "none" => OnSchedule(salary[p], count[p])
                         /\ salary[p].status = "none" => count[p] = 0
                         /\ salary[p].first <= salary[p].due
             Daily(p) == sent[p] = 0 \/ salary[p].first + sent[p] <= day + today[p]
             Goal(p)  == Ahead(p)' /\ Keeps(p)' /\ Daily(p)'
  <1>0. SUFFICES \A p \in Payments : Goal(p)
    BY DEF ScheduleInv, NoSalaryAhead, PaydaysKeep
  <1>1. \A p \in Payments : Ahead(p) /\ Keeps(p) /\ Daily(p)
    BY DEF ScheduleInv, NoSalaryAhead, PaydaysKeep
  <1>2. /\ \A p \in Payments : /\ count[p] \in Nat /\ sent[p] \in Nat /\ resumed[p] \in Nat
                               /\ today[p] \in Nat /\ today[p] <= 1
                               /\ salary[p] \in Salaries
        /\ lost \in Nat /\ day \in Dates /\ day \in Nat
    BY PayrollAssumption, CalendarAssumption DEF TypeOK, Days, Dates, DayInv, OncePerDay
  <1>3. TypeOK'
    BY TypedNext
  <1>4. /\ \A p \in Payments : /\ count'[p] \in Nat /\ sent'[p] \in Nat
                               /\ resumed'[p] \in Nat /\ today'[p] \in Nat
                               /\ salary'[p] \in Salaries
        /\ lost' \in Nat /\ day' \in Dates /\ day' \in Nat
    BY <1>3, PayrollAssumption, CalendarAssumption DEF TypeOK, Days, Dates
  <1>5. \A p \in Payments : /\ PeriodsBy(day, salary[p]) \in Nat
                            /\ salary[p].first \in Nat /\ salary[p].due \in Nat
                            /\ PeriodsBy(day', salary'[p]) \in Nat
                            /\ salary'[p].first \in Nat /\ salary'[p].due \in Nat
    BY <1>2, <1>4, PeriodsAre, SalaryIs
  <1>6. ASSUME NEW p \in Payments, salary'[p] = salary[p],
               count'[p] = count[p], sent'[p] = sent[p], today'[p] = today[p],
               resumed'[p] >= resumed[p], lost' >= lost, day' = day
        PROVE  Goal(p)
    <2>1. Ahead(p)'
      BY <1>1, <1>2, <1>4, <1>5, <1>6
    <2> QED
      BY <1>1, <1>6, <2>1
  (* The terms of a salary never change.                                   *)
  <1>7. ASSUME NEW p \in Payments, KeepsTerms(p),
               salary[p].status # "none", salary'[p].status # "none",
               count'[p] = count[p], sent'[p] = sent[p], today'[p] = today[p],
               resumed'[p] >= resumed[p], lost' >= lost, day' = day
        PROVE  Goal(p)
    <2>1. PeriodsBy(day', salary'[p]) = PeriodsBy(day, salary[p])
      BY <1>7 DEF KeepsTerms, PeriodsBy
    <2>2. OnSchedule(salary'[p], count'[p])
      <3>1. OnSchedule(salary[p], count[p])
        BY <1>1, <1>7
      <3> QED
        BY <1>7, <3>1 DEF KeepsTerms, OnSchedule
    <2>3. Ahead(p)'
      BY <1>1, <1>2, <1>4, <1>5, <1>7, <2>1
    <2> QED
      BY <1>1, <1>7, <2>2, <2>3 DEF KeepsTerms
  <1>8. ASSUME Owner, NEW q \in Payments PROVE Goal(q)
    <2>1. PICK p \in Payments : OwnerStep(p)
      BY <1>8, OwnerSteps
    <2>2. UNCHANGED <<count, sent, today, lost, day>>
          /\ \A x \in Payments : x # p => salary'[x] = salary[x]
      BY <2>1 DEF OwnerStep, money
    <2>3. \A x \in Payments : resumed'[x] >= resumed[x]
      BY <1>2, <2>1, Increment DEF OwnerStep, Created, Marked, Resumed, TypeOK
    <2>4. CASE q # p
      BY <1>2, <1>6, <2>2, <2>3, <2>4
    <2>5. CASE q = p /\ (Marked(p) \/ Resumed(p))
      <3>1. salary[p].status # "none" /\ salary'[p].status # "none" /\ KeepsTerms(p)
        BY <2>5 DEF Marked, Resumed
      <3> QED
        BY <1>2, <1>7, <2>2, <2>3, <2>5, <3>1
    <2>6. CASE q = p /\ Created(p)
      <3>1. /\ salary[p].status = "none" /\ salary'[p].status = "ACTIVE"
            /\ salary'[p].due = salary'[p].first /\ sent[p] = 0 /\ count[p] = 0
        BY <1>1, <2>6 DEF Created, CauseInv
      <3>2. OnSchedule(salary'[p], 0)
        BY <1>4, <3>1, FirstOnSchedule
      <3>3. sent'[p] = 0 /\ count'[p] = 0
        BY <2>2, <3>1
      <3>4. Ahead(p)'
        BY <1>4, <1>5, <3>3
      <3>5. Keeps(p)'
        BY <1>5, <3>1, <3>2, <3>3
      <3> QED
        BY <2>6, <3>3, <3>4, <3>5
    <2> QED
      BY <2>1, <2>4, <2>5, <2>6 DEF OwnerStep
  <1>9. ASSUME Process, NEW q \in Payments PROVE Goal(q)
    <2>1. ProcessStep
      BY <1>9, ProcessSteps
    <2>2. CASE UNCHANGED <<day, salary, count, sent, today, resumed, lost>>
      BY <1>2, <1>6, <2>2
    <2>3. CASE Pauses
      <3>1. run.cur \in Payments /\ "PAUSED" \in Statuses
        BY <2>3 DEF Pauses, RunInv, Working, Statuses
      <3>2. UNCHANGED <<day, count, sent, today, resumed, lost>>
        BY <2>3 DEF Pauses, money
      <3>3. /\ KeepsTerms(run.cur) /\ salary'[run.cur].status = "PAUSED"
            /\ \A x \in Payments : x # run.cur => salary'[x] = salary[x]
        BY <2>3, <3>1, SetStatusIs DEF Pauses, TypeOK, KeepsTerms
      <3>4. salary[run.cur].status # "none"
        BY <2>3 DEF Pauses, Exists
      <3>5. CASE q = run.cur
        BY <1>2, <1>7, <3>2, <3>3, <3>4, <3>5
      <3>6. CASE q # run.cur
        BY <1>2, <1>6, <3>2, <3>3, <3>6
      <3> QED
        BY <3>5, <3>6
    <2>4. CASE Aborts
      <3>1. UNCHANGED <<day, salary, count, sent, today, resumed>> /\ lost' >= lost
        BY <1>2, <2>4 DEF Aborts, money
      <3> QED
        BY <1>2, <1>6, <3>1
    <2>5. CASE Sends
      <3> DEFINE p == run.cur
      <3>1. /\ p \in Payments /\ salary[p].status # "none"
            /\ salary[p].due <= day /\ ToSend(p)
        BY <2>5 DEF Sends, RunInv, Working, ToSend, At
      <3>2. UNCHANGED <<day, salary, count, resumed, lost>>
        BY <2>5 DEF Sends
      <3>3. /\ sent'[p] = sent[p] + 1 /\ today'[p] = today[p] + 1
            /\ \A x \in Payments : x # p => sent'[x] = sent[x] /\ today'[x] = today[x]
        BY <2>5, <3>1, Increment DEF Sends, TypeOK
      <3>4. CASE q # p
        BY <1>2, <1>6, <3>2, <3>3, <3>4
      <3>5. CASE q = p
        <4>0. /\ salary[q].status # "none" /\ salary[q].due <= day /\ ToSend(q)
              /\ sent'[q] = sent[q] + 1 /\ today'[q] = today[q] + 1
          BY <3>1, <3>3, <3>5
        <4> HIDE DEF p
        <4>1. /\ salary[q].first <= salary[q].due /\ salary[q].first <= day
              /\ OnSchedule(salary[q], count[q])
          BY <1>1, <1>2, <1>5, <4>0
        <4>2. Daily(q)'
          BY <1>1, <1>2, <1>5, <4>0, <3>2, <4>1
        <4>3. Keeps(q)'
          BY <1>1, <4>0, <3>2
        <4>4. CASE salary[q].frequency = "other"
          <5>1. PeriodsBy(day, salary[q]) = day - salary[q].first + 1
            BY <1>2, <4>0, <4>1, <4>4, PeriodIsDay
          <5>2. today[q] = 0
            BY <4>0 DEF DayInv
          <5>3. sent[q] + 1 <= day - salary[q].first + 1
            BY <1>1, <1>2, <1>5, <4>0, <4>1, <5>2
          <5>4. Ahead(q)'
            BY <1>2, <1>5, <4>0, <3>2, <5>1, <5>3
          <5> QED
            BY <3>5, <4>2, <4>3, <5>4
        <4>5. CASE salary[q].frequency # "other"
          <5>1. count[q] + 1 <= PeriodsBy(day, salary[q])
            BY <1>2, <4>0, <4>1, <4>5, PeriodIsDue
          <5>2. sent[q] <= count[q] + resumed[q] + lost
            BY <4>0 DEF CauseInv
          <5>3. Ahead(q)'
            BY <1>2, <1>5, <4>0, <3>2, <5>1, <5>2
          <5> QED
            BY <3>5, <4>2, <4>3, <5>3
        <4> QED
          BY <4>4, <4>5
      <3> QED
        BY <3>4, <3>5
    <2>6. CASE Advances
      <3> DEFINE p == run.cur
      <3>1. /\ p \in Payments /\ salary[p].status # "none" /\ run.due = salary[p].due
        BY <2>6 DEF Advances, RunInv, Working
      <3>2. /\ salary'[p].status = salary[p].status
            /\ salary'[p].frequency = salary[p].frequency
            /\ salary'[p].first = salary[p].first
            /\ salary'[p].due = NextDate(salary[p].due, salary[p].frequency)
            /\ \A x \in Payments : x # p => salary'[x] = salary[x]
        BY <2>6, <3>1, AdvanceIs
      <3>3. count'[p] = count[p] + 1 /\ \A x \in Payments : x # p => count'[x] = count[x]
        BY <2>6, <3>1, Increment DEF Advances, TypeOK
      <3>4. UNCHANGED <<day, sent, today, resumed, lost>>
        BY <2>6 DEF Advances, money
      <3>5. CASE q # p
        BY <1>2, <1>6, <3>2, <3>3, <3>4, <3>5
      <3>6. CASE q = p
        <4>0. /\ salary[q].status # "none" /\ salary'[q].status = salary[q].status
              /\ salary'[q].frequency = salary[q].frequency
              /\ salary'[q].first = salary[q].first
              /\ salary'[q].due = NextDate(salary[q].due, salary[q].frequency)
              /\ count'[q] = count[q] + 1
          BY <3>1, <3>2, <3>3, <3>6
        <4> HIDE DEF p
        <4>1. OnSchedule(salary'[q], count[q] + 1) /\ salary'[q].first <= salary'[q].due
          BY <1>1, <1>2, <1>4, <4>0, NextOnSchedule
        <4>2. PeriodsBy(day', salary'[q]) = PeriodsBy(day, salary[q])
          BY <4>0, <3>4 DEF PeriodsBy
        <4>3. Ahead(q)'
          BY <1>1, <4>0, <3>4, <4>2
        <4>4. Daily(q)'
          BY <1>1, <4>0, <3>4
        <4>5. Keeps(q)'
          BY <4>0, <4>1
        <4> QED
          BY <3>6, <4>3, <4>4, <4>5
      <3> QED
        BY <3>5, <3>6
    <2> QED
      BY <2>1, <2>2, <2>3, <2>4, <2>5, <2>6
         DEF ProcessStep, Starts, Ends, Picks, Checks, Fails, Records, Releases, Deducts,
             money
  <1>10. ASSUME Midnight, NEW q \in Payments PROVE Goal(q)
    <2>1. /\ day' = day + 1 /\ UNCHANGED <<salary, count, sent, resumed, lost>>
          /\ today'[q] = 0
      BY <1>10 DEF Midnight
    <2>2. PeriodsBy(day, salary[q]) <= PeriodsBy(day', salary'[q])
      BY <1>2, <1>4, <2>1, PeriodsGrow
    <2>3. Ahead(q)'
      BY <1>1, <1>2, <1>5, <2>1, <2>2
    <2>4. Daily(q)'
      BY <1>1, <1>2, <1>5, <2>1
    <2>5. Keeps(q)'
      BY <1>1, <2>1
    <2> QED
      BY <2>3, <2>4, <2>5
  <1>11. ASSUME Crash, NEW q \in Payments PROVE Goal(q)
    <2>1. UNCHANGED <<day, salary, count, sent, today, resumed>> /\ lost' >= lost
      BY <1>2, <1>11 DEF Crash, money
    <2> QED
      BY <1>2, <1>6, <2>1
  <1>12. ASSUME UNCHANGED vars, NEW q \in Payments PROVE Goal(q)
    BY <1>2, <1>6, <1>12 DEF vars, money
  <1> QED
    BY <1>8, <1>9, <1>10, <1>11, <1>12 DEF Next

-----------------------------------------------------------------------------
(* No step but the ones DueIsTakenUp names passes a due payment by.        *)
TakenUp(p) == ~PassedBy(p) /\ PassedBy(p)' =>
                \/ ~Due(p) /\ salary'[p] # salary[p]
                \/ lost' > lost
                \/ run.pc = "fail" /\ ~Exists(run.cur)
                \/ day' > day /\ ~timer

LEMMA ProcessTakesUp ==
  ASSUME PayrollInv, ProcessStep, NEW p \in Payments
  PROVE  TakenUp(p)
  <1> USE DEF TakenUp, PassedBy, InHands, ToSend, At
  <1>0. /\ salary \in [Payments -> Salaries] /\ today \in [Payments -> Nat]
        /\ RunInv /\ DayInv /\ TypeOK /\ lost \in Nat
    BY PayrollAssumption DEF PayrollInv, TypeOK
  <1>1. CASE Starts
    <2>1. fired' /\ salary' = salary /\ day' = day /\ (Due(p) => Selected(p)')
      BY <1>1 DEF Starts, Selected
    <2> QED
      BY <2>1 DEF Due
  <1>2. CASE Ends
    BY <1>2 DEF Ends, Selected, Due, money
  <1>3. CASE Picks
    <2>1. PICK b \in run.left : /\ run'.cur = b[1] /\ run'.left = run.left \ {b}
                                /\ run'.pc = "check" /\ run.pc = "next"
                                /\ UNCHANGED <<salary, day, fired, today>>
      BY <1>3 DEF Picks, money
    <2>2. Selected(p) => Selected(p)' \/ run'.cur = p
      BY <2>1 DEF Selected
    <2> QED
      BY <2>1, <2>2 DEF Due
  <1>4. CASE Checks \/ Fails
    <2>1. /\ SameRun /\ UNCHANGED <<salary, day, fired, today>>
          /\ run'.pc \in {"pause", "send", "fail"}
          /\ run.pc \in {"check", "send", "pause"} \/ run'.pc = "fail"
      BY <1>4 DEF Checks, Fails, money
    <2> QED
      BY <2>1 DEF SameRun, Selected, Due
  <1>5. CASE Pauses
    <2>1. /\ run.cur \in Payments /\ SameRun /\ run'.pc = "next"
          /\ UNCHANGED <<day, timer, fired, today>>
      BY <1>0, <1>5 DEF Pauses, RunInv, Working, money
    <2>2. /\ salary'[run.cur].status = "PAUSED"
          /\ \A q \in Payments : q # run.cur => salary'[q] = salary[q]
      BY <1>0, <1>5, <2>1, SetStatusIs DEF Pauses, Statuses
    <2> QED
      BY <2>1, <2>2 DEF SameRun, Selected, Due
  <1>6. CASE Aborts
    BY <1>0, <1>6 DEF Aborts
  <1>7. CASE Sends
    <2>1. /\ run.cur \in Payments /\ SameRun /\ run.pc = "send"
          /\ UNCHANGED <<salary, day, fired>>
      BY <1>0, <1>7 DEF Sends, RunInv, Working
    <2>2. /\ today'[run.cur] = today[run.cur] + 1
          /\ \A q \in Payments : q # run.cur => today'[q] = today[q]
      BY <1>0, <1>7, <2>1, Increment DEF Sends
    <2> QED
      BY <1>0, <2>1, <2>2 DEF SameRun, Selected, Due
  <1>8. CASE Records \/ Advances \/ Releases \/ Deducts
    <2>1. /\ run.pc \in {"record", "advance", "release", "deduct"}
          /\ SameRun /\ UNCHANGED <<day, timer, fired, today>>
          /\ \A q \in Payments : q # run.cur => salary'[q] = salary[q]
      BY <1>0, <1>8, AdvanceIs DEF Records, Advances, Releases, Deducts, money
    <2>2. today[run.cur] > 0
      BY <1>0, <2>1 DEF DayInv
    <2> QED
      BY <2>1, <2>2 DEF SameRun, Selected, Due
  <1> QED
    BY <1>1, <1>2, <1>3, <1>4, <1>5, <1>6, <1>7, <1>8 DEF ProcessStep

LEMMA StepTakesUp ==
  ASSUME PayrollInv, Next, NEW p \in Payments
  PROVE  TakenUp(p)
  <1>0. TypeOK /\ RunInv /\ lost \in Nat
    BY PayrollAssumption DEF PayrollInv, TypeOK
  <1>1. CASE Process
    BY <1>0, <1>1, ProcessSteps, ProcessTakesUp
  <1>2. CASE Owner
    <2>1. PICK q \in Payments : OwnerStep(q)
      BY <1>0, <1>2, OwnerSteps
    <2>2. UNCHANGED <<day, timer, fired, run, today>>
      BY <2>1 DEF OwnerStep, money
    <2>3. InHands(p)' <=> InHands(p)
      BY <2>2 DEF InHands, ToSend, Selected, At
    <2>4. Due(p) \/ salary'[p] # salary[p] \/ ~Due(p)'
      BY <2>2 DEF Due
    <2> QED
      BY <2>2, <2>3, <2>4 DEF TakenUp, PassedBy
  <1>3. CASE Midnight
    <2>1. day' > day
      BY <1>0, <1>3, DaysAreDates DEF Midnight, TypeOK
    <2>2. PassedBy(p)' => ~timer
      BY <1>3 DEF Midnight, PassedBy
    <2> QED
      BY <2>1, <2>2 DEF TakenUp
  <1>4. CASE Crash
    BY <1>0, <1>4 DEF Crash, TakenUp
  <1> QED
    BY <1>1, <1>2, <1>3, <1>4 DEF Next

-----------------------------------------------------------------------------
LEMMA InvInit == Init => PayrollInv
  <1> SUFFICES ASSUME Init PROVE PayrollInv
    OBVIOUS
  <1> USE PayrollAssumption
  <1>1. /\ run = IdleRun /\ run.pc = "idle" /\ run.left = {} /\ run.cur = NoPayment
        /\ run \in RunRecords
    BY IdleRunIs DEF Init
  <1>2. \A p \in Payments : /\ salary[p].status = "none" /\ salary[p].first = 0
                            /\ salary[p].due = 0
                            /\ count[p] = 0 /\ sent[p] = 0 /\ today[p] = 0
                            /\ rows[p] = 0 /\ released[p] = 0 /\ deducted[p] = 0
                            /\ resumed[p] = 0
    BY DEF Init, NoSalary, Zero
  <1>3. TypeOK
    <2>1. salary \in [Payments -> Salaries]
      <3>1. NoSalary \in Salaries
        BY CalendarAssumption
           DEF NoSalary, Salaries, Statuses, Frequencies, Dates
      <3> QED
        BY <3>1 DEF Init
    <2>2. /\ count \in [Payments -> Nat] /\ sent \in [Payments -> Nat]
          /\ today \in [Payments -> Nat] /\ rows \in [Payments -> Nat]
          /\ released \in [Payments -> Nat] /\ deducted \in [Payments -> Nat]
          /\ resumed \in [Payments -> Nat]
      BY DEF Init, Zero
    <2>3. day \in Days /\ lost \in 0 .. MaxLosses
      BY DaysAreDates DEF Init, Days
    <2>4. timer \in BOOLEAN /\ fired \in BOOLEAN
      BY DEF Init
    <2> QED
      BY <1>1, <2>1, <2>2, <2>3, <2>4 DEF TypeOK
  <1>4. \A p \in Payments : ~ToSend(p)
    BY <1>1 DEF ToSend, Selected, At
  <1>5. RunInv /\ BooksInv
    BY <1>1, <1>2 DEF RunInv, Working, BooksInv, BooksTrailTransfers
  <1>6. DayInv
    BY <1>1, <1>2, <1>4 DEF Init, DayInv, OncePerDay
  <1>7. lost = 0
    BY DEF Init
  <1>8. CauseInv
    BY <1>1, <1>2, <1>4, <1>7 DEF CauseInv, RepeatsNeedCause
  <1>9. ScheduleInv
    <2>1. ASSUME NEW p \in Payments PROVE PeriodsBy(day, salary[p]) \in Nat
      BY <1>3, PeriodsAre, DaysAreDates DEF TypeOK
    <2> QED
      BY <1>2, <1>7, <2>1 DEF ScheduleInv, NoSalaryAhead, PaydaysKeep
  <1> QED
    BY <1>3, <1>5, <1>6, <1>8, <1>9 DEF PayrollInv

(* PayrollInv is inductive, so it holds of every run of the processor.     *)
THEOREM PayrollInvariant == Spec => []PayrollInv
  <1>1. PayrollInv /\ [Next]_vars => PayrollInv'
    BY TypedNext, RunNext, BooksNext, DayNext, CauseNext, ScheduleNext DEF PayrollInv
  <1> QED
    BY InvInit, <1>1, PTL DEF Spec

(* The variables keep their types; in particular due dates stay within the *)
(* calendar, because only due payments are advanced.                       *)
THEOREM PayrollTypes == Spec => []TypeOK
  BY PayrollInvariant, PTL DEF PayrollInv

(* The processor's books never run ahead of the transfers.                 *)
THEOREM BooksTrail == Spec => []BooksTrailTransfers
  BY PayrollInvariant, PTL DEF PayrollInv, BooksInv

(* A salary is sent at most once a day, whatever restarts.                 *)
THEOREM AtMostDaily == Spec => []OncePerDay
  BY PayrollInvariant, PTL DEF PayrollInv, DayInv

(* Repeated transfers of a period are accounted for by resumes by the      *)
(* owner and runs lost to crashes and errors, but for one.                 *)
THEOREM RepeatsAreAccounted == Spec => []RepeatsNeedCause
  BY PayrollInvariant, PTL DEF PayrollInv, CauseInv

(* No salary is paid before its period falls due, for any calendar.        *)
THEOREM NothingInAdvance == Spec => []NoSalaryAhead
  BY PayrollInvariant, PTL DEF PayrollInv, ScheduleInv

(* Paydays never drift, and a monthly one slides at most once, whatever    *)
(* the weeks and months are.                                               *)
THEOREM PaydaysAreKept == Spec => []PaydaysKeep
  BY PayrollInvariant, PTL DEF PayrollInv, ScheduleInv

(* A due salary is passed by only for the causes DueIsTakenUp names: its   *)
(* selection, the loop over the batch and every error path keep it in the  *)
(* run's hands until it was sent or paused.                                *)
THEOREM DueSalariesAreTakenUp == Spec => DueIsTakenUp
  <1>1. PayrollInv /\ Next => \A p \in Payments : TakenUp(p)
    BY StepTakesUp
  <1>2. PayrollInv /\ [Next]_vars =>
          [\A p \in Payments : ~PassedBy(p) /\ PassedBy(p)' =>
             \/ ~Due(p) /\ salary'[p] # salary[p]
             \/ lost' > lost
             \/ run.pc = "fail" /\ ~Exists(run.cur)
             \/ day' > day /\ ~timer]_vars
    BY <1>1 DEF TakenUp
  <1> QED
    BY <1>2, PayrollInvariant, PTL DEF Spec, DueIsTakenUp
=============================================================================
