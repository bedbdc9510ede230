-------------------------- MODULE TaskPaymentProofs --------------------------
(***************************************************************************)
(* Proofs about module TaskPayment, for every value of its constants: any  *)
(* number of tasks, requests, managers, attempts, stalls and crashes, and  *)
(* any set of faults.                                                      *)
(***************************************************************************)
EXTENDS TaskPaymentInv, TLAPS

-----------------------------------------------------------------------------
(* The variables keep their types, whatever the handlers, the worker, the  *)
(* chain and the monitor do; in particular attempts and stalls are bounded.*)
(* The bound needs to know which jobs may still run.                       *)

LEMMA JobsArePairs ==
  ASSUME NEW r \in Requests, NEW p \in Payees
  PROVE  <<r, p>> \in Jobs
  BY DEF Jobs

LEMMA RunInRuns ==
  ASSUME TypeOK, JobInv, NEW j \in Jobs, job[j].state \in Live
  PROVE  RunOf(j) \in Runs
  <1>1. job[j].made \in 0 .. Attempts /\ job[j].stalls \in 0 .. MaxStalls
    BY DEF TypeOK, JobRecords
  <1>2. job[j].made < Attempts
    BY DEF Active, JobInv
  <1> QED
    BY <1>1, <1>2, PaymentAssumption DEF RunOf, Runs

LEMMA TypedInit == Init => Typed
  <1> SUFFICES ASSUME Init PROVE Typed
    OBVIOUS
  <1>1. TypeOK
    <2>1. IdleRequest \in RequestRecords
      BY DEF IdleRequest, RequestRecords, RequestPCs, NoEdit, Edits, TaskStatus
    <2>2. NoJob \in JobRecords
      BY PaymentAssumption DEF NoJob, JobRecords, JobStates, JobPCs
    <2>3. IdleMonitor \in [pc : MonitorPCs, left : SUBSET Tasks,
                           task : Tasks \cup {NoTask}]
      BY DEF IdleMonitor, MonitorPCs
    <2>4. ledger \in [Tasks -> Rows \cup {NoRow}]
      BY DEF Init
    <2>5. chain \in [Jobs -> [Runs -> ChainStatus]]
      BY DEF Init, ChainStatus
    <2>6. /\ alive \in [Tasks -> BOOLEAN] /\ status \in [Tasks -> TaskStatus]
          /\ payable \in [Tasks -> BOOLEAN] /\ payment \in [Tasks -> PaymentStatus]
          /\ released \in [Tasks -> Nat] /\ crashes \in 0 .. MaxCrashes
      BY PaymentAssumption DEF Init, TaskStatus, PaymentStatus
    <2> QED
      BY <2>1, <2>2, <2>3, <2>4, <2>5, <2>6 DEF Init, TypeOK
  <1>2. JobInv
    BY PaymentAssumption DEF Init, Active, JobInv, NoJob, Live
  <1>3. ReqInv /\ MonInv
    BY DEF Init, ReqInv, IdleRequest, MonInv, IdleMonitor
  <1> QED
    BY <1>1, <1>2, <1>3 DEF Typed

-----------------------------------------------------------------------------
(* What the record updates of the specification do.                        *)

LEMMA AwaitingIs ==
  ASSUME NEW pc \in RequestPCs, NEW t \in Tasks
  PROVE  /\ Awaiting(pc, t) \in RequestRecords
         /\ Awaiting(pc, t).pc = pc
         /\ Awaiting(pc, t).task = t
         /\ Awaiting(pc, t).left = {}
  BY DEF Awaiting, IdleRequest, RequestRecords, NoEdit, Edits, TaskStatus

LEMMA AnsweredIs ==
  Answered \in RequestRecords /\ Answered.pc = "done"
  BY
     DEF Answered, IdleRequest, RequestRecords, RequestPCs, NoEdit, Edits,
         TaskStatus

LEMMA QueuedIs ==
  ASSUME NEW t \in Tasks \cup {NoTask}
  PROVE  /\ Queued(t) \in JobRecords
         /\ Queued(t).state = "waiting"
         /\ Queued(t).made = 0
         /\ Queued(t).task = t
  BY PaymentAssumption DEF Queued, JobRecords, JobStates, JobPCs

LEMMA SetReq ==
  ASSUME TypeOK, NEW r \in Requests, NEW x \in RequestRecords,
         req' = [req EXCEPT ![r] = x]
  PROVE  /\ req' \in [Requests -> RequestRecords]
         /\ req'[r] = x
         /\ \A q \in Requests : q # r => req'[q] = req[q]
  BY DEF TypeOK

LEMMA SetJob ==
  ASSUME TypeOK, NEW j \in Jobs, NEW x \in JobRecords,
         job' = [job EXCEPT ![j] = x]
  PROVE  /\ job' \in [Jobs -> JobRecords]
         /\ job'[j] = x
         /\ \A k \in Jobs : k # j => job'[k] = job[k]
  BY DEF TypeOK

(* A decision on a recorded row keeps the row and the transfer it names.   *)
LEMMA SetRow ==
  ASSUME TypeOK, NEW t \in Tasks, Recorded(t), NEW v \in RowStatus,
         ledger' = [ledger EXCEPT ![t].status = v]
  PROVE  /\ ledger' \in [Tasks -> Rows \cup {NoRow}]
         /\ ledger'[t].status = v
         /\ ledger'[t].job = ledger[t].job
         /\ ledger'[t].run = ledger[t].run
         /\ ledger'[t].age = ledger[t].age
         /\ \A u \in Tasks : u # t => ledger'[u] = ledger[u]
         /\ \A u \in Tasks : Recorded(u) => Recorded(u)'
  <1>1. ledger[t] \in Rows
    BY DEF TypeOK, Recorded, NoRow
  <1>2. [ledger[t] EXCEPT !.status = v] \in Rows
    BY <1>1 DEF Rows
  <1>3. ledger' = [ledger EXCEPT ![t] = [ledger[t] EXCEPT !.status = v]]
    OBVIOUS
  <1>4. v # "NONE"
    BY DEF RowStatus
  <1> QED
    BY <1>1, <1>2, <1>3, <1>4 DEF TypeOK, Rows, Recorded

(* A pass that leaves a row undecided changes nothing but its age.         *)
LEMMA SetAge ==
  ASSUME TypeOK, NEW t \in Tasks, Recorded(t), PassOver(t)
  PROVE  /\ ledger' \in [Tasks -> Rows \cup {NoRow}]
         /\ ledger'[t].status = ledger[t].status
         /\ ledger'[t].job = ledger[t].job
         /\ ledger'[t].run = ledger[t].run
         /\ \A u \in Tasks : u # t => ledger'[u] = ledger[u]
         /\ \A u \in Tasks : Recorded(u) => Recorded(u)'
  <1> DEFINE row == [ledger[t] EXCEPT !.age = ledger[t].age + 1]
  <1>1. ledger[t] \in Rows
    BY DEF TypeOK, Recorded, NoRow
  <1>2. /\ row \in Rows
        /\ row.status = ledger[t].status
        /\ row.job = ledger[t].job /\ row.run = ledger[t].run
    BY <1>1 DEF Rows
  <1>3. ledger' = [ledger EXCEPT ![t] = row]
    BY DEF PassOver
  <1> QED
    BY <1>2, <1>3 DEF TypeOK, Recorded

LEMMA SetChain ==
  ASSUME TypeOK, NEW j \in Jobs, NEW n \in Runs, NEW v \in ChainStatus,
         chain' = [chain EXCEPT ![j][n] = v]
  PROVE  /\ chain' \in [Jobs -> [Runs -> ChainStatus]]
         /\ chain'[j][n] = v
         /\ \A k \in Jobs : k # j => chain'[k] = chain[k]
         /\ \A m \in Runs : m # n => chain'[j][m] = chain[j][m]
  <1> DEFINE f == [chain[j] EXCEPT ![n] = v]
  <1>1. f \in [Runs -> ChainStatus] /\ f[n] = v
    BY DEF TypeOK
  <1>2. \A m \in Runs : m # n => f[m] = chain[j][m]
    BY DEF TypeOK
  <1>3. chain' = [chain EXCEPT ![j] = f]
    OBVIOUS
  <1>4. chain'[j] = f /\ \A k \in Jobs : k # j => chain'[k] = chain[k]
    BY <1>3 DEF TypeOK
  <1> QED
    BY <1>1, <1>2, <1>3, <1>4 DEF TypeOK

(* Where the worker goes next is all that Goto changes.                    *)
LEMMA GotoSets ==
  ASSUME TypeOK, NEW j \in Jobs, NEW p \in JobPCs, Goto(j, p)
  PROVE  /\ job' \in [Jobs -> JobRecords]
         /\ job'[j].pc = p
         /\ job'[j].state = job[j].state
         /\ job'[j].task = job[j].task
         /\ job'[j].made = job[j].made
         /\ job'[j].stalls = job[j].stalls
         /\ \A k \in Jobs : k # j => job'[k] = job[k]
  BY DEF TypeOK, Goto, JobRecords

(* A failed attempt is counted, and the job waits for a retry or is over.  *)
LEMMA AttemptFailedSets ==
  ASSUME TypeOK, JobInv, NEW j \in Jobs, job[j].state = "active", AttemptFailed(j)
  PROVE  /\ job' \in [Jobs -> JobRecords]
         /\ job'[j].state \in {"delayed", "failed"}
         /\ job'[j].state = "delayed" => job'[j].made < Attempts
         /\ job'[j].task = job[j].task
         /\ job'[j].made = job[j].made + 1
         /\ job'[j].stalls = job[j].stalls
         /\ \A k \in Jobs : k # j => job'[k] = job[k]
  <1> DEFINE made == job[j].made + 1
             x == [job[j] EXCEPT !.pc = "idle", !.made = made,
                     !.state = IF made < Attempts THEN "delayed" ELSE "failed"]
  <1>1. job[j] \in JobRecords
    BY DEF TypeOK
  <1>2. made \in 0 .. Attempts
    BY <1>1, PaymentAssumption DEF Active, JobInv, Live, JobRecords
  <1>3. x \in JobRecords
    BY <1>1, <1>2 DEF JobRecords, JobStates, JobPCs
  <1>4. job' = [job EXCEPT ![j] = x]
    BY DEF AttemptFailed
  <1>5. /\ x.state \in {"delayed", "failed"}
        /\ x.state = "delayed" => x.made < Attempts
        /\ x.task = job[j].task /\ x.made = made /\ x.stalls = job[j].stalls
    BY <1>1 DEF JobRecords
  <1> QED
    BY <1>3, <1>4, <1>5, SetJob

-----------------------------------------------------------------------------
(* JobInv reads job alone and ReqInv reads req alone, so an action is      *)
(* examined for what it does to these two; the types follow.               *)

LEMMA TypedHandler ==
  ASSUME Typed, NEW r \in Requests, Handler(r)
  PROVE  Typed'
  <1> USE DEF Typed
  <1>1. ASSUME NEW t \in Tasks, ApproveCheck(r, t) PROVE Typed'
    <2>1. PICK pc \in {"plain", "approve"} : req' = [req EXCEPT ![r] = Awaiting(pc, t)]
      BY <1>1 DEF ApproveCheck
    <2>2. /\ req' \in [Requests -> RequestRecords]
          /\ req'[r].task \in Tasks
          /\ req'[r].pc # "confirmRow"
          /\ \A q \in Requests : q # r => req'[q] = req[q]
      <3>1. /\ Awaiting(pc, t) \in RequestRecords
            /\ Awaiting(pc, t).task = t
            /\ Awaiting(pc, t).pc = pc
        BY AwaitingIs DEF RequestPCs
      <3> QED
        BY <2>1, <3>1, SetReq
    <2> QED
      BY <1>1, <2>2
         DEF ApproveCheck, TypeOK, Active, JobInv, ReqInv, taskVars, InTasks,
             MonInv, Recorded
  <1>2. ASSUME NEW t \in Tasks, DeleteTask(r, t) PROVE Typed'
    <2>1. /\ req' \in [Requests -> RequestRecords]
          /\ req'[r].pc = "done"
          /\ \A q \in Requests : q # r => req'[q] = req[q]
      BY <1>2, AnsweredIs, SetReq DEF DeleteTask
    <2> QED
      BY <1>2, <2>1
         DEF DeleteTask, TypeOK, Active, JobInv, ReqInv, InTasks, MonInv,
             Recorded
  <1>3. ASSUME NEW t \in Tasks, ViewCheck(r, t) PROVE Typed'
    <2>1. /\ req' \in [Requests -> RequestRecords]
          /\ req'[r].task = t
          /\ \A q \in Requests : q # r => req'[q] = req[q]
      <3>1. /\ Awaiting("confirmRow", t) \in RequestRecords
            /\ Awaiting("confirmRow", t).task = t
        BY AwaitingIs DEF RequestPCs
      <3> QED
        BY <1>3, <3>1, SetReq DEF ViewCheck
    <2> QED
      BY <1>3, <2>1
         DEF ViewCheck, TypeOK, Active, JobInv, ReqInv, taskVars, InTasks,
             MonInv, Recorded
  <1>4. ASSUME NEW t \in Tasks, NEW e \in Edits, EditCheck(r, t, e) PROVE Typed'
    <2> DEFINE x == [Awaiting("edit", t) EXCEPT !.edit = e]
    <2>1. x \in RequestRecords /\ x.task = t /\ x.pc = "edit"
      BY AwaitingIs DEF RequestRecords, RequestPCs
    <2>2. /\ req' \in [Requests -> RequestRecords]
          /\ req'[r].task \in Tasks
          /\ req'[r].pc # "confirmRow"
          /\ \A q \in Requests : q # r => req'[q] = req[q]
      BY <1>4, <2>1, SetReq DEF EditCheck
    <2> QED
      BY <1>4, <2>2
         DEF EditCheck, TypeOK, Active, JobInv, ReqInv, taskVars, InTasks,
             MonInv, Recorded
  <1>5. CASE ApproveWrite(r)
    <2> DEFINE x == IF req[r].pc = "approve" /\ alive[req[r].task]
                      THEN [req[r] EXCEPT !.pc = "queue"] ELSE Answered
    <2>1. x \in RequestRecords /\ (x.pc = "queue" => x.task = req[r].task)
          /\ x.pc \in {"queue", "done"}
      BY AnsweredIs DEF TypeOK, RequestRecords, RequestPCs
    <2>2. req' = [req EXCEPT ![r] = x]
      BY <1>5 DEF ApproveWrite
    <2>3. /\ req' \in [Requests -> RequestRecords]
          /\ req'[r] = x
          /\ \A q \in Requests : q # r => req'[q] = req[q]
      BY <2>1, <2>2, SetReq
    <2>4. req[r].task \in Tasks
      BY <1>5 DEF ApproveWrite, ReqInv
    <2>5. status' \in [Tasks -> TaskStatus]
      BY <1>5, <2>4 DEF ApproveWrite, TypeOK, TaskStatus
    <2>6. ReqInv'
      BY <1>5, <2>1, <2>3, <2>4 DEF ApproveWrite, ReqInv, Recorded
    <2> QED
      BY <1>5, <2>3, <2>5, <2>6
         DEF ApproveWrite, TypeOK, Active, JobInv, InTasks, MonInv, Recorded
  <1>6. CASE QueueEmployee(r)
    <2> DEFINE x == [req[r] EXCEPT !.pc = "oversight", !.left = Managers]
    <2>1. req[r].task \in Tasks
      BY <1>6 DEF QueueEmployee, ReqInv
    <2>2. x \in RequestRecords /\ x.task = req[r].task /\ x.pc = "oversight"
      <3>1. req[r] \in RequestRecords
        BY DEF TypeOK
      <3> QED
        BY <3>1 DEF RequestRecords, RequestPCs
    <2>3. req' = [req EXCEPT ![r] = x] \/ req' = [req EXCEPT ![r] = Answered]
      BY <1>6 DEF QueueEmployee
    <2>4. req' \in [Requests -> RequestRecords] /\ ReqInv'
      BY <1>6, <2>1, <2>2, <2>3, SetReq, AnsweredIs
         DEF QueueEmployee, ReqInv, Recorded
    <2>5. UNCHANGED job \/ (/\ <<r, Employee>> \in Jobs
                            /\ job' = [job EXCEPT ![<<r, Employee>>] = Queued(req[r].task)])
      BY <1>6 DEF QueueEmployee, Jobs, Payees
    <2>6. job' \in [Jobs -> JobRecords] /\ JobInv'
      <3>1. CASE UNCHANGED job
        BY <1>6, <3>1
           DEF QueueEmployee, TypeOK, Active, JobInv, InTasks, Recorded
      <3>2. CASE ~UNCHANGED job
        <4> DEFINE j == <<r, Employee>>
        <4>1. /\ job' \in [Jobs -> JobRecords]
              /\ job'[j] = Queued(req[r].task)
              /\ \A k \in Jobs : k # j => job'[k] = job[k]
          BY <2>1, <2>5, <3>2, QueuedIs, SetJob
        <4> QED
          BY <1>6, <2>1, <4>1, QueuedIs, PaymentAssumption
             DEF QueueEmployee, Active, JobInv, Live, InTasks, Recorded
      <3> QED
        BY <3>1, <3>2
    <2> QED
      BY <1>6, <2>4, <2>6 DEF QueueEmployee, TypeOK, MonInv, Recorded, taskVars
  <1>7. CASE EditWrite(r)
    <2>1. req[r].task \in Tasks /\ req[r].edit \in Edits
      BY <1>7 DEF EditWrite, ReqInv, TypeOK, RequestRecords
    <2>2. req' \in [Requests -> RequestRecords] /\ ReqInv'
      BY <1>7, AnsweredIs, SetReq DEF EditWrite, ReqInv, Recorded
    <2>3. status' \in [Tasks -> TaskStatus]
      BY <1>7, <2>1 DEF EditWrite, TypeOK, Edits
    <2>4. payable' \in [Tasks -> BOOLEAN]
      BY <1>7, <2>1 DEF EditWrite, TypeOK, Edits
    <2>5. payment' \in [Tasks -> PaymentStatus]
      BY <1>7, <2>1 DEF EditWrite, TypeOK, Edits, PaymentStatus
    <2> QED
      BY <1>7, <2>2, <2>3, <2>4, <2>5
         DEF EditWrite, TypeOK, Active, JobInv, InTasks, MonInv, Recorded
  <1>8. CASE ViewWrite(r)
    <2>1. /\ req' \in [Requests -> RequestRecords]
          /\ req'[r].pc = "done"
          /\ \A q \in Requests : q # r => req'[q] = req[q]
      BY <1>8, AnsweredIs, SetReq DEF ViewWrite
    <2>2. req[r].task \in Tasks /\ Recorded(req[r].task)
      BY <1>8 DEF ViewWrite, ReqInv
    <2>3. /\ ledger' \in [Tasks -> Rows \cup {NoRow}]
          /\ \A t \in Tasks : Recorded(t) => Recorded(t)'
      BY <1>8, <2>2, SetRow DEF ViewWrite, RowStatus
    <2>4. JobInv'
      BY <1>8, <2>3 DEF ViewWrite, Active, JobInv, HasRow, InTasks
    <2>5. ReqInv' /\ MonInv'
      BY <1>8, <2>1, <2>3 DEF ViewWrite, TypeOK, ReqInv, MonInv
    <2> QED
      BY <1>8, <2>1, <2>3, <2>4, <2>5 DEF ViewWrite, TypeOK, taskVars
  <1>9. ASSUME NEW m \in Managers, QueueOversight(r, m) PROVE Typed'
    <2> DEFINE x == [req[r] EXCEPT !.left = req[r].left \ {m}]
    <2>1. req[r].task \in Tasks
      BY <1>9 DEF QueueOversight, ReqInv
    <2>2. x \in RequestRecords /\ x.task = req[r].task /\ x.pc = "oversight"
      BY <1>9 DEF QueueOversight, TypeOK, RequestRecords
    <2>3. req' = [req EXCEPT ![r] = x] \/ req' = [req EXCEPT ![r] = Answered]
      BY <1>9 DEF QueueOversight
    <2>4. req' \in [Requests -> RequestRecords] /\ ReqInv'
      BY <1>9, <2>1, <2>2, <2>3, SetReq, AnsweredIs
         DEF QueueOversight, ReqInv, Recorded
    <2>5. UNCHANGED job \/ (/\ <<r, m>> \in Jobs
                            /\ job' = [job EXCEPT ![<<r, m>>] = Queued(NoTask)])
      BY <1>9 DEF QueueOversight, Jobs, Payees
    <2>6. job' \in [Jobs -> JobRecords] /\ JobInv'
      <3>1. CASE UNCHANGED job
        BY <1>9, <3>1
           DEF QueueOversight, TypeOK, Active, JobInv, InTasks, Recorded
      <3>2. CASE ~UNCHANGED job
        <4> DEFINE j == <<r, m>>
        <4>1. /\ job' \in [Jobs -> JobRecords]
              /\ job'[j] = Queued(NoTask)
              /\ \A k \in Jobs : k # j => job'[k] = job[k]
          BY <2>5, <3>2, QueuedIs, SetJob
        <4> QED
          BY <1>9, <4>1, QueuedIs, PaymentAssumption
             DEF QueueOversight, Active, JobInv, Live, InTasks, Recorded
      <3> QED
        BY <3>1, <3>2
    <2> QED
      BY <1>9, <2>4, <2>6 DEF QueueOversight, TypeOK, MonInv, Recorded, taskVars
  <1> QED
    BY <1>1, <1>2, <1>3, <1>4, <1>5, <1>6, <1>7, <1>8, <1>9 DEF Handler

-----------------------------------------------------------------------------
(* The worker.  Two lemmas hold for every action: one for an action that   *)
(* goes on within a run, one for an action that ends the attempt.          *)

RowsKept == \A t \in Tasks : Recorded(t) => Recorded(t)'

LEMMA TypedGoto ==
  ASSUME Typed, NEW j \in Jobs, NEW p \in JobPCs,
         job[j].state = "active", Goto(j, p), RowsKept, UNCHANGED <<req, mon>>,
         p \notin {"processing", "markFailed"} => InTasks(j),
         p \in HasRow => ledger'[job[j].task].status # "NONE"
  PROVE  job' \in [Jobs -> JobRecords] /\ JobInv' /\ ReqInv' /\ MonInv'
  <1>1. /\ job' \in [Jobs -> JobRecords]
        /\ job'[j].pc = p
        /\ job'[j].state = "active"
        /\ job'[j].task = job[j].task
        /\ job'[j].made = job[j].made
        /\ \A k \in Jobs : k # j => job'[k] = job[k]
    BY GotoSets DEF Typed
  <1>2. JobInv'
    BY <1>1 DEF Typed, RowsKept, Active, JobInv, Live, HasRow, InTasks, Recorded
  <1>3. ReqInv' /\ MonInv'
    BY DEF Typed, TypeOK, RowsKept, ReqInv, MonInv
  <1> QED
    BY <1>1, <1>2, <1>3

LEMMA TypedAttemptFailed ==
  ASSUME Typed, NEW j \in Jobs, job[j].state = "active", AttemptFailed(j),
         RowsKept, UNCHANGED <<req, mon>>
  PROVE  job' \in [Jobs -> JobRecords] /\ JobInv' /\ ReqInv' /\ MonInv'
  <1>1. /\ job' \in [Jobs -> JobRecords]
        /\ job'[j].state \in {"delayed", "failed"}
        /\ job'[j].state = "delayed" => job'[j].made < Attempts
        /\ \A k \in Jobs : k # j => job'[k] = job[k]
    BY AttemptFailedSets DEF Typed
  <1>2. JobInv'
    BY <1>1 DEF Typed, RowsKept, Active, JobInv, Live, HasRow, InTasks
  <1>3. ReqInv' /\ MonInv'
    BY DEF Typed, TypeOK, RowsKept, ReqInv, MonInv
  <1> QED
    BY <1>1, <1>2, <1>3

LEMMA TypedProcess ==
  ASSUME Typed, NEW j \in Jobs, Process(j)
  PROVE  Typed'
  <1> USE DEF Typed
  <1>1. CASE Take(j)
    <2> DEFINE x == [job[j] EXCEPT !.state = "active", !.pc = "processing"]
    <2>1. /\ x \in JobRecords /\ x.pc = "processing"
          /\ x.state = "active" /\ x.made = job[j].made
      BY DEF TypeOK, JobRecords, JobStates, JobPCs
    <2>2. job' = [job EXCEPT ![j] = x] /\ job[j].state = "waiting"
      BY <1>1 DEF Take
    <2>3. /\ job' \in [Jobs -> JobRecords]
          /\ job'[j] = x
          /\ \A k \in Jobs : k # j => job'[k] = job[k]
      BY <2>1, <2>2, SetJob
    <2>4. JobInv'
      BY <1>1, <2>1, <2>2, <2>3
         DEF Take, Active, JobInv, Live, HasRow, InTasks, Recorded
    <2> QED
      BY <1>1, <2>3, <2>4 DEF Take, TypeOK, ReqInv, MonInv, Recorded, taskVars
  <1>2. CASE MarkProcessing(j)
    <2>1. PICK p \in {"send", "markFailed"} :
            Goto(j, p) /\ (p = "send" => TaskHere(j))
      BY <1>2 DEF MarkProcessing
    <2>2. RowsKept /\ UNCHANGED <<req, mon>> /\ job[j].state = "active"
      BY <1>2 DEF MarkProcessing, RowsKept, Recorded, At
    <2>3. job' \in [Jobs -> JobRecords] /\ JobInv' /\ ReqInv' /\ MonInv'
      BY <2>1, <2>2, TypedGoto DEF JobPCs, HasRow, TaskHere
    <2>4. payment' \in [Tasks -> PaymentStatus]
      BY <1>2 DEF MarkProcessing, TypeOK, PaymentStatus
    <2> QED
      BY <1>2, <2>3, <2>4 DEF MarkProcessing, TypeOK, taskVars
  <1>3. CASE Send(j)
    <2>1. PICK p \in {"record", "markFailed"} : Goto(j, p)
      BY <1>3 DEF Send
    <2>2. /\ RowsKept /\ UNCHANGED <<req, mon>> /\ job[j].state = "active"
          /\ InTasks(j)
      BY <1>3 DEF Send, RowsKept, Recorded, At, Active, JobInv
    <2>3. job' \in [Jobs -> JobRecords] /\ JobInv' /\ ReqInv' /\ MonInv'
      BY <2>1, <2>2, TypedGoto DEF JobPCs, HasRow
    <2>4. chain' \in [Jobs -> [Runs -> ChainStatus]]
      <3>1. RunOf(j) \in Runs
        BY <2>2, RunInRuns DEF Live
      <3>2. UNCHANGED chain \/ chain' = [chain EXCEPT ![j][RunOf(j)] = "submitted"]
        BY <1>3 DEF Send
      <3> QED
        BY <3>1, <3>2, SetChain DEF TypeOK, ChainStatus
    <2> QED
      BY <1>3, <2>3, <2>4 DEF Send, TypeOK, taskVars
  <1>4. CASE RecordRow(j)
    <2> DEFINE t == job[j].task
               row == [status |-> "PENDING", job |-> j, run |-> RunOf(j),
                       age |-> 0]
    <2>1. job[j].state = "active" /\ t \in Tasks
      BY <1>4 DEF RecordRow, At, Active, JobInv, InTasks
    <2>2. RunOf(j) \in Runs
      BY <2>1, RunInRuns DEF Live
    <2>3. row \in Rows /\ row.status # "NONE"
      BY <2>2 DEF Rows, RowStatus
    <2>4. PICK p \in {"confirm", "markFailed"} :
            /\ Goto(j, p)
            /\ p = "confirm" => ledger' = [ledger EXCEPT ![t] = row]
            /\ p # "confirm" => UNCHANGED ledger
      BY <1>4 DEF RecordRow
    <2>5. /\ ledger' \in [Tasks -> Rows \cup {NoRow}]
          /\ RowsKept
          /\ p = "confirm" => ledger'[t].status # "NONE"
      <3>1. CASE p = "confirm"
        <4>1. ledger' = [ledger EXCEPT ![t] = row]
          BY <2>4, <3>1
        <4>2. ledger'[t] = row /\ \A u \in Tasks : u # t => ledger'[u] = ledger[u]
          BY <2>1, <4>1 DEF TypeOK
        <4>3. ledger' \in [Tasks -> Rows \cup {NoRow}]
          BY <2>1, <2>3, <4>1 DEF TypeOK
        <4>4. RowsKept
          BY <2>1, <2>3, <4>2 DEF RowsKept, Recorded
        <4> QED
          BY <2>3, <4>2, <4>3, <4>4
      <3>2. CASE p # "confirm"
        BY <2>4, <3>2 DEF TypeOK, RowsKept, Recorded
      <3> QED
        BY <3>1, <3>2
    <2>6. UNCHANGED <<req, mon>>
      BY <1>4 DEF RecordRow
    <2>7. job' \in [Jobs -> JobRecords] /\ JobInv' /\ ReqInv' /\ MonInv'
      BY <2>1, <2>4, <2>5, <2>6, TypedGoto DEF JobPCs, HasRow, InTasks
    <2> QED
      BY <1>4, <2>5, <2>7 DEF RecordRow, TypeOK, taskVars
  <1>5. CASE AwaitConfirmation(j)
    <2>1. PICK p \in {"markRow", "markFailed"} : Goto(j, p)
      BY <1>5 DEF AwaitConfirmation
    <2>2. /\ RowsKept /\ UNCHANGED <<req, mon, ledger>> /\ job[j].state = "active"
          /\ InTasks(j) /\ Recorded(job[j].task)
      BY <1>5
         DEF AwaitConfirmation, RowsKept, Recorded, At, Active, JobInv, HasRow
    <2>3. job' \in [Jobs -> JobRecords] /\ JobInv' /\ ReqInv' /\ MonInv'
      BY <2>1, <2>2, TypedGoto DEF JobPCs, Recorded
    <2> QED
      BY <1>5, <2>3 DEF AwaitConfirmation, TypeOK, taskVars
  <1>6. CASE MarkRow(j)
    <2> DEFINE t == job[j].task
    <2>1. /\ UNCHANGED <<req, mon>> /\ job[j].state = "active"
          /\ t \in Tasks /\ Recorded(t)
      BY <1>6 DEF MarkRow, At, Active, JobInv, HasRow, InTasks
    <2>2. PICK p \in {"markPaid", "markFailed"} : Goto(j, p)
      BY <1>6 DEF MarkRow
    <2>3. ledger' \in [Tasks -> Rows \cup {NoRow}] /\ RowsKept
      <3>1. UNCHANGED ledger \/ ledger' = [ledger EXCEPT ![t].status = "CONFIRMED"]
        BY <1>6 DEF MarkRow
      <3> QED
        BY <2>1, <3>1, SetRow DEF TypeOK, RowStatus, RowsKept, Recorded
    <2>4. ledger'[t].status # "NONE"
      <3>1. UNCHANGED ledger \/ ledger' = [ledger EXCEPT ![t].status = "CONFIRMED"]
        BY <1>6 DEF MarkRow
      <3> QED
        BY <2>1, <3>1, SetRow DEF RowStatus, Recorded
    <2>5. job' \in [Jobs -> JobRecords] /\ JobInv' /\ ReqInv' /\ MonInv'
      BY <2>1, <2>2, <2>3, <2>4, TypedGoto DEF JobPCs, InTasks
    <2> QED
      BY <1>6, <2>3, <2>5 DEF MarkRow, TypeOK, taskVars
  <1>7. CASE MarkPaid(j)
    <2>1. PICK p \in {"release", "markFailed"} : Goto(j, p)
      BY <1>7 DEF MarkPaid
    <2>2. /\ RowsKept /\ UNCHANGED <<req, mon, ledger>> /\ job[j].state = "active"
          /\ InTasks(j) /\ Recorded(job[j].task)
      BY <1>7 DEF MarkPaid, RowsKept, Recorded, At, Active, JobInv, HasRow
    <2>3. job' \in [Jobs -> JobRecords] /\ JobInv' /\ ReqInv' /\ MonInv'
      BY <2>1, <2>2, TypedGoto DEF JobPCs, Recorded
    <2>4. payment' \in [Tasks -> PaymentStatus]
      BY <1>7 DEF MarkPaid, TypeOK, PaymentStatus
    <2> QED
      BY <1>7, <2>3, <2>4 DEF MarkPaid, TypeOK, taskVars
  <1>8. CASE Release(j)
    <2>1. PICK p \in {"ack", "markFailed"} : Goto(j, p)
      BY <1>8 DEF Release
    <2>2. /\ RowsKept /\ UNCHANGED <<req, mon, ledger>> /\ job[j].state = "active"
          /\ InTasks(j) /\ Recorded(job[j].task)
      BY <1>8 DEF Release, RowsKept, Recorded, At, Active, JobInv, HasRow
    <2>3. job' \in [Jobs -> JobRecords] /\ JobInv' /\ ReqInv' /\ MonInv'
      BY <2>1, <2>2, TypedGoto DEF JobPCs, Recorded
    <2>4. released' \in [Tasks -> Nat]
      BY <1>8, <2>2 DEF Release, TypeOK, InTasks
    <2> QED
      BY <1>8, <2>3, <2>4 DEF Release, TypeOK, taskVars
  <1>9. CASE Acknowledge(j)
    <2> DEFINE x == [job[j] EXCEPT !.state = "completed", !.pc = "idle"]
    <2>1. x \in JobRecords /\ x.state = "completed"
      BY DEF TypeOK, JobRecords, JobStates, JobPCs
    <2>2. job' = [job EXCEPT ![j] = x]
      BY <1>9 DEF Acknowledge
    <2>3. /\ job' \in [Jobs -> JobRecords]
          /\ job'[j] = x
          /\ \A k \in Jobs : k # j => job'[k] = job[k]
      BY <2>1, <2>2, SetJob
    <2>4. JobInv'
      BY <1>9, <2>1, <2>3
         DEF Acknowledge, Active, JobInv, Live, HasRow, InTasks, Recorded
    <2> QED
      BY <1>9, <2>3, <2>4
         DEF Acknowledge, TypeOK, ReqInv, MonInv, Recorded, taskVars
  <1>10. CASE MarkFailed(j)
    <2>1. RowsKept /\ UNCHANGED <<req, mon>> /\ job[j].state = "active"
      BY <1>10 DEF MarkFailed, RowsKept, Recorded, At
    <2>2. (Goto(j, "failRow") /\ InTasks(j)) \/ AttemptFailed(j)
      BY <1>10 DEF MarkFailed, TaskHere
    <2>3. job' \in [Jobs -> JobRecords] /\ JobInv' /\ ReqInv' /\ MonInv'
      <3>1. CASE Goto(j, "failRow") /\ InTasks(j)
        BY <2>1, <3>1, TypedGoto DEF JobPCs, HasRow
      <3>2. CASE AttemptFailed(j)
        BY <2>1, <3>2, TypedAttemptFailed
      <3> QED
        BY <2>2, <3>1, <3>2
    <2>4. payment' \in [Tasks -> PaymentStatus]
      BY <1>10 DEF MarkFailed, TypeOK, PaymentStatus
    <2> QED
      BY <1>10, <2>3, <2>4 DEF MarkFailed, TypeOK, taskVars
  <1>11. CASE FailRow(j)
    <2> DEFINE t == job[j].task
    <2>1. /\ UNCHANGED <<req, mon>> /\ job[j].state = "active"
          /\ t \in Tasks /\ AttemptFailed(j)
      BY <1>11 DEF FailRow, At, Active, JobInv, InTasks
    <2>2. \/ UNCHANGED ledger
          \/ Recorded(t) /\ ledger' = [ledger EXCEPT ![t].status = "FAILED"]
      BY <1>11 DEF FailRow
    <2>3. ledger' \in [Tasks -> Rows \cup {NoRow}] /\ RowsKept
      BY <2>1, <2>2, SetRow DEF TypeOK, RowStatus, RowsKept, Recorded
    <2>4. job' \in [Jobs -> JobRecords] /\ JobInv' /\ ReqInv' /\ MonInv'
      BY <2>1, <2>3, TypedAttemptFailed
    <2> QED
      BY <1>11, <2>3, <2>4 DEF FailRow, TypeOK, taskVars
  <1> QED
    BY <1>1, <1>2, <1>3, <1>4, <1>5, <1>6, <1>7, <1>8, <1>9, <1>10, <1>11
       DEF Process

-----------------------------------------------------------------------------
(* The timers of BullMQ, the chain, the monitor and a crash.               *)

LEMMA TypedQueue ==
  ASSUME Typed, NEW j \in Jobs, Retry(j) \/ StallCheck(j)
  PROVE  Typed'
  <1> USE DEF Typed
  <1>1. PICK x \in JobRecords :
          /\ job' = [job EXCEPT ![j] = x]
          /\ x.state \in {"waiting", "exhausted"}
          /\ x.state = "waiting" => x.made = job[j].made
    <2>1. job[j] \in JobRecords
      BY DEF TypeOK
    <2>2. CASE Retry(j)
      <3> DEFINE x == [job[j] EXCEPT !.state = "waiting"]
      <3>1. x \in JobRecords /\ x.state = "waiting" /\ x.made = job[j].made
        BY <2>1 DEF JobRecords, JobStates
      <3>2. job' = [job EXCEPT ![j] = x]
        BY <2>2 DEF Retry
      <3> QED
        BY <3>1, <3>2
    <2>3. CASE StallCheck(j) /\ job[j].stalls < MaxStalls
      <3> DEFINE x == [job[j] EXCEPT !.state = "waiting", !.stalls = job[j].stalls + 1]
      <3>1. job[j].stalls + 1 \in 0 .. MaxStalls
        BY <2>1, <2>3, PaymentAssumption DEF JobRecords
      <3>2. x \in JobRecords /\ x.state = "waiting" /\ x.made = job[j].made
        BY <2>1, <3>1 DEF JobRecords, JobStates
      <3>3. job' = [job EXCEPT ![j] = x]
        BY <2>3 DEF StallCheck
      <3> QED
        BY <3>2, <3>3
    <2>4. CASE StallCheck(j) /\ ~(job[j].stalls < MaxStalls)
      <3> DEFINE x == [job[j] EXCEPT !.state = "exhausted"]
      <3>1. x \in JobRecords /\ x.state = "exhausted"
        BY <2>1 DEF JobRecords, JobStates
      <3>2. job' = [job EXCEPT ![j] = x]
        BY <2>4 DEF StallCheck
      <3> QED
        BY <3>1, <3>2
    <2> QED
      BY <2>2, <2>3, <2>4
  <1>2. /\ job' \in [Jobs -> JobRecords]
        /\ job'[j] = x
        /\ \A k \in Jobs : k # j => job'[k] = job[k]
    BY <1>1, SetJob
  <1>3. job[j].state \in Live
    BY DEF Retry, StallCheck, Live
  <1>4. UNCHANGED <<taskVars, payment, ledger, released, req, chain, mon, crashes>>
    BY DEF Retry, StallCheck
  <1>5. JobInv'
    BY <1>1, <1>2, <1>3, <1>4
       DEF Active, JobInv, Live, HasRow, InTasks, Recorded
  <1> QED
    BY <1>2, <1>4, <1>5 DEF TypeOK, ReqInv, MonInv, Recorded, taskVars

LEMMA TypedChain ==
  ASSUME Typed, NEW j \in Jobs, NEW n \in Runs,
         ChainConfirm(j, n) \/ ChainDrop(j, n)
  PROVE  Typed'
  <1> USE DEF Typed
  <1>1. PICK v \in ChainStatus : chain' = [chain EXCEPT ![j][n] = v]
    BY DEF ChainConfirm, ChainDrop, ChainStatus
  <1>2. chain' \in [Jobs -> [Runs -> ChainStatus]]
    BY <1>1, SetChain
  <1>3. UNCHANGED <<taskVars, payment, ledger, released, req, job, mon, crashes>>
    BY DEF ChainConfirm, ChainDrop
  <1> QED
    BY <1>2, <1>3
       DEF TypeOK, Active, JobInv, ReqInv, MonInv, InTasks, Recorded, taskVars

(* The monitor's pass only ever holds rows, and rows do not vanish.        *)
LEMMA TypedMonitor ==
  ASSUME Typed, Monitor
  PROVE  Typed'
  <1> USE DEF Typed
  <1> DEFINE MonRecords == [pc : MonitorPCs, left : SUBSET Tasks,
                            task : Tasks \cup {NoTask}]
  <1>1. ASSUME NEW rest \in SUBSET Tasks, \A t \in rest : Recorded(t),
               mon' = AfterRow(rest), UNCHANGED ledger
        PROVE  mon' \in MonRecords /\ MonInv'
    BY <1>1 DEF AfterRow, IdleMonitor, MonitorPCs, MonInv, Recorded
  <1>2. CASE MonitorTick
    <2> DEFINE due == {t \in Tasks : ledger[t].status = "PENDING" /\ ledger[t].age < DayPasses}
    <2>1. mon' = [pc |-> "scan", left |-> due, task |-> NoTask]
      BY <1>2 DEF MonitorTick
    <2>2. mon' \in MonRecords
      BY <2>1 DEF MonitorPCs
    <2>3. MonInv'
      BY <1>2, <2>1 DEF MonitorTick, MonInv, Recorded
    <2> QED
      BY <1>2, <2>2, <2>3
         DEF MonitorTick, TypeOK, Active, JobInv, ReqInv, InTasks, Recorded,
             taskVars
  <1>3. ASSUME NEW t \in Tasks, MonitorAnswer(t) PROVE Typed'
    <2>1. PICK p \in {"confirm", "fail"} :
            mon' = [pc |-> p, left |-> mon.left \ {t}, task |-> t]
      BY <1>3 DEF MonitorAnswer
    <2>2. mon.pc = "scan" /\ t \in mon.left /\ mon \in MonRecords
      BY <1>3 DEF MonitorAnswer, TypeOK
    <2>3. mon' \in MonRecords
      BY <2>1, <2>2 DEF MonitorPCs
    <2>4. UNCHANGED ledger
      BY <1>3 DEF MonitorAnswer
    <2>5. MonInv'
      BY <2>1, <2>2, <2>4 DEF MonInv, Recorded
    <2> QED
      BY <1>3, <2>3, <2>5
         DEF MonitorAnswer, TypeOK, Active, JobInv, ReqInv, InTasks, Recorded,
             taskVars
  <1>4. ASSUME NEW t \in Tasks, Recorded(t), PassOver(t),
               NEW rest \in SUBSET Tasks, \A u \in rest : Recorded(u),
               mon' = AfterRow(rest),
               UNCHANGED <<taskVars, payment, released, req, job, chain, crashes>>
        PROVE  Typed'
    <2>1. ledger' \in [Tasks -> Rows \cup {NoRow}] /\ RowsKept
      BY <1>4, SetAge DEF RowsKept
    <2>2. mon' \in MonRecords /\ MonInv'
      BY <1>4, <2>1 DEF AfterRow, IdleMonitor, MonitorPCs, MonInv, RowsKept
    <2>3. JobInv' /\ ReqInv'
      BY <1>4, <2>1 DEF TypeOK, Active, JobInv, HasRow, ReqInv, InTasks, RowsKept
    <2> QED
      BY <1>4, <2>1, <2>2, <2>3 DEF TypeOK, taskVars
  <1>5. ASSUME NEW t \in Tasks, MonitorSkip(t) PROVE Typed'
    <2>1. /\ mon.left \ {t} \in SUBSET Tasks /\ Recorded(t)
          /\ \A u \in mon.left \ {t} : Recorded(u)
          /\ mon' = AfterRow(mon.left \ {t})
      BY <1>5 DEF MonitorSkip, TypeOK, MonInv
    <2> QED
      BY <1>4, <1>5, <2>1 DEF MonitorSkip
  <1>6. CASE MonitorMarkRow /\ PassOver(mon.task) /\ mon' = AfterRow(mon.left)
    <2>1. /\ mon.task \in Tasks /\ Recorded(mon.task)
          /\ mon.left \in SUBSET Tasks /\ \A u \in mon.left : Recorded(u)
      BY <1>6 DEF MonitorMarkRow, TypeOK, MonInv
    <2> QED
      BY <1>4, <1>6, <2>1 DEF MonitorMarkRow
  <1>7. CASE /\ MonitorMarkRow
             /\ ledger' = [ledger EXCEPT ![mon.task].status =
                              IF mon.pc = "confirm" THEN "CONFIRMED" ELSE "FAILED"]
             /\ mon' = [mon EXCEPT !.pc = IF @ = "confirm" THEN "paid" ELSE "failTask"]
    <2> DEFINE v == IF mon.pc = "confirm" THEN "CONFIRMED" ELSE "FAILED"
               p == IF mon.pc = "confirm" THEN "paid" ELSE "failTask"
    <2>1. mon.task \in Tasks /\ Recorded(mon.task) /\ v \in RowStatus
      BY <1>7 DEF MonitorMarkRow, MonInv, RowStatus
    <2>2. ledger' = [ledger EXCEPT ![mon.task].status = v]
      BY <1>7 DEF MonitorMarkRow
    <2>3. ledger' \in [Tasks -> Rows \cup {NoRow}] /\ RowsKept
      BY <2>1, <2>2, SetRow DEF RowsKept
    <2>4. mon' \in MonRecords /\ mon'.task = mon.task /\ mon'.left = mon.left
          /\ mon'.pc # "idle"
      BY <1>7 DEF MonitorMarkRow, TypeOK, MonitorPCs
    <2>5. JobInv'
      BY <1>7, <2>3
         DEF MonitorMarkRow, Active, JobInv, HasRow, InTasks, RowsKept
    <2>6. ReqInv'
      BY <1>7, <2>3 DEF MonitorMarkRow, ReqInv, RowsKept
    <2>7. mon.pc # "idle" /\ mon.left \in SUBSET Tasks
      BY <1>7 DEF MonitorMarkRow, TypeOK
    <2>8. MonInv'
      BY <2>1, <2>3, <2>4, <2>7 DEF MonInv, RowsKept
    <2> QED
      BY <1>7, <2>3, <2>4, <2>5, <2>6, <2>8 DEF MonitorMarkRow, TypeOK, taskVars
  <1>8. CASE MonitorMarkTask
    <2>1. /\ mon.left \in SUBSET Tasks
          /\ \A u \in mon.left : Recorded(u)
          /\ mon' = AfterRow(mon.left)
          /\ UNCHANGED ledger
      BY <1>8 DEF MonitorMarkTask, TypeOK, MonInv
    <2>2. mon' \in MonRecords /\ MonInv'
      BY <1>1, <2>1
    <2>3. payment' \in [Tasks -> PaymentStatus]
      BY <1>8 DEF MonitorMarkTask, TypeOK, PaymentStatus
    <2> QED
      BY <1>8, <2>2, <2>3
         DEF MonitorMarkTask, TypeOK, Active, JobInv, ReqInv, InTasks,
             Recorded, taskVars
  <1> QED
    BY <1>2, <1>3, <1>5, <1>6, <1>7, <1>8 DEF Monitor, MonitorMarkRow

LEMMA TypedCrash ==
  ASSUME Typed, Crash
  PROVE  Typed'
  <1> USE DEF Typed
  <1>1. \A j \in Jobs : /\ job'[j] \in JobRecords
                        /\ job'[j].state # "active"
                        /\ job'[j].state \in Live => /\ job[j].state \in Live
                                                     /\ job'[j].made = job[j].made
                        /\ job'[j].state = "none" => job'[j] = job[j]
    <2> SUFFICES ASSUME NEW j \in Jobs
                 PROVE  /\ job'[j] \in JobRecords
                        /\ job'[j].state # "active"
                        /\ job'[j].state \in Live => /\ job[j].state \in Live
                                                     /\ job'[j].made = job[j].made
                        /\ job'[j].state = "none" => job'[j] = job[j]
      OBVIOUS
    <2>1. job[j] \in JobRecords
      BY DEF TypeOK
    <2>2. CASE job[j].state = "active"
      <3> DEFINE x == [job[j] EXCEPT !.state = "stalled", !.pc = "idle"]
      <3>1. x \in JobRecords /\ x.state = "stalled" /\ x.made = job[j].made
        BY <2>1 DEF JobRecords, JobStates, JobPCs
      <3>2. job'[j] = x
        BY <2>2 DEF Crash
      <3> QED
        BY <2>2, <3>1, <3>2 DEF Live
    <2>3. CASE job[j].state # "active"
      BY <2>1, <2>3 DEF Crash
    <2> QED
      BY <2>2, <2>3
  <1>2. job' \in [Jobs -> JobRecords]
    BY <1>1 DEF Crash
  <1>3. JobInv'
    BY <1>1 DEF Active, JobInv, InTasks
  <1>4. req' \in [Requests -> RequestRecords]
    BY AnsweredIs DEF Crash, TypeOK
  <1>5. \A r \in Requests : req'[r].pc \in {"idle", "done"}
    BY AnsweredIs DEF Crash
  <1>6. ReqInv'
    BY <1>5 DEF ReqInv
  <1>7. /\ mon' \in [pc : MonitorPCs, left : SUBSET Tasks, task : Tasks \cup {NoTask}]
        /\ MonInv'
    BY DEF Crash, IdleMonitor, MonitorPCs, MonInv
  <1>8. crashes' \in 0 .. MaxCrashes
    <2>1. crashes < MaxCrashes /\ crashes' = crashes + 1
      BY DEF Crash
    <2>2. crashes \in 0 .. MaxCrashes
      BY DEF TypeOK
    <2> QED
      BY <2>1, <2>2, PaymentAssumption
  <1> QED
    BY <1>2, <1>3, <1>4, <1>6, <1>7, <1>8 DEF Crash, TypeOK, taskVars

LEMMA TypedNext == Typed /\ [Next]_vars => Typed'
  <1> SUFFICES ASSUME Typed, [Next]_vars PROVE Typed'
    OBVIOUS
  <1>1. CASE UNCHANGED vars
    BY <1>1
       DEF Typed, TypeOK, Active, JobInv, ReqInv, MonInv, InTasks, Recorded,
           vars, taskVars
  <1>2. CASE Next
    BY <1>2, TypedHandler, TypedProcess, TypedQueue, TypedChain, TypedMonitor,
       TypedCrash DEF Next
  <1> QED
    BY <1>1, <1>2

(* Every variable keeps its type for ever: no handler, worker step, retry, *)
(* stall, monitor pass or crash breaks it, and no job runs more often than *)
(* its attempts and stalls allow.                                          *)
THEOREM TypeCorrect == Spec => []TypeOK
  <1>1. Typed => TypeOK
    BY DEF Typed
  <1> QED
    BY <1>1, TypedInit, TypedNext, PTL DEF Spec
=============================================================================
