------------------------- MODULE TaskPaymentTheorems -------------------------
(***************************************************************************)
(* What follows from SafetyInv and the lemmas about steps: jobs wear out   *)
(* and hold the tasks they process, a task is paid twice for a cause only, *)
(* and the pipeline implements the abstract books of PaymentLedger.        *)
(***************************************************************************)
EXTENDS TaskPaymentCauses, TaskPaymentSafetyProofs

-----------------------------------------------------------------------------
(* The end of jobs, and of PROCESSING.  No step brings a task back.        *)

LEMMA AliveSteps ==
  ASSUME SafetyInv, [Next]_vars, NEW t \in Tasks, alive'[t]
  PROVE  alive[t]
  <1>1. CASE UNCHANGED alive
    BY <1>1
  <1>2. ASSUME NEW r \in Requests, NEW u \in Tasks, DeleteTask(r, u) PROVE alive[t]
    BY <1>2 DEF DeleteTask, SafetyInv, Typed, TypeOK
  <1> QED
    BY <1>1, <1>2
       DEF Next, vars, taskVars, Handler, ApproveCheck, ViewCheck, EditCheck,
           ApproveWrite, QueueEmployee, QueueOversight, EditWrite, ViewWrite,
           Process, Take, MarkProcessing, Send, RecordRow, AwaitConfirmation,
           MarkRow, MarkPaid, Release, Acknowledge, MarkFailed, FailRow, Retry,
           StallCheck, ChainConfirm, ChainDrop, Monitor, MonitorTick,
           MonitorAnswer, MonitorSkip, MonitorMarkRow, MonitorMarkTask, Crash

LEMMA FuelBurns ==
  ASSUME SafetyInv, [Next]_vars, NEW j \in Jobs, job[j].state # "none", job'[j] # job[j]
  PROVE  /\ job[j].state \notin Settled
         /\ Fuel(j)' \in Nat /\ Fuel(j)' < Fuel(j)
  <1>1. Typed'
    BY TypedNext DEF SafetyInv
  <1>2. /\ job[j] \in JobRecords /\ job'[j] \in JobRecords
        /\ Attempts \in Nat /\ MaxStalls \in Nat
    BY <1>1, PaymentAssumption DEF SafetyInv, Typed, TypeOK
  <1>3. Left(j) \in Nat /\ Left(j)' \in Nat
    BY <1>2 DEF Left, JobRecords
  <1>4. Way(j) \in 0 .. 13 /\ Way(j)' \in 0 .. 13
    BY DEF Way, Stage
  <1>5. JobWaits(j) \/ JobRerun(j) \/ JobMoves(j)
    BY JobSteps DEF JobStep, JobQueued
  <1>6. job[j].state \notin Settled
    BY <1>5 DEF JobWaits, JobRerun, JobMoves, Active, At, Settled
  <1>7. CASE JobRerun(j)
    <2>1. Left(j)' = Left(j) - 1
      BY <1>2, <1>7 DEF JobRerun, Left, JobRecords
    <2>2. Fuel(j)' \in Nat /\ Fuel(j)' < Fuel(j)
      BY <1>3, <1>4, <2>1 DEF Fuel
    <2> QED
      BY <1>6, <2>2
  <1>8. CASE JobWaits(j) \/ JobMoves(j)
    <2>1. Left(j)' = Left(j)
      BY <1>8 DEF JobWaits, JobMoves, SameRun, Left
    <2>2. CASE JobWaits(j)
      <3>1. Way(j)' < Way(j)
        BY <2>2 DEF JobWaits, Way, Stage, At, Active
      <3> QED
        BY <1>3, <1>4, <1>6, <2>1, <3>1 DEF Fuel
    <2>3. CASE JobMoves(j)
      <3>1. Way(j) = Stage(job[j].pc) /\ Way(j)' = Stage(job'[j].pc)
        BY <2>3 DEF JobMoves, Active, Way
      <3>2. Stage(job'[j].pc) < Stage(job[j].pc)
        BY <2>3 DEF JobMoves, MayFail, Stage
      <3> QED
        BY <1>3, <1>4, <1>6, <2>1, <3>1, <3>2 DEF Fuel
    <2> QED
      BY <1>8, <2>2, <2>3
  <1> QED
    BY <1>5, <1>7, <1>8

(* A queued job changes finitely often, and not at all once it has ended.  *)
THEOREM JobsAreFinite == Spec => JobsWearOut
  <1>1. SafetyInv /\ [Next]_vars =>
          [\A j \in Jobs : job[j].state # "none" /\ job'[j] # job[j] =>
             /\ job[j].state \notin Settled
             /\ Fuel(j)' \in Nat /\ Fuel(j)' < Fuel(j)]_vars
    BY FuelBurns
  <1> QED
    BY <1>1, SafetyInvariant, PTL DEF Spec, JobsWearOut

-----------------------------------------------------------------------------
LEMMA HoldersKeep ==
  ASSUME SafetyInv, [Next]_vars, "db" \notin Faults, NEW t \in Tasks, NEW j \in Jobs,
         Holds(j, t), alive[t], payment'[t] = "PROCESSING"
  PROVE  Holds(j, t)'
  <1>1. JobStep(j)
    BY JobSteps
  <1>2. ~JobQueued(j)
    BY DEF Holds, JobQueued, Active
  <1>3. TaskHere(j) /\ ~DbError
    BY DEF Holds, TaskHere, InTasks, DbError
  <1>4. ASSUME Active(j), job'[j].state = "active" PROVE job'[j].pc \notin {"release", "ack", "failRow"}
    BY <1>1, <1>4 DEF Holds, JobStep, JobQueued, JobWaits, JobRerun, JobMoves, Active, MayFail
  <1>5. CASE job'[j] = job[j]
    BY <1>5 DEF Holds, Active
  <1>6. CASE JobWaits(j)
    BY <1>6 DEF JobWaits, SameRun, Holds, Active, At
  <1>7. CASE JobRerun(j)
    BY <1>3, <1>7 DEF JobRerun, Holds, Active
  <1>8. CASE JobMoves(j)
    BY <1>4, <1>8 DEF JobMoves, SameRun, Holds, Active
  <1> QED
    BY <1>1, <1>2, <1>5, <1>6, <1>7, <1>8 DEF JobStep

(* Without database errors no task is left PROCESSING by the pipeline.     *)
THEOREM ProcessingIsHeld == Spec => []ProcessingHasJob
  <1>1. Init => ProcessingHasJob
    BY DEF Init, ProcessingHasJob
  <1>2. ASSUME SafetyInv, ProcessingHasJob, [Next]_vars
        PROVE  ProcessingHasJob'
    <2> SUFFICES ASSUME "db" \notin Faults, NEW t \in Tasks, alive'[t],
                        payment'[t] = "PROCESSING"
                 PROVE  \E j \in Jobs : Holds(j, t)'
      BY DEF ProcessingHasJob
    <2>1. alive[t]
      BY <1>2, AliveSteps
    <2>2. CASE payment[t] = "PROCESSING"
      BY <1>2, <2>1, <2>2, HoldersKeep DEF ProcessingHasJob
    <2>3. CASE payment[t] # "PROCESSING"
      <3>1. PICK j \in Jobs : /\ job[j].task = t /\ Active(j)
                             /\ job'[j] = [job[j] EXCEPT !.pc = "send"]
        BY <1>2, <2>3, PaymentSteps DEF PaymentStep
      <3>2. job[j] \in JobRecords
        BY <1>2 DEF SafetyInv, Typed, TypeOK
      <3>3. job'[j].task = t /\ job'[j].state = "active" /\ job'[j].pc = "send"
        BY <3>1, <3>2 DEF JobRecords, Active
      <3> QED
        BY <3>3 DEF Holds, Active
    <2> QED
      BY <2>2, <2>3
  <1> QED
    BY <1>1, <1>2, SafetyInvariant, PTL DEF Spec

-----------------------------------------------------------------------------
(* Approvals are acted on: what a step may do to a request that has yet to *)
(* queue the payment, to what the task owes, and to a job that has it in   *)
(* hand.                                                                   *)

QueueStep(r, t) ==
  \/ Awaits(r, t, "queue")'
  \/ \E j \in Jobs : InHand(j, t)'
  \/ Answers(r, t, "queue") /\ ("redis" \in Faults \/ crashes' # crashes)

LEMMA QueueSteps ==
  ASSUME SafetyInv, [Next]_vars, NEW r \in Requests, NEW t \in Tasks, Awaits(r, t, "queue")
  PROVE  QueueStep(r, t)
  <1> USE DEF SafetyInv, Typed
  <1>1. CASE req'[r] = req[r]
    BY <1>1 DEF QueueStep, Awaits
  <1>2. CASE QueueEmployee(r)
    <2> DEFINE k == <<r, Employee>>
    <2>1. k \in Jobs
      BY DEF Jobs, Payees
    <2>2. CASE job' = [job EXCEPT ![k] = Queued(req[r].task)]
      <3>1. job'[k].task = t /\ job'[k].state = "waiting"
        BY <2>1, <2>2, QueuedIs, SetJob DEF Awaits
      <3> QED
        BY <2>1, <3>1 DEF QueueStep, InHand
    <2>3. CASE "redis" \in Faults /\ req' = [req EXCEPT ![r] = Answered]
      <3>1. req'[r].pc = "done"
        BY <2>3, AnsweredIs DEF TypeOK
      <3> QED
        BY <2>3, <3>1 DEF QueueStep, Answers
    <2> QED
      BY <1>2, <2>2, <2>3 DEF QueueEmployee
  <1>3. CASE Crash
    <2>1. crashes' = crashes + 1
      BY <1>3 DEF Crash
    <2>2. crashes \in 0 .. MaxCrashes
      BY DEF TypeOK
    <2>3. crashes' # crashes
      BY <2>1, <2>2, PaymentAssumption
    <2>4. req'[r] = IF req[r].pc = "idle" THEN req[r] ELSE Answered
      BY <1>3 DEF Crash
    <2>5. req'[r].pc = "done"
      BY <2>4, AnsweredIs DEF Awaits
    <2> QED
      BY <2>3, <2>5 DEF QueueStep, Answers
  <1>4. ASSUME NEW q \in Requests, Handler(q) PROVE QueueStep(r, t)
    <2>1. CASE q = r
      BY <1>2, <1>4, <2>1
         DEF Awaits, Handler, ApproveCheck, DeleteTask, ViewCheck, EditCheck,
             ApproveWrite, QueueOversight, EditWrite, ViewWrite
    <2>2. CASE q # r
      <3>1. req'[r] = req[r]
        BY <1>4, <2>2
           DEF TypeOK, Handler, ApproveCheck, DeleteTask, ViewCheck, EditCheck,
               ApproveWrite, QueueEmployee, QueueOversight, EditWrite, ViewWrite
      <3> QED
        BY <1>1, <3>1
    <2> QED
      BY <2>1, <2>2
  <1>5. CASE UNCHANGED req
    BY <1>1, <1>5
  <1> QED
    BY <1>3, <1>4, <1>5
       DEF Next, vars, Process, Take, MarkProcessing, Send, RecordRow,
           AwaitConfirmation, MarkRow, MarkPaid, Release, Acknowledge, MarkFailed,
           FailRow, Retry, StallCheck, ChainConfirm, ChainDrop, Monitor,
           MonitorTick, MonitorAnswer, MonitorSkip, MonitorMarkRow, MonitorMarkTask

Owed(t) == payable[t] /\ status[t] = "APPROVED" /\ payment[t] = "ALLOCATED"

OwedStep(t) ==
  \/ Owed(t)
  \/ \E r \in Requests : \/ Answers(r, t, "edit") \/ Answers(r, t, "plain")
                         \/ Awaits(r, t, "queue")'

LEMMA OwedSteps ==
  ASSUME SafetyInv, [Next]_vars, NEW t \in Tasks, alive[t], Owed(t)'
  PROVE  OwedStep(t)
  <1> USE DEF SafetyInv, Typed
  <1>1. ASSUME NEW r \in Requests, EditWrite(r) PROVE OwedStep(t)
    <2>1. CASE req[r].task = t
      <3>1. Answers(r, t, "edit")
        BY <1>1, <2>1, AnsweredIs DEF EditWrite, Answers, Awaits, TypeOK
      <3> QED
        BY <3>1 DEF OwedStep
    <2>2. CASE req[r].task # t
      BY <1>1, <2>2 DEF EditWrite, Owed, OwedStep, TypeOK, ReqInv
    <2> QED
      BY <2>1, <2>2
  <1>2. ASSUME NEW r \in Requests, ApproveWrite(r) PROVE OwedStep(t)
    <2>1. req[r].pc \in {"plain", "approve"} /\ req[r] \in RequestRecords
      BY <1>2 DEF ApproveWrite, TypeOK
    <2>2. CASE req[r].task = t /\ req[r].pc = "plain"
      <3>1. req' = [req EXCEPT ![r] = Answered]
        BY <1>2, <2>2 DEF ApproveWrite
      <3>2. Answers(r, t, "plain")
        BY <2>2, <3>1, AnsweredIs DEF Answers, Awaits, TypeOK
      <3> QED
        BY <3>2 DEF OwedStep
    <2>3. CASE req[r].task = t /\ req[r].pc = "approve"
      <3>1. req' = [req EXCEPT ![r] = [req[r] EXCEPT !.pc = "queue"]]
        BY <1>2, <2>3 DEF ApproveWrite
      <3>2. Awaits(r, t, "queue")'
        BY <2>1, <2>3, <3>1 DEF Awaits, TypeOK, RequestRecords
      <3> QED
        BY <3>2 DEF OwedStep
    <2>4. CASE req[r].task # t
      BY <1>2, <2>4 DEF ApproveWrite, Owed, OwedStep, TypeOK
    <2> QED
      BY <2>1, <2>2, <2>3, <2>4
  <1>3. ASSUME UNCHANGED <<payable, status>>,
               payment'[t] = payment[t] \/ payment'[t] # "ALLOCATED"
        PROVE  OwedStep(t)
    BY <1>3 DEF Owed, OwedStep
  <1>4. ASSUME NEW u \in Tasks, NEW v \in {"PROCESSING", "PAID", "FAILED"},
               UNCHANGED <<payable, status>>, payment' = [payment EXCEPT ![u] = v]
        PROVE  OwedStep(t)
    BY <1>3, <1>4 DEF TypeOK
  <1>5. CASE UNCHANGED <<payable, status, payment>>
    BY <1>3, <1>5
  <1>6. ASSUME NEW j \in Jobs, MarkProcessing(j) \/ MarkPaid(j) \/ MarkFailed(j)
        PROVE  OwedStep(t)
    <2>1. \/ UNCHANGED payment
          \/ /\ job[j].task \in Tasks
             /\ \E v \in {"PROCESSING", "PAID", "FAILED"} :
                  payment' = [payment EXCEPT ![job[j].task] = v]
      BY <1>6 DEF MarkProcessing, MarkPaid, MarkFailed, TaskHere, InTasks
    <2>2. UNCHANGED <<payable, status>>
      BY <1>6 DEF MarkProcessing, MarkPaid, MarkFailed, taskVars
    <2> QED
      BY <1>4, <1>5, <2>1, <2>2
  <1>7. CASE MonitorMarkTask
    <2>1. \/ UNCHANGED payment
          \/ \E v \in {"PAID", "FAILED"} : payment' = [payment EXCEPT ![mon.task] = v]
      BY <1>7 DEF MonitorMarkTask
    <2>2. mon.task \in Tasks /\ UNCHANGED <<payable, status>>
      BY <1>7 DEF MonitorMarkTask, MonInv, taskVars
    <2> QED
      BY <1>4, <1>5, <2>1, <2>2
  <1> QED
    BY <1>1, <1>2, <1>5, <1>6, <1>7
       DEF Next, vars, taskVars, Handler, ApproveCheck, DeleteTask, ViewCheck,
           EditCheck, QueueEmployee, QueueOversight, ViewWrite,
           Process, Take, Send, RecordRow, AwaitConfirmation, MarkRow, Release,
           Acknowledge, FailRow, Retry, StallCheck, ChainConfirm, ChainDrop,
           Monitor, MonitorTick, MonitorAnswer, MonitorSkip,
           MonitorMarkRow, Crash

LEMMA HandKept ==
  ASSUME SafetyInv, [Next]_vars, NEW t \in Tasks, NEW j \in Jobs, InHand(j, t),
         alive[t], payment'[t] = "ALLOCATED"
  PROVE  InHand(j, t)' \/ GivesUp(j)
  <1>1. JobStep(j)
    BY JobSteps
  <1>2. ~JobQueued(j)
    BY DEF InHand, JobQueued, Active
  <1>3. TaskHere(j) /\ job[j].task = t
    BY DEF InHand, TaskHere, InTasks
  <1>4. CASE job'[j] = job[j]
    BY <1>4 DEF InHand, Active
  <1>5. CASE JobWaits(j)
    BY <1>5 DEF JobWaits, SameRun, InHand, Active, At, GivesUp
  <1>6. CASE JobRerun(j)
    BY <1>3, <1>6 DEF JobRerun, InHand, Active, At, GivesUp, DbError
  <1>7. CASE JobMoves(j)
    BY <1>3, <1>7 DEF JobMoves, SameRun, InHand, Active, MayFail
  <1> QED
    BY <1>1, <1>2, <1>4, <1>5, <1>6, <1>7 DEF JobStep

(* An approved amount is left with nobody to pay it for the named causes   *)
(* only, with any number of tasks, requests, managers and attempts.        *)
THEOREM ApprovalsAreActedOn == Spec => ApprovalIsActedOn
  <1>1. ASSUME SafetyInv, [Next]_vars, NEW t \in Tasks, Stranded(t)', ~Stranded(t)
        PROVE  MayStrand(t)
    <2>1. alive'[t] /\ Owed(t)'
      BY <1>1 DEF Stranded, Owed
    <2>2. alive[t]
      BY <1>1, <2>1, AliveSteps
    <2>3. /\ \A r \in Requests : ~Awaits(r, t, "queue")'
          /\ \A j \in Jobs : ~InHand(j, t)'
      BY <1>1 DEF Stranded
    <2>4. CASE Owed(t)
      <3>1. \/ \E r \in Requests : Awaits(r, t, "queue")
            \/ \E j \in Jobs : InHand(j, t)
        BY <1>1, <2>2, <2>4 DEF Stranded, Owed
      <3>2. ASSUME NEW j \in Jobs, InHand(j, t) PROVE job[j].task = t /\ GivesUp(j)
        <4>1. payment'[t] = "ALLOCATED"
          BY <2>1 DEF Owed
        <4>2. GivesUp(j)
          BY <1>1, <2>2, <2>3, <3>2, <4>1, HandKept
        <4> QED
          BY <3>2, <4>2 DEF InHand
      <3>3. ASSUME NEW r \in Requests, Awaits(r, t, "queue")
            PROVE  Answers(r, t, "queue") /\ ("redis" \in Faults \/ crashes' # crashes)
        BY <1>1, <2>3, <3>3, QueueSteps DEF QueueStep
      <3> QED
        BY <3>1, <3>2, <3>3 DEF MayStrand
    <2> QED
      BY <1>1, <2>1, <2>2, <2>3, <2>4, OwedSteps DEF OwedStep, MayStrand
  <1>2. SafetyInv /\ [Next]_vars =>
          [\A t \in Tasks : Stranded(t)' /\ ~Stranded(t) => MayStrand(t)]_vars
    BY <1>1
  <1> QED
    BY <1>2, SafetyInvariant, PTL DEF Spec, ApprovalIsActedOn

-----------------------------------------------------------------------------
(* What a step may do to those who pay a task: an approval starts with a   *)
(* task that is COMPLETED, queues after it has written APPROVED, and only  *)
(* that request's own job is for the task.                                 *)

Starts(r, t) ==
  /\ req[r].pc = "idle"
  /\ alive[t] /\ status[t] = "COMPLETED"
  /\ \A s \in Requests : s # r => req'[s] = req[s]
  /\ UNCHANGED <<job, status>>

OwnerStep(r, t) ==
  /\ Awaits(r, t, "approve")' => Awaits(r, t, "approve") \/ Starts(r, t)
  /\ Awaits(r, t, "queue")' =>
       \/ Awaits(r, t, "queue")
       \/ Awaits(r, t, "approve") /\ status'[t] = "APPROVED"
  /\ Pays(r, t)' => Pays(r, t) \/ (Awaits(r, t, "queue") /\ UNCHANGED status)

LEMMA OwnerSteps ==
  ASSUME SafetyInv, [Next]_vars
  PROVE  /\ \A r \in Requests, t \in Tasks : OwnerStep(r, t)
         /\ OversightInv => OversightInv'
  <1> USE DEF SafetyInv, Typed
  <1> DEFINE Goal == /\ \A r \in Requests, t \in Tasks : OwnerStep(r, t)
                     /\ OversightInv => OversightInv'
  <1>1. ASSUME \A j \in Jobs : job'[j].task = job[j].task
        PROVE  /\ \A r \in Requests, t \in Tasks : Pays(r, t)' => Pays(r, t)
               /\ OversightInv => OversightInv'
    BY <1>1 DEF Pays, OversightInv, Jobs, Payees
  <1>2. ASSUME UNCHANGED req, \A j \in Jobs : job'[j].task = job[j].task
        PROVE  Goal
    BY <1>1, <1>2 DEF OwnerStep, Awaits
  <1>3. ASSUME NEW q \in Requests, NEW x \in RequestRecords,
               req' = [req EXCEPT ![q] = x],
               UNCHANGED job,
               x.pc = "approve" =>
                 /\ req[q].pc = "idle" /\ UNCHANGED status
                 /\ alive[x.task] /\ status[x.task] = "COMPLETED",
               x.pc = "queue" =>
                 /\ req[q].pc = "approve" /\ x.task = req[q].task
                 /\ status'[x.task] = "APPROVED"
        PROVE  Goal
    <2>1. req'[q] = x /\ \A r \in Requests : r # q => req'[r] = req[r]
      BY <1>3 DEF TypeOK
    <2>2. ASSUME NEW r \in Requests, NEW t \in Tasks PROVE OwnerStep(r, t)
      BY <1>3, <2>1 DEF OwnerStep, Awaits, Pays, Starts
    <2> QED
      BY <1>1, <1>3, <2>2
  <1>4. ASSUME NEW q \in Requests, req' = [req EXCEPT ![q] = Answered],
               UNCHANGED job
        PROVE  Goal
    BY <1>3, <1>4, AnsweredIs
  <1>5. ASSUME NEW q \in Requests, Handler(q) PROVE Goal
    <2>1. ASSUME NEW t \in Tasks, ApproveCheck(q, t) PROVE Goal
      <3>1. PICK pc \in {"plain", "approve"} : req' = [req EXCEPT ![q] = Awaiting(pc, t)]
        BY <2>1 DEF ApproveCheck
      <3>2. /\ Awaiting(pc, t) \in RequestRecords
            /\ Awaiting(pc, t).pc = pc /\ Awaiting(pc, t).task = t
        BY AwaitingIs DEF RequestPCs
      <3>3. /\ req[q].pc = "idle" /\ alive[t] /\ status[t] = "COMPLETED"
            /\ UNCHANGED <<job, status>>
        BY <2>1 DEF ApproveCheck, taskVars
      <3> QED
        BY <1>3, <3>1, <3>2, <3>3
    <2>2. ASSUME NEW t \in Tasks, DeleteTask(q, t) PROVE Goal
      BY <1>4, <2>2 DEF DeleteTask
    <2>3. ASSUME NEW t \in Tasks, ViewCheck(q, t) PROVE Goal
      <3>1. /\ Awaiting("confirmRow", t) \in RequestRecords
            /\ Awaiting("confirmRow", t).pc = "confirmRow"
        BY AwaitingIs DEF RequestPCs
      <3>2. /\ req' = [req EXCEPT ![q] = Awaiting("confirmRow", t)]
            /\ UNCHANGED job
        BY <2>3 DEF ViewCheck
      <3> QED
        BY <1>3, <3>1, <3>2
    <2>4. ASSUME NEW t \in Tasks, NEW e \in Edits, EditCheck(q, t, e) PROVE Goal
      <3> DEFINE x == [Awaiting("edit", t) EXCEPT !.edit = e]
      <3>1. x \in RequestRecords /\ x.pc = "edit"
        BY AwaitingIs DEF RequestRecords, RequestPCs
      <3>2. req' = [req EXCEPT ![q] = x] /\ UNCHANGED job
        BY <2>4 DEF EditCheck
      <3> QED
        BY <1>3, <3>1, <3>2
    <2>5. CASE ApproveWrite(q)
      <3> DEFINE x == [req[q] EXCEPT !.pc = "queue"]
                 u == req[q].task
      <3>1. x \in RequestRecords /\ x.pc = "queue" /\ x.task = u /\ u \in Tasks
        BY <2>5 DEF TypeOK, RequestRecords, RequestPCs, ApproveWrite, ReqInv
      <3>2. UNCHANGED job
        BY <2>5 DEF ApproveWrite
      <3>3. CASE req[q].pc = "approve" /\ alive[u]
        <4>1. req' = [req EXCEPT ![q] = x] /\ status' = [status EXCEPT ![u] = "APPROVED"]
          BY <2>5, <3>3 DEF ApproveWrite
        <4>2. status'[u] = "APPROVED"
          BY <3>1, <4>1 DEF TypeOK
        <4> QED
          BY <1>3, <3>1, <3>2, <3>3, <4>1, <4>2
      <3>4. CASE ~(req[q].pc = "approve" /\ alive[u])
        <4>1. req' = [req EXCEPT ![q] = Answered]
          BY <2>5, <3>4 DEF ApproveWrite
        <4> QED
          BY <1>4, <3>2, <4>1
      <3> QED
        BY <3>3, <3>4
    <2>6. CASE QueueEmployee(q)
      <3> DEFINE k == <<q, Employee>>
                 x == [req[q] EXCEPT !.pc = "oversight", !.left = Managers]
      <3>1. /\ req[q].pc = "queue" /\ req[q].task \in Tasks
            /\ UNCHANGED status
        BY <2>6 DEF QueueEmployee, ReqInv, taskVars
      <3>2. x \in RequestRecords /\ x.pc = "oversight"
        BY DEF TypeOK, RequestRecords, RequestPCs
      <3>3. CASE UNCHANGED job
        <4>1. req' = [req EXCEPT ![q] = x] \/ req' = [req EXCEPT ![q] = Answered]
          BY <2>6 DEF QueueEmployee
        <4> QED
          BY <1>3, <1>4, <3>1, <3>2, <3>3, <4>1
      <3>4. CASE job' = [job EXCEPT ![k] = Queued(req[q].task)]
        <4>1. req' = [req EXCEPT ![q] = x] \/ req' = [req EXCEPT ![q] = Answered]
          BY <2>6 DEF QueueEmployee
        <4>2. /\ req'[q].pc \in {"oversight", "done"}
              /\ \A r \in Requests : r # q => req'[r] = req[r]
          BY <3>2, <4>1, AnsweredIs DEF TypeOK
        <4>3. k \in Jobs
          BY DEF Jobs, Payees
        <4>4. /\ job'[k].task = req[q].task
              /\ \A i \in Jobs : i # k => job'[i] = job[i]
          BY <3>1, <3>4, <4>3, QueuedIs, SetJob
        <4>5. ASSUME NEW r \in Requests, NEW t \in Tasks PROVE OwnerStep(r, t)
          <5>1. r # q => job'[<<r, Employee>>] = job[<<r, Employee>>]
            BY <4>4 DEF Jobs, Payees
          <5> QED
            BY <3>1, <4>2, <4>4, <5>1 DEF OwnerStep, Awaits, Pays
        <4>6. OversightInv => OversightInv'
          <5>1. \A r \in Requests, m \in Managers : <<r, m>> \in Jobs /\ <<r, m>> # k
            BY PaymentAssumption DEF Jobs, Payees
          <5> QED
            BY <4>4, <5>1 DEF OversightInv
        <4> QED
          BY <4>5, <4>6
      <3> QED
        BY <2>6, <3>3, <3>4 DEF QueueEmployee
    <2>7. CASE EditWrite(q)
      BY <1>4, <2>7 DEF EditWrite
    <2>8. CASE ViewWrite(q)
      BY <1>4, <2>8 DEF ViewWrite
    <2>9. ASSUME NEW m \in Managers, QueueOversight(q, m) PROVE Goal
      <3> DEFINE k == <<q, m>>
                 x == [req[q] EXCEPT !.left = req[q].left \ {m}]
      <3>1. req[q] \in RequestRecords /\ req[q].pc = "oversight"
        BY <2>9 DEF QueueOversight, TypeOK
      <3>2. x \in RequestRecords /\ x.pc = "oversight"
        BY <3>1 DEF RequestRecords, RequestPCs
      <3>3. req' = [req EXCEPT ![q] = x] \/ req' = [req EXCEPT ![q] = Answered]
        BY <2>9 DEF QueueOversight
      <3>4. CASE UNCHANGED job
        BY <1>3, <1>4, <3>1, <3>2, <3>3, <3>4
      <3>5. CASE job' = [job EXCEPT ![k] = Queued(NoTask)]
        <4>1. /\ req'[q].pc \in {"oversight", "done"}
              /\ \A r \in Requests : r # q => req'[r] = req[r]
          BY <3>2, <3>3, AnsweredIs DEF TypeOK
        <4>2. k \in Jobs
          BY DEF Jobs, Payees
        <4>3. /\ job'[k].task = NoTask
              /\ \A i \in Jobs : i # k => job'[i] = job[i]
          BY <3>5, <4>2, QueuedIs, SetJob
        <4>4. ASSUME NEW r \in Requests, NEW t \in Tasks PROVE OwnerStep(r, t)
          <5>1. job'[<<r, Employee>>] = job[<<r, Employee>>]
            BY <4>3, PaymentAssumption DEF Jobs, Payees
          <5> QED
            BY <4>1, <5>1 DEF OwnerStep, Awaits, Pays
        <4>5. OversightInv => OversightInv'
          BY <4>3 DEF OversightInv, Jobs, Payees
        <4> QED
          BY <4>4, <4>5
      <3> QED
        BY <2>9, <3>4, <3>5 DEF QueueOversight
    <2> QED
      BY <1>5, <2>1, <2>2, <2>3, <2>4, <2>5, <2>6, <2>7, <2>8, <2>9 DEF Handler
  <1>6. CASE Crash
    <2>1. \A r \in Requests : req'[r] = req[r] \/ req'[r].pc = "done"
      BY <1>6, AnsweredIs DEF Crash
    <2>2. \A j \in Jobs : job'[j].task = job[j].task
      BY <1>6 DEF Crash, TypeOK, JobRecords
    <2> QED
      BY <1>1, <2>1, <2>2 DEF OwnerStep, Awaits
  <1>7. ASSUME NEW k \in Jobs, Process(k) \/ Retry(k) \/ StallCheck(k) PROVE Goal
    <2>1. UNCHANGED req
      BY <1>7
         DEF Process, Take, MarkProcessing, Send, RecordRow, AwaitConfirmation,
             MarkRow, MarkPaid, Release, Acknowledge, MarkFailed, FailRow, Retry,
             StallCheck
    <2>2. ASSUME NEW j \in Jobs PROVE job'[j].task = job[j].task
      <3>1. JobStep(j)
        BY JobSteps
      <3>2. /\ job[k].state # "none"
            /\ j # k => job'[j] = job[j]
        BY <1>7
           DEF Process, Take, MarkProcessing, Send, RecordRow, AwaitConfirmation,
               MarkRow, MarkPaid, Release, Acknowledge, MarkFailed, FailRow,
               Retry, StallCheck, At, Goto, AttemptFailed, TypeOK
      <3> QED
        BY <3>1, <3>2 DEF JobStep, JobQueued, JobWaits, JobRerun, JobMoves, SameRun
    <2> QED
      BY <1>2, <2>1, <2>2
  <1>8. CASE UNCHANGED <<req, job>>
    BY <1>2, <1>8
  <1> QED
    BY <1>5, <1>6, <1>7, <1>8
       DEF Next, vars, taskVars, ChainConfirm, ChainDrop, Monitor,
           MonitorTick, MonitorAnswer, MonitorSkip, MonitorMarkRow, MonitorMarkTask

-----------------------------------------------------------------------------
(* One request at a time pays a task that is not excused.                  *)

LEMMA OwnerKept ==
  ASSUME CausesInv, CausesNext
  PROVE  OwnerInv'
  <1>1. SafetyInv /\ OwnerInv /\ Next
    BY DEF CausesInv, CausesNext
  <1>2. /\ \A r \in Requests, t \in Tasks : OwnerStep(r, t)
        /\ \A t \in Tasks : alive'[t] => alive[t]
    BY <1>1, AliveSteps, OwnerSteps
  <1> SUFFICES ASSUME NEW t \in Tasks, t \notin excused'
               PROVE  /\ \A r, s \in Requests : Owns(r, t)' /\ Owns(s, t)' => r = s
                      /\ \A r \in Requests : Awaits(r, t, "queue")' \/ Pays(r, t)' =>
                           status'[t] = "APPROVED" \/ ~alive'[t]
    BY DEF OwnerInv
  <1>3. t \notin excused /\ ~Overlaps(t) /\ ~Reopens(t)
    BY DEF CausesNext, Causes
  <1>4. ASSUME NEW r \in Requests, Owns(r, t)'
        PROVE  Owns(r, t) \/ (Awaits(r, t, "approve")' /\ Starts(r, t))
    BY <1>2, <1>4 DEF Owns, OwnerStep
  <1>5. ASSUME NEW r \in Requests, NEW s \in Requests, r # s,
               Awaits(r, t, "approve")', Starts(r, t), Owns(s, t)'
        PROVE  FALSE
    <2>1. ~Awaits(s, t, "approve")
      BY <1>3, <1>5 DEF Overlaps, Awaits, Starts
    <2>2. Owns(s, t)
      BY <1>4, <1>5 DEF Starts, Awaits
    <2>3. status[t] = "APPROVED" \/ ~alive[t]
      BY <1>1, <1>3, <2>1, <2>2 DEF OwnerInv, Owns
    <2> QED
      BY <1>5, <2>3 DEF Starts
  <1>6. ASSUME NEW r \in Requests, NEW s \in Requests, Owns(r, t)', Owns(s, t)'
        PROVE  r = s
    <2>1. CASE Owns(r, t) /\ Owns(s, t)
      BY <1>1, <1>3, <2>1 DEF OwnerInv
    <2> QED
      BY <1>4, <1>5, <1>6, <2>1
  <1>7. ASSUME NEW r \in Requests, Awaits(r, t, "queue")' \/ Pays(r, t)'
        PROVE  status'[t] = "APPROVED" \/ ~alive'[t]
    <2>1. \/ Awaits(r, t, "queue") \/ Pays(r, t)
          \/ status'[t] = "APPROVED"
      BY <1>2, <1>7 DEF OwnerStep
    <2>2. CASE Awaits(r, t, "queue") \/ Pays(r, t)
      <3>1. status[t] = "APPROVED" \/ ~alive[t]
        BY <1>1, <1>3, <2>2 DEF OwnerInv
      <3> QED
        BY <1>2, <1>3, <3>1 DEF Reopens
    <2> QED
      BY <2>1, <2>2
  <1> QED
    BY <1>6, <1>7

-----------------------------------------------------------------------------
(* The job of a task that is not excused sends one transfer.               *)

(* The jobs of such a task are one job.                                    *)
LEMMA OneJob ==
  ASSUME CausesInv, NEW j \in Jobs, NEW k \in Jobs, job[j].task \in Tasks \ excused,
         job[k].task = job[j].task
  PROVE  j = k
  <1>1. ASSUME NEW i \in Jobs, job[i].task = job[j].task
        PROVE  \E r \in Requests : i = <<r, Employee>> /\ Pays(r, job[j].task)
    <2>1. PICK r \in Requests, p \in Payees : i = <<r, p>>
      BY DEF Jobs
    <2>2. p \notin Managers
      BY <1>1, <2>1, PaymentAssumption DEF CausesInv, OversightInv
    <2> QED
      BY <1>1, <2>1, <2>2 DEF Payees, Pays
  <1> QED
    BY <1>1 DEF CausesInv, OwnerInv, Owns

(* A row of the task names a transfer of that job.                         *)
LEMMA RowIsOwn ==
  ASSUME CausesInv, NEW j \in Jobs, job[j].task \in Tasks \ excused,
         Recorded(job[j].task)
  PROVE  \E n \in Runs : Sent(j, n)
  <1> DEFINE row == ledger[job[j].task]
  <1>1. row.job \in Jobs /\ row.run \in Runs
    BY RowsNameTransfers DEF CausesInv, SafetyInv, Typed
  <1>2. job[row.job].task = job[j].task /\ chain[row.job][row.run] # "none"
    BY DEF CausesInv, SafetyInv, LedgerMatchesChain
  <1> QED
    BY <1>1, <1>2, OneJob DEF Sent

LEMMA OneTransferKept ==
  ASSUME CausesInv, CausesNext
  PROVE  OneTransferInv'
  <1>1. /\ SafetyInv /\ OwnerInv /\ OneTransferInv /\ Next
        /\ Typed /\ ChainInv /\ WorkerInv
    BY DEF CausesInv, CausesNext, SafetyInv
  <1> SUFFICES ASSUME NEW j \in Jobs, job'[j].task \in Tasks, job'[j].task \notin excused'
               PROVE  /\ \A m, n \in Runs : Sent(j, m)' /\ Sent(j, n)' => m = n
                      /\ \A n \in Runs : Sent(j, n)' /\ alive'[job'[j].task] =>
                           /\ job'[j].state \notin {"waiting", "delayed", "stalled"}
                           /\ job'[j].state = "active" => job'[j].pc \in {"record"} \cup HasRow
                      /\ job'[j].state = "active" /\ job'[j].pc = "send" =>
                           \A n \in Runs : ~Sent(j, n)'
                      /\ job'[j].state = "active" /\ job'[j].pc = "record" =>
                           ledger'[job'[j].task].status = "NONE"
    BY DEF OneTransferInv, Active, Recorded
  <1> DEFINE t == job'[j].task
  <1>2. JobStep(j) /\ \A n \in Runs : ChainStep(j, n)
    BY <1>1, JobSteps, ChainSteps
  <1>3. CASE job[j].state = "none"
    <2>1. \A n \in Runs : ~Sent(j, n)
      BY <1>1, <1>3 DEF ChainInv, Sent
    <2>2. \A n \in Runs : ~Sent(j, n)'
      BY <1>2, <1>3, <2>1 DEF ChainStep, Sent, At
    <2>3. job'[j].state # "active"
      BY <1>2, <1>3 DEF JobStep, JobQueued, JobWaits, JobRerun, JobMoves, Active, At
    <2> QED
      BY <2>2, <2>3
  <1>4. CASE job[j].state # "none"
    <2>1. job[j].task = t
      BY <1>2, <1>4 DEF JobStep, JobQueued, JobWaits, JobRerun, JobMoves, SameRun
    <2>2. t \in Tasks \ excused /\ ~Interrupts(t)
      BY DEF CausesNext, Causes
    <2>3. alive'[t] => alive[t] /\ ~CutShort(j)
      BY <1>1, <2>1, <2>2, AliveSteps DEF Interrupts
    <2>4. /\ \A m, n \in Runs : Sent(j, m) /\ Sent(j, n) => m = n
          /\ \A n \in Runs : Sent(j, n) /\ alive[t] =>
               /\ job[j].state \notin {"waiting", "delayed", "stalled"}
               /\ Active(j) => job[j].pc \in {"record"} \cup HasRow
          /\ Active(j) /\ job[j].pc = "send" => \A n \in Runs : ~Sent(j, n)
          /\ Active(j) /\ job[j].pc = "record" => ~Recorded(t)
      BY <1>1, <2>1, <2>2 DEF OneTransferInv
    <2>5. Active(j) => RunOf(j) \in Runs
      BY <1>1, RunInRuns DEF Typed, Live, Active
    <2>6. CASE \E n \in Runs : Sent(j, n)' /\ ~Sent(j, n)
      <3>1. /\ At(j, "send") /\ SameRun(j)
            /\ job'[j].state = "active" /\ job'[j].pc \in {"record", "markFailed"}
            /\ chain'[j][RunOf(j)] # "none"
            /\ \A n \in Runs : Sent(j, n)' => n = RunOf(j)
        <4>1. PICK n \in Runs : Sent(j, n)' /\ ~Sent(j, n)
          BY <2>6
        <4>2. /\ At(j, "send") /\ SameRun(j) /\ chain'[j][RunOf(j)] # "none"
              /\ job'[j].state = "active" /\ job'[j].pc \in {"record", "markFailed"}
          BY <1>2, <4>1 DEF ChainStep, Sent
        <4>3. ASSUME NEW m \in Runs, Sent(j, m)' PROVE m = RunOf(j)
          BY <1>2, <2>4, <4>2, <4>3 DEF ChainStep, Sent, At, Active
        <4> QED
          BY <4>2, <4>3
      <3>2. alive'[t] => job'[j].pc # "markFailed"
        BY <2>3, <3>1 DEF CutShort, At, Active, Sent
      <3>3. ~Recorded(t)
        BY <2>1, <2>2, <2>4, <3>1, RowIsOwn DEF At, Active
      <3>4. ledger'[t].status = "NONE"
        <4>1. RowStep(t)
          BY <1>1, RowSteps
        <4>2. ASSUME NEW k \in Jobs, At(k, "record"), job[k].task = t PROVE FALSE
          BY <2>1, <2>2, <3>1, <4>2, OneJob DEF At
        <4> QED
          BY <3>3, <4>1, <4>2 DEF RowStep, Recorded
      <3> QED
        BY <3>1, <3>2, <3>4
    <2>7. CASE \A n \in Runs : Sent(j, n)' => Sent(j, n)
      <3>1. \A m, n \in Runs : Sent(j, m)' /\ Sent(j, n)' => m = n
        BY <2>4, <2>7
      <3>2. ASSUME NEW n \in Runs, Sent(j, n)', alive'[t]
            PROVE  /\ job'[j].state \notin {"waiting", "delayed", "stalled"}
                   /\ job'[j].state = "active" => job'[j].pc \in {"record"} \cup HasRow
        <4>1. /\ job[j].state \notin {"waiting", "delayed", "stalled"}
              /\ Active(j) => job[j].pc \in {"record"} \cup HasRow
          BY <2>3, <2>4, <2>7, <3>2
        <4>2. Active(j) => chain'[j][RunOf(j)] # "none"
          <5>1. Active(j) => chain[j][RunOf(j)] # "none"
            BY <1>1, <4>1 DEF WorkerInv, SafetyInv, LedgerMatchesChain, JobInv, Typed, InTasks, HasRow
          <5> QED
            BY <1>1, <2>5, <5>1, StepsKeep DEF Kept
        <4>3. Active(j) => job'[j].state # "stalled" /\ job'[j].pc # "markFailed"
          BY <2>3, <3>2, <4>1, <4>2 DEF CutShort, HasRow
        <4> QED
          BY <1>2, <1>4, <4>1, <4>3
             DEF JobStep, JobQueued, JobWaits, JobRerun, JobMoves, Active, At, HasRow
      <3>3. ASSUME job'[j].state = "active", job'[j].pc = "send", NEW n \in Runs
            PROVE  ~Sent(j, n)'
        <4>1. CASE job'[j] = job[j]
          BY <2>4, <2>7, <3>3, <4>1 DEF Active
        <4>2. CASE job'[j] # job[j]
          <5>1. Active(j) /\ job[j].pc = "processing" /\ alive[t]
            BY <1>2, <2>1, <3>3, <4>2
               DEF JobStep, JobQueued, JobWaits, JobRerun, JobMoves, TaskHere, MayFail
          <5> QED
            BY <2>4, <2>7, <5>1 DEF HasRow
        <4> QED
          BY <4>1, <4>2
      <3>4. ASSUME job'[j].state = "active", job'[j].pc = "record"
            PROVE  ledger'[t].status = "NONE"
        <4>1. CASE job'[j] # job[j]
          <5>1. /\ Active(j) /\ job[j].pc = "send" /\ SameRun(j)
                /\ chain'[j][RunOf(j)] # "none"
            BY <1>2, <3>4, <4>1
               DEF JobStep, JobQueued, JobWaits, JobRerun, JobMoves, MayFail
          <5> QED
            BY <2>4, <2>5, <2>7, <5>1 DEF Sent
        <4>2. CASE job'[j] = job[j]
          <5>1. ~Recorded(t)
            BY <2>4, <3>4, <4>2 DEF Active
          <5>2. RowStep(t)
            BY <1>1, RowSteps
          <5>3. ASSUME NEW k \in Jobs, job[k].task = t, job'[k] = [job[k] EXCEPT !.pc = "confirm"]
                PROVE  FALSE
            <6>1. k = j
              BY <2>1, <2>2, <5>3, OneJob
            <6>2. job[j] \in JobRecords
              BY <1>1 DEF Typed, TypeOK
            <6> QED
              BY <3>4, <5>3, <6>1, <6>2 DEF JobRecords
          <5> QED
            BY <5>1, <5>2, <5>3 DEF RowStep, Recorded
        <4> QED
          BY <4>1, <4>2
      <3> QED
        BY <3>1, <3>2, <3>3, <3>4
    <2> QED
      BY <2>6, <2>7
  <1> QED
    BY <1>3, <1>4

-----------------------------------------------------------------------------
LEMMA CausesInvInit == CausesInit => CausesInv
  <1> SUFFICES ASSUME CausesInit PROVE CausesInv
    OBVIOUS
  <1>1. SafetyInv
    BY SafetyInit DEF CausesInit
  <1>2. \A j \in Jobs : job[j].task = NoTask /\ job[j].state = "none"
    BY DEF CausesInit, Init, NoJob
  <1>3. OversightInv
    BY <1>2 DEF OversightInv, Jobs, Payees
  <1>4. \A r \in Requests, t \in Tasks : ~Owns(r, t)
    BY <1>2, PaymentAssumption
       DEF Owns, Awaits, Pays, CausesInit, Init, IdleRequest, Jobs, Payees
  <1>5. OwnerInv /\ OneTransferInv
    BY <1>2, <1>4, PaymentAssumption DEF OwnerInv, OneTransferInv, Owns
  <1> QED
    BY <1>1, <1>3, <1>5 DEF CausesInv

LEMMA CausesInvNext == CausesInv /\ [CausesNext]_allVars => CausesInv'
  <1> SUFFICES ASSUME CausesInv, [CausesNext]_allVars PROVE CausesInv'
    OBVIOUS
  <1>1. CASE CausesNext
    <2>1. SafetyInv /\ OversightInv /\ [Next]_vars
      BY <1>1 DEF CausesInv, CausesNext
    <2>2. SafetyInv' /\ OversightInv'
      BY <2>1, SafetyNext, OwnerSteps
    <2> QED
      BY <1>1, <2>2, OwnerKept, OneTransferKept DEF CausesInv
  <1>2. CASE UNCHANGED allVars
    <2>1. UNCHANGED <<vars, excused>>
      BY <1>2 DEF allVars
    <2>2. SafetyInv'
      BY <2>1, SafetyNext DEF CausesInv
    <2>3. OversightInv' /\ OwnerInv' /\ OneTransferInv'
      BY <2>1 DEF CausesInv, vars, OversightInv, OwnerInv, OneTransferInv, Owns,
                  Awaits, Pays, Sent, Active, Recorded
    <2> QED
      BY <2>2, <2>3 DEF CausesInv
  <1> QED
    BY <1>1, <1>2

(* A task is sent a second transfer only after two approvals overlapped,   *)
(* an approval was taken back, or a run was cut short after its transfer.  *)
THEOREM PaidTwiceForCause == CausesSpec => []DoublePayNeedsCause
  <1>1. CausesInv => DoublePayNeedsCause
    <2> SUFFICES ASSUME CausesInv, NEW t \in Tasks \ excused,
                        NEW x \in Transfers(t), NEW y \in Transfers(t)
                 PROVE  x = y
      BY DEF DoublePayNeedsCause
    <2>1. /\ x \in Jobs \X Runs /\ job[x[1]].task = t /\ Sent(x[1], x[2])
          /\ y \in Jobs \X Runs /\ job[y[1]].task = t /\ Sent(y[1], y[2])
      BY DEF Transfers, Sent
    <2>2. x[1] = y[1]
      BY <2>1, OneJob
    <2>3. x[2] = y[2]
      BY <2>1, <2>2 DEF CausesInv, OneTransferInv
    <2> QED
      BY <2>1, <2>2, <2>3
  <1> QED
    BY <1>1, CausesInvInit, CausesInvNext, PTL DEF CausesSpec

-----------------------------------------------------------------------------
(* The books: every step of a handler, the worker, the chain, the monitor  *)
(* or a crash is one step of one task's books, or changes nothing there.   *)

(* A step touches one row, one transfer or one task's released amount.     *)

OnlyRow(t) == /\ \A u \in Tasks : u # t => ledger'[u] = ledger[u]
              /\ UNCHANGED <<chain, released>>
OnlyReleased(t) == /\ \A u \in Tasks : u # t => released'[u] = released[u]
                   /\ UNCHANGED <<chain, ledger>>
OnlyTransfer(j, n) ==
  /\ \A k \in Jobs : k # j => chain'[k] = chain[k]
  /\ \A m \in Runs : m # n => chain'[j][m] = chain[j][m]
  /\ UNCHANGED <<ledger, released>>

OneAtATime ==
  \/ UNCHANGED <<ledger, chain, released>>
  \/ \E t \in Tasks : OnlyRow(t) \/ OnlyReleased(t)
  \/ \E j \in Jobs, n \in Runs : OnlyTransfer(j, n)

LEMMA StepsTouchOne ==
  ASSUME SafetyInv, [Next]_vars
  PROVE  OneAtATime
  <1> USE DEF SafetyInv, Typed
  <1>1. CASE UNCHANGED <<ledger, chain, released>>
    BY <1>1 DEF OneAtATime
  <1>2. ASSUME NEW t \in Tasks, NEW v, ledger' = [ledger EXCEPT ![t] = v],
               UNCHANGED <<chain, released>>
        PROVE  OneAtATime
    BY <1>2 DEF TypeOK, OneAtATime, OnlyRow
  <1>3. ASSUME NEW t \in Tasks, Recorded(t), NEW v \in RowStatus,
               ledger' = [ledger EXCEPT ![t].status = v],
               UNCHANGED <<chain, released>>
        PROVE  OneAtATime
    <2>1. \A u \in Tasks : u # t => ledger'[u] = ledger[u]
      BY <1>3, SetRow
    <2> QED
      BY <1>3, <2>1 DEF OneAtATime, OnlyRow
  <1>4. ASSUME NEW r \in Requests, ViewWrite(r) PROVE OneAtATime
    <2>1. req[r].task \in Tasks /\ Recorded(req[r].task)
      BY <1>4 DEF ViewWrite, ReqInv
    <2> QED
      BY <1>3, <1>4, <2>1 DEF ViewWrite, RowStatus
  <1>5. ASSUME NEW j \in Jobs, Send(j), ~UNCHANGED chain PROVE OneAtATime
    <2>1. job[j].state = "active"
      BY <1>5 DEF Send, At
    <2>2. RunOf(j) \in Runs
      BY <2>1, RunInRuns DEF Live
    <2>3. /\ chain' = [chain EXCEPT ![j][RunOf(j)] = "submitted"]
          /\ UNCHANGED <<ledger, released>>
      BY <1>5 DEF Send
    <2>4. /\ \A k \in Jobs : k # j => chain'[k] = chain[k]
          /\ \A m \in Runs : m # RunOf(j) => chain'[j][m] = chain[j][m]
      <3>1. TypeOK /\ "submitted" \in ChainStatus
        BY DEF ChainStatus
      <3> QED
        BY <2>2, <2>3, <3>1, SetChain
    <2> QED
      BY <2>2, <2>3, <2>4 DEF OneAtATime, OnlyTransfer
  <1>6. ASSUME NEW j \in Jobs, RecordRow(j), ~UNCHANGED ledger PROVE OneAtATime
    <2>1. job[j].task \in Tasks
      BY <1>6 DEF RecordRow, At, JobInv, Active, InTasks
    <2> QED
      BY <1>2, <1>6, <2>1 DEF RecordRow
  <1>7. ASSUME NEW j \in Jobs, MarkRow(j), ~UNCHANGED ledger PROVE OneAtATime
    <2>1. job[j].task \in Tasks /\ Recorded(job[j].task)
      BY <1>7 DEF MarkRow, At, JobInv, Active, InTasks, HasRow
    <2> QED
      BY <1>3, <1>7, <2>1 DEF MarkRow, RowStatus
  <1>8. ASSUME NEW j \in Jobs, FailRow(j), ~UNCHANGED ledger PROVE OneAtATime
    <2>1. job[j].task \in Tasks /\ Recorded(job[j].task)
      BY <1>8 DEF FailRow, At, JobInv, Active, InTasks
    <2> QED
      BY <1>3, <1>8, <2>1 DEF FailRow, RowStatus
  <1>9. ASSUME NEW j \in Jobs, Release(j), ~UNCHANGED released PROVE OneAtATime
    <2>1. job[j].task \in Tasks
      BY <1>9 DEF Release, At, JobInv, Active, InTasks
    <2>2. /\ \A u \in Tasks : u # job[j].task => released'[u] = released[u]
          /\ UNCHANGED <<chain, ledger>>
      BY <1>9, <2>1 DEF Release, TypeOK
    <2> QED
      BY <2>1, <2>2 DEF OneAtATime, OnlyReleased
  <1>10. ASSUME NEW j \in Jobs, NEW n \in Runs, ChainConfirm(j, n) \/ ChainDrop(j, n)
         PROVE  OneAtATime
    <2>1. PICK v \in {"confirmed", "dropped"} : chain' = [chain EXCEPT ![j][n] = v]
      BY <1>10 DEF ChainConfirm, ChainDrop
    <2>2. /\ \A k \in Jobs : k # j => chain'[k] = chain[k]
          /\ \A m \in Runs : m # n => chain'[j][m] = chain[j][m]
      <3>1. TypeOK /\ v \in ChainStatus
        BY DEF ChainStatus
      <3> QED
        BY <2>1, <3>1, SetChain
    <2>3. UNCHANGED <<ledger, released>>
      BY <1>10 DEF ChainConfirm, ChainDrop
    <2> QED
      BY <2>2, <2>3 DEF OneAtATime, OnlyTransfer
  <1>11. ASSUME NEW t \in Tasks, Recorded(t), PassOver(t), UNCHANGED <<chain, released>>
         PROVE  OneAtATime
    <2>1. \A u \in Tasks : u # t => ledger'[u] = ledger[u]
      BY <1>11, SetAge
    <2> QED
      BY <1>11, <2>1 DEF OneAtATime, OnlyRow
  <1>12. CASE MonitorMarkRow
    <2> DEFINE v == IF mon.pc = "confirm" THEN "CONFIRMED" ELSE "FAILED"
    <2>1. mon.task \in Tasks /\ Recorded(mon.task) /\ v \in RowStatus
      BY <1>12 DEF MonitorMarkRow, MonInv, RowStatus
    <2>2. /\ \/ ledger' = [ledger EXCEPT ![mon.task].status = v]
             \/ PassOver(mon.task)
          /\ UNCHANGED <<chain, released>>
      BY <1>12 DEF MonitorMarkRow
    <2> QED
      BY <1>3, <1>11, <2>1, <2>2
  <1>13. ASSUME NEW t \in Tasks, MonitorSkip(t) PROVE OneAtATime
    <2>1. Recorded(t) /\ PassOver(t) /\ UNCHANGED <<chain, released>>
      BY <1>13 DEF MonitorSkip, MonInv
    <2> QED
      BY <1>11, <2>1
  <1> QED
    BY <1>1, <1>4, <1>5, <1>6, <1>7, <1>8, <1>9, <1>10, <1>12, <1>13
       DEF Next, vars, Handler, ApproveCheck, DeleteTask, ViewCheck, EditCheck,
           ApproveWrite, QueueEmployee, QueueOversight, EditWrite,
           Process, Take, MarkProcessing, Send, RecordRow, AwaitConfirmation,
           MarkRow, MarkPaid, Release, Acknowledge, MarkFailed, FailRow, Retry,
           StallCheck, Monitor, MonitorTick, MonitorAnswer, MonitorMarkTask, Crash

-----------------------------------------------------------------------------
(* The initial states and the steps of the pipeline, seen as books.        *)

LEMMA BooksInit == Init => Books!Init
  BY DEF Init, Books!Init, NoRow, Confirmed, Recorded

LEMMA BooksStep ==
  ASSUME SafetyInv, [Next]_vars
  PROVE  [Books!Next]_(Books!ledgerVars)
  <1> DEFINE Entry    == [t \in Tasks |-> ledger[t].status]
             Of(t)    == IF Recorded(t) THEN <<ledger[t].job, ledger[t].run>> ELSE NoRow
             Transfer == [t \in Tasks |-> Of(t)]
             OnChain  == [t \in Tasks |-> Confirmed(t)]
  <1>1. Kept /\ TypeOK
    BY StepsKeep DEF SafetyInv, Typed
  <1>2. ASSUME Entry' = Entry, Transfer' = Transfer, OnChain' = OnChain,
               released' = released
        PROVE  [Books!Next]_(Books!ledgerVars)
    BY <1>2 DEF Books!ledgerVars
  <1>3. ASSUME NEW t \in Tasks, OnlyRow(t)
        PROVE  [Books!Next]_(Books!ledgerVars)
    <2>1. \A u \in Tasks : u # t => ledger'[u].status = ledger[u].status
      BY <1>3 DEF OnlyRow
    <2>2. \A u \in Tasks : u # t => Confirmed(u)' = Confirmed(u)
      BY <1>3 DEF OnlyRow, Confirmed, Recorded
    <2>3. released' = released
      BY <1>3 DEF OnlyRow
    <2>4. Entry' = [Entry EXCEPT ![t] = ledger'[t].status]
      BY <2>1
    <2>5. OnChain' = [OnChain EXCEPT ![t] = Confirmed(t)']
      BY <2>2
    <2>8. \A u \in Tasks : u # t => Of(u)' = Of(u)
      BY <1>3 DEF OnlyRow, Recorded
    <2>6. CASE Recorded(t)
      <3>1. Confirmed(t)' = Confirmed(t)
        BY <1>1, <1>3, <2>6 DEF Kept, OnlyRow, Confirmed, Recorded
      <3>2. OnChain' = OnChain
        BY <2>2, <3>1
      <3>7. Transfer' = Transfer
        <4>1. Of(t)' = Of(t)
          BY <1>1, <2>6 DEF Kept, Recorded
        <4> QED
          BY <2>8, <4>1
      <3>3. CASE ledger'[t].status = ledger[t].status
        <4>1. Entry' = Entry
          BY <2>1, <3>3
        <4> QED
          BY <1>2, <2>3, <3>2, <3>7, <4>1
      <3>4. CASE ledger'[t].status = "FAILED"
        BY <2>3, <2>4, <2>6, <3>2, <3>4, <3>7 DEF Books!Next, Books!Refuse, Recorded
      <3>5. CASE ledger'[t].status = "CONFIRMED" /\ Confirmed(t)
        BY <2>3, <2>4, <2>6, <3>2, <3>5, <3>7 DEF Books!Next, Books!Book, Recorded
      <3>6. \/ ledger'[t].status = ledger[t].status
            \/ ledger'[t].status = "FAILED"
            \/ ledger'[t].status = "CONFIRMED" /\ Confirmed(t)
        <4>1. RowStep(t)
          BY RowSteps
        <4>2. Typed'
          BY TypedNext DEF SafetyInv
        <4>3. ledger'[t].status \in RowStatus \cup {"NONE"}
          BY <4>2 DEF Typed, TypeOK, Rows, NoRow
        <4> QED
          BY <2>6, <4>1, <4>3 DEF RowStep, RowStatus
      <3> QED
        BY <3>3, <3>4, <3>5, <3>6
    <2>7. CASE ~Recorded(t)
      <3>1. RowStep(t)
        BY RowSteps
      <3>2. CASE ledger'[t] = ledger[t]
        <4>1. Entry' = Entry
          BY <2>1, <3>2
        <4>2. Confirmed(t)' = Confirmed(t)
          BY <1>3, <3>2 DEF OnlyRow, Confirmed, Recorded
        <4>3. OnChain' = OnChain
          BY <2>2, <4>2
        <4>4. Transfer' = Transfer
          BY <2>8, <3>2 DEF Recorded
        <4> QED
          BY <1>2, <2>3, <4>1, <4>3, <4>4
      <3>3. CASE ledger'[t].status = "PENDING"
        <4>1. Entry[t] = "NONE" /\ Entry' = [Entry EXCEPT ![t] = "PENDING"]
          BY <2>4, <2>7, <3>3 DEF Recorded
        <4>2. \E b \in BOOLEAN : OnChain' = [OnChain EXCEPT ![t] = b]
          BY <2>5 DEF Confirmed
        <4>3. \E x \in Jobs \X Runs : Transfer' = [Transfer EXCEPT ![t] = x]
          <5>1. Typed' /\ ledger'[t] # NoRow
            BY <3>3, TypedNext DEF SafetyInv, NoRow
          <5>2. ledger'[t].job \in Jobs /\ ledger'[t].run \in Runs
            BY <5>1 DEF Typed, TypeOK, Rows
          <5>3. Of(t)' = <<ledger'[t].job, ledger'[t].run>>
            BY <3>3 DEF Recorded
          <5> QED
            BY <2>8, <5>2, <5>3
        <4> QED
          BY <2>3, <4>1, <4>2, <4>3 DEF Books!Next, Books!Open
      <3> QED
        BY <2>7, <3>1, <3>2, <3>3 DEF RowStep
    <2> QED
      BY <2>6, <2>7
  <1>4. ASSUME NEW t \in Tasks, OnlyReleased(t)
        PROVE  [Books!Next]_(Books!ledgerVars)
    <2>1. Entry' = Entry /\ Transfer' = Transfer
      BY <1>4 DEF OnlyReleased, Recorded
    <2>2. OnChain' = OnChain
      BY <1>4 DEF OnlyReleased, Confirmed, Recorded
    <2>3. ReleasedStep(t)
      BY ReleasedSteps
    <2>4. released \in [Tasks -> Nat] /\ released' \in [Tasks -> Nat]
      BY TypedNext DEF SafetyInv, Typed, TypeOK
    <2>5. CASE released'[t] = released[t]
      <3>1. released' = released
        BY <1>4, <2>4, <2>5 DEF OnlyReleased
      <3> QED
        BY <1>2, <2>1, <2>2, <3>1
    <2>6. CASE released'[t] # released[t]
      <3>1. released'[t] = released[t] + 1
        BY <2>3, <2>6 DEF ReleasedStep
      <3>2. released'[t] > 0
        BY <2>4, <3>1
      <3>3. released'[t] = 1 /\ Confirmed(t)'
        BY <3>2, ReleasedKept DEF ReleasedAtMostOnce
      <3>4. released[t] = 0 /\ Confirmed(t)
        <4>1. Confirmed(t)
          BY <1>4, <3>3 DEF OnlyReleased, Confirmed, Recorded
        <4> QED
          BY <2>4, <3>1, <3>3, <4>1
      <3>5. released' = [released EXCEPT ![t] = 1]
        BY <1>4, <2>4, <3>3 DEF OnlyReleased
      <3> QED
        BY <2>1, <2>2, <3>4, <3>5 DEF Books!Next, Books!Release
    <2> QED
      BY <2>5, <2>6
  <1>5. ASSUME NEW j \in Jobs, NEW n \in Runs, OnlyTransfer(j, n)
        PROVE  [Books!Next]_(Books!ledgerVars)
    <2> DEFINE Named(u) ==
               /\ Recorded(u)
               /\ ledger[u].job = j
               /\ ledger[u].run = n
    <2>1. Entry' = Entry /\ Transfer' = Transfer /\ released' = released
      BY <1>5 DEF OnlyTransfer, Recorded
    <2>2. ASSUME NEW u \in Tasks, Named(u), NEW w \in Tasks, Named(w)
          PROVE  u = w
      BY <2>2 DEF SafetyInv, LedgerMatchesChain
    <2>3. ASSUME NEW u \in Tasks, ~Named(u)
          PROVE  Confirmed(u)' = Confirmed(u)
      <3>1. CASE ~Recorded(u)
        BY <1>5, <3>1 DEF OnlyTransfer, Recorded, Confirmed
      <3>2. CASE Recorded(u)
        <4>1. ledger[u].job \in Jobs /\ ledger[u].run \in Runs
          BY <1>1, <3>2, RowsNameTransfers
        <4>2. ledger[u].job # j \/ ledger[u].run # n
          BY <2>3, <3>2
        <4>3. chain'[ledger[u].job][ledger[u].run] = chain[ledger[u].job][ledger[u].run]
          BY <1>5, <4>1, <4>2 DEF OnlyTransfer
        <4> QED
          BY <1>5, <4>3 DEF OnlyTransfer, Recorded, Confirmed
      <3> QED
        BY <3>1, <3>2
    <2>4. ASSUME NEW t \in Tasks, Named(t), Confirmed(t)'
          PROVE  [Books!Next]_(Books!ledgerVars)
      <3>1. \A u \in Tasks : u # t => Confirmed(u)' = Confirmed(u)
        BY <2>2, <2>3, <2>4
      <3>2. OnChain' = [OnChain EXCEPT ![t] = TRUE]
        <4>1. OnChain' = [OnChain EXCEPT ![t] = Confirmed(t)']
          BY <3>1
        <4>2. Confirmed(t)' = TRUE
          BY <2>4 DEF Confirmed
        <4> QED
          BY <4>1, <4>2, Zenon
      <3>3. Entry[t] # "NONE"
        BY <2>4 DEF Recorded
      <3> QED
        BY <2>1, <3>2, <3>3 DEF Books!Next, Books!Land
    <2>5. CASE \A t \in Tasks : Named(t) => ~Confirmed(t)'
      <3>1. ASSUME NEW u \in Tasks
            PROVE  Confirmed(u)' = Confirmed(u)
        <4>1. CASE Named(u)
          <5>1. Confirmed(u) => Confirmed(u)'
            BY <1>1, <4>1, ConfirmedStays
          <5>2. ~Confirmed(u)' /\ ~Confirmed(u)
            BY <2>5, <4>1, <5>1
          <5>3. Confirmed(u) = FALSE
            BY <5>2 DEF Confirmed
          <5>4. Confirmed(u)' = FALSE
            BY <5>2 DEF Confirmed
          <5> QED
            BY <5>3, <5>4
        <4>2. CASE ~Named(u)
          BY <2>3, <4>2
        <4> QED
          BY <4>1, <4>2
      <3>2. OnChain' = OnChain
        BY <3>1
      <3> QED
        BY <1>2, <2>1, <3>2
    <2> QED
      BY <2>4, <2>5
  <1>6. CASE UNCHANGED <<ledger, chain, released>>
    <2>1. /\ Entry' = Entry /\ Transfer' = Transfer
          /\ OnChain' = OnChain /\ released' = released
      BY <1>6 DEF Confirmed, Recorded
    <2> QED
      BY <1>2, <2>1
  <1>7. OneAtATime
    BY StepsTouchOne
  <1> QED
    BY <1>3, <1>4, <1>5, <1>6, <1>7 DEF OneAtATime

(* The pipeline keeps the books as PaymentLedger promises: one entry per   *)
(* task for ever, booked as confirmed and released only when its transfer  *)
(* is on the chain, and released at most once.                             *)
THEOREM PipelineKeepsTheBooks == Spec => KeepsTheBooks
  <1>1. SafetyInv /\ [Next]_vars => [Books!Next]_(Books!ledgerVars)
    BY BooksStep
  <1> QED
    BY <1>1, BooksInit, SafetyInvariant, PTL DEF Spec, KeepsTheBooks, Books!Spec
=============================================================================
