----------------------- MODULE TaskPaymentSafetyProofs -----------------------
(***************************************************************************)
(* The safety properties of TaskPayment, proved from SafetyInv.            *)
(*                                                                         *)
(* First, one lemma for each variable the properties read says what a      *)
(* single step may do to it, and what it knows when it does: the case      *)
(* analysis over the actions is done there, once.  Then each conjunct of   *)
(* SafetyInv is shown to be kept by any step the lemmas allow.             *)
(***************************************************************************)
EXTENDS TaskPaymentProofs

-----------------------------------------------------------------------------
(* What a step may do to a job.                                            *)

SameRun(j) == /\ job'[j].task = job[j].task
              /\ job'[j].made = job[j].made
              /\ job'[j].stalls = job[j].stalls

(* Queued by a request that will not queue it again.                       *)
JobQueued(j) ==
  /\ job[j].state = "none"
  /\ job'[j].state = "waiting"
  /\ \E r \in Requests, p \in Payees :
       /\ j = <<r, p>>
       /\ req'[r].pc \in {"oversight", "done"}
       /\ req'[r].pc = "oversight" => p \notin req'[r].left

(* Between the runs: the same run goes on, or the next one begins.         *)
JobWaits(j) ==
  /\ SameRun(j)
  /\ \/ job[j].state = "waiting" /\ job'[j].state = "active"
        /\ job'[j].pc = "processing"
     \/ job[j].state = "delayed" /\ job'[j].state = "waiting"
     \/ job[j].state = "stalled" /\ job'[j].state = "exhausted"
     \/ Active(j) /\ job'[j].state = "stalled"
     \/ At(j, "ack") /\ job'[j].state = "completed"

JobRerun(j) ==
  /\ job'[j].task = job[j].task
  /\ \/ /\ job[j].state = "stalled" /\ job'[j].state = "waiting"
        /\ job'[j].made = job[j].made /\ job'[j].stalls = job[j].stalls + 1
     \/ /\ Active(j) /\ job[j].pc \in {"markFailed", "failRow"}
        /\ job[j].pc = "markFailed" => ~TaskHere(j) \/ DbError
        /\ job'[j].state \in {"delayed", "failed"}
        /\ job'[j].made = job[j].made + 1 /\ job'[j].stalls = job[j].stalls

(* From one place of a run to the next, with what is known on arrival.     *)
MayFail == {"processing", "send", "record", "confirm", "markRow", "markPaid",
            "release"}
JobMoves(j) ==
  /\ SameRun(j)
  /\ Active(j)
  /\ job'[j].state = "active"
  /\ \/ job[j].pc = "processing" /\ job'[j].pc = "send" /\ TaskHere(j)
     \/ job[j].pc \in MayFail /\ job'[j].pc = "markFailed"
     \/ /\ job[j].pc = "markFailed" /\ job'[j].pc = "failRow"
        /\ payment'[job[j].task] = "FAILED"
     \/ /\ job[j].pc = "send" /\ job'[j].pc = "record"
        /\ chain'[j][RunOf(j)] # "none"
     \/ /\ job[j].pc = "record" /\ job'[j].pc = "confirm"
        /\ ~Recorded(job[j].task)
        /\ ledger'[job[j].task].job = j
        /\ ledger'[job[j].task].run = RunOf(j)
     \/ /\ job[j].pc = "confirm" /\ job'[j].pc = "markRow"
        /\ chain[j][RunOf(j)] = "confirmed"
     \/ job[j].pc = "markRow" /\ job'[j].pc = "markPaid"
     \/ /\ job[j].pc = "markPaid" /\ job'[j].pc = "release"
        /\ payment'[job[j].task] = "PAID"
     \/ /\ job[j].pc = "release" /\ job'[j].pc = "ack"
        /\ released'[job[j].task] = released[job[j].task] + 1

JobStep(j) == \/ job'[j] = job[j]
              \/ JobQueued(j) \/ JobWaits(j) \/ JobRerun(j) \/ JobMoves(j)

LEMMA JobSteps ==
  ASSUME SafetyInv, [Next]_vars
  PROVE  \A j \in Jobs : JobStep(j)
  <1> SUFFICES ASSUME NEW j \in Jobs PROVE JobStep(j)
    OBVIOUS
  <1> USE DEF SafetyInv, Typed
  <1>1. ASSUME NEW r \in Requests, Handler(r) PROVE JobStep(j)
    <2>1. CASE UNCHANGED job
      BY <2>1 DEF JobStep
    <2>2. CASE QueueEmployee(r) /\ ~UNCHANGED job
      <3> DEFINE k == <<r, Employee>>
      <3>1. /\ req[r].pc = "queue"
            /\ job' = [job EXCEPT ![k] = Queued(req[r].task)]
            /\ req' = [req EXCEPT ![r] =
                         IF Managers = {} THEN Answered
                         ELSE [@ EXCEPT !.pc = "oversight", !.left = Managers]]
        BY <2>2 DEF QueueEmployee
      <3>2. k \in Jobs /\ Employee \in Payees
        BY DEF Jobs, Payees
      <3>3. req[r].task \in Tasks
        BY <3>1 DEF ReqInv
      <3>4. /\ job'[k].state = "waiting"
            /\ \A i \in Jobs : i # k => job'[i] = job[i]
        BY <3>1, <3>2, <3>3, QueuedIs, SetJob
      <3>5. job[k].state = "none"
        BY <3>1, <3>2 DEF FreshInv, BeforeQueue
      <3>6. /\ req'[r].pc \in {"oversight", "done"}
            /\ req'[r].pc = "oversight" => Employee \notin req'[r].left
        BY <3>1, AnsweredIs, PaymentAssumption DEF TypeOK, RequestRecords
      <3> QED
        BY <3>2, <3>4, <3>5, <3>6 DEF JobStep, JobQueued
    <2>3. ASSUME NEW m \in Managers, QueueOversight(r, m), ~UNCHANGED job
          PROVE  JobStep(j)
      <3> DEFINE k == <<r, m>>
                 x == [req[r] EXCEPT !.left = req[r].left \ {m}]
      <3>1. /\ req[r].pc = "oversight" /\ m \in req[r].left
            /\ job' = [job EXCEPT ![k] = Queued(NoTask)]
            /\ req' = [req EXCEPT ![r] = IF req[r].left = {m} THEN Answered ELSE x]
        BY <2>3 DEF QueueOversight
      <3>2. k \in Jobs /\ m \in Payees
        BY DEF Jobs, Payees
      <3>4. /\ job'[k].state = "waiting"
            /\ \A i \in Jobs : i # k => job'[i] = job[i]
        BY <3>1, <3>2, QueuedIs, SetJob
      <3>5. job[k].state = "none"
        BY <3>1, <3>2 DEF FreshInv
      <3>6. x.pc = "oversight" /\ x.left = req[r].left \ {m}
        BY <3>1 DEF TypeOK, RequestRecords
      <3>7. req'[r] = Answered \/ req'[r] = x
        BY <3>1 DEF TypeOK
      <3>8. /\ req'[r].pc \in {"oversight", "done"}
            /\ req'[r].pc = "oversight" => m \notin req'[r].left
        BY <3>6, <3>7, AnsweredIs
      <3> QED
        BY <3>2, <3>4, <3>5, <3>8 DEF JobStep, JobQueued
    <2> QED
      BY <1>1, <2>1, <2>2, <2>3
         DEF Handler, ApproveCheck, DeleteTask, ViewCheck, EditCheck,
             ApproveWrite,
             EditWrite, ViewWrite
  <1>2. ASSUME NEW k \in Jobs, Process(k) PROVE JobStep(j)
    <2>0. job[k] \in JobRecords
      BY DEF TypeOK
    <2>1. CASE Take(k)
      <3> DEFINE x == [job[k] EXCEPT !.state = "active", !.pc = "processing"]
      <3>1. /\ x \in JobRecords /\ x.state = "active" /\ x.pc = "processing"
            /\ x.task = job[k].task /\ x.made = job[k].made /\ x.stalls = job[k].stalls
        BY <2>0 DEF JobRecords, JobStates, JobPCs
      <3>2. job' = [job EXCEPT ![k] = x] /\ job[k].state = "waiting"
        BY <2>1 DEF Take
      <3>3. job'[k] = x /\ \A i \in Jobs : i # k => job'[i] = job[i]
        BY <3>1, <3>2, SetJob
      <3> QED
        BY <3>1, <3>2, <3>3 DEF JobStep, JobWaits, SameRun
    <2>2. CASE Acknowledge(k)
      <3> DEFINE x == [job[k] EXCEPT !.state = "completed", !.pc = "idle"]
      <3>1. /\ x \in JobRecords /\ x.state = "completed"
            /\ x.task = job[k].task /\ x.made = job[k].made /\ x.stalls = job[k].stalls
        BY <2>0 DEF JobRecords, JobStates, JobPCs
      <3>2. job' = [job EXCEPT ![k] = x] /\ At(k, "ack")
        BY <2>2 DEF Acknowledge
      <3>3. job'[k] = x /\ \A i \in Jobs : i # k => job'[i] = job[i]
        BY <3>1, <3>2, SetJob
      <3> QED
        BY <3>1, <3>2, <3>3 DEF JobStep, JobWaits, SameRun
    <2>3. CASE /\ Active(k) /\ job[k].pc \in {"markFailed", "failRow"}
               /\ job[k].pc = "markFailed" => ~TaskHere(k) \/ DbError
               /\ AttemptFailed(k)
      BY <2>3, AttemptFailedSets DEF JobStep, JobRerun, Active
    <2>4. ASSUME NEW p \in JobPCs, Active(k), Goto(k, p),
                 \/ job[k].pc = "processing" /\ p = "send" /\ TaskHere(k)
                 \/ job[k].pc \in MayFail /\ p = "markFailed"
                 \/ /\ job[k].pc = "markFailed" /\ p = "failRow"
                    /\ payment'[job[k].task] = "FAILED"
                 \/ job[k].pc = "send" /\ p = "record" /\ chain'[k][RunOf(k)] # "none"
                 \/ /\ job[k].pc = "record" /\ p = "confirm"
                    /\ ~Recorded(job[k].task)
                    /\ ledger'[job[k].task].job = k
                    /\ ledger'[job[k].task].run = RunOf(k)
                 \/ /\ job[k].pc = "confirm" /\ p = "markRow"
                    /\ chain[k][RunOf(k)] = "confirmed"
                 \/ job[k].pc = "markRow" /\ p = "markPaid"
                 \/ /\ job[k].pc = "markPaid" /\ p = "release"
                    /\ payment'[job[k].task] = "PAID"
                 \/ /\ job[k].pc = "release" /\ p = "ack"
                    /\ released'[job[k].task] = released[job[k].task] + 1
          PROVE  JobStep(j)
      <3>1. /\ job'[k].pc = p
            /\ job'[k].state = job[k].state
            /\ SameRun(k)
            /\ \A i \in Jobs : i # k => job'[i] = job[i]
        BY <2>4, GotoSets DEF SameRun
      <3>2. CASE j = k
        BY <2>4, <3>1, <3>2 DEF JobStep, JobMoves, Active
      <3> QED
        BY <3>1, <3>2 DEF JobStep
    <2>5. CASE MarkProcessing(k)
      BY <2>4, <2>5 DEF MarkProcessing, At, Active, JobPCs, MayFail
    <2>6. CASE Send(k)
      <3>1. Active(k) /\ job[k].pc = "send"
        BY <2>6 DEF Send, At, Active
      <3>2. RunOf(k) \in Runs
        BY <3>1, RunInRuns DEF Active, Live
      <3>3. CASE Goto(k, "markFailed")
        BY <2>4, <3>1, <3>3 DEF JobPCs, MayFail
      <3>4. CASE chain' = [chain EXCEPT ![k][RunOf(k)] = "submitted"] /\ Goto(k, "record")
        <4>1. chain'[k][RunOf(k)] = "submitted"
          BY <3>2, <3>4, SetChain DEF ChainStatus
        <4> QED
          BY <2>4, <3>1, <3>4, <4>1 DEF JobPCs
      <3> QED
        BY <2>6, <3>3, <3>4 DEF Send
    <2>7. CASE RecordRow(k)
      <3>1. Active(k) /\ job[k].pc = "record" /\ job[k].task \in Tasks
        BY <2>7 DEF RecordRow, At, Active, JobInv, InTasks
      <3>2. CASE Goto(k, "markFailed")
        BY <2>4, <3>1, <3>2 DEF JobPCs, MayFail
      <3>3. CASE /\ Goto(k, "confirm")
                 /\ ~Recorded(job[k].task)
                 /\ ledger' = [ledger EXCEPT ![job[k].task] =
                      [status |-> "PENDING", job |-> k, run |-> RunOf(k), age |-> 0]]
        <4>1. /\ ledger'[job[k].task].job = k
              /\ ledger'[job[k].task].run = RunOf(k)
          BY <3>1, <3>3 DEF TypeOK
        <4> QED
          BY <2>4, <3>1, <3>3, <4>1 DEF JobPCs
      <3> QED
        BY <2>7, <3>2, <3>3 DEF RecordRow
    <2>8. CASE AwaitConfirmation(k)
      BY <2>4, <2>8 DEF AwaitConfirmation, At, Active, JobPCs, MayFail
    <2>9. CASE MarkRow(k)
      BY <2>4, <2>9 DEF MarkRow, At, Active, JobPCs, MayFail
    <2>10. CASE MarkPaid(k)
      <3>1. Active(k) /\ job[k].pc = "markPaid"
        BY <2>10 DEF MarkPaid, At, Active
      <3>2. CASE Goto(k, "markFailed")
        BY <2>4, <3>1, <3>2 DEF JobPCs, MayFail
      <3>3. CASE /\ Goto(k, "release") /\ TaskHere(k)
                 /\ payment' = [payment EXCEPT ![job[k].task] = "PAID"]
        <4>1. payment'[job[k].task] = "PAID"
          BY <3>3 DEF TypeOK, TaskHere, InTasks
        <4> QED
          BY <2>4, <3>1, <3>3, <4>1 DEF JobPCs
      <3> QED
        BY <2>10, <3>2, <3>3 DEF MarkPaid
    <2>11. CASE Release(k)
      <3>1. Active(k) /\ job[k].pc = "release" /\ job[k].task \in Tasks
        BY <2>11 DEF Release, At, Active, JobInv, InTasks
      <3>2. CASE Goto(k, "markFailed")
        BY <2>4, <3>1, <3>2 DEF JobPCs, MayFail
      <3>3. CASE Goto(k, "ack") /\ released' = [released EXCEPT ![job[k].task] = @ + 1]
        <4>1. released'[job[k].task] = released[job[k].task] + 1
          BY <3>1, <3>3 DEF TypeOK
        <4> QED
          BY <2>4, <3>1, <3>3, <4>1 DEF JobPCs
      <3> QED
        BY <2>11, <3>2, <3>3 DEF Release
    <2>12. CASE MarkFailed(k)
      <3>1. Active(k) /\ job[k].pc = "markFailed"
        BY <2>12 DEF MarkFailed, At, Active
      <3>2. CASE AttemptFailed(k) /\ (~TaskHere(k) \/ DbError)
        BY <2>3, <3>1, <3>2
      <3>3. CASE /\ Goto(k, "failRow") /\ TaskHere(k)
                 /\ payment' = [payment EXCEPT ![job[k].task] = "FAILED"]
        <4>1. payment'[job[k].task] = "FAILED"
          BY <3>3 DEF TypeOK, TaskHere, InTasks
        <4> QED
          BY <2>4, <3>1, <3>3, <4>1 DEF JobPCs
      <3> QED
        BY <2>12, <3>2, <3>3 DEF MarkFailed
    <2>13. CASE FailRow(k)
      BY <2>3, <2>13 DEF FailRow, At, Active
    <2> QED
      BY <1>2, <2>1, <2>2, <2>5, <2>6, <2>7, <2>8, <2>9, <2>10, <2>11, <2>12,
         <2>13 DEF Process
  <1>3. ASSUME NEW k \in Jobs, Retry(k) PROVE JobStep(j)
    <2> DEFINE x == [job[k] EXCEPT !.state = "waiting"]
    <2>1. /\ x \in JobRecords /\ x.state = "waiting"
          /\ x.task = job[k].task /\ x.made = job[k].made /\ x.stalls = job[k].stalls
      BY DEF TypeOK, JobRecords, JobStates
    <2>2. job' = [job EXCEPT ![k] = x] /\ job[k].state = "delayed"
      BY <1>3 DEF Retry
    <2>3. job'[k] = x /\ \A i \in Jobs : i # k => job'[i] = job[i]
      BY <2>1, <2>2, SetJob
    <2> QED
      BY <2>1, <2>2, <2>3 DEF JobStep, JobWaits, SameRun
  <1>4. ASSUME NEW k \in Jobs, StallCheck(k) PROVE JobStep(j)
    <2> DEFINE x == [job[k] EXCEPT !.state = "waiting", !.stalls = job[k].stalls + 1]
               y == [job[k] EXCEPT !.state = "exhausted"]
    <2>1. /\ x.state = "waiting" /\ x.task = job[k].task /\ x.made = job[k].made
          /\ x.stalls = job[k].stalls + 1
          /\ y.state = "exhausted" /\ y.task = job[k].task /\ y.made = job[k].made
          /\ y.stalls = job[k].stalls
      BY DEF TypeOK, JobRecords
    <2>2. job[k].state = "stalled" /\ (job'[k] = x \/ job'[k] = y)
          /\ \A i \in Jobs : i # k => job'[i] = job[i]
      BY <1>4 DEF StallCheck, TypeOK
    <2> HIDE DEF x, y
    <2>3. CASE job'[j] = job[j]
      BY <2>3 DEF JobStep
    <2>4. CASE j = k /\ job'[k] = x
      <3>1. JobRerun(j)
        BY <2>1, <2>2, <2>4 DEF JobRerun
      <3> QED
        BY <3>1 DEF JobStep
    <2>5. CASE j = k /\ job'[k] = y
      <3>1. JobWaits(j)
        BY <2>1, <2>2, <2>5 DEF JobWaits, SameRun
      <3> QED
        BY <3>1 DEF JobStep
    <2> QED
      BY <2>2, <2>3, <2>4, <2>5
  <1>5. CASE Crash
    <2> DEFINE x == [job[j] EXCEPT !.state = "stalled", !.pc = "idle"]
    <2>1. /\ x.state = "stalled" /\ x.task = job[j].task
          /\ x.made = job[j].made /\ x.stalls = job[j].stalls
      BY DEF TypeOK, JobRecords
    <2>2. job'[j] = IF job[j].state = "active" THEN x ELSE job[j]
      BY <1>5 DEF Crash
    <2> QED
      BY <2>1, <2>2 DEF JobStep, JobWaits, SameRun, Active
  <1>6. CASE UNCHANGED job
    BY <1>6 DEF JobStep
  <1> QED
    BY <1>1, <1>2, <1>3, <1>4, <1>5, <1>6
       DEF Next, vars, ChainConfirm, ChainDrop, Monitor, MonitorTick,
           MonitorAnswer, MonitorSkip, MonitorMarkRow, MonitorMarkTask

-----------------------------------------------------------------------------
(* What a step may do to a transfer: send it in its own run, or decide it. *)

ChainStep(j, n) ==
  \/ chain'[j][n] = chain[j][n]
  \/ chain[j][n] = "submitted" /\ chain'[j][n] # "none"
  \/ /\ At(j, "send")
     /\ n = RunOf(j)
     /\ chain'[j][n] # "none"
     /\ SameRun(j)
     /\ job'[j].state = "active"
     /\ job'[j].pc \in {"record", "markFailed"}

LEMMA ChainSteps ==
  ASSUME SafetyInv, [Next]_vars
  PROVE  \A j \in Jobs, n \in Runs : ChainStep(j, n)
  <1> SUFFICES ASSUME NEW j \in Jobs, NEW n \in Runs PROVE ChainStep(j, n)
    OBVIOUS
  <1> USE DEF SafetyInv, Typed
  <1>1. ASSUME NEW k \in Jobs, Send(k) PROVE ChainStep(j, n)
    <2>1. job[k].state = "active" /\ At(k, "send")
      BY <1>1 DEF Send, At
    <2>2. RunOf(k) \in Runs
      BY <2>1, RunInRuns DEF Live
    <2>3. CASE UNCHANGED chain
      BY <2>3 DEF ChainStep
    <2>4. CASE ~UNCHANGED chain
      <3>1. /\ chain' = [chain EXCEPT ![k][RunOf(k)] = "submitted"]
            /\ Goto(k, "record") \/ Goto(k, "markFailed")
        BY <1>1, <2>4 DEF Send
      <3>2. /\ chain'[k][RunOf(k)] = "submitted"
            /\ \A i \in Jobs : i # k => chain'[i] = chain[i]
            /\ \A m \in Runs : m # RunOf(k) => chain'[k][m] = chain[k][m]
        <4>1. TypeOK /\ "submitted" \in ChainStatus
          BY DEF ChainStatus
        <4> QED
          BY <2>2, <3>1, <4>1, SetChain
      <3>3. /\ SameRun(k) /\ job'[k].state = "active"
            /\ job'[k].pc \in {"record", "markFailed"}
        BY <2>1, <3>1, GotoSets DEF SameRun, JobPCs
      <3> QED
        BY <2>1, <3>2, <3>3 DEF ChainStep
    <2> QED
      BY <2>3, <2>4
  <1>2. ASSUME NEW k \in Jobs, NEW m \in Runs, ChainConfirm(k, m) \/ ChainDrop(k, m)
        PROVE  ChainStep(j, n)
    <2>1. PICK v \in {"confirmed", "dropped"} : chain' = [chain EXCEPT ![k][m] = v]
      BY <1>2 DEF ChainConfirm, ChainDrop
    <2>2. chain[k][m] = "submitted"
      BY <1>2 DEF ChainConfirm, ChainDrop
    <2>3. /\ chain'[k][m] = v
          /\ \A i \in Jobs : i # k => chain'[i] = chain[i]
          /\ \A l \in Runs : l # m => chain'[k][l] = chain[k][l]
      <3>1. TypeOK /\ v \in ChainStatus
        BY DEF ChainStatus
      <3> QED
        BY <2>1, <3>1, SetChain
    <2> QED
      BY <2>2, <2>3 DEF ChainStep
  <1>3. CASE UNCHANGED chain
    BY <1>3 DEF ChainStep
  <1> QED
    BY <1>1, <1>2, <1>3
       DEF Next, vars, Handler, ApproveCheck, DeleteTask, ViewCheck, EditCheck,
           ApproveWrite, QueueEmployee, EditWrite, ViewWrite, QueueOversight,
           Process, Take, MarkProcessing, RecordRow, AwaitConfirmation, MarkRow,
           MarkPaid, Release, Acknowledge, MarkFailed, FailRow, Retry,
           StallCheck,
           Monitor, MonitorTick, MonitorAnswer, MonitorSkip,
           MonitorMarkRow, MonitorMarkTask, Crash

-----------------------------------------------------------------------------
(* What a step may do to a ledger row: open it for the run that records    *)
(* its transfer, or decide it; CONFIRMED only if the chain says so.        *)

RowStep(t) ==
  \/ ledger'[t] = ledger[t]
  \/ /\ Recorded(t)
     /\ ledger'[t].status # "NONE"
     /\ ledger'[t].job = ledger[t].job
     /\ ledger'[t].run = ledger[t].run
     /\ ledger'[t].status = "PENDING" => ledger[t].status = "PENDING"
     /\ ledger'[t].status = "CONFIRMED" => Confirmed(t)
  \/ /\ ~Recorded(t)
     /\ ledger'[t].status = "PENDING"
     /\ \E j \in Jobs :
          /\ At(j, "record") /\ job[j].task = t
          /\ ledger'[t].job = j /\ ledger'[t].run = RunOf(j)
          /\ job'[j] = [job[j] EXCEPT !.pc = "confirm"]

LEMMA RowSteps ==
  ASSUME SafetyInv, [Next]_vars
  PROVE  \A t \in Tasks : RowStep(t)
  <1> SUFFICES ASSUME NEW t \in Tasks PROVE RowStep(t)
    OBVIOUS
  <1> USE DEF SafetyInv, Typed
  <1>1. ASSUME NEW u \in Tasks, Recorded(u), NEW v \in {"CONFIRMED", "FAILED"},
               v = "CONFIRMED" => Confirmed(u),
               ledger' = [ledger EXCEPT ![u].status = v]
        PROVE  RowStep(t)
    <2>1. /\ ledger'[u].status = v /\ ledger'[u].job = ledger[u].job
          /\ ledger'[u].run = ledger[u].run
          /\ t # u => ledger'[t] = ledger[t]
      BY <1>1, SetRow DEF RowStatus
    <2> QED
      BY <1>1, <2>1 DEF RowStep
  <1>2. CASE UNCHANGED ledger
    BY <1>2 DEF RowStep
  <1>3. ASSUME NEW r \in Requests, ViewWrite(r) PROVE RowStep(t)
    <2>1. /\ req[r].task \in Tasks /\ Recorded(req[r].task) /\ Confirmed(req[r].task)
          /\ ledger' = [ledger EXCEPT ![req[r].task].status = "CONFIRMED"]
      BY <1>3 DEF ViewWrite, ReqInv, SeenInv
    <2> QED
      BY <1>1, <2>1
  <1>4. ASSUME NEW j \in Jobs, RecordRow(j) PROVE RowStep(t)
    <2> DEFINE u == job[j].task
               row == [status |-> "PENDING", job |-> j, run |-> RunOf(j),
                       age |-> 0]
    <2>1. At(j, "record") /\ u \in Tasks
      BY <1>4 DEF RecordRow, At, JobInv, Active, InTasks
    <2>2. CASE ~Recorded(u) /\ ledger' = [ledger EXCEPT ![u] = row] /\ Goto(j, "confirm")
      <3>1. ledger'[u] = row /\ (t # u => ledger'[t] = ledger[t])
        BY <2>1, <2>2 DEF TypeOK
      <3>2. job'[j] = [job[j] EXCEPT !.pc = "confirm"]
        BY <2>2 DEF Goto, TypeOK
      <3> QED
        BY <2>1, <2>2, <3>1, <3>2 DEF RowStep
    <2> QED
      BY <1>2, <1>4, <2>2 DEF RecordRow
  <1>5. ASSUME NEW j \in Jobs, MarkRow(j), ~UNCHANGED ledger PROVE RowStep(t)
    <2> DEFINE u == job[j].task
    <2>1. /\ u \in Tasks /\ Recorded(u) /\ Active(j) /\ job[j].pc = "markRow"
          /\ ledger' = [ledger EXCEPT ![u].status = "CONFIRMED"]
      BY <1>5 DEF MarkRow, At, JobInv, Active, InTasks, HasRow
    <2>2. Confirmed(u)
      BY <2>1 DEF WorkerInv, HasRow, Landed, Confirmed
    <2> QED
      BY <1>1, <2>1, <2>2
  <1>6. ASSUME NEW j \in Jobs, FailRow(j), ~UNCHANGED ledger PROVE RowStep(t)
    <2> DEFINE u == job[j].task
    <2>1. /\ u \in Tasks /\ Recorded(u)
          /\ ledger' = [ledger EXCEPT ![u].status = "FAILED"]
      BY <1>6 DEF FailRow, At, JobInv, Active, InTasks
    <2> QED
      BY <1>1, <2>1
  <1>7. ASSUME NEW u \in Tasks, Recorded(u), PassOver(u) PROVE RowStep(t)
    <2>1. /\ ledger'[u].status = ledger[u].status
          /\ ledger'[u].job = ledger[u].job /\ ledger'[u].run = ledger[u].run
          /\ t # u => ledger'[t] = ledger[t]
      BY <1>7, SetAge
    <2>2. ledger[u].status = "CONFIRMED" => Confirmed(u)
      BY <1>7 DEF LedgerMatchesChain
    <2> QED
      BY <1>7, <2>1, <2>2 DEF RowStep, Recorded
  <1>8. CASE MonitorMarkRow
    <2> DEFINE v == IF mon.pc = "confirm" THEN "CONFIRMED" ELSE "FAILED"
    <2>1. /\ mon.task \in Tasks /\ Recorded(mon.task)
          /\ v = "CONFIRMED" => Confirmed(mon.task)
          /\ \/ ledger' = [ledger EXCEPT ![mon.task].status = v]
             \/ PassOver(mon.task)
      BY <1>8 DEF MonitorMarkRow, MonInv, SeenInv
    <2> QED
      BY <1>1, <1>7, <2>1
  <1>9. ASSUME NEW u \in Tasks, MonitorSkip(u) PROVE RowStep(t)
    <2>1. Recorded(u) /\ PassOver(u)
      BY <1>9 DEF MonitorSkip, MonInv
    <2> QED
      BY <1>7, <2>1
  <1> QED
    BY <1>2, <1>3, <1>4, <1>5, <1>6, <1>8, <1>9
       DEF Next, vars, Handler, ApproveCheck, DeleteTask, ViewCheck, EditCheck,
           ApproveWrite, QueueEmployee, EditWrite, QueueOversight,
           Process, Take, MarkProcessing, Send, AwaitConfirmation,
           MarkPaid, Release, Acknowledge, MarkFailed, Retry, StallCheck,
           ChainConfirm, ChainDrop, Monitor, MonitorTick, MonitorAnswer,
           MonitorMarkTask, Crash

-----------------------------------------------------------------------------
(* Nobody writes PAID without a confirmation in hand; a worker that begins *)
(* a run writes PROCESSING, one that ends it increases releasedFunds.      *)

PaymentStep(t) ==
  /\ payment'[t] = "PAID" => payment[t] = "PAID" \/ Confirmed(t)
  /\ payment'[t] = "PROCESSING" =>
       \/ payment[t] = "PROCESSING"
       \/ \E j \in Jobs : /\ job[j].task = t
                         /\ job'[j] = [job[j] EXCEPT !.pc = "send"]
                         /\ Active(j)

ReleasedStep(t) ==
  \/ released'[t] = released[t]
  \/ /\ released'[t] = released[t] + 1
     /\ \E j \in Jobs : /\ At(j, "release")
                       /\ job[j].task = t
                       /\ job'[j] = [job[j] EXCEPT !.pc = "ack"]

LEMMA PaymentSteps ==
  ASSUME SafetyInv, [Next]_vars
  PROVE  \A t \in Tasks : PaymentStep(t)
  <1> SUFFICES ASSUME NEW t \in Tasks PROVE PaymentStep(t)
    OBVIOUS
  <1> USE DEF SafetyInv, Typed
  <1>1. CASE UNCHANGED payment
    BY <1>1 DEF PaymentStep
  <1>2. ASSUME NEW r \in Requests, EditWrite(r) PROVE PaymentStep(t)
    BY <1>2 DEF EditWrite, ReqInv, TypeOK, PaymentStep
  <1>3. ASSUME NEW j \in Jobs, MarkProcessing(j) PROVE PaymentStep(t)
    <2>1. CASE UNCHANGED payment
      BY <1>1, <2>1
    <2>2. CASE ~UNCHANGED payment
      <3>1. /\ job[j].task \in Tasks /\ Active(j)
            /\ payment' = [payment EXCEPT ![job[j].task] = "PROCESSING"]
            /\ job' = [job EXCEPT ![j] = [job[j] EXCEPT !.pc = "send"]]
        BY <1>3, <2>2 DEF MarkProcessing, At, Active, TaskHere, InTasks, Goto
      <3>2. job'[j] = [job[j] EXCEPT !.pc = "send"]
        BY <3>1 DEF TypeOK
      <3> QED
        BY <3>1, <3>2 DEF PaymentStep, TypeOK
    <2> QED
      BY <2>1, <2>2
  <1>4. ASSUME NEW j \in Jobs, MarkFailed(j) PROVE PaymentStep(t)
    BY <1>4 DEF MarkFailed, TypeOK, PaymentStep
  <1>5. ASSUME NEW j \in Jobs, MarkPaid(j), ~UNCHANGED payment PROVE PaymentStep(t)
    <2> DEFINE u == job[j].task
    <2>1. /\ Active(j) /\ job[j].pc = "markPaid" /\ u \in Tasks
          /\ payment' = [payment EXCEPT ![u] = "PAID"]
      BY <1>5 DEF MarkPaid, At, Active, TaskHere, InTasks
    <2>2. Confirmed(u)
      BY <2>1 DEF JobInv, WorkerInv, HasRow, Landed, Confirmed
    <2> QED
      BY <2>1, <2>2 DEF PaymentStep, TypeOK
  <1>6. CASE MonitorMarkTask
    <2>1. \/ UNCHANGED payment
          \/ payment' = [payment EXCEPT ![mon.task] =
                           IF mon.pc = "paid" THEN "PAID" ELSE "FAILED"]
      BY <1>6 DEF MonitorMarkTask
    <2>2. mon.task \in Tasks /\ (mon.pc = "paid" => Confirmed(mon.task))
      BY <1>6 DEF MonitorMarkTask, MonInv, SeenInv
    <2> QED
      BY <2>1, <2>2 DEF PaymentStep, TypeOK
  <1> QED
    BY <1>1, <1>2, <1>3, <1>4, <1>5, <1>6
       DEF Next, vars, Handler, ApproveCheck, DeleteTask, ViewCheck, EditCheck,
           ApproveWrite, QueueEmployee, QueueOversight, ViewWrite,
           Process, Take, Send, RecordRow, AwaitConfirmation, MarkRow, Release,
           Acknowledge, FailRow, Retry, StallCheck, ChainConfirm, ChainDrop,
           Monitor, MonitorTick, MonitorAnswer, MonitorSkip, MonitorMarkRow,
           Crash

LEMMA ReleasedSteps ==
  ASSUME SafetyInv, [Next]_vars
  PROVE  \A t \in Tasks : ReleasedStep(t)
  <1> SUFFICES ASSUME NEW t \in Tasks PROVE ReleasedStep(t)
    OBVIOUS
  <1> USE DEF SafetyInv, Typed
  <1>1. CASE UNCHANGED released
    BY <1>1 DEF ReleasedStep
  <1>2. ASSUME NEW j \in Jobs, Release(j), ~UNCHANGED released
        PROVE  ReleasedStep(t)
    <2> DEFINE u == job[j].task
    <2>1. /\ At(j, "release") /\ u \in Tasks /\ Goto(j, "ack")
          /\ released' = [released EXCEPT ![u] = @ + 1]
      BY <1>2 DEF Release, At, JobInv, Active, InTasks
    <2>2. /\ released'[u] = released[u] + 1
          /\ t # u => released'[t] = released[t]
      BY <2>1 DEF TypeOK
    <2>3. job'[j] = [job[j] EXCEPT !.pc = "ack"]
      BY <2>1 DEF Goto, TypeOK
    <2> QED
      BY <2>1, <2>2, <2>3 DEF ReleasedStep
  <1> QED
    BY <1>1, <1>2
       DEF Next, vars, Handler, ApproveCheck, DeleteTask, ViewCheck, EditCheck,
           ApproveWrite, QueueEmployee, QueueOversight, EditWrite, ViewWrite,
           Process, Take, MarkProcessing, Send, RecordRow, AwaitConfirmation,
           MarkRow, MarkPaid, Acknowledge, MarkFailed, FailRow, Retry,
           StallCheck,
           ChainConfirm, ChainDrop, Monitor, MonitorTick, MonitorAnswer,
           MonitorSkip, MonitorMarkRow, MonitorMarkTask, Crash

-----------------------------------------------------------------------------
(* What a step may do to the answers that requests and the monitor hold.   *)

RequestStep(r) ==
  \/ req'[r] = req[r]
  \/ req'[r].pc = "done"
  \/ req[r].pc \in BeforeQueue /\ req'[r].pc \in {"plain", "approve", "edit", "queue"}
  \/ /\ req[r].pc = "idle" /\ req'[r].pc = "confirmRow"
     /\ req'[r].task \in Tasks /\ Confirmed(req'[r].task)
  \/ req[r].pc = "queue" /\ req'[r].pc = "oversight" /\ req'[r].left = Managers
  \/ /\ req[r].pc = "oversight" /\ req'[r].pc = "oversight"
     /\ req'[r].left \subseteq req[r].left

MonitorStep ==
  mon'.pc \in {"confirm", "paid"} =>
    \/ mon'.task = mon.task /\ mon.pc \in {"confirm", "paid"}
    \/ Recorded(mon'.task) /\ Confirmed(mon'.task)

LEMMA RequestSteps ==
  ASSUME SafetyInv, [Next]_vars
  PROVE  \A r \in Requests : RequestStep(r)
  <1> SUFFICES ASSUME NEW r \in Requests PROVE RequestStep(r)
    OBVIOUS
  <1> USE DEF SafetyInv, Typed
  <1>1. CASE UNCHANGED req
    BY <1>1 DEF RequestStep
  <1>2. ASSUME NEW q \in Requests, NEW x \in RequestRecords,
               req' = [req EXCEPT ![q] = x],
               \/ x.pc = "done"
               \/ req[q].pc \in BeforeQueue /\ x.pc \in {"plain", "approve", "edit", "queue"}
               \/ /\ req[q].pc = "idle" /\ x.pc = "confirmRow"
                  /\ x.task \in Tasks /\ Confirmed(x.task)
               \/ req[q].pc = "queue" /\ x.pc = "oversight" /\ x.left = Managers
               \/ /\ req[q].pc = "oversight" /\ x.pc = "oversight"
                  /\ x.left \subseteq req[q].left
        PROVE  RequestStep(r)
    <2>1. req'[q] = x /\ (r # q => req'[r] = req[r])
      BY <1>2 DEF TypeOK
    <2> QED
      BY <1>2, <2>1 DEF RequestStep
  <1>3. ASSUME NEW q \in Requests, req' = [req EXCEPT ![q] = Answered]
        PROVE  RequestStep(r)
    BY <1>2, <1>3, AnsweredIs
  <1>4. ASSUME NEW q \in Requests, Handler(q) PROVE RequestStep(r)
    <2>1. ASSUME NEW t \in Tasks, ApproveCheck(q, t) PROVE RequestStep(r)
      <3>1. PICK pc \in {"plain", "approve"} : req' = [req EXCEPT ![q] = Awaiting(pc, t)]
        BY <2>1 DEF ApproveCheck
      <3>2. Awaiting(pc, t) \in RequestRecords /\ Awaiting(pc, t).pc = pc
        BY AwaitingIs DEF RequestPCs
      <3>3. req[q].pc \in BeforeQueue
        BY <2>1 DEF ApproveCheck, BeforeQueue
      <3> QED
        BY <1>2, <3>1, <3>2, <3>3
    <2>2. ASSUME NEW t \in Tasks, DeleteTask(q, t) PROVE RequestStep(r)
      BY <1>3, <2>2 DEF DeleteTask
    <2>3. ASSUME NEW t \in Tasks, ViewCheck(q, t) PROVE RequestStep(r)
      <3>1. /\ Awaiting("confirmRow", t) \in RequestRecords
            /\ Awaiting("confirmRow", t).pc = "confirmRow"
            /\ Awaiting("confirmRow", t).task = t
        BY AwaitingIs DEF RequestPCs
      <3> QED
        BY <1>2, <2>3, <3>1 DEF ViewCheck
    <2>4. ASSUME NEW t \in Tasks, NEW e \in Edits, EditCheck(q, t, e)
          PROVE  RequestStep(r)
      <3> DEFINE x == [Awaiting("edit", t) EXCEPT !.edit = e]
      <3>1. x \in RequestRecords /\ x.pc = "edit"
        BY AwaitingIs DEF RequestRecords, RequestPCs
      <3>2. req' = [req EXCEPT ![q] = x] /\ req[q].pc \in BeforeQueue
        BY <2>4 DEF EditCheck, BeforeQueue
      <3> QED
        BY <1>2, <3>1, <3>2
    <2>5. CASE ApproveWrite(q)
      <3> DEFINE x == [req[q] EXCEPT !.pc = "queue"]
      <3>1. x \in RequestRecords /\ x.pc = "queue"
        BY DEF TypeOK, RequestRecords, RequestPCs
      <3>2. /\ req' = [req EXCEPT ![q] = x] \/ req' = [req EXCEPT ![q] = Answered]
            /\ req[q].pc \in BeforeQueue
        BY <2>5 DEF ApproveWrite, BeforeQueue
      <3> QED
        BY <1>2, <1>3, <3>1, <3>2
    <2>6. CASE QueueEmployee(q)
      <3> DEFINE x == [req[q] EXCEPT !.pc = "oversight", !.left = Managers]
      <3>1. req[q] \in RequestRecords
        BY DEF TypeOK
      <3>2. x \in RequestRecords /\ x.pc = "oversight" /\ x.left = Managers
        BY <3>1 DEF RequestRecords, RequestPCs
      <3>3. /\ req' = [req EXCEPT ![q] = x] \/ req' = [req EXCEPT ![q] = Answered]
            /\ req[q].pc = "queue"
        BY <2>6 DEF QueueEmployee
      <3> QED
        BY <1>2, <1>3, <3>2, <3>3
    <2>7. CASE EditWrite(q)
      BY <1>3, <2>7 DEF EditWrite
    <2>8. CASE ViewWrite(q)
      BY <1>3, <2>8 DEF ViewWrite
    <2>9. ASSUME NEW m \in Managers, QueueOversight(q, m) PROVE RequestStep(r)
      <3> DEFINE x == [req[q] EXCEPT !.left = req[q].left \ {m}]
      <3>1. req[q] \in RequestRecords /\ req[q].pc = "oversight"
        BY <2>9 DEF QueueOversight, TypeOK
      <3>2. /\ x \in RequestRecords /\ x.pc = "oversight"
            /\ x.left \subseteq req[q].left
        BY <3>1 DEF RequestRecords, RequestPCs
      <3>3. req' = [req EXCEPT ![q] = x] \/ req' = [req EXCEPT ![q] = Answered]
        BY <2>9 DEF QueueOversight
      <3> QED
        BY <1>2, <1>3, <3>1, <3>2, <3>3
    <2> QED
      BY <1>4, <2>1, <2>2, <2>3, <2>4, <2>5, <2>6, <2>7, <2>8, <2>9 DEF Handler
  <1>5. CASE Crash
    <2>1. req'[r] = IF req[r].pc = "idle" THEN req[r] ELSE Answered
      BY <1>5 DEF Crash
    <2> QED
      BY <2>1, AnsweredIs DEF RequestStep
  <1> QED
    BY <1>1, <1>4, <1>5
       DEF Next, vars, Process, Take, MarkProcessing, Send, RecordRow,
           AwaitConfirmation, MarkRow, MarkPaid, Release, Acknowledge,
           MarkFailed,
           FailRow, Retry, StallCheck, ChainConfirm, ChainDrop, Monitor,
           MonitorTick, MonitorAnswer, MonitorSkip, MonitorMarkRow,
           MonitorMarkTask

LEMMA MonitorSteps ==
  ASSUME SafetyInv, [Next]_vars
  PROVE  MonitorStep
  <1> USE DEF SafetyInv, Typed
  <1>1. CASE UNCHANGED mon
    BY <1>1 DEF MonitorStep
  <1>2. CASE MonitorTick
    BY <1>2 DEF MonitorTick, MonitorStep
  <1>3. ASSUME NEW t \in Tasks, MonitorAnswer(t) PROVE MonitorStep
    <2>1. Recorded(t)
      BY <1>3 DEF MonitorAnswer, MonInv
    <2> QED
      BY <1>3, <2>1 DEF MonitorAnswer, MonitorStep, Confirmed
  <1>4. ASSUME NEW t \in Tasks, MonitorSkip(t) PROVE MonitorStep
    BY <1>4 DEF MonitorSkip, MonitorStep, AfterRow, IdleMonitor
  <1>5. CASE MonitorMarkRow
    BY <1>5 DEF MonitorMarkRow, MonitorStep, AfterRow, IdleMonitor, TypeOK
  <1>6. CASE MonitorMarkTask
    BY <1>6 DEF MonitorMarkTask, MonitorStep, AfterRow, IdleMonitor
  <1>7. CASE Crash
    BY <1>7 DEF Crash, MonitorStep, IdleMonitor
  <1> QED
    BY <1>1, <1>2, <1>3, <1>4, <1>5, <1>6, <1>7
       DEF Next, vars, Handler, ApproveCheck, DeleteTask, ViewCheck, EditCheck,
           ApproveWrite, QueueEmployee, QueueOversight, EditWrite, ViewWrite,
           Process, Take, MarkProcessing, Send, RecordRow, AwaitConfirmation,
           MarkRow, MarkPaid, Release, Acknowledge, MarkFailed, FailRow, Retry,
           StallCheck, ChainConfirm, ChainDrop, Monitor

-----------------------------------------------------------------------------
(* What no step takes back: a queued job and its task, a sent transfer, a  *)
(* confirmation, and the transfer a row names.                             *)

Kept ==
  /\ \A j \in Jobs : job[j].state # "none" =>
       job'[j].state # "none" /\ job'[j].task = job[j].task
  /\ \A j \in Jobs, n \in Runs :
       /\ chain[j][n] # "none" => chain'[j][n] # "none"
       /\ chain[j][n] = "confirmed" => chain'[j][n] = "confirmed"
  /\ \A t \in Tasks : Recorded(t) =>
       /\ ledger'[t].status # "NONE"
       /\ ledger'[t].job = ledger[t].job
       /\ ledger'[t].run = ledger[t].run

LEMMA StepsKeep ==
  ASSUME SafetyInv, [Next]_vars
  PROVE  Kept
  <1>1. ASSUME NEW j \in Jobs, job[j].state # "none"
        PROVE  job'[j].state # "none" /\ job'[j].task = job[j].task
    <2>1. JobStep(j)
      BY JobSteps
    <2> QED
      BY <1>1, <2>1
         DEF JobStep, JobQueued, JobWaits, JobRerun, JobMoves, SameRun, Active
  <1>2. ASSUME NEW j \in Jobs, NEW n \in Runs
        PROVE  /\ chain[j][n] # "none" => chain'[j][n] # "none"
               /\ chain[j][n] = "confirmed" => chain'[j][n] = "confirmed"
    <2>1. ChainStep(j, n)
      BY ChainSteps
    <2>2. At(j, "send") /\ n = RunOf(j) => chain[j][n] = "none"
      BY DEF SafetyInv, ChainInv, At, Active, AfterSend
    <2> QED
      BY <2>1, <2>2 DEF ChainStep
  <1>3. ASSUME NEW t \in Tasks, Recorded(t)
        PROVE  /\ ledger'[t].status # "NONE"
               /\ ledger'[t].job = ledger[t].job
               /\ ledger'[t].run = ledger[t].run
    <2>1. RowStep(t)
      BY RowSteps
    <2> QED
      BY <1>3, <2>1 DEF RowStep, Recorded
  <1> QED
    BY <1>1, <1>2, <1>3 DEF Kept

LEMMA RowsNameTransfers ==
  ASSUME TypeOK, NEW t \in Tasks, Recorded(t)
  PROVE  ledger[t] \in Rows /\ ledger[t].job \in Jobs /\ ledger[t].run \in Runs
  BY DEF TypeOK, Recorded, NoRow, Rows

LEMMA ConfirmedStays ==
  ASSUME TypeOK, Kept, NEW t \in Tasks, Recorded(t), Confirmed(t)
  PROVE  Recorded(t)' /\ Confirmed(t)'
  <1>1. ledger[t].job \in Jobs /\ ledger[t].run \in Runs
    BY RowsNameTransfers
  <1> QED
    BY <1>1 DEF Kept, Recorded, Confirmed

-----------------------------------------------------------------------------
(* Each conjunct of SafetyInv is kept.                                     *)

LEMMA FreshKept ==
  ASSUME SafetyInv, [Next]_vars
  PROVE  FreshInv'
  <1> SUFFICES ASSUME NEW r \in Requests
               PROVE  /\ req'[r].pc \in BeforeQueue =>
                           \A p \in Payees : job'[<<r, p>>].state = "none"
                      /\ req'[r].pc = "oversight" =>
                           \A m \in req'[r].left : job'[<<r, m>>].state = "none"
    BY DEF FreshInv
  <1>1. RequestStep(r)
    BY RequestSteps
  <1>2. ASSUME NEW p \in Payees, job[<<r, p>>].state = "none",
               req'[r].pc \in BeforeQueue \/ (req'[r].pc = "oversight" /\ p \in req'[r].left)
        PROVE  job'[<<r, p>>].state = "none"
    <2>1. <<r, p>> \in Jobs
      BY JobsArePairs
    <2>2. JobStep(<<r, p>>)
      BY <2>1, JobSteps
    <2>3. ~JobQueued(<<r, p>>)
      BY <1>2 DEF JobQueued, BeforeQueue
    <2> QED
      BY <1>2, <2>2, <2>3 DEF JobStep, JobWaits, JobRerun, JobMoves, Active, At
  <1>3. req[r].left \subseteq Managers /\ Managers \subseteq Payees
    BY DEF SafetyInv, Typed, TypeOK, RequestRecords, Payees
  <1>4. ASSUME req'[r].pc \in BeforeQueue, NEW p \in Payees
        PROVE  job'[<<r, p>>].state = "none"
    <2>1. req[r].pc \in BeforeQueue
      BY <1>1, <1>4 DEF RequestStep, BeforeQueue
    <2>2. job[<<r, p>>].state = "none"
      BY <2>1 DEF SafetyInv, FreshInv
    <2> QED
      BY <1>2, <1>4, <2>2
  <1>5. ASSUME req'[r].pc = "oversight", NEW m \in req'[r].left
        PROVE  job'[<<r, m>>].state = "none"
    <2>1. \/ req[r].pc = "queue" /\ m \in Managers
          \/ req[r].pc = "oversight" /\ m \in req[r].left
      BY <1>1, <1>5 DEF RequestStep, BeforeQueue
    <2>2. m \in Payees /\ job[<<r, m>>].state = "none"
      BY <1>3, <2>1 DEF SafetyInv, FreshInv, BeforeQueue
    <2> QED
      BY <1>2, <1>5, <2>2
  <1> QED
    BY <1>4, <1>5

LEMMA ChainKept ==
  ASSUME SafetyInv, [Next]_vars
  PROVE  ChainInv'
  <1> SUFFICES ASSUME NEW j \in Jobs, NEW n \in Runs, chain'[j][n] # "none"
               PROVE  /\ job'[j].state # "none"
                      /\ n <= RunOf(j)'
                      /\ n = RunOf(j)' =>
                           \/ job'[j].state \in {"stalled", "exhausted", "completed"}
                           \/ job'[j].state = "active" /\ job'[j].pc \in AfterSend
    BY DEF ChainInv, Active
  <1>1. ChainStep(j, n) /\ JobStep(j)
    BY ChainSteps, JobSteps
  <1>2. /\ n \in Nat /\ RunOf(j) \in Nat
        /\ job[j].made \in Nat /\ job[j].stalls \in Nat
    BY PaymentAssumption DEF SafetyInv, Typed, TypeOK, JobRecords, Runs, RunOf
  <1>3. CASE chain[j][n] = "none"
    <2>1. /\ At(j, "send") /\ n = RunOf(j) /\ SameRun(j)
          /\ job'[j].state = "active" /\ job'[j].pc \in {"record", "markFailed"}
      BY <1>1, <1>3 DEF ChainStep
    <2> QED
      BY <1>2, <2>1 DEF RunOf, SameRun, AfterSend
  <1>4. CASE chain[j][n] # "none"
    <2>1. /\ job[j].state # "none"
          /\ n <= RunOf(j)
          /\ n = RunOf(j) =>
               \/ job[j].state \in {"stalled", "exhausted", "completed"}
               \/ job[j].state = "active" /\ job[j].pc \in AfterSend
      BY <1>4 DEF SafetyInv, ChainInv, Active
    <2>2. CASE job'[j] = job[j]
      BY <2>1, <2>2 DEF RunOf
    <2>3. CASE JobWaits(j)
      BY <2>1, <2>3 DEF JobWaits, SameRun, RunOf, Active, At
    <2>4. CASE JobRerun(j)
      BY <1>2, <2>1, <2>4 DEF JobRerun, RunOf, Active
    <2>5. CASE JobMoves(j)
      BY <2>1, <2>5 DEF JobMoves, SameRun, RunOf, Active, AfterSend
    <2> QED
      BY <1>1, <2>1, <2>2, <2>3, <2>4, <2>5 DEF JobStep, JobQueued
  <1> QED
    BY <1>3, <1>4

(* Only the row's own job releases, so elsewhere the count stands still.   *)
LEMMA ReleasedStands ==
  ASSUME SafetyInv, [Next]_vars, NEW t \in Tasks, ~At(ledger[t].job, "release")
  PROVE  released'[t] = released[t]
  <1>1. ASSUME NEW k \in Jobs, At(k, "release"), job[k].task = t
        PROVE  FALSE
    <2>1. ledger[t].job = k
      BY <1>1 DEF SafetyInv, WorkerInv, At, Active, HasRow
    <2> QED
      BY <1>1, <2>1
  <1> QED
    BY <1>1, ReleasedSteps DEF ReleasedStep

LEMMA WorkerKept ==
  ASSUME SafetyInv, [Next]_vars
  PROVE  WorkerInv'
  <1> SUFFICES ASSUME NEW j \in Jobs, job'[j].state = "active"
               PROVE  /\ job'[j].pc = "record" => chain'[j][RunOf(j)'] # "none"
                      /\ job'[j].pc \in HasRow =>
                           /\ ledger'[job'[j].task].job = j
                           /\ ledger'[job'[j].task].run = RunOf(j)'
                      /\ job'[j].pc \in Landed => chain'[j][RunOf(j)'] = "confirmed"
                      /\ job'[j].pc = "ack" => released'[job'[j].task] = 1
    BY DEF WorkerInv, Active
  <1>1. JobStep(j) /\ Kept
    BY JobSteps, StepsKeep
  <1>2. CASE ~Active(j)
    <2>1. job'[j].pc = "processing"
      BY <1>1, <1>2 DEF JobStep, JobQueued, JobWaits, JobRerun, JobMoves, Active
    <2> QED
      BY <2>1 DEF HasRow, Landed
  <1>3. CASE Active(j)
    <2> DEFINE t == job[j].task
    <2>1. RunOf(j) \in Runs
      BY <1>3, RunInRuns DEF SafetyInv, Typed, Active, Live
    <2>2. SameRun(j) /\ (job'[j] = job[j] \/ JobMoves(j))
      BY <1>1, <1>3
         DEF JobStep, JobQueued, JobWaits, JobRerun, JobMoves, SameRun, Active,
             At
    <2>3. RunOf(j)' = RunOf(j) /\ job'[j].task = t
      BY <2>2 DEF SameRun, RunOf
    <2>4. job[j].pc \in HasRow => t \in Tasks /\ Recorded(t)
      BY <1>3 DEF SafetyInv, Typed, JobInv, HasRow, InTasks
    <2>5. /\ job[j].pc = "record" => chain[j][RunOf(j)] # "none"
          /\ job[j].pc \in HasRow => ledger[t].job = j /\ ledger[t].run = RunOf(j)
          /\ job[j].pc \in Landed => chain[j][RunOf(j)] = "confirmed"
          /\ job[j].pc = "ack" => released[t] = 1
      BY <1>3 DEF SafetyInv, WorkerInv
    <2>6. job'[j].pc = "record" => chain'[j][RunOf(j)] # "none"
      BY <1>1, <2>1, <2>2, <2>5 DEF JobMoves, Kept
    <2>7. job'[j].pc \in HasRow => ledger'[t].job = j /\ ledger'[t].run = RunOf(j)
      BY <1>1, <2>2, <2>4, <2>5 DEF JobMoves, Kept, HasRow
    <2>8. job'[j].pc \in Landed => chain'[j][RunOf(j)] = "confirmed"
      BY <1>1, <2>1, <2>2, <2>5 DEF JobMoves, Kept, Landed
    <2>9. job'[j].pc = "ack" => released'[t] = 1
      <3>1. CASE job'[j] = job[j] /\ job[j].pc = "ack"
        <4>1. t \in Tasks
          BY <2>4, <3>1 DEF HasRow
        <4>2. ledger[t].job = j /\ released[t] = 1 /\ ~At(j, "release")
          BY <2>5, <3>1 DEF HasRow, At
        <4> QED
          BY <4>1, <4>2, ReleasedStands
      <3>2. CASE job[j].pc = "release" /\ released'[t] = released[t] + 1
        <4>1. t \in Tasks /\ ledger[t].job = j
          BY <2>4, <2>5, <3>2 DEF HasRow
        <4>2. released[t] \in Nat /\ ~(released[t] > 0)
          BY <1>3, <3>2, <4>1
             DEF SafetyInv, Typed, TypeOK, ReleasedInv, HasRow
        <4> QED
          BY <3>2, <4>2
      <3> QED
        BY <2>2, <3>1, <3>2 DEF JobMoves
    <2> QED
      BY <2>3, <2>6, <2>7, <2>8, <2>9
  <1> QED
    BY <1>2, <1>3

LEMMA SeenKept ==
  ASSUME SafetyInv, [Next]_vars
  PROVE  SeenInv'
  <1>1. Kept /\ Typed /\ Typed'
    BY StepsKeep, TypedNext DEF SafetyInv
  <1>2. ASSUME mon'.pc \in {"confirm", "paid"}
        PROVE  Confirmed(mon.task)'
    <2>1. mon'.task \in Tasks
      BY <1>1, <1>2 DEF Typed, MonInv
    <2>2. Recorded(mon'.task) /\ Confirmed(mon'.task)
      BY <1>2, MonitorSteps DEF MonitorStep, SafetyInv, Typed, SeenInv, MonInv
    <2>3. /\ ledger'[mon'.task].status # "NONE"
          /\ chain'[ledger'[mon'.task].job][ledger'[mon'.task].run] = "confirmed"
      BY <1>1, <2>1, <2>2, RowsNameTransfers DEF Typed, Kept, Confirmed
    <2> QED
      BY <2>3 DEF Confirmed, Recorded
  <1>3. ASSUME NEW r \in Requests, req'[r].pc = "confirmRow"
        PROVE  Confirmed(req[r].task)'
    <2>1. RequestStep(r)
      BY RequestSteps
    <2>2. req'[r].task \in Tasks /\ Recorded(req'[r].task) /\ Confirmed(req'[r].task)
      BY <1>3, <2>1
         DEF RequestStep, SafetyInv, Typed, SeenInv, ReqInv, Confirmed
    <2>3. /\ ledger'[req'[r].task].status # "NONE"
          /\ chain'[ledger'[req'[r].task].job][ledger'[req'[r].task].run] = "confirmed"
      BY <1>1, <2>2, RowsNameTransfers DEF Typed, Kept, Confirmed
    <2> QED
      BY <2>3 DEF Confirmed, Recorded
  <1> QED
    BY <1>2, <1>3 DEF SeenInv

LEMMA RowsKeptSound ==
  ASSUME SafetyInv, [Next]_vars
  PROVE  RowInv' /\ LedgerMatchesChain'
  <1> SUFFICES ASSUME NEW t \in Tasks, ledger'[t].status # "NONE"
               PROVE  /\ job'[ledger'[t].job].state # "none"
                      /\ job'[ledger'[t].job].task = t
                      /\ chain'[ledger'[t].job][ledger'[t].run] # "none"
                      /\ ledger'[t].status = "CONFIRMED" =>
                           chain'[ledger'[t].job][ledger'[t].run] = "confirmed"
    BY DEF RowInv, LedgerMatchesChain, Recorded, Confirmed
  <1>1. Kept /\ TypeOK /\ RowStep(t)
    BY StepsKeep, RowSteps DEF SafetyInv, Typed
  <1>2. CASE Recorded(t)
    <2>1. ledger[t].job \in Jobs /\ ledger[t].run \in Runs
      BY <1>1, <1>2, RowsNameTransfers
    <2>2. /\ job[ledger[t].job].state # "none"
          /\ job[ledger[t].job].task = t
          /\ chain[ledger[t].job][ledger[t].run] # "none"
          /\ ledger[t].status = "CONFIRMED" => Confirmed(t)
      BY <1>2 DEF SafetyInv, RowInv, LedgerMatchesChain
    <2>3. ledger'[t].job = ledger[t].job /\ ledger'[t].run = ledger[t].run
      BY <1>1, <1>2 DEF Kept
    <2>4. ledger'[t].status = "CONFIRMED" => Confirmed(t)
      BY <1>1, <1>2, <2>2 DEF RowStep
    <2> QED
      BY <1>1, <2>1, <2>2, <2>3, <2>4 DEF Kept, Confirmed
  <1>3. CASE ~Recorded(t)
    <2>1. PICK j \in Jobs :
            /\ At(j, "record") /\ job[j].task = t
            /\ ledger'[t].job = j /\ ledger'[t].run = RunOf(j)
      BY <1>1, <1>3 DEF RowStep, Recorded
    <2>2. ledger'[t].status = "PENDING"
      BY <1>1, <1>3 DEF RowStep, Recorded
    <2>3. RunOf(j) \in Runs /\ chain[j][RunOf(j)] # "none"
      BY <2>1, RunInRuns DEF SafetyInv, Typed, WorkerInv, At, Active, Live
    <2> QED
      BY <1>1, <2>1, <2>2, <2>3 DEF Kept, At
  <1> QED
    BY <1>2, <1>3

LEMMA PaidKept ==
  ASSUME SafetyInv, [Next]_vars
  PROVE  PaidHasEvidence'
  <1>1. Kept /\ TypeOK
    BY StepsKeep DEF SafetyInv, Typed
  <1>2. ASSUME NEW t \in Tasks, payment'[t] = "PAID"
        PROVE  Confirmed(t)'
    <2>1. PaymentStep(t)
      BY PaymentSteps
    <2>2. Confirmed(t)
      BY <1>2, <2>1 DEF PaymentStep, SafetyInv, PaidHasEvidence
    <2> QED
      BY <1>1, <2>2, ConfirmedStays DEF Confirmed
  <1> QED
    BY <1>2 DEF PaidHasEvidence

LEMMA ReleasedKept ==
  ASSUME SafetyInv, [Next]_vars
  PROVE  ReleasedAtMostOnce' /\ ReleasedInv'
  <1> SUFFICES ASSUME NEW t \in Tasks, released'[t] > 0
               PROVE  /\ released'[t] = 1 /\ Confirmed(t)'
                      /\ ~ (/\ job'[ledger'[t].job].state = "active"
                            /\ job'[ledger'[t].job].pc \in HasRow \ {"ack"})
    BY DEF ReleasedAtMostOnce, ReleasedInv, Active
  <1>1. Kept /\ TypeOK /\ ReleasedStep(t) /\ released[t] \in Nat
    BY StepsKeep, ReleasedSteps DEF SafetyInv, Typed, TypeOK
  <1>2. CASE released'[t] = released[t]
    <2> DEFINE k == ledger[t].job
    <2>1. released[t] = 1 /\ Confirmed(t) /\ Recorded(t)
      BY <1>2 DEF SafetyInv, ReleasedAtMostOnce, Confirmed
    <2>2. k \in Jobs /\ ledger'[t].job = k /\ job[k].task = t
      BY <1>1, <2>1, RowsNameTransfers DEF Kept, SafetyInv, LedgerMatchesChain
    <2>3. ~ (Active(k) /\ job[k].pc \in HasRow \ {"ack"})
      BY <1>2 DEF SafetyInv, ReleasedInv
    <2>4. JobStep(k)
      BY <2>2, JobSteps
    <2>5. ~ (job'[k].state = "active" /\ job'[k].pc \in HasRow \ {"ack"})
      BY <2>1, <2>2, <2>3, <2>4
         DEF JobStep, JobQueued, JobWaits, JobRerun, JobMoves, Active, HasRow
    <2> QED
      BY <1>1, <1>2, <2>1, <2>2, <2>5, ConfirmedStays
  <1>3. CASE released'[t] # released[t]
    <2>1. PICK j \in Jobs : /\ At(j, "release") /\ job[j].task = t
                            /\ job'[j] = [job[j] EXCEPT !.pc = "ack"]
      BY <1>1, <1>3 DEF ReleasedStep
    <2>2. /\ Recorded(t) /\ ledger[t].job = j /\ ledger[t].run = RunOf(j)
          /\ chain[j][RunOf(j)] = "confirmed"
      BY <2>1
         DEF SafetyInv, Typed, JobInv, WorkerInv, At, Active, HasRow, Landed
    <2>3. Confirmed(t)' /\ ledger'[t].job = j
      BY <1>1, <2>2, ConfirmedStays DEF Confirmed, Kept
    <2>4. ~(released[t] > 0)
      BY <2>1, <2>2 DEF SafetyInv, ReleasedInv, At, Active, HasRow
    <2>5. released'[t] = 1
      BY <1>1, <1>3, <2>4 DEF ReleasedStep
    <2>6. job'[j].pc = "ack"
      BY <2>1 DEF SafetyInv, Typed, TypeOK, JobRecords
    <2> QED
      BY <2>3, <2>5, <2>6
  <1> QED
    BY <1>2, <1>3

LEMMA CompletedKept ==
  ASSUME SafetyInv, [Next]_vars
  PROVE  CompletedIsSettled'
  <1> SUFFICES ASSUME NEW j \in Jobs, job'[j].state = "completed"
               PROVE  /\ job'[j].task \in Tasks
                      /\ released'[job'[j].task] = 1
                      /\ ledger'[job'[j].task].job = j
    BY DEF CompletedIsSettled, InTasks
  <1> DEFINE t == job[j].task
  <1>1. Kept /\ JobStep(j)
    BY StepsKeep, JobSteps
  <1>2. /\ job'[j].task = t
        /\ job[j].state = "completed" \/ At(j, "ack")
    BY <1>1 DEF JobStep, JobQueued, JobWaits, JobRerun, JobMoves, SameRun
  <1>3. t \in Tasks /\ released[t] = 1 /\ ledger[t].job = j
    BY <1>2
       DEF SafetyInv, Typed, CompletedIsSettled, JobInv, WorkerInv, InTasks,
                At, Active, HasRow
  <1>4. Recorded(t)
    BY <1>3 DEF SafetyInv, ReleasedAtMostOnce, Confirmed
  <1>5. ledger'[t].job = j
    BY <1>1, <1>3, <1>4 DEF Kept
  <1>6. released'[t] = 1
    BY <1>2, <1>3, ReleasedStands DEF At
  <1> QED
    BY <1>2, <1>3, <1>5, <1>6

-----------------------------------------------------------------------------
(* SafetyInv is inductive, and the safety properties are its conjuncts.    *)

LEMMA SafetyInit == Init => SafetyInv
  <1> SUFFICES ASSUME Init PROVE SafetyInv
    OBVIOUS
  <1>1. Typed
    BY TypedInit
  <1>2. FreshInv
    BY JobsArePairs DEF Init, FreshInv, NoJob, IdleRequest
  <1>3. ChainInv
    BY DEF Init, ChainInv
  <1>4. \A j \in Jobs : job[j].state = "none"
    BY DEF Init, NoJob
  <1>5. WorkerInv /\ CompletedIsSettled
    BY <1>4 DEF WorkerInv, CompletedIsSettled, Active
  <1>6. SeenInv
    BY DEF Init, SeenInv, IdleMonitor, IdleRequest
  <1>7. \A t \in Tasks : ~Recorded(t) /\ released[t] = 0 /\ payment[t] # "PAID"
    BY DEF Init, Recorded, NoRow
  <1> QED
    BY <1>1, <1>2, <1>3, <1>5, <1>6, <1>7
       DEF SafetyInv, RowInv, LedgerMatchesChain, PaidHasEvidence,
           ReleasedAtMostOnce, ReleasedInv

LEMMA SafetyNext == SafetyInv /\ [Next]_vars => SafetyInv'
  <1> SUFFICES ASSUME SafetyInv, [Next]_vars PROVE SafetyInv'
    OBVIOUS
  <1>1. Typed'
    BY TypedNext DEF SafetyInv
  <1> QED
    BY <1>1, FreshKept, ChainKept, WorkerKept, SeenKept, RowsKeptSound,
       PaidKept,
       ReleasedKept, CompletedKept DEF SafetyInv

(* The inductive invariant of the payment pipeline: what each place of a   *)
(* handler, the worker and the monitor knows of the ledger and the chain   *)
(* stays true until it is used.                                            *)
THEOREM SafetyInvariant == Spec => []SafetyInv
  BY SafetyInit, SafetyNext, PTL DEF Spec

(* Every ledger row names a transfer a job of its task really sent, and is *)
(* CONFIRMED only when the chain confirmed it: paymentQueue.ts, and GET    *)
(* /transactions/:txHash in transactions.ts.                               *)
THEOREM LedgerIsSound == Spec => []LedgerMatchesChain
  <1>1. SafetyInv => LedgerMatchesChain
    BY DEF SafetyInv
  <1> QED
    BY <1>1, SafetyInvariant, PTL

(* A task reads PAID only while the transfer its row names is confirmed.   *)
THEOREM PaidIsEvidenced == Spec => []PaidHasEvidence
  <1>1. SafetyInv => PaidHasEvidence
    BY DEF SafetyInv
  <1> QED
    BY <1>1, SafetyInvariant, PTL

(* The project's releasedFunds counts a task at most once, and only for a  *)
(* confirmed transfer, whatever is approved twice, retried or rerun.       *)
THEOREM ReleasedOnce == Spec => []ReleasedAtMostOnce
  <1>1. SafetyInv => ReleasedAtMostOnce
    BY DEF SafetyInv
  <1> QED
    BY <1>1, SafetyInvariant, PTL

(* A job BullMQ shows as completed has settled its task with its own       *)
(* transfer; so of all the jobs of a task at most one completes.           *)
THEOREM CompletedSettles == Spec => []CompletedIsSettled
  <1>1. SafetyInv => CompletedIsSettled
    BY DEF SafetyInv
  <1> QED
    BY <1>1, SafetyInvariant, PTL

(* No step of any actor gives a row another transfer, removes it, or makes *)
(* a decided row PENDING again.                                            *)
THEOREM RowsDecidedOnce == Spec => RowsAreDecidedOnce
  <1> DEFINE Decided == \A t \in Tasks : Recorded(t) =>
               /\ Recorded(t)'
               /\ ledger[t].job = ledger'[t].job /\ ledger[t].run = ledger'[t].run
               /\ ledger'[t].status = "PENDING" => ledger[t].status = "PENDING"
  <1>1. SafetyInv /\ [Next]_vars => [Decided]_vars
    <2> SUFFICES ASSUME SafetyInv, [Next]_vars PROVE Decided
      OBVIOUS
    <2>1. \A t \in Tasks : RowStep(t)
      BY RowSteps
    <2> QED
      BY <2>1 DEF RowStep, Recorded
  <1> HIDE DEF Decided
  <1>2. Spec => [][Decided]_vars
    BY <1>1, SafetyInvariant, PTL DEF Spec
  <1> QED
    BY <1>2 DEF RowsAreDecidedOnce, Decided
=============================================================================
