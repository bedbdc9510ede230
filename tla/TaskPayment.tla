----------------------------- MODULE TaskPayment -----------------------------
(***************************************************************************)
(* The task payment pipeline of SIZ ERP: a manager approves a completed    *)
(* task (POST /tasks/:id/approve), the handler queues BullMQ jobs, the     *)
(* payment worker sends the SIZCOIN transfer to Algorand, records it in    *)
(* the blockchain_transactions table and waits for it, a monitor re-reads  *)
(* the rows left PENDING, and GET /transactions/:txHash refreshes a row    *)
(* when somebody looks at it.                                              *)
(*                                                                         *)
(* Every database call is a step of its own, so the handlers, the worker   *)
(* and the monitor interleave at every `await'.  The database, the queue   *)
(* and the chain survive a crash of the server; the handlers do not.       *)
(*                                                                         *)
(* Data the properties do not tell apart is left out: amounts are only     *)
(* "positive or not", and a request the code refuses without writing       *)
(* anything is a request that takes no step.  The escrow balance the       *)
(* approval compares with is the subject of module EscrowAccount.          *)
(***************************************************************************)
EXTENDS Naturals

CONSTANTS
  Tasks,         \* tasks of one project
  Requests,      \* HTTP requests in flight, each served once
  Viewers,       \* bound: the requests of clients that only read
  Managers,      \* department managers with an oversightRate and a wallet
  Employee,      \* the payee of the main job of an approval
  NoTask,        \* "oversight-<id>": a job's taskId that is no task's id
  Attempts,      \* `attempts' of queuePayment
  MaxStalls,     \* BullMQ's maxStalledCount
  MaxCrashes,    \* bound on server crashes
  DayPasses,     \* bound: the monitor's passes in 24 hours, 288 in the code
  Faults         \* which calls may fail: "db", "node", "redis"; with "day"
                 \* they may fail the monitor for a whole day

ASSUME PaymentAssumption ==
  /\ Attempts \in Nat \ {0}
  /\ MaxStalls \in Nat
  /\ MaxCrashes \in Nat
  /\ DayPasses \in Nat \ {0}
  /\ NoTask \notin Tasks
  /\ Employee \notin Managers

Payees == Managers \cup {Employee}
Jobs   == Requests \X Payees
PaymentJobs == (Requests \ Viewers) \X Payees   \* the ones ever queued
Runs   == 1 .. (Attempts + MaxStalls)

(* PENDING and IN_PROGRESS are told apart by nothing here: both are OPEN.  *)
TaskStatus    == {"OPEN", "COMPLETED", "APPROVED"}
PaymentStatus == {"PENDING", "ALLOCATED", "PROCESSING", "PAID", "FAILED"}
ChainStatus   == {"none", "submitted", "confirmed", "dropped"}
RowStatus     == {"PENDING", "CONFIRMED", "FAILED"}

(* A PUT /tasks/:id body: the new status, and what it says of the amount.  *)
Edits  == [status : TaskStatus \cup {"keep"},
           amount : {"keep", "positive", "zero", "null"}]
NoEdit == [status |-> "keep", amount |-> "keep"]

RequestPCs == {"idle", "plain", "approve", "queue", "oversight", "edit",
               "confirmRow", "done"}
(* "exhausted" is BullMQ's failed state after too many stalls.             *)
JobStates  == {"none", "waiting", "active", "delayed", "stalled",
               "completed", "failed", "exhausted"}
JobPCs     == {"idle", "processing", "send", "record", "confirm", "markRow",
               "markPaid", "release", "ack", "markFailed", "failRow"}
MonitorPCs == {"idle", "scan", "confirm", "paid", "fail", "failTask"}

(* A handler between two awaits, and a job with the worker's place in it.  *)
RequestRecords == [pc : RequestPCs, task : Tasks \cup {NoTask}, edit : Edits,
                   left : SUBSET Managers]
JobRecords == [state : JobStates, pc : JobPCs, task : Tasks \cup {NoTask},
               made : 0 .. Attempts, stalls : 0 .. MaxStalls]

(* A row's txHash is the job and the run of it that sent the transaction;  *)
(* its age is counted in passes of the monitor that left it undecided.     *)
Rows  == [status : RowStatus, job : Jobs, run : Runs, age : Nat]
NoRow == [status |-> "NONE"]

VARIABLES
  alive,      \* the task's row exists
  status,     \* Task.status
  payable,    \* Task.paymentAmount > 0
  payment,    \* Task.paymentStatus
  ledger,     \* the BlockchainTransaction row whose taskId is the task
  released,   \* how often the task's amount was added to releasedFunds
  req,        \* HTTP handlers between two awaits
  job,        \* BullMQ jobs and the worker's place in each
  chain,      \* what Algorand knows of each transaction
  mon,        \* monitorPendingTransactions between two awaits
  crashes     \* crashes so far

taskVars == <<alive, status, payable>>
vars == <<alive, status, payable, payment, ledger, released, req, job, chain,
          mon, crashes>>

IdleRequest == [pc |-> "idle", task |-> NoTask, edit |-> NoEdit, left |-> {}]
Answered    == [IdleRequest EXCEPT !.pc = "done"]
Awaiting(pc, t) == [pc |-> pc, task |-> t, edit |-> NoEdit, left |-> {}]
NoJob == [state |-> "none", pc |-> "idle", task |-> NoTask, made |-> 0,
          stalls |-> 0]
IdleMonitor == [pc |-> "idle", left |-> {}, task |-> NoTask]

(* The number of the run a job is in: one per failed attempt or stall.     *)
RunOf(j) == job[j].made + job[j].stalls + 1
Recorded(t) == ledger[t].status # "NONE"
Confirmed(t) == /\ Recorded(t)
                /\ chain[ledger[t].job][ledger[t].run] = "confirmed"
InTasks(j) == job[j].task \in Tasks

-----------------------------------------------------------------------------
(* Tasks as POST /tasks and earlier edits leave them: not approved yet.    *)
Init ==
  /\ alive = [t \in Tasks |-> TRUE]
  /\ status \in [Tasks -> {"OPEN", "COMPLETED"}]
  /\ payable \in [Tasks -> BOOLEAN]
  /\ payment = [t \in Tasks |-> IF payable[t] THEN "ALLOCATED" ELSE "PENDING"]
  /\ ledger = [t \in Tasks |-> NoRow]
  /\ released = [t \in Tasks |-> 0]
  /\ req = [r \in Requests |-> IdleRequest]
  /\ job = [j \in Jobs |-> NoJob]
  /\ chain = [j \in Jobs |-> [n \in Runs |-> "none"]]
  /\ mon = IdleMonitor
  /\ crashes = 0

-----------------------------------------------------------------------------
(* POST /tasks/:id/approve                                                 *)

(* Mutant: a task that is approved already may be approved again.          *)
ApproveCheckAnyStatus(r, t) ==
  /\ req[r].pc = "idle"
  /\ alive[t]
  /\ payable[t]
  /\ payment[t] \notin {"PAID", "PROCESSING"}
  /\ req' = [req EXCEPT ![r] = Awaiting("approve", t)]
  /\ UNCHANGED <<taskVars, payment, ledger, released, job, chain, mon, crashes>>

(* The reads and every check of the handler, up to its first write.  The   *)
(* wallet and escrow checks only refuse: see the head of the module.       *)
ApproveCheck(r, t) ==
  /\ req[r].pc = "idle" /\ r \notin Viewers
  /\ alive[t]
  /\ status[t] = "COMPLETED"
  /\ \/ /\ ~payable[t]
        /\ req' = [req EXCEPT ![r] = Awaiting("plain", t)]
     \/ /\ payable[t]
        /\ payment[t] \notin {"PAID", "PROCESSING"}
        /\ req' = [req EXCEPT ![r] = Awaiting("approve", t)]
  /\ UNCHANGED <<taskVars, payment, ledger, released, job, chain, mon, crashes>>

(* Mutant: the handler answers before the payment is queued.               *)
ApproveWriteOnly(r) ==
  /\ req[r].pc \in {"plain", "approve"}
  /\ status' = IF alive[req[r].task]
                 THEN [status EXCEPT ![req[r].task] = "APPROVED"] ELSE status
  /\ req' = [req EXCEPT ![r] = Answered]
  /\ UNCHANGED <<alive, payable, payment, ledger, released, job, chain, mon,
                 crashes>>

(* task.update({status: 'APPROVED'}), which throws when the task is gone.  *)
ApproveWrite(r) ==
  /\ req[r].pc \in {"plain", "approve"}
  /\ status' = IF alive[req[r].task]
                 THEN [status EXCEPT ![req[r].task] = "APPROVED"] ELSE status
  /\ req' = [req EXCEPT ![r] = IF @.pc = "approve" /\ alive[@.task]
                                  THEN [@ EXCEPT !.pc = "queue"] ELSE Answered]
  /\ UNCHANGED <<alive, payable, payment, ledger, released, job, chain, mon,
                 crashes>>

Queued(t) == [state |-> "waiting", pc |-> "idle", task |-> t, made |-> 0,
              stalls |-> 0]

(* queuePayment for the employee, then the department's managers are read. *)
(* A Redis failure leaves the task APPROVED and answers 500.               *)
QueueEmployee(r) ==
  /\ req[r].pc = "queue"
  /\ \/ /\ job' = [job EXCEPT ![<<r, Employee>>] = Queued(req[r].task)]
        /\ req' = [req EXCEPT ![r] =
                     IF Managers = {} THEN Answered
                     ELSE [@ EXCEPT !.pc = "oversight", !.left = Managers]]
     \/ /\ "redis" \in Faults
        /\ req' = [req EXCEPT ![r] = Answered]
        /\ UNCHANGED job
  /\ UNCHANGED <<taskVars, payment, ledger, released, chain, mon, crashes>>

(* queuePayment for one manager, under the id `oversight-<task>'; an error *)
(* is logged and the loop goes on.                                         *)
QueueOversight(r, m) ==
  /\ req[r].pc = "oversight"
  /\ m \in req[r].left
  /\ \/ job' = [job EXCEPT ![<<r, m>>] = Queued(NoTask)]
     \/ "redis" \in Faults /\ UNCHANGED job
  /\ req' = [req EXCEPT ![r] = IF req[r].left = {m} THEN Answered
                                  ELSE [req[r] EXCEPT !.left = req[r].left \ {m}]]
  /\ UNCHANGED <<taskVars, payment, ledger, released, chain, mon, crashes>>

-----------------------------------------------------------------------------
(* PUT /tasks/:id and the other routes that set a task's status; only PUT  *)
(* carries an amount.  A null amount skips the PAID check.                 *)

EditCheck(r, t, e) ==
  /\ req[r].pc = "idle" /\ r \notin Viewers
  /\ alive[t]
  /\ e.amount \in {"positive", "zero"} => payment[t] # "PAID"
  /\ req' = [req EXCEPT ![r] = [Awaiting("edit", t) EXCEPT !.edit = e]]
  /\ UNCHANGED <<taskVars, payment, ledger, released, job, chain, mon, crashes>>

EditWrite(r) ==
  LET t == req[r].task
      e == req[r].edit
  IN /\ req[r].pc = "edit"
     /\ alive[t]
     /\ status' = [status EXCEPT ![t] = IF e.status = "keep" THEN @ ELSE e.status]
     /\ payable' = [payable EXCEPT ![t] = IF e.amount = "keep" THEN @
                                          ELSE e.amount = "positive"]
     /\ payment' = [payment EXCEPT ![t] = CASE e.amount = "keep" -> @
                                            [] e.amount = "positive" -> "ALLOCATED"
                                            [] OTHER -> "PENDING"]
     /\ req' = [req EXCEPT ![r] = Answered]
     /\ UNCHANGED <<alive, ledger, released, job, chain, mon, crashes>>

(* DELETE /tasks/:id: a hard delete.  The ledger row stays and its taskId  *)
(* becomes null, so no lookup by task finds it any more.                   *)
DeleteTask(r, t) ==
  /\ req[r].pc = "idle" /\ r \notin Viewers
  /\ alive[t]
  /\ alive' = [alive EXCEPT ![t] = FALSE]
  /\ req' = [req EXCEPT ![r] = Answered]
  /\ UNCHANGED <<status, payable, payment, ledger, released, job, chain, mon,
                 crashes>>

(* Mutant: the route writes the row without looking at `confirmed'.        *)
ViewCheckUnconfirmed(r, t) ==
  /\ req[r].pc = "idle"
  /\ ledger[t].status = "PENDING"
  /\ req' = [req EXCEPT ![r] = Awaiting("confirmRow", t)]
  /\ UNCHANGED <<taskVars, payment, ledger, released, job, chain, mon, crashes>>

(* GET /transactions/:txHash of a PENDING row asks the chain; a confirmed  *)
(* answer is written to the row and to nothing else.                       *)
ViewCheck(r, t) ==
  /\ req[r].pc = "idle"
  /\ ledger[t].status = "PENDING"
  /\ Confirmed(t)
  /\ req' = [req EXCEPT ![r] = Awaiting("confirmRow", t)]
  /\ UNCHANGED <<taskVars, payment, ledger, released, job, chain, mon, crashes>>

ViewWrite(r) ==
  /\ req[r].pc = "confirmRow"
  /\ ledger' = [ledger EXCEPT ![req[r].task].status = "CONFIRMED"]
  /\ req' = [req EXCEPT ![r] = Answered]
  /\ UNCHANGED <<taskVars, payment, released, job, chain, mon, crashes>>

-----------------------------------------------------------------------------
(* The payment worker, concurrency 1: one job is active at a time.         *)

At(j, pc)   == job[j].state = "active" /\ job[j].pc = pc
Goto(j, pc) == job' = [job EXCEPT ![j].pc = pc]
TaskHere(j) == InTasks(j) /\ alive[job[j].task]
DbError     == "db" \in Faults
NodeError   == "node" \in Faults

Take(j) ==
  /\ job[j].state = "waiting"
  /\ \A k \in Jobs : job[k].state # "active"
  /\ job' = [job EXCEPT ![j] = [@ EXCEPT !.state = "active", !.pc = "processing"]]
  /\ UNCHANGED <<taskVars, payment, ledger, released, req, chain, mon, crashes>>

MarkProcessing(j) ==
  /\ At(j, "processing")
  /\ \/ /\ TaskHere(j)
        /\ payment' = [payment EXCEPT ![job[j].task] = "PROCESSING"]
        /\ Goto(j, "send")
     \/ /\ ~TaskHere(j) \/ DbError
        /\ Goto(j, "markFailed")
        /\ UNCHANGED payment
  /\ UNCHANGED <<taskVars, ledger, released, req, chain, mon, crashes>>

(* createPaymentTransaction.  It throws before the transfer is submitted   *)
(* (no opt-in, node down, transfer refused) or after (the reply is lost).  *)
Send(j) ==
  /\ At(j, "send")
  /\ \/ /\ chain' = [chain EXCEPT ![j][RunOf(j)] = "submitted"]
        /\ Goto(j, "record") \/ (NodeError /\ Goto(j, "markFailed"))
     \/ /\ NodeError
        /\ Goto(j, "markFailed")
        /\ UNCHANGED chain
  /\ UNCHANGED <<taskVars, payment, ledger, released, req, mon, crashes>>

(* Mutants of RecordRow: an upsert by taskId that overwrites the old row,  *)
(* and a find-or-create that goes on with the old row.                     *)
RecordRowUpsert(j) ==
  LET t == job[j].task
  IN /\ At(j, "record")
     /\ alive[t]
     /\ ledger' = [ledger EXCEPT ![t] =
          [status |-> "PENDING", job |-> j, run |-> RunOf(j), age |-> 0]]
     /\ Goto(j, "confirm")
     /\ UNCHANGED <<taskVars, payment, released, req, chain, mon, crashes>>

RecordRowReuse(j) ==
  LET t == job[j].task
  IN /\ At(j, "record")
     /\ alive[t]
     /\ ledger' = IF Recorded(t) THEN ledger
                  ELSE [ledger EXCEPT ![t] = [status |-> "PENDING", job |-> j,
                                              run |-> RunOf(j), age |-> 0]]
     /\ Goto(j, "confirm")
     /\ UNCHANGED <<taskVars, payment, released, req, chain, mon, crashes>>

(* blockchainTransaction.create: taskId is unique and a foreign key.       *)
RecordRow(j) ==
  LET t == job[j].task
  IN /\ At(j, "record")
     /\ \/ /\ alive[t]
           /\ ~Recorded(t)
           /\ ledger' = [ledger EXCEPT ![t] =
                [status |-> "PENDING", job |-> j, run |-> RunOf(j), age |-> 0]]
           /\ Goto(j, "confirm")
        \/ /\ ~alive[t] \/ Recorded(t) \/ DbError
           /\ Goto(j, "markFailed")
           /\ UNCHANGED ledger
     /\ UNCHANGED <<taskVars, payment, released, req, chain, mon, crashes>>

(* Mutant: the timeout is taken for a confirmation.                        *)
AwaitConfirmationOptimist(j) ==
  /\ At(j, "confirm")
  /\ Goto(j, "markRow")
  /\ UNCHANGED <<taskVars, payment, ledger, released, req, chain, mon, crashes>>

(* waitForConfirmation gives up after four rounds, whatever the transfer   *)
(* does afterwards.                                                        *)
AwaitConfirmation(j) ==
  /\ At(j, "confirm")
  /\ \/ chain[j][RunOf(j)] = "confirmed" /\ Goto(j, "markRow")
     \/ NodeError /\ Goto(j, "markFailed")
  /\ UNCHANGED <<taskVars, payment, ledger, released, req, chain, mon, crashes>>

MarkRow(j) ==
  /\ At(j, "markRow")
  /\ \/ /\ ledger' = [ledger EXCEPT ![job[j].task].status = "CONFIRMED"]
        /\ Goto(j, "markPaid")
     \/ DbError /\ Goto(j, "markFailed") /\ UNCHANGED ledger
  /\ UNCHANGED <<taskVars, payment, released, req, chain, mon, crashes>>

MarkPaid(j) ==
  /\ At(j, "markPaid")
  /\ \/ /\ TaskHere(j)
        /\ payment' = [payment EXCEPT ![job[j].task] = "PAID"]
        /\ Goto(j, "release")
     \/ /\ ~TaskHere(j) \/ DbError
        /\ Goto(j, "markFailed")
        /\ UNCHANGED payment
  /\ UNCHANGED <<taskVars, ledger, released, req, chain, mon, crashes>>

(* project.releasedFunds += amount, kept here per task.                    *)
Release(j) ==
  /\ At(j, "release")
  /\ \/ /\ released' = [released EXCEPT ![job[j].task] = @ + 1]
        /\ Goto(j, "ack")
     \/ DbError /\ Goto(j, "markFailed") /\ UNCHANGED released
  /\ UNCHANGED <<taskVars, payment, ledger, req, chain, mon, crashes>>

(* The processor returned: BullMQ moves the job to completed.              *)
Acknowledge(j) ==
  /\ At(j, "ack")
  /\ job' = [job EXCEPT ![j] = [@ EXCEPT !.state = "completed", !.pc = "idle"]]
  /\ UNCHANGED <<taskVars, payment, ledger, released, req, chain, mon, crashes>>

(* Mutants of AttemptFailed: retried without counting, and a catch block   *)
(* that does not rethrow, so the job completes.                            *)
AttemptUncounted(j) ==
  job' = [job EXCEPT ![j] = [@ EXCEPT !.pc = "idle", !.state = "delayed"]]

AttemptSwallowed(j) ==
  job' = [job EXCEPT ![j] = [@ EXCEPT !.pc = "idle", !.state = "completed"]]

(* The processor threw: BullMQ counts the attempt and retries or gives up. *)
AttemptFailed(j) ==
  LET made == job[j].made + 1
  IN job' = [job EXCEPT ![j] = [job[j] EXCEPT
               !.pc = "idle", !.made = made,
               !.state = IF made < Attempts THEN "delayed" ELSE "failed"]]

(* Mutant: the catch block leaves the task's payment status alone.         *)
MarkFailedSkipped(j) ==
  /\ At(j, "markFailed")
  /\ AttemptFailed(j)
  /\ UNCHANGED <<taskVars, payment, ledger, released, req, chain, mon, crashes>>

(* The catch block: the task first, then the row found by taskId, rethrow. *)
MarkFailed(j) ==
  /\ At(j, "markFailed")
  /\ \/ /\ TaskHere(j)
        /\ payment' = [payment EXCEPT ![job[j].task] = "FAILED"]
        /\ Goto(j, "failRow")
     \/ /\ ~TaskHere(j) \/ DbError
        /\ AttemptFailed(j)
        /\ UNCHANGED payment
  /\ UNCHANGED <<taskVars, ledger, released, req, chain, mon, crashes>>

FailRow(j) ==
  LET t == job[j].task
  IN /\ At(j, "failRow")
     /\ \/ /\ alive[t]
           /\ Recorded(t)
           /\ ledger' = [ledger EXCEPT ![t].status = "FAILED"]
        \/ /\ ~alive[t] \/ ~Recorded(t) \/ DbError
           /\ UNCHANGED ledger
     /\ AttemptFailed(j)
     /\ UNCHANGED <<taskVars, payment, released, req, chain, mon, crashes>>

(* BullMQ: the backoff of a failed attempt, and the check that puts back a *)
(* job whose worker died, MaxStalls times at most.                         *)
Retry(j) ==
  /\ job[j].state = "delayed"
  /\ job' = [job EXCEPT ![j].state = "waiting"]
  /\ UNCHANGED <<taskVars, payment, ledger, released, req, chain, mon, crashes>>

StallCheck(j) ==
  /\ job[j].state = "stalled"
  /\ job' = [job EXCEPT ![j] =
               IF job[j].stalls < MaxStalls
               THEN [job[j] EXCEPT !.state = "waiting", !.stalls = job[j].stalls + 1]
               ELSE [job[j] EXCEPT !.state = "exhausted"]]
  /\ UNCHANGED <<taskVars, payment, ledger, released, req, chain, mon, crashes>>

-----------------------------------------------------------------------------
(* Algorand: a submitted transfer is confirmed, or expires unconfirmed.    *)
ChainConfirm(j, n) ==
  /\ chain[j][n] = "submitted"
  /\ chain' = [chain EXCEPT ![j][n] = "confirmed"]
  /\ UNCHANGED <<taskVars, payment, ledger, released, req, job, mon, crashes>>

ChainDrop(j, n) ==
  /\ NodeError
  /\ chain[j][n] = "submitted"
  /\ chain' = [chain EXCEPT ![j][n] = "dropped"]
  /\ UNCHANGED <<taskVars, payment, ledger, released, req, job, mon, crashes>>

-----------------------------------------------------------------------------
(* monitorPendingTransactions, every five minutes                          *)

(* Mutant: the monitor selects rows of the last five minutes only.         *)
MonitorTickFresh ==
  LET due == {t \in Tasks : ledger[t].status = "PENDING" /\ ledger[t].age = 0}
  IN /\ mon.pc = "idle"
     /\ due # {}
     /\ mon' = [pc |-> "scan", left |-> due, task |-> NoTask]
     /\ UNCHANGED <<taskVars, payment, ledger, released, req, job, chain, crashes>>

(* The PENDING rows of the last 24 hours; older ones are selected no more. *)
MonitorTick ==
  LET due == {t \in Tasks : ledger[t].status = "PENDING" /\ ledger[t].age < DayPasses}
  IN /\ mon.pc = "idle"
     /\ due # {}
     /\ mon' = [pc |-> "scan", left |-> due, task |-> NoTask]
     /\ UNCHANGED <<taskVars, payment, ledger, released, req, job, chain, crashes>>

(* A pass leaves the row as it was and the row is one pass older.  A       *)
(* transfer is decided within its validity, about an hour, so it is only   *)
(* an outage of the whole day ("day") that spoils every pass of a row.     *)
PassOver(t) ==
  /\ ledger[t].age + 1 < DayPasses \/ "day" \in Faults
  /\ ledger' = [ledger EXCEPT ![t].age = @ + 1]

AfterRow(rest) == IF rest = {} THEN IdleMonitor
                  ELSE [pc |-> "scan", left |-> rest, task |-> NoTask]

(* getTransactionStatus with an answer the monitor acts on: CONFIRMED, or  *)
(* FAILED when neither the pool asked nor the indexer knows the transfer   *)
(* (a transfer another node still holds looks the same).                   *)
MonitorAnswer(t) ==
  LET c == chain[ledger[t].job][ledger[t].run]
  IN /\ mon.pc = "scan"
     /\ t \in mon.left
     /\ \/ /\ c = "confirmed"
           /\ mon' = [pc |-> "confirm", left |-> mon.left \ {t}, task |-> t]
        \/ /\ c = "dropped" \/ (c = "submitted" /\ NodeError)
           /\ mon' = [pc |-> "fail", left |-> mon.left \ {t}, task |-> t]
     /\ UNCHANGED <<taskVars, payment, ledger, released, req, job, chain, crashes>>

(* The answer is PENDING, or the call throws: on to the next row.          *)
MonitorSkip(t) ==
  /\ mon.pc = "scan"
  /\ t \in mon.left
  /\ chain[ledger[t].job][ledger[t].run] = "submitted" \/ NodeError
  /\ PassOver(t)
  /\ mon' = AfterRow(mon.left \ {t})
  /\ UNCHANGED <<taskVars, payment, released, req, job, chain, crashes>>

(* The row is updated; an error is caught and the loop goes on.            *)
MonitorMarkRow ==
  /\ mon.pc \in {"confirm", "fail"}
  /\ \/ /\ ledger' = [ledger EXCEPT ![mon.task].status =
                         IF mon.pc = "confirm" THEN "CONFIRMED" ELSE "FAILED"]
        /\ mon' = [mon EXCEPT !.pc = IF @ = "confirm" THEN "paid" ELSE "failTask"]
     \/ /\ DbError
        /\ PassOver(mon.task)
        /\ mon' = AfterRow(mon.left)
  /\ UNCHANGED <<taskVars, payment, released, req, job, chain, crashes>>

(* task.update by tx.taskId; an error, as for a deleted task, is caught    *)
(* and leaves the row decided and the task as it was.                      *)
MonitorMarkTask ==
  /\ mon.pc \in {"paid", "failTask"}
  /\ \/ /\ alive[mon.task]
        /\ payment' = [payment EXCEPT ![mon.task] =
                          IF mon.pc = "paid" THEN "PAID" ELSE "FAILED"]
     \/ /\ ~alive[mon.task] \/ DbError
        /\ UNCHANGED payment
  /\ mon' = AfterRow(mon.left)
  /\ UNCHANGED <<taskVars, ledger, released, req, job, chain, crashes>>

-----------------------------------------------------------------------------
(* The server process dies and is restarted: every handler in flight is    *)
(* lost, the active job stalls, the monitor starts over.                   *)
Crash ==
  /\ crashes < MaxCrashes
  /\ crashes' = crashes + 1
  /\ job' = [j \in Jobs |-> IF job[j].state = "active"
                              THEN [job[j] EXCEPT !.state = "stalled", !.pc = "idle"]
                              ELSE job[j]]
  /\ req' = [r \in Requests |-> IF req[r].pc = "idle" THEN req[r] ELSE Answered]
  /\ mon' = IdleMonitor
  /\ UNCHANGED <<taskVars, payment, ledger, released, chain>>

-----------------------------------------------------------------------------
Process(j) ==
  \/ Take(j) \/ MarkProcessing(j) \/ Send(j) \/ RecordRow(j)
  \/ AwaitConfirmation(j) \/ MarkRow(j) \/ MarkPaid(j) \/ Release(j)
  \/ Acknowledge(j) \/ MarkFailed(j) \/ FailRow(j)

Handler(r) ==
  \/ \E t \in Tasks : \/ ApproveCheck(r, t) \/ DeleteTask(r, t) \/ ViewCheck(r, t)
                      \/ \E e \in Edits : EditCheck(r, t, e)
  \/ ApproveWrite(r) \/ QueueEmployee(r) \/ EditWrite(r) \/ ViewWrite(r)
  \/ \E m \in Managers : QueueOversight(r, m)

Monitor == \/ MonitorTick \/ MonitorMarkRow \/ MonitorMarkTask
           \/ \E t \in Tasks : MonitorAnswer(t) \/ MonitorSkip(t)

Next ==
  \/ \E r \in Requests : Handler(r)
  \/ \E j \in Jobs : Process(j) \/ Retry(j) \/ StallCheck(j)
  \/ \E j \in Jobs, n \in Runs : ChainConfirm(j, n) \/ ChainDrop(j, n)
  \/ Monitor
  \/ Crash

Spec == Init /\ [][Next]_vars

(* The worker, its timers and the monitor keep running and the chain       *)
(* decides.  Clients owe nothing, so no handler is fair.                   *)
Fairness ==
  /\ \A j \in PaymentJobs : /\ WF_vars(Process(j))
                            /\ WF_vars(Retry(j))
                            /\ WF_vars(StallCheck(j))
  /\ \A j \in PaymentJobs, n \in Runs :
       WF_vars(ChainConfirm(j, n) \/ ChainDrop(j, n))
  /\ WF_vars(Monitor)

FairSpec == Spec /\ Fairness

-----------------------------------------------------------------------------
(* Types of the variables; a run is within Runs while the job is active.   *)
TypeOK ==
  /\ alive \in [Tasks -> BOOLEAN]
  /\ status \in [Tasks -> TaskStatus]
  /\ payable \in [Tasks -> BOOLEAN]
  /\ payment \in [Tasks -> PaymentStatus]
  /\ ledger \in [Tasks -> Rows \cup {NoRow}]
  /\ released \in [Tasks -> Nat]
  /\ req \in [Requests -> RequestRecords]
  /\ job \in [Jobs -> JobRecords]
  /\ chain \in [Jobs -> [Runs -> ChainStatus]]
  /\ mon \in [pc : MonitorPCs, left : SUBSET Tasks, task : Tasks \cup {NoTask}]
  /\ crashes \in 0 .. MaxCrashes

(* No row without a transfer: a ledger row names a transfer a job of that  *)
(* task really submitted, and a row says CONFIRMED only of a transfer the  *)
(* chain confirmed -- for all three writers of rows (worker, monitor, GET  *)
(* /transactions) acting on answers that may be old when they are used.    *)
LedgerMatchesChain ==
  \A t \in Tasks : Recorded(t) =>
    LET row == ledger[t]
    IN /\ job[row.job].task = t
       /\ chain[row.job][row.run] # "none"
       /\ row.status = "CONFIRMED" => Confirmed(t)

(* A task shown as PAID has a ledger row whose transfer is confirmed, even *)
(* after retries, deleted and re-edited tasks and late monitor writes.     *)
PaidHasEvidence == \A t \in Tasks : payment[t] = "PAID" => Confirmed(t)

(* releasedFunds counts a task once, and only for a confirmed transfer,    *)
(* however often the task is approved and its jobs are retried or rerun.   *)
ReleasedAtMostOnce ==
  \A t \in Tasks : released[t] > 0 => released[t] = 1 /\ Confirmed(t)

(* BullMQ's `completed' means settled: the job's task was released and the *)
(* row is that job's own; so two approvals never both complete.            *)
CompletedIsSettled ==
  \A j \in Jobs : job[j].state = "completed" =>
    /\ InTasks(j)
    /\ released[job[j].task] = 1
    /\ ledger[job[j].task].job = j

(* The transfer of a recorded row is fixed, rows do not vanish, and a row  *)
(* that was decided never reads PENDING again (paymentQueue, transactions).*)
RowsAreDecidedOnce ==
  [][\A t \in Tasks : Recorded(t) =>
       /\ Recorded(t)'
       /\ ledger[t].job = ledger'[t].job /\ ledger[t].run = ledger'[t].run
       /\ ledger'[t].status = "PENDING" => ledger[t].status = "PENDING"]_vars

(* The pipeline implements the abstract ledger of module PaymentLedger.    *)
Books == INSTANCE PaymentLedger WITH
           Transfers  <- Jobs \X Runs,
           NoTransfer <- NoRow,
           entry      <- [t \in Tasks |-> ledger[t].status],
           transfer   <- [t \in Tasks |-> IF Recorded(t)
                                           THEN <<ledger[t].job, ledger[t].run>>
                                           ELSE NoRow],
           onChain    <- [t \in Tasks |-> Confirmed(t)]
KeepsTheBooks == Books!Spec

-----------------------------------------------------------------------------
(* Every queued job ends: retries and stalls are bounded, and a job waits  *)
(* for the one worker only finitely long.                                  *)
JobsSettle ==
  \A j \in PaymentJobs : job[j].state = "waiting" ~>
                    job[j].state \in {"completed", "failed", "exhausted"}

(* While no database call fails, a task does not stay PROCESSING, a state  *)
(* approve refuses for ever -- except when the server crashed so often in  *)
(* the task's job that BullMQ gave the job up as stalled.                  *)
ProcessingEnds ==
  \A t \in Tasks : (alive[t] /\ payment[t] = "PROCESSING") ~>
    \/ ~alive[t] \/ payment[t] # "PROCESSING"
    \/ \E j \in Jobs : job[j].task = t /\ job[j].state = "exhausted"

(* Every PENDING row is decided, although the monitor selects it on its    *)
(* first day only (paymentQueue): unless all the passes of that day fail,  *)
(* those before it that found no answer, passed it over or died with the   *)
(* server leave it to a later one, and no row ages out undecided.          *)
PendingRowsAreDecided ==
  \A t \in Tasks : ("day" \notin Faults /\ ledger[t].status = "PENDING") ~>
                     ledger[t].status # "PENDING"

-----------------------------------------------------------------------------
(* Claims of the repository that the code does not keep: see README.       *)

(* schema.prisma: "taskId String? @unique // One payment per task".        *)
OnePaymentPerTask ==
  \A j, k \in Jobs, m, n \in Runs :
    /\ InTasks(j)
    /\ job[j].task = job[k].task
    /\ chain[j][m] = "confirmed"
    /\ chain[k][n] = "confirmed"
    => j = k /\ m = n

(* schema.prisma: "FAILED // Payment transaction failed": a task marked    *)
(* FAILED was not paid by the transfer its ledger row names.               *)
FailedWasNotPaid == \A t \in Tasks : payment[t] = "FAILED" => ~Confirmed(t)

(* tasks.ts: "Employee and manager payments queued for processing": when   *)
(* nothing fails and nobody interferes, a manager's payment completes.     *)
OversightIsPaid ==
  \A r \in Requests, m \in Managers :
    job[<<r, m>>].state = "waiting" ~> job[<<r, m>>].state = "completed"
=============================================================================
