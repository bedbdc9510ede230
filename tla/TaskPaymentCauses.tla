-------------------------- MODULE TaskPaymentCauses --------------------------
(***************************************************************************)
(* What can make the pipeline pay a task twice.  A transfer is sent before *)
(* anything about it is written, so a repeated run repeats it; this module *)
(* keeps a history of the causes and says that there are no others.        *)
(* Below, in the same way: what can leave an approved task unpaid.         *)
(*                                                                         *)
(* The history is read by no action: every behaviour of TaskPayment is one *)
(* of this specification, and the other way round.                         *)
(***************************************************************************)
EXTENDS TaskPaymentInv

VARIABLE excused   \* tasks whose payment may have been repeated

allVars == <<vars, excused>>

(* Two approvals look at a task before either has written APPROVED.        *)
Overlaps(t) ==
  \E r, s \in Requests :
    /\ r # s
    /\ req[s].pc = "approve" /\ req[s].task = t
    /\ req[r].pc # "approve"
    /\ req'[r].pc = "approve" /\ req'[r].task = t

(* An edit takes the approval back, so that there can be another.          *)
Reopens(t) == status[t] = "APPROVED" /\ status'[t] # "APPROVED"

(* A run is cut short, by an error or a crash, after its transfer and      *)
(* while the task exists: a deleted task fails at the start of the next.   *)
CutShort(j) ==
  /\ Active(j) /\ job[j].pc # "markFailed"
  /\ chain'[j][RunOf(j)] # "none"
  /\ job'[j].state = "stalled" \/ job'[j].pc = "markFailed"

Interrupts(t) == alive[t] /\ \E j \in Jobs : job[j].task = t /\ CutShort(j)

Causes(t) == Overlaps(t) \/ Reopens(t) \/ Interrupts(t)

CausesInit == Init /\ excused = {}
CausesNext == Next /\ excused' = excused \cup {t \in Tasks : Causes(t)}
CausesSpec == CausesInit /\ [][CausesNext]_allVars

-----------------------------------------------------------------------------
Transfers(t) == {x \in Jobs \X Runs : job[x[1]].task = t /\ chain[x[1]][x[2]] # "none"}

(* One payment per task, but for the causes: a task is sent a second       *)
(* transfer only after two approvals overlapped, an approval was taken     *)
(* back, or a run was cut short between its transfer and its end.  Calls   *)
(* that fail before the transfer, refused rows, deleted tasks, late        *)
(* confirmations and the monitor never cause one.                          *)
DoublePayNeedsCause ==
  \A t \in Tasks \ excused : \A x, y \in Transfers(t) : x = y

-----------------------------------------------------------------------------
(* The inductive invariant behind it.                                      *)

(* The request that pays a task: it is about to, or has queued the job.    *)
Awaits(r, t, pc) == req[r].pc = pc /\ req[r].task = t
Pays(r, t) == job[<<r, Employee>>].task = t
Owns(r, t) == Awaits(r, t, "approve") \/ Awaits(r, t, "queue") \/ Pays(r, t)

OversightInv == \A r \in Requests, m \in Managers : job[<<r, m>>].task = NoTask

(* One approval at a time, and none after it has written APPROVED.         *)
OwnerInv ==
  \A t \in Tasks \ excused :
    /\ \A r, s \in Requests : Owns(r, t) /\ Owns(s, t) => r = s
    /\ \A r \in Requests : Awaits(r, t, "queue") \/ Pays(r, t) =>
         status[t] = "APPROVED" \/ ~alive[t]

(* A job that has sent its transfer is never on the way to send again,     *)
(* unless the task is gone; and it is the first to write the row.          *)
Sent(j, n) == chain[j][n] # "none"
OneTransferInv ==
  \A j \in Jobs : job[j].task \in Tasks \ excused =>
    /\ \A m, n \in Runs : Sent(j, m) /\ Sent(j, n) => m = n
    /\ \A n \in Runs : Sent(j, n) /\ alive[job[j].task] =>
         /\ job[j].state \notin {"waiting", "delayed", "stalled"}
         /\ Active(j) => job[j].pc \in {"record"} \cup HasRow
    /\ Active(j) /\ job[j].pc = "send" => \A n \in Runs : ~Sent(j, n)
    /\ Active(j) /\ job[j].pc = "record" => ~Recorded(job[j].task)

CausesInv == SafetyInv /\ OversightInv /\ OwnerInv /\ OneTransferInv
-----------------------------------------------------------------------------
(* Approvals that nobody acts on: approve accepts a COMPLETED task only,   *)
(* so a task left APPROVED and ALLOCATED stays unpaid until an owner edits *)
(* it.                                                                     *)

InHand(j, t) ==
  /\ job[j].task = t
  /\ \/ job[j].state \in {"waiting", "delayed", "stalled"}
     \/ Active(j) /\ job[j].pc \notin {"release", "ack", "failRow"}

Stranded(t) ==
  /\ alive[t] /\ payable[t]
  /\ status[t] = "APPROVED" /\ payment[t] = "ALLOCATED"
  /\ \A r \in Requests : ~Awaits(r, t, "queue")
  /\ \A j \in Jobs : ~InHand(j, t)

Answers(r, t, pc) == Awaits(r, t, pc) /\ req'[r].pc = "done"

(* BullMQ gives a job up: it stalled too often, or the update that writes  *)
(* FAILED throws on its last attempt.                                      *)
GivesUp(j) ==
  \/ job[j].state = "stalled" /\ job'[j].state = "exhausted"
  \/ At(j, "markFailed") /\ DbError /\ job'[j].state = "failed"

MayStrand(t) ==
  \/ \E r \in Requests :
       \/ Answers(r, t, "edit") \/ Answers(r, t, "plain")
       \/ Answers(r, t, "queue") /\ ("redis" \in Faults \/ crashes' # crashes)
  \/ \E j \in Jobs : job[j].task = t /\ GivesUp(j)

(* An approved amount is left with nobody to pay it only by an edit, by an *)
(* approval that looked before the task had an amount, by a Redis failure  *)
(* or a crash between the status and the queue, or by a job given up.  An  *)
(* error of the node, a refused row, a retry, a rerun or a request that    *)
(* interferes never leaves it there.                                       *)
ApprovalIsActedOn ==
  [][\A t \in Tasks : Stranded(t)' /\ ~Stranded(t) => MayStrand(t)]_vars
=============================================================================
