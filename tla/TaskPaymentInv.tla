--------------------------- MODULE TaskPaymentInv ---------------------------
(***************************************************************************)
(* The inductive invariant behind the safety properties of TaskPayment:    *)
(* what the places of the handlers, the worker and the monitor know of the *)
(* ledger and the chain; and two safety properties that the liveness of    *)
(* TaskPayment rests on.                                                   *)
(***************************************************************************)
EXTENDS TaskPayment

Live        == {"waiting", "active", "delayed", "stalled"}
AfterSend   == {"record", "confirm", "markRow", "markPaid", "release", "ack",
                "markFailed", "failRow"}
HasRow      == {"confirm", "markRow", "markPaid", "release", "ack"}
Landed      == {"markRow", "markPaid", "release", "ack"}
BeforeQueue == {"idle", "plain", "approve", "edit", "confirmRow", "queue"}
Active(j)   == job[j].state = "active"

(* A job that may still run has attempts left, a job past its first update *)
(* works for a task, and one past RecordRow has a row.                     *)
JobInv ==
  \A j \in Jobs :
    /\ job[j].state \in Live => job[j].made < Attempts
    /\ job[j].state = "none" => job[j] = NoJob
    /\ Active(j) /\ job[j].pc \notin {"processing", "markFailed"} => InTasks(j)
    /\ Active(j) /\ job[j].pc \in HasRow => Recorded(job[j].task)

(* A request between two awaits has a task, and one that is about to write *)
(* a row has seen it.                                                      *)
ReqInv ==
  \A r \in Requests :
    /\ req[r].pc \notin {"idle", "done"} => req[r].task \in Tasks
    /\ req[r].pc = "confirmRow" => Recorded(req[r].task)

(* The monitor works on rows that exist.                                   *)
MonInv ==
  /\ mon.pc # "idle" => \A t \in mon.left : Recorded(t)
  /\ mon.pc \in {"confirm", "paid", "fail", "failTask"} =>
       mon.task \in Tasks /\ Recorded(mon.task)

Typed == TypeOK /\ JobInv /\ ReqInv /\ MonInv

(* A job is queued once: the request that will queue it has not done so.   *)
FreshInv ==
  \A r \in Requests :
    /\ req[r].pc \in BeforeQueue =>
         \A p \in Payees : job[<<r, p>>].state = "none"
    /\ req[r].pc = "oversight" =>
         \A m \in req[r].left : job[<<r, m>>].state = "none"

(* A run sends one transfer, so a transfer is never sent over another.     *)
ChainInv ==
  \A j \in Jobs, n \in Runs : chain[j][n] # "none" =>
    /\ job[j].state # "none"
    /\ n <= RunOf(j)
    /\ n = RunOf(j) => \/ job[j].state \in {"stalled", "exhausted", "completed"}
                       \/ Active(j) /\ job[j].pc \in AfterSend

(* What the worker knows at each place of a run.                           *)
WorkerInv ==
  \A j \in Jobs : Active(j) =>
    /\ job[j].pc = "record" => chain[j][RunOf(j)] # "none"
    /\ job[j].pc \in HasRow => /\ ledger[job[j].task].job = j
                               /\ ledger[job[j].task].run = RunOf(j)
    /\ job[j].pc \in Landed => chain[j][RunOf(j)] = "confirmed"
    /\ job[j].pc = "ack" => released[job[j].task] = 1

(* A confirmation seen by the monitor or by a request does not go away.    *)
SeenInv ==
  /\ mon.pc \in {"confirm", "paid"} => Confirmed(mon.task)
  /\ \A r \in Requests : req[r].pc = "confirmRow" => Confirmed(req[r].task)

RowInv == \A t \in Tasks : Recorded(t) => job[ledger[t].job].state # "none"

(* Once released, the row's job is past the point where it would release.  *)
ReleasedInv ==
  \A t \in Tasks : released[t] > 0 =>
    ~ (Active(ledger[t].job) /\ job[ledger[t].job].pc \in HasRow \ {"ack"})

SafetyInv ==
  /\ Typed /\ FreshInv /\ ChainInv /\ WorkerInv /\ SeenInv /\ RowInv
  /\ LedgerMatchesChain /\ PaidHasEvidence
  /\ ReleasedAtMostOnce /\ ReleasedInv /\ CompletedIsSettled

-----------------------------------------------------------------------------
(* What a job still has before it: the attempts and stalls left to it, and *)
(* the way to the end of its run.                                          *)

Left(j) == (Attempts - job[j].made) + (MaxStalls - job[j].stalls)
Stage(pc) ==
  CASE pc = "processing" -> 11 [] pc = "send"     -> 10 [] pc = "record"     -> 9
    [] pc = "confirm"    -> 8  [] pc = "markRow"  -> 7  [] pc = "markPaid"   -> 6
    [] pc = "release"    -> 5  [] pc = "ack"      -> 4  [] pc = "markFailed" -> 3
    [] OTHER             -> 2
Way(j) ==
  CASE job[j].state = "delayed" -> 13
    [] job[j].state = "waiting" -> 12
    [] job[j].state = "active"  -> Stage(job[j].pc)
    [] job[j].state = "stalled" -> 1
    [] OTHER                    -> 0
Fuel(j) == 14 * Left(j) + Way(j)

Settled == {"completed", "failed", "exhausted"}

(* A job wears out: whatever happens to it after it was queued uses up     *)
(* some of what it has, at most 14 * (Attempts + MaxStalls) + 13 changes   *)
(* in all, and once it has ended nothing happens to it any more.  This is  *)
(* the half of JobsSettle that needs no fairness.                          *)
JobsWearOut ==
  [][\A j \in Jobs : job[j].state # "none" /\ job'[j] # job[j] =>
       /\ job[j].state \notin Settled
       /\ Fuel(j)' \in Nat /\ Fuel(j)' < Fuel(j)]_vars

(* A job that will still write the task's payment status, or that BullMQ   *)
(* gave up as stalled.                                                     *)
Holds(j, t) ==
  /\ job[j].task = t
  /\ \/ job[j].state \in {"waiting", "delayed", "stalled", "exhausted"}
     \/ Active(j) /\ job[j].pc \notin {"release", "ack", "failRow"}

(* While no database call fails, a task that reads PROCESSING -- which     *)
(* approve refuses -- is in the hands of a job that will take it out of    *)
(* there, or that BullMQ gave up: no error path of the worker, edit or     *)
(* write of the monitor leaves it behind.                                  *)
ProcessingHasJob ==
  "db" \notin Faults =>
    \A t \in Tasks : alive[t] /\ payment[t] = "PROCESSING" =>
      \E j \in Jobs : Holds(j, t)
=============================================================================
