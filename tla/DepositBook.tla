----------------------------- MODULE DepositBook -----------------------------
(***************************************************************************)
(* What the escrow account promises about deposits, whatever the requests  *)
(* that race, repeat or die: a transfer is recorded once and its record    *)
(* never goes away, the record says CONFIRMED only once the transfer is    *)
(* final, and its amount is added to the balance once at most, after it    *)
(* was recorded.  It does not promise that the balance then keeps it.      *)
(***************************************************************************)
EXTENDS Naturals

CONSTANT Deposits

VARIABLES
  entry,    \* the record of each deposit
  final,    \* its transfer is confirmed on the chain, for good
  credits   \* how often its amount was added to the balance

bookVars == <<entry, final, credits>>

Init ==
  /\ entry = [d \in Deposits |-> "none"]
  /\ final = [d \in Deposits |-> FALSE]
  /\ credits = [d \in Deposits |-> 0]

Finish(d) ==
  /\ final' = [final EXCEPT ![d] = TRUE]
  /\ UNCHANGED <<entry, credits>>

Write(d, status) ==
  /\ entry' = [entry EXCEPT ![d] = status]
  /\ UNCHANGED <<final, credits>>

Record(d) == entry[d] = "none" /\ Write(d, "PENDING")
Confirm(d) == final[d] /\ Write(d, "CONFIRMED")

(* The monitor's answer may be older than the record it overwrites.        *)
Fail(d) == entry[d] # "none" /\ Write(d, "FAILED")

Credit(d) ==
  /\ entry[d] # "none"
  /\ credits[d] = 0
  /\ credits' = [credits EXCEPT ![d] = 1]
  /\ UNCHANGED <<entry, final>>

Next == \E d \in Deposits : Finish(d) \/ Record(d) \/ Confirm(d) \/ Fail(d) \/ Credit(d)

Spec == Init /\ [][Next]_bookVars
=============================================================================
