-------------------------- MODULE EscrowAccountInv --------------------------
(***************************************************************************)
(* The inductive invariant behind the safety properties of EscrowAccount:  *)
(* what a handler between two awaits still knows of the account.           *)
(***************************************************************************)
EXTENDS EscrowAccount

Reading  == {"verify", "row", "credit"}
Credited == {d \in Deposits : credits[d] > 0}

(* The account is never overdrawn, and no more is owed than was paid.      *)
PayInv ==
  /\ Balance >= 0
  /\ owed <= paidSalaries
  /\ paidTasks + paidSalaries <= MaxPayouts

(* A creation that inserted the escrow row is the only one that goes on.   *)
AddressInv ==
  /\ AddressHasKey
  /\ \A r \in Requests : req[r].pc = "address" => escrow = r

(* Whoever inserted a deposit's row is alone in being about to credit it.  *)
CreditInv ==
  /\ CreditedOnce
  /\ \A r \in Requests :
       /\ req[r].pc \in Reading \cup {"fund"} => req[r].deposit \in Deposits
       /\ req[r].pc = "credit" => /\ row[req[r].deposit] # "none"
                                  /\ credits[req[r].deposit] = 0
  /\ \A r, q \in Requests :
       /\ req[r].pc = "credit" /\ req[q].pc = "credit"
       /\ req[r].deposit = req[q].deposit
       => r = q

(* A confirmation that was read before an await still holds after it, and  *)
(* the monitor only answers about rows that exist.                         *)
RowInv ==
  /\ RowsMatchChain
  /\ \A d \in Deposits : "CONFIRMED" \in verdicts[d] => chain[d] = "confirmed"
  /\ \A d \in Deposits : verdicts[d] # {} => row[d] # "none"
  /\ \A r \in Requests : req[r].pc = "row" /\ req[r].confirmed =>
                           chain[req[r].deposit] = "confirmed"

(* The first deposit, stored or read, was credited.                        *)
FundInv ==
  /\ FundedHasDeposit
  /\ \A r \in Requests :
       /\ req[r].pc = "fund" => SomeCredited(Deposits)
       /\ req[r].pc \in Reading /\ req[r].initial # NoDeposit =>
            req[r].initial \notin Empty /\ credits[req[r].initial] > 0

(* A balance read before an await lies within the bounds that hold now.    *)
DriftInv ==
  /\ DriftIsBounded
  /\ \A r \in Requests :
       /\ req[r].pc \in Reading =>
            req[r].base <= Cardinality(Arrived) + Cardinality(Credited)
       /\ req[r].pc = "refresh" => req[r].base <= Cardinality(Arrived)
       /\ req[r].pc \in Reading \cup {"refresh"} =>
            req[r].base >= owed - paidSalaries

EscrowInv ==
  /\ TypeOK /\ PayInv /\ AddressInv /\ CreditInv /\ RowInv /\ FundInv /\ DriftInv
=============================================================================
