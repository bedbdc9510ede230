---------------------------- MODULE PaymentLedger ----------------------------
(***************************************************************************)
(* What the payment pipeline promises about its books, whatever the        *)
(* interleaving: each task has at most one ledger entry for ever, which is *)
(* about one transfer for ever; the entry is decided for good, and booked  *)
(* as confirmed only once its transfer is on the chain; and the task's     *)
(* amount is added to the released funds at most once, for a transfer that *)
(* is on the chain.  An entry may still be marked failed at any time: the  *)
(* code does not promise more.                                             *)
(***************************************************************************)
EXTENDS Naturals

CONSTANTS Tasks, Transfers, NoTransfer

VARIABLES
  entry,     \* the state of the task's one ledger entry
  transfer,  \* the transfer the entry is about
  onChain,   \* the entry's transfer is confirmed on the chain
  released   \* how often the amount was added to the released funds

ledgerVars == <<entry, transfer, onChain, released>>

EntryStatus == {"NONE", "PENDING", "CONFIRMED", "FAILED"}

Init ==
  /\ entry = [t \in Tasks |-> "NONE"]
  /\ transfer = [t \in Tasks |-> NoTransfer]
  /\ onChain = [t \in Tasks |-> FALSE]
  /\ released = [t \in Tasks |-> 0]

(* The transfer may have been confirmed before it is recorded.             *)
Open(t) ==
  /\ entry[t] = "NONE"
  /\ entry' = [entry EXCEPT ![t] = "PENDING"]
  /\ \E x \in Transfers : transfer' = [transfer EXCEPT ![t] = x]
  /\ \E b \in BOOLEAN : onChain' = [onChain EXCEPT ![t] = b]
  /\ UNCHANGED released

Land(t) ==
  /\ entry[t] # "NONE"
  /\ onChain' = [onChain EXCEPT ![t] = TRUE]
  /\ UNCHANGED <<entry, transfer, released>>

Book(t) ==
  /\ entry[t] # "NONE"
  /\ onChain[t]
  /\ entry' = [entry EXCEPT ![t] = "CONFIRMED"]
  /\ UNCHANGED <<transfer, onChain, released>>

Refuse(t) ==
  /\ entry[t] # "NONE"
  /\ entry' = [entry EXCEPT ![t] = "FAILED"]
  /\ UNCHANGED <<transfer, onChain, released>>

Release(t) ==
  /\ onChain[t]
  /\ released[t] = 0
  /\ released' = [released EXCEPT ![t] = 1]
  /\ UNCHANGED <<entry, transfer, onChain>>

Next == \E t \in Tasks : Open(t) \/ Land(t) \/ Book(t) \/ Refuse(t) \/ Release(t)

Spec == Init /\ [][Next]_ledgerVars
=============================================================================
