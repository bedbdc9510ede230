---------------------------- MODULE EscrowAccount ----------------------------
(***************************************************************************)
(* A project's escrow account: POST escrow/create, POST escrow/deposit     *)
(* (and escrow/fund, the same steps), GET escrow/balance, which overwrites *)
(* the cached balance with the chain's, and the other writers of that      *)
(* balance and readers of its chain account: task and salary payments and  *)
(* the monitor of PENDING rows.                                            *)
(*                                                                         *)
(* Every payout is of one unit, and every deposit but the empty ones: a    *)
(* transfer of zero is a deposit to the code.  A request that is refused   *)
(* before it wrote anything takes no step; one whose handler dies between  *)
(* two awaits (a database error, a crash) takes HandlerDies.               *)
(***************************************************************************)
EXTENDS Integers, FiniteSets

CONSTANTS
  Requests,      \* HTTP requests, each served once; also the key pairs made
  Deposits,      \* SIZCOIN transfers into the escrow account, by txHash
  Empty,         \* the deposits whose transfer is of amount zero
  MaxPayouts,    \* bound on payments out of the account
  NoAddress,
  NoDeposit

ASSUME EscrowAssumption ==
  /\ IsFiniteSet(Deposits)
  /\ Empty \subseteq Deposits
  /\ MaxPayouts \in Nat
  /\ NoAddress \notin Requests
  /\ NoDeposit \notin Deposits

RowStatus == {"none", "PENDING", "CONFIRMED", "FAILED"}
OnChain   == {"none", "pooled", "confirmed", "dropped"}
PCs       == {"idle", "create", "address", "verify", "row", "credit", "fund",
              "refresh", "done"}

VARIABLES
  escrow,     \* ProjectEscrow.escrowAddress, one row per project
  address,    \* Project.escrowAddress
  cached,     \* ProjectEscrow.currentBalance
  initial,    \* ProjectEscrow.initialDeposit: the deposit whose amount it is
  funded,     \* Project.escrowFunded
  row,        \* BlockchainTransaction rows of type DEPOSIT, by txHash
  credits,    \* how often a deposit's amount was added to the balance
  chain,      \* the deposits on Algorand
  paidTasks,  \* task payments that left the account
  paidSalaries, \* salaries that left the account
  owed,       \* of these, the ones not yet taken from the cached balance
  verdicts,   \* the node's answers on PENDING rows, not yet written
  req         \* HTTP handlers between two awaits

(* A handler: its place, the deposit it records, and what it read before.   *)
Handlers == [pc : PCs, deposit : Deposits \cup {NoDeposit}, base : Int,
             initial : Deposits \cup {NoDeposit}, confirmed : BOOLEAN]

books   == <<cached, initial, funded, row, credits>>
account == <<chain, paidTasks, paidSalaries, owed, verdicts>>
vars    == <<escrow, address, books, account, req>>

Idle == [pc |-> "idle", deposit |-> NoDeposit, base |-> 0, initial |-> NoDeposit,
         confirmed |-> FALSE]
Answered == [Idle EXCEPT !.pc = "done"]

Amount(d) == IF d \in Empty THEN 0 ELSE 1
Arrived == {d \in Deposits \ Empty : chain[d] = "confirmed"}
(* What accountInformation answers; a transfer is refused below zero.      *)
Balance == Cardinality(Arrived) - paidTasks - paidSalaries

Init ==
  /\ escrow = NoAddress
  /\ address = NoAddress
  /\ cached = 0
  /\ initial = NoDeposit
  /\ funded = FALSE
  /\ row = [d \in Deposits |-> "none"]
  /\ credits = [d \in Deposits |-> 0]
  /\ chain = [d \in Deposits |-> "none"]
  /\ paidTasks = 0
  /\ paidSalaries = 0
  /\ owed = 0
  /\ verdicts = [d \in Deposits |-> {}]
  /\ req = [r \in Requests |-> Idle]

Goto(r, pc) == req' = [req EXCEPT ![r].pc = pc]
Answer(r)   == req' = [req EXCEPT ![r] = Answered]

-----------------------------------------------------------------------------
(* POST /projects/:projectId/escrow/create                                 *)

CreateCheck(r) ==
  /\ req[r].pc = "idle"
  /\ escrow = NoAddress
  /\ Goto(r, "create")
  /\ UNCHANGED <<escrow, address, books, account>>

(* Mutant: an upsert, for which the last request wins.                     *)
CreateEscrowUpsert(r) ==
  /\ req[r].pc = "create"
  /\ escrow' = r
  /\ Goto(r, "address")
  /\ UNCHANGED <<address, books, account>>

(* createEscrowAccount: projectId is unique, so the second of two racing   *)
(* requests throws before it touches the project.                          *)
CreateEscrow(r) ==
  /\ req[r].pc = "create"
  /\ \/ /\ escrow = NoAddress
        /\ escrow' = r
        /\ Goto(r, "address")
     \/ /\ escrow # NoAddress
        /\ Answer(r)
        /\ UNCHANGED escrow
  /\ UNCHANGED <<address, books, account>>

SetAddress(r) ==
  /\ req[r].pc = "address"
  /\ address' = r
  /\ Answer(r)
  /\ UNCHANGED <<escrow, books, account>>

-----------------------------------------------------------------------------
(* POST escrow/deposit and POST escrow/fund                                *)

(* The project and its escrow are read once; the values are used below.    *)
DepositRead(r, d) ==
  /\ req[r].pc = "idle"
  /\ escrow # NoAddress
  /\ req' = [req EXCEPT ![r] = [pc |-> "verify", deposit |-> d, base |-> cached,
                                initial |-> initial, confirmed |-> FALSE]]
  /\ UNCHANGED <<escrow, address, books, account>>

(* verifyDepositTransaction: the transfer need not be confirmed.           *)
DepositVerify(r) ==
  LET c == chain[req[r].deposit]
  IN /\ req[r].pc = "verify"
     /\ \/ /\ c \in {"pooled", "confirmed"}
           /\ req' = [req EXCEPT ![r] = [@ EXCEPT !.pc = "row",
                                                  !.confirmed = (c = "confirmed")]]
        \/ /\ c \in {"none", "dropped"}
           /\ Answer(r)
     /\ UNCHANGED <<escrow, address, books, account>>

(* Mutant: a row that exists is no obstacle.                               *)
DepositRowUpsert(r) ==
  /\ req[r].pc = "row"
  /\ row' = [row EXCEPT ![req[r].deposit] =
               IF req[r].confirmed THEN "CONFIRMED" ELSE "PENDING"]
  /\ Goto(r, "credit")
  /\ UNCHANGED <<escrow, address, cached, initial, funded, credits, account>>

(* Mutant: an unconfirmed deposit is left to be credited by the monitor.   *)
DepositRowWaits(r) ==
  LET d == req[r].deposit
  IN /\ req[r].pc = "row"
     /\ row[d] = "none"
     /\ row' = [row EXCEPT ![d] = IF req[r].confirmed THEN "CONFIRMED" ELSE "PENDING"]
     /\ IF req[r].confirmed THEN Goto(r, "credit") ELSE Answer(r)
     /\ UNCHANGED <<escrow, address, cached, initial, funded, credits, account>>

(* blockchainTransaction.create: txHash is unique.                         *)
DepositRow(r) ==
  LET d == req[r].deposit
  IN /\ req[r].pc = "row"
     /\ \/ /\ row[d] = "none"
           /\ row' = [row EXCEPT ![d] = IF req[r].confirmed THEN "CONFIRMED"
                                                             ELSE "PENDING"]
           /\ Goto(r, "credit")
        \/ /\ row[d] # "none"
           /\ Answer(r)
           /\ UNCHANGED row
     /\ UNCHANGED <<escrow, address, cached, initial, funded, credits, account>>

(* Mutant: initialDeposit is written back as it was read.                  *)
DepositCreditStale(r) ==
  /\ req[r].pc = "credit"
  /\ cached' = req[r].base + Amount(req[r].deposit)
  /\ initial' = req[r].initial
  /\ credits' = [credits EXCEPT ![req[r].deposit] = @ + 1]
  /\ Goto(r, "fund")
  /\ UNCHANGED <<escrow, address, funded, row, account>>

(* initialDeposit === 0 stands for "none yet", before and after an empty   *)
(* deposit, so initial keeps or gets NoDeposit there.                      *)
DepositCredit(r) ==
  LET d == req[r].deposit
  IN /\ req[r].pc = "credit"
     /\ cached' = req[r].base + Amount(d)
     /\ initial' = IF req[r].initial = NoDeposit /\ d \notin Empty
                     THEN d ELSE req[r].initial
     /\ credits' = [credits EXCEPT ![d] = @ + 1]
     /\ Goto(r, "fund")
     /\ UNCHANGED <<escrow, address, funded, row, account>>

DepositFund(r) ==
  /\ req[r].pc = "fund"
  /\ funded' = TRUE
  /\ Answer(r)
  /\ UNCHANGED <<escrow, address, cached, initial, row, credits, account>>

-----------------------------------------------------------------------------
(* GET escrow/balance: getEscrowBalance, which answers 0 when the node     *)
(* does not, and the write of what it answered.                            *)
BalanceRead(r) ==
  /\ req[r].pc = "idle"
  /\ escrow # NoAddress
  /\ \E b \in {0, Balance} :
       req' = [req EXCEPT ![r] = [@ EXCEPT !.pc = "refresh", !.base = b]]
  /\ UNCHANGED <<escrow, address, books, account>>

BalanceWrite(r) ==
  /\ req[r].pc = "refresh"
  /\ cached' = req[r].base
  /\ Answer(r)
  /\ UNCHANGED <<escrow, address, initial, funded, row, credits, account>>

HandlerDies(r) ==
  /\ req[r].pc \notin {"idle", "done"}
  /\ Answer(r)
  /\ UNCHANGED <<escrow, address, books, account>>

-----------------------------------------------------------------------------
(* Algorand: transfers into the account and what becomes of them.          *)
ChainStep(d, from, to) ==
  /\ escrow # NoAddress
  /\ chain[d] = from
  /\ chain' = [chain EXCEPT ![d] = to]
  /\ UNCHANGED <<escrow, address, books, paidTasks, paidSalaries, owed, req, verdicts>>

ChainAccept(d)  == ChainStep(d, "none", "pooled")
ChainConfirm(d) == ChainStep(d, "pooled", "confirmed")
ChainDrop(d)    == ChainStep(d, "pooled", "dropped")

(* monitorPendingTransactions and GET /transactions/:txHash read a PENDING *)
(* row and ask the node, which may know nothing of a transfer another node *)
(* holds; the verdict is written later, to the row and to nothing else.    *)
AskChain(d) ==
  /\ row[d] = "PENDING"
  /\ \E v \in {"CONFIRMED", "FAILED"} :
       /\ v = "CONFIRMED" <=> chain[d] = "confirmed"
       /\ verdicts' = [verdicts EXCEPT ![d] = @ \cup {v}]
  /\ UNCHANGED <<escrow, address, books, chain, paidTasks, paidSalaries, owed, req>>

WriteVerdict(d) ==
  /\ \E v \in verdicts[d] :
       /\ row' = [row EXCEPT ![d] = v]
       /\ verdicts' = [verdicts EXCEPT ![d] = @ \ {v}]
  /\ UNCHANGED <<escrow, address, cached, initial, funded, credits, chain, paidTasks,
                 paidSalaries, owed, req>>

(* The payment worker's transfer, which leaves the cached balance alone.   *)
PayTask ==
  /\ Balance > 0
  /\ paidTasks + paidSalaries < MaxPayouts
  /\ paidTasks' = paidTasks + 1
  /\ UNCHANGED <<escrow, address, books, chain, paidSalaries, owed, req, verdicts>>

(* processRecurringPayments: the transfer, and later the decrement.        *)
PaySalary ==
  /\ Balance > 0
  /\ paidTasks + paidSalaries < MaxPayouts
  /\ paidSalaries' = paidSalaries + 1
  /\ owed' = owed + 1
  /\ UNCHANGED <<escrow, address, books, chain, paidTasks, req, verdicts>>

(* Mutant: the decrement is applied again by a retry.                      *)
DeductSalaryAgain ==
  /\ owed > 0
  /\ cached' = cached - 1
  /\ UNCHANGED <<escrow, address, initial, funded, row, credits, account, req>>

DeductSalary ==
  /\ owed > 0
  /\ owed' = owed - 1
  /\ cached' = cached - 1
  /\ UNCHANGED <<escrow, address, initial, funded, row, credits, chain, paidTasks,
                 paidSalaries, verdicts, req>>

-----------------------------------------------------------------------------
Handler(r) ==
  \/ CreateCheck(r) \/ CreateEscrow(r) \/ SetAddress(r)
  \/ \E d \in Deposits : DepositRead(r, d)
  \/ DepositVerify(r) \/ DepositRow(r) \/ DepositCredit(r) \/ DepositFund(r)
  \/ BalanceRead(r) \/ BalanceWrite(r) \/ HandlerDies(r)

Next ==
  \/ \E r \in Requests : Handler(r)
  \/ \E d \in Deposits : \/ ChainAccept(d) \/ ChainConfirm(d) \/ ChainDrop(d)
                         \/ AskChain(d) \/ WriteVerdict(d)
  \/ PayTask \/ PaySalary \/ DeductSalary

Spec == Init /\ [][Next]_vars

-----------------------------------------------------------------------------
(* Types of the variables.                                                 *)
TypeOK ==
  /\ escrow \in Requests \cup {NoAddress}
  /\ address \in Requests \cup {NoAddress}
  /\ cached \in Int
  /\ initial \in Deposits \cup {NoDeposit}
  /\ funded \in BOOLEAN
  /\ row \in [Deposits -> RowStatus]
  /\ credits \in [Deposits -> Nat]
  /\ chain \in [Deposits -> OnChain]
  /\ paidTasks \in Nat /\ paidSalaries \in Nat
  /\ owed \in 0 .. MaxPayouts
  /\ verdicts \in [Deposits -> SUBSET {"CONFIRMED", "FAILED"}]
  /\ req \in [Requests -> Handlers]

(* Two racing creations leave one key pair: the address shown with the     *)
(* project, if any, is the one whose key is stored in ProjectEscrow.       *)
AddressHasKey == address \in {NoAddress, escrow}

(* The row is the idempotency key of a deposit: repeated or concurrent     *)
(* POSTs of one txHash, after errors too, add its amount at most once.     *)
CreditedOnce ==
  \A d \in Deposits : credits[d] > 0 => credits[d] = 1 /\ row[d] # "none"

(* A deposit's row says CONFIRMED only of a confirmed transfer, whether    *)
(* the deposit handler or the monitor wrote it.                            *)
RowsMatchChain == \A d \in Deposits : row[d] = "CONFIRMED" => chain[d] = "confirmed"

(* Both, step by step: the routes, the monitor and the chain together do   *)
(* only what module DepositBook allows.  No row is removed or reads PENDING *)
(* again, none says CONFIRMED before its transfer is final, and an amount  *)
(* is added once, after the row, whatever requests race, repeat or die.    *)
Book == INSTANCE DepositBook
          WITH entry <- row, final <- [d \in Deposits |-> chain[d] = "confirmed"]

DepositsAreBooked == Book!Spec

(* escrowFunded is never true without a credited deposit, which may be an  *)
(* empty one; initialDeposit, written from a stale read, is the amount of  *)
(* a credited deposit, and only an empty one can set it back to zero.      *)
SomeCredited(D) == \E d \in D : credits[d] > 0
FundedHasDeposit ==
  /\ funded => SomeCredited(Deposits)
  /\ initial # NoDeposit => initial \notin Empty /\ credits[initial] > 0
  /\ SomeCredited(Deposits \ Empty) => initial # NoDeposit \/ SomeCredited(Empty)

(* A recorded deposit whose amount nobody adds any more: a repost of it is *)
(* refused.  It comes about only when the handler that recorded it dies    *)
(* before it added the amount; no refusal, racing request, payout, refresh *)
(* or verdict about the transfer makes the account forget one.             *)
Forgotten(d) ==
  /\ row[d] # "none" /\ credits[d] = 0
  /\ \A r \in Requests : req[r].pc = "credit" => req[r].deposit # d
ForgottenNeedsCause ==
  [][\A d \in Deposits : Forgotten(d)' /\ ~Forgotten(d) =>
       \E r \in Requests : /\ req[r].pc = "credit" /\ req[r].deposit = d
                           /\ HandlerDies(r)]_vars

(* Lost updates and stale refreshes move the cached balance only so far:   *)
(* at most one unit per credited deposit above all that ever arrived, at   *)
(* most the salaries paid below zero.                                      *)
DriftIsBounded ==
  /\ cached <= Cardinality(Arrived) + Cardinality({d \in Deposits : credits[d] > 0})
  /\ cached >= owed - paidSalaries

-----------------------------------------------------------------------------
(* schema.prisma: "currentBalance ... // Current balance in escrow": when  *)
(* no handler is at work, every deposit has arrived and was credited, and  *)
(* nothing was paid out, the cached balance is the account's.              *)
BalanceIsCurrent ==
  (/\ \A r \in Requests : req[r].pc \in {"idle", "done"}
   /\ \A d \in Deposits : chain[d] = "confirmed" /\ credits[d] = 1
   /\ paidTasks = 0 /\ paidSalaries = 0)
    => cached = Balance
=============================================================================
