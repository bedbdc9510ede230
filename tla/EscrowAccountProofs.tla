------------------------- MODULE EscrowAccountProofs -------------------------
(***************************************************************************)
(* Proofs about module EscrowAccount: its safety properties for any number *)
(* of requests, deposits and payouts.                                      *)
(***************************************************************************)
EXTENDS EscrowAccountInv, FiniteSetTheorems, TLAPS

(* The records the handlers' updates make.                                 *)
LEMMA SetReq ==
  ASSUME TypeOK, NEW r \in Requests, NEW x \in Handlers,
         req' = [req EXCEPT ![r] = x]
  PROVE  /\ req' \in [Requests -> Handlers]
         /\ req'[r] = x
         /\ \A q \in Requests : q # r => req'[q] = req[q]
  BY DEF TypeOK

LEMMA AnsweredIs == Answered \in Handlers /\ Answered.pc = "done"
  <1>1. Idle \in Handlers
    BY DEF Idle, Handlers, PCs
  <1> QED
    BY <1>1 DEF Answered, Handlers, PCs

LEMMA GotoIs ==
  ASSUME TypeOK, NEW r \in Requests, NEW pc \in PCs, Goto(r, pc)
  PROVE  /\ req' \in [Requests -> Handlers]
         /\ req'[r].pc = pc
         /\ req'[r].deposit = req[r].deposit
         /\ req'[r].base = req[r].base
         /\ req'[r].initial = req[r].initial
         /\ req'[r].confirmed = req[r].confirmed
         /\ \A q \in Requests : q # r => req'[q] = req[q]
  <1> DEFINE x == [req[r] EXCEPT !.pc = pc]
  <1>1. req[r] \in Handlers
    BY DEF TypeOK
  <1>2. /\ x \in Handlers /\ x.pc = pc /\ x.deposit = req[r].deposit
        /\ x.base = req[r].base /\ x.initial = req[r].initial
        /\ x.confirmed = req[r].confirmed
    BY <1>1 DEF Handlers
  <1>3. req' = [req EXCEPT ![r] = x]
    BY DEF Goto
  <1> HIDE DEF x
  <1> QED
    BY <1>2, <1>3, SetReq

LEMMA AnswerIs ==
  ASSUME TypeOK, NEW r \in Requests, Answer(r)
  PROVE  /\ req' \in [Requests -> Handlers]
         /\ req'[r].pc = "done"
         /\ \A q \in Requests : q # r => req'[q] = req[q]
  BY AnsweredIs, SetReq DEF Answer

(* The two sets the bounds count are finite.                               *)
LEMMA CountsAreNaturals ==
  /\ IsFiniteSet(Arrived) /\ Cardinality(Arrived) \in Nat
  /\ IsFiniteSet(Credited) /\ Cardinality(Credited) \in Nat
  <1>1. Arrived \in SUBSET Deposits /\ Credited \in SUBSET Deposits
    BY DEF Arrived, Credited
  <1> QED
    BY <1>1, EscrowAssumption, FS_Subset, FS_CardinalityType

-----------------------------------------------------------------------------
LEMMA InvInit == Init => EscrowInv
  <1> SUFFICES ASSUME Init PROVE EscrowInv
    OBVIOUS
  <1>1. Arrived = {} /\ Credited = {}
    BY DEF Init, Arrived, Credited
  <1>2. Cardinality({}) = 0
    BY FS_EmptySet
  <1>3. TypeOK
    <2>1. Idle \in Handlers
      BY DEF Idle, Handlers, PCs
    <2>2. req \in [Requests -> Handlers] /\ verdicts \in [Deposits -> SUBSET {"CONFIRMED", "FAILED"}]
      BY <2>1 DEF Init
    <2>3. row \in [Deposits -> RowStatus] /\ chain \in [Deposits -> OnChain]
      BY DEF Init, RowStatus, OnChain
    <2>4. owed \in 0 .. MaxPayouts
      BY EscrowAssumption DEF Init
    <2>5. /\ escrow \in Requests \cup {NoAddress} /\ address \in Requests \cup {NoAddress}
          /\ initial \in Deposits \cup {NoDeposit} /\ funded \in BOOLEAN
      BY DEF Init
    <2>6. /\ cached \in Int /\ paidTasks \in Nat /\ paidSalaries \in Nat
          /\ credits \in [Deposits -> Nat]
      BY DEF Init
    <2> QED
      BY <2>2, <2>3, <2>4, <2>5, <2>6 DEF TypeOK
  <1>4. PayInv
    BY <1>1, <1>2, EscrowAssumption DEF Init, PayInv, Balance
  <1>5. \A r \in Requests : req[r].pc = "idle"
    BY DEF Init, Idle
  <1>6. AddressInv /\ CreditInv /\ RowInv /\ FundInv
    BY <1>5, EscrowAssumption
       DEF Init, AddressInv, CreditInv, RowInv, FundInv, Reading,
           AddressHasKey, CreditedOnce, RowsMatchChain, FundedHasDeposit,
           SomeCredited
  <1>7. DriftInv
    BY <1>1, <1>2, <1>5 DEF Init, DriftInv, DriftIsBounded, Credited, Reading
  <1> QED
    BY <1>3, <1>4, <1>6, <1>7 DEF EscrowInv

-----------------------------------------------------------------------------
(* A deposit that was found goes on, one that was not found is answered.   *)
LEMMA VerifyIs ==
  ASSUME TypeOK, NEW r \in Requests, DepositVerify(r)
  PROVE  /\ req' \in [Requests -> Handlers]
         /\ \A q \in Requests : q # r => req'[q] = req[q]
         /\ req[r].pc = "verify"
         /\ \/ req'[r].pc = "done"
            \/ /\ req'[r].pc = "row"
               /\ req'[r].deposit = req[r].deposit
               /\ req'[r].base = req[r].base
               /\ req'[r].initial = req[r].initial
               /\ req'[r].confirmed => chain[req[r].deposit] = "confirmed"
  <1> DEFINE b == (chain[req[r].deposit] = "confirmed")
             x == [req[r] EXCEPT !.pc = "row", !.confirmed = b]
  <1>1. req[r] \in Handlers /\ b \in BOOLEAN
    BY DEF TypeOK
  <1> HIDE DEF b
  <1>2. /\ x \in Handlers /\ x.pc = "row" /\ x.deposit = req[r].deposit
        /\ x.base = req[r].base /\ x.initial = req[r].initial
        /\ x.confirmed = b
    BY <1>1 DEF Handlers, PCs
  <1>3. req[r].pc = "verify" /\ (req' = [req EXCEPT ![r] = x] \/ Answer(r))
    BY DEF DepositVerify, b
  <1> HIDE DEF x
  <1>4. CASE req' = [req EXCEPT ![r] = x]
    <2>1. req'[r] = x
      BY <1>2, <1>4, SetReq
    <2> QED
      BY <1>2, <1>3, <1>4, <2>1, SetReq DEF b
  <1> QED
    BY <1>3, <1>4, AnswerIs

(* A refresh carries 0 or the account's balance to its write.              *)
LEMMA RefreshIs ==
  ASSUME TypeOK, NEW r \in Requests, BalanceRead(r)
  PROVE  /\ req' \in [Requests -> Handlers]
         /\ \A q \in Requests : q # r => req'[q] = req[q]
         /\ req'[r].pc = "refresh"
         /\ req'[r].base \in {0, Balance}
  <1>1. PICK b \in {0, Balance} :
          req' = [req EXCEPT ![r] = [req[r] EXCEPT !.pc = "refresh", !.base = b]]
    BY DEF BalanceRead
  <1> DEFINE x == [req[r] EXCEPT !.pc = "refresh", !.base = b]
  <1>2. b \in Int
    BY CountsAreNaturals DEF TypeOK, Balance
  <1>3. req[r] \in Handlers
    BY DEF TypeOK
  <1>4. x \in Handlers /\ x.pc = "refresh" /\ x.base = b
    BY <1>2, <1>3 DEF Handlers, PCs
  <1>5. req' = [req EXCEPT ![r] = x]
    BY <1>1
  <1> HIDE DEF x
  <1> QED
    BY <1>1, <1>4, <1>5, SetReq

(* What a handler's step makes of the handler.                             *)
LEMMA HandlerTyped ==
  ASSUME TypeOK, NEW r \in Requests, Handler(r)
  PROVE  /\ req' \in [Requests -> Handlers]
         /\ \A q \in Requests : q # r => req'[q] = req[q]
  <1> USE DEF PCs
  <1>1. CASE CreateCheck(r)
    BY <1>1, GotoIs DEF CreateCheck
  <1>2. CASE CreateEscrow(r)
    <2>1. Goto(r, "address") \/ Answer(r)
      BY <1>2 DEF CreateEscrow
    <2> QED
      BY <2>1, GotoIs, AnswerIs
  <1>3. CASE SetAddress(r) \/ DepositFund(r) \/ BalanceWrite(r) \/ HandlerDies(r)
    BY <1>3, AnswerIs DEF SetAddress, DepositFund, BalanceWrite, HandlerDies
  <1>4. ASSUME NEW d \in Deposits, DepositRead(r, d)
        PROVE  /\ req' \in [Requests -> Handlers]
               /\ \A q \in Requests : q # r => req'[q] = req[q]
    <2> DEFINE x == [pc |-> "verify", deposit |-> d, base |-> cached,
                     initial |-> initial, confirmed |-> FALSE]
    <2>1. x \in Handlers
      BY DEF TypeOK, Handlers
    <2>2. req' = [req EXCEPT ![r] = x]
      BY <1>4 DEF DepositRead
    <2> HIDE DEF x
    <2> QED
      BY <2>1, <2>2, SetReq
  <1>5. CASE DepositVerify(r)
    BY <1>5, VerifyIs
  <1>6. CASE DepositRow(r)
    <2>1. Goto(r, "credit") \/ Answer(r)
      BY <1>6 DEF DepositRow
    <2> QED
      BY <2>1, GotoIs, AnswerIs
  <1>7. CASE DepositCredit(r)
    <2>1. Goto(r, "fund")
      BY <1>7 DEF DepositCredit
    <2> QED
      BY <2>1, GotoIs
  <1>8. CASE BalanceRead(r)
    BY <1>8, RefreshIs
  <1> QED
    BY <1>1, <1>2, <1>3, <1>4, <1>5, <1>6, <1>7, <1>8 DEF Handler

-----------------------------------------------------------------------------
LEMMA TypedNext == TypeOK /\ PayInv /\ [Next]_vars => TypeOK'
  <1> SUFFICES ASSUME TypeOK, PayInv, [Next]_vars PROVE TypeOK'
    OBVIOUS
  <1>1. req' \in [Requests -> Handlers]
    <2>1. ASSUME NEW r \in Requests, Handler(r) PROVE req' \in [Requests -> Handlers]
      BY <2>1, HandlerTyped
    <2>2. CASE UNCHANGED req
      BY <2>2 DEF TypeOK
    <2> QED
      BY <2>1, <2>2 DEF Next, vars, ChainAccept, ChainConfirm, ChainDrop, ChainStep,
         AskChain, WriteVerdict, PayTask, PaySalary, DeductSalary
  <1>2. ASSUME NEW r \in Requests, Handler(r) PROVE TypeOK'
    <2>1. req[r] \in Handlers
      BY DEF TypeOK
    <2>2. CASE CreateCheck(r)
      BY <1>1, <2>2 DEF TypeOK, CreateCheck, books, account
    <2>3. CASE CreateEscrow(r)
      BY <1>1, <2>3 DEF TypeOK, CreateEscrow, books, account
    <2>4. CASE SetAddress(r)
      BY <1>1, <2>4 DEF TypeOK, SetAddress, books, account
    <2>5. CASE \E d \in Deposits : DepositRead(r, d)
      BY <1>1, <2>5 DEF TypeOK, DepositRead, books, account
    <2>6. CASE DepositVerify(r)
      BY <1>1, <2>6 DEF TypeOK, DepositVerify, books, account
    <2>7. CASE DepositRow(r)
      BY <1>1, <2>7 DEF TypeOK, DepositRow, RowStatus, account
    <2>8. CASE DepositCredit(r)
      <3>1. /\ req[r].base + Amount(req[r].deposit) \in Int
            /\ req[r].initial \in Deposits \cup {NoDeposit}
        BY <2>1 DEF Handlers, Amount
      <3>2. initial' \in Deposits \cup {NoDeposit}
        <4>1. req[r].deposit \in Deposits \cup {NoDeposit}
          BY <2>1 DEF Handlers
        <4> QED
          BY <2>8, <3>1, <4>1 DEF DepositCredit
      <3>3. credits' \in [Deposits -> Nat]
        <4> DEFINE e == req[r].deposit
        <4>1. credits' = [credits EXCEPT ![e] = credits[e] + 1]
          BY <2>8 DEF DepositCredit
        <4>2. credits \in [Deposits -> Nat]
          BY DEF TypeOK
        <4> HIDE DEF e
        <4>3. e \in Deposits => credits[e] + 1 \in Nat
          BY <4>2
        <4>4. CASE e \in Deposits
          BY <4>1, <4>2, <4>3, <4>4
        <4>5. CASE e \notin Deposits
          <5>1. credits' = credits
            BY <4>1, <4>2, <4>5
          <5> QED
            BY <4>2, <5>1
        <4> QED
          BY <4>4, <4>5
      <3> QED
        BY <1>1, <2>8, <3>1, <3>2, <3>3 DEF TypeOK, DepositCredit, account
    <2>9. CASE DepositFund(r)
      BY <1>1, <2>9 DEF TypeOK, DepositFund, account
    <2>10. CASE BalanceRead(r)
      BY <1>1, <2>10 DEF TypeOK, BalanceRead, books, account
    <2>11. CASE BalanceWrite(r)
      BY <1>1, <2>1, <2>11 DEF TypeOK, BalanceWrite, Handlers, account
    <2>12. CASE HandlerDies(r)
      BY <1>1, <2>12 DEF TypeOK, HandlerDies, books, account
    <2> QED
      BY <1>2, <2>2, <2>3, <2>4, <2>5, <2>6, <2>7, <2>8, <2>9, <2>10, <2>11,
         <2>12 DEF Handler
  <1>3. ASSUME NEW d \in Deposits,
               ChainAccept(d) \/ ChainConfirm(d) \/ ChainDrop(d)
        PROVE  TypeOK'
    BY <1>1, <1>3 DEF TypeOK, ChainAccept, ChainConfirm, ChainDrop, ChainStep, OnChain,
       books
  <1>4. ASSUME NEW d \in Deposits, AskChain(d) PROVE TypeOK'
    BY <1>1, <1>4 DEF TypeOK, AskChain, books
  <1>5. ASSUME NEW d \in Deposits, WriteVerdict(d) PROVE TypeOK'
    BY <1>1, <1>5 DEF TypeOK, WriteVerdict, RowStatus
  <1>6. CASE PayTask
    BY <1>1, <1>6 DEF TypeOK, PayTask, books
  <1>7. CASE PaySalary
    <2>1. owed + 1 \in 0 .. MaxPayouts
      BY <1>7, EscrowAssumption DEF PaySalary, PayInv, TypeOK
    <2> QED
      BY <1>1, <1>7, <2>1 DEF TypeOK, PaySalary, books
  <1>8. CASE DeductSalary
    <2>1. owed - 1 \in 0 .. MaxPayouts
      BY <1>8, EscrowAssumption DEF DeductSalary, TypeOK
    <2> QED
      BY <1>1, <1>8, <2>1 DEF TypeOK, DeductSalary
  <1>9. CASE UNCHANGED vars
    BY <1>9 DEF vars, books, account, TypeOK
  <1> QED
    BY <1>2, <1>3, <1>4, <1>5, <1>6, <1>7, <1>8, <1>9 DEF Next

(* The numbers of the account only move the way the bounds allow.          *)
LEMMA ArrivedGrows ==
  ASSUME EscrowAssumption, TypeOK, [Next]_vars
  PROVE  /\ \A d \in Deposits : chain[d] = "confirmed" => chain'[d] = "confirmed"
         /\ Cardinality(Arrived) <= Cardinality(Arrived')
         /\ Cardinality(Arrived') \in Nat
  <1>1. \A d \in Deposits : chain[d] = "confirmed" => chain'[d] = "confirmed"
    <2>1. ASSUME NEW d \in Deposits, NEW from \in {"none", "pooled"},
                 NEW to \in OnChain, ChainStep(d, from, to)
          PROVE  \A e \in Deposits : chain[e] = "confirmed" => chain'[e] = "confirmed"
      BY <2>1 DEF ChainStep, TypeOK
    <2>2. CASE UNCHANGED chain
      BY <2>2
    <2> QED
      BY <2>1, <2>2
         DEF Next, vars, account, Handler, CreateCheck, CreateEscrow, SetAddress, DepositRead,
             DepositVerify, DepositRow, DepositCredit, DepositFund, BalanceRead,
             BalanceWrite, HandlerDies, ChainAccept, ChainConfirm, ChainDrop, AskChain,
             WriteVerdict, PayTask, PaySalary, DeductSalary, OnChain
  <1>2. Arrived' \in SUBSET Deposits /\ Arrived \in SUBSET Arrived'
    BY <1>1 DEF Arrived
  <1>3. IsFiniteSet(Arrived')
    BY <1>2, FS_Subset
  <1> QED
    BY <1>1, <1>2, <1>3, FS_Subset, FS_CardinalityType

LEMMA PayNext == TypeOK /\ PayInv /\ [Next]_vars => PayInv'
  <1> SUFFICES ASSUME TypeOK, PayInv, [Next]_vars PROVE PayInv'
    OBVIOUS
  <1> DEFINE n == Cardinality(Arrived)
             m == Cardinality(Arrived')
  <1>1. n \in Nat /\ m \in Nat /\ n <= m
    BY CountsAreNaturals, ArrivedGrows, EscrowAssumption
  <1>2. /\ n - paidTasks - paidSalaries >= 0
        /\ owed <= paidSalaries
        /\ paidTasks + paidSalaries <= MaxPayouts
        /\ paidTasks \in Nat /\ paidSalaries \in Nat /\ owed \in Int /\ MaxPayouts \in Nat
    BY EscrowAssumption DEF PayInv, Balance, TypeOK
  <1>3. /\ m - paidTasks' - paidSalaries' >= 0
        /\ owed' <= paidSalaries'
        /\ paidTasks' + paidSalaries' <= MaxPayouts
    <2> HIDE DEF n, m
    <2>1. CASE UNCHANGED <<paidTasks, paidSalaries, owed>>
      BY <1>1, <1>2, <2>1
    <2>2. CASE PayTask
      <3>1. n - paidTasks - paidSalaries > 0
        BY <2>2 DEF PayTask, Balance, n
      <3> QED
        BY <1>1, <1>2, <2>2, <3>1 DEF PayTask
    <2>3. CASE PaySalary
      <3>1. n - paidTasks - paidSalaries > 0
        BY <2>3 DEF PaySalary, Balance, n
      <3> QED
        BY <1>1, <1>2, <2>3, <3>1 DEF PaySalary
    <2>4. CASE DeductSalary
      BY <1>1, <1>2, <2>4 DEF DeductSalary
    <2> QED
      BY <2>1, <2>2, <2>3, <2>4
         DEF Next, vars, account, Handler, CreateCheck, CreateEscrow, SetAddress, DepositRead,
             DepositVerify, DepositRow, DepositCredit, DepositFund, BalanceRead,
             BalanceWrite, HandlerDies, ChainAccept, ChainConfirm, ChainDrop, ChainStep,
             AskChain, WriteVerdict
  <1> QED
    BY <1>3 DEF PayInv, Balance

-----------------------------------------------------------------------------
(* What a handler's step does, without the record updates.                 *)

SameRequest(r) == /\ req'[r].deposit = req[r].deposit
                  /\ req'[r].base = req[r].base
                  /\ req'[r].initial = req[r].initial

Quiet(r) == /\ req'[r].pc \in {"create", "done"}
            /\ UNCHANGED <<escrow, address, books, account>>

Creates(r) == /\ escrow = NoAddress /\ escrow' = r
              /\ req'[r].pc = "address"
              /\ UNCHANGED <<address, books, account>>

Addresses(r) == /\ req[r].pc = "address" /\ address' = r
                /\ req'[r].pc = "done"
                /\ UNCHANGED <<escrow, books, account>>

Reads(r) == /\ req'[r].pc = "verify" /\ req'[r].deposit \in Deposits
            /\ req'[r].base = cached /\ req'[r].initial = initial
            /\ UNCHANGED <<escrow, address, books, account>>

Verifies(r) == /\ req[r].pc = "verify" /\ req'[r].pc = "row" /\ SameRequest(r)
               /\ req'[r].confirmed => chain[req[r].deposit] = "confirmed"
               /\ UNCHANGED <<escrow, address, books, account>>

Inserts(r) == /\ req[r].pc = "row" /\ req'[r].pc = "credit" /\ SameRequest(r)
              /\ row[req[r].deposit] = "none"
              /\ row' = [row EXCEPT ![req[r].deposit] =
                           IF req[r].confirmed THEN "CONFIRMED" ELSE "PENDING"]
              /\ UNCHANGED <<escrow, address, cached, initial, funded, credits, account>>

Credits(r) == /\ req[r].pc = "credit" /\ req'[r].pc = "fund" /\ SameRequest(r)
              /\ cached' = req[r].base + Amount(req[r].deposit)
              /\ initial' = IF req[r].initial = NoDeposit /\ req[r].deposit \notin Empty
                              THEN req[r].deposit ELSE req[r].initial
              /\ credits' = [credits EXCEPT ![req[r].deposit] =
                               credits[req[r].deposit] + 1]
              /\ UNCHANGED <<escrow, address, funded, row, account>>

Funds(r) == /\ req[r].pc = "fund" /\ req'[r].pc = "done" /\ funded' = TRUE
            /\ UNCHANGED <<escrow, address, cached, initial, row, credits, account>>

Asks(r) == /\ req'[r].pc = "refresh" /\ req'[r].base \in {0, Balance}
           /\ UNCHANGED <<escrow, address, books, account>>

Refreshes(r) == /\ req[r].pc = "refresh" /\ req'[r].pc = "done"
                /\ cached' = req[r].base
                /\ UNCHANGED <<escrow, address, initial, funded, row, credits, account>>

HandlerStep(r) ==
  \/ Quiet(r) \/ Creates(r) \/ Addresses(r) \/ Reads(r) \/ Verifies(r)
  \/ Inserts(r) \/ Credits(r) \/ Funds(r) \/ Asks(r) \/ Refreshes(r)

LEMMA HandlerSteps ==
  ASSUME TypeOK, NEW r \in Requests, Handler(r)
  PROVE  /\ HandlerStep(r)
         /\ \A q \in Requests : q # r => req'[q] = req[q]
  <1> USE DEF PCs
  <1>1. CASE CreateCheck(r)
    BY <1>1, GotoIs DEF CreateCheck, HandlerStep, Quiet
  <1>2. CASE CreateEscrow(r)
    <2>1. CASE escrow = NoAddress /\ escrow' = r /\ Goto(r, "address")
      BY <1>2, <2>1, GotoIs DEF CreateEscrow, HandlerStep, Creates
    <2>2. CASE Answer(r) /\ UNCHANGED escrow
      BY <1>2, <2>2, AnswerIs DEF CreateEscrow, HandlerStep, Quiet
    <2> QED
      BY <1>2, <2>1, <2>2 DEF CreateEscrow
  <1>3. CASE SetAddress(r)
    BY <1>3, AnswerIs DEF SetAddress, HandlerStep, Addresses
  <1>4. ASSUME NEW d \in Deposits, DepositRead(r, d) PROVE HandlerStep(r)
    <2> DEFINE x == [pc |-> "verify", deposit |-> d, base |-> cached,
                     initial |-> initial, confirmed |-> FALSE]
    <2>1. x \in Handlers
      BY DEF TypeOK, Handlers
    <2>2. req' = [req EXCEPT ![r] = x] /\ UNCHANGED <<escrow, address, books, account>>
      BY <1>4 DEF DepositRead
    <2>3. req'[r] = x
      BY <2>1, <2>2, SetReq
    <2> QED
      BY <2>2, <2>3 DEF HandlerStep, Reads
  <1>5. CASE DepositVerify(r)
    <2>1. UNCHANGED <<escrow, address, books, account>>
      BY <1>5 DEF DepositVerify
    <2> QED
      BY <1>5, <2>1, VerifyIs DEF HandlerStep, Quiet, Verifies, SameRequest
  <1>6. CASE DepositRow(r)
    <2>1. CASE row[req[r].deposit] = "none" /\ Goto(r, "credit")
      BY <1>6, <2>1, GotoIs DEF DepositRow, HandlerStep, Inserts, SameRequest
    <2>2. CASE Answer(r) /\ UNCHANGED row
      BY <1>6, <2>2, AnswerIs DEF DepositRow, HandlerStep, Quiet, books
    <2> QED
      BY <1>6, <2>1, <2>2 DEF DepositRow
  <1>7. CASE DepositCredit(r)
    BY <1>7, GotoIs DEF DepositCredit, HandlerStep, Credits, SameRequest
  <1>8. CASE DepositFund(r)
    BY <1>8, AnswerIs DEF DepositFund, HandlerStep, Funds
  <1>9. CASE BalanceRead(r)
    <2>1. UNCHANGED <<escrow, address, books, account>>
      BY <1>9 DEF BalanceRead
    <2> QED
      BY <1>9, <2>1, RefreshIs DEF HandlerStep, Asks
  <1>10. CASE BalanceWrite(r)
    BY <1>10, AnswerIs DEF BalanceWrite, HandlerStep, Refreshes
  <1>11. CASE HandlerDies(r)
    BY <1>11, AnswerIs DEF HandlerDies, HandlerStep, Quiet
  <1> QED
    BY <1>1, <1>2, <1>3, <1>4, <1>5, <1>6, <1>7, <1>8, <1>9, <1>10, <1>11,
       HandlerTyped DEF Handler

-----------------------------------------------------------------------------
LEMMA AddressNext == TypeOK /\ AddressInv /\ [Next]_vars => AddressInv'
  <1> SUFFICES ASSUME TypeOK, AddressInv, [Next]_vars PROVE AddressInv'
    OBVIOUS
  <1> USE DEF AddressInv, AddressHasKey
  <1>1. ASSUME NEW r \in Requests, Handler(r) PROVE AddressInv'
    <2>1. HandlerStep(r) /\ \A q \in Requests : q # r => req'[q] = req[q]
      BY <1>1, HandlerSteps
    <2>2. CASE Creates(r)
      <3>1. \A q \in Requests : req[q].pc # "address"
        BY <2>2, EscrowAssumption DEF Creates
      <3> QED
        BY <2>1, <2>2, <3>1, EscrowAssumption DEF Creates
    <2>3. CASE Addresses(r)
      BY <2>1, <2>3 DEF Addresses
    <2>4. CASE UNCHANGED <<escrow, address>> /\ req'[r].pc # "address"
      BY <2>1, <2>4
    <2> QED
      BY <2>1, <2>2, <2>3, <2>4
         DEF HandlerStep, Quiet, Reads, Verifies, Inserts, Credits, Funds, Asks,
             Refreshes
  <1>2. CASE UNCHANGED <<escrow, address, req>>
    BY <1>2
  <1> QED
    BY <1>1, <1>2
       DEF Next, vars, ChainAccept, ChainConfirm, ChainDrop, ChainStep,
           AskChain, WriteVerdict, PayTask, PaySalary, DeductSalary

-----------------------------------------------------------------------------
LEMMA CreditNext == TypeOK /\ CreditInv /\ [Next]_vars => CreditInv'
  <1> SUFFICES ASSUME TypeOK, CreditInv, [Next]_vars PROVE CreditInv'
    OBVIOUS
  <1> USE DEF CreditInv, CreditedOnce, Reading
  <1>1. row \in [Deposits -> RowStatus] /\ credits \in [Deposits -> Nat]
    BY DEF TypeOK
  <1>2. ASSUME NEW r \in Requests, Handler(r) PROVE CreditInv'
    <2>1. HandlerStep(r) /\ \A q \in Requests : q # r => req'[q] = req[q]
      BY <1>2, HandlerSteps
    <2>2. CASE UNCHANGED <<row, credits>> /\ req'[r].pc \notin Reading \cup {"fund"}
      BY <2>1, <2>2
    <2>3. CASE Reads(r)
      BY <2>1, <2>3 DEF Reads, books
    <2>4. CASE Verifies(r)
      BY <2>1, <2>4 DEF Verifies, SameRequest, books
    <2>5. CASE Inserts(r)
      <3> DEFINE e == req[r].deposit
      <3>1. e \in Deposits /\ row[e] = "none" /\ credits[e] = 0
        BY <1>1, <2>5 DEF Inserts
      <3>2. row'[e] # "none" /\ \A d \in Deposits : d # e => row'[d] = row[d]
        BY <1>1, <2>5, <3>1 DEF Inserts
      <3>3. \A q \in Requests : req[q].pc = "credit" => req[q].deposit # e
        BY <3>1
      <3>4. /\ credits' = credits /\ req'[r].deposit = e /\ req'[r].pc = "credit"
            /\ req[r].pc = "row"
        BY <2>5 DEF Inserts, SameRequest
      <3> HIDE DEF e
      <3>5. CreditedOnce'
        BY <3>1, <3>2, <3>4
      <3> QED
        BY <2>1, <3>1, <3>2, <3>3, <3>4, <3>5
    <2>6. CASE Credits(r)
      <3> DEFINE e == req[r].deposit
      <3>1. e \in Deposits /\ row[e] # "none" /\ credits[e] = 0 /\ req[r].pc = "credit"
        BY <2>6 DEF Credits
      <3>2. credits'[e] = 1 /\ \A d \in Deposits : d # e => credits'[d] = credits[d]
        BY <1>1, <2>6, <3>1 DEF Credits
      <3>3. \A q \in Requests : req[q].pc = "credit" /\ q # r => req[q].deposit # e
        BY <3>1
      <3>4. row' = row /\ req'[r].deposit = e /\ req'[r].pc = "fund"
        BY <2>6 DEF Credits, SameRequest
      <3> HIDE DEF e
      <3>5. CreditedOnce'
        BY <3>1, <3>2, <3>4
      <3> QED
        BY <2>1, <3>1, <3>2, <3>3, <3>4, <3>5
    <2> QED
      BY <2>1, <2>2, <2>3, <2>4, <2>5, <2>6
         DEF HandlerStep, Quiet, Creates, Addresses, Funds, Asks, Refreshes, books
  <1>3. ASSUME NEW d \in Deposits, WriteVerdict(d) PROVE CreditInv'
    <2>1. PICK v \in verdicts[d] : row' = [row EXCEPT ![d] = v]
      BY <1>3 DEF WriteVerdict
    <2>2. v # "none"
      BY DEF TypeOK
    <2>3. \A e \in Deposits : row[e] # "none" => row'[e] # "none"
      BY <1>1, <2>1, <2>2
    <2>4. UNCHANGED <<credits, req>>
      BY <1>3 DEF WriteVerdict
    <2> QED
      BY <2>3, <2>4
  <1>4. CASE UNCHANGED <<row, credits, req>>
    BY <1>4
  <1> QED
    BY <1>2, <1>3, <1>4
       DEF Next, vars, books, ChainAccept, ChainConfirm, ChainDrop, ChainStep,
           AskChain, PayTask, PaySalary, DeductSalary

-----------------------------------------------------------------------------
LEMMA RowNext == TypeOK /\ CreditInv /\ RowInv /\ [Next]_vars => RowInv'
  <1> SUFFICES ASSUME TypeOK, CreditInv, RowInv, [Next]_vars PROVE RowInv'
    OBVIOUS
  <1> USE DEF RowInv, RowsMatchChain
  <1>1. /\ row \in [Deposits -> RowStatus]
        /\ verdicts \in [Deposits -> SUBSET {"CONFIRMED", "FAILED"}]
    BY DEF TypeOK
  <1>2. \A d \in Deposits : chain[d] = "confirmed" => chain'[d] = "confirmed"
    BY ArrivedGrows, EscrowAssumption
  <1>3. \A r \in Requests : req[r].pc \in {"verify", "row"} => req[r].deposit \in Deposits
    BY DEF CreditInv, Reading
  <1>4. ASSUME NEW r \in Requests, Handler(r) PROVE RowInv'
    <2>1. HandlerStep(r) /\ \A q \in Requests : q # r => req'[q] = req[q]
      BY <1>4, HandlerSteps
    <2>2. CASE UNCHANGED <<row, chain, verdicts>> /\ req'[r].pc # "row"
      BY <2>1, <2>2
    <2>3. CASE Verifies(r)
      BY <2>1, <2>3 DEF Verifies, SameRequest, books, account
    <2>4. CASE Inserts(r)
      <3> DEFINE e == req[r].deposit
                 v == IF req[r].confirmed THEN "CONFIRMED" ELSE "PENDING"
      <3>1. /\ e \in Deposits /\ row' = [row EXCEPT ![e] = v]
            /\ v = "CONFIRMED" => chain[e] = "confirmed"
            /\ UNCHANGED <<chain, verdicts>> /\ req'[r].pc = "credit"
        BY <1>3, <2>4 DEF Inserts, account
      <3> HIDE DEF e, v
      <3>2. RowsMatchChain' /\ \A d \in Deposits : row[d] # "none" => row'[d] # "none"
        <4>1. v # "none"
          BY DEF v
        <4> QED
          BY <1>1, <3>1, <4>1
      <3> QED
        BY <2>1, <3>1, <3>2
    <2> QED
      BY <2>1, <2>2, <2>3, <2>4
         DEF HandlerStep, Quiet, Creates, Addresses, Reads, Credits, Funds, Asks,
             Refreshes, books, account
  <1>5. ASSUME NEW d \in Deposits, WriteVerdict(d) PROVE RowInv'
    <2>1. PICK v \in verdicts[d] : /\ row' = [row EXCEPT ![d] = v]
                                   /\ verdicts' = [verdicts EXCEPT ![d] = @ \ {v}]
      BY <1>5 DEF WriteVerdict
    <2>2. UNCHANGED <<chain, req>>
      BY <1>5 DEF WriteVerdict
    <2>3. RowsMatchChain'
      BY <1>1, <2>1, <2>2
    <2>4. \A e \in Deposits : verdicts'[e] \subseteq verdicts[e]
      BY <1>1, <2>1
    <2>5. \A e \in Deposits : row[e] # "none" => row'[e] # "none"
      BY <1>1, <2>1
    <2> QED
      BY <2>2, <2>3, <2>4, <2>5
  <1>6. ASSUME NEW d \in Deposits, AskChain(d) PROVE RowInv'
    <2>1. PICK v \in {"CONFIRMED", "FAILED"} :
            /\ v = "CONFIRMED" <=> chain[d] = "confirmed"
            /\ verdicts' = [verdicts EXCEPT ![d] = @ \cup {v}]
      BY <1>6 DEF AskChain
    <2>2. UNCHANGED <<row, chain, req>>
      BY <1>6 DEF AskChain, books
    <2>3. \A e \in Deposits : "CONFIRMED" \in verdicts'[e] => chain[e] = "confirmed"
      BY <1>1, <2>1
    <2>4. \A e \in Deposits : verdicts'[e] # {} => row[e] # "none"
      BY <1>1, <1>6, <2>1 DEF AskChain
    <2> QED
      BY <2>2, <2>3, <2>4
  <1>7. CASE UNCHANGED <<row, verdicts, req>>
    BY <1>2, <1>3, <1>7
  <1> QED
    BY <1>4, <1>5, <1>6, <1>7
       DEF Next, vars, books, account, ChainAccept, ChainConfirm, ChainDrop, ChainStep,
           PayTask, PaySalary, DeductSalary

-----------------------------------------------------------------------------
LEMMA FundNext == TypeOK /\ CreditInv /\ FundInv /\ [Next]_vars => FundInv'
  <1> SUFFICES ASSUME TypeOK, CreditInv, FundInv, [Next]_vars PROVE FundInv'
    OBVIOUS
  <1> USE DEF FundInv, FundedHasDeposit, Reading
  <1>1. credits \in [Deposits -> Nat] /\ initial \in Deposits \cup {NoDeposit}
    BY DEF TypeOK
  <1>2. \A r \in Requests : req[r].initial \in Deposits \cup {NoDeposit}
    BY DEF TypeOK, Handlers
  <1>3. ASSUME NEW r \in Requests, Handler(r) PROVE FundInv'
    <2> USE DEF SomeCredited
    <2>1. HandlerStep(r) /\ \A q \in Requests : q # r => req'[q] = req[q]
      BY <1>3, HandlerSteps
    <2>2. CASE /\ UNCHANGED <<initial, funded, credits>>
               /\ req'[r].pc \notin Reading \cup {"fund"}
      BY <2>1, <2>2
    <2>3. CASE Reads(r)
      BY <2>1, <2>3 DEF Reads, books
    <2>4. CASE Verifies(r) \/ Inserts(r)
      BY <2>1, <2>4 DEF Verifies, Inserts, SameRequest, books
    <2>5. CASE Credits(r)
      <3> DEFINE e == req[r].deposit
                 i == req[r].initial
      <3>1. /\ e \in Deposits /\ req[r].pc = "credit" /\ i \in Deposits \cup {NoDeposit}
            /\ i # NoDeposit => i \notin Empty /\ credits[i] > 0
        BY <1>2, <2>5 DEF Credits, CreditInv
      <3>2. credits'[e] > 0 /\ \A d \in Deposits : d # e => credits'[d] = credits[d]
        BY <1>1, <2>5, <3>1 DEF Credits
      <3>3. /\ initial' = IF i = NoDeposit /\ e \notin Empty THEN e ELSE i
            /\ funded' = funded /\ req'[r].pc = "fund"
        BY <2>5 DEF Credits
      <3> HIDE DEF e, i
      <3>4. \A d \in Deposits : credits[d] > 0 => credits'[d] > 0
        BY <3>2
      <3>5. SomeCredited(Deposits)' /\ (e \in Empty => SomeCredited(Empty)')
        BY <3>1, <3>2, EscrowAssumption DEF SomeCredited
      <3>6. initial' # NoDeposit => initial' \notin Empty /\ credits'[initial'] > 0
        BY <3>1, <3>2, <3>3, <3>4
      <3>7. e \in Empty \/ initial' # NoDeposit
        BY <3>1, <3>3, EscrowAssumption
      <3>8. FundedHasDeposit'
        BY <3>5, <3>6, <3>7
      <3> QED
        BY <1>2, <2>1, <3>3, <3>4, <3>5, <3>8
    <2>6. CASE Funds(r)
      BY <2>1, <2>6 DEF Funds
    <2> QED
      BY <2>1, <2>2, <2>3, <2>4, <2>5, <2>6
         DEF HandlerStep, Quiet, Creates, Addresses, Asks, Refreshes, books
  <1>4. CASE UNCHANGED <<initial, funded, credits, req>>
    BY <1>4 DEF SomeCredited
  <1> QED
    BY <1>3, <1>4
       DEF Next, vars, books, ChainAccept, ChainConfirm, ChainDrop, ChainStep,
           AskChain, WriteVerdict, PayTask, PaySalary, DeductSalary

-----------------------------------------------------------------------------
LEMMA DriftNext ==
  TypeOK /\ PayInv /\ CreditInv /\ DriftInv /\ [Next]_vars => DriftInv'
  <1> SUFFICES ASSUME TypeOK, PayInv, CreditInv, DriftInv, [Next]_vars PROVE DriftInv'
    OBVIOUS
  <1> DEFINE n == Cardinality(Arrived)
             k == Cardinality(Arrived')
             m == Cardinality(Credited)
             l == Cardinality(Credited')
  <1>1. n \in Nat /\ k \in Nat /\ m \in Nat /\ n <= k
    BY CountsAreNaturals, ArrivedGrows, EscrowAssumption
  <1>2. /\ cached \in Int /\ owed \in Int /\ paidSalaries \in Int /\ paidTasks \in Nat
        /\ \A r \in Requests : req[r].base \in Int
        /\ credits \in [Deposits -> Nat]
    BY EscrowAssumption DEF TypeOK, Handlers
  <1>3. /\ cached <= n + m /\ cached >= owed - paidSalaries
        /\ \A r \in Requests :
             /\ req[r].pc \in Reading => req[r].base <= n + m
             /\ req[r].pc = "refresh" => req[r].base <= n
             /\ req[r].pc \in Reading \cup {"refresh"} =>
                  req[r].base >= owed - paidSalaries
    BY DEF DriftInv, DriftIsBounded, Credited
  <1>4. SUFFICES /\ cached' <= k + l /\ cached' >= owed' - paidSalaries'
                 /\ \A r \in Requests :
                      /\ req'[r].pc \in Reading => req'[r].base <= k + l
                      /\ req'[r].pc = "refresh" => req'[r].base <= k
                      /\ req'[r].pc \in Reading \cup {"refresh"} =>
                           req'[r].base >= owed' - paidSalaries'
    BY DEF DriftInv, DriftIsBounded, Credited
  <1>5. credits' = credits => l = m
    BY DEF Credited
  <1>6. Balance <= n /\ Balance >= 0 /\ owed - paidSalaries <= 0 /\ Balance \in Int
    BY <1>1, <1>2 DEF Balance, PayInv, TypeOK
  <1> USE DEF Reading
  <1> HIDE DEF n, m, k, l
  <1>7. ASSUME NEW r \in Requests, Handler(r)
        PROVE  /\ cached' <= k + l /\ cached' >= owed' - paidSalaries'
               /\ \A q \in Requests :
                    /\ req'[q].pc \in Reading => req'[q].base <= k + l
                    /\ req'[q].pc = "refresh" => req'[q].base <= k
                    /\ req'[q].pc \in Reading \cup {"refresh"} =>
                         req'[q].base >= owed' - paidSalaries'
    <2>1. HandlerStep(r) /\ \A q \in Requests : q # r => req'[q] = req[q]
      BY <1>7, HandlerSteps
    <2>2. UNCHANGED <<owed, paidSalaries>>
      BY <2>1
         DEF HandlerStep, Quiet, Creates, Addresses, Reads, Verifies, Inserts, Credits,
             Funds, Asks, Refreshes, account
    <2>3. CASE UNCHANGED <<cached, credits>> /\ req'[r].pc \notin Reading \cup {"refresh"}
      BY <1>1, <1>2, <1>3, <1>5, <2>1, <2>2, <2>3
    <2>4. CASE Reads(r) \/ Verifies(r) \/ Inserts(r)
      <3>1. /\ UNCHANGED <<cached, credits>>
            /\ \/ req'[r].base = cached
               \/ req'[r].base = req[r].base /\ req[r].pc \in Reading
            /\ req'[r].pc # "refresh"
        BY <2>4 DEF Reads, Verifies, Inserts, SameRequest, books
      <3> QED
        BY <1>1, <1>2, <1>3, <1>5, <2>1, <2>2, <3>1
    <2>5. CASE Credits(r)
      <3> DEFINE e == req[r].deposit
      <3>1. e \in Deposits /\ credits[e] = 0
        BY <2>5 DEF Credits, CreditInv
      <3>2. credits' = [credits EXCEPT ![e] = 1]
        BY <2>5, <3>1 DEF Credits
      <3>3. Credited' = Credited \cup {e} /\ e \notin Credited
        BY <1>2, <3>1, <3>2 DEF Credited
      <3>4. l = m + 1
        BY <3>3, CountsAreNaturals, FS_AddElement DEF l, m
      <3>5. /\ cached' \in {req[r].base, req[r].base + 1}
            /\ req[r].pc = "credit" /\ req'[r].pc = "fund"
        BY <1>2, <2>5 DEF Credits, Amount
      <3> QED
        BY <1>1, <1>2, <1>3, <2>1, <2>2, <3>4, <3>5
    <2>6. CASE Asks(r)
      <3>1. /\ UNCHANGED <<cached, credits>> /\ req'[r].pc = "refresh"
            /\ req'[r].base = 0 \/ req'[r].base = Balance
        BY <2>6 DEF Asks, books
      <3> QED
        BY <1>1, <1>2, <1>3, <1>5, <1>6, <2>1, <2>2, <3>1
    <2>7. CASE Refreshes(r)
      <3>1. /\ UNCHANGED credits /\ req[r].pc = "refresh" /\ req'[r].pc = "done"
            /\ cached' = req[r].base
        BY <2>7 DEF Refreshes
      <3> QED
        BY <1>1, <1>2, <1>3, <1>5, <2>1, <2>2, <3>1
    <2> QED
      BY <2>1, <2>3, <2>4, <2>5, <2>6, <2>7
         DEF HandlerStep, Quiet, Creates, Addresses, Funds, books
  <1>8. CASE UNCHANGED <<cached, credits, owed, paidSalaries, req>>
    BY <1>1, <1>2, <1>3, <1>5, <1>8
  <1>9. CASE PaySalary
    <2>1. /\ UNCHANGED <<cached, credits, req>>
          /\ paidSalaries' = paidSalaries + 1 /\ owed' = owed + 1
      BY <1>9 DEF PaySalary, books
    <2> QED
      BY <1>1, <1>2, <1>3, <1>5, <2>1
  <1>10. CASE DeductSalary
    <2>1. /\ UNCHANGED <<credits, req, paidSalaries>>
          /\ cached' = cached - 1 /\ owed' = owed - 1
      BY <1>10 DEF DeductSalary
    <2> QED
      BY <1>1, <1>2, <1>3, <1>5, <2>1
  <1> QED
    BY <1>7, <1>8, <1>9, <1>10
       DEF Next, vars, books, account, ChainAccept, ChainConfirm, ChainDrop, ChainStep,
           AskChain, WriteVerdict, PayTask

-----------------------------------------------------------------------------
(* The books of DepositBook, step by step.                                 *)
Final == [d \in Deposits |-> chain[d] = "confirmed"]

LEMMA BookInit == Init => Book!Init
  <1> SUFFICES ASSUME Init PROVE Book!Init
    OBVIOUS
  <1>1. Final = [d \in Deposits |-> FALSE]
    BY DEF Init, Final
  <1> QED
    BY <1>1 DEF Init, Book!Init, Final

LEMMA BookHandler ==
  ASSUME EscrowInv, NEW r \in Requests, Handler(r)
  PROVE  [Book!Next]_(Book!bookVars)
  <1> DEFINE e == req[r].deposit
  <1>1. HandlerStep(r) /\ TypeOK /\ CreditInv /\ RowInv
    BY HandlerSteps DEF EscrowInv
  <1>2. CASE UNCHANGED <<row, credits, chain>>
    BY <1>2 DEF Book!bookVars
  <1>3. CASE Inserts(r)
    <2>1. e \in Deposits /\ row[e] = "none" /\ UNCHANGED <<chain, credits>>
      BY <1>1, <1>3 DEF Inserts, CreditInv, Reading, account
    <2>2. CASE req[r].confirmed
      <3>1. row' = [row EXCEPT ![e] = "CONFIRMED"] /\ Final[e]
        BY <1>1, <1>3, <2>1, <2>2 DEF Inserts, RowInv, Final
      <3>2. Book!Confirm(e)
        BY <2>1, <3>1 DEF Book!Confirm, Book!Write, Final
      <3> QED
        BY <2>1, <3>2 DEF Book!Next
    <2>3. CASE ~ req[r].confirmed
      <3>1. row' = [row EXCEPT ![e] = "PENDING"]
        BY <1>3, <2>3 DEF Inserts
      <3>2. Book!Record(e)
        BY <2>1, <3>1 DEF Book!Record, Book!Write
      <3> QED
        BY <2>1, <3>2 DEF Book!Next
    <2> QED
      BY <2>2, <2>3
  <1>4. CASE Credits(r)
    <2>1. /\ e \in Deposits /\ row[e] # "none" /\ credits[e] = 0
          /\ UNCHANGED <<row, chain>>
      BY <1>1, <1>4 DEF Credits, CreditInv, Reading, account
    <2>2. credits' = [credits EXCEPT ![e] = 1]
      BY <1>4, <2>1 DEF Credits
    <2>3. Book!Credit(e)
      BY <2>1, <2>2 DEF Book!Credit
    <2> QED
      BY <2>1, <2>3 DEF Book!Next
  <1> QED
    BY <1>1, <1>2, <1>3, <1>4
       DEF HandlerStep, Quiet, Creates, Addresses, Reads, Verifies, Funds, Asks,
           Refreshes, books, account

LEMMA BookVerdict ==
  ASSUME EscrowInv, NEW d \in Deposits, WriteVerdict(d)
  PROVE  [Book!Next]_(Book!bookVars)
  <1>1. PICK v \in verdicts[d] : row' = [row EXCEPT ![d] = v]
    BY DEF WriteVerdict
  <1>2. UNCHANGED <<credits, chain>>
    BY DEF WriteVerdict
  <1>3. CASE v = "CONFIRMED"
    <2>1. Final[d]
      BY <1>1, <1>3 DEF EscrowInv, RowInv, Final
    <2>2. Book!Confirm(d)
      BY <1>1, <1>2, <1>3, <2>1 DEF Book!Confirm, Book!Write, Final
    <2> QED
      BY <2>2 DEF Book!Next
  <1>4. CASE v = "FAILED"
    <2>1. row[d] # "none"
      BY DEF EscrowInv, RowInv
    <2>2. Book!Fail(d)
      BY <1>1, <1>2, <1>4, <2>1 DEF Book!Fail, Book!Write
    <2> QED
      BY <2>2 DEF Book!Next
  <1> QED
    BY <1>1, <1>3, <1>4 DEF EscrowInv, TypeOK

LEMMA BookStep == EscrowInv /\ [Next]_vars => [Book!Next]_(Book!bookVars)
  <1> SUFFICES ASSUME EscrowInv, [Next]_vars PROVE [Book!Next]_(Book!bookVars)
    OBVIOUS
  <1>1. ASSUME NEW r \in Requests, Handler(r) PROVE [Book!Next]_(Book!bookVars)
    BY <1>1, BookHandler
  <1>2. ASSUME NEW d \in Deposits, ChainConfirm(d) PROVE [Book!Next]_(Book!bookVars)
    <2>1. chain' = [chain EXCEPT ![d] = "confirmed"] /\ UNCHANGED <<row, credits>>
      BY <1>2 DEF ChainConfirm, ChainStep, books
    <2>2. chain \in [Deposits -> OnChain]
      BY DEF EscrowInv, TypeOK
    <2>3. Final' = [Final EXCEPT ![d] = TRUE]
      BY <2>1, <2>2 DEF Final
    <2>4. Book!Finish(d)
      BY <2>1, <2>3 DEF Book!Finish, Final
    <2> QED
      BY <2>4 DEF Book!Next
  <1>3. ASSUME NEW d \in Deposits, ChainAccept(d) \/ ChainDrop(d)
        PROVE  [Book!Next]_(Book!bookVars)
    <2>1. PICK s \in {"pooled", "dropped"} :
            /\ chain[d] # "confirmed" /\ chain' = [chain EXCEPT ![d] = s]
            /\ UNCHANGED <<row, credits>>
      BY <1>3 DEF ChainAccept, ChainDrop, ChainStep, books
    <2>2. chain \in [Deposits -> OnChain]
      BY DEF EscrowInv, TypeOK
    <2>3. Final' = Final
      BY <2>1, <2>2 DEF Final
    <2> QED
      BY <2>1, <2>3 DEF Book!bookVars, Final
  <1>4. ASSUME NEW d \in Deposits, WriteVerdict(d) PROVE [Book!Next]_(Book!bookVars)
    BY <1>4, BookVerdict
  <1>5. CASE UNCHANGED <<row, credits, chain>>
    BY <1>5 DEF Book!bookVars
  <1> QED
    BY <1>1, <1>2, <1>3, <1>4, <1>5
       DEF Next, vars, books, account, AskChain, PayTask, PaySalary, DeductSalary

-----------------------------------------------------------------------------
(* Outside the handlers nothing makes the account forget a deposit.        *)
LEMMA ForgottenElsewhere ==
  ASSUME EscrowInv, [Next]_vars, NEW d \in Deposits, Forgotten(d)', ~Forgotten(d)
  PROVE  \E r \in Requests : Handler(r)
  <1>1. CASE UNCHANGED <<row, credits, req>>
    BY <1>1 DEF Forgotten
  <1>2. ASSUME NEW e \in Deposits, WriteVerdict(e) PROVE FALSE
    <2>1. row[e] # "none" /\ UNCHANGED <<credits, req>>
      BY <1>2 DEF WriteVerdict, EscrowInv, RowInv
    <2>2. row'[d] # "none" => row[d] # "none"
      BY <1>2, <2>1 DEF WriteVerdict, EscrowInv, TypeOK
    <2> QED
      BY <2>1, <2>2 DEF Forgotten
  <1> QED
    BY <1>1, <1>2
       DEF Next, vars, books, ChainAccept, ChainConfirm, ChainDrop, ChainStep, AskChain,
           PayTask, PaySalary, DeductSalary

(* EscrowInv is inductive, so it always holds of the account.              *)
THEOREM EscrowInvariant == Spec => []EscrowInv
  <1>1. EscrowInv /\ [Next]_vars => EscrowInv'
    BY TypedNext, PayNext, AddressNext, CreditNext, RowNext, FundNext, DriftNext
       DEF EscrowInv
  <1> QED
    BY InvInit, <1>1, PTL DEF Spec

(* The variables keep their types; no more is owed than may be paid out.   *)
THEOREM TypeCorrect == Spec => []TypeOK
  BY EscrowInvariant, PTL DEF EscrowInv

(* Whatever requests race in createEscrowAccount, the address shown with   *)
(* the project is the one whose key is stored.                             *)
THEOREM OneKey == Spec => []AddressHasKey
  BY EscrowInvariant, PTL DEF EscrowInv, AddressInv

(* Any number of posts of a txHash credit its deposit at most once.        *)
THEOREM NoDoubleCredit == Spec => []CreditedOnce
  BY EscrowInvariant, PTL DEF EscrowInv, CreditInv

(* The handlers of any number of requests, dying anywhere, the monitor and *)
(* the chain together do only what module DepositBook allows.              *)
THEOREM DepositsAreKept == Spec => DepositsAreBooked
  <1>1. EscrowInv /\ [Next]_vars => [Book!Next]_(Book!bookVars)
    BY BookStep
  <1> QED
    BY <1>1, BookInit, EscrowInvariant, PTL DEF Spec, DepositsAreBooked, Book!Spec

(* A deposit's row never says CONFIRMED before the chain does.             *)
THEOREM DepositRowsAreTrue == Spec => []RowsMatchChain
  BY EscrowInvariant, PTL DEF EscrowInv, RowInv

(* A project shown as funded has a credited deposit, and initialDeposit is *)
(* the amount of one, whatever deposits race, empty ones included.         *)
THEOREM FundedIsBacked == Spec => []FundedHasDeposit
  BY EscrowInvariant, PTL DEF EscrowInv, FundInv

(* Whatever any number of requests, verdicts and payouts do, a recorded    *)
(* deposit is forgotten only by the death of the handler that recorded it. *)
THEOREM DepositsAreRemembered == Spec => ForgottenNeedsCause
  <1>1. ASSUME EscrowInv, [Next]_vars, NEW d \in Deposits, Forgotten(d)', ~Forgotten(d)
        PROVE  \E r \in Requests : /\ req[r].pc = "credit" /\ req[r].deposit = d
                                   /\ HandlerDies(r)
    <2> USE DEF EscrowInv
    <2>1. PICK r \in Requests : Handler(r)
      BY <1>1, ForgottenElsewhere
    <2>2. HandlerStep(r) /\ \A q \in Requests : q # r => req'[q] = req[q]
      BY <1>1, <2>1, HandlerSteps
    <2>3. credits \in [Deposits -> Nat] /\ row \in [Deposits -> RowStatus]
      BY <1>1 DEF TypeOK
    <2>4. ~Inserts(r) \/ req[r].deposit # d
      BY <1>1 DEF Inserts, SameRequest, Forgotten
    <2>5. \A e \in Deposits : credits'[e] = 0 => credits[e] = 0
      BY <1>1, <2>2, <2>3
         DEF HandlerStep, Quiet, Creates, Addresses, Reads, Verifies, Inserts,
             Credits, Funds, Asks, Refreshes, books
    <2>6. row'[d] = row[d]
      BY <2>2, <2>3, <2>4
         DEF HandlerStep, Quiet, Creates, Addresses, Reads, Verifies, Inserts,
             Credits, Funds, Asks, Refreshes, books
    <2>7. PICK q \in Requests : req[q].pc = "credit" /\ req[q].deposit = d
      BY <1>1, <2>5, <2>6 DEF Forgotten
    <2>8. q = r
      BY <1>1, <2>2, <2>7 DEF Forgotten
    <2>9. DepositCredit(r) \/ HandlerDies(r)
      BY <2>1, <2>7, <2>8
         DEF Handler, CreateCheck, CreateEscrow, SetAddress, DepositRead, DepositVerify,
             DepositRow, DepositFund, BalanceRead, BalanceWrite
    <2>10. ~DepositCredit(r)
      BY <1>1, <2>3, <2>7, <2>8 DEF DepositCredit, Forgotten
    <2> QED
      BY <2>7, <2>8, <2>9, <2>10
  <1>2. EscrowInv /\ [Next]_vars =>
          [\A d \in Deposits : Forgotten(d)' /\ ~Forgotten(d) =>
             \E r \in Requests : /\ req[r].pc = "credit" /\ req[r].deposit = d
                                 /\ HandlerDies(r)]_vars
    BY <1>1
  <1> QED
    BY <1>2, EscrowInvariant, PTL DEF Spec, ForgottenNeedsCause

(* For any number of deposits, refreshes and payouts, lost updates move    *)
(* the cached balance by no more than one unit per credited deposit.       *)
THEOREM BoundedDrift == Spec => []DriftIsBounded
  BY EscrowInvariant, PTL DEF EscrowInv, DriftInv
=============================================================================
