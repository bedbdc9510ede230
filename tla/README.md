# Verification of the SIZ ERP backend

TLA+ modules for the parts of this backend in which money, shared records and
background work meet, the TLC runs that check them on small instances, and
TLAPS proofs for every size of the system. Paths are relative to the
repository (`src/...` is its own `src` directory).

## 1. The system

The backend is an Express application over one PostgreSQL database (Prisma), a
Redis instance (BullMQ queue, chat), and the Algorand chain, on which the
project token SIZCOIN lives. One Node.js process serves requests, runs the
payment worker, the monitor of pending transactions and the midnight timer;
everything interleaves at each `await`. Four kinds of handler use a transaction
(creation of a project, its deletion, acceptance of an invite in `roles.ts` and
`projects.ts`, the drag and drop of a task), none a lock: otherwise the unique
and foreign keys of `prisma/schema.prisma` are the only synchronisation.

| Component | State it keeps | Operations | Talks to | Module |
|---|---|---|---|---|
| Task payment worker, queue, monitor (`services/paymentQueue.ts`) | BullMQ jobs; `BlockchainTransaction` rows; `Task.paymentStatus`; `Project.releasedFunds` | `queuePayment`, the processor, its catch block, `monitorPendingTransactions` | Algorand gateway, database | `TaskPayment` |
| Task approval and edits (`routes/tasks.ts`) | `Task` rows | approve, PUT, DELETE, status routes | queue, escrow balance | `TaskPayment` |
| Transaction view (`routes/transactions.ts`) | - | GET by hash, which writes the row | Algorand gateway | `TaskPayment`, `EscrowAccount` |
| Escrow account (`routes/escrow.ts`, `routes/escrow-enhanced.ts`, `services/algorand.ts`) | `ProjectEscrow`, `Project.escrowAddress`, `escrowFunded`, DEPOSIT rows | create, deposit, fund, balance | Algorand gateway | `EscrowAccount` |
| Recurring salaries (`services/recurringPaymentProcessor.ts`, `routes/recurring-payments.ts`, `routes/payment-config.ts`, timer in `index.ts`) | `RecurringPayment` rows, SALARY rows, `releasedFunds`, `currentBalance` | create, pause, resume, cancel, the daily run | Algorand gateway, escrow | `RecurringPayments` |
| Invites and membership (`routes/invites.ts`, `roles.ts`, `user-roles.ts`, `projects.ts`, `payment-config.ts`, `utils/accessControl.ts`) | `ProjectInvite`, `UserRole`, `UserRolePayment` | invite, accept in three ways, decline, add, change, remove, terms of payment | salaries, task board | `Membership` |
| Departments and task board (`routes/departments.ts`, `tasks.ts`, `projects.ts`, `role-aware.ts`) | `Department.order`, `Task` columns and order, `TaskActivity` | create, edit, reorder, assign, move, bulk, delete | roles, project | `TaskBoard` |
| Projects and tags (`routes/projects.ts`) | `Project`, `ProjectTag` | create, edit with tags, tag routes, delete | all rows of the project | `ProjectTags`, `Membership`, `TaskBoard` |
| Wallets (`routes/wallets.ts`, `wallet.ts`, wallet login in `auth.ts`) | `UserWallet`, `User.walletAddress` | verify, patch, delete, assign, log in | payments read the address | `WalletRecords` |
| Land acquisition (`routes/land-acquisition.ts`) | requests, plots, listings | start, connect, create, criteria, select, escrow; plots and catalog | wallets, imagery | `LandRequests` |
| Satellite imagery (`routes/satellite.ts`, `services/sentinel-hub.ts`) | Redis caches, `SatelliteVerification` | metadata, batch, picture | Sentinel Hub | `PlotImagery` |
| Sessions (`routes/auth.ts`, `middleware/auth.ts`, `utils/tokenBlacklist.ts`, `securityMonitor.ts`, `validation.ts`) | accounts; blacklist and counts in memory | authenticate, register, log in, log out, expire | all routes | `Sessions` |
| Chat store (`services/chatStore.ts`, `routes/chat.ts`) | Redis hashes, index, sets and keys with a time to live | store, react, join, leave, type, expire | authentication | `ChatStore` |

Not modelled: the WebSocket rooms (section 5), analytics, dashboards and the
other routes that only read or write one row in one call; the Ethereum
services, which no route calls; input sanitizing, limits and header
configuration.

**How they interact.** Approving a task queues one job for the employee and one
per overseeing manager. The worker sends a transfer from the escrow account,
inserts the row (whose `taskId` is unique), waits for the chain, then marks
row, task and project one after the other. The monitor and
`GET /transactions/:txHash` write the same row, the monitor also the task. The
salary run sends from the same account and lowers `currentBalance`, which
deposits and balance refreshes overwrite. A role that is removed takes its terms
and salaries along and leaves its tasks to nobody; a project that is deleted
takes everything. The land workflow writes the wallet that payments are sent
to. Every chat request passes authentication first, whose memory a restart
wipes while Redis keeps the messages.

**What is hard.** (1) A transfer cannot be undone, and it is sent before
anything about it is written. (2) Retries, stalled jobs, and a second approval
repeat steps already done. (3) The catch block runs over whatever had been
written. (4) Values read before an `await` are written back after it. (5) Three
writers decide a row from answers that may be old. (6) Facts kept twice (wallet,
invite and role, task and activity, picture and record) are written one after
the other. (7) Counts and duplicates are looked for before the write they
should prevent. `PROJECT.json` lists the hazards line by line.

**What makes a component correct.**

- *Task payments*: every row names a transfer really sent; CONFIRMED and PAID
  need a confirmed one; funds are released once per task; a completed job is a
  settled one; jobs, PROCESSING tasks and PENDING rows come to an end.
- *Escrow account*: the project shows the address whose key is stored; a
  deposit is credited at most once; rows do not claim more than the chain; the
  error of the cached balance is bounded.
- *Salaries*: the books never run ahead of the transfers; at most one transfer
  a day; a repeated one has an identifiable cause; a due salary is served, as
  long as the server that runs has set its timer.
- *Membership*: only an acceptance makes a role ACTIVE; an invite makes one role,
  and a project keeps an owner, unless handlers overlapped or failed; a role has
  one salary for its terms and those that requests asked for beside them.
- *Task board*: tasks stay in departments and with roles that exist; a drag and
  drop keeps the order of the others; the activity log tells of every move and
  bulk update whose handler lives, and of nothing that did not happen.
- *Tags*: those of the last edit. *Wallets*: the address that is paid is the one
  that was listed. *Land*: one request per user. *Imagery*: pictures in the cache
  are recorded.
- *Sessions*: a token of the backend that was logged out does not get in, nor,
  unless logins overlapped, an e-mail with too many failures. *Chat*: no reaction
  is lost and messages end in time, but for named causes.

## 2. The modules

### `TaskPayment`

Variables are the database columns the pipeline writes (`alive`, `status`,
`payable`, `payment`, `ledger`, `released`), BullMQ's jobs with the worker's
place in the active one (`job`), the chain (`chain`), and the local state of
handlers (`req`) and monitor (`mon`) between two awaits. One action per
database, queue or chain call:

| Code | Actions |
|---|---|
| `POST /tasks/:id/approve` | `ApproveCheck`, `ApproveWrite`, `QueueEmployee`, `QueueOversight` |
| `PUT /tasks/:id`, `DELETE /tasks/:id` | `EditCheck`, `EditWrite`, `DeleteTask` |
| `GET /transactions/:txHash` | `ViewCheck`, `ViewWrite` |
| worker: the processor | `Take`, `MarkProcessing`, `Send`, `RecordRow`, `AwaitConfirmation`, `MarkRow`, `MarkPaid`, `Release`, `Acknowledge` |
| worker: the catch block, which rethrows | `MarkFailed`, `FailRow`, `AttemptFailed` |
| BullMQ | `Retry` (backoff), `StallCheck` |
| `monitorPendingTransactions` | `MonitorTick`, `MonitorAnswer`, `MonitorSkip`, `MonitorMarkRow`, `MonitorMarkTask` |
| Algorand, the process | `ChainConfirm`, `ChainDrop`, `Crash` |

A transfer is named by its job and the number of the job's run (failed attempts
and stalls before it, and one), so each run's transfer is a different one. `Faults` says which
calls may fail; a failing call may fail before or after its effect where the
code cannot tell (`Send`), and the monitor's two updates fail into the `catch`
of its loop, which goes on. `age` of a row counts the passes that looked at it
and left it PENDING (`PassOver`): of the code's 288 in 24 hours the model has
`DayPasses`, after which `MonitorTick` selects the row no more. A transfer is
confirmed or expires within the hour, so that only an outage of the whole day
spoils the last pass as well; it happens when "day" is in `Faults`. A crash
loses handlers and monitor, and the active job becomes stalled. A deleted task's
row loses its `taskId`; the model keeps it under the dead task, where no lookup
finds it (`alive`). A `null` amount skips the PAID check of PUT
(`tasks.ts:187`), as in the code.

`PaymentLedger` is the abstract promise: per task one entry about one transfer,
decided for good, booked as confirmed only when the transfer is on the chain,
released at most once. `TaskPayment!KeepsTheBooks` is that specification under
the mapping `entry <- ledger[t].status`, `transfer <- ledger[t].job, .run`,
`onChain <- Confirmed(t)`. `TaskPaymentCauses` adds the history of what can make
the pipeline pay a task twice (`excused`: two approvals that overlapped, an
approval taken back, a run cut short between its transfer and its end) and the
property that nothing else does; and likewise, without a history, what can leave
an approved task with nobody to pay it (`Stranded`, `MayStrand`).
`TaskPaymentInv` holds the inductive invariant; `TaskPaymentProofs` (types),
`TaskPaymentSafetyProofs` (the invariant) and `TaskPaymentTheorems` (what
follows from it) the proofs.

### `EscrowAccount`

One project. `escrow` and `address` are the two places the address is written;
`cached`, `initial`, `funded`, `row` the columns of a deposit; `chain`,
`paidTasks`, `paidSalaries` what Algorand knows; `owed` the salaries sent whose
decrement of `currentBalance` is still to come. Creation is `CreateCheck`,
`CreateEscrow`, `SetAddress`; a deposit `DepositRead`, `DepositVerify`,
`DepositRow`, `DepositCredit`, `DepositFund` (POST `escrow/fund` takes the same
steps); GET `escrow/balance` is `BalanceRead`, `BalanceWrite`; `HandlerDies` is
an error or a crash between two of them. `AskChain`/`WriteVerdict` are monitor
and transaction view on a DEPOSIT row, `PayTask`, `PaySalary`, `DeductSalary`
the other users of the account. Every amount is one unit but that of the
deposits in `Empty`: the code takes a transfer of zero for a deposit, funds the
project with it, and leaves `initialDeposit` at the 0 that stands for "none
yet". `ForgottenNeedsCause` says what loses a deposit (a handler that dies
between the row and the credit) and that nothing else does. `EscrowAccountInv`
holds the inductive invariant, `EscrowAccountProofs` the proofs.

`DepositBook` is the abstract promise about deposits: recorded once and for
good, CONFIRMED only when the transfer is, its amount added once at most and
after the record. `EscrowAccount!DepositsAreBooked` is that specification under
`entry <- row[d]`, `final <- chain[d] = "confirmed"`, `credits <- credits`. What
the account does not promise (that `cached` keeps the amount) is not in it.

### `RecurringPayments`, `Calendar`

`Calendar` is `calculateNextPaymentDate` over any calendar (`MonthStart`): a
month later is the same day of the next month or, as `setMonth` does it, as many
days into the month after. No route looks at `frequency`, and the switch has no
default, so "other" stands for any text and leaves the date where it was.

`salary` is the row (status, frequency, first and next due date), `run` the
processor between two awaits, with the batch it selected; `sent` counts
transfers, `rows`, `count`, `released`, `deducted` the four writes that follow
each. `StartRun` selects the due payments with their due dates; per payment
`CheckPayment`, `SendSalary`, `RecordSalary`, `AdvanceSchedule`, `ReleaseFunds`,
`DeductBalance`, each of which may fail into the catch block (`PausePayment`),
which may fail itself and then ends the run. `Midnight` and `Crash` are the
timer of `index.ts`: it is set when the server starts, unless `connectRedis`
throws, for then the server runs on without it (`index.ts:63-72`); `timer` is
chosen at the start and at every restart, and while it is FALSE midnight brings
no run. The owner creates, pauses, resumes, cancels and removes at any moment;
as in the code, a cancelled payment can be resumed. `RecurringPaymentsInv` holds
the inductive invariant and the action property `DueIsTakenUp` (the processor
passes no due salary by), `RecurringPaymentsProofs` the proofs.

### `Workspace`: `Handlers`, `ProjectData`, `Membership`, `TaskBoard`, `ProjectTags`

`Handlers` has what all modules of routes share: the place `pc` of each request
between two awaits. A row that a request creates bears the request's name.
`ProjectData` adds the rows that a project's requests meet on (`project`,
`role`) and the access rules read from them. Three modules extend it:

- `Membership`: `invite`, `config` and `salaries`; `arg` is what a handler read.
  The three acceptances are `RespondCheck`, `RespondRole`, `RespondSettle`,
  `WriteConfig`, `StartSalary` (`invites.ts`, call by call), `AcceptCheck`,
  `AcceptWrite` (`roles.ts`) and `PatchAccept`, `PatchWrite` (`projects.ts`, of
  invites of any status), the last two in a transaction. Additions are
  `AddCheck`/`AddUser` and `BulkCheck`/`AddRole`, changes `ChangeCheck`/
  `ChangeRole`, removals `LeaveCheck`/`PickRole`, `RemoveCheck`, `DismissCheck`
  and then `RemoveRole`. `roles.ts:125-226` is never reached (`projects.ts`
  serves the same paths first) and is not modelled. `GiveSalary` is `POST
  recurring-payments`, which gives a role a salary whatever terms it has;
  `extra` remembers such salaries and those of terms written over earlier ones.
  `ActiveMeansAccepted` is about what makes a role ACTIVE and not about access:
  `checkProjectAccess` asks for an ACTIVE role, but `tasks.ts:38-57`, `145-180`,
  `264-291`, `335-362`, `invites.ts:82-91` and `user-roles.ts:174-182` take a
  role of any status, so a PENDING one does work on the project, against
  `BACKEND_IMPLEMENTATION_SUMMARY.md:147` ("Users must accept invites before
  accessing project workspace"). No property claims otherwise.
- `TaskBoard`: `dept` and `task` rows. The transaction of a drag and drop writes
  into `draft` (per request a function from tasks to rows, `NoDraft` when it has
  no transaction open), whose rows are locked for others and seen by nobody until
  `MoveCommit` (PostgreSQL's READ COMMITTED); bulk updates write `task` and
  activity in two calls (`BulkUpdate`, `BulkLog`). Foreign keys are looked at
  again by the write, whatever the check before it saw. `changes` counts every
  update of a task. Edits, assignments, the neighbours of a move and tasks whose
  assignee goes write no activity, although the repository's `README.md:26` has
  "Activity audit logs for all task changes": `untold` counts these, and
  `LogAccountsForChanges` says that activity and updates differ by them and by
  handlers that failed (`lost`) or are about to log, and by nothing else.
- `ProjectTags`: the edit of a project (`EditCheck`, `EditProject`, `ClearTags`,
  `MakeTag`) and the two tag routes.

`Workspace` composes them: steps interleave, `RemoveRole` and `DropProject` are
steps of all three, and a handler may fail at every await. `WorkspaceProofs`
holds its inductive invariant and the proofs.

### `LandOffice`: `WalletRecords`, `LandRequests`, `PlotImagery`

`WalletRecords` has `user` (the wallet that is paid) and `userWallet` (the one
that is listed and verified). Its writers of both (`UpsertWallet` or
`RemoveWallet`, then `SyncUser`) meet writers of the first alone
(`AssignWallet`, `SignUp`). An address is a wallet in capitals or in lower case:
the wallet login looks for the latter and never finds Algorand's former.
`LandRequests` has `land`, `plots`, `listing`; every step looks for the newest
request (`FindLatest`) and then writes. `PlotImagery` has the picture cache,
the record and the cached metadata of each plot (`answer`, the plot and whether it
points to a picture).
`LandOfficeProofs` holds the inductive invariant and the proofs.

### `ChatService`: `Sessions`, `ChatStore`

`Sessions` has the accounts, one token of each issuer per user, `blacklist`,
`tries` by e-mail and `byIP`; clocks are the actions `TokenExpires`, `Cleanup`,
`TriesAge`, `AttemptsAge`, and `Restart` clears what is in memory. Logout
verifies with the backend's secret only: a token of NextAuth is answered "Logged
out successfully", is not blacklisted (`auth.ts:608-626`), and passes
`authenticateToken` and `GET /auth/session` as before, against `auth.ts:596`
("adds token to blacklist") and `tokenBlacklist.ts:3`. `loggedOut` has every
token whose logout was answered so, `reused` those of them that passed again,
and `AdmissionsNeedCause` says that these are NextAuth's. Logins of one e-mail
that pass the check while another's password is being compared are all compared
(`crowded`); without such an overlap there are no more failures than the limit,
and no login that comes after them (`rushed`) is compared.

`ChatStore` is behind it: one action per call to Redis. The id of a reaction is
not looked up, so it may be of a message that is gone, or of none (`UnknownId`),
and then makes a hash that never expires. `ChatServiceProofs` holds the
inductive invariant and the proofs.

Where two handlers that overlap, or one that fails, do what the code does not
prevent, a property names the cause: a history variable (`excuses`, `excused`,
`extra`, `untold`, `mixed`, `twins`, `unrecorded`, `crowded`, `torn`, `loose`,
`muddled`) records that the cause occurred, and the property says that nothing
else leads there. History variables appear in no guard. (`TaskPaymentCauses`
keeps its own in a module around the specification.)

## 3. The runs

| Run | Instance | Shows |
|---|---|---|
| `TaskPaymentSafety` | one task, two requests, 2 attempts, 1 stall, 1 crash, database, node and Redis failing, also for a whole day | `LedgerMatchesChain`, `PaidHasEvidence`, `ReleasedAtMostOnce`, `CompletedIsSettled`, `DoublePayNeedsCause`, `ApprovalIsActedOn`, refinement of `PaymentLedger` (with it `RowsAreDecidedOnce`) |
| `TaskPaymentLiveness` | one request and a viewer, an overseeing manager, node and Redis failing, but not for a whole day, one crash | `JobsSettle`, `ProcessingEnds`, `PendingRowsAreDecided`; `SafetyInv`, the invariant of the proofs, with the types in it |
| `EscrowAccount` | three requests, three deposits of which one is empty, two payouts | `AddressHasKey`, refinement of `DepositBook` (with it `CreditedOnce` and `RowsMatchChain`), `ForgottenNeedsCause`, `DriftIsBounded`; `EscrowInv`, the invariant of the proofs, with `TypeOK` and `FundedHasDeposit` in it |
| `RecurringPaymentsSafety` | two salaries, weekly, monthly or "other", four days, one crash or aborted run, one resume, a timer or none | `BooksTrailTransfers`, `OncePerDay`, `RepeatsNeedCause`, `NoSalaryAhead`, `PaydaysKeep`, `DueIsTakenUp`; `PayrollInv`, the invariant of the proofs, with `TypeOK` in it |
| `RecurringPaymentsLiveness` | two weekly salaries, five days | `DueIsServed` |
| `Workspace` | two requests of any kind, two users, every small team with an invite, or a board of two departments with three tasks in a column | `ActiveMeansAccepted`, `AcceptancesNeedCause`, `LastOwnerNeedsCause`, `SalariesNeedCause`, `TasksAreHoused`, `LogAccountsForChanges`, `TagsNeedCause`, `MovesKeepOrder` |
| `LandOffice` | three requests, two users, one wallet | `WalletRecordsAgree`, `OneRequestNeedsCause`, `ImageryIsRecorded` |
| `ChatService` | three requests, a user with an account and one with a token of NextAuth, 1 failure to wait, 2 to lock, 2 attempts by address | `AdmissionsNeedCause`, `MessagesNeedCause` |
| `OnePaymentPerTask` | one request, a failing node, the code's 3 attempts | violated, see below |
| `FailedWasNotPaid` | the same | violated |
| `OversightIsPaid` | a manager, nothing fails | violated |
| `BalanceIsCurrent` | three requests, two deposits, no payouts counted | violated |

**Bounds.** The properties of payments are about one task: tasks share only the
worker and the monitor's loop, so one task with two competing requests has every
race on a row. Two requests are two approvals, or an approval with an edit, a
deletion or a view. Two attempts are the least number with a retry (the code has
3; the violation runs use 3), one stall is BullMQ's default `maxStalledCount`;
the constraint `TwoRuns` of `TaskPaymentSafety` ends a behaviour where a job
would start a third run, after a retry and a stall. `Viewers` names requests
that only read, so that the liveness run can have a view of a row beside the
request that pays. Two passes a day are a first one, after which the transfer
may still be undecided, and a last one. Three escrow requests are one creation
and two of deposit or refresh, or three racing creations; two deposits are
enough for a lost update, the third is the empty one. A week of one day and
months of 2, 2, 1 and 2 days put into four days several weekly paydays, a
monthly one that keeps its day, one whose day the third month lacks, and a
salary that is overdue (a failed run leaves a backlog). `MaxCrashes`,
`DayPasses`, `MaxPayouts`, `MaxDay`, `MaxLosses`, `MaxResumes` bound counters
that the code does not bound. The proofs of section 4 hold for all values.

`Workspace` starts from teams and boards that `MCWorkspace` narrows down (the
product of all is too large): a team with an invite and no board, or a plain
team with tasks, one of which is further down. Two requests are enough for
every overlap that a property names; three tasks give a move one neighbour
before the place and one behind it. `LandOffice` and `ChatService` have three
requests: two that overlap and one that comes after, which must find things in
order again (or in the disorder they left). The limits of failed logins are
small numbers of the same order as the code's 5, 10 and 20 (`MaxTries` <=
`LockAt`, `MaxByIP`). The three runs have a VIEW, which forgets what a handler
that has answered held and keeps of two counters only the difference that the
properties look at, and symmetry in the requests and rows; they check safety
only.

Deadlock is not checked: with all requests served and all jobs ended nothing is
left to do.

**Fairness.** `TaskPayment`: the worker, BullMQ's timers, the chain and the
monitor are weakly fair, since BullMQ and `setInterval` call them again and
again and a transfer is confirmed or expires. No answer of the node is assumed
by fairness: a pass may fail, and what is assumed is that not all passes of a
row's day do (`DayPasses`, without "day" in `Faults`), for
`PendingRowsAreDecided` is about exactly the rows that would age out. Clients
owe nothing, so no handler is fair: an edit or a view may stop midway.
`RecurringPayments`: the run goes on and midnight comes (weakly fair), but it
brings a run only to a server that has set its timer; nothing brings a missing
timer back, and `DueIsServed` says so. Owners owe nothing.

**Violated claims** (each a `finding` of `PROJECT.json`):

1. *One payment per task* (`schema.prisma:317`). An attempt that failed after
   its transfer was submitted is retried and sends another. The unique key
   keeps the second out of the ledger, not out of the chain.
2. *FAILED: payment transaction failed* (`schema.prisma:41`).
   `waitForConfirmation` gives up, the task is FAILED, the transfer is
   confirmed afterwards.
3. *Manager payments queued for processing* (`tasks.ts:1696`). The jobs carry
   `taskId: "oversight-<id>"`; the worker's first update finds no such task and
   throws on every attempt.
4. *Current balance in escrow* (`schema.prisma:300`). `currentBalance` is
   written from a value read before two awaits; concurrent deposits lose one.

Each property of a passing run has a mutant: a plausible bug in one mapped
definition (`...Upsert`, `...Skipped`, `...Stale`, next to the definition it
changes) with which TLC finds that property violated.

## 4. The proofs

Each specification has an inductive invariant, proved action by action from the
named assumptions on its constants and nothing else. The assumptions are weak:
bounds are naturals, the markers for "none" are none of the values,
`TaskPayment` has at least one attempt, `EscrowAccount` finitely many deposits,
`Calendar` months that follow one another and of which none has more than twice
the days of another (so that a day which one month lacks slides onto one that
every month has), and `RecurringPayments` that the calendar does not end before
the due dates. The last three specifications say below what theirs are for.

**`TaskPayment`**

- `TypeCorrect`: `TypeOK`. A run number stays in `Runs` only because a live job
  has made fewer than `Attempts` attempts, and `PROCESSING` is only written for
  a task; so the invariant `Typed` adds `JobInv`, `ReqInv`, `MonInv`.
- `SafetyInvariant`: `SafetyInv` is inductive. The main argument: a run sends at
  most one transfer and its number only grows (`ChainInv`), hence a submitted
  transfer is never replaced; a row, once inserted, keeps its transfer
  (`RowInv`), so from `RecordRow` on the worker's job owns the row
  (`WorkerInv`); confirmations do not go away, so answers that monitor and
  handlers carry across an await stay true (`SeenInv`); a job that released is
  past the place where it releases (`ReleasedInv`), and every other job fails at
  the unique key. `FreshInv` (a request queues a job once) keeps jobs from being
  overwritten.
- Its corollaries `LedgerIsSound`, `PaidIsEvidenced`, `ReleasedOnce`,
  `CompletedSettles`, and the action property `RowsDecidedOnce`.
- `PaidTwiceForCause` (`DoublePayNeedsCause`): a task is sent a second transfer
  only after one of the recorded causes. `SafetyInv` says nothing of how many
  jobs a task has, so `CausesInv` adds that a task without a cause has one
  request that pays it, and none once it is APPROVED (`OwnerInv`); that oversight
  jobs carry no task (`OversightInv`); and that a job which has sent is past
  sending and not to be retried unless its task is gone, so the next attempt
  fails at its first write (`OneTransferInv`).
- `JobsAreFinite` (`JobsWearOut`) and `ProcessingIsHeld` (`ProcessingHasJob`): the
  parts of `JobsSettle` and `ProcessingEnds` that need no fairness. A job has a
  measure (`Fuel`: attempts and stalls left, then the way to the end of the run)
  that every change of it lowers, so it goes through at most
  `14 * (Attempts + MaxStalls) + 13` of them; and while the database answers, a
  task that reads PROCESSING has a job that will take it out of there, or that
  BullMQ gave up.
- `ApprovalsAreActedOn` (`ApprovalIsActedOn`): a step that leaves an approved,
  allocated task with no request about to queue its payment and no job that has
  it in hand is one of the named causes. One lemma for each of the three that
  keep it from that: the request (`QueueSteps`), what the task owes
  (`OwedSteps`), the job (`HandKept`).
- `PipelineKeepsTheBooks`: `Spec => KeepsTheBooks`, one step lemma per action.

**`EscrowAccount`**: `EscrowInvariant` (`EscrowInv` is inductive), and from it
`TypeCorrect`, `OneKey`, `NoDoubleCredit`, `DepositRowsAreTrue`,
`FundedIsBacked` (`FundedHasDeposit`), `BoundedDrift` and the action property
`DepositsAreRemembered` (`ForgottenNeedsCause`); `DepositsAreKept` (`Spec =>
DepositsAreBooked`), one step lemma per kind of step. The properties are not
inductive alone because of what handlers carry across an await:

- the insert of a row is the only synchronisation, so `AddressInv` and
  `CreditInv` say that who inserted it is alone in going on, and has not
  credited yet;
- a confirmation, once true, stays true, so one that a handler read or the
  monitor is about to write still holds, and it answers only about rows that
  exist (`RowInv`);
- the stale `base` a handler writes back lies between bounds that move outwards
  only (`DriftInv`), which needs that the account is not overdrawn and no more
  is owed than was paid (`PayInv`).

**`RecurringPayments`**: `PayrollInvariant` (`PayrollInv` is inductive), and from
it `PayrollTypes`, `BooksTrail`, `AtMostDaily`, `RepeatsAreAccounted`,
`NothingInAdvance`, `PaydaysAreKept`, `DueSalariesAreTakenUp`:

- `RunInv`: a batch is a snapshot, but only the run itself moves due dates, so
  what it selected stays due and is at work once;
- `BooksInv`: each of the writes after a transfer is ahead of the next one while
  the run stands between them;
- `DayInv`: before the timer fired nothing was sent today, what is still to
  be sent was not sent today, and the payment whose transfer is being booked was.
  `DueIsTakenUp`, the part of `DueIsServed` that needs no fairness, rests on it:
  a payment that leaves the run's hands was sent today or is paused;
- `CauseInv`: a payment that will be sent, or is ACTIVE and not at work, has no
  unbooked transfer but those that resumes and lost runs account for;
- `ScheduleInv`: the next due date is as many periods after the first as were
  paid (`PaydaysKeep`). For a monthly salary that is a lemma about any calendar
  (`NextMonthIs`): the day stays, or slides into the month after next onto a day
  that every month has, hence only once. `NoSalaryAhead` follows by integer
  division or by the order of months; a salary of unknown frequency is always
  due, so for it the invariant counts days (first due date plus transfers is at
  most today).

**`Workspace`** (`ProjectAssumption`, `InviteAssumption`, `BoardAssumption`:
names of the first rows and of requests, which name the rows they create, do not
meet, the markers for "none" are none of the values, the creator is a user,
places are naturals and departments finitely many). `WorkspaceInvariant`
proves `TeamInv`, `TagInv` and `BoardInv` together, since the steps that remove a
role or the project are steps of all of them:

- `PlaceInv`: what a handler holds at its place; `ActiveMeansAccepted`, which is
  inductive with it;
- `OwnerInv`: while one owner is being removed there is another;
- `TermsInv`: a request makes its role before its terms, and its salary after
  them, so none of the later steps can find an older role of the same name;
- `SalariesInv`: the salaries of a role and those that handlers are about to start
  are together no more than were asked for;
- `MadeInv`: handlers about to make a role of an invite count as roles made, and
  an invite that can still be accepted has one to spare;
- `HandInv`: what the handlers of the board hold; `DraftInv`: no two open
  transactions wrote the same task, and none changes who does it, so a commit
  takes back nobody's removal of a role;
- `LogInv`: those about to log a change are finitely many, which makes the count
  of the missing entries an equation with `lost` and `untold`;
- `CleanInv`: a move that nobody disturbed has put the task where it is wanted,
  and every task behind it one further, but for those it has still to do
  (`Halfway`).

From it `WorkspaceTypes`, `RolesAreAccepted` (`ActiveMeansAccepted`),
`RolesOfAnInvite` (`AcceptancesNeedCause`), `OwnersRemain`
(`LastOwnerNeedsCause`), `SalariesAreAskedFor` (`SalariesNeedCause`),
`TagsAsAsked` (`TagsNeedCause`), `HousedTasks` (`TasksAreHoused`),
`ActivityIsAccounted` (`LogAccountsForChanges`), and with `CleanInv` the action
property `UndisturbedMoves` (`MovesKeepOrder`).

**`LandOffice`** (`WalletAssumption`, `LandAssumption`). `OfficeInvariant`:

- `PairInv`: outside the two writes of a wallet the records agree, and between
  them there is a writer about to make them agree, or the cause is recorded;
- `HeldInv`, `CountInv`: those who found no request and will create one count as
  requests of the user; that a newest request exists is a lemma, from the
  well-foundedness of the order on a bounded set of naturals;
- `SeenInv`: what a handler is about to answer with a picture is recorded.

From it `OfficeTypes`, `WalletsAgree` (`WalletRecordsAgree`), `OneRequest`
(`OneRequestNeedsCause`), `PicturesAreRecorded` (`ImageryIsRecorded`).

**`ChatService`** (`SessionAssumption`: limits are positive; `ChatAssumption`).
`ChatInvariant`:

- `LogoutInv`: a token of the backend that was logged out since the last restart
  and has not expired is in the blacklist; `TriesInv`: the failures of the last
  period are all in the e-mail's count, and a lock is not over while there are
  any;
- `LoneInv`: an e-mail that is not `crowded` has one login compared at most, and
  one that was let through when another failure was still allowed; `PassInv`:
  what `AdmissionsNeedCause` says of `reused` and `rushed`;
- `DraftInv`: reactions are only written to a message in the index or to an id
  that never is one, `StoreInv`:
  nobody else comes near a message before its handler has put it there;
- `ReactionInv`: reactions are those intended, unless two writers of them
  overlapped (`torn`); `EndsInv`: a hash without a time to live is about to get
  it, or has a cause (`loose`).

From it `ServiceTypes`, `Admission` (`AdmissionsNeedCause`), `MessagesKeep`
(`MessagesNeedCause`).

**Only model-checked**: what holds under fairness (`JobsSettle`,
`ProcessingEnds`, `PendingRowsAreDecided`, `DueIsServed`), since `ENABLED` and
fairness are out of the prover's reach, and the violated claims, which are
counterexamples. (`JobsAreFinite` and `ProcessingIsHeld` leave of the first two
only the fairness itself: that a job which can go on does; likewise
`DueSalariesAreTakenUp` of the last one.) Every safety property
of every passing run is proved. No module
declares a recursive operator.

## 5. Assumed, and not modelled

- The worker's concurrency is 1 and one server runs. A stall detected by BullMQ
  while the worker is alive, two overlapping monitor passes (a pass longer than
  five minutes), and a salary run longer than a day are left out.
- Algorand gives every transfer its own id; two identical transfers built in the
  same round, which the chain would merge, are left out.
- A request that is refused before it writes is no step. Handlers mounted
  without authentication (`app.ts`) are modelled for the caller they expect.
- Amounts: of a task positive or not, of a deposit one unit or zero. The escrow
  comparison in `approve` only refuses.
- Hazards that no property catches, because the code promises nothing there: a
  credit that stays when its deposit expires (`escrow.ts:181`), the 0 that is
  stored when the node does not answer (`algorand.ts:158`), both in the model and
  inside the bound of `DriftIsBounded`; and a salary written as CONFIRMED without
  being looked for (`recurringPaymentProcessor.ts:112`), which is not in it.
  `employeeId`, which the approval reads, is written by no route: the model
  starts from tasks that have one.
- WebSocket rooms. `verifyClient` is asynchronous but is taken for a function
  that answers at once, so the connection is handled before the user is known
  and closed with 1008 (`websocket.ts:15-60`): rooms never have members, and
  the broadcasts of tasks and chat reach nobody.
- Several projects. `Workspace` has one: the uniqueness of project names and bulk
  moves over projects of one user (whose rights are asked project by project)
  are left out. So are department scopes of a role, uploaded documents, the
  signature and opt-in of a wallet, and texts, dates and hours.
- Chat reads. `fetchMessages` leaves expired ids in the index and answers them as
  rows with timestamp 0; its cursor of the last timestamp less one skips
  messages of the same millisecond. They change no state, and no document says
  otherwise.
- The limit by address counts successful requests as well
  (`securityMonitor.ts:157`): more than twenty in ten minutes are refused. The
  model keeps it as a guard (`OpenToIP`), with no claim about it.
- In `RecurringPayments` a salary's transfer is not followed to its
  confirmation, and `endDate` is not looked at (nor is it by the processor).
  Dates are days; the hour and the time zone of a date are left out.

## 6. The plan

Done: the payment modules with their invariants proved; team, board and tags;
wallets, land and imagery; sessions and chat. What would add most next:

1. Several approvals against one escrow balance (`EscrowAccount` with an approval
   that reads `cached`), and the confirmation of salary transfers.
2. `Workspace` with two projects: bulk updates over projects.
3. Several salaries and task payments against one escrow, with the proofs of
   `EscrowAccount` and `RecurringPayments` composed.
