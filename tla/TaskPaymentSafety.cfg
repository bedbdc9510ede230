SPECIFICATION CausesSpec
CONSTANTS
  Tasks = {t1}
  Requests = {r1, r2}
  Viewers = {}
  Managers = {}
  Employee = Employee
  NoTask = NoTask
  Attempts = 2
  MaxStalls = 1
  MaxCrashes = 1
  DayPasses = 2
  Faults = {"db", "node", "redis", "day"}
CONSTRAINT TwoRuns
SYMMETRY RequestSymmetry
INVARIANTS
  LedgerMatchesChain
  PaidHasEvidence
  ReleasedAtMostOnce
  CompletedIsSettled
  DoublePayNeedsCause
PROPERTIES
  ApprovalIsActedOn
  KeepsTheBooks
CHECK_DEADLOCK FALSE
