SPECIFICATION FairSpec
CONSTANTS
  Tasks = {t1}
  Requests = {r1, v1}
  Viewers = {v1}
  Managers = {m1}
  Employee = Employee
  NoTask = NoTask
  Attempts = 2
  MaxStalls = 0
  MaxCrashes = 1
  DayPasses = 2
  Faults = {"node", "redis"}
INVARIANTS
  SafetyInv
PROPERTIES
  JobsSettle
  ProcessingEnds
  PendingRowsAreDecided
CHECK_DEADLOCK FALSE
