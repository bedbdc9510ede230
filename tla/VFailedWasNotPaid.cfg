SPECIFICATION Spec
CONSTANTS
  Tasks = {t1}
  Requests = {r1}
  Viewers = {}
  Managers = {}
  Employee = Employee
  NoTask = NoTask
  Attempts = 3
  MaxStalls = 1
  MaxCrashes = 0
  DayPasses = 1
  Faults = {"node"}
INVARIANT FailedWasNotPaid
CHECK_DEADLOCK FALSE
