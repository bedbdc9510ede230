SPECIFICATION FairSpec
CONSTANTS
  Tasks = {t1}
  Requests = {r1}
  Viewers = {}
  Managers = {m1}
  Employee = Employee
  NoTask = NoTask
  Attempts = 3
  MaxStalls = 1
  MaxCrashes = 0
  DayPasses = 1
  Faults = {}
PROPERTY OversightIsPaid
CHECK_DEADLOCK FALSE
