SPECIFICATION Spec
CONSTANTS
  Payments = {p1, p2}
  Week = 1
  LastDate = 5
  LastMonth = 3
  MonthStart <- Starts
  MaxDay = 3
  Terms <- AllTerms
  MaxLosses = 1
  MaxResumes = 1
  NoPayment = NoPayment
INVARIANTS
  BooksTrailTransfers
  OncePerDay
  RepeatsNeedCause
  NoSalaryAhead
  PaydaysKeep
  PayrollInv
PROPERTIES
  DueIsTakenUp
SYMMETRY PaymentSymmetry
CHECK_DEADLOCK FALSE
