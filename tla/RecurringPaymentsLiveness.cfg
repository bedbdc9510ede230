SPECIFICATION FairSpec
CONSTANTS
  Payments = {p1, p2}
  Week = 1
  LastDate = 6
  LastMonth = 3
  MonthStart <- Starts
  MaxDay = 4
  Terms <- WeeklyTerms
  MaxLosses = 1
  MaxResumes = 0
  NoPayment = NoPayment
PROPERTIES
  DueIsServed
CHECK_DEADLOCK FALSE
