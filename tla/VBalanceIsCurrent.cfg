SPECIFICATION Spec
CONSTANTS
  Requests = {r1, r2, r3}
  Deposits = {d1, d2}
  Empty = {}
  MaxPayouts = 1
  NoAddress = NoAddress
  NoDeposit = NoDeposit
INVARIANT BalanceIsCurrent
CHECK_DEADLOCK FALSE
