SPECIFICATION Spec
CONSTANTS
  Requests = {r1, r2, r3}
  Deposits = {d1, d2, d3}
  Empty = {d3}
  MaxPayouts = 2
  NoAddress = NoAddress
  NoDeposit = NoDeposit
SYMMETRY EscrowSymmetry
INVARIANTS
  AddressHasKey
  DriftIsBounded
  EscrowInv
PROPERTIES
  DepositsAreBooked
  ForgottenNeedsCause
CHECK_DEADLOCK FALSE
