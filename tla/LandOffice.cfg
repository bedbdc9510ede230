SPECIFICATION Spec
CONSTANTS
  Requests = {r1, r2, r3}
  People = {ana, ben}
  Wallets = {w1}
  Alike = {w1}
  NoAccount = NoAccount
  NoAddress = NoAddress
  NoWallet = NoWallet
  NoRecord = NoRecord
  Criteria = {small}
  GivenStatuses = {"CANCELLED"}
  Degrees = {10}
  NoCriteria = NoCriteria
  NoDegree = NoDegree
  NoListing = NoListing
SYMMETRY Symmetry
VIEW View
CHECK_DEADLOCK FALSE
INVARIANTS
  TypeOK
  WalletRecordsAgree
  OneRequestNeedsCause
  ImageryIsRecorded
