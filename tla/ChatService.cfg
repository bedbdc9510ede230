SPECIFICATION MCSpec
CONSTANTS
  Requests = {r1, r2, r3}
  Users = {ana, ben}
  Known = {ana}
  MaxTries = 1
  LockAt = 2
  MaxByIP = 2
  FirstMessage = first
  NoMessage = NoMessage
  UnknownId = unknown
SYMMETRY Symmetry
VIEW View
CHECK_DEADLOCK FALSE
INVARIANTS
  TypeOK
  AdmissionsNeedCause
  MessagesNeedCause
