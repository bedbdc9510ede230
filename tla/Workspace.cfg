SPECIFICATION MCSpec
CONSTANTS
  Requests = {r1, r2}
  Users = {ana, ben}
  Creator = ana
  OwnerRow = owner
  MemberRow = member
  NoRole = NoRole
  NoRow = NoRow
  NoUser = NoUser
  FirstInvites = {first}
  NoInvite = NoInvite
  GivenKinds = {"PROJECT_OWNER", "EMPLOYEE"}
  OfferedTerms = {"SALARY"}
  FirstDepts = {d1, d2}
  FirstTasks = {t1, t2, t3}
  Columns = {"PENDING", "COMPLETED"}
  FirstColumn = "PENDING"
  Places = {0, 1}
  Orders = {2}
  BulkSize = 2
  NoDept = NoDept
  NoTask = NoTask
  TagNames = {red, blue}
SYMMETRY Symmetry
VIEW View
CHECK_DEADLOCK FALSE
INVARIANTS
  TypeOK
  ActiveMeansAccepted
  AcceptancesNeedCause
  LastOwnerNeedsCause
  SalariesNeedCause
  TasksAreHoused
  LogAccountsForChanges
  TagsNeedCause
PROPERTY MovesKeepOrder
