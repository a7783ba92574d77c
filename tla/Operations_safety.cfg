SPECIFICATION OperationsSpec
CONSTANTS
  jo = jo
  sam = sam
  k = k
  Users = {jo, sam}
  RoleOf <- MCRoleOf
  Definitions <- MCDefinitions
  RunAsks <- MCRunAsks
  CommandAsks <- MCCommandAsks
  Schedules <- MCSchedules
  Keys = {k}
  Editors = {e1}
  Clients = {c1}
  MaxVersions = 2
  MaxApprovals = 1
  MaxExecutions = 1
  NoOne = NoOne
  NoKey = NoKey
  RunnerIds = {1}
  CredentialIds = {1, 2}
  Calls = {h1, h2}
  NoRunner = 0
  JobTargets = {t1}
  Workers = {w1, w2}
  MaxTries = 2
  MaxDeliver = 2
  MaxFaults = 2
  s1 = s1
  s2 = s2
  s3 = s3
  o1 = o1
  o2 = o2
  ScheduleIds = {s1, s2, s3}
  Organisations = {o1, o2}
  OwnerOf <- MCOwnerOf
  FirstRun <- MCFirstRun
  FirstTimes = {1}
  Interval = 1
  Batch = 2
  Schedulers = {p1, p2}
  LastTick = 1
  MaxDisturbances = 1
  Loose = {l1, l2}
  Legacy = 2
  MaxEvents = 5
  Outputs = {a1, a2}
  MaxWrites = 2
  Files = {f1}
  MaxFailures = 2
  Servers = {v1, v2}
  Stages = {staging, production}
  Lookups = {u1}
  MaxHalf = 1
  ApprovalRows = {r1, r2}
  ScheduleRows = {r3}
  NoRow = NoRow
INVARIANTS
  OperationsTypeOK
  DuplicatesRunNothing
  SlotsMoveOn
  PauseHolds
  VerdictHasCause
  RecordsAreReadable
  BackupIsWhole
  RestoreIsAllOrNothing
  DecidedOnWhatWas
PROPERTIES
  RevocationHolds
  PromptNamesDecision
  RequestsAreAnswered
  TargetsAreDecided
  DueSchedulesAreClaimed
CHECK_DEADLOCK FALSE
