SPECIFICATION GovernanceSpec
CONSTANTS
  jo = jo
  sam = sam
  k = k
  Users = {jo, sam}
  RoleOf <- MCRoleOf
  Definitions <- MCDefinitions
  RunAsks <- MCRunAsks
  CommandAsks <- MCCommandAsks
  Schedules <- MCSchedules
  Keys = {k}
  Editors = {e1, e2}
  Clients = {c1}
  MaxVersions = 2
  MaxApprovals = 1
  MaxExecutions = 1
  NoOne = NoOne
  NoKey = NoKey
INVARIANTS
  OnlyPublishedVersionsRun
CHECK_DEADLOCK FALSE
