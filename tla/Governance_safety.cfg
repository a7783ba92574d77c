SPECIFICATION GovernanceSpec
CONSTANTS
  jo = jo
  sam = sam
  k = k
  Users = {jo, sam}
  RoleOf <- MCRoleOf
  Definitions <- MCDefinitions
  RunAsks <- MCRunAsks
  CommandAsks <- MCCommandAsks
  Schedules <- MCSchedules
  Keys = {k}
  Editors = {e1, e2}
  Clients = {c1, c2}
  MaxVersions = 2
  MaxApprovals = 1
  MaxExecutions = 2
  NoOne = NoOne
  NoKey = NoKey
INVARIANTS
  ApprovalsAreHonest
  ReviewsFollowTheRules
  OneResourcePerKey
  CurrentIsNewest
SYMMETRY MCSymmetry
CHECK_DEADLOCK FALSE
