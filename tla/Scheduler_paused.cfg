SPECIFICATION SchedulerSpec
CONSTANTS
  s1 = s1
  s2 = s2
  s3 = s3
  o1 = o1
  o2 = o2
  ScheduleIds = {s1, s2, s3}
  Organisations = {o1, o2}
  OwnerOf <- MCOwnerOf
  FirstRun <- MCFirstRun
  FirstTimes = {1}
  Interval = 1
  Batch = 2
  Schedulers = {p1, p2}
  LastTick = 1
  MaxDisturbances = 1
INVARIANTS
  PausedQueuesNothing
CHECK_DEADLOCK FALSE
