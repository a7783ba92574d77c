SPECIFICATION Spec
CONSTANTS
  e1 = e1
  t1 = t1
  t2 = t2
  r1 = r1
  r2 = r2
  Executions = {e1}
  Targets = {t1, t2}
  Runners = {r1, r2}
  NoRunner = NoRunner
  ExecutionOf <- OneExecution
  Scope <- MCScope
  MaxAttempts = 2
  LastSecond = 1
  MaxRenewals = 1
  MaxRestarts = 1
INVARIANTS
  NothingIsStranded
