SPECIFICATION PgSpec
CONSTANTS
  e1 = e1
  t1 = t1
  t2 = t2
  r1 = r1
  r2 = r2
  c1 = c1
  c2 = c2
  Executions = {e1}
  Targets = {t1, t2}
  Runners = {r1}
  NoRunner = NoRunner
  Connections = {c1, c2}
  ExecutionOf <- OneExecution
  Scope <- AllScope
  MaxAttempts = 2
  LastSecond = 1
  MaxRenewals = 0
  MaxRestarts = 0
SYMMETRY Alike
INVARIANTS
  CancelledWasNeverDispatched
