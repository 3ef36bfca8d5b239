SPECIFICATION Spec
CONSTANTS
  j1 = j1
  p1 = p1
  p2 = p2
  k1 = k1
  NoWorker = NoWorker
  Jobs <- MCOneJob
  Keys = {k1}
  KeyOf <- MCKeyOf
  Procs = {p1, p2}
  Workers <- MCWorkers
  MaxAttempts = 2
  MaxVersion = 6
  MaxRetries = 0
  MaxRestarts = 1
  BatchSize = 1
SYMMETRY MCProcSymmetry
INVARIANT RefusedOnlyWhenLeaseLost
CHECK_DEADLOCK FALSE
