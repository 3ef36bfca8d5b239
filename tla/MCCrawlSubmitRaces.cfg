SPECIFICATION SubmitSpec
CONSTANTS
  k1 = k1
  NoWorker = NoWorker
  NoJob = NoJob
  Jobs = {j1, j2}
  Keys = {k1}
  KeyOf <- MCKeyOf
  Workers = {w1}
  MaxAttempts = 2
  MaxVersion = 4
  MaxRetries = 1
  Requests = {r1, r2, r3}
  Tries = 3
SYMMETRY MCSymmetry
INVARIANT RefusedOnlyAfterRaces
CHECK_DEADLOCK FALSE
