SPECIFICATION JobSpec
CONSTANTS
  Jobs = {j1, j2}
  Clients = {c1, c2}
  MaxAttempts = 2
PROPERTY CancellationIsGuarded
CHECK_DEADLOCK FALSE
