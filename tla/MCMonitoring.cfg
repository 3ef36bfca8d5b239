SPECIFICATION MonitoringSpec
CONSTANTS
  Runs = {m1, m2, m3}
  Paths = {page}
  NoSnapshot = NoSnapshot
PROPERTY ResolvedIsRecovered
CHECK_DEADLOCK FALSE
