SPECIFICATION LimitSpec
CONSTANTS
  Hits = {h1, h2, h3, h4, h5}
  Limit = 2
  WindowSeconds = 2
  MaxDelay = 1
  LastSecond = 3
INVARIANT LimitHolds
CHECK_DEADLOCK FALSE
