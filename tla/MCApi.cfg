SPECIFICATION ApiRunSpec
CONSTANTS
  k1 = k1
  NoWorker = NoWorker
  NoJob = NoJob
  Jobs = {j1, j2}
  Keys = {k1}
  KeyOf <- MCKeyOf
  Workers = {w1}
  MaxAttempts = 2
  MaxVersion = 4
  MaxRetries = 1
  Requests = {r1, r2, r3}
  Tries = 3
  a1 = a1
  a2 = a2
  a3 = a3
  s1 = s1
  s2 = s2
  Hits = {h1, h2, h3}
  Limit = 1
  WindowSeconds = 2
  MaxDelay = 2
  LastSecond = 3
  Servers = {s1, s2}
  Handlers = {a1, a2, a3}
  ServerOf <- MCServerOf
  MaxRequests = 2
  Window = 2
  Cost = 2
  TokenLimit = 5
  MaxTime = 3
SYMMETRY MCSymmetry
INVARIANTS
  OneActivePerKey
  FirstCrawlNeverRefused
  TwiceTheLimit
  RefusedOnlyWhenFull
  WindowBounded
  OvershootBounded
  NoFreeCalls
PROPERTIES
  VersionFences
  ImplementsLifecycle
  AnswersActiveJob
CHECK_DEADLOCK FALSE
