SPECIFICATION RetriesSpec
CONSTANTS
  root = root
  a = a
  b = b
  c = c
  Pages = {root, a, b, c}
  Root = root
  h1 = h1
  h2 = h2
  Hosts = {h1, h2}
  HostOf <- MCHostOf
  LinksOf <- MCLinks
  Disallowed = {a}
  MaxPages = 4
  MaxDepth = 2
  MaxConcurrency = 2
  MaxRedirects = 1
  Spacing = 2
  Configurations <- MCConfigurations
  MaxTries = 2
  Jobs = {j1, j2}
  Clients = {c1, c2}
  MaxAttempts = 2
INVARIANT TriesBounded
PROPERTIES
  TurnsAreSpaced
  CrawlEnds
  OutcomeFinal
  JobSettles
CHECK_DEADLOCK FALSE
