SPECIFICATION RequestsSpec
CONSTANTS
  root = root
  a = a
  b = b
  c = c
  Pages = {root, a, b, c}
  Root = root
  h1 = h1
  h2 = h2
  Hosts = {h1, h2}
  HostOf <- MCHostOf
  LinksOf <- MCLinks
  Disallowed = {a}
  MaxPages = 4
  MaxDepth = 2
  MaxConcurrency = 3
  MaxRedirects = 0
  Spacing = 2
  Configurations <- MCConfigurations
  MaxTries = 2
PROPERTY HostIsSpaced
CHECK_DEADLOCK FALSE
