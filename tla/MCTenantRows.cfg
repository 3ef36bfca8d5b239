SPECIFICATION RowsSpec
CONSTANTS
  u1 = u1
  u2 = u2
  s1 = s1
  s2 = s2
  i1 = i1
  Users = {u1, u2}
  Spaces = {s1, s2}
  Invites = {i1}
  InviteOf <- MCInviteOf
  Calls <- MCCalls
  Requests = {r1, r2}
  MaxRemovals = 1
  NoUser = NoUser
  NoRole = NoRole
  NoCookie = NoCookie
  c1 = c1
  c2 = c2
  c3 = c3
  h1 = h1
  h2 = h2
  Units = {h1, h2}
  Commands = {c1, c2, c3}
  UnitOf <- MCUnitOf
  Creates = {c1, c3}
  Savers = {saver}
  PoolSize = 2
  MaxVersion = 5
  Runs = {m1, m2, m3}
  Paths = {page}
  NoSnapshot = NoSnapshot
  Diagnoses = {g1, g2}
  Findings = {finding}
  e1 = e1
  e2 = e2
  d1 = d1
  d2 = d2
  d3 = d3
  a1 = a1
  a2 = a2
  Refs <- MCRefs
  Value <- MCValue
  Events <- MCEvents
  Crediting = {e1, e2}
  Deliveries <- MCDeliveries
  EventOf <- MCEventOf
  Audits <- MCAudits
  MaxRetries = 1
SYMMETRY MCSymmetry
INVARIANTS
  MembersWereInvited
  UsedOncePerMembership
  SessionRoleWasHeld
  UnitsAreReturned
  TransactionIsOwned
  CreditedOnce
  BalanceIsLedger
  NoUnpaidAudit
  NeverOverdrawn
PROPERTIES
  ChangedByAdmin
  ReportedIsOpen
  UnreportedIsResolved
  AdviceIsCurrent
  StatusNeverRegresses
CHECK_DEADLOCK FALSE
