SPECIFICATION BillingSpec
CONSTANTS
  e1 = e1
  e2 = e2
  d1 = d1
  d2 = d2
  d3 = d3
  a1 = a1
  a2 = a2
  Refs <- MCRefs
  Value <- MCValue
  Events <- MCEvents
  Crediting = {e1, e2}
  Deliveries <- MCDeliveries
  EventOf <- MCEventOf
  Audits <- MCAudits
  MaxRetries = 1
SYMMETRY MCSymmetry
INVARIANT RepeatIsHandled
CHECK_DEADLOCK FALSE
