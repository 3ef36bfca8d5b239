SPECIFICATION ContextSpec
CONSTANTS
  t1 = t1
  t2 = t2
  Tasks <- MCTasks
  Scopes <- MCScopes
  Tenants <- MCTenants
  ModesOf <- MCModesOf
  a = a
  b = b
  System = system
  Conns = {c1, c2}
  NoConn = none
INVARIANTS
  OwnTenantOnly
  NoConnectionLeaks
  CommitsWithOwner
  UndoesItsOwn
PROPERTY EveryFlowEnds
CHECK_DEADLOCK FALSE
