\* One call, scopes two levels deep, two tenants, two operations, closures that
\* go on after errors: every shape of scopes.
SPECIFICATION Spec
CONSTANTS
  t1 = t1
  t2 = t2
  c1 = c1
  c2 = c2
  a = a
  b = b
  e1 = e1
  e2 = e2
  Tasks <- OneTask
  Conns <- OneConn
  Tenants <- TwoTenants
  Effects <- TwoEffects
  MaxDepth = 2
  MaxSavepoints = 2
  MaxAttempts = 1
  NoConn = NoConn
  NoTenant = NoTenant
  NoAuth = NoAuth
  Swallow = TRUE
  AbandonStmt = FALSE
INVARIANT TypeOK
INVARIANT UndoneNeverLands
INVARIANT TrackerMatches
PROPERTY RowTenant
CHECK_DEADLOCK FALSE
