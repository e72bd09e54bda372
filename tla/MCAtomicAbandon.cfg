\* A closure that drops the future of a running statement.
SPECIFICATION Spec
CONSTANTS
  t1 = t1
  t2 = t2
  c1 = c1
  c2 = c2
  a = a
  b = b
  e1 = e1
  e2 = e2
  Tasks <- OneTask
  Conns <- OneConn
  Tenants <- TwoTenants
  Effects <- OneEffect
  MaxDepth = 1
  MaxSavepoints = 1
  MaxAttempts = 1
  NoConn = NoConn
  NoTenant = NoTenant
  NoAuth = NoAuth
  Swallow = FALSE
  AbandonStmt = TRUE
PROPERTY RowTenant
CHECK_DEADLOCK FALSE
