\* Two retried calls over one connection, whose closures may drop the future of a
\* running statement: what one leaves behind, the other finds.
SPECIFICATION Spec
CONSTANTS
  t1 = t1
  t2 = t2
  c1 = c1
  c2 = c2
  a = a
  b = b
  e1 = e1
  e2 = e2
  Tasks <- TwoTasks
  Conns <- OneConn
  Tenants <- OneTenant
  Effects <- OneEffect
  MaxDepth = 1
  MaxSavepoints = 1
  MaxAttempts = 2
  NoConn = NoConn
  NoTenant = NoTenant
  NoAuth = NoAuth
  Swallow = FALSE
  AbandonStmt = TRUE
INVARIANT PoolClean
INVARIANT OkMeansDone
INVARIANT OneAttemptLands
PROPERTY PromiseSpec
CHECK_DEADLOCK FALSE
SYMMETRY CallSymmetry
