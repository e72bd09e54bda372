\* A relay and a worker without transactions share one table: leases run out,
\* rows are recovered, marks come late, batches roll back, in every order.
SPECIFICATION Spec
CONSTANTS
  w1 = w1
  w2 = w2
  Rows <- TwoRows
  Workers = {w1, w2}
  Relays <- OneRelay
  BatchSize = 2
  MaxRetry = 1
  Lease = 1
  Threshold = 1
  MaxAborts = 1
  NoRow = NoRow
  Null = Null
INVARIANT TypeOK
INVARIANT FailedJustified
PROPERTY GraceKept
PROPERTY PromiseSpec
