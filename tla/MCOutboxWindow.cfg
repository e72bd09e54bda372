\* The comment in mark_failed: no claim between its SELECT and its UPDATE.
SPECIFICATION Spec
CONSTANTS
  w1 = w1
  w2 = w2
  Rows <- OneRow
  Workers = {w1, w2}
  Relays <- NoRelays
  BatchSize = 1
  MaxRetry = 1
  Lease = 1
  Threshold = 1
  MaxAborts = 0
  NoRow = NoRow
  Null = Null
SYMMETRY SymWorkers
PROPERTY WindowKept
