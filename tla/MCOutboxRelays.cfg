\* Two relays, batches of two, crashes and rollbacks: row locks, retry budget,
\* and every event is settled.
SPECIFICATION FairSpec
CONSTANTS
  w1 = w1
  w2 = w2
  Rows <- TwoRows
  Workers = {w1, w2}
  Relays <- TwoRelays
  BatchSize = 2
  MaxRetry = 1
  Lease = 1
  Threshold = 1
  MaxAborts = 1
  NoRow = NoRow
  Null = Null
INVARIANT RetryBudget
INVARIANT RelaysDisjoint
PROPERTY EventuallySettled
