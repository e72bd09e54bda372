\* Two hosts apply, crash, resume, repair and roll back one migration.
\* A version that is applied may be left so: the system may stop.
SPECIFICATION FairSpec
CONSTANTS
  h1 = h1
  h2 = h2
  NoHost = NoHost
  NoTotal = NoTotal
  Hosts <- TwoHosts
  Strict <- OneStrict
  Buckets <- Several
  MaxRows <- Rows
  MaxStops <- Stops
CHECK_DEADLOCK FALSE
INVARIANTS TypeOK LedgerHonest NoSilentStep OneInDoubt
PROPERTIES AppliedComplete InVersionOrder PromiseSpec CommandsEnd
