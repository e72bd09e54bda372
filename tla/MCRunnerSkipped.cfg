\* A resumed migration is marked applied without its transactional segments.
SPECIFICATION Spec
CONSTANTS
  h1 = h1
  h2 = h2
  NoHost = NoHost
  NoTotal = NoTotal
  Hosts <- TwoHosts
  Strict <- OneStrict
  Buckets <- Mixed
  MaxRows <- One
  MaxStops <- One
CHECK_DEADLOCK FALSE
PROPERTY EverySegmentRan
