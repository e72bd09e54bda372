\* The CLI deletes a row that another host has applied in the meantime.
SPECIFICATION Spec
CONSTANTS
  h1 = h1
  h2 = h2
  NoHost = NoHost
  NoTotal = NoTotal
  Hosts <- TwoHosts
  Strict <- OneStrict
  Buckets <- Mixed
  MaxRows <- Two
  MaxStops <- One
CHECK_DEADLOCK FALSE
PROPERTY AppliedRowKept
