\* A terminal and two daemons on one plan, tables of up to three rows, crashes.
\* A finished plan may be left so: the system may stop.
SPECIFICATION MCSpec
CONSTANTS
  c1 = c1
  d1 = d1
  d2 = d2
  r1 = r1
  r2 = r2
  r3 = r3
  Nobody = Nobody
  Clis <- OneCli
  Daemons <- TwoDaemons
  Rows <- ThreeRows
  Plans <- SomePlans
  ChunkSize = 2
  MaxCommands = 2
  MaxFaults = 2
CHECK_DEADLOCK FALSE
INVARIANTS TypeOK StepsInOrder ValidatingIsDrained ProgressHonest StuckOnlyAtMultiple OneDaemonDrives
PROPERTIES EndedIsLeftAlone PromiseSpec BackfillEnds
