SPECIFICATION FairSpec
CONSTANTS
  Worker = {w1, w2}
  Handle = {h1, h2, h3, h4}
  InitSize = 1
  MaxSize = 3
  MaxIdle = 2
  CpuCost = {0, 2000}
  MaxClock = 2
INVARIANTS TypeOK Exclusive QueueByAge
PROPERTIES ScanComplete PoolRefined GetServed
\* The process may have crashed.
CHECK_DEADLOCK FALSE
