SPECIFICATION Spec
CONSTANTS
  Worker = {w1, w2}
  Handle = {h1, h2, h3, h4}
  InitSize = 1
  MaxSize = 4
  MaxIdle = 2
  CpuCost = {0, 2000}
  MaxClock = 2
INVARIANT ScanDefined
SYMMETRY Symmetry
\* The process may have crashed.
CHECK_DEADLOCK FALSE
