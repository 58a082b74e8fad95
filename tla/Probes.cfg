CONSTANTS
  Threads = {t1, t2}
  Callers = {t1, t2}
  Qps = {1}
  WrIds = {1, 2}
  MapSize = 1
  Unrolled = 1
  MaxEntries = 2
  MaxPosts = 3
  MaxCollectives = 1
  Symbols <- SymbolNames
  MaxCalls = 4
SPECIFICATION Spec
INVARIANTS OwnRequest OwnCall
SYMMETRY ThreadSymmetry
CHECK_DEADLOCK FALSE
