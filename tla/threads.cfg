CONSTANTS
  Procs <- One
  Threads <- TwoThreads
  ProcOf <- OneOwner
  Signals <- SeeAll
  NR = 2
  NG = 3
  Handles = {1,2}
  Mapped <- MapAll
  ZeroBelow <- BelowAll
  Dptrs = {11,12}
  Arrays = {}
  Sizes = {1}
  SizeMod = 4
  NULL = NULL
  Limit = 3
  AllocKinds = {"mem"}
  Stores = {}
SPECIFICATION KeepSpec
INVARIANT CreatesOnlyIfAbsent
CHECK_DEADLOCK FALSE
