CONSTANTS
  Procs <- Three
  Threads <- Three
  ProcOf <- Own
  Signals <- SeeAll
  NR = 2
  NG = 2
  Handles = {1,2}
  Mapped <- MapAll
  ZeroBelow <- BelowAll
  Dptrs = {11,12}
  Arrays = {}
  Sizes = {1}
  SizeMod = 4
  NULL = NULL
  Limit = 3
  AllocKinds = {"pitch"}
  Stores = {}
  Starved = {}
SPECIFICATION EagerSpec
INVARIANT NotFoundMeansAbsent
CHECK_DEADLOCK FALSE
