CONSTANTS
  Procs <- Three
  Threads <- Three
  ProcOf <- Own
  Signals <- SeeAll
  NR = 2
  NG = 2
  Handles = {1}
  Mapped <- MapAll
  ZeroBelow <- BelowAll
  Dptrs = {11}
  Arrays = {}
  Sizes = {1}
  SizeMod = 4
  NULL = NULL
  Limit = 3
  AllocKinds = {"pitch"}
  Stores = {}
  Starved <- One
SPECIFICATION PatientSpec
INVARIANT NullOnlyWhenFull
PROPERTY SettledNodesStay
PROPERTY SettledRecordsStay
PROPERTY ImplementsHijack
PROPERTY Attaches
CHECK_DEADLOCK FALSE
