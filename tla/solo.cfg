CONSTANTS
  Procs <- Last
  Threads <- Last
  ProcOf <- Own
  Signals <- SeeAll
  NR = 3
  NG = 3
  Handles = {1,2,3}
  Mapped <- MapAll
  ZeroBelow <- BelowAll
  Dptrs = {11,12,13}
  Arrays = {}
  Sizes = {1}
  SizeMod = 16
  NULL = NULL
  Limit = 9
  AllocKinds = {"mem"}
  Stores = {}
SPECIFICATION FairCareful
INVARIANT NoStaleRecord
INVARIANT NeverReregisters
INVARIANT LastRecOnChain
PROPERTY CallReturns
CHECK_DEADLOCK FALSE
