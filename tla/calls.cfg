CONSTANTS
  Procs <- Collide2
  Threads <- Collide2
  ProcOf <- Own
  Signals <- SeeAll
  NR = 2
  NG = 2
  Handles = {1,2}
  Mapped <- MapOwn
  ZeroBelow <- BelowAll
  Dptrs = {11}
  Arrays = {}
  Sizes = {1}
  SizeMod = 4
  NULL = NULL
  Limit = 2
  AllocKinds = {"mem"}
  Stores = {}
SPECIFICATION Spec
INVARIANT UniqueKey
INVARIANT NodeInv
CHECK_DEADLOCK FALSE
