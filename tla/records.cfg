CONSTANTS
  Procs <- One
  Threads <- One
  ProcOf <- Own
  Signals <- SeeAll
  NR = 1
  NG = 3
  Handles = {1,2}
  Mapped <- MapAll
  ZeroBelow <- BelowAll
  Dptrs = {11,12}
  Arrays = {12}
  Sizes = {1}
  SizeMod = 4
  NULL = NULL
  Limit = 3
  AllocKinds = {"mem","array"}
  Stores = {11}
SPECIFICATION Spec
INVARIANT TypeOK
CHECK_DEADLOCK FALSE
