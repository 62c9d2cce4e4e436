CONSTANTS
  Procs <- Collide3
  Threads <- Collide3
  ProcOf <- Own
  Signals <- SeeAll
  NR = 3
  NG = 3
  Handles = {1}
  Mapped <- MapAll
  ZeroBelow <- BelowAll
  Dptrs = {11}
  Arrays = {}
  Sizes = {1,2}
  SizeMod = 16
  NULL = NULL
  Limit = 2
  AllocKinds = {"mem"}
  Stores = {}
SPECIFICATION ApartSpec
INVARIANT LedgerComplete
INVARIANT ChainsDisjoint
INVARIANT HeadOvershoot
CHECK_DEADLOCK FALSE
