CONSTANTS
  Procs <- Collide2
  Threads <- Collide2
  ProcOf <- Own
  Signals <- SeeAll
  NR = 2
  NG = 3
  Handles = {1,2}
  Mapped <- MapAll
  ZeroBelow <- BelowAll
  Dptrs = {11,12}
  Arrays = {}
  Sizes = {1,2}
  SizeMod = 16
  NULL = NULL
  Limit = 3
  AllocKinds = {"mem"}
  Stores = {}
SPECIFICATION FairScan
INVARIANT LedgerComplete
INVARIANT ChainsDisjoint
INVARIANT CrashLeaksOne
INVARIANT UsedIsHeads
INVARIANT HeadQuota
INVARIANT LastRecOnChain
PROPERTY CallReturns
PROPERTY ImplementsLedger
CHECK_DEADLOCK FALSE
