CONSTANTS
  Threads = {"t1", "t2"}
  Exports <- OldDriver
  Early = {"cuMemAlloc_v2"}
  Later <- OneCallsAll
  Self <- MySelf
  NULL = NULL
SPECIFICATION Spec
INVARIANT CallsResolved
INVARIANT OwnFunction
INVARIANT KeyBeforeCalls
PROPERTY InitReturns
CHECK_DEADLOCK FALSE
