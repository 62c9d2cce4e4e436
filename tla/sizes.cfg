CONSTANTS
  SizeMod = 256
  Requests <- AllCalls
  Usages = {0, 1, 39, 40, 41, 200, 255}
  Texts <- Spelled
  Device = 100
  NULL = NULL
SPECIFICATION Spec
INVARIANT BeyondLimitOnly
INVARIANT PitchIsLeast
INVARIANT ReportedIsGranted
CHECK_DEADLOCK FALSE
