CONSTANTS
  Pids <- TwoPids
  Users = {"root", "ann", "bob"}
  Owners = {"ann"}
  Root = "root"
  Extras <- TwoName
  Ticks = 2
  Room = 1
SPECIFICATION Spec
INVARIANT KeyHasStartTime
CHECK_DEADLOCK FALSE
