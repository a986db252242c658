\* A process whose name has ") " inside.
SPECIFICATION ListSpec
CONSTANTS
  Pids = {1, 2, 3, 10}
  InitProcess = 1
  Root = 2
  Self = 10
  Uninitialized = uninitialized
  Tables = {}
  Families <- MCFamilies
  Names <- ClosingNames
  Comms <- MCComms
  MaxPidLength = 2
  MaxCommLength = 6
  InitiallyAllocated = 2
  MaxEnds = 0
INVARIANTS
  ReadsRealParent
CHECK_DEADLOCK FALSE
