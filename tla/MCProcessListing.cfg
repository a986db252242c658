\* The command with up to three descendants, two of the four with odd names. The
\* line of /proc/12/stat is as long as it can be.
SPECIFICATION ListSpec
CONSTANTS
  Pids = {1, 3, 4, 5, 10, 12}
  InitProcess = 1
  Root = 12
  Self = 10
  Uninitialized = uninitialized
  Tables = {}
  Families <- MCFamilies
  Names <- PlainNames
  Comms <- MCComms
  MaxPidLength = 2
  MaxCommLength = 3
  InitiallyAllocated = 2
  MaxEnds = 1
INVARIANTS
  ReadsRealParent
  StaysInsideAllocation
  HandsOverTable
  StaysInsideArray
  NeverComparesUninitialized
  FindsDescendants
PROPERTIES
  ImplementsTree
  ScanEnds
CHECK_DEADLOCK FALSE
