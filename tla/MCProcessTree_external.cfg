\* --pid: the command has another parent and may vanish at any time, and one of
\* its descendants belongs to another user.
SPECIFICATION Spec
CONSTANTS
  Pids = {sh, p1, p2, sudo}
  Root = sh
  Strangers = {}
  Reaper = init
  NotListed = unseen
  Foreign = {sudo}
  ExternalPid = TRUE
  OutsideKills = FALSE
SYMMETRY Symmetry
INVARIANTS
  ResumeLeavesNoDescendantStopped
CHECK_DEADLOCK FALSE
