\* A command that forks and exits; nobody else sends signals.
SPECIFICATION Spec
CONSTANTS
  Pids = {sh, p1, p2}
  Root = sh
  Strangers = {}
  Reaper = init
  NotListed = unseen
  Foreign = {}
  ExternalPid = FALSE
  OutsideKills = FALSE
INVARIANTS
  PauseReachesAll
CHECK_DEADLOCK FALSE
