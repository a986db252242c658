\* A command with up to three descendants, next to a stranger.
SPECIFICATION Spec
CONSTANTS
  Pids = {sh, p1, p2, p3, cron}
  Root = sh
  Strangers = {cron}
  Reaper = init
  NotListed = unseen
  Foreign = {}
  ExternalPid = FALSE
  OutsideKills = TRUE
SYMMETRY Symmetry
INVARIANTS
  EscapeesAreNewborn
  ResumeLeavesNoDescendantStopped
  OnlyFamilyStopped
CHECK_DEADLOCK FALSE
