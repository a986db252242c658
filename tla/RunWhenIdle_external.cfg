\* --pid with --pause-method=SIGTSTP: the command has another parent and may
\* ignore the pause.
SPECIFICATION Spec
CONSTANTS
  ExternalPid = TRUE
  PauseCanBeIgnored = TRUE
  StartMonitorAfterMs = 300
  DescendantsMayVanish = TRUE
  Interruptions = {"SIGINT", "SIGTERM"}
  ResourceFailures = TRUE
  MaxTransient = 2
  MaxEvents = 2
INVARIANTS
  NothingLeftStopped
  NeverAbandons
  NoRequestForgotten
PROPERTIES
  EndIsNoticed
  ImplementsSupervisor
CHECK_DEADLOCK FALSE
