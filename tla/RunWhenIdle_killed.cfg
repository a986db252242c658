\* The command is ended by a signal.
SPECIFICATION Spec
CONSTANTS
  ExternalPid = FALSE
  PauseCanBeIgnored = FALSE
  StartMonitorAfterMs = 300
  DescendantsMayVanish = FALSE
  Interruptions = {}
  ResourceFailures = FALSE
  MaxTransient = 0
  MaxEvents = 1
PROPERTIES
  AnyEndIsNoticed
CHECK_DEADLOCK FALSE
