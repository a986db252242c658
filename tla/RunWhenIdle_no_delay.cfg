\* --start-monitor-after=0 under Wayland: the start-monitor timer never expires.
SPECIFICATION Spec
CONSTANTS
  ExternalPid = FALSE
  PauseCanBeIgnored = FALSE
  StartMonitorAfterMs = 0
  DescendantsMayVanish = FALSE
  Interruptions = {}
  ResourceFailures = FALSE
  MaxTransient = 0
  MaxEvents = 1
PROPERTIES
  MonitoringStarts
CHECK_DEADLOCK FALSE
