\* A command started by runwhenidle, everything that can go wrong allowed.
SPECIFICATION Spec
CONSTANTS
  ExternalPid = FALSE
  PauseCanBeIgnored = FALSE
  StartMonitorAfterMs = 300
  DescendantsMayVanish = TRUE
  Interruptions = {"SIGINT", "SIGTERM"}
  ResourceFailures = TRUE
  MaxTransient = 1
  MaxEvents = 2
INVARIANTS
  TypeOK
  FlagTracksCommand
  NeverAwaitsStopped
  NeverAbandons
  AsleepInAgreement
  UnrestrictedAtFirst
PROPERTIES
  NeverPausedUndetected
  ResumedWhenIdle
  PausedWhenActive
  UndetectedContinues
  EndIsNoticed
  InterruptionIsServed
  ImplementsSupervisor
CHECK_DEADLOCK FALSE
