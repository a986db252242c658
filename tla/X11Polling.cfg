\* An idle timeout that is longer than poll() can sleep, and a tree that may
\* take longer to pause than the polling interval.
SPECIFICATION Spec
CONSTANTS
  POLLING_INTERVAL_MS = 3
  POLLING_INTERVAL_BEFORE_STARTING_MONITORING_MS = 1
  start_monitor_after_ms = 2
  user_idle_timeout_ms = 9
  INT_MAX = 8
  MaxPausingTime = 4
INVARIANTS
  ResumedInTime
  PausedInTime
  SleepsForAWhile
