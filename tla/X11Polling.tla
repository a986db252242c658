----------------------------- MODULE X11Polling -----------------------------
(***************************************************************************)
(* When the X11 loop of main() looks at the user: how long it sleeps, how  *)
(* pause_or_resume_command_depending_on_user_activity() computes that, and *)
(* how late the command can be paused and resumed as a consequence.        *)
(*                                                                         *)
(* Time is counted in units of which the intervals of main.c are           *)
(* multiples; the code takes none except for pausing a process tree.       *)
(***************************************************************************)
EXTENDS Integers

CONSTANTS
  POLLING_INTERVAL_MS,
  POLLING_INTERVAL_BEFORE_STARTING_MONITORING_MS,
  start_monitor_after_ms,
  user_idle_timeout_ms,
  INT_MAX,             \* the longest timeout poll() takes
  MaxPausingTime       \* bound on the time it takes to pause a process tree

ASSUME PollingAssumption ==
  /\ POLLING_INTERVAL_BEFORE_STARTING_MONITORING_MS \in Nat \ {0}
  /\ POLLING_INTERVAL_MS \in Nat
  /\ POLLING_INTERVAL_BEFORE_STARTING_MONITORING_MS <= POLLING_INTERVAL_MS
  /\ start_monitor_after_ms \in Nat
  /\ user_idle_timeout_ms \in Nat \ {0}
  /\ INT_MAX \in Nat /\ POLLING_INTERVAL_MS <= INT_MAX
  /\ MaxPausingTime \in Nat

VARIABLES
  step,                \* "iterate", "pausing", "sleep"
  elapsed_ms,          \* since the loop began, capped
  idle,                \* what XScreenSaver would answer now, capped
  sampled,             \* user_idle_time_ms, what it answered
  command_paused,
  monitoring_started,
  sleep_time_ms,
  timer,               \* what is left of the poll(), or of the pausing
  pausing_time_ms,
  unnoticed            \* how long the user has been active and not noticed

vars == <<step, elapsed_ms, idle, sampled, command_paused, monitoring_started,
          sleep_time_ms, timer, pausing_time_ms, unnoticed>>

\* A user who has been away for longer makes no difference.
IdleCap == user_idle_timeout_ms + POLLING_INTERVAL_MS + MaxPausingTime + 1

Lesser(a, b) == IF a < b THEN a ELSE b
Greater(a, b) == IF a < b THEN b ELSE a

\* The loop may follow a Wayland loop that was abandoned, and then goes on with
\* the flags as that loop left them.
Init ==
  /\ step = "iterate"
  /\ elapsed_ms = 0
  /\ idle \in 0 .. IdleCap
  /\ sampled = 0
  /\ command_paused \in BOOLEAN /\ monitoring_started \in BOOLEAN
  /\ command_paused => monitoring_started
  /\ sleep_time_ms = POLLING_INTERVAL_BEFORE_STARTING_MONITORING_MS
  /\ timer = 0
  /\ pausing_time_ms = 0
  /\ unnoticed = 0

-----------------------------------------------------------------------------
\* A unit of time passes in poll() or while the tree is being paused, with the
\* user touching the keyboard at its end or not.  The stopwatch runs while the
\* user's activity is not reflected in the command being paused.
TimePasses ==
  /\ step \in {"sleep", "pausing"} /\ timer > 0
  /\ timer' = timer - 1
  /\ idle' \in {0, Lesser(idle + 1, IdleCap)}
  /\ elapsed_ms' = Lesser(elapsed_ms + 1, start_monitor_after_ms)
  /\ unnoticed' =
       IF step = "sleep" /\ monitoring_started /\ ~command_paused
          /\ (unnoticed > 0 \/ idle < user_idle_timeout_ms)
       THEN unnoticed + 1 ELSE 0
  /\ UNCHANGED <<step, sampled, command_paused, monitoring_started, sleep_time_ms,
                 pausing_time_ms>>

\* sleep_for_ms_with_signalfd() with the timeout cut to an int.
Sleep(time) ==
  /\ step' = "sleep"
  /\ sleep_time_ms' = time
  /\ timer' = Lesser(time, INT_MAX)

\* Mutants: no lower bound; always the whole timeout.
NextCheckUnbounded(idle_time, pausing_time) ==
  user_idle_timeout_ms - idle_time - pausing_time
NextCheckAfterTimeout(idle_time, pausing_time) == user_idle_timeout_ms

\* The next activity check after a sample, if pausing took pausing_time.
NextCheckIn(idle_time, pausing_time) ==
  Greater(user_idle_timeout_ms - idle_time - pausing_time, POLLING_INTERVAL_MS)

monitoring_is_due == monitoring_started \/ elapsed_ms >= start_monitor_after_ms

NotMonitoring ==
  /\ ~monitoring_is_due
  /\ Sleep(sleep_time_ms)
  /\ UNCHANGED <<sampled, command_paused, monitoring_started, pausing_time_ms>>

\* Mutant: the sleep of the paused command is kept.
UserIsInactiveNoReset ==
  /\ monitoring_is_due /\ idle >= user_idle_timeout_ms
  /\ monitoring_started' = TRUE /\ sampled' = idle
  /\ command_paused' = FALSE
  /\ Sleep(sleep_time_ms)
  /\ UNCHANGED pausing_time_ms

UserIsInactive ==
  /\ monitoring_is_due /\ idle >= user_idle_timeout_ms
  /\ monitoring_started' = TRUE /\ sampled' = idle
  /\ command_paused' = FALSE
  /\ Sleep(IF command_paused THEN POLLING_INTERVAL_MS ELSE sleep_time_ms)
  /\ UNCHANGED pausing_time_ms

UserIsActivePaused ==
  /\ monitoring_is_due /\ idle < user_idle_timeout_ms /\ command_paused
  /\ monitoring_started' = TRUE /\ sampled' = idle
  /\ Sleep(NextCheckIn(idle, 0))
  /\ UNCHANGED <<command_paused, pausing_time_ms>>

UserIsActiveRunning ==
  /\ monitoring_is_due /\ idle < user_idle_timeout_ms /\ ~command_paused
  /\ monitoring_started' = TRUE /\ sampled' = idle
  /\ step' = "pausing"
  /\ pausing_time_ms' \in 0 .. MaxPausingTime
  /\ timer' = pausing_time_ms'
  /\ UNCHANGED <<command_paused, sleep_time_ms>>

Iterate ==
  /\ step = "iterate"
  /\ NotMonitoring \/ UserIsInactive \/ UserIsActivePaused \/ UserIsActiveRunning
  /\ unnoticed' = 0
  /\ UNCHANGED <<elapsed_ms, idle>>

Paused ==
  /\ step = "pausing" /\ timer = 0
  /\ command_paused' = TRUE
  /\ Sleep(NextCheckIn(sampled, pausing_time_ms))
  /\ UNCHANGED <<elapsed_ms, idle, sampled, monitoring_started, pausing_time_ms, unnoticed>>

\* poll() returns: its timeout has expired, or the SIGCHLD of a command that
\* was stopped or continued has come in.
Wake ==
  /\ step = "sleep"
  /\ step' = "iterate" /\ timer' = 0
  /\ UNCHANGED <<elapsed_ms, idle, sampled, command_paused, monitoring_started,
                 sleep_time_ms, pausing_time_ms, unnoticed>>

Next == TimePasses \/ Iterate \/ Paused \/ Wake

Spec == Init /\ [][Next]_vars

-----------------------------------------------------------------------------
TypeOK ==
  /\ step \in {"iterate", "pausing", "sleep"}
  /\ elapsed_ms \in 0 .. start_monitor_after_ms
  /\ idle \in 0 .. IdleCap /\ sampled \in 0 .. IdleCap
  /\ command_paused \in BOOLEAN /\ monitoring_started \in BOOLEAN
  /\ sleep_time_ms \in Nat
  /\ timer \in Nat
  /\ pausing_time_ms \in 0 .. MaxPausingTime
  /\ unnoticed \in Nat

\* A paused command is resumed in time: the sleep that was computed when the
\* user was last seen active never reaches further beyond the idle timeout
\* than one polling interval and the time that pausing took.  For a command that
\* another loop has paused this begins with the first look at the user.
ResumedInTime ==
  command_paused /\ step = "sleep" =>
    idle < user_idle_timeout_ms + POLLING_INTERVAL_MS + MaxPausingTime

\* A running command is paused in time: a sleep computed for a paused command
\* is never slept by a running one.
PausedInTime == unnoticed <= POLLING_INTERVAL_MS

\* poll() is never given a negative timeout, which would be no timeout, nor a
\* zero one in which the loop would spin.
SleepsForAWhile ==
  step = "sleep" => sleep_time_ms >= POLLING_INTERVAL_BEFORE_STARTING_MONITORING_MS
=============================================================================
