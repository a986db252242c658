------------------------------- MODULE X11Loop -------------------------------
(***************************************************************************)
(* The second half of main(): the polling loop on XScreenSaver, which is   *)
(* also the fallback when no way of detecting idleness exists.  How long   *)
(* it sleeps is the subject of module X11Polling; here every sleep ends.   *)
(***************************************************************************)
EXTENDS CommandControl

VARIABLES
  xscreensaver_is_available,
  x_connection,        \* "up" or "lost"
  delay_is_over,       \* elapsed_ms >= start_monitor_after_ms
  sampled_idle         \* was the queried idle time at least the timeout?

x11Vars == <<xscreensaver_is_available, x_connection, delay_is_over, sampled_idle>>

X11Labels == {"x_open", "x_top", "x_sigchld", "x_query", "x_check", "x_act", "x_sleep"}

X11Init ==
  /\ xscreensaver_is_available = FALSE
  /\ x_connection = "none"
  /\ delay_is_over = FALSE
  /\ sampled_idle = FALSE

X11TypeOK ==
  /\ xscreensaver_is_available \in BOOLEAN
  /\ x_connection \in {"none", "up", "lost"}
  /\ delay_is_over \in BOOLEAN
  /\ sampled_idle \in BOOLEAN

InX11Loop == pc \in X11Labels \ {"x_open"}

-----------------------------------------------------------------------------
DelayElapses ==
  /\ InX11Loop
  /\ ~delay_is_over
  /\ delay_is_over' = TRUE
  /\ UNCHANGED <<controlVars, xscreensaver_is_available, x_connection, sampled_idle>>

XServerIsLost ==
  /\ InX11Loop
  /\ x_connection = "up"
  /\ x_connection' = "lost"
  /\ UNCHANGED <<controlVars, xscreensaver_is_available, delay_is_over, sampled_idle>>

X11World == DelayElapses \/ XServerIsLost

-----------------------------------------------------------------------------
XKeep == UNCHANGED <<interruption_received, sigchld_received, monitoring_started,
                     sent, user_idle>>
XContinue(next) == Goto(next) /\ UNCHANGED <<commandVars, command_paused>>

\* No display, a display without the extension, or both.
XOpen ==
  /\ pc = "x_open"
  /\ XContinue("x_top")
  /\ xscreensaver_is_available' \in BOOLEAN
  /\ x_connection' = IF xscreensaver_is_available' THEN "up" ELSE "none"
  /\ delay_is_over' = (StartMonitorAfterMs = 0)
  /\ XKeep
  /\ UNCHANGED sampled_idle

XTop ==
  /\ pc = "x_top"
  /\ IF interruption_received # "none"
     THEN XContinue("forward") /\ UNCHANGED sigchld_received
     ELSE /\ XContinue(IF sigchld_received THEN "x_sigchld" ELSE "x_query")
          /\ sigchld_received' = FALSE
  /\ UNCHANGED <<interruption_received, monitoring_started, sent, user_idle, x11Vars>>

XSigchld ==
  /\ pc = "x_sigchld"
  /\ exit_if_pid_has_finished("x_query")
  /\ XKeep
  /\ UNCHANGED x11Vars

\* Without the extension the idle time is ULONG_MAX, which no timeout exceeds.
\* Mutant: without the extension the idle time stays 0.
uninitialized_is_active == xscreensaver_is_available /\ user_idle
query_user_idle_time == IF xscreensaver_is_available THEN user_idle ELSE TRUE

\* Mutant: --start-monitor-after is not looked at.
delay_is_skipped == TRUE
monitoring_is_due == monitoring_started \/ delay_is_over

\* Xlib ends the program when the connection breaks during a query.
XQuery ==
  /\ pc = "x_query"
  /\ monitoring_started' = monitoring_is_due
  /\ IF monitoring_started' /\ x_connection = "lost"
     THEN Exit("error") /\ UNCHANGED sampled_idle
     ELSE /\ Goto("x_check")
          /\ sampled_idle' = IF monitoring_started' THEN query_user_idle_time
                                                    ELSE sampled_idle
  /\ UNCHANGED <<commandVars, interruption_received, sigchld_received, command_paused,
                 sent, user_idle, xscreensaver_is_available, x_connection, delay_is_over>>

XCheck ==
  /\ pc = "x_check"
  /\ exit_if_pid_has_finished(IF monitoring_started THEN "x_act" ELSE "x_sleep")
  /\ XKeep
  /\ UNCHANGED x11Vars

pause_or_resume_command_depending_on_user_activity ==
  /\ pc = "x_act"
  /\ \/ sampled_idle /\ command_paused /\ resume_paused_command_on_user_idle("x_sleep")
     \/ ~sampled_idle /\ ~command_paused /\ pause_running_command_on_user_activity("x_sleep")
     \/ sampled_idle # command_paused /\ XContinue("x_sleep")
  /\ XKeep
  /\ UNCHANGED x11Vars

XSleep ==
  /\ pc = "x_sleep"
  /\ Goto("x_top")
  /\ process_signalfd
  /\ UNCHANGED <<command, command_paused, monitoring_started, sent, user_idle, x11Vars>>

X11Steps == XOpen \/ XTop \/ XSigchld \/ XQuery \/ XCheck
              \/ pause_or_resume_command_depending_on_user_activity \/ XSleep
=============================================================================
