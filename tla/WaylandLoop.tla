----------------------------- MODULE WaylandLoop -----------------------------
(***************************************************************************)
(* run_wayland_idle_event_loop() of main.c, the notification object of     *)
(* wayland.c and the compositor at the other end of the socket.            *)
(*                                                                         *)
(* One iteration of the loop is the steps WlTop .. WlDispatched.  What     *)
(* poll() reported is a snapshot, revents, that the later steps act upon   *)
(* while the world moves on.                                               *)
(***************************************************************************)
EXTENDS CommandControl, Sequences

CONSTANTS
  ResourceFailures,    \* may the calls that need a descriptor or memory fail?
  MaxTransient,        \* how often EINTR or EAGAIN interrupts the loop
  MaxEvents            \* events the socket holds before the compositor waits

ASSUME WaylandAssumption ==
  /\ ResourceFailures \in BOOLEAN
  /\ MaxTransient \in Nat
  /\ MaxEvents \in Nat \ {0}

VARIABLES
  connection,          \* the socket to the compositor: "up" or "lost"
  notification,        \* "none", "buffered" in the client, "active"
  last_sent,           \* the last event the compositor sent, or "none"
  events,              \* events in the socket
  dispatching,         \* events wl_display_dispatch() has read
  start_timer,         \* the start-monitor timerfd, "none" without one
  fallback_due,        \* has the fallback timerfd expired?
  has_pidfd,           \* process_exit_wait_file_descriptor >= 0
  flush_is_pending,    \* wayland_flush_is_pending
  revents,             \* what poll() reported
  transient            \* EINTRs and EAGAINs so far

compositorVars == <<connection, last_sent, events>>
timerVars == <<start_timer, fallback_due>>
loopVars == <<notification, dispatching, has_pidfd, flush_is_pending, revents, transient>>
waylandVars == <<compositorVars, timerVars, loopVars>>

WaylandLabels == {"wl_setup", "wl_setup_check", "wl_top", "wl_sigchld", "wl_flush",
                  "wl_poll", "wl_signals", "wl_flush_out", "wl_monitor",
                  "wl_first_pause", "wl_exit_fd", "wl_read", "wl_dispatch",
                  "wl_break", "wl_abort"}

WaylandInit ==
  /\ connection = "up"
  /\ notification = "none"
  /\ last_sent = "none"
  /\ events = <<>>
  /\ dispatching = <<>>
  /\ start_timer = "none"
  /\ fallback_due = FALSE
  /\ has_pidfd = FALSE
  /\ flush_is_pending = FALSE
  /\ revents = {}
  /\ transient = 0

\* What poll() can report.
Conditions == {"hup", "events", "writable", "signals", "timer", "pidfd", "fallback"}

Events == {"idled", "resumed"}

QueueTypeOK ==
  /\ events \in Seq(Events) /\ Len(events) <= MaxEvents
  /\ dispatching \in Seq(Events) /\ Len(dispatching) <= MaxEvents
  /\ transient \in 0 .. MaxTransient

LoopTypeOK ==
  /\ connection \in {"up", "lost"}
  /\ last_sent \in Events \cup {"none"}
  /\ start_timer \in {"none", "disarmed", "armed", "expired", "consumed"}
  /\ fallback_due \in BOOLEAN
  /\ notification \in {"none", "buffered", "active"}
  /\ has_pidfd \in BOOLEAN
  /\ flush_is_pending \in BOOLEAN
  /\ revents \subseteq Conditions

WaylandTypeOK == QueueTypeOK /\ LoopTypeOK

InWaylandLoop == pc \in WaylandLabels \ {"wl_setup", "wl_break", "wl_abort"}

-----------------------------------------------------------------------------
(* The compositor and the timers. *)

\* ext_idle_notification_v1: idled when the user has been inactive for the
\* timeout, resumed at the first activity after an idled.
CompositorSends ==
  /\ InWaylandLoop
  /\ connection = "up"
  /\ notification = "active"
  /\ Len(events) < MaxEvents
  /\ last_sent' = IF user_idle THEN "idled" ELSE "resumed"
  /\ \/ user_idle /\ last_sent # "idled"
     \/ ~user_idle /\ last_sent = "idled"
  /\ events' = Append(events, last_sent')
  /\ UNCHANGED <<controlVars, connection, timerVars, loopVars>>

ConnectionIsLost ==
  /\ InWaylandLoop
  /\ connection = "up"
  /\ connection' = "lost"
  /\ UNCHANGED <<controlVars, last_sent, events, timerVars, loopVars>>

StartTimerExpires ==
  /\ InWaylandLoop
  /\ start_timer = "armed"
  /\ start_timer' = "expired"
  /\ UNCHANGED <<controlVars, compositorVars, fallback_due, loopVars>>

FallbackTimerExpires ==
  /\ InWaylandLoop
  /\ ~has_pidfd /\ ~fallback_due
  /\ fallback_due' = TRUE
  /\ UNCHANGED <<controlVars, compositorVars, start_timer, loopVars>>

WaylandWorld == CompositorSends \/ ConnectionIsLost \/ StartTimerExpires
                  \/ FallbackTimerExpires

-----------------------------------------------------------------------------
(* Ways out of the loop. *)

Continue(next) == Goto(next) /\ UNCHANGED <<commandVars, command_paused>>

\* break: the loop is over and the command is let go.
BreakOff == Continue("wl_break")

\* goto cleanup with result -1: main() goes on with X11.
Abort == Continue("wl_abort")

KeepFlags == UNCHANGED <<interruption_received, sigchld_received>>
KeepWorld == UNCHANGED <<sent, user_idle, compositorVars>>
-----------------------------------------------------------------------------
(* The start-up part of run_wayland_idle_event_loop(). *)

\* timerfd_settime() with a zero it_value leaves the timer disarmed.
create_one_shot_timer == IF StartMonitorAfterMs = 0 THEN "disarmed" ELSE "armed"

WlSetup ==
  /\ pc = "wl_setup"
  /\ \/ /\ ResourceFailures
        /\ Abort
        /\ UNCHANGED <<start_timer, has_pidfd>>
     \/ /\ start_timer' = create_one_shot_timer
        /\ \/ command # "reaped" /\ has_pidfd' = TRUE
           \/ (ResourceFailures \/ command = "reaped") /\ has_pidfd' = FALSE
        /\ Continue("wl_setup_check")
  /\ KeepFlags /\ KeepWorld
  /\ UNCHANGED <<monitoring_started, fallback_due, notification, dispatching,
                 flush_is_pending, revents, transient>>

WlSetupCheck ==
  /\ pc = "wl_setup_check"
  /\ exit_if_pid_has_finished("wl_top")
  /\ KeepFlags /\ KeepWorld
  /\ UNCHANGED <<monitoring_started, timerVars, loopVars>>

-----------------------------------------------------------------------------
(* One iteration. *)

WlTop ==
  /\ pc = "wl_top"
  /\ IF interruption_received # "none"
     THEN Continue("forward") /\ UNCHANGED sigchld_received
     ELSE /\ Continue(IF sigchld_received THEN "wl_sigchld" ELSE "wl_flush")
          /\ sigchld_received' = FALSE
  /\ KeepWorld
  /\ UNCHANGED <<interruption_received, monitoring_started, timerVars, loopVars>>

WlSigchld ==
  /\ pc = "wl_sigchld"
  /\ exit_if_pid_has_finished("wl_flush")
  /\ KeepFlags /\ KeepWorld
  /\ UNCHANGED <<monitoring_started, timerVars, loopVars>>

\* The results of wl_display_flush().  What is in the client's buffer
\* is the request for the notification object, and nothing else.
FlushSends ==
  /\ connection = "up" \/ notification # "buffered"
  /\ notification' = IF notification = "buffered" THEN "active" ELSE notification
  /\ flush_is_pending' = FALSE
  /\ UNCHANGED transient

\* Mutant: EAGAIN does not ask for POLLOUT.
FlushWouldBlockUnnoticed ==
  /\ connection = "up" /\ notification = "buffered" /\ transient < MaxTransient
  /\ transient' = transient + 1
  /\ UNCHANGED <<notification, flush_is_pending>>

FlushWouldBlock ==
  /\ connection = "up" /\ notification = "buffered" /\ transient < MaxTransient
  /\ transient' = transient + 1
  /\ flush_is_pending' = TRUE
  /\ UNCHANGED notification

\* EINTR: the caller neither learns that it was sent nor that it was not.
FlushInterrupted ==
  /\ transient < MaxTransient
  /\ transient' = transient + 1
  /\ UNCHANGED <<notification, flush_is_pending>>

\* EPIPE: noticed only when there is something to send.
FlushFails ==
  /\ connection = "lost" /\ notification = "buffered"
  /\ UNCHANGED <<notification, flush_is_pending, transient>>

\* wl_display_dispatch_pending() finds nothing to do, as the steps at
\* wl_dispatch have emptied the queue; after it the loop flushes.
WlFlush ==
  /\ pc = "wl_flush"
  /\ \/ FlushSends /\ Continue("wl_poll")
     \/ FlushWouldBlock /\ Continue("wl_poll")
     \/ FlushInterrupted /\ Continue("wl_top")
     \/ FlushFails /\ BreakOff
  /\ KeepFlags /\ KeepWorld
  /\ UNCHANGED <<monitoring_started, timerVars, dispatching, has_pidfd, revents>>

\* A pidfd is readable once its process is a zombie, and stays so.
Readiness(condition) ==
  CASE condition = "hup"      -> connection = "lost"
    [] condition = "events"   -> events # <<>>
    [] condition = "writable" -> flush_is_pending /\ connection = "up"
    [] condition = "signals"  -> signal_fd # {}
    [] condition = "timer"    -> start_timer = "expired"
    [] condition = "pidfd"    -> has_pidfd /\ command \notin {"running", "stopped"}
    [] condition = "fallback" -> fallback_due

Ready == {condition \in Conditions : Readiness(condition)}

WlPoll ==
  /\ pc = "wl_poll"
  /\ Ready # {}
  /\ revents' = Ready
  /\ Continue("wl_signals")
  /\ KeepFlags /\ KeepWorld
  /\ UNCHANGED <<monitoring_started, timerVars, notification, dispatching, has_pidfd,
                 flush_is_pending, transient>>

\* EINTR starts the iteration over, any other error gives up on Wayland.
WlPollFails ==
  /\ pc = "wl_poll"
  /\ \/ transient < MaxTransient /\ transient' = transient + 1 /\ Continue("wl_top")
     \/ ResourceFailures /\ Abort /\ UNCHANGED transient
  /\ KeepFlags /\ KeepWorld
  /\ UNCHANGED <<monitoring_started, timerVars, notification, dispatching, has_pidfd,
                 flush_is_pending, revents>>

WlSignals ==
  /\ pc = "wl_signals"
  /\ IF "signals" \in revents
     THEN process_signalfd
     ELSE KeepFlags /\ UNCHANGED signal_fd
  /\ Goto(IF "hup" \in revents THEN "wl_break"
          ELSE IF "writable" \in revents THEN "wl_flush_out" ELSE "wl_monitor")
  /\ KeepWorld
  /\ UNCHANGED <<command, command_paused, monitoring_started, timerVars, loopVars>>

WlFlushOut ==
  /\ pc = "wl_flush_out"
  /\ \/ FlushSends /\ Continue("wl_monitor")
     \/ FlushWouldBlock /\ Continue("wl_monitor")
     \/ FlushInterrupted /\ Continue("wl_monitor")
     \/ FlushFails /\ BreakOff
  /\ KeepFlags /\ KeepWorld
  /\ UNCHANGED <<monitoring_started, timerVars, dispatching, has_pidfd, revents>>

\* start_wayland_idle_notification_object() ignores what its flush returns.
start_wayland_idle_notification_object ==
  \/ /\ connection = "up"
     /\ notification' = "active"
     /\ UNCHANGED transient
  \/ /\ connection = "lost"
     /\ notification' = "buffered"
     /\ UNCHANGED transient
  \/ /\ connection = "up" /\ transient < MaxTransient
     /\ notification' = "buffered"
     /\ transient' = transient + 1

StartMonitoring ==
  /\ start_timer' = "consumed"
  /\ monitoring_started' = TRUE
  /\ \/ start_wayland_idle_notification_object /\ Continue("wl_first_pause")
     \/ ResourceFailures /\ BreakOff /\ UNCHANGED <<notification, transient>>

WlMonitor ==
  /\ pc = "wl_monitor"
  /\ IF ~monitoring_started /\ "timer" \in revents
     THEN \/ StartMonitoring
          \/ /\ ResourceFailures /\ Abort
             /\ UNCHANGED <<start_timer, monitoring_started, notification, transient>>
     ELSE /\ Continue("wl_exit_fd")
          /\ UNCHANGED <<start_timer, monitoring_started, notification, transient>>
  /\ KeepFlags /\ KeepWorld
  /\ UNCHANGED <<fallback_due, dispatching, has_pidfd, flush_is_pending, revents>>

\* Mutant: monitoring starts without a pause.
WlNoFirstPause ==
  /\ pc = "wl_first_pause"
  /\ Continue("wl_exit_fd")
  /\ KeepFlags /\ KeepWorld
  /\ UNCHANGED <<monitoring_started, timerVars, loopVars>>

WlFirstPause ==
  /\ pc = "wl_first_pause"
  /\ IF command_paused
     THEN Continue("wl_exit_fd")
     ELSE pause_running_command_on_user_activity("wl_exit_fd")
  /\ KeepFlags /\ KeepWorld
  /\ UNCHANGED <<monitoring_started, timerVars, loopVars>>

\* Either the pidfd or the fallback timer is in the set, never both.
WlExitFd ==
  /\ pc = "wl_exit_fd"
  /\ \/ /\ {"pidfd", "fallback"} \cap revents = {}
        /\ Continue("wl_read") /\ UNCHANGED fallback_due
     \/ /\ "pidfd" \in revents
        /\ exit_if_pid_has_finished("wl_read") /\ UNCHANGED fallback_due
     \/ /\ "fallback" \in revents
        /\ exit_if_pid_has_finished("wl_read") /\ fallback_due' = FALSE
     \/ /\ "fallback" \in revents
        /\ ResourceFailures /\ Abort /\ UNCHANGED fallback_due
  /\ KeepFlags /\ KeepWorld
  /\ UNCHANGED <<monitoring_started, start_timer, loopVars>>

\* wl_display_dispatch() reads every event there is, then dispatches them.
WlRead ==
  /\ pc = "wl_read"
  /\ \/ /\ "events" \notin revents
        /\ Continue("wl_top") /\ UNCHANGED <<events, dispatching, transient>>
     \/ /\ "events" \in revents
        /\ dispatching' = events /\ events' = <<>>
        /\ Continue("wl_dispatch") /\ UNCHANGED transient
     \/ /\ "events" \in revents /\ connection = "lost"
        /\ BreakOff /\ UNCHANGED <<events, dispatching, transient>>
     \/ /\ "events" \in revents /\ transient < MaxTransient
        /\ transient' = transient + 1
        /\ Continue("wl_top") /\ UNCHANGED <<events, dispatching>>
  /\ KeepFlags
  /\ UNCHANGED <<monitoring_started, sent, user_idle, connection, last_sent, timerVars,
                 notification, has_pidfd, flush_is_pending, revents>>

-----------------------------------------------------------------------------
(* The two callbacks, run by wl_display_dispatch() one event at a time. *)

DispatchNext(event) ==
  /\ pc = "wl_dispatch"
  /\ dispatching # <<>>
  /\ Head(dispatching) = event
  /\ dispatching' = Tail(dispatching)
  /\ KeepFlags /\ KeepWorld
  /\ UNCHANGED <<monitoring_started, timerVars, notification, has_pidfd,
                 flush_is_pending, revents, transient>>

\* Mutant: the callbacks return early.
idled_is_ignored == DispatchNext("idled") /\ Continue("wl_dispatch")
resumed_is_ignored == DispatchNext("resumed") /\ Continue("wl_dispatch")

wayland_idle_notification_idled ==
  /\ DispatchNext("idled")
  /\ IF monitoring_started /\ command_paused
     THEN resume_paused_command_on_user_idle("wl_dispatch")
     ELSE Continue("wl_dispatch")

wayland_idle_notification_resumed ==
  /\ DispatchNext("resumed")
  /\ IF monitoring_started /\ ~command_paused
     THEN pause_running_command_on_user_activity("wl_dispatch")
     ELSE Continue("wl_dispatch")

WlDispatched ==
  /\ pc = "wl_dispatch"
  /\ dispatching = <<>>
  /\ Continue("wl_top")
  /\ KeepFlags /\ KeepWorld
  /\ UNCHANGED <<monitoring_started, timerVars, loopVars>>

\* The descriptors are closed, and before main() tries X11 the notification,
\* the seat and the connection are gone as well.
WlCleanup ==
  /\ pc \in {"wl_break", "wl_abort"}
  /\ Continue(IF pc = "wl_break" THEN "let_finish" ELSE "x_open")
  /\ connection' = "lost"
  /\ notification' = "none" /\ last_sent' = "none"
  /\ events' = <<>> /\ dispatching' = <<>>
  /\ start_timer' = IF start_timer = "consumed" THEN "consumed" ELSE "none"
  /\ has_pidfd' = FALSE /\ fallback_due' = FALSE
  /\ flush_is_pending' = FALSE /\ revents' = {}
  /\ KeepFlags
  /\ UNCHANGED <<monitoring_started, sent, user_idle, transient>>

WaylandSteps ==
  \/ WlSetup \/ WlSetupCheck \/ WlTop \/ WlSigchld \/ WlFlush \/ WlPoll \/ WlPollFails
  \/ WlSignals \/ WlFlushOut \/ WlMonitor \/ WlFirstPause \/ WlExitFd \/ WlRead
  \/ wayland_idle_notification_idled \/ wayland_idle_notification_resumed
  \/ WlDispatched \/ WlCleanup
=============================================================================
