-------------------------- MODULE MonitoringProofs --------------------------
(***************************************************************************)
(* Proofs about what RunWhenIdle does while it monitors the user: when it  *)
(* may pause, what it has heard of the compositor when it goes to sleep,   *)
(* and that no step does more than IdleSupervisor allows.                  *)
(***************************************************************************)
EXTENDS RunWhenIdleProofs

\* A request that could not be sent is one poll() waits to send.
RequestIsAwaited ==
  pc = "wl_poll" /\ notification = "buffered" => flush_is_pending \/ connection = "lost"

\* Monitoring starts once, in one loop, and that is the end of the delay.
DelayInv ==
  /\ pc \in {"start", "wl_setup"} => ~monitoring_started
  /\ pc \in {"start", "x_open"} \cup WaylandLabels => ~delay_is_over
  /\ monitoring_started => start_timer = "consumed" \/ delay_is_over
  /\ pc \in {"x_act", "wl_first_pause"} => monitoring_started
  /\ command = "stopped" /\ pc # "exited" => monitoring_started

\* Without the extension no sample calls for a pause.
SampleInv ==
  pc \in {"x_check", "x_act"} /\ ~xscreensaver_is_available /\ monitoring_started => sampled_idle

MonitorInv == RequestIsAwaited /\ DelayInv /\ SampleInv

USE DEF WaylandLabels

-----------------------------------------------------------------------------
LEMMA InitMonitorInv == Init => MonitorInv
BY DEF Init, ControlInit, WaylandInit, X11Init, MonitorInv, RequestIsAwaited, DelayInv, SampleInv

LEMMA SharedStepMonitor ==
  ASSUME TypeOK, MonitorInv, SharedSteps, UNCHANGED <<waylandVars, x11Vars>>
  PROVE  MonitorInv'
<1> USE DEF TypeOK, ControlTypeOK, MonitorInv, RequestIsAwaited, DelayInv, SampleInv, Goto, Exit,
            waylandVars, compositorVars, timerVars, loopVars, x11Vars, commandVars
<1>1. CASE Forward
  BY <1>1 DEF Forward
<1>2. CASE Unpause
  BY <1>2 DEF Unpause, forget_pause_and_resume, SignalTree, Continues, NotifyParent
<1>3. CASE Await
  BY <1>3 DEF Await
<1>4. CASE LetFinish
  BY <1>4 DEF LetFinish, forget_pause_and_resume, SignalTree, Continues, NotifyParent
<1>5. CASE WaitTop
  BY <1>5 DEF WaitTop
<1>6. CASE WaitCheck
  BY <1>6 DEF WaitCheck, exit_if_pid_has_finished
<1>7. CASE WaitSleep
  BY <1>7 DEF WaitSleep, process_signalfd
<1> QED
  BY <1>1, <1>2, <1>3, <1>4, <1>5, <1>6, <1>7 DEF SharedSteps

LEMMA WaylandStepMonitor ==
  ASSUME TypeOK, MonitorInv, WaylandSteps, UNCHANGED x11Vars
  PROVE  MonitorInv'
<1> USE DEF TypeOK, ControlTypeOK, WaylandTypeOK, LoopTypeOK, MonitorInv, RequestIsAwaited,
            DelayInv, SampleInv, Goto, Exit, Continue, KeepFlags, KeepWorld, compositorVars,
            timerVars, loopVars, x11Vars, commandVars
<1>1. CASE WlSetup
  BY <1>1 DEF WlSetup, Abort, create_one_shot_timer
<1>2. CASE WlSetupCheck
  BY <1>2 DEF WlSetupCheck, exit_if_pid_has_finished
<1>3. CASE WlTop
  BY <1>3 DEF WlTop
<1>4. CASE WlSigchld
  BY <1>4 DEF WlSigchld, exit_if_pid_has_finished
<1>5. CASE WlFlush
  BY <1>5 DEF WlFlush, BreakOff, FlushSends, FlushWouldBlock, FlushInterrupted, FlushFails
<1>6. CASE WlPoll
  BY <1>6 DEF WlPoll
<1>7. CASE WlPollFails
  BY <1>7 DEF WlPollFails, Abort
<1>8. CASE WlSignals
  BY <1>8 DEF WlSignals, process_signalfd
<1>9. CASE WlFlushOut
  BY <1>9 DEF WlFlushOut, BreakOff, FlushSends, FlushWouldBlock, FlushInterrupted, FlushFails
<1>10. CASE WlMonitor
  BY <1>10 DEF WlMonitor, BreakOff, Abort, StartMonitoring, start_wayland_idle_notification_object
<1>11. CASE WlFirstPause
  BY <1>11 DEF WlFirstPause, pause_running_command_on_user_activity, SignalTree, Stops,
       NotifyParent
<1>12. CASE WlExitFd
  BY <1>12 DEF WlExitFd, Abort, exit_if_pid_has_finished
<1>13. CASE WlRead
  BY <1>13 DEF WlRead, BreakOff
<1>14. CASE wayland_idle_notification_idled
  BY <1>14 DEF wayland_idle_notification_idled, DispatchNext, resume_paused_command_on_user_idle,
       SignalTree, Continues, NotifyParent
<1>15. CASE wayland_idle_notification_resumed
  BY <1>15 DEF wayland_idle_notification_resumed, DispatchNext,
       pause_running_command_on_user_activity, SignalTree, Stops, NotifyParent
<1>16. CASE WlDispatched
  BY <1>16 DEF WlDispatched
<1>17. CASE WlCleanup
  BY <1>17 DEF WlCleanup
<1> QED
  BY <1>1, <1>2, <1>3, <1>4, <1>5, <1>6, <1>7, <1>8, <1>9, <1>10, <1>11, <1>12,
       <1>13, <1>14, <1>15, <1>16, <1>17 DEF WaylandSteps

LEMMA X11StepMonitor ==
  ASSUME TypeOK, MonitorInv, X11Steps, UNCHANGED waylandVars
  PROVE  MonitorInv'
<1> USE DEF TypeOK, ControlTypeOK, X11TypeOK, MonitorInv, RequestIsAwaited, DelayInv, SampleInv,
            Goto, Exit, XContinue, XKeep, waylandVars, compositorVars, timerVars, loopVars,
            x11Vars, commandVars
<1>1. CASE XOpen
  BY <1>1 DEF XOpen
<1>2. CASE XTop
  BY <1>2 DEF XTop
<1>3. CASE XSigchld
  BY <1>3 DEF XSigchld, exit_if_pid_has_finished
<1>4. CASE XQuery
  BY <1>4 DEF XQuery, monitoring_is_due, query_user_idle_time
<1>5. CASE XCheck
  BY <1>5 DEF XCheck, exit_if_pid_has_finished
<1>6. CASE pause_or_resume_command_depending_on_user_activity
  BY <1>6 DEF pause_or_resume_command_depending_on_user_activity,
       resume_paused_command_on_user_idle, pause_running_command_on_user_activity, SignalTree,
       Stops, Continues, NotifyParent
<1>7. CASE XSleep
  BY <1>7 DEF XSleep, process_signalfd
<1> QED
  BY <1>1, <1>2, <1>3, <1>4, <1>5, <1>6, <1>7 DEF X11Steps

LEMMA EnvironmentStepMonitor ==
  ASSUME TypeOK, MonitorInv, Environment
  PROVE  MonitorInv'
<1> USE DEF TypeOK, ControlTypeOK, MonitorInv, RequestIsAwaited, DelayInv, SampleInv,
            controlVars, programVars, commandVars, waylandVars, compositorVars, timerVars,
            loopVars, x11Vars
<1>1. CASE World /\ UNCHANGED <<waylandVars, x11Vars>>
  BY <1>1 DEF World, CommandExits, CommandIsKilled, ItsParentReaps, InterruptionArrives,
       UserChanges
<1>2. CASE WaylandWorld /\ UNCHANGED x11Vars
  <2>1. CASE CompositorSends
    BY <1>2, <2>1 DEF CompositorSends
  <2>2. CASE ConnectionIsLost
    BY <1>2, <2>2 DEF ConnectionIsLost
  <2>3. CASE StartTimerExpires
    BY <1>2, <2>3 DEF StartTimerExpires
  <2>4. CASE FallbackTimerExpires
    BY <1>2, <2>4 DEF FallbackTimerExpires
  <2> QED
    BY <1>2, <2>1, <2>2, <2>3, <2>4 DEF WaylandWorld
<1>3. CASE X11World /\ UNCHANGED waylandVars
  <2>1. CASE DelayElapses
    BY <1>3, <2>1 DEF DelayElapses, InX11Loop, X11Labels
  <2>2. CASE XServerIsLost
    BY <1>3, <2>2 DEF XServerIsLost
  <2> QED
    BY <1>3, <2>1, <2>2 DEF X11World
<1> QED
  BY <1>1, <1>2, <1>3 DEF Environment

LEMMA StepMonitor == TypeOK /\ MonitorInv /\ [Next]_vars => MonitorInv'
<1> SUFFICES ASSUME TypeOK, MonitorInv, [Next]_vars PROVE MonitorInv'
  OBVIOUS
<1>1. CASE Start
  BY <1>1 DEF Start, Goto, Exit, commandVars, waylandVars, compositorVars, timerVars, loopVars,
     x11Vars, MonitorInv, RequestIsAwaited, DelayInv, SampleInv
<1>2. CASE UNCHANGED vars
  BY <1>2 DEF vars, controlVars, programVars, commandVars, waylandVars, compositorVars, timerVars,
     loopVars, x11Vars, MonitorInv, RequestIsAwaited, DelayInv, SampleInv
<1> QED
  BY <1>1, <1>2, SharedStepMonitor, WaylandStepMonitor, X11StepMonitor, EnvironmentStepMonitor
     DEF Next, Program

LEMMA MonitorInvariance == SafetySpec => []MonitorInv
<1>1. IInv => TypeOK
  BY DEF IInv
<1> QED
  BY <1>1, InitMonitorInv, StepMonitor, Invariance, PTL DEF SafetySpec

\* However often sending is refused: a request for idle notifications that is
\* still in the buffer when the loop sleeps is one that wakes it up.
THEOREM ForgetsNoRequest == SafetySpec => []NoRequestForgotten
<1>1. TypeOK /\ MonitorInv => NoRequestForgotten
  <2> SUFFICES ASSUME TypeOK, MonitorInv, pc = "wl_poll", notification = "buffered",
                      connection # "lost"
               PROVE  "writable" \in Ready
    BY DEF NoRequestForgotten
  <2>1. flush_is_pending /\ connection = "up"
    BY DEF MonitorInv, RequestIsAwaited, TypeOK, WaylandTypeOK, LoopTypeOK
  <2>2. Readiness("writable")
    BY <2>1 DEF Readiness
  <2> QED
    BY <2>2 DEF Ready, Conditions
<1>2. IInv => TypeOK
  BY DEF IInv
<1> QED
  BY <1>1, <1>2, Invariance, MonitorInvariance, PTL

\* In either loop and across the switch of loops: nothing is stopped before the
\* delay is over.
THEOREM WaitsForTheDelay == SafetySpec => []UnrestrictedAtFirst
<1>1. MonitorInv => UnrestrictedAtFirst
  BY DEF MonitorInv, DelayInv, UnrestrictedAtFirst
<1> QED
  BY <1>1, MonitorInvariance, PTL

\* A step that stops the command is one of three, and each knows of the user.
LEMMA OnlyPausesStop ==
  ASSUME TypeOK, MonitorInv, [Next]_vars, command = "running", command' = "stopped"
  PROVE  ~Undetected
<1> SUFFICES ASSUME pc \in X11Labels \ {"x_open"}, ~xscreensaver_is_available PROVE FALSE
  BY DEF Undetected, InX11Loop
<1> USE DEF X11Labels, MonitorInv, DelayInv, SampleInv
<1>1. CASE X11Steps
  <2>1. CASE pause_or_resume_command_depending_on_user_activity
    <3>1. pc = "x_act" /\ sampled_idle
      BY <2>1 DEF pause_or_resume_command_depending_on_user_activity
    <3> QED
      BY <2>1, <3>1 DEF pause_or_resume_command_depending_on_user_activity,
         resume_paused_command_on_user_idle, SignalTree, Continues, XContinue, commandVars
  <2>2. CASE ~pause_or_resume_command_depending_on_user_activity
    BY <1>1, <2>2 DEF X11Steps, XOpen, XTop, XSigchld, XQuery, XCheck, XSleep, XContinue,
       exit_if_pid_has_finished, commandVars
  <2> QED
    BY <2>1, <2>2
<1>2. CASE WaylandSteps
  BY <1>2 DEF WaylandSteps, WlSetup, WlSetupCheck, WlTop, WlSigchld, WlFlush, WlPoll, WlPollFails,
     WlSignals, WlFlushOut, WlMonitor, WlFirstPause, WlExitFd, WlRead, DispatchNext,
     wayland_idle_notification_idled, wayland_idle_notification_resumed, WlDispatched, WlCleanup
<1>3. CASE SharedSteps
  BY <1>3 DEF SharedSteps, Forward, Unpause, Await, LetFinish, WaitTop, WaitCheck, WaitSleep
<1>4. CASE Start
  BY <1>4 DEF Start
<1>5. CASE Environment
  BY <1>5 DEF Environment, World, CommandExits, CommandIsKilled, ItsParentReaps,
     InterruptionArrives, UserChanges, WaylandWorld, CompositorSends, ConnectionIsLost,
     StartTimerExpires, FallbackTimerExpires, X11World, DelayElapses, XServerIsLost,
     controlVars, commandVars
<1>6. CASE UNCHANGED vars
  BY <1>6 DEF vars, controlVars, commandVars
<1> QED
  BY <1>1, <1>2, <1>3, <1>4, <1>5, <1>6 DEF Next, Program

\* Where idleness cannot be detected no step of the program stops the command.
THEOREM DoesNotPauseBlindly == SafetySpec => NeverPausedUndetected
<1>1. TypeOK /\ MonitorInv /\ [Next]_vars =>
        [command = "running" /\ command' = "stopped" => ~Undetected]_vars
  BY OnlyPausesStop
<1>2. IInv => TypeOK
  BY DEF IInv
<1> QED
  BY <1>1, <1>2, Invariance, MonitorInvariance, PTL DEF SafetySpec, NeverPausedUndetected

-----------------------------------------------------------------------------
(* What the compositor said last is the end of what is still to be read or *)
(* dispatched, and if nothing is, command_paused agrees with it.           *)

LoopLabels == WaylandLabels \ {"wl_setup", "wl_break", "wl_abort"}

Silence == last_sent = "none" /\ events = <<>> /\ dispatching = <<>>

Agreement ==
  IF pc = "wl_first_pause" THEN last_sent # "idled"
  ELSE notification # "none" => (command_paused <=> last_sent # "idled")

LastWordInv ==
  /\ pc \in {"start", "wl_setup"} => notification = "none" /\ Silence
  /\ pc \in LoopLabels =>
       /\ notification = "none" => Silence
       /\ notification # "none" => monitoring_started
       /\ dispatching # <<>> => pc = "wl_dispatch"
       /\ events # <<>> => events[Len(events)] = last_sent
       /\ events = <<>> /\ dispatching # <<>> => dispatching[Len(dispatching)] = last_sent
       /\ events = <<>> /\ dispatching = <<>> => Agreement

\* Steps that touch neither the queues nor the flag.
LEMMA LastWordFrame ==
  ASSUME LastWordInv, pc \in LoopLabels \cup {"wl_setup"}, pc # "wl_first_pause",
         pc' # "wl_first_pause", pc = "wl_dispatch" => dispatching = <<>>,
         pc' \notin {"start", "wl_setup"}, 
         UNCHANGED <<last_sent, events, dispatching, command_paused>>,
         monitoring_started => monitoring_started',
         notification' = "none" <=> notification = "none"
  PROVE  LastWordInv'
BY DEF LastWordInv, Silence, Agreement, LoopLabels, WaylandLabels

\* Steps that read nothing of it, in the loop or outside.
LEMMA LastWordUnchanged ==
  ASSUME LastWordInv,
         UNCHANGED <<pc, monitoring_started, notification, last_sent, events, dispatching,
                     command_paused>>
  PROVE  LastWordInv'
BY DEF LastWordInv, Silence, Agreement

LEMMA OutOfTheLoop ==
  ASSUME pc' \notin LoopLabels \cup {"start", "wl_setup"} PROVE LastWordInv'
BY DEF LastWordInv, LoopLabels

LEMMA CompositorSendsLastWord ==
  ASSUME TypeOK, LastWordInv, CompositorSends PROVE LastWordInv'
<1>1. /\ UNCHANGED <<pc, monitoring_started, notification, dispatching, command_paused>>
      /\ pc \in LoopLabels /\ notification = "active"
      /\ events' = Append(events, last_sent')
  BY DEF CompositorSends, InWaylandLoop, LoopLabels, controlVars, programVars, loopVars
<1>2. events \in Seq(Events)
  BY DEF TypeOK, WaylandTypeOK, QueueTypeOK
<1>3. last_sent' \in Events
  BY DEF CompositorSends, Events
<1>4. events' # <<>> /\ events'[Len(events')] = last_sent'
  BY <1>1, <1>2, <1>3
<1>5. pc \notin {"start", "wl_setup"}
  BY <1>1 DEF LoopLabels
<1> QED
  BY <1>1, <1>4, <1>5 DEF LastWordInv

LEMMA WlMonitorLastWord ==
  ASSUME LastWordInv, WlMonitor PROVE LastWordInv'
<1> USE DEF Continue, Goto, BreakOff, Abort, KeepFlags, KeepWorld, compositorVars
<1>1. /\ pc = "wl_monitor" /\ dispatching = <<>>
      /\ UNCHANGED <<last_sent, events, dispatching>>
  BY DEF WlMonitor, LastWordInv, LoopLabels
<1>2. CASE ~monitoring_started /\ "timer" \in revents
  <2>1. Silence
    BY <1>1, <1>2 DEF LastWordInv, LoopLabels
  <2>2. \/ pc' \in {"wl_break", "wl_abort"}
        \/ pc' = "wl_first_pause" /\ monitoring_started' = TRUE /\ notification' # "none"
    BY <1>2 DEF WlMonitor, StartMonitoring, start_wayland_idle_notification_object
  <2>3. CASE pc' \in {"wl_break", "wl_abort"}
    BY <2>3, OutOfTheLoop DEF LoopLabels
  <2>4. CASE pc' = "wl_first_pause" /\ monitoring_started' = TRUE /\ notification' # "none"
    BY <1>1, <2>1, <2>4 DEF Silence, LastWordInv, Agreement
  <2> QED
    BY <2>2, <2>3, <2>4
<1>3. CASE ~(~monitoring_started /\ "timer" \in revents)
  <2>1. pc' = "wl_exit_fd" /\ UNCHANGED <<monitoring_started, notification, command_paused>>
    BY <1>3 DEF WlMonitor
  <2> QED
    BY <1>1, <2>1, LastWordFrame DEF LoopLabels
<1> QED
  BY <1>2, <1>3

LEMMA WlFirstPauseLastWord ==
  ASSUME LastWordInv, WlFirstPause PROVE LastWordInv'
<1>1. /\ pc = "wl_first_pause"
      /\ UNCHANGED <<monitoring_started, notification, last_sent, events, dispatching>>
  BY DEF WlFirstPause, KeepWorld, compositorVars, loopVars
<1>2. \/ pc' = "exited"
      \/ pc' = "wl_exit_fd" /\ command_paused' = TRUE
  <2>1. CASE command_paused = TRUE
    BY <2>1 DEF WlFirstPause, Continue, Goto
  <2>2. CASE command_paused # TRUE
    BY <2>2 DEF WlFirstPause, pause_running_command_on_user_activity, SignalTree, Goto, Exit
  <2> QED
    BY <2>1, <2>2
<1>3. CASE pc' = "exited"
  BY <1>3, OutOfTheLoop DEF LoopLabels
<1>4. CASE pc' = "wl_exit_fd" /\ command_paused' = TRUE
  BY <1>1, <1>4 DEF LastWordInv, LoopLabels, Agreement, Silence
<1> QED
  BY <1>2, <1>3, <1>4

LEMMA WlReadLastWord ==
  ASSUME LastWordInv, WlRead PROVE LastWordInv'
<1> USE DEF Continue, Goto, BreakOff
<1>1. /\ pc = "wl_read" /\ dispatching = <<>>
      /\ UNCHANGED <<monitoring_started, notification, last_sent, command_paused>>
  BY DEF WlRead, LastWordInv, LoopLabels
<1>2. \/ pc' \in {"wl_top", "wl_break"} /\ UNCHANGED <<events, dispatching>>
      \/ pc' = "wl_dispatch" /\ dispatching' = events /\ events' = <<>>
  BY DEF WlRead
<1>3. CASE pc' \in {"wl_top", "wl_break"} /\ UNCHANGED <<events, dispatching>>
  BY <1>1, <1>3, LastWordFrame DEF LoopLabels
<1>4. CASE pc' = "wl_dispatch" /\ dispatching' = events /\ events' = <<>>
  BY <1>1, <1>4 DEF LastWordInv, LoopLabels, Agreement, Silence
<1> QED
  BY <1>2, <1>3, <1>4

\* What a callback leaves behind agrees with the event it was called for.
LEMMA CallbackLastWord ==
  ASSUME TypeOK, LastWordInv,
         NEW event \in Events, DispatchNext(event),
         \/ pc' = "exited"
         \/ pc' = "wl_dispatch" /\ (command_paused' <=> event # "idled")
  PROVE  LastWordInv'
<1>1. /\ pc = "wl_dispatch" /\ dispatching # <<>> /\ Head(dispatching) = event
      /\ dispatching' = Tail(dispatching)
      /\ UNCHANGED <<monitoring_started, notification, last_sent, events>>
  BY DEF DispatchNext, KeepWorld, compositorVars
<1>2. CASE pc' = "exited"
  BY <1>2, OutOfTheLoop DEF LoopLabels
<1>3. CASE pc' = "wl_dispatch" /\ (command_paused' <=> event # "idled")
  <2>1. dispatching \in Seq(Events)
    BY DEF TypeOK, WaylandTypeOK, QueueTypeOK
  <2>2. dispatching' = <<>> => dispatching[Len(dispatching)] = event
    <3>1. Len(dispatching') = Len(dispatching) - 1 /\ Head(dispatching) = dispatching[1]
      BY <1>1, <2>1
    <3>2. dispatching' = <<>> => Len(dispatching') = 0
      OBVIOUS
    <3>3. Len(dispatching) \in Nat
      BY <2>1
    <3>4. dispatching' = <<>> => Len(dispatching) = 1
      BY <3>1, <3>2, <3>3
    <3> QED
      BY <1>1, <3>1, <3>4
  <2>3. dispatching' # <<>> => dispatching'[Len(dispatching')] = dispatching[Len(dispatching)]
    BY <1>1, <2>1
  <2>4. /\ notification # "none" /\ monitoring_started
        /\ events # <<>> => events[Len(events)] = last_sent
        /\ events = <<>> => dispatching[Len(dispatching)] = last_sent
    BY <1>1 DEF LastWordInv, LoopLabels, Silence
  <2> QED
    BY <1>1, <1>3, <2>2, <2>3, <2>4 DEF LastWordInv, Agreement, Silence
<1> QED
  BY <1>2, <1>3

LEMMA CallbacksLastWord ==
  ASSUME TypeOK, LastWordInv,
         wayland_idle_notification_idled \/ wayland_idle_notification_resumed
  PROVE  LastWordInv'
<1> USE DEF SignalTree, Goto, Exit, Continue
<1>1. monitoring_started
  BY DEF wayland_idle_notification_idled, wayland_idle_notification_resumed, DispatchNext,
     LastWordInv, LoopLabels, Silence
<1>2. CASE wayland_idle_notification_idled
  <2>1. DispatchNext("idled") /\ "idled" \in Events
    BY <1>2 DEF wayland_idle_notification_idled, Events
  <2>2. CASE command_paused
    <3>1. resume_paused_command_on_user_idle("wl_dispatch")
      BY <1>1, <1>2, <2>2 DEF wayland_idle_notification_idled
    <3>2. \/ pc' = "exited"
          \/ pc' = "wl_dispatch" /\ command_paused' = FALSE
      BY <3>1 DEF resume_paused_command_on_user_idle
    <3> QED
      BY <2>1, <3>2, CallbackLastWord
  <2>3. CASE ~command_paused
    <3>1. pc' = "wl_dispatch" /\ command_paused' = command_paused
      BY <1>2, <2>3 DEF wayland_idle_notification_idled
    <3> QED
      BY <2>1, <2>3, <3>1, CallbackLastWord
  <2> QED
    BY <2>2, <2>3
<1>3. CASE wayland_idle_notification_resumed
  <2>1. DispatchNext("resumed") /\ "resumed" \in Events
    BY <1>3 DEF wayland_idle_notification_resumed, Events
  <2>2. CASE ~command_paused
    <3>1. pause_running_command_on_user_activity("wl_dispatch")
      BY <1>1, <1>3, <2>2 DEF wayland_idle_notification_resumed
    <3>2. \/ pc' = "exited"
          \/ pc' = "wl_dispatch" /\ command_paused' = TRUE
      BY <3>1 DEF pause_running_command_on_user_activity
    <3> QED
      BY <2>1, <3>2, CallbackLastWord
  <2>3. CASE command_paused
    <3>1. pc' = "wl_dispatch" /\ command_paused' = command_paused
      BY <1>3, <2>3 DEF wayland_idle_notification_resumed
    <3> QED
      BY <2>1, <2>3, <3>1, CallbackLastWord
  <2> QED
    BY <2>2, <2>3
<1> QED
  BY <1>2, <1>3

LEMMA WaylandStepLastWord ==
  ASSUME TypeOK, LastWordInv, WaylandSteps
  PROVE  LastWordInv'
<1> USE DEF Continue, Goto, Exit, exit_if_pid_has_finished, KeepWorld, compositorVars, loopVars
<1>1. CASE WlSetup \/ WlSetupCheck \/ WlTop \/ WlSigchld \/ WlPoll \/ WlPollFails \/ WlSignals
             \/ WlDispatched
  <2>1. /\ pc \in LoopLabels \cup {"wl_setup"} /\ pc # "wl_first_pause"
        /\ pc = "wl_dispatch" => dispatching = <<>>
        /\ pc' \notin {"start", "wl_setup", "wl_first_pause"}
    BY <1>1 DEF WlSetup, WlSetupCheck, WlTop, WlSigchld, WlPoll, WlPollFails, WlSignals,
       WlDispatched, Abort, LoopLabels
  <2>2. UNCHANGED <<last_sent, events, dispatching, command_paused, monitoring_started,
                    notification>>
    BY <1>1 DEF WlSetup, WlSetupCheck, WlTop, WlSigchld, WlPoll, WlPollFails, WlSignals,
       WlDispatched, Abort
  <2> QED
    BY <2>1, <2>2, LastWordFrame
<1>2. CASE WlFlush \/ WlFlushOut
  <2>1. /\ pc \in {"wl_flush", "wl_flush_out"}
        /\ pc' \in {"wl_poll", "wl_top", "wl_monitor", "wl_break"}
        /\ UNCHANGED <<last_sent, events, dispatching, command_paused, monitoring_started>>
    BY <1>2 DEF WlFlush, WlFlushOut, BreakOff
  <2>2. notification' = "none" <=> notification = "none"
    BY <1>2 DEF WlFlush, WlFlushOut, FlushSends, FlushWouldBlock, FlushInterrupted, FlushFails
  <2> QED
    BY <2>1, <2>2, LastWordFrame DEF LoopLabels
<1>3. CASE WlExitFd
  <2>1. /\ pc = "wl_exit_fd" /\ pc' \in {"wl_read", "wl_abort", "exited"}
        /\ UNCHANGED <<last_sent, events, dispatching, command_paused, monitoring_started,
                       notification>>
    BY <1>3 DEF WlExitFd, Abort
  <2> QED
    BY <2>1, LastWordFrame DEF LoopLabels
<1>4. CASE WlCleanup
  <2>1. pc' \in {"let_finish", "x_open"}
    BY <1>4 DEF WlCleanup
  <2> QED
    BY <2>1, OutOfTheLoop DEF LoopLabels
<1> QED
  BY <1>1, <1>2, <1>3, <1>4, WlMonitorLastWord, WlFirstPauseLastWord, WlReadLastWord,
     CallbacksLastWord DEF WaylandSteps

LEMMA StepLastWord == TypeOK /\ LastWordInv /\ [Next]_vars => LastWordInv'
<1> SUFFICES ASSUME TypeOK, LastWordInv, [Next]_vars PROVE LastWordInv'
  OBVIOUS
<1>1. CASE Start
  <2>1. /\ pc = "start" /\ pc' \in {"wl_setup", "x_open", "exited"}
        /\ UNCHANGED <<last_sent, events, dispatching, notification>>
    BY <1>1 DEF Start, Goto, Exit, waylandVars, compositorVars, loopVars
  <2> QED
    BY <2>1 DEF LastWordInv, Silence, LoopLabels
<1>2. CASE SharedSteps
  <2>1. pc' \in SharedLabels \ {"start"}
    BY <1>2 DEF SharedSteps, Forward, Unpause, Await, LetFinish, WaitTop, WaitCheck, WaitSleep,
       forget_pause_and_resume, SignalTree, exit_if_pid_has_finished, Goto, Exit, SharedLabels
  <2> QED
    BY <2>1, OutOfTheLoop DEF LoopLabels, SharedLabels
<1>3. CASE X11Steps
  <2>1. pc' \in X11Labels \cup {"forward", "exited"}
    BY <1>3 DEF X11Steps, XOpen, XTop, XSigchld, XQuery, XCheck, XSleep,
       pause_or_resume_command_depending_on_user_activity, resume_paused_command_on_user_idle,
       pause_running_command_on_user_activity, SignalTree, exit_if_pid_has_finished, XContinue,
       Goto, Exit, X11Labels
  <2> QED
    BY <2>1, OutOfTheLoop DEF LoopLabels, X11Labels
<1>4. CASE World /\ UNCHANGED waylandVars
  BY <1>4, LastWordUnchanged DEF World, CommandExits, CommandIsKilled, ItsParentReaps,
     InterruptionArrives, UserChanges, programVars, waylandVars, compositorVars, loopVars
<1>5. CASE X11World /\ UNCHANGED waylandVars
  BY <1>5, LastWordUnchanged DEF X11World, DelayElapses, XServerIsLost, controlVars, programVars,
     waylandVars, compositorVars, loopVars
<1>6. CASE WaylandWorld
  BY <1>6, CompositorSendsLastWord, LastWordUnchanged DEF WaylandWorld, ConnectionIsLost,
     StartTimerExpires, FallbackTimerExpires, controlVars, programVars, compositorVars, loopVars
<1>7. CASE UNCHANGED vars
  BY <1>7, LastWordUnchanged DEF vars, controlVars, programVars, waylandVars, compositorVars,
     loopVars
<1> QED
  BY <1>1, <1>2, <1>3, <1>4, <1>5, <1>6, <1>7, WaylandStepLastWord DEF Next, Program, Environment

\* For any number of events, in whatever portions they are read: when all are
\* handled the command is paused exactly if the last word was not "idled".
THEOREM SleepsInAgreement == SafetySpec => []AsleepInAgreement
<1>1. Init => LastWordInv
  BY DEF Init, ControlInit, WaylandInit, LastWordInv, Silence, LoopLabels
<1>2. LastWordInv => AsleepInAgreement
  BY DEF LastWordInv, AsleepInAgreement, Agreement, LoopLabels
<1>3. IInv => TypeOK
  BY DEF IInv
<1> QED
  BY <1>1, <1>2, <1>3, StepLastWord, Invariance, PTL DEF SafetySpec

-----------------------------------------------------------------------------
(* No step does more than IdleSupervisor allows. *)

IsOver(state) == state \notin {"running", "stopped"}

\* Where a step goes, and what becomes of the command.
GoesOn ==
  /\ pc' # "exited" /\ (pc \in Releasing => pc' \in Releasing)
  /\ \/ UNCHANGED command
     \/ IsOver(command) /\ IsOver(command')
     \/ (pc \in Releasing <=> pc' \in Releasing) /\ command = "stopped" /\ command' = "running"
     \/ pc \notin Releasing /\ pc' \notin Releasing /\ command = "running" /\ command' = "stopped"
     \/ UNCHANGED pc /\ ~IsOver(command) /\ IsOver(command')

Leaves ==
  /\ pc' = "exited" /\ exit_status' # "error"
  /\ \/ IsOver(command) /\ IsOver(command')
     \/ ExternalPid /\ pc \in Releasing /\ command = "running" /\ UNCHANGED command

Fails ==
  /\ pc' = "exited" /\ exit_status' = "error"
  /\ \/ UNCHANGED command
     \/ command = "stopped" /\ command' = "running"
     \/ pc \notin Releasing /\ command = "running" /\ command' = "stopped"

Allowed == pc # "exited" /\ (GoesOn \/ Leaves \/ Fails)

LEMMA AllowedIsAbstractStep ==
  Allowed => [Supervisor!Next]_(Supervisor!supervisorVars)
<1> USE DEF Allowed, IsOver, Supervisor!Next, Supervisor!Hold, Supervisor!GoOn, Supervisor!End,
            Supervisor!Release, Supervisor!Leave, Supervisor!Fail, Supervisor!Working,
            Supervisor!supervisorVars, Releasing
<1>1. pc # "exited" /\ GoesOn => [Supervisor!Next]_(Supervisor!supervisorVars)
  BY DEF GoesOn
<1>2. pc # "exited" /\ Leaves => [Supervisor!Next]_(Supervisor!supervisorVars)
  BY DEF Leaves
<1>3. pc # "exited" /\ Fails => [Supervisor!Next]_(Supervisor!supervisorVars)
  BY DEF Fails
<1> QED
  BY <1>1, <1>2, <1>3

LEMMA SharedStepAllowed ==
  ASSUME IInv, SharedSteps PROVE Allowed
<1> USE DEF Allowed, GoesOn, Leaves, Fails, IsOver, Releasing, Goto, Exit, commandVars,
            forget_pause_and_resume, SignalTree, Continues, exit_if_pid_has_finished
<1>1. CASE Forward
  BY <1>1 DEF Forward
<1>2. CASE Unpause
  BY <1>2 DEF Unpause
<1>3. CASE Await
  <2>1. command # "stopped"
    BY <1>3 DEF Await, IInv, ControlInv, NeverAwaitsStopped
  <2> QED
    BY <1>3, <2>1 DEF Await
<1>4. CASE LetFinish
  BY <1>4 DEF LetFinish
<1>5. CASE WaitTop
  BY <1>5 DEF WaitTop
<1>6. CASE WaitCheck
  BY <1>6 DEF WaitCheck
<1>7. CASE WaitSleep
  BY <1>7 DEF WaitSleep
<1> QED
  BY <1>1, <1>2, <1>3, <1>4, <1>5, <1>6, <1>7 DEF SharedSteps

LEMMA WaylandStepAllowed ==
  ASSUME WaylandSteps PROVE Allowed
<1> USE DEF Allowed, GoesOn, Leaves, Fails, IsOver, Releasing, Goto, Exit, Continue, BreakOff,
            Abort, commandVars, exit_if_pid_has_finished
<1>1. CASE WlSetup \/ WlSetupCheck
  BY <1>1 DEF WlSetup, WlSetupCheck
<1>2. CASE WlTop \/ WlSigchld
  BY <1>2 DEF WlTop, WlSigchld
<1>3. CASE WlFlush \/ WlFlushOut
  BY <1>3 DEF WlFlush, WlFlushOut
<1>4. CASE WlPoll \/ WlPollFails
  BY <1>4 DEF WlPoll, WlPollFails
<1>5. CASE WlSignals
  BY <1>5 DEF WlSignals
<1>6. CASE WlMonitor
  BY <1>6 DEF WlMonitor, StartMonitoring
<1>7. CASE WlFirstPause
  BY <1>7 DEF WlFirstPause, pause_running_command_on_user_activity, SignalTree, Stops
<1>8. CASE WlExitFd
  BY <1>8 DEF WlExitFd
<1>9. CASE WlRead \/ WlDispatched
  BY <1>9 DEF WlRead, WlDispatched
<1>10. CASE wayland_idle_notification_idled
  BY <1>10 DEF wayland_idle_notification_idled, DispatchNext, resume_paused_command_on_user_idle,
     SignalTree, Continues
<1>11. CASE wayland_idle_notification_resumed
  BY <1>11 DEF wayland_idle_notification_resumed, DispatchNext,
     pause_running_command_on_user_activity, SignalTree, Stops
<1>12. CASE WlCleanup
  BY <1>12 DEF WlCleanup
<1> QED
  BY <1>1, <1>2, <1>3, <1>4, <1>5, <1>6, <1>7, <1>8, <1>9, <1>10, <1>11, <1>12 DEF WaylandSteps

LEMMA X11StepAllowed ==
  ASSUME X11Steps PROVE Allowed
<1> USE DEF Allowed, GoesOn, Leaves, Fails, IsOver, Releasing, Goto, Exit, XContinue,
            commandVars, exit_if_pid_has_finished
<1>1. CASE XOpen \/ XTop \/ XSigchld \/ XCheck
  BY <1>1 DEF XOpen, XTop, XSigchld, XCheck
<1>2. CASE XQuery \/ XSleep
  BY <1>2 DEF XQuery, XSleep
<1>3. CASE pause_or_resume_command_depending_on_user_activity
  BY <1>3 DEF pause_or_resume_command_depending_on_user_activity,
     resume_paused_command_on_user_idle, pause_running_command_on_user_activity, SignalTree,
     Continues, Stops
<1> QED
  BY <1>1, <1>2, <1>3 DEF X11Steps

LEMMA EnvironmentStepAllowed ==
  ASSUME Environment PROVE Allowed
<1> USE DEF Allowed, GoesOn, IsOver, controlVars, programVars, commandVars
<1>1. CASE World
  BY <1>1 DEF World, CommandExits, CommandIsKilled, ItsParentReaps, InterruptionArrives,
     UserChanges
<1>2. CASE WaylandWorld
  BY <1>2 DEF WaylandWorld, CompositorSends, ConnectionIsLost, StartTimerExpires,
     FallbackTimerExpires, InWaylandLoop, WaylandLabels
<1>3. CASE X11World
  BY <1>3 DEF X11World, DelayElapses, XServerIsLost, InX11Loop, X11Labels
<1> QED
  BY <1>1, <1>2, <1>3 DEF Environment

\* Every step of the program and of its environment, in either loop, is one that
\* IdleSupervisor allows or one that it does not see: the command is never
\* stopped once it is being released, and left only when it may be.
THEOREM StepsAreAllowed ==
  SafetySpec => Supervisor!Init /\ [][Supervisor!Next]_(Supervisor!supervisorVars)
<1>1. Init => Supervisor!Init
  BY DEF Init, ControlInit, Supervisor!Init, Releasing
<1>2. IInv /\ [Next]_vars => [Supervisor!Next]_(Supervisor!supervisorVars)
  <2> SUFFICES ASSUME IInv, [Next]_vars
               PROVE  [Supervisor!Next]_(Supervisor!supervisorVars)
    OBVIOUS
  <2>1. CASE Start
    BY <2>1, AllowedIsAbstractStep DEF Start, Goto, Exit, commandVars, Allowed, GoesOn, Fails,
       Releasing
  <2>2. CASE UNCHANGED vars
    BY <2>2 DEF vars, controlVars, programVars, commandVars, Supervisor!supervisorVars, Releasing
  <2> QED
    BY <2>1, <2>2, AllowedIsAbstractStep, SharedStepAllowed, WaylandStepAllowed, X11StepAllowed,
       EnvironmentStepAllowed DEF Next, Program
<1> QED
  BY <1>1, <1>2, Invariance, PTL DEF SafetySpec
=============================================================================
