-------------------------- MODULE RunWhenIdleProofs --------------------------
(***************************************************************************)
(* Proofs about RunWhenIdle, for every value of its constants.             *)
(*                                                                         *)
(* The four properties of the command's fate hold because of three facts   *)
(* that no one function establishes: where an interruption comes from,     *)
(* that whoever handles one has one, and that pc and exit_status agree.    *)
(***************************************************************************)
EXTENDS RunWhenIdle, TLAPS

\* process_signalfd() records only what was sent.
SignalsAreAccountedFor ==
  /\ signal_fd \cap {"SIGINT", "SIGTERM"} \subseteq sent
  /\ interruption_received # "none" => interruption_received \in sent

\* handle_interruption() is called only because of one.
HandlesAnInterruption ==
  pc \in {"forward", "unpause", "await"} => interruption_received # "none"

ExitIsFinal == pc = "exited" <=> exit_status # "none"

ControlInv ==
  /\ FlagTracksCommand
  /\ NeverAwaitsStopped
  /\ NothingLeftStopped
  /\ NeverAbandons
  /\ SignalsAreAccountedFor
  /\ HandlesAnInterruption
  /\ ExitIsFinal

IInv == TypeOK /\ ControlInv

USE DEF SharedLabels, WaylandLabels, X11Labels, CommandStates, ExitStatuses

-----------------------------------------------------------------------------
LEMMA InitTypeOK == Init => TypeOK
<1> SUFFICES ASSUME Init PROVE TypeOK
  OBVIOUS
<1>1. pc \in Labels
  BY DEF Init, ControlInit, Labels
<1>2. ControlTypeOK
  BY ControlAssumption DEF Init, ControlInit, ControlTypeOK
<1>3. WaylandTypeOK
  <2>1. QueueTypeOK
    BY WaylandAssumption DEF Init, WaylandInit, QueueTypeOK
  <2>2. LoopTypeOK
    BY DEF Init, WaylandInit, LoopTypeOK
  <2> QED
    BY <2>1, <2>2 DEF WaylandTypeOK
<1>4. X11TypeOK
  BY DEF Init, X11Init, X11TypeOK
<1> QED
  BY <1>1, <1>2, <1>3, <1>4 DEF TypeOK

LEMMA InitControlInv == Init => ControlInv
  BY DEF Init, ControlInit, WaylandInit, X11Init, ControlInv, FlagTracksCommand,
         NeverAwaitsStopped, NothingLeftStopped, NeverAbandons,
         SignalsAreAccountedFor, HandlesAnInterruption, ExitIsFinal

\* What one loop leaves alone keeps its type.
LEMMA FrameWayland == WaylandTypeOK /\ UNCHANGED waylandVars => WaylandTypeOK'
<1> SUFFICES ASSUME WaylandTypeOK, UNCHANGED waylandVars
             PROVE  WaylandTypeOK'
  OBVIOUS
<1> USE DEF waylandVars, compositorVars, timerVars, loopVars, WaylandTypeOK
<1>1. QueueTypeOK'
  BY DEF QueueTypeOK
<1>2. LoopTypeOK'
  BY DEF LoopTypeOK
<1> QED
  BY <1>1, <1>2

LEMMA FrameX11 == X11TypeOK /\ UNCHANGED x11Vars => X11TypeOK'
  BY DEF x11Vars, X11TypeOK

\* The steps both loops share keep the types of what they write.
LEMMA SharedStepType ==
  ASSUME TypeOK, SharedSteps
  PROVE  pc' \in Labels /\ ControlTypeOK'
<1> USE DEF TypeOK, Labels, Goto, Exit, controlVars, programVars, commandVars
<1>1. CASE Forward
  BY <1>1 DEF Forward, ControlTypeOK
<1>2. CASE Unpause
  BY <1>2 DEF Unpause, forget_pause_and_resume, SignalTree, Continues,
       NotifyParent, ControlTypeOK
<1>3. CASE Await
  BY <1>3 DEF Await, ControlTypeOK
<1>4. CASE LetFinish
  BY <1>4 DEF LetFinish, forget_pause_and_resume, SignalTree, Continues,
       NotifyParent, ControlTypeOK
<1>5. CASE WaitTop
  BY <1>5 DEF WaitTop, ControlTypeOK
<1>6. CASE WaitCheck
  BY <1>6 DEF WaitCheck, exit_if_pid_has_finished, ControlTypeOK
<1>7. CASE WaitSleep
  BY <1>7 DEF WaitSleep, process_signalfd, ControlTypeOK
<1> QED
  BY <1>1, <1>2, <1>3, <1>4, <1>5, <1>6, <1>7 DEF SharedSteps

\* The command, the user and who sends signals keep the types of what they write.
LEMMA WorldStepType ==
  ASSUME TypeOK, World
  PROVE  pc' \in Labels /\ ControlTypeOK'
<1> USE DEF TypeOK, Labels, controlVars, programVars, commandVars
<1>1. CASE CommandExits
  BY <1>1 DEF CommandExits, NotifyParent, ControlTypeOK
<1>2. CASE CommandIsKilled
  BY <1>2 DEF CommandIsKilled, NotifyParent, ControlTypeOK
<1>3. CASE ItsParentReaps
  BY <1>3 DEF ItsParentReaps, ControlTypeOK
<1>4. CASE InterruptionArrives
  BY <1>4, ControlAssumption DEF InterruptionArrives, ControlTypeOK
<1>5. CASE UserChanges
  BY <1>5 DEF UserChanges, ControlTypeOK
<1> QED
  BY <1>1, <1>2, <1>3, <1>4, <1>5 DEF World

\* The Wayland loop keeps the types of what it writes.
LEMMA WaylandStepType ==
  ASSUME TypeOK, WaylandSteps
  PROVE  pc' \in Labels /\ ControlTypeOK' /\ QueueTypeOK' /\ LoopTypeOK'
<1> USE DEF TypeOK, Labels, WaylandTypeOK, Goto, Exit, Continue, KeepFlags,
            KeepWorld, controlVars, programVars, commandVars, waylandVars,
            compositorVars, timerVars, loopVars
<1>1. CASE WlSetup
  <2>1. pc' \in Labels
    BY <1>1 DEF WlSetup, Abort, create_one_shot_timer
  <2>2. ControlTypeOK'
    BY <1>1 DEF WlSetup, Abort, create_one_shot_timer, ControlTypeOK
  <2>3. QueueTypeOK'
    BY <1>1, WaylandAssumption DEF WlSetup, Abort, create_one_shot_timer,
         QueueTypeOK
  <2>4. LoopTypeOK'
    BY <1>1 DEF WlSetup, Abort, create_one_shot_timer, LoopTypeOK
  <2> QED
    BY <2>1, <2>2, <2>3, <2>4
<1>2. CASE WlSetupCheck
  <2>1. pc' \in Labels
    BY <1>2 DEF WlSetupCheck, exit_if_pid_has_finished
  <2>2. ControlTypeOK'
    BY <1>2 DEF WlSetupCheck, exit_if_pid_has_finished, ControlTypeOK
  <2>3. QueueTypeOK'
    BY <1>2, WaylandAssumption DEF WlSetupCheck, exit_if_pid_has_finished,
         QueueTypeOK
  <2>4. LoopTypeOK'
    BY <1>2 DEF WlSetupCheck, exit_if_pid_has_finished, LoopTypeOK
  <2> QED
    BY <2>1, <2>2, <2>3, <2>4
<1>3. CASE WlTop
  <2>1. pc' \in Labels
    BY <1>3 DEF WlTop
  <2>2. ControlTypeOK'
    BY <1>3 DEF WlTop, ControlTypeOK
  <2>3. QueueTypeOK'
    BY <1>3, WaylandAssumption DEF WlTop, QueueTypeOK
  <2>4. LoopTypeOK'
    BY <1>3 DEF WlTop, LoopTypeOK
  <2> QED
    BY <2>1, <2>2, <2>3, <2>4
<1>4. CASE WlSigchld
  <2>1. pc' \in Labels
    BY <1>4 DEF WlSigchld, exit_if_pid_has_finished
  <2>2. ControlTypeOK'
    BY <1>4 DEF WlSigchld, exit_if_pid_has_finished, ControlTypeOK
  <2>3. QueueTypeOK'
    BY <1>4, WaylandAssumption DEF WlSigchld, exit_if_pid_has_finished,
         QueueTypeOK
  <2>4. LoopTypeOK'
    BY <1>4 DEF WlSigchld, exit_if_pid_has_finished, LoopTypeOK
  <2> QED
    BY <2>1, <2>2, <2>3, <2>4
<1>5. CASE WlFlush
  <2>1. pc' \in Labels
    BY <1>5 DEF WlFlush, BreakOff, FlushSends, FlushWouldBlock,
         FlushInterrupted, FlushFails
  <2>2. ControlTypeOK'
    BY <1>5 DEF WlFlush, BreakOff, FlushSends, FlushWouldBlock,
         FlushInterrupted, FlushFails, ControlTypeOK
  <2>3. QueueTypeOK'
    BY <1>5, WaylandAssumption DEF WlFlush, BreakOff, FlushSends,
         FlushWouldBlock, FlushInterrupted, FlushFails, QueueTypeOK
  <2>4. LoopTypeOK'
    BY <1>5 DEF WlFlush, BreakOff, FlushSends, FlushWouldBlock,
         FlushInterrupted, FlushFails, LoopTypeOK
  <2> QED
    BY <2>1, <2>2, <2>3, <2>4
<1>6. CASE WlPoll
  <2>1. pc' \in Labels
    BY <1>6 DEF WlPoll, Ready
  <2>2. ControlTypeOK'
    BY <1>6 DEF WlPoll, Ready, ControlTypeOK
  <2>3. QueueTypeOK'
    BY <1>6, WaylandAssumption DEF WlPoll, Ready, QueueTypeOK
  <2>4. LoopTypeOK'
    BY <1>6 DEF WlPoll, Ready, LoopTypeOK
  <2> QED
    BY <2>1, <2>2, <2>3, <2>4
<1>7. CASE WlPollFails
  <2>1. pc' \in Labels
    BY <1>7 DEF WlPollFails, Abort
  <2>2. ControlTypeOK'
    BY <1>7 DEF WlPollFails, Abort, ControlTypeOK
  <2>3. QueueTypeOK'
    BY <1>7, WaylandAssumption DEF WlPollFails, Abort, QueueTypeOK
  <2>4. LoopTypeOK'
    BY <1>7 DEF WlPollFails, Abort, LoopTypeOK
  <2> QED
    BY <2>1, <2>2, <2>3, <2>4
<1>8. CASE WlSignals
  <2>1. pc' \in Labels
    BY <1>8 DEF WlSignals, process_signalfd
  <2>2. ControlTypeOK'
    BY <1>8 DEF WlSignals, process_signalfd, ControlTypeOK
  <2>3. QueueTypeOK'
    BY <1>8, WaylandAssumption DEF WlSignals, process_signalfd, QueueTypeOK
  <2>4. LoopTypeOK'
    BY <1>8 DEF WlSignals, process_signalfd, LoopTypeOK
  <2> QED
    BY <2>1, <2>2, <2>3, <2>4
<1>9. CASE WlFlushOut
  <2>1. pc' \in Labels
    BY <1>9 DEF WlFlushOut, BreakOff, FlushSends, FlushWouldBlock,
         FlushInterrupted, FlushFails
  <2>2. ControlTypeOK'
    BY <1>9 DEF WlFlushOut, BreakOff, FlushSends, FlushWouldBlock,
         FlushInterrupted, FlushFails, ControlTypeOK
  <2>3. QueueTypeOK'
    BY <1>9, WaylandAssumption DEF WlFlushOut, BreakOff, FlushSends,
         FlushWouldBlock, FlushInterrupted, FlushFails, QueueTypeOK
  <2>4. LoopTypeOK'
    BY <1>9 DEF WlFlushOut, BreakOff, FlushSends, FlushWouldBlock,
         FlushInterrupted, FlushFails, LoopTypeOK
  <2> QED
    BY <2>1, <2>2, <2>3, <2>4
<1>10. CASE WlMonitor
  <2>1. pc' \in Labels
    BY <1>10 DEF WlMonitor, BreakOff, Abort, StartMonitoring,
         start_wayland_idle_notification_object
  <2>2. ControlTypeOK'
    BY <1>10 DEF WlMonitor, BreakOff, Abort, StartMonitoring,
         start_wayland_idle_notification_object, ControlTypeOK
  <2>3. QueueTypeOK'
    BY <1>10, WaylandAssumption DEF WlMonitor, BreakOff, Abort,
         StartMonitoring, start_wayland_idle_notification_object, QueueTypeOK
  <2>4. LoopTypeOK'
    BY <1>10 DEF WlMonitor, BreakOff, Abort, StartMonitoring,
         start_wayland_idle_notification_object, LoopTypeOK
  <2> QED
    BY <2>1, <2>2, <2>3, <2>4
<1>11. CASE WlFirstPause
  <2>1. pc' \in Labels
    BY <1>11 DEF WlFirstPause, pause_running_command_on_user_activity,
         SignalTree, Stops, NotifyParent
  <2>2. ControlTypeOK'
    BY <1>11 DEF WlFirstPause, pause_running_command_on_user_activity,
         SignalTree, Stops, NotifyParent, ControlTypeOK
  <2>3. QueueTypeOK'
    BY <1>11, WaylandAssumption DEF WlFirstPause,
         pause_running_command_on_user_activity, SignalTree, Stops,
         NotifyParent, QueueTypeOK
  <2>4. LoopTypeOK'
    BY <1>11 DEF WlFirstPause, pause_running_command_on_user_activity,
         SignalTree, Stops, NotifyParent, LoopTypeOK
  <2> QED
    BY <2>1, <2>2, <2>3, <2>4
<1>12. CASE WlExitFd
  <2>1. pc' \in Labels
    BY <1>12 DEF WlExitFd, Abort, exit_if_pid_has_finished
  <2>2. ControlTypeOK'
    BY <1>12 DEF WlExitFd, Abort, exit_if_pid_has_finished, ControlTypeOK
  <2>3. QueueTypeOK'
    BY <1>12, WaylandAssumption DEF WlExitFd, Abort, exit_if_pid_has_finished,
         QueueTypeOK
  <2>4. LoopTypeOK'
    BY <1>12 DEF WlExitFd, Abort, exit_if_pid_has_finished, LoopTypeOK
  <2> QED
    BY <2>1, <2>2, <2>3, <2>4
<1>13. CASE WlRead
  <2>1. pc' \in Labels
    BY <1>13 DEF WlRead, BreakOff
  <2>2. ControlTypeOK'
    BY <1>13 DEF WlRead, BreakOff, ControlTypeOK
  <2>3. QueueTypeOK'
    <3>1. events' \in Seq(Events) /\ Len(events') <= MaxEvents
      <4>1. CASE events' = events
        BY <4>1 DEF QueueTypeOK
      <4>2. CASE events' = <<>>
        BY <4>2, WaylandAssumption
      <4> QED
        BY <1>13, <4>1, <4>2 DEF WlRead
    <3>2. dispatching' \in Seq(Events) /\ Len(dispatching') <= MaxEvents
      BY <1>13 DEF WlRead, QueueTypeOK
    <3>3. transient' \in 0 .. MaxTransient
      BY <1>13, WaylandAssumption DEF WlRead, QueueTypeOK
    <3> QED
      BY <3>1, <3>2, <3>3 DEF QueueTypeOK
  <2>4. LoopTypeOK'
    BY <1>13 DEF WlRead, BreakOff, LoopTypeOK
  <2> QED
    BY <2>1, <2>2, <2>3, <2>4
<1>14. CASE wayland_idle_notification_idled
  <2>1. pc' \in Labels
    BY <1>14 DEF wayland_idle_notification_idled, DispatchNext,
         resume_paused_command_on_user_idle, SignalTree, Continues,
         NotifyParent
  <2>2. ControlTypeOK'
    BY <1>14 DEF wayland_idle_notification_idled, DispatchNext,
         resume_paused_command_on_user_idle, SignalTree, Continues,
         NotifyParent, ControlTypeOK
  <2>3. QueueTypeOK'
    BY <1>14, WaylandAssumption DEF wayland_idle_notification_idled,
         DispatchNext, resume_paused_command_on_user_idle, SignalTree,
         Continues, NotifyParent, QueueTypeOK
  <2>4. LoopTypeOK'
    BY <1>14 DEF wayland_idle_notification_idled, DispatchNext,
         resume_paused_command_on_user_idle, SignalTree, Continues,
         NotifyParent, LoopTypeOK
  <2> QED
    BY <2>1, <2>2, <2>3, <2>4
<1>15. CASE wayland_idle_notification_resumed
  <2>1. pc' \in Labels
    BY <1>15 DEF wayland_idle_notification_resumed, DispatchNext,
         pause_running_command_on_user_activity, SignalTree, Stops,
         NotifyParent
  <2>2. ControlTypeOK'
    BY <1>15 DEF wayland_idle_notification_resumed, DispatchNext,
         pause_running_command_on_user_activity, SignalTree, Stops,
         NotifyParent, ControlTypeOK
  <2>3. QueueTypeOK'
    BY <1>15, WaylandAssumption DEF wayland_idle_notification_resumed,
         DispatchNext, pause_running_command_on_user_activity, SignalTree,
         Stops, NotifyParent, QueueTypeOK
  <2>4. LoopTypeOK'
    BY <1>15 DEF wayland_idle_notification_resumed, DispatchNext,
         pause_running_command_on_user_activity, SignalTree, Stops,
         NotifyParent, LoopTypeOK
  <2> QED
    BY <2>1, <2>2, <2>3, <2>4
<1>16. CASE WlDispatched
  <2>1. pc' \in Labels
    BY <1>16 DEF WlDispatched
  <2>2. ControlTypeOK'
    BY <1>16 DEF WlDispatched, ControlTypeOK
  <2>3. QueueTypeOK'
    BY <1>16, WaylandAssumption DEF WlDispatched, QueueTypeOK
  <2>4. LoopTypeOK'
    BY <1>16 DEF WlDispatched, LoopTypeOK
  <2> QED
    BY <2>1, <2>2, <2>3, <2>4
<1>17. CASE WlCleanup
  <2>1. pc' \in Labels
    BY <1>17 DEF WlCleanup
  <2>2. ControlTypeOK'
    BY <1>17 DEF WlCleanup, ControlTypeOK
  <2>3. QueueTypeOK'
    BY <1>17, WaylandAssumption DEF WlCleanup, QueueTypeOK
  <2>4. LoopTypeOK'
    BY <1>17 DEF WlCleanup, LoopTypeOK
  <2> QED
    BY <2>1, <2>2, <2>3, <2>4
<1> QED
  BY <1>1, <1>2, <1>3, <1>4, <1>5, <1>6, <1>7, <1>8, <1>9, <1>10, <1>11, <1>12,
       <1>13, <1>14, <1>15, <1>16, <1>17 DEF WaylandSteps

\* The compositor and the timers keep the types of what they write.
LEMMA CompositorStepType ==
  ASSUME TypeOK, WaylandWorld
  PROVE  pc' \in Labels /\ ControlTypeOK' /\ QueueTypeOK' /\ LoopTypeOK'
<1> USE DEF TypeOK, Labels, WaylandTypeOK, controlVars, programVars,
            commandVars, waylandVars, compositorVars, timerVars, loopVars
<1>1. CASE CompositorSends
  <2>0. last_sent' \in Events
    BY <1>1 DEF CompositorSends, Events
  <2>1. pc' \in Labels /\ ControlTypeOK'
    BY <1>1 DEF CompositorSends, ControlTypeOK
  <2>2. QueueTypeOK'
    BY <1>1, WaylandAssumption, <2>0 DEF CompositorSends, QueueTypeOK
  <2>3. LoopTypeOK'
    BY <1>1, <2>0 DEF CompositorSends, LoopTypeOK
  <2> QED
    BY <2>1, <2>2, <2>3
<1>2. CASE ConnectionIsLost
  <2>1. pc' \in Labels /\ ControlTypeOK'
    BY <1>2 DEF ConnectionIsLost, ControlTypeOK
  <2>2. QueueTypeOK'
    BY <1>2, WaylandAssumption DEF ConnectionIsLost, QueueTypeOK
  <2>3. LoopTypeOK'
    BY <1>2 DEF ConnectionIsLost, LoopTypeOK
  <2> QED
    BY <2>1, <2>2, <2>3
<1>3. CASE StartTimerExpires
  <2>1. pc' \in Labels /\ ControlTypeOK'
    BY <1>3 DEF StartTimerExpires, ControlTypeOK
  <2>2. QueueTypeOK'
    BY <1>3, WaylandAssumption DEF StartTimerExpires, QueueTypeOK
  <2>3. LoopTypeOK'
    BY <1>3 DEF StartTimerExpires, LoopTypeOK
  <2> QED
    BY <2>1, <2>2, <2>3
<1>4. CASE FallbackTimerExpires
  <2>1. pc' \in Labels /\ ControlTypeOK'
    BY <1>4 DEF FallbackTimerExpires, ControlTypeOK
  <2>2. QueueTypeOK'
    BY <1>4, WaylandAssumption DEF FallbackTimerExpires, QueueTypeOK
  <2>3. LoopTypeOK'
    BY <1>4 DEF FallbackTimerExpires, LoopTypeOK
  <2> QED
    BY <2>1, <2>2, <2>3
<1> QED
  BY <1>1, <1>2, <1>3, <1>4 DEF WaylandWorld

\* The X11 loop keeps the types of what it writes.
LEMMA X11StepType ==
  ASSUME TypeOK, X11Steps
  PROVE  pc' \in Labels /\ ControlTypeOK' /\ X11TypeOK'
<1> USE DEF TypeOK, Labels, Goto, Exit, XContinue, XKeep, controlVars,
            programVars, commandVars, x11Vars
<1>1. CASE XOpen
  <2>1. pc' \in Labels
    BY <1>1 DEF XOpen
  <2>2. ControlTypeOK'
    BY <1>1 DEF XOpen, ControlTypeOK
  <2>3. X11TypeOK'
    BY <1>1 DEF XOpen, X11TypeOK
  <2> QED
    BY <2>1, <2>2, <2>3
<1>2. CASE XTop
  <2>1. pc' \in Labels
    BY <1>2 DEF XTop
  <2>2. ControlTypeOK'
    BY <1>2 DEF XTop, ControlTypeOK
  <2>3. X11TypeOK'
    BY <1>2 DEF XTop, X11TypeOK
  <2> QED
    BY <2>1, <2>2, <2>3
<1>3. CASE XSigchld
  <2>1. pc' \in Labels
    BY <1>3 DEF XSigchld, exit_if_pid_has_finished
  <2>2. ControlTypeOK'
    BY <1>3 DEF XSigchld, exit_if_pid_has_finished, ControlTypeOK
  <2>3. X11TypeOK'
    BY <1>3 DEF XSigchld, exit_if_pid_has_finished, X11TypeOK
  <2> QED
    BY <2>1, <2>2, <2>3
<1>4. CASE XQuery
  <2>1. pc' \in Labels
    BY <1>4 DEF XQuery, monitoring_is_due, query_user_idle_time
  <2>2. ControlTypeOK'
    BY <1>4 DEF XQuery, monitoring_is_due, query_user_idle_time, ControlTypeOK
  <2>3. X11TypeOK'
    <3>1. sampled_idle' \in BOOLEAN
      BY <1>4 DEF XQuery, query_user_idle_time, ControlTypeOK, X11TypeOK
    <3> QED
      BY <1>4, <3>1 DEF XQuery, X11TypeOK
  <2> QED
    BY <2>1, <2>2, <2>3
<1>5. CASE XCheck
  <2>1. pc' \in Labels
    BY <1>5 DEF XCheck, exit_if_pid_has_finished
  <2>2. ControlTypeOK'
    BY <1>5 DEF XCheck, exit_if_pid_has_finished, ControlTypeOK
  <2>3. X11TypeOK'
    BY <1>5 DEF XCheck, exit_if_pid_has_finished, X11TypeOK
  <2> QED
    BY <2>1, <2>2, <2>3
<1>6. CASE pause_or_resume_command_depending_on_user_activity
  <2>1. pc' \in Labels
    BY <1>6 DEF pause_or_resume_command_depending_on_user_activity,
         resume_paused_command_on_user_idle,
         pause_running_command_on_user_activity, SignalTree, Stops, Continues,
         NotifyParent
  <2>2. ControlTypeOK'
    BY <1>6 DEF pause_or_resume_command_depending_on_user_activity,
         resume_paused_command_on_user_idle,
         pause_running_command_on_user_activity, SignalTree, Stops, Continues,
         NotifyParent, ControlTypeOK
  <2>3. X11TypeOK'
    BY <1>6 DEF pause_or_resume_command_depending_on_user_activity,
         resume_paused_command_on_user_idle,
         pause_running_command_on_user_activity, SignalTree, Stops, Continues,
         NotifyParent, X11TypeOK
  <2> QED
    BY <2>1, <2>2, <2>3
<1>7. CASE XSleep
  <2>1. pc' \in Labels
    BY <1>7 DEF XSleep, process_signalfd
  <2>2. ControlTypeOK'
    BY <1>7 DEF XSleep, process_signalfd, ControlTypeOK
  <2>3. X11TypeOK'
    BY <1>7 DEF XSleep, process_signalfd, X11TypeOK
  <2> QED
    BY <2>1, <2>2, <2>3
<1> QED
  BY <1>1, <1>2, <1>3, <1>4, <1>5, <1>6, <1>7 DEF X11Steps

\* The X server and the clock keep the types of what they write.
LEMMA DisplayStepType ==
  ASSUME TypeOK, X11World
  PROVE  pc' \in Labels /\ ControlTypeOK' /\ X11TypeOK'
<1> USE DEF TypeOK, Labels, controlVars, programVars, commandVars, x11Vars
<1>1. CASE DelayElapses
  <2>1. pc' \in Labels /\ ControlTypeOK'
    BY <1>1 DEF DelayElapses, ControlTypeOK
  <2>2. X11TypeOK'
    BY <1>1 DEF DelayElapses, X11TypeOK
  <2> QED
    BY <2>1, <2>2
<1>2. CASE XServerIsLost
  <2>1. pc' \in Labels /\ ControlTypeOK'
    BY <1>2 DEF XServerIsLost, ControlTypeOK
  <2>2. X11TypeOK'
    BY <1>2 DEF XServerIsLost, X11TypeOK
  <2> QED
    BY <2>1, <2>2
<1> QED
  BY <1>1, <1>2 DEF X11World

-----------------------------------------------------------------------------
\* The steps both loops share keep the control invariant.
LEMMA SharedStepControl ==
  ASSUME TypeOK, ControlInv, SharedSteps
  PROVE  ControlInv'
<1> USE DEF TypeOK, ControlTypeOK, ControlInv, FlagTracksCommand,
            NeverAwaitsStopped, NothingLeftStopped, NeverAbandons,
            SignalsAreAccountedFor, HandlesAnInterruption, ExitIsFinal, Goto,
            Exit, controlVars, programVars, commandVars
<1>1. CASE Forward
  BY <1>1, ControlAssumption DEF Forward
<1>2. CASE Unpause
  BY <1>2, ControlAssumption DEF Unpause, forget_pause_and_resume, SignalTree,
       Continues, NotifyParent
<1>3. CASE Await
  BY <1>3, ControlAssumption DEF Await
<1>4. CASE LetFinish
  BY <1>4, ControlAssumption DEF LetFinish, forget_pause_and_resume,
       SignalTree, Continues, NotifyParent
<1>5. CASE WaitTop
  BY <1>5, ControlAssumption DEF WaitTop
<1>6. CASE WaitCheck
  BY <1>6, ControlAssumption DEF WaitCheck, exit_if_pid_has_finished
<1>7. CASE WaitSleep
  BY <1>7, ControlAssumption DEF WaitSleep, process_signalfd
<1> QED
  BY <1>1, <1>2, <1>3, <1>4, <1>5, <1>6, <1>7 DEF SharedSteps

\* The command, the user and who sends signals keep the control invariant.
LEMMA WorldStepControl ==
  ASSUME TypeOK, ControlInv, World
  PROVE  ControlInv'
<1> USE DEF TypeOK, ControlTypeOK, ControlInv, FlagTracksCommand,
            NeverAwaitsStopped, NothingLeftStopped, NeverAbandons,
            SignalsAreAccountedFor, HandlesAnInterruption, ExitIsFinal,
            controlVars, programVars, commandVars
<1>1. CASE CommandExits
  BY <1>1, ControlAssumption DEF CommandExits, NotifyParent
<1>2. CASE CommandIsKilled
  BY <1>2, ControlAssumption DEF CommandIsKilled, NotifyParent
<1>3. CASE ItsParentReaps
  BY <1>3, ControlAssumption DEF ItsParentReaps
<1>4. CASE InterruptionArrives
  BY <1>4, ControlAssumption DEF InterruptionArrives
<1>5. CASE UserChanges
  BY <1>5, ControlAssumption DEF UserChanges
<1> QED
  BY <1>1, <1>2, <1>3, <1>4, <1>5 DEF World

\* The Wayland loop keeps the control invariant.
LEMMA WaylandStepControl ==
  ASSUME TypeOK, ControlInv, WaylandSteps
  PROVE  ControlInv'
<1> USE DEF TypeOK, ControlTypeOK, ControlInv, FlagTracksCommand,
            NeverAwaitsStopped, NothingLeftStopped, NeverAbandons,
            SignalsAreAccountedFor, HandlesAnInterruption, ExitIsFinal, Goto,
            Exit, Continue, KeepFlags, KeepWorld, controlVars, programVars,
            commandVars, waylandVars, compositorVars, timerVars, loopVars
<1>1. CASE WlSetup
  BY <1>1, ControlAssumption DEF WlSetup, Abort, create_one_shot_timer
<1>2. CASE WlSetupCheck
  BY <1>2, ControlAssumption DEF WlSetupCheck, exit_if_pid_has_finished
<1>3. CASE WlTop
  BY <1>3, ControlAssumption DEF WlTop
<1>4. CASE WlSigchld
  BY <1>4, ControlAssumption DEF WlSigchld, exit_if_pid_has_finished
<1>5. CASE WlFlush
  BY <1>5, ControlAssumption DEF WlFlush, BreakOff, FlushSends,
       FlushWouldBlock, FlushInterrupted, FlushFails
<1>6. CASE WlPoll
  BY <1>6, ControlAssumption DEF WlPoll, Ready
<1>7. CASE WlPollFails
  BY <1>7, ControlAssumption DEF WlPollFails, Abort
<1>8. CASE WlSignals
  BY <1>8, ControlAssumption DEF WlSignals, process_signalfd
<1>9. CASE WlFlushOut
  BY <1>9, ControlAssumption DEF WlFlushOut, BreakOff, FlushSends,
       FlushWouldBlock, FlushInterrupted, FlushFails
<1>10. CASE WlMonitor
  BY <1>10, ControlAssumption DEF WlMonitor, BreakOff, Abort, StartMonitoring,
       start_wayland_idle_notification_object
<1>11. CASE WlFirstPause
  BY <1>11, ControlAssumption DEF WlFirstPause,
       pause_running_command_on_user_activity, SignalTree, Stops, NotifyParent
<1>12. CASE WlExitFd
  BY <1>12, ControlAssumption DEF WlExitFd, Abort, exit_if_pid_has_finished
<1>13. CASE WlRead
  BY <1>13, ControlAssumption DEF WlRead, BreakOff
<1>14. CASE wayland_idle_notification_idled
  BY <1>14, ControlAssumption DEF wayland_idle_notification_idled,
       DispatchNext, resume_paused_command_on_user_idle, SignalTree, Continues,
       NotifyParent
<1>15. CASE wayland_idle_notification_resumed
  BY <1>15, ControlAssumption DEF wayland_idle_notification_resumed,
       DispatchNext, pause_running_command_on_user_activity, SignalTree, Stops,
       NotifyParent
<1>16. CASE WlDispatched
  BY <1>16, ControlAssumption DEF WlDispatched
<1>17. CASE WlCleanup
  BY <1>17, ControlAssumption DEF WlCleanup
<1> QED
  BY <1>1, <1>2, <1>3, <1>4, <1>5, <1>6, <1>7, <1>8, <1>9, <1>10, <1>11, <1>12,
       <1>13, <1>14, <1>15, <1>16, <1>17 DEF WaylandSteps

\* The compositor and the timers keep the control invariant.
LEMMA CompositorStepControl ==
  ASSUME TypeOK, ControlInv, WaylandWorld
  PROVE  ControlInv'
<1> USE DEF TypeOK, ControlTypeOK, ControlInv, FlagTracksCommand,
            NeverAwaitsStopped, NothingLeftStopped, NeverAbandons,
            SignalsAreAccountedFor, HandlesAnInterruption, ExitIsFinal,
            controlVars, programVars, commandVars, waylandVars, compositorVars,
            timerVars, loopVars
<1>1. CASE CompositorSends
  BY <1>1 DEF CompositorSends
<1>2. CASE ConnectionIsLost
  BY <1>2 DEF ConnectionIsLost
<1>3. CASE StartTimerExpires
  BY <1>3 DEF StartTimerExpires
<1>4. CASE FallbackTimerExpires
  BY <1>4 DEF FallbackTimerExpires
<1> QED
  BY <1>1, <1>2, <1>3, <1>4 DEF WaylandWorld

\* The X11 loop keeps the control invariant.
LEMMA X11StepControl ==
  ASSUME TypeOK, ControlInv, X11Steps
  PROVE  ControlInv'
<1> USE DEF TypeOK, ControlTypeOK, ControlInv, FlagTracksCommand,
            NeverAwaitsStopped, NothingLeftStopped, NeverAbandons,
            SignalsAreAccountedFor, HandlesAnInterruption, ExitIsFinal, Goto,
            Exit, XContinue, XKeep, controlVars, programVars, commandVars,
            x11Vars
<1>1. CASE XOpen
  BY <1>1, ControlAssumption DEF XOpen
<1>2. CASE XTop
  BY <1>2, ControlAssumption DEF XTop
<1>3. CASE XSigchld
  BY <1>3, ControlAssumption DEF XSigchld, exit_if_pid_has_finished
<1>4. CASE XQuery
  BY <1>4, ControlAssumption DEF XQuery, monitoring_is_due,
       query_user_idle_time
<1>5. CASE XCheck
  BY <1>5, ControlAssumption DEF XCheck, exit_if_pid_has_finished
<1>6. CASE pause_or_resume_command_depending_on_user_activity
  BY <1>6, ControlAssumption DEF
       pause_or_resume_command_depending_on_user_activity,
       resume_paused_command_on_user_idle,
       pause_running_command_on_user_activity, SignalTree, Stops, Continues,
       NotifyParent
<1>7. CASE XSleep
  BY <1>7, ControlAssumption DEF XSleep, process_signalfd
<1> QED
  BY <1>1, <1>2, <1>3, <1>4, <1>5, <1>6, <1>7 DEF X11Steps

\* The X server and the clock keep the control invariant.
LEMMA DisplayStepControl ==
  ASSUME TypeOK, ControlInv, X11World
  PROVE  ControlInv'
<1> USE DEF TypeOK, ControlTypeOK, ControlInv, FlagTracksCommand,
            NeverAwaitsStopped, NothingLeftStopped, NeverAbandons,
            SignalsAreAccountedFor, HandlesAnInterruption, ExitIsFinal,
            controlVars, programVars, commandVars, x11Vars
<1>1. CASE DelayElapses
  BY <1>1 DEF DelayElapses
<1>2. CASE XServerIsLost
  BY <1>2 DEF XServerIsLost
<1> QED
  BY <1>1, <1>2 DEF X11World

\* Every step of runwhenidle and of its environment keeps every variable in its
\* type, for any number of events, retries and interruptions.
LEMMA StepType == TypeOK /\ [Next]_vars => TypeOK'
<1> SUFFICES ASSUME TypeOK, [Next]_vars
             PROVE  TypeOK'
  OBVIOUS
<1>1. CASE Start
  BY <1>1 DEF Start, Goto, Exit, commandVars, waylandVars, compositorVars, timerVars,
     loopVars, x11Vars, TypeOK, Labels, ControlTypeOK, WaylandTypeOK, QueueTypeOK,
     LoopTypeOK, X11TypeOK
<1>2. CASE SharedSteps /\ UNCHANGED <<waylandVars, x11Vars>>
  BY <1>2, SharedStepType, FrameWayland, FrameX11 DEF TypeOK
<1>3. CASE WaylandSteps /\ UNCHANGED x11Vars
  BY <1>3, WaylandStepType, FrameX11 DEF TypeOK, WaylandTypeOK
<1>4. CASE X11Steps /\ UNCHANGED waylandVars
  BY <1>4, X11StepType, FrameWayland DEF TypeOK
<1>5. CASE World /\ UNCHANGED <<waylandVars, x11Vars>>
  BY <1>5, WorldStepType, FrameWayland, FrameX11 DEF TypeOK
<1>6. CASE WaylandWorld /\ UNCHANGED x11Vars
  BY <1>6, CompositorStepType, FrameX11 DEF TypeOK, WaylandTypeOK
<1>7. CASE X11World /\ UNCHANGED waylandVars
  BY <1>7, DisplayStepType, FrameWayland DEF TypeOK
<1>8. CASE UNCHANGED vars
  <2>1. pc' = pc /\ UNCHANGED <<controlVars, waylandVars, x11Vars>>
    BY <1>8 DEF vars, controlVars, programVars
  <2>2. ControlTypeOK'
    BY <2>1 DEF controlVars, programVars, commandVars, TypeOK, ControlTypeOK
  <2> QED
    BY <2>1, <2>2, FrameWayland, FrameX11 DEF TypeOK
<1> QED
  BY <1>1, <1>2, <1>3, <1>4, <1>5, <1>6, <1>7, <1>8 DEF Next, Program, Environment

\* The control invariant is inductive.
LEMMA StepControl == IInv /\ [Next]_vars => ControlInv'
<1> SUFFICES ASSUME TypeOK, ControlInv, [Next]_vars
             PROVE  ControlInv'
  BY DEF IInv
<1>1. CASE Start
  BY <1>1 DEF Start, Goto, Exit, commandVars, TypeOK, ControlTypeOK, ControlInv,
     FlagTracksCommand, NeverAwaitsStopped, NothingLeftStopped, NeverAbandons,
     SignalsAreAccountedFor, HandlesAnInterruption, ExitIsFinal
<1>2. CASE UNCHANGED vars
  BY <1>2 DEF vars, controlVars, programVars, commandVars, ControlInv,
     FlagTracksCommand, NeverAwaitsStopped, NothingLeftStopped, NeverAbandons,
     SignalsAreAccountedFor, HandlesAnInterruption, ExitIsFinal
<1> QED
  BY <1>1, <1>2, SharedStepControl, WorldStepControl, WaylandStepControl,
     CompositorStepControl, X11StepControl, DisplayStepControl
     DEF Next, Program, Environment

LEMMA Invariance == SafetySpec => []IInv
<1>1. Init => IInv
  BY InitTypeOK, InitControlInv DEF IInv
<1>2. IInv /\ [Next]_vars => IInv'
  BY StepType, StepControl DEF IInv
<1> QED
  BY <1>1, <1>2, PTL DEF SafetySpec

-----------------------------------------------------------------------------
\* Type correctness of the whole program.
THEOREM TypeCorrect == SafetySpec => []TypeOK
<1>1. IInv => TypeOK
  BY DEF IInv
<1> QED
  BY <1>1, Invariance, PTL

\* command_paused never disagrees with the command: a stopped command is known
\* to be stopped in every loop, after every failure and every switch of loops.
THEOREM FlagIsRight == SafetySpec => []FlagTracksCommand
<1>1. IInv => FlagTracksCommand
  BY DEF IInv, ControlInv
<1> QED
  BY <1>1, Invariance, PTL

\* No waitpid() and no loop of runwhenidle waits for a command it has stopped.
THEOREM NeverWaitsInVain == SafetySpec => []NeverAwaitsStopped
<1>1. IInv => NeverAwaitsStopped
  BY DEF IInv, ControlInv
<1> QED
  BY <1>1, Invariance, PTL

\* Ending without an error, runwhenidle leaves no command stopped.
THEOREM LeavesNothingStopped == SafetySpec => []NothingLeftStopped
<1>1. IInv => NothingLeftStopped
  BY DEF IInv, ControlInv
<1> QED
  BY <1>1, Invariance, PTL

\* Ending without an error, runwhenidle has seen its child end; a process given
\* by --pid has ended, or runwhenidle was interrupted.
THEOREM DoesNotAbandon == SafetySpec => []NeverAbandons
<1>1. IInv => NeverAbandons
  BY DEF IInv, ControlInv
<1> QED
  BY <1>1, Invariance, PTL
=============================================================================
