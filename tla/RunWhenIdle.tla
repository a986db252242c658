----------------------------- MODULE RunWhenIdle -----------------------------
(***************************************************************************)
(* The whole of main(): the command is started, the Wayland loop runs if   *)
(* there is a compositor with ext_idle_notifier_v1, the X11 loop runs if   *)
(* there is none or the Wayland loop gives up, and either may end by       *)
(* letting the command finish on its own.                                  *)
(***************************************************************************)
EXTENDS WaylandLoop, X11Loop

vars == <<controlVars, waylandVars, x11Vars>>

Labels == SharedLabels \cup WaylandLabels \cup X11Labels

Init == ControlInit /\ WaylandInit /\ X11Init

\* The start of main() with try_initialize_wayland_idle_backend(): with --pid
\* the process must exist, and Wayland is used if seat and notifier are found.
Start ==
  /\ pc = "start"
  /\ \/ ExternalPid /\ command = "reaped" /\ Exit("error")
     \/ ~(ExternalPid /\ command = "reaped") /\ Goto("wl_setup")
     \/ ~(ExternalPid /\ command = "reaped") /\ Goto("x_open")
  /\ UNCHANGED <<commandVars, sent, user_idle, interruption_received, sigchld_received,
                 command_paused, monitoring_started, waylandVars, x11Vars>>

Program ==
  \/ Start
  \/ SharedSteps /\ UNCHANGED <<waylandVars, x11Vars>>
  \/ WaylandSteps /\ UNCHANGED x11Vars
  \/ X11Steps /\ UNCHANGED waylandVars

Environment ==
  \/ World /\ UNCHANGED <<waylandVars, x11Vars>>
  \/ WaylandWorld /\ UNCHANGED x11Vars
  \/ X11World /\ UNCHANGED waylandVars

Next == Program \/ Environment

\* The scheduler runs runwhenidle, timers expire, and the compositor sends
\* what the protocol promises.  The command and the user owe nothing.
Fairness ==
  /\ WF_vars(Program)
  /\ WF_vars(CompositorSends /\ UNCHANGED x11Vars)
  /\ WF_vars(StartTimerExpires /\ UNCHANGED x11Vars)
  /\ WF_vars(FallbackTimerExpires /\ UNCHANGED x11Vars)
  /\ WF_vars(DelayElapses /\ UNCHANGED waylandVars)

SafetySpec == Init /\ [][Next]_vars
Spec == SafetySpec /\ Fairness

-----------------------------------------------------------------------------
\* Every variable has one of the values that the code can give it.
TypeOK ==
  /\ pc \in Labels
  /\ ControlTypeOK
  /\ WaylandTypeOK
  /\ X11TypeOK

-----------------------------------------------------------------------------
(* Safety. *)

Releasing == {"wl_break", "let_finish", "wait_top", "wait_check", "wait_sleep",
              "forward", "unpause", "await"}

\* command_paused says what was last done to the command: whatever loop it is
\* in and whatever changed in between, a command found stopped is one the
\* program knows it has to resume, and a command it believes paused runs only
\* if it ignored SIGTSTP.
FlagTracksCommand ==
  pc # "exited" =>
    /\ command = "stopped" => command_paused
    /\ command_paused /\ command = "running" => PauseCanBeIgnored

\* The program never waits for the end of a command that it keeps stopped: in
\* the waitpid() of handle_interruption() and in the loop entered when Wayland
\* breaks, the command is free to run.
NeverAwaitsStopped ==
  pc \in {"await", "wait_top", "wait_check", "wait_sleep"} => command # "stopped"

\* Whichever way the program ends without an error, also with --pid, also
\* while paused, also from within the fallback: the command is not left stopped.
NothingLeftStopped ==
  exit_status \in {"command", "zero"} => command # "stopped"

\* The program does not walk away from its child: it returns only with the
\* child reaped.  A process of someone else it leaves early only when told to.
NeverAbandons ==
  exit_status \in {"command", "zero"} =>
    command = "reaped" \/ (ExternalPid /\ sent # {})

\* Whenever the Wayland loop goes to sleep with every event handled, the
\* command is paused exactly if the compositor's last word is not "idled".
AsleepInAgreement ==
  pc = "wl_poll" /\ notification # "none" /\ events = <<>> =>
    (command_paused <=> last_sent # "idled")

\* The request for idle notifications cannot get stuck in the client's buffer
\* while the loop sleeps: either it was sent or poll() waits for POLLOUT.
NoRequestForgotten ==
  pc = "wl_poll" /\ notification = "buffered" =>
    "writable" \in Ready \/ connection = "lost"

\* --start-monitor-after: whichever loop is running and whatever the switch
\* from one to the other, the command is not stopped before a delay is over.
UnrestrictedAtFirst ==
  command = "stopped" /\ pc # "exited" => monitoring_started /\
    (start_timer = "consumed" \/ delay_is_over)

Undetected == InX11Loop /\ ~xscreensaver_is_available

\* Without a way to detect idleness "the command will not be paused": a
\* command taken over in the paused state is resumed, none is ever stopped.
NeverPausedUndetected ==
  [][command = "running" /\ command' = "stopped" =>
       ~Undetected]_vars

\* The promise of IdleSupervisor: no step pauses the command once the program
\* is letting it finish, and it leaves only when it may.
Supervisor == INSTANCE IdleSupervisor WITH
  phase <- CASE pc = "exited" /\ exit_status = "error" -> "failed"
             [] pc = "exited" /\ exit_status # "error" -> "left"
             [] pc \in Releasing -> "releasing"
             [] OTHER -> "watching",
  process <- CASE command = "running" -> "runs"
               [] command = "stopped" -> "held"
               [] OTHER -> "over"

ImplementsSupervisor == Supervisor!Spec

-----------------------------------------------------------------------------
(* Liveness. *)

Failed == exit_status = "error"

\* A user who stays away gets the command resumed for good, through whatever
\* sequence of earlier activity, queued events and loss of the compositor.
ResumedWhenIdle ==
  <>[]user_idle => <>[](command # "stopped" \/ Failed)

\* A user who stays active gets the command paused, unless the program has
\* ended, is releasing the command or has no way to detect idleness.
PausedWhenActive ==
  <>[]~user_idle =>
    <>[](command_paused \/ pc \in Releasing \cup {"exited"}
           \/ Undetected)

\* Without a way to detect idleness a command that is still paused from the
\* time before the compositor was lost does not stay so.
UndetectedContinues ==
  Undetected /\ command = "stopped" ~> command # "stopped" \/ Failed

\* When the command ends by itself, the program ends: no wake-up is lost
\* between the checks and poll(), and no loop keeps spinning.
Finished == IF ExternalPid THEN command = "reaped" ELSE command = "exited"
EndIsNoticed == Finished ~> pc = "exited"

\* An interruption is never lost: the program ends or waits for a command
\* that runs and can handle the signal.
InterruptionIsServed ==
  sent # {} ~> pc = "exited" \/ (pc = "await" /\ command = "running")

\* Monitoring starts, whatever the delay given with --start-monitor-after.
MonitoringStarts ==
  <>(monitoring_started \/ pc \in Releasing \cup {"exited"})

\* The program ends when its child has ended, however the child ended.
AnyEndIsNoticed == command \in {"exited", "killed", "reaped"} ~> pc = "exited"
=============================================================================
