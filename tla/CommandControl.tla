--------------------------- MODULE CommandControl ---------------------------
(***************************************************************************)
(* What the two monitoring loops of runwhenidle share: the command it      *)
(* controls, the signals that wait on signal_fd, the flags in main.c, and  *)
(* the code both loops end in: handle_interruption() and                   *)
(* resume_and_wait_for_pid_to_exit_checking_for_signals().                 *)
(*                                                                         *)
(* runwhenidle has one thread, so its state is a program counter pc and a  *)
(* few flags.  One action is the code between two points at which the      *)
(* command, the user or the display server can be observed: the action     *)
(* makes at most one call that looks at the command or changes it.         *)
(*                                                                         *)
(* The command's descendants are only seen here through what they can do   *)
(* to runwhenidle: make kill() fail.  Module ProcessTree has the tree.     *)
(***************************************************************************)
EXTENDS Naturals

CONSTANTS
  ExternalPid,         \* TRUE iff --pid was given: the command is not our child
  PauseCanBeIgnored,   \* TRUE iff --pause-method=SIGTSTP
  StartMonitorAfterMs, \* --start-monitor-after
  DescendantsMayVanish,\* a descendant may be gone before the kill() meant for it
  Interruptions        \* the interruption signals that may arrive, each once

ASSUME ControlAssumption ==
  /\ ExternalPid \in BOOLEAN
  /\ PauseCanBeIgnored \in BOOLEAN
  /\ StartMonitorAfterMs \in Nat
  /\ DescendantsMayVanish \in BOOLEAN
  /\ Interruptions \subseteq {"SIGINT", "SIGTERM"}

VARIABLES
  pc,                    \* what runwhenidle executes next
  command,               \* the process runwhenidle was asked to control
  signal_fd,             \* signals pending on the signalfd
  sent,                  \* interruption signals already sent to runwhenidle
  interruption_received, \* 0 in the code is "none" here
  sigchld_received,
  command_paused,
  monitoring_started,
  exit_status,           \* how runwhenidle itself ended, "none" while it runs
  user_idle              \* has the user been inactive for the whole timeout?

programVars == <<pc, interruption_received, sigchld_received, command_paused,
                 monitoring_started, exit_status>>
commandVars == <<command, signal_fd>>
controlVars == <<programVars, commandVars, sent, user_idle>>

\* "exited" and "killed" are a zombie that ended by exit() or by a signal;
\* "reaped" is a PID that no longer names a process.
CommandStates == {"running", "stopped", "exited", "killed", "reaped"}

\* "command" is the exit code of the command, "zero" and "error" are 0 and 1.
ExitStatuses == {"none", "command", "zero", "error"}

SharedLabels == {"start", "forward", "unpause", "await",
                 "let_finish", "wait_top", "wait_check", "wait_sleep", "exited"}

Goto(label) == pc' = label /\ UNCHANGED exit_status
Exit(status) == pc' = "exited" /\ exit_status' = status

ControlInit ==
  /\ pc = "start"
  /\ command = "running"
  /\ signal_fd = {}
  /\ sent = {}
  /\ interruption_received = "none"
  /\ sigchld_received = FALSE
  /\ command_paused = FALSE
  /\ monitoring_started = FALSE
  /\ exit_status = "none"
  /\ user_idle \in BOOLEAN

ControlTypeOK ==
  /\ command \in CommandStates
  /\ signal_fd \subseteq {"SIGINT", "SIGTERM", "SIGCHLD"}
  /\ sent \subseteq Interruptions
  /\ interruption_received \in {"none", "SIGINT", "SIGTERM"}
  /\ sigchld_received \in BOOLEAN
  /\ command_paused \in BOOLEAN
  /\ monitoring_started \in BOOLEAN
  /\ exit_status \in ExitStatuses
  /\ user_idle \in BOOLEAN

-----------------------------------------------------------------------------
(* The world: the command, its parent, the user and whoever sends signals. *)

\* A child that stops, continues or ends raises SIGCHLD at its parent only.
NotifyParent ==
  signal_fd' = IF ExternalPid THEN signal_fd ELSE signal_fd \cup {"SIGCHLD"}

CommandExits ==
  /\ pc # "exited"
  /\ command = "running"
  /\ command' = "exited"
  /\ NotifyParent
  /\ UNCHANGED <<programVars, sent, user_idle>>

\* SIGKILL ends a stopped process too.
CommandIsKilled ==
  /\ pc # "exited"
  /\ command \in {"running", "stopped"}
  /\ command' = "killed"
  /\ NotifyParent
  /\ UNCHANGED <<programVars, sent, user_idle>>

\* With --pid the zombie belongs to another parent, which reaps it.
ItsParentReaps ==
  /\ pc # "exited"
  /\ ExternalPid
  /\ command \in {"exited", "killed"}
  /\ command' = "reaped"
  /\ UNCHANGED <<programVars, signal_fd, sent, user_idle>>

InterruptionArrives ==
  /\ pc # "exited"
  /\ \E signal \in Interruptions \ sent :
       /\ signal_fd' = signal_fd \cup {signal}
       /\ sent' = sent \cup {signal}
  /\ UNCHANGED <<programVars, command, user_idle>>

UserChanges ==
  /\ pc # "exited"
  /\ user_idle' = ~user_idle
  /\ UNCHANGED <<programVars, commandVars, sent>>

World == CommandExits \/ CommandIsKilled \/ ItsParentReaps
           \/ InterruptionArrives \/ UserChanges

-----------------------------------------------------------------------------
(* Primitives of process_handling.c and main.c. *)

\* Mutant: the signal number is not compared.
AnySignalIsAnInterruption ==
  /\ interruption_received' \in IF signal_fd = {} THEN {interruption_received} ELSE signal_fd
  /\ sigchld_received' = (sigchld_received \/ "SIGCHLD" \in signal_fd)
  /\ signal_fd' = {}

\* Mutant: SIGCHLD, which is read last, resets what was received.
SigchldOverwritesInterruption ==
  /\ interruption_received' =
       CASE "SIGCHLD" \in signal_fd -> "none"
         [] signal_fd = {"SIGINT"} -> "SIGINT"
         [] signal_fd # {} /\ "SIGCHLD" \notin signal_fd /\ signal_fd # {"SIGINT"} -> "SIGTERM"
         [] OTHER -> interruption_received
  /\ sigchld_received' = (sigchld_received \/ "SIGCHLD" \in signal_fd)
  /\ signal_fd' = {}

\* process_signalfd(): drains the descriptor.  The kernel hands out the lowest
\* signal number first, so SIGTERM overwrites SIGINT when both are pending.
process_signalfd ==
  /\ interruption_received' =
       CASE "SIGTERM" \in signal_fd -> "SIGTERM"
         [] "SIGINT" \in signal_fd /\ "SIGTERM" \notin signal_fd -> "SIGINT"
         [] OTHER -> interruption_received
  /\ sigchld_received' = (sigchld_received \/ "SIGCHLD" \in signal_fd)
  /\ signal_fd' = {}

\* Mutant: WIFEXITED is not asked, so that WUNTRACED reports a stop as the end.
stop_is_taken_for_exit(next) ==
  /\ IF command \in {"stopped", "exited", "killed"} THEN Exit("command") ELSE Goto(next)
  /\ command' = IF command \in {"exited", "killed"} THEN "reaped" ELSE command
  /\ UNCHANGED <<signal_fd, command_paused>>

\* Mutant: with --pid too, the state of the process is taken for its end.
zombie_is_taken_for_exit(next) ==
  /\ IF command \in {"exited", "killed", "reaped"} THEN Exit("zero") ELSE Goto(next)
  /\ UNCHANGED <<command, signal_fd, command_paused>>

\* exit_if_pid_has_finished(): with a child, waitpid() reaps a command that a
\* signal killed and yet only WIFEXITED counts as finished; with --pid,
\* kill(pid, 0) succeeds as long as there is a zombie.
exit_if_pid_has_finished(next) ==
  /\ IF ExternalPid
     THEN /\ IF command = "reaped" THEN Exit("zero") ELSE Goto(next)
          /\ UNCHANGED command
     ELSE /\ IF command = "exited" THEN Exit("command") ELSE Goto(next)
          /\ command' = IF command \in {"exited", "killed"} THEN "reaped" ELSE command
  /\ UNCHANGED <<signal_fd, command_paused>>

\* send_signal_to_pid() exits with 1 when kill() fails: at once when the
\* command itself is gone, after it has been signalled when a descendant is.
\* command_paused is then still what it was before the signals went out.
SignalTree(effect, before, after, next) ==
  IF command = "reaped"
  THEN Exit("error") /\ command_paused' = before /\ UNCHANGED <<command, signal_fd>>
  ELSE /\ effect
       /\ \/ command_paused' = after /\ Goto(next)
          \/ DescendantsMayVanish /\ command_paused' = before /\ Exit("error")

Stops ==
  \/ /\ command = "running"
     /\ command' = "stopped"
     /\ NotifyParent
  \/ /\ command # "running" \/ PauseCanBeIgnored
     /\ UNCHANGED <<command, signal_fd>>

Continues ==
  IF command = "stopped"
  THEN command' = "running" /\ NotifyParent
  ELSE UNCHANGED <<command, signal_fd>>

\* Mutant: command_paused is not set.
flag_is_not_set(next) == SignalTree(Stops, command_paused, command_paused, next)

pause_running_command_on_user_activity(next) ==
  SignalTree(Stops, command_paused, TRUE, next)

resume_paused_command_on_user_idle(next) ==
  SignalTree(Continues, command_paused, FALSE, next)

\* Mutant: the flag is cleared and nothing is resumed.
forget_pause(next) ==
  SignalTree(UNCHANGED <<command, signal_fd>>, FALSE, FALSE, next)

\* "command_paused = 0; resume_command_recursively(pid);"
forget_pause_and_resume(next) == SignalTree(Continues, FALSE, FALSE, next)

-----------------------------------------------------------------------------
(* handle_interruption(): both loops return what it returns. *)

Forward ==
  /\ pc = "forward"
  /\ IF ExternalPid \/ command # "reaped" THEN Goto("unpause") ELSE Exit("error")
  /\ UNCHANGED <<commandVars, interruption_received, sigchld_received,
                 command_paused, monitoring_started, sent, user_idle>>

Unpause ==
  /\ pc = "unpause"
  /\ IF command_paused
     THEN forget_pause_and_resume("await")
     ELSE Goto("await") /\ UNCHANGED <<commandVars, command_paused>>
  /\ UNCHANGED <<interruption_received, sigchld_received, monitoring_started,
                 sent, user_idle>>

\* Mutant: no waitpid().
ReturnAtOnce ==
  /\ pc = "await"
  /\ Exit("zero")
  /\ UNCHANGED <<commandVars, interruption_received, sigchld_received,
                 command_paused, monitoring_started, sent, user_idle>>

\* With --pid it returns 0.  Otherwise waitpid() blocks, and WEXITSTATUS of a
\* command that a signal ended is 0.
Await ==
  /\ pc = "await"
  /\ IF ExternalPid
     THEN Exit("zero") /\ UNCHANGED command
     ELSE /\ command \in {"exited", "killed"}
          /\ Exit(IF command = "exited" THEN "command" ELSE "zero")
          /\ command' = "reaped"
  /\ UNCHANGED <<signal_fd, interruption_received, sigchld_received,
                 command_paused, monitoring_started, sent, user_idle>>

-----------------------------------------------------------------------------
(* resume_and_wait_for_pid_to_exit_checking_for_signals() *)

LetFinish ==
  /\ pc = "let_finish"
  /\ IF command_paused
     THEN forget_pause_and_resume("wait_top")
     ELSE Goto("wait_top") /\ UNCHANGED <<commandVars, command_paused>>
  /\ UNCHANGED <<interruption_received, sigchld_received, monitoring_started,
                 sent, user_idle>>

\* Mutant: the loop does not check the command.
WaitForInterruptionOnly ==
  /\ pc = "wait_top"
  /\ Goto(IF interruption_received # "none" THEN "forward" ELSE "wait_sleep")
  /\ UNCHANGED <<commandVars, interruption_received, sigchld_received, command_paused,
                 monitoring_started, sent, user_idle>>

WaitTop ==
  /\ pc = "wait_top"
  /\ IF interruption_received # "none"
     THEN Goto("forward") /\ UNCHANGED sigchld_received
     ELSE Goto("wait_check") /\ sigchld_received' = FALSE
  /\ UNCHANGED <<commandVars, interruption_received, command_paused,
                 monitoring_started, sent, user_idle>>

WaitCheck ==
  /\ pc = "wait_check"
  /\ exit_if_pid_has_finished("wait_sleep")
  /\ UNCHANGED <<interruption_received, sigchld_received, monitoring_started,
                 sent, user_idle>>

\* The poll() of 100 ms ends with a signal or with the timeout.
WaitSleep ==
  /\ pc = "wait_sleep"
  /\ Goto("wait_top")
  /\ process_signalfd
  /\ UNCHANGED <<command, command_paused, monitoring_started, sent, user_idle>>

SharedSteps == Forward \/ Unpause \/ Await \/ LetFinish \/ WaitTop
                 \/ WaitCheck \/ WaitSleep
=============================================================================
