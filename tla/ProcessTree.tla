----------------------------- MODULE ProcessTree -----------------------------
(***************************************************************************)
(* pause_command_recursively() and resume_command_recursively() of         *)
(* process_handling.c against a process tree that does not stand still:    *)
(* the command's processes fork, exit and are killed and reaped while      *)
(* runwhenidle reads /proc one entry at a time and signals what it found.  *)
(*                                                                         *)
(* The pause method is SIGSTOP.  PIDs are not reused here.                 *)
(***************************************************************************)
EXTENDS Naturals, FiniteSets

CONSTANTS
  Pids,          \* every process there may ever be
  Root,          \* the PID runwhenidle controls
  Strangers,     \* processes that have nothing to do with the command
  Reaper,        \* init, the parent of orphans; also stands for Root's parent
  NotListed,     \* the parent of a process that the scan has not seen
  Foreign,       \* processes of other users, which may not be stopped
  ExternalPid,   \* TRUE iff --pid was given: Root is not runwhenidle's child
  OutsideKills   \* may a stopped process be killed?

ASSUME TreeAssumption ==
  /\ Root \in Pids
  /\ Strangers \subseteq Pids \ {Root}
  /\ Foreign \subseteq Pids \ {Root}
  /\ Reaper \notin Pids /\ NotListed \notin Pids /\ Reaper # NotListed
  /\ ExternalPid \in BOOLEAN
  /\ OutsideKills \in BOOLEAN

VARIABLES
  parent,     \* the kernel's process table: parent PID ...
  status,     \* ... and state of each process
  family,     \* Root and everything that descends from it by fork()
  newborn,    \* processes forked since /proc was last opened
  step,       \* "idle", "open", "scan", "signal", "exited"
  operation,  \* what the steps are part of: "pause" or "resume"
  command_paused,
  unread,     \* entries of /proc the scan has yet to read
  all_processes, \* what it has read: the parent each process had at that time
  targets     \* descendants that have not been signalled yet

kernelVars == <<parent, status, family, newborn>>
scanVars == <<unread, all_processes, targets>>
programVars == <<step, operation, command_paused>>
vars == <<kernelVars, programVars, scanVars>>

Statuses == {"unborn", "running", "stopped", "zombie", "gone"}
Exists(p) == status[p] \notin {"unborn", "gone"}

Init ==
  /\ parent = [p \in Pids |-> Reaper]
  /\ status = [p \in Pids |-> IF p \in Strangers \cup {Root} THEN "running" ELSE "unborn"]
  /\ family = {Root}
  /\ newborn = {}
  /\ step = "idle"
  /\ operation = "resume"
  /\ command_paused = FALSE
  /\ unread = {}
  /\ all_processes = [p \in Pids |-> NotListed]
  /\ targets = {}

-----------------------------------------------------------------------------
(* The kernel and the command's processes. *)

\* A child born during the scan may still be ahead of readdir(), or behind it.
Fork(p, child) ==
  /\ step # "exited"
  /\ status[p] = "running" /\ status[child] = "unborn"
  /\ parent' = [parent EXCEPT ![child] = p]
  /\ status' = [status EXCEPT ![child] = "running"]
  /\ family' = IF p \in family THEN family \cup {child} ELSE family
  /\ newborn' = newborn \cup {child}
  /\ \/ UNCHANGED unread
     \/ step = "scan" /\ unread' = unread \cup {child}
  /\ UNCHANGED <<programVars, all_processes, targets>>

\* Whoever ends, its children get another parent.
End(p) ==
  /\ step # "exited"
  /\ status[p] = "running" \/ (OutsideKills /\ status[p] = "stopped")
  /\ status' = [status EXCEPT ![p] = "zombie"]
  /\ parent' = [c \in Pids |-> IF parent[c] = p THEN Reaper ELSE parent[c]]
  /\ UNCHANGED <<family, newborn, programVars, scanVars>>

\* A stopped parent does not wait for its children.
Reap(p) ==
  /\ step # "exited"
  /\ status[p] = "zombie"
  /\ parent[p] # Reaper => status[parent[p]] = "running"
  /\ p = Root => ExternalPid
  /\ status' = [status EXCEPT ![p] = "gone"]
  /\ UNCHANGED <<parent, family, newborn, programVars, scanVars>>

Kernel == \E p \in Pids : End(p) \/ Reap(p) \/ \E child \in Pids : Fork(p, child)

-----------------------------------------------------------------------------
(* runwhenidle. *)

\* The processes below Root in a table of parents: the least set that contains
\* the children of Root and of its own members.
Descendants(table) ==
  {p \in Pids : \A S \in SUBSET Pids :
     (\A c \in Pids : table[c] \in S \cup {Root} => c \in S) => p \in S}

\* When kill() fails runwhenidle ends with status 1.  SIGCONT needs no further
\* permission within the session, which with --pid may be another one.
send_signal_to_pid(p, next) ==
  \/ /\ Exists(p)
     /\ p \in Foreign => operation' = "resume"
     /\ step' = next
     /\ status' = [status EXCEPT ![p] =
          IF operation' = "pause" /\ status[p] = "running" THEN "stopped"
          ELSE IF operation' = "resume" /\ status[p] = "stopped" THEN "running"
          ELSE status[p]]
  \/ /\ ~Exists(p) \/ (p \in Foreign /\ (operation' = "pause" \/ ExternalPid))
     /\ step' = "exited"
     /\ UNCHANGED status

\* Both operations signal the command itself before they look for the others.
pause_command_recursively ==
  /\ step = "idle" /\ ~command_paused
  /\ operation' = "pause"
  /\ send_signal_to_pid(Root, "open")
  /\ UNCHANGED <<parent, family, newborn, command_paused, scanVars>>

resume_command_recursively ==
  /\ step = "idle" /\ command_paused
  /\ operation' = "resume"
  /\ send_signal_to_pid(Root, "open")
  /\ UNCHANGED <<parent, family, newborn, command_paused, scanVars>>

\* get_child_processes(), stage 1: opendir() ...
OpenProc ==
  /\ step = "open"
  /\ step' = "scan"
  /\ unread' = {p \in Pids : Exists(p)}
  /\ all_processes' = [p \in Pids |-> NotListed]
  /\ newborn' = {}
  /\ UNCHANGED <<parent, status, family, operation, command_paused, targets>>

\* ... and one process at a time; one that is gone is left out.
read_parent_process_id(p) ==
  /\ step = "scan"
  /\ p \in unread
  /\ unread' = unread \ {p}
  /\ all_processes' = IF Exists(p) THEN [all_processes EXCEPT ![p] = parent[p]]
                                   ELSE all_processes
  /\ UNCHANGED <<kernelVars, programVars, targets>>

\* Mutants of stage 2: children only; all but one; everything that was read.
TakesTargets(chosen) ==
  /\ step = "scan" /\ unread = {}
  /\ step' = "signal"
  /\ targets' = chosen
  /\ UNCHANGED <<kernelVars, operation, command_paused, unread, all_processes>>

get_direct_children == TakesTargets({p \in Pids : all_processes[p] = Root})
get_all_but_one == \E p \in Pids : TakesTargets(Descendants(all_processes) \ {p})
get_everything == TakesTargets({p \in Pids \ {Root} : all_processes[p] # NotListed})

\* Stage 2, the subject of module DescendantScan.
get_child_processes ==
  /\ step = "scan" /\ unread = {}
  /\ step' = "signal"
  /\ targets' = Descendants(all_processes)
  /\ UNCHANGED <<kernelVars, operation, command_paused, unread, all_processes>>

\* The descendants come level by level: none before its parent.
SignalDescendant(p) ==
  /\ step = "signal"
  /\ p \in targets /\ all_processes[p] \notin targets
  /\ targets' = targets \ {p}
  /\ UNCHANGED operation
  /\ send_signal_to_pid(p, "signal")
  /\ UNCHANGED <<parent, family, newborn, command_paused, unread, all_processes>>

Done ==
  /\ step = "signal" /\ targets = {}
  /\ step' = "idle"
  /\ command_paused' = (operation = "pause")
  /\ UNCHANGED <<kernelVars, operation, scanVars>>

\* A child is reaped by runwhenidle between two operations; runwhenidle goes
\* on if a signal ended it.
exit_if_pid_has_finished ==
  /\ step = "idle"
  /\ \/ ~ExternalPid /\ status[Root] = "zombie"
        /\ status' = [status EXCEPT ![Root] = "gone"]
        /\ step' \in {"idle", "exited"}
     \/ ExternalPid /\ status[Root] = "gone"
        /\ step' = "exited" /\ UNCHANGED status
  /\ UNCHANGED <<parent, family, newborn, operation, command_paused, scanVars>>

Program ==
  \/ pause_command_recursively \/ resume_command_recursively
  \/ OpenProc \/ get_child_processes \/ Done \/ exit_if_pid_has_finished
  \/ \E p \in Pids : read_parent_process_id(p) \/ SignalDescendant(p)

Next == Kernel \/ Program

Spec == Init /\ [][Next]_vars

-----------------------------------------------------------------------------
TypeOK ==
  /\ parent \in [Pids -> Pids \cup {Reaper}]
  /\ status \in [Pids -> Statuses]
  /\ family \subseteq Pids /\ newborn \subseteq Pids
  /\ step \in {"idle", "open", "scan", "signal", "exited"}
  /\ operation \in {"pause", "resume"}
  /\ command_paused \in BOOLEAN
  /\ unread \subseteq Pids
  /\ all_processes \in [Pids -> Pids \cup {Reaper, NotListed}]
  /\ targets \subseteq Pids

\* The command has been paused: of what is below it at any time until it is
\* resumed, only what was forked after /proc was opened can be running,
\* however the forks, ends and reads of single entries were interleaved.
EscapeesAreNewborn ==
  step = "idle" /\ command_paused =>
    \A p \in Descendants(parent) \cup {Root} : status[p] = "running" => p \in newborn

\* The command has been resumed: nothing below it is still stopped, whether it
\* was seen by the pause that stopped it or by an earlier one.
ResumeLeavesNoDescendantStopped ==
  step = "idle" /\ ~command_paused =>
    \A p \in Descendants(parent) \cup {Root} : status[p] # "stopped"

\* Parents read at different times never add up to a stranger being a
\* descendant: only the command and what it forked is ever stopped.
OnlyFamilyStopped ==
  \A p \in Pids : status[p] = "stopped" => p \in family

\* "Pauses a specified process and all child processes": fork() during the
\* scan breaks it.
PauseReachesAll ==
  step = "idle" /\ command_paused =>
    \A p \in Descendants(parent) : status[p] # "running"

\* "Resumes a specified process and all child processes": a process whose
\* parent ends while it is stopped, or between SIGCONT to the command and the
\* scan, is not resumed.
ResumeReachesAll ==
  step = "idle" /\ ~command_paused => \A p \in Pids : status[p] # "stopped"
=============================================================================
