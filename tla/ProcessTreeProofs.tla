-------------------------- MODULE ProcessTreeProofs --------------------------
(***************************************************************************)
(* Proofs about ProcessTree: what a pause and a resume guarantee, for any  *)
(* number of processes and every interleaving of the scan with them.       *)
(*                                                                         *)
(* A parent PID never changes except to that of the reaper.  So a process  *)
(* that is below the command now was below it when it was read, and the    *)
(* table, although read piece by piece, has every descendant that was      *)
(* born before the scan.                                                   *)
(***************************************************************************)
EXTENDS ProcessTree, TLAPS

\* Nobody has a parent that has ended or was not born.
ParentsLive ==
  \A c \in Pids : parent[c] \in Pids => status[parent[c]] \in {"running", "stopped"}

RootIsBorn == status[Root] # "unborn"

\* Descent by fork() is inherited, in the kernel's table and in the one read.
FamilyIsClosed ==
  /\ Root \in family
  /\ \A c \in Pids : parent[c] \in family => c \in family
  /\ \A c \in Pids : all_processes[c] \in family => c \in family
  /\ \A c \in Pids : all_processes[c] \in Pids => status[all_processes[c]] # "unborn"
  /\ targets \subseteq family

NewbornIsClosed == \A c \in Pids : parent[c] \in newborn => c \in newborn

\* What is not read yet is still to be read; what was read is still true.
ScanIsCurrent ==
  step = "scan" =>
    \A c \in Pids \ newborn :
      Exists(c) /\ parent[c] \in Pids => c \in unread \/ all_processes[c] = parent[c]

\* Between two operations nothing is left to signal.
FlagIsOperation ==
  step = "idle" => targets = {} /\ (command_paused <=> operation = "pause")

PauseCovers ==
  operation = "pause" /\ step # "exited" =>
    /\ status[Root] # "running"
    /\ step \in {"signal", "idle"} =>
         \A p \in Descendants(parent) : status[p] = "running" => p \in newborn \cup targets

ResumeCovers ==
  operation = "resume" /\ step # "exited" =>
    /\ status[Root] # "stopped"
    /\ step # "open" => \A p \in newborn : status[p] # "stopped"
    /\ step \in {"signal", "idle"} =>
         \A p \in Descendants(parent) : status[p] = "stopped" => p \in targets

TreeInv ==
  /\ TypeOK /\ ParentsLive /\ RootIsBorn /\ NewbornIsClosed

IInv ==
  /\ TreeInv /\ FamilyIsClosed /\ OnlyFamilyStopped
  /\ ScanIsCurrent /\ FlagIsOperation /\ PauseCovers /\ ResumeCovers

USE TreeAssumption DEF Statuses

-----------------------------------------------------------------------------
(* Descendants() is the least set that is closed under a table. *)

ClosedUnder(table, S) == \A c \in Pids : table[c] \in S \cup {Root} => c \in S

LEMMA DescendantsClosed ==
  ASSUME NEW table, NEW c \in Pids, table[c] \in Descendants(table) \cup {Root}
  PROVE  c \in Descendants(table)
<1> SUFFICES ASSUME NEW S \in SUBSET Pids,
                    \A d \in Pids : table[d] \in S \cup {Root} => d \in S
             PROVE  c \in S
  BY DEF Descendants
<1>1. table[c] \in S \cup {Root}
  BY DEF Descendants
<1> QED
  BY <1>1

LEMMA DescendantsLeast ==
  ASSUME NEW table, NEW S \in SUBSET Pids, ClosedUnder(table, S)
  PROVE  Descendants(table) \subseteq S
BY DEF Descendants, ClosedUnder

LEMMA DescendantsArePids ==
  ASSUME NEW table
  PROVE  Descendants(table) \subseteq Pids
BY DEF Descendants

\* A fork adds at most the child.
LEMMA ForkAddsChild ==
  ASSUME TreeInv, NEW p \in Pids, NEW child \in Pids, Fork(p, child)
  PROVE  Descendants(parent') \subseteq Descendants(parent) \cup {child}
<1> DEFINE S == Descendants(parent) \cup {child}
<1>1. S \in SUBSET Pids
  BY DescendantsArePids
<1>2. ASSUME NEW c \in Pids, parent'[c] \in S \cup {Root}
      PROVE  c \in S
  <2>1. CASE c = child
    BY <2>1
  <2>2. CASE c # child
    <3>1. parent'[c] = parent[c]
      BY <2>2 DEF Fork, TreeInv, TypeOK
    <3>2. parent[c] # child
      BY DEF Fork, TreeInv, ParentsLive
    <3>3. parent[c] \in Descendants(parent) \cup {Root}
      BY <1>2, <3>1, <3>2
    <3> QED
      BY <3>3, DescendantsClosed
  <2> QED
    BY <2>1, <2>2
<1>3. ClosedUnder(parent', S)
  BY <1>2 DEF ClosedUnder
<1> QED
  BY <1>1, <1>3, DescendantsLeast

\* The end of a process adds none.
LEMMA EndAddsNone ==
  ASSUME TreeInv, NEW p \in Pids, End(p)
  PROVE  Descendants(parent') \subseteq Descendants(parent)
<1>1. Descendants(parent) \in SUBSET Pids
  BY DescendantsArePids
<1>2. ASSUME NEW c \in Pids, parent'[c] \in Descendants(parent) \cup {Root}
      PROVE  c \in Descendants(parent)
  <2>1. parent'[c] # Reaper
    BY <1>1, <1>2
  <2>2. parent'[c] = parent[c]
    BY <2>1 DEF End
  <2> QED
    BY <1>2, <2>2, DescendantsClosed
<1>3. ClosedUnder(parent', Descendants(parent))
  BY <1>2 DEF ClosedUnder
<1> QED
  BY <1>1, <1>3, DescendantsLeast

\* A scan that is complete has found every descendant that was born before it.
LEMMA ScanFindsTheOld ==
  ASSUME TreeInv, ScanIsCurrent, step = "scan", unread = {}
  PROVE  \A p \in Descendants(parent) :
           p \in newborn \/ ~Exists(p) \/ p \in Descendants(all_processes)
<1> DEFINE S == Descendants(all_processes) \cup newborn \cup {p \in Pids : ~Exists(p)}
<1>1. S \in SUBSET Pids
  BY DescendantsArePids DEF TreeInv, TypeOK
<1>2. ASSUME NEW c \in Pids, parent[c] \in S \cup {Root}
      PROVE  c \in S
  <2>1. CASE c \in newborn \/ ~Exists(c)
    BY <2>1
  <2>2. CASE c \notin newborn /\ Exists(c)
    <3>1. parent[c] \in Pids
      BY <1>1, <1>2
    <3>2. parent[c] \notin newborn
      BY <2>2 DEF TreeInv, NewbornIsClosed
    <3>3. Exists(parent[c])
      BY <3>1 DEF TreeInv, ParentsLive, Exists
    <3>4. parent[c] \in Descendants(all_processes) \cup {Root}
      BY <1>2, <3>2, <3>3
    <3>5. all_processes[c] = parent[c]
      BY <2>2, <3>1 DEF ScanIsCurrent
    <3>6. c \in Descendants(all_processes)
      BY <3>4, <3>5, DescendantsClosed
    <3> QED
      BY <3>6
  <2> QED
    BY <2>1, <2>2
<1>3. ClosedUnder(parent, S)
  BY <1>2 DEF ClosedUnder
<1>4. Descendants(parent) \subseteq S
  BY <1>1, <1>3, DescendantsLeast
<1> QED
  BY <1>4
-----------------------------------------------------------------------------
(* The steps. *)

\* A signal changes at most one process, and only whether it is stopped.
LEMMA Sending ==
  ASSUME TypeOK, NEW p \in Pids, NEW next, send_signal_to_pid(p, next)
  PROVE  /\ status' \in [Pids -> Statuses]
         /\ \A q \in Pids : q # p => status'[q] = status[q]
         /\ \A q \in Pids : status'[q] # status[q] =>
              {status[q], status'[q]} = {"running", "stopped"}
         /\ \/ step' = "exited" /\ status' = status
            \/ /\ step' = next
               /\ operation' = "pause" => status'[p] # "running"
               /\ operation' = "resume" => status'[p] # "stopped"
<1> DEFINE s == IF operation' = "pause" /\ status[p] = "running" THEN "stopped"
                ELSE IF operation' = "resume" /\ status[p] = "stopped" THEN "running"
                ELSE status[p]
<1>1. CASE step' = "exited" /\ UNCHANGED status
  BY <1>1 DEF TypeOK
<1>2. CASE step' = next /\ status' = [status EXCEPT ![p] = s]
  <2>1. s \in Statuses /\ status \in [Pids -> Statuses]
    BY DEF TypeOK
  <2>2. s # status[p] => {status[p], s} = {"running", "stopped"}
    OBVIOUS
  <2>3. operation' = "pause" => s # "running"
    OBVIOUS
  <2>4. operation' = "resume" => s # "stopped"
    OBVIOUS
  <2> HIDE DEF s
  <2>5. status' \in [Pids -> Statuses] /\ status'[p] = s
        /\ \A q \in Pids : q # p => status'[q] = status[q]
    BY <1>2, <2>1
  <2> QED
    BY <1>2, <2>2, <2>3, <2>4, <2>5
<1> QED
  BY <1>1, <1>2 DEF send_signal_to_pid

LEMMA StepTypeOK == TypeOK /\ [Next]_vars => TypeOK'
<1> SUFFICES ASSUME TypeOK, [Next]_vars PROVE TypeOK'
  OBVIOUS
<1> USE DEF TypeOK,
            kernelVars, programVars, scanVars
<1>1. ASSUME NEW p \in Pids, NEW child \in Pids, Fork(p, child)
      PROVE  TypeOK'
  BY <1>1 DEF Fork
<1>2. ASSUME NEW p \in Pids, End(p)
      PROVE  TypeOK'
  BY <1>2 DEF End
<1>3. ASSUME NEW p \in Pids, Reap(p)
      PROVE  TypeOK'
  BY <1>3 DEF Reap
<1>4. CASE pause_command_recursively
  BY <1>4, Sending DEF pause_command_recursively
<1>5. CASE resume_command_recursively
  BY <1>5, Sending DEF resume_command_recursively
<1>6. CASE OpenProc
  BY <1>6 DEF OpenProc
<1>7. ASSUME NEW p \in Pids, read_parent_process_id(p)
      PROVE  TypeOK'
  BY <1>7 DEF read_parent_process_id
<1>8. CASE get_child_processes
  BY <1>8, DescendantsArePids DEF get_child_processes
<1>9. ASSUME NEW p \in Pids, SignalDescendant(p)
      PROVE  TypeOK'
  BY <1>9, Sending DEF SignalDescendant
<1>10. CASE Done
  BY <1>10 DEF Done
<1>11. CASE exit_if_pid_has_finished
  BY <1>11 DEF exit_if_pid_has_finished
<1>12. CASE UNCHANGED vars
  BY <1>12 DEF vars
<1> QED
  BY <1>1, <1>2, <1>3, <1>4, <1>5, <1>6, <1>7, <1>8, <1>9, <1>10, <1>11, <1>12
     DEF Next, Kernel, Program

LEMMA StepParentsLive == TreeInv /\ [Next]_vars => ParentsLive'
<1> SUFFICES ASSUME TreeInv, [Next]_vars PROVE ParentsLive'
  OBVIOUS
<1> USE DEF TreeInv, TypeOK, ParentsLive,
            kernelVars, programVars, scanVars
<1>1. ASSUME NEW p \in Pids, NEW child \in Pids, Fork(p, child)
      PROVE  ParentsLive'
  BY <1>1 DEF Fork
<1>2. ASSUME NEW p \in Pids, End(p)
      PROVE  ParentsLive'
  BY <1>2 DEF End
<1>3. ASSUME NEW p \in Pids, Reap(p)
      PROVE  ParentsLive'
  BY <1>3 DEF Reap
<1>4. CASE pause_command_recursively
  BY <1>4, Sending DEF pause_command_recursively
<1>5. CASE resume_command_recursively
  BY <1>5, Sending DEF resume_command_recursively
<1>6. CASE OpenProc
  BY <1>6 DEF OpenProc
<1>7. ASSUME NEW p \in Pids, read_parent_process_id(p)
      PROVE  ParentsLive'
  BY <1>7 DEF read_parent_process_id
<1>8. CASE get_child_processes
  BY <1>8 DEF get_child_processes
<1>9. ASSUME NEW p \in Pids, SignalDescendant(p)
      PROVE  ParentsLive'
  BY <1>9, Sending DEF SignalDescendant
<1>10. CASE Done
  BY <1>10 DEF Done
<1>11. CASE exit_if_pid_has_finished
  BY <1>11 DEF exit_if_pid_has_finished
<1>12. CASE UNCHANGED vars
  BY <1>12 DEF vars
<1> QED
  BY <1>1, <1>2, <1>3, <1>4, <1>5, <1>6, <1>7, <1>8, <1>9, <1>10, <1>11, <1>12
     DEF Next, Kernel, Program

LEMMA StepRootIsBorn == TreeInv /\ [Next]_vars => RootIsBorn'
<1> SUFFICES ASSUME TreeInv, [Next]_vars PROVE RootIsBorn'
  OBVIOUS
<1> USE DEF TreeInv, TypeOK, RootIsBorn,
            kernelVars, programVars, scanVars
<1>1. ASSUME NEW p \in Pids, NEW child \in Pids, Fork(p, child)
      PROVE  RootIsBorn'
  BY <1>1 DEF Fork
<1>2. ASSUME NEW p \in Pids, End(p)
      PROVE  RootIsBorn'
  BY <1>2 DEF End
<1>3. ASSUME NEW p \in Pids, Reap(p)
      PROVE  RootIsBorn'
  BY <1>3 DEF Reap
<1>4. CASE pause_command_recursively
  BY <1>4, Sending DEF pause_command_recursively
<1>5. CASE resume_command_recursively
  BY <1>5, Sending DEF resume_command_recursively
<1>6. CASE OpenProc
  BY <1>6 DEF OpenProc
<1>7. ASSUME NEW p \in Pids, read_parent_process_id(p)
      PROVE  RootIsBorn'
  BY <1>7 DEF read_parent_process_id
<1>8. CASE get_child_processes
  BY <1>8 DEF get_child_processes
<1>9. ASSUME NEW p \in Pids, SignalDescendant(p)
      PROVE  RootIsBorn'
  BY <1>9, Sending DEF SignalDescendant
<1>10. CASE Done
  BY <1>10 DEF Done
<1>11. CASE exit_if_pid_has_finished
  BY <1>11 DEF exit_if_pid_has_finished
<1>12. CASE UNCHANGED vars
  BY <1>12 DEF vars
<1> QED
  BY <1>1, <1>2, <1>3, <1>4, <1>5, <1>6, <1>7, <1>8, <1>9, <1>10, <1>11, <1>12
     DEF Next, Kernel, Program

LEMMA StepNewborn == TreeInv /\ [Next]_vars => NewbornIsClosed'
<1> SUFFICES ASSUME TreeInv, [Next]_vars PROVE NewbornIsClosed'
  OBVIOUS
<1> USE DEF TreeInv, TypeOK, ParentsLive, NewbornIsClosed,
            kernelVars, programVars, scanVars
<1>1. ASSUME NEW p \in Pids, NEW child \in Pids, Fork(p, child)
      PROVE  NewbornIsClosed'
  BY <1>1 DEF Fork
<1>2. ASSUME NEW p \in Pids, End(p)
      PROVE  NewbornIsClosed'
  BY <1>2 DEF End
<1>3. ASSUME NEW p \in Pids, Reap(p)
      PROVE  NewbornIsClosed'
  BY <1>3 DEF Reap
<1>4. CASE pause_command_recursively
  BY <1>4, Sending DEF pause_command_recursively
<1>5. CASE resume_command_recursively
  BY <1>5, Sending DEF resume_command_recursively
<1>6. CASE OpenProc
  BY <1>6 DEF OpenProc
<1>7. ASSUME NEW p \in Pids, read_parent_process_id(p)
      PROVE  NewbornIsClosed'
  BY <1>7 DEF read_parent_process_id
<1>8. CASE get_child_processes
  BY <1>8 DEF get_child_processes
<1>9. ASSUME NEW p \in Pids, SignalDescendant(p)
      PROVE  NewbornIsClosed'
  BY <1>9, Sending DEF SignalDescendant
<1>10. CASE Done
  BY <1>10 DEF Done
<1>11. CASE exit_if_pid_has_finished
  BY <1>11 DEF exit_if_pid_has_finished
<1>12. CASE UNCHANGED vars
  BY <1>12 DEF vars
<1> QED
  BY <1>1, <1>2, <1>3, <1>4, <1>5, <1>6, <1>7, <1>8, <1>9, <1>10, <1>11, <1>12
     DEF Next, Kernel, Program

LEMMA StepFamily == TreeInv /\ FamilyIsClosed /\ [Next]_vars => FamilyIsClosed'
<1> SUFFICES ASSUME TreeInv /\ FamilyIsClosed, [Next]_vars PROVE FamilyIsClosed'
  OBVIOUS
<1> USE DEF TreeInv, TypeOK, ParentsLive, RootIsBorn, FamilyIsClosed,
            kernelVars, programVars, scanVars
<1>1. ASSUME NEW p \in Pids, NEW child \in Pids, Fork(p, child)
      PROVE  FamilyIsClosed'
  BY <1>1 DEF Fork
<1>2. ASSUME NEW p \in Pids, End(p)
      PROVE  FamilyIsClosed'
  BY <1>2 DEF End
<1>3. ASSUME NEW p \in Pids, Reap(p)
      PROVE  FamilyIsClosed'
  BY <1>3 DEF Reap
<1>4. CASE pause_command_recursively
  BY <1>4, Sending DEF pause_command_recursively
<1>5. CASE resume_command_recursively
  BY <1>5, Sending DEF resume_command_recursively
<1>6. CASE OpenProc
  BY <1>6 DEF OpenProc
<1>7. ASSUME NEW p \in Pids, read_parent_process_id(p)
      PROVE  FamilyIsClosed'
  BY <1>7 DEF read_parent_process_id
<1>8. CASE get_child_processes
  <2>1. ClosedUnder(all_processes, family)
    BY DEF ClosedUnder
  <2>2. Descendants(all_processes) \subseteq family
    BY <2>1, DescendantsLeast
  <2> QED
    BY <1>8, <2>2 DEF get_child_processes
<1>9. ASSUME NEW p \in Pids, SignalDescendant(p)
      PROVE  FamilyIsClosed'
  BY <1>9, Sending DEF SignalDescendant
<1>10. CASE Done
  BY <1>10 DEF Done
<1>11. CASE exit_if_pid_has_finished
  BY <1>11 DEF exit_if_pid_has_finished
<1>12. CASE UNCHANGED vars
  BY <1>12 DEF vars
<1> QED
  BY <1>1, <1>2, <1>3, <1>4, <1>5, <1>6, <1>7, <1>8, <1>9, <1>10, <1>11, <1>12
     DEF Next, Kernel, Program

LEMMA StepOnlyFamily ==
  TreeInv /\ FamilyIsClosed /\ OnlyFamilyStopped /\ [Next]_vars => OnlyFamilyStopped'
<1> SUFFICES ASSUME TreeInv /\ FamilyIsClosed /\ OnlyFamilyStopped, [Next]_vars
             PROVE  OnlyFamilyStopped'
  OBVIOUS
<1> USE DEF TreeInv, TypeOK, FamilyIsClosed, OnlyFamilyStopped,
            kernelVars, programVars, scanVars
<1>1. ASSUME NEW p \in Pids, NEW child \in Pids, Fork(p, child)
      PROVE  OnlyFamilyStopped'
  BY <1>1 DEF Fork
<1>2. ASSUME NEW p \in Pids, End(p)
      PROVE  OnlyFamilyStopped'
  BY <1>2 DEF End
<1>3. ASSUME NEW p \in Pids, Reap(p)
      PROVE  OnlyFamilyStopped'
  BY <1>3 DEF Reap
<1>4. CASE pause_command_recursively
  BY <1>4, Sending DEF pause_command_recursively
<1>5. CASE resume_command_recursively
  BY <1>5, Sending DEF resume_command_recursively
<1>6. CASE OpenProc
  BY <1>6 DEF OpenProc
<1>7. ASSUME NEW p \in Pids, read_parent_process_id(p)
      PROVE  OnlyFamilyStopped'
  BY <1>7 DEF read_parent_process_id
<1>8. CASE get_child_processes
  BY <1>8 DEF get_child_processes
<1>9. ASSUME NEW p \in Pids, SignalDescendant(p)
      PROVE  OnlyFamilyStopped'
  BY <1>9, Sending DEF SignalDescendant
<1>10. CASE Done
  BY <1>10 DEF Done
<1>11. CASE exit_if_pid_has_finished
  BY <1>11 DEF exit_if_pid_has_finished
<1>12. CASE UNCHANGED vars
  BY <1>12 DEF vars
<1> QED
  BY <1>1, <1>2, <1>3, <1>4, <1>5, <1>6, <1>7, <1>8, <1>9, <1>10, <1>11, <1>12
     DEF Next, Kernel, Program

LEMMA StepScan == TreeInv /\ ScanIsCurrent /\ [Next]_vars => ScanIsCurrent'
<1> SUFFICES ASSUME TreeInv /\ ScanIsCurrent, [Next]_vars PROVE ScanIsCurrent'
  OBVIOUS
<1> USE DEF TreeInv, TypeOK, ParentsLive, ScanIsCurrent, Exists,
            kernelVars, programVars, scanVars
<1>1. ASSUME NEW p \in Pids, NEW child \in Pids, Fork(p, child)
      PROVE  ScanIsCurrent'
  BY <1>1 DEF Fork
<1>2. ASSUME NEW p \in Pids, End(p)
      PROVE  ScanIsCurrent'
  BY <1>2 DEF End
<1>3. ASSUME NEW p \in Pids, Reap(p)
      PROVE  ScanIsCurrent'
  BY <1>3 DEF Reap
<1>4. CASE pause_command_recursively
  BY <1>4, Sending DEF pause_command_recursively
<1>5. CASE resume_command_recursively
  BY <1>5, Sending DEF resume_command_recursively
<1>6. CASE OpenProc
  BY <1>6 DEF OpenProc
<1>7. ASSUME NEW p \in Pids, read_parent_process_id(p)
      PROVE  ScanIsCurrent'
  BY <1>7 DEF read_parent_process_id
<1>8. CASE get_child_processes
  BY <1>8 DEF get_child_processes
<1>9. ASSUME NEW p \in Pids, SignalDescendant(p)
      PROVE  ScanIsCurrent'
  BY <1>9, Sending DEF SignalDescendant
<1>10. CASE Done
  BY <1>10 DEF Done
<1>11. CASE exit_if_pid_has_finished
  BY <1>11 DEF exit_if_pid_has_finished
<1>12. CASE UNCHANGED vars
  BY <1>12 DEF vars
<1> QED
  BY <1>1, <1>2, <1>3, <1>4, <1>5, <1>6, <1>7, <1>8, <1>9, <1>10, <1>11, <1>12
     DEF Next, Kernel, Program

LEMMA StepFlag == TypeOK /\ FlagIsOperation /\ [Next]_vars => FlagIsOperation'
<1> SUFFICES ASSUME TypeOK /\ FlagIsOperation, [Next]_vars PROVE FlagIsOperation'
  OBVIOUS
<1> USE DEF TypeOK, FlagIsOperation,
            kernelVars, programVars, scanVars
<1>1. ASSUME NEW p \in Pids, NEW child \in Pids, Fork(p, child)
      PROVE  FlagIsOperation'
  BY <1>1 DEF Fork
<1>2. ASSUME NEW p \in Pids, End(p)
      PROVE  FlagIsOperation'
  BY <1>2 DEF End
<1>3. ASSUME NEW p \in Pids, Reap(p)
      PROVE  FlagIsOperation'
  BY <1>3 DEF Reap
<1>4. CASE pause_command_recursively
  BY <1>4, Sending DEF pause_command_recursively
<1>5. CASE resume_command_recursively
  BY <1>5, Sending DEF resume_command_recursively
<1>6. CASE OpenProc
  BY <1>6 DEF OpenProc
<1>7. ASSUME NEW p \in Pids, read_parent_process_id(p)
      PROVE  FlagIsOperation'
  BY <1>7 DEF read_parent_process_id
<1>8. CASE get_child_processes
  BY <1>8 DEF get_child_processes
<1>9. ASSUME NEW p \in Pids, SignalDescendant(p)
      PROVE  FlagIsOperation'
  BY <1>9, Sending DEF SignalDescendant
<1>10. CASE Done
  BY <1>10 DEF Done
<1>11. CASE exit_if_pid_has_finished
  BY <1>11 DEF exit_if_pid_has_finished
<1>12. CASE UNCHANGED vars
  BY <1>12 DEF vars
<1> QED
  BY <1>1, <1>2, <1>3, <1>4, <1>5, <1>6, <1>7, <1>8, <1>9, <1>10, <1>11, <1>12
     DEF Next, Kernel, Program

LEMMA StepPauseCovers == IInv /\ [Next]_vars => PauseCovers'
<1> SUFFICES ASSUME IInv, [Next]_vars PROVE PauseCovers'
  OBVIOUS
<1> USE DEF IInv, TreeInv, TypeOK, RootIsBorn, FlagIsOperation, PauseCovers,
            kernelVars, programVars, scanVars
<1>1. ASSUME NEW p \in Pids, NEW child \in Pids, Fork(p, child)
      PROVE  PauseCovers'
  <2>1. Descendants(parent') \subseteq Descendants(parent) \cup {child}
    BY <1>1, ForkAddsChild
  <2>2. /\ \A q \in Pids : q # child => status'[q] = status[q]
        /\ status'[child] = "running" /\ child # Root
        /\ newborn' = newborn \cup {child} /\ targets' = targets
        /\ step' = step /\ operation' = operation
    BY <1>1 DEF Fork
  <2>3. Descendants(parent) \subseteq Pids /\ newborn \subseteq Pids
    BY DescendantsArePids
  <2> HIDE DEF TypeOK
  <2> QED
    BY <2>1, <2>2, <2>3
<1>2. ASSUME NEW p \in Pids, End(p)
      PROVE  PauseCovers'
  <2>1. Descendants(parent') \subseteq Descendants(parent)
    BY <1>2, EndAddsNone
  <2>2. \A q \in Pids : status'[q] # "zombie" => status'[q] = status[q]
    BY <1>2 DEF End
  <2>3. Descendants(parent) \subseteq Pids
    BY DescendantsArePids
  <2> QED
    BY <1>2, <2>1, <2>2, <2>3 DEF End
<1>3. ASSUME NEW p \in Pids, Reap(p)
      PROVE  PauseCovers'
  <2>1. \A q \in Pids : status'[q] # "gone" => status'[q] = status[q]
    BY <1>3 DEF Reap
  <2>2. Descendants(parent) \subseteq Pids
    BY DescendantsArePids
  <2> QED
    BY <1>3, <2>1, <2>2 DEF Reap
<1>4. CASE pause_command_recursively
  BY <1>4, Sending DEF pause_command_recursively
<1>5. CASE resume_command_recursively
  BY <1>5, Sending DEF resume_command_recursively
<1>6. CASE OpenProc
  BY <1>6 DEF OpenProc
<1>7. ASSUME NEW p \in Pids, read_parent_process_id(p)
      PROVE  PauseCovers'
  BY <1>7 DEF read_parent_process_id
<1>8. CASE get_child_processes
  <2>1. \A p \in Descendants(parent) :
           p \in newborn \/ ~Exists(p) \/ p \in Descendants(all_processes)
    BY <1>8, ScanFindsTheOld DEF get_child_processes
  <2>2. \A p \in Descendants(parent) :
           status[p] = "running" => p \in newborn \/ p \in targets'
    BY <1>8, <2>1 DEF get_child_processes, Exists
  <2> QED
    BY <1>8, <2>2 DEF get_child_processes
<1>9. ASSUME NEW p \in Pids, SignalDescendant(p)
      PROVE  PauseCovers'
  <2>1. /\ \A q \in Pids : q # p => status'[q] = status[q]
        /\ \/ step' = "exited" /\ status' = status
           \/ /\ step' = "signal"
              /\ operation' = "pause" => status'[p] # "running"
              /\ operation' = "resume" => status'[p] # "stopped"
    BY <1>9, Sending DEF SignalDescendant
  <2>2. Descendants(parent) \subseteq Pids /\ newborn \subseteq Pids
    BY DescendantsArePids
  <2>3. /\ p \in targets /\ targets' = targets \ {p} /\ step = "signal"
        /\ parent' = parent /\ newborn' = newborn /\ operation' = operation
    BY <1>9 DEF SignalDescendant
  <2>4. operation \in {"pause", "resume"}
    OBVIOUS
  <2> HIDE DEF TypeOK
  <2> QED
    BY <2>1, <2>2, <2>3, <2>4
<1>10. CASE Done
  BY <1>10 DEF Done
<1>11. CASE exit_if_pid_has_finished
  <2>1. \A q \in Pids : status'[q] # "gone" => status'[q] = status[q]
    BY <1>11 DEF exit_if_pid_has_finished
  <2>2. Descendants(parent) \subseteq Pids
    BY DescendantsArePids
  <2>3. /\ step = "idle" /\ step' \in {"idle", "exited"}
        /\ parent' = parent /\ newborn' = newborn /\ targets' = targets
        /\ operation' = operation
    BY <1>11 DEF exit_if_pid_has_finished
  <2>4. newborn \subseteq Pids
    OBVIOUS
  <2> HIDE DEF TypeOK
  <2> QED
    BY <2>1, <2>2, <2>3, <2>4
<1>12. CASE UNCHANGED vars
  BY <1>12 DEF vars
<1> QED
  BY <1>1, <1>2, <1>3, <1>4, <1>5, <1>6, <1>7, <1>8, <1>9, <1>10, <1>11, <1>12
     DEF Next, Kernel, Program

LEMMA StepResumeCovers == IInv /\ [Next]_vars => ResumeCovers'
<1> SUFFICES ASSUME IInv, [Next]_vars PROVE ResumeCovers'
  OBVIOUS
<1> USE DEF IInv, TreeInv, TypeOK, RootIsBorn, FlagIsOperation, ResumeCovers,
            kernelVars, programVars, scanVars
<1>1. ASSUME NEW p \in Pids, NEW child \in Pids, Fork(p, child)
      PROVE  ResumeCovers'
  <2>1. Descendants(parent') \subseteq Descendants(parent) \cup {child}
    BY <1>1, ForkAddsChild
  <2>2. /\ \A q \in Pids : q # child => status'[q] = status[q]
        /\ status'[child] = "running" /\ child # Root
        /\ newborn' = newborn \cup {child} /\ targets' = targets
        /\ step' = step /\ operation' = operation
    BY <1>1 DEF Fork
  <2>3. Descendants(parent) \subseteq Pids /\ newborn \subseteq Pids
    BY DescendantsArePids
  <2> HIDE DEF TypeOK
  <2> QED
    BY <2>1, <2>2, <2>3
<1>2. ASSUME NEW p \in Pids, End(p)
      PROVE  ResumeCovers'
  <2>1. Descendants(parent') \subseteq Descendants(parent)
    BY <1>2, EndAddsNone
  <2>2. \A q \in Pids : status'[q] # "zombie" => status'[q] = status[q]
    BY <1>2 DEF End
  <2>3. Descendants(parent) \subseteq Pids
    BY DescendantsArePids
  <2> QED
    BY <1>2, <2>1, <2>2, <2>3 DEF End
<1>3. ASSUME NEW p \in Pids, Reap(p)
      PROVE  ResumeCovers'
  <2>1. \A q \in Pids : status'[q] # "gone" => status'[q] = status[q]
    BY <1>3 DEF Reap
  <2>2. Descendants(parent) \subseteq Pids
    BY DescendantsArePids
  <2> QED
    BY <1>3, <2>1, <2>2 DEF Reap
<1>4. CASE pause_command_recursively
  BY <1>4, Sending DEF pause_command_recursively
<1>5. CASE resume_command_recursively
  BY <1>5, Sending DEF resume_command_recursively
<1>6. CASE OpenProc
  BY <1>6 DEF OpenProc
<1>7. ASSUME NEW p \in Pids, read_parent_process_id(p)
      PROVE  ResumeCovers'
  BY <1>7 DEF read_parent_process_id
<1>8. CASE get_child_processes
  <2>1. \A p \in Descendants(parent) :
           p \in newborn \/ ~Exists(p) \/ p \in Descendants(all_processes)
    BY <1>8, ScanFindsTheOld DEF get_child_processes
  <2>2. \A p \in Descendants(parent) :
           status[p] = "stopped" => p \in newborn \/ p \in targets'
    BY <1>8, <2>1 DEF get_child_processes, Exists
  <2> QED
    BY <1>8, <2>2 DEF get_child_processes
<1>9. ASSUME NEW p \in Pids, SignalDescendant(p)
      PROVE  ResumeCovers'
  <2>1. /\ \A q \in Pids : q # p => status'[q] = status[q]
        /\ \/ step' = "exited" /\ status' = status
           \/ /\ step' = "signal"
              /\ operation' = "pause" => status'[p] # "running"
              /\ operation' = "resume" => status'[p] # "stopped"
    BY <1>9, Sending DEF SignalDescendant
  <2>2. Descendants(parent) \subseteq Pids /\ newborn \subseteq Pids
    BY DescendantsArePids
  <2>3. /\ p \in targets /\ targets' = targets \ {p} /\ step = "signal"
        /\ parent' = parent /\ newborn' = newborn /\ operation' = operation
    BY <1>9 DEF SignalDescendant
  <2>4. operation \in {"pause", "resume"}
    OBVIOUS
  <2> HIDE DEF TypeOK
  <2> QED
    BY <2>1, <2>2, <2>3, <2>4
<1>10. CASE Done
  BY <1>10 DEF Done
<1>11. CASE exit_if_pid_has_finished
  <2>1. \A q \in Pids : status'[q] # "gone" => status'[q] = status[q]
    BY <1>11 DEF exit_if_pid_has_finished
  <2>2. Descendants(parent) \subseteq Pids
    BY DescendantsArePids
  <2>3. /\ step = "idle" /\ step' \in {"idle", "exited"}
        /\ parent' = parent /\ newborn' = newborn /\ targets' = targets
        /\ operation' = operation
    BY <1>11 DEF exit_if_pid_has_finished
  <2>4. newborn \subseteq Pids
    OBVIOUS
  <2> HIDE DEF TypeOK
  <2> QED
    BY <2>1, <2>2, <2>3, <2>4
<1>12. CASE UNCHANGED vars
  BY <1>12 DEF vars
<1> QED
  BY <1>1, <1>2, <1>3, <1>4, <1>5, <1>6, <1>7, <1>8, <1>9, <1>10, <1>11, <1>12
     DEF Next, Kernel, Program

-----------------------------------------------------------------------------
LEMMA InitIInv == Init => IInv
<1> SUFFICES ASSUME Init PROVE IInv
  OBVIOUS
<1> USE DEF Init
<1>1. TypeOK
  BY DEF TypeOK
<1>2. ParentsLive /\ RootIsBorn /\ NewbornIsClosed
  BY DEF ParentsLive, RootIsBorn, NewbornIsClosed
<1>3. FamilyIsClosed /\ OnlyFamilyStopped
  BY DEF FamilyIsClosed, OnlyFamilyStopped
<1>4. ScanIsCurrent /\ FlagIsOperation /\ PauseCovers
  BY DEF ScanIsCurrent, FlagIsOperation, PauseCovers
<1>5. ResumeCovers
  <2>1. \A p \in Pids : status[p] # "stopped"
    OBVIOUS
  <2> QED
    BY <2>1, DescendantsArePids DEF ResumeCovers
<1> QED
  BY <1>1, <1>2, <1>3, <1>4, <1>5 DEF IInv, TreeInv

LEMMA Invariance == Spec => []IInv
<1>1. Init => IInv
  BY InitIInv
<1>2. IInv /\ [Next]_vars => IInv'
  BY StepTypeOK, StepParentsLive, StepRootIsBorn, StepNewborn, StepFamily,
     StepOnlyFamily, StepScan, StepFlag, StepPauseCovers, StepResumeCovers
     DEF IInv, TreeInv
<1> QED
  BY <1>1, <1>2, PTL DEF Spec

-----------------------------------------------------------------------------
\* Every variable keeps its type, whatever the processes do.
THEOREM TypeCorrect == Spec => []TypeOK
<1>1. IInv => TypeOK
  BY DEF IInv, TreeInv
<1> QED
  BY <1>1, Invariance, PTL

\* Only the command and what it forked is ever stopped by
\* pause_command_recursively(), although /proc changes while it is read.
THEOREM StopsOnlyFamily == Spec => []OnlyFamilyStopped
<1>1. IInv => OnlyFamilyStopped
  BY DEF IInv
<1> QED
  BY <1>1, Invariance, PTL

\* What escapes a pause was forked after get_child_processes() opened /proc.
THEOREM PausesTheOld == Spec => []EscapeesAreNewborn
<1>1. IInv => EscapeesAreNewborn
  <2> SUFFICES ASSUME IInv, step = "idle", command_paused,
                      NEW p \in Descendants(parent) \cup {Root}, status[p] = "running"
               PROVE  p \in newborn
    BY DEF EscapeesAreNewborn
  <2>1. operation = "pause" /\ targets = {}
    BY DEF IInv, TreeInv, TypeOK, FlagIsOperation
  <2> QED
    BY <2>1 DEF IInv, PauseCovers
<1> QED
  BY <1>1, Invariance, PTL

\* resume_command_recursively() leaves nothing stopped that is below the
\* command when it is done.
THEOREM ResumesDescendants == Spec => []ResumeLeavesNoDescendantStopped
<1>1. IInv => ResumeLeavesNoDescendantStopped
  <2> SUFFICES ASSUME IInv, step = "idle", ~command_paused,
                      NEW p \in Descendants(parent) \cup {Root}
               PROVE  status[p] # "stopped"
    BY DEF ResumeLeavesNoDescendantStopped
  <2>1. operation # "pause" /\ operation \in {"pause", "resume"} /\ targets = {}
    BY DEF IInv, TreeInv, TypeOK, FlagIsOperation
  <2> QED
    BY <2>1 DEF IInv, ResumeCovers
<1> QED
  BY <1>1, Invariance, PTL

-----------------------------------------------------------------------------
(***************************************************************************)
(* What the source promises of pausing and resuming is wrong in general:   *)
(* PauseReachesAll and ResumeReachesAll are violated.  But each of them    *)
(* fails in one way only, which is left out here: by a fork() below the    *)
(* command between opendir() and the last signal of a pause, and by the    *)
(* end of a process whose child lives on, while there is something to be   *)
(* resumed.                                                                *)
(***************************************************************************)
NoForkIntoPause ==
  operation = "pause" /\ step \in {"scan", "signal"} =>
    \A p \in Descendants(parent) \cup {Root}, child \in Pids : ~Fork(p, child)

Alive(p) == status[p] \in {"running", "stopped"}

NoOrphansWhilePaused ==
  step # "idle" \/ command_paused =>
    \A p, c \in Pids : End(p) /\ parent[c] = p => ~Alive(c)

\* From opendir() on, nothing below the command is younger than the scan.
PauseIsComplete ==
  operation = "pause" /\ step \in {"scan", "signal", "idle"} =>
    \A p \in Descendants(parent) : p \notin newborn

UnbornAreApart ==
  \A c \in Pids : status[c] = "unborn" => parent[c] = Reaper /\ all_processes[c] \notin Pids

ReadIsTrue ==
  step \in {"scan", "signal"} =>
    \A c \in Pids : Alive(c) /\ all_processes[c] \in Pids => all_processes[c] = parent[c]

TargetsAreBelow ==
  step = "signal" =>
    \A p \in targets : status[p] # "unborn" /\ (Alive(p) => p \in Descendants(parent))

StoppedAreBelow ==
  \A p \in Pids : status[p] = "stopped" => p \in Descendants(parent) \cup {Root}

OrphansInv == UnbornAreApart /\ ReadIsTrue /\ TargetsAreBelow /\ StoppedAreBelow

-----------------------------------------------------------------------------
\* A fork outside of the command's tree adds nothing to it.
LEMMA ForkElsewhereAddsNone ==
  ASSUME TreeInv, NEW p \in Pids, NEW child \in Pids, Fork(p, child),
         p \notin Descendants(parent) \cup {Root}
  PROVE  Descendants(parent') \subseteq Descendants(parent) \ {child}
<1> DEFINE S == Descendants(parent) \ {child}
<1>1. S \in SUBSET Pids
  BY DescendantsArePids
<1>2. ASSUME NEW c \in Pids, parent'[c] \in S \cup {Root}
      PROVE  c \in S
  <2>1. parent' = [parent EXCEPT ![child] = p] /\ parent \in [Pids -> Pids \cup {Reaper}]
    BY DEF Fork, TreeInv, TypeOK
  <2>2. c # child
    BY <1>2, <2>1
  <2>3. parent[c] \in Descendants(parent) \cup {Root}
    BY <1>2, <2>1, <2>2
  <2> QED
    BY <2>2, <2>3, DescendantsClosed
<1>3. ClosedUnder(parent', S)
  BY <1>2 DEF ClosedUnder
<1> QED
  BY <1>1, <1>3, DescendantsLeast

LEMMA ForkKeepsAll ==
  ASSUME TreeInv, UnbornAreApart, NEW p \in Pids, NEW child \in Pids, Fork(p, child)
  PROVE  Descendants(parent) \subseteq Descendants(parent')
<1>1. Descendants(parent') \in SUBSET Pids
  BY DescendantsArePids
<1>2. ASSUME NEW c \in Pids, parent[c] \in Descendants(parent') \cup {Root}
      PROVE  c \in Descendants(parent')
  <2>1. parent' = [parent EXCEPT ![child] = p] /\ parent \in [Pids -> Pids \cup {Reaper}]
        /\ parent[child] = Reaper
    BY DEF Fork, TreeInv, TypeOK, UnbornAreApart
  <2>2. c # child
    BY <1>1, <1>2, <2>1
  <2>3. parent'[c] \in Descendants(parent') \cup {Root}
    BY <1>2, <2>1, <2>2
  <2> QED
    BY <2>3, DescendantsClosed
<1>3. ClosedUnder(parent, Descendants(parent'))
  BY <1>2 DEF ClosedUnder
<1> QED
  BY <1>1, <1>3, DescendantsLeast

\* The end of a process without living children takes no other out of the tree.
LEMMA EndKeepsTheLiving ==
  ASSUME TreeInv, NEW p \in Pids, End(p), \A c \in Pids : parent[c] = p => ~Alive(c)
  PROVE  \A q \in Descendants(parent) : Alive(q) => q \in Descendants(parent')
<1> DEFINE S == Descendants(parent') \cup {c \in Pids : ~Alive(c)}
<1>1. S \in SUBSET Pids
  BY DescendantsArePids
<1>2. ASSUME NEW c \in Pids, parent[c] \in S \cup {Root}
      PROVE  c \in S
  <2>1. CASE ~Alive(c)
    BY <2>1
  <2>2. CASE Alive(c)
    <3>1. parent[c] \in Pids
      BY <1>1, <1>2
    <3>2. Alive(parent[c])
      BY <3>1 DEF TreeInv, ParentsLive, Alive
    <3>3. parent[c] \in Descendants(parent') \cup {Root}
      BY <1>2, <3>2
    <3>4. parent'[c] = parent[c]
      BY <2>2 DEF End
    <3> QED
      BY <3>3, <3>4, DescendantsClosed
  <2> QED
    BY <2>1, <2>2
<1>3. Descendants(parent) \subseteq S
  <2>1. ClosedUnder(parent, S)
    BY <1>2 DEF ClosedUnder
  <2> QED
    BY <1>1, <2>1, DescendantsLeast
<1> QED
  BY <1>3

\* What was read while nobody was orphaned is below the command still.
LEMMA ScanFindsTheTrue ==
  ASSUME TreeInv, RootIsBorn, UnbornAreApart, ReadIsTrue, step = "scan"
  PROVE  \A q \in Descendants(all_processes) :
           status[q] # "unborn" /\ (Alive(q) => q \in Descendants(parent))
<1> DEFINE S == {c \in Pids : status[c] # "unborn"
                              /\ (Alive(c) => c \in Descendants(parent))}
<1>1. ASSUME NEW c \in Pids, all_processes[c] \in S \cup {Root}
      PROVE  c \in S
  <2>1. all_processes[c] \in Pids
    BY <1>1
  <2>2. status[c] # "unborn"
    BY <2>1 DEF UnbornAreApart
  <2>3. ASSUME Alive(c) PROVE c \in Descendants(parent)
    <3>1. all_processes[c] = parent[c]
      BY <2>1, <2>3 DEF ReadIsTrue
    <3>2. Alive(parent[c])
      BY <2>1, <3>1 DEF TreeInv, ParentsLive, Alive
    <3>3. parent[c] \in Descendants(parent) \cup {Root}
      BY <1>1, <3>1, <3>2
    <3> QED
      BY <3>3, DescendantsClosed
  <2> QED
    BY <2>2, <2>3
<1>2. Descendants(all_processes) \subseteq S
  <2>1. ClosedUnder(all_processes, S)
    BY <1>1 DEF ClosedUnder
  <2> QED
    BY <2>1, DescendantsLeast
<1> QED
  BY <1>2

-----------------------------------------------------------------------------
(* A pause during which nothing is forked below the command. *)

LEMMA StepPauseIsComplete ==
  IInv /\ PauseIsComplete /\ [Next /\ NoForkIntoPause]_vars => PauseIsComplete'
<1> SUFFICES ASSUME IInv, PauseIsComplete, [Next /\ NoForkIntoPause]_vars
             PROVE  PauseIsComplete'
  OBVIOUS
<1> USE DEF PauseIsComplete
<1>1. ASSUME NEW p \in Pids, NEW child \in Pids, Fork(p, child), NoForkIntoPause
      PROVE  PauseIsComplete'
  <2> SUFFICES ASSUME operation = "pause", step \in {"scan", "signal", "idle"}
               PROVE  \A q \in Descendants(parent') : q \notin newborn'
    BY <1>1 DEF Fork, programVars
  <2>1. p \notin Descendants(parent) \cup {Root}
    <3>1. CASE step \in {"scan", "signal"}
      BY <1>1, <3>1 DEF NoForkIntoPause
    <3>2. CASE step = "idle"
      BY <1>1, <3>2 DEF Fork, IInv, FlagIsOperation, PauseCovers
    <3> QED
      BY <3>1, <3>2
  <2>2. Descendants(parent') \subseteq Descendants(parent) \ {child}
    BY <1>1, <2>1, ForkElsewhereAddsNone DEF IInv
  <2>3. newborn' = newborn \cup {child}
    BY <1>1 DEF Fork
  <2> QED
    BY <2>2, <2>3
<1>2. ASSUME NEW p \in Pids, End(p)
      PROVE  PauseIsComplete'
  <2>1. Descendants(parent') \subseteq Descendants(parent)
    BY <1>2, EndAddsNone DEF IInv
  <2> QED
    BY <1>2, <2>1 DEF End, programVars
<1>3. ASSUME NEW p \in Pids, Reap(p)
      PROVE  PauseIsComplete'
  BY <1>3 DEF Reap, programVars
<1>4. CASE pause_command_recursively
  BY <1>4 DEF pause_command_recursively, send_signal_to_pid
<1>5. CASE resume_command_recursively
  BY <1>5 DEF resume_command_recursively
<1>6. CASE OpenProc
  BY <1>6 DEF OpenProc
<1>7. ASSUME NEW p \in Pids, read_parent_process_id(p)
      PROVE  PauseIsComplete'
  BY <1>7 DEF read_parent_process_id, kernelVars, programVars
<1>8. CASE get_child_processes
  BY <1>8 DEF get_child_processes, kernelVars
<1>9. ASSUME NEW p \in Pids, SignalDescendant(p)
      PROVE  PauseIsComplete'
  BY <1>9 DEF SignalDescendant
<1>10. CASE Done
  BY <1>10 DEF Done, kernelVars
<1>11. CASE exit_if_pid_has_finished
  BY <1>11 DEF exit_if_pid_has_finished
<1>12. CASE UNCHANGED vars
  BY <1>12 DEF vars, kernelVars, programVars
<1> QED
  BY <1>1, <1>2, <1>3, <1>4, <1>5, <1>6, <1>7, <1>8, <1>9, <1>10, <1>11, <1>12
     DEF Next, Kernel, Program

\* "Pauses a specified process and all child processes", if nothing below the
\* command is forked from the time get_child_processes() opens /proc until the
\* last descendant is signalled: the race is with that window only, and neither
\* with forks before it nor with ends and reaping at any time.
THEOREM PausesAll == Spec /\ [][NoForkIntoPause]_vars => []PauseReachesAll
<1>1. Init => PauseIsComplete
  BY DEF Init, PauseIsComplete
<1>2. IInv /\ PauseIsComplete => PauseReachesAll
  <2> SUFFICES ASSUME IInv, PauseIsComplete, step = "idle", command_paused,
                      NEW p \in Descendants(parent), status[p] = "running"
               PROVE  FALSE
    BY DEF PauseReachesAll
  <2>1. operation = "pause" /\ targets = {}
    BY DEF IInv, TreeInv, TypeOK, FlagIsOperation
  <2> QED
    BY <2>1 DEF IInv, PauseCovers, PauseIsComplete
<1>3. [Next]_vars /\ [NoForkIntoPause]_vars => [Next /\ NoForkIntoPause]_vars
  OBVIOUS
<1> QED
  BY <1>1, <1>2, <1>3, StepPauseIsComplete, Invariance, PTL DEF Spec

-----------------------------------------------------------------------------
(* A pause during which no process loses its parent. *)

LEMMA StepUnborn == TypeOK /\ UnbornAreApart /\ [Next]_vars => UnbornAreApart'
<1> SUFFICES ASSUME TypeOK, UnbornAreApart, [Next]_vars PROVE UnbornAreApart'
  OBVIOUS
<1> USE DEF TypeOK, UnbornAreApart,
            kernelVars, programVars, scanVars
<1>1. ASSUME NEW p \in Pids, NEW child \in Pids, Fork(p, child)
      PROVE  UnbornAreApart'
  BY <1>1 DEF Fork
<1>2. ASSUME NEW p \in Pids, End(p)
      PROVE  UnbornAreApart'
  BY <1>2 DEF End
<1>3. ASSUME NEW p \in Pids, Reap(p)
      PROVE  UnbornAreApart'
  BY <1>3 DEF Reap
<1>4. CASE pause_command_recursively
  <2>1. \A q \in Pids : status'[q] = "unborn" => status[q] = "unborn"
    BY <1>4, Sending DEF pause_command_recursively
  <2> QED
    BY <1>4, <2>1 DEF pause_command_recursively
<1>5. CASE resume_command_recursively
  <2>1. \A q \in Pids : status'[q] = "unborn" => status[q] = "unborn"
    BY <1>5, Sending DEF resume_command_recursively
  <2> QED
    BY <1>5, <2>1 DEF resume_command_recursively
<1>6. CASE OpenProc
  BY <1>6 DEF OpenProc
<1>7. ASSUME NEW p \in Pids, read_parent_process_id(p)
      PROVE  UnbornAreApart'
  BY <1>7 DEF read_parent_process_id, Exists
<1>8. CASE get_child_processes
  BY <1>8 DEF get_child_processes
<1>9. ASSUME NEW p \in Pids, SignalDescendant(p)
      PROVE  UnbornAreApart'
  <2>1. \A q \in Pids : status'[q] = "unborn" => status[q] = "unborn"
    BY <1>9, Sending DEF SignalDescendant
  <2> QED
    BY <1>9, <2>1 DEF SignalDescendant
<1>10. CASE Done
  BY <1>10 DEF Done
<1>11. CASE exit_if_pid_has_finished
  BY <1>11 DEF exit_if_pid_has_finished
<1>12. CASE UNCHANGED vars
  BY <1>12 DEF vars
<1> QED
  BY <1>1, <1>2, <1>3, <1>4, <1>5, <1>6, <1>7, <1>8, <1>9, <1>10, <1>11, <1>12
     DEF Next, Kernel, Program

LEMMA StepReadIsTrue ==
  IInv /\ OrphansInv /\ [Next /\ NoOrphansWhilePaused]_vars => ReadIsTrue'
<1> SUFFICES ASSUME IInv, OrphansInv, [Next /\ NoOrphansWhilePaused]_vars PROVE ReadIsTrue'
  OBVIOUS
<1> USE DEF IInv, TreeInv, TypeOK, OrphansInv, ReadIsTrue, Alive,
            kernelVars, programVars, scanVars
<1>1. ASSUME NEW p \in Pids, NEW child \in Pids, Fork(p, child)
      PROVE  ReadIsTrue'
  <2>1. all_processes[child] \notin Pids
    BY <1>1 DEF Fork, UnbornAreApart
  <2>2. /\ \A q \in Pids : q # child => status'[q] = status[q] /\ parent'[q] = parent[q]
        /\ all_processes' = all_processes /\ step' = step
    BY <1>1 DEF Fork
  <2> HIDE DEF TypeOK
  <2> QED
    BY <2>1, <2>2
<1>2. ASSUME NEW p \in Pids, End(p), NoOrphansWhilePaused
      PROVE  ReadIsTrue'
  <2> SUFFICES ASSUME step \in {"scan", "signal"},
                      NEW c \in Pids, Alive(c)', all_processes[c] \in Pids
               PROVE  all_processes[c] = parent'[c]
    BY <1>2 DEF End
  <2>1. c # p /\ status'[c] = status[c]
    BY <1>2 DEF End
  <2>2. parent'[c] = parent[c]
    BY <1>2, <2>1 DEF End, NoOrphansWhilePaused
  <2> QED
    BY <2>1, <2>2
<1>3. ASSUME NEW p \in Pids, Reap(p)
      PROVE  ReadIsTrue'
  BY <1>3 DEF Reap
<1>4. CASE pause_command_recursively
  BY <1>4 DEF pause_command_recursively, send_signal_to_pid
<1>5. CASE resume_command_recursively
  BY <1>5 DEF resume_command_recursively, send_signal_to_pid
<1>6. CASE OpenProc
  BY <1>6 DEF OpenProc
<1>7. ASSUME NEW p \in Pids, read_parent_process_id(p)
      PROVE  ReadIsTrue'
  BY <1>7 DEF read_parent_process_id
<1>8. CASE get_child_processes
  BY <1>8 DEF get_child_processes
<1>9. ASSUME NEW p \in Pids, SignalDescendant(p)
      PROVE  ReadIsTrue'
  <2>1. \A q \in Pids : Alive(q)' => Alive(q)
    BY <1>9, Sending DEF SignalDescendant
  <2>2. step = "signal" /\ parent' = parent /\ all_processes' = all_processes
    BY <1>9 DEF SignalDescendant
  <2> QED
    BY <2>1, <2>2
<1>10. CASE Done
  BY <1>10 DEF Done
<1>11. CASE exit_if_pid_has_finished
  BY <1>11 DEF exit_if_pid_has_finished
<1>12. CASE UNCHANGED vars
  BY <1>12 DEF vars
<1> QED
  BY <1>1, <1>2, <1>3, <1>4, <1>5, <1>6, <1>7, <1>8, <1>9, <1>10, <1>11, <1>12
     DEF Next, Kernel, Program

LEMMA StepTargetsAreBelow ==
  IInv /\ OrphansInv /\ [Next /\ NoOrphansWhilePaused]_vars => TargetsAreBelow'
<1> SUFFICES ASSUME IInv, OrphansInv, [Next /\ NoOrphansWhilePaused]_vars
             PROVE  TargetsAreBelow'
  OBVIOUS
<1> USE DEF IInv, TreeInv, TypeOK, OrphansInv, TargetsAreBelow, Alive,
            kernelVars, programVars, scanVars
<1>1. ASSUME NEW p \in Pids, NEW child \in Pids, Fork(p, child)
      PROVE  TargetsAreBelow'
  <2>1. Descendants(parent) \subseteq Descendants(parent')
    BY <1>1, ForkKeepsAll
  <2>2. /\ \A q \in Pids : q # child => status'[q] = status[q]
        /\ status[child] = "unborn" /\ status'[child] = "running"
        /\ targets' = targets /\ step' = step
    BY <1>1 DEF Fork
  <2> HIDE DEF TypeOK
  <2> QED
    BY <2>1, <2>2 DEF TypeOK
<1>2. ASSUME NEW p \in Pids, End(p), NoOrphansWhilePaused
      PROVE  TargetsAreBelow'
  <2> SUFFICES ASSUME step = "signal", NEW q \in targets
               PROVE  status'[q] # "unborn" /\ (Alive(q)' => q \in Descendants(parent'))
    BY <1>2 DEF End
  <2>1. \A c \in Pids : parent[c] = p => ~Alive(c)
    BY <1>2 DEF NoOrphansWhilePaused
  <2>2. \A d \in Descendants(parent) : Alive(d) => d \in Descendants(parent')
    BY <1>2, <2>1, EndKeepsTheLiving
  <2>3. status'[q] # "unborn" /\ (Alive(q)' => Alive(q))
    BY <1>2 DEF End
  <2> QED
    BY <2>2, <2>3
<1>3. ASSUME NEW p \in Pids, Reap(p)
      PROVE  TargetsAreBelow'
  BY <1>3 DEF Reap
<1>4. CASE pause_command_recursively
  BY <1>4 DEF pause_command_recursively, send_signal_to_pid
<1>5. CASE resume_command_recursively
  BY <1>5 DEF resume_command_recursively, send_signal_to_pid
<1>6. CASE OpenProc
  BY <1>6 DEF OpenProc
<1>7. ASSUME NEW p \in Pids, read_parent_process_id(p)
      PROVE  TargetsAreBelow'
  BY <1>7 DEF read_parent_process_id
<1>8. CASE get_child_processes
  <2>1. \A q \in Descendants(all_processes) :
          status[q] # "unborn" /\ (Alive(q) => q \in Descendants(parent))
    BY <1>8, ScanFindsTheTrue DEF get_child_processes
  <2> QED
    BY <1>8, <2>1 DEF get_child_processes
<1>9. ASSUME NEW p \in Pids, SignalDescendant(p)
      PROVE  TargetsAreBelow'
  <2>1. \A q \in Pids : /\ Alive(q)' => Alive(q)
                        /\ status'[q] = "unborn" => status[q] = "unborn"
    BY <1>9, Sending DEF SignalDescendant
  <2>2. step = "signal" /\ parent' = parent /\ targets' \subseteq targets
    BY <1>9 DEF SignalDescendant
  <2> QED
    BY <2>1, <2>2
<1>10. CASE Done
  BY <1>10 DEF Done
<1>11. CASE exit_if_pid_has_finished
  BY <1>11 DEF exit_if_pid_has_finished
<1>12. CASE UNCHANGED vars
  BY <1>12 DEF vars
<1> QED
  BY <1>1, <1>2, <1>3, <1>4, <1>5, <1>6, <1>7, <1>8, <1>9, <1>10, <1>11, <1>12
     DEF Next, Kernel, Program

\* Between a resume and the next pause the invariant leaves nothing stopped.
LEMMA ResumedInFull == IInv /\ StoppedAreBelow => ResumeReachesAll
<1> SUFFICES ASSUME IInv, StoppedAreBelow, step = "idle", ~command_paused,
                    NEW p \in Pids, status[p] = "stopped"
             PROVE  FALSE
  BY DEF ResumeReachesAll
<1>1. operation = "resume" /\ targets = {}
  BY DEF IInv, TreeInv, TypeOK, FlagIsOperation
<1>2. p \in Descendants(parent) \cup {Root}
  BY DEF StoppedAreBelow
<1> QED
  BY <1>1, <1>2 DEF IInv, ResumeCovers

LEMMA StepStoppedAreBelow ==
  IInv /\ OrphansInv /\ [Next /\ NoOrphansWhilePaused]_vars => StoppedAreBelow'
<1> SUFFICES ASSUME IInv, OrphansInv, [Next /\ NoOrphansWhilePaused]_vars
             PROVE  StoppedAreBelow'
  OBVIOUS
<1> USE DEF IInv, TreeInv, TypeOK, OrphansInv, StoppedAreBelow,
            kernelVars, programVars, scanVars
<1>1. ASSUME NEW p \in Pids, NEW child \in Pids, Fork(p, child)
      PROVE  StoppedAreBelow'
  <2>1. Descendants(parent) \subseteq Descendants(parent')
    BY <1>1, ForkKeepsAll
  <2>2. \A q \in Pids : status'[q] = "stopped" => status[q] = "stopped"
    BY <1>1 DEF Fork
  <2> QED
    BY <2>1, <2>2
<1>2. ASSUME NEW p \in Pids, End(p), NoOrphansWhilePaused
      PROVE  StoppedAreBelow'
  <2> SUFFICES ASSUME NEW q \in Pids, status'[q] = "stopped"
               PROVE  q \in Descendants(parent') \cup {Root}
    OBVIOUS
  <2>1. status[q] = "stopped"
    BY <1>2 DEF End
  <2>2. step # "idle" \/ command_paused
    BY <2>1, ResumedInFull DEF ResumeReachesAll
  <2>3. \A c \in Pids : parent[c] = p => ~Alive(c)
    BY <1>2, <2>2 DEF NoOrphansWhilePaused
  <2>4. \A d \in Descendants(parent) : Alive(d) => d \in Descendants(parent')
    BY <1>2, <2>3, EndKeepsTheLiving
  <2> QED
    BY <2>1, <2>4 DEF Alive
<1>3. ASSUME NEW p \in Pids, Reap(p)
      PROVE  StoppedAreBelow'
  BY <1>3 DEF Reap
<1>4. CASE pause_command_recursively
  <2>1. /\ \A q \in Pids : q # Root => status'[q] = status[q]
        /\ parent' = parent
    BY <1>4, Sending DEF pause_command_recursively
  <2> QED
    BY <2>1
<1>5. CASE resume_command_recursively
  <2>1. /\ \A q \in Pids : q # Root => status'[q] = status[q]
        /\ parent' = parent
    BY <1>5, Sending DEF resume_command_recursively
  <2> QED
    BY <2>1
<1>6. CASE OpenProc
  BY <1>6 DEF OpenProc
<1>7. ASSUME NEW p \in Pids, read_parent_process_id(p)
      PROVE  StoppedAreBelow'
  BY <1>7 DEF read_parent_process_id
<1>8. CASE get_child_processes
  BY <1>8 DEF get_child_processes
<1>9. ASSUME NEW p \in Pids, SignalDescendant(p)
      PROVE  StoppedAreBelow'
  <2>1. /\ \A q \in Pids : q # p => status'[q] = status[q]
        /\ status'[p] # status[p] => Alive(p)
    BY <1>9, Sending DEF SignalDescendant, Alive
  <2>2. step = "signal" /\ parent' = parent /\ p \in targets
    BY <1>9 DEF SignalDescendant
  <2> QED
    BY <2>1, <2>2 DEF TargetsAreBelow
<1>10. CASE Done
  BY <1>10 DEF Done
<1>11. CASE exit_if_pid_has_finished
  BY <1>11 DEF exit_if_pid_has_finished
<1>12. CASE UNCHANGED vars
  BY <1>12 DEF vars
<1> QED
  BY <1>1, <1>2, <1>3, <1>4, <1>5, <1>6, <1>7, <1>8, <1>9, <1>10, <1>11, <1>12
     DEF Next, Kernel, Program

\* "Resumes a specified process and all child processes", if no process whose
\* child is still alive ends while the command is paused or being paused or
\* resumed.  Forks, ends of processes without children and reaping do no harm,
\* and neither do orphans that were left before the pause.
THEOREM ResumesAll == Spec /\ [][NoOrphansWhilePaused]_vars => []ResumeReachesAll
<1>1. Init => OrphansInv
  <2> SUFFICES ASSUME Init PROVE OrphansInv
    OBVIOUS
  <2>1. \A p \in Pids : status[p] # "stopped"
    BY DEF Init
  <2> QED
    BY <2>1 DEF Init, OrphansInv, UnbornAreApart, ReadIsTrue, TargetsAreBelow, StoppedAreBelow
<1>2. IInv /\ OrphansInv /\ [Next /\ NoOrphansWhilePaused]_vars => OrphansInv'
  <2> SUFFICES ASSUME IInv, OrphansInv, [Next /\ NoOrphansWhilePaused]_vars PROVE OrphansInv'
    OBVIOUS
  <2>1. TypeOK /\ UnbornAreApart /\ [Next]_vars
    BY DEF IInv, TreeInv, OrphansInv
  <2> QED
    BY <2>1, StepUnborn, StepReadIsTrue, StepTargetsAreBelow, StepStoppedAreBelow DEF OrphansInv
<1>3. [Next]_vars /\ [NoOrphansWhilePaused]_vars => [Next /\ NoOrphansWhilePaused]_vars
  OBVIOUS
<1>4. IInv /\ OrphansInv => ResumeReachesAll
  BY ResumedInFull DEF OrphansInv
<1> QED
  BY <1>1, <1>2, <1>3, <1>4, Invariance, PTL DEF Spec
=============================================================================
