--------------------------- MODULE ProcessListing ---------------------------
(***************************************************************************)
(* get_child_processes() of process_handling.c as a whole: stage 1 reads   *)
(* the parent of every process from the text of /proc/<pid>/stat into an   *)
(* array that grows, while processes end; stage 2 is DescendantScan.       *)
(*                                                                         *)
(* A text is a sequence of characters, a character a string of length 1.   *)
(***************************************************************************)
EXTENDS DescendantScan
Sets == INSTANCE FiniteSetsExt

CONSTANTS
  InitProcess,             \* adopts orphans; its own parent is 0
  Self,                    \* runwhenidle
  Families,                \* the parents that the processes may have at first
  Comms,                   \* the names that they may have
  MaxPidLength,            \* 7, the length of 4194304
  MaxCommLength,           \* 64
  InitiallyAllocated,      \* NUMBER_OF_PROCESSES_INITIALLY_ALLOCATED
  MaxEnds                  \* bounds how many processes end

\* S has everything below the command, and not what is above it or beside it.
IsBelow(S, relation) ==
  /\ S \in SUBSET (Pids \ {InitProcess, Root, Self})
  /\ \A e \in relation : e.parent_process_id \in S \cup {Root} => e.process_id \in S

digits == <<"0", "1", "2", "3", "4", "5", "6", "7", "8", "9">>
Digits == {digits[k] : k \in DOMAIN digits}
ValueOf == [d \in Digits |-> (CHOOSE k \in DOMAIN digits : digits[k] = d) - 1]

\* A number as the kernel writes it, and as strtol() reads it.
decimal[n \in Nat] ==
  IF n < 10 THEN <<digits[n + 1]>> ELSE Append(decimal[n \div 10], digits[(n % 10) + 1])

strtol[text \in Seq(Digits)] ==
  IF text = <<>> THEN 0
  ELSE LET k == Len(text) IN 10 * strtol[SubSeq(text, 1, k - 1)] + ValueOf[text[k]]

RelationOf(f) == {[process_id |-> p, parent_process_id |-> f[p]] : p \in Pids}

\* runwhenidle does not run below the command, nor as a process without a parent.
ASSUME ListingAssumption ==
  /\ {InitProcess, Root, Self} \subseteq Pids /\ Pids \subseteq Nat \ {0}
  /\ InitProcess # Root /\ Self \notin {InitProcess, Root}
  /\ \A f \in Families :
       /\ f \in [Pids -> Pids \cup {0}] /\ f[Self] # 0
       /\ \E S \in SUBSET Pids : IsBelow(S, RelationOf(f))
  /\ InitiallyAllocated \in Nat \ {0} /\ MaxEnds \in Nat

\* No PID and no name is longer than the program reckons with.
ASSUME TextAssumption ==
  /\ MaxPidLength \in Nat /\ \A p \in Pids : Len(decimal[p]) <= MaxPidLength
  /\ MaxCommLength \in Nat
  /\ \A c \in Comms : \A p \in Pids : c[p] \in Seq(STRING) /\ Len(c[p]) <= MaxCommLength

VARIABLES
  alive, parent, comm,   \* the kernel's process table
  unread,                \* what readdir() has yet to return
  processes_allocated,
  stage,                 \* "list", "scan", or "failed": exit(1)
  truth,                 \* for the properties: what the kernel knew when it was read
  ends

listVars == <<alive, parent, comm, unread, processes_allocated, stage, truth, ends>>
allVars == <<vars, listVars>>

ListInit ==
  /\ all_processes = <<>> /\ found = <<>> /\ checked_process_id = Root
  /\ pass = 1 /\ entry = 1 /\ done = FALSE
  /\ parent \in Families
  /\ comm \in Comms
  /\ alive = Pids
  /\ unread = Pids
  /\ processes_allocated = InitiallyAllocated
  /\ stage = "list"
  /\ truth = {}
  /\ ends = 0

\* A process ends and is reaped; init takes its children.
ProcessEnds ==
  /\ stage = "list"
  /\ ends < MaxEnds
  /\ \E p \in alive \ {InitProcess, Self} :
       /\ alive' = alive \ {p}
       /\ parent' = [q \in Pids |-> IF parent[q] = p THEN InitProcess ELSE parent[q]]
  /\ ends' = ends + 1
  /\ UNCHANGED <<vars, comm, unread, processes_allocated, stage, truth>>

-----------------------------------------------------------------------------
(* read_parent_process_id() *)

\* "pid (comm) state ppid ...", as the kernel writes it.
stat_file(p) ==
  decimal[p] \o <<" ", "(">> \o comm[p] \o <<")", " ", "S", " ">>
    \o decimal[parent[p]] \o <<" ", "3">>

\* A pid, " (", a name, ") S ", another pid, and the zero.
MAX_STAT_FILE_READ_LENGTH == MaxPidLength + 2 + MaxCommLength + 4 + MaxPidLength + 1

\* fgets() leaves out what is too long.
file_contents(p) ==
  SubSeq(stat_file(p), 1, Sets!Min({Len(stat_file(p)), MAX_STAT_FILE_READ_LENGTH - 1}))

\* What strtok(text, " ") returns, up to the first character that is no digit.
FirstNumber(text) ==
  LET from == Sets!Min({k \in DOMAIN text : text[k] # " "})
      to == Sets!Min({k \in from .. Len(text) + 1 : k = Len(text) + 1 \/ text[k] \notin Digits})
  IN SubSeq(text, from, to - 1)

\* Mutant: a closing parenthesis is enough.
parenthesis_without_space(text) == {k \in 4 .. Len(text) - 1 : text[k] = ")"}

\* Where the name may end: ") " from the fourth character on.
closing_parentheses(text) ==
  {k \in 4 .. Len(text) - 1 : text[k] = ")" /\ text[k + 1] = " "}

read_parent_process_id(p) ==
  LET text == file_contents(p) IN
    IF p \notin alive \/ closing_parentheses(text) = {} THEN 0
    ELSE strtol[FirstNumber(SubSeq(text, Sets!Min(closing_parentheses(text)) + 3, Len(text)))]

-----------------------------------------------------------------------------
(* Stage 1. *)

\* Mutant: the size is looked at after the entry was written.
GrowLate ==
  processes_allocated' = IF total_processes > processes_allocated
                         THEN 2 * processes_allocated ELSE processes_allocated

Grow ==
  processes_allocated' = IF total_processes = processes_allocated
                         THEN 2 * processes_allocated ELSE processes_allocated

\* Mutant: init's children are taken for unreadable.
RecordNotBelowInit(p, parent_process_id) ==
  all_processes' =
    IF parent_process_id <= 1 THEN all_processes
    ELSE Append(all_processes, [process_id |-> p, parent_process_id |-> parent_process_id])

Record(p, parent_process_id) ==
  all_processes' =
    IF parent_process_id = 0 THEN all_processes
    ELSE Append(all_processes, [process_id |-> p, parent_process_id |-> parent_process_id])

ReadEntry ==
  /\ stage = "list"
  /\ Grow
  /\ \E p \in unread :
       /\ unread' = unread \ {p}
       /\ Record(p, read_parent_process_id(p))
       /\ truth' = IF p \in alive /\ parent[p] # 0
                   THEN truth \cup {[process_id |-> p, parent_process_id |-> parent[p]]}
                   ELSE truth
  /\ UNCHANGED <<found, checked_process_id, pass, entry, done, alive, parent, comm, stage, ends>>

\* Mutant: "break" for "continue".
SkipEntryAndRest ==
  /\ stage = "list"
  /\ Grow
  /\ stage' = "scan"
  /\ UNCHANGED <<vars, alive, parent, comm, unread, truth, ends>>

\* Something in /proc that is not a process.
SkipEntry ==
  /\ stage = "list"
  /\ Grow
  /\ UNCHANGED <<vars, alive, parent, comm, unread, stage, truth, ends>>

\* realloc() for the next entry, or malloc() for stage 2.
AllocationFails ==
  /\ stage = "list"
  /\ total_processes = processes_allocated \/ unread \cap alive = {}
  /\ stage' = "failed"
  /\ UNCHANGED <<vars, alive, parent, comm, unread, processes_allocated, truth, ends>>

\* readdir() may pass over what has ended, and returns everything else.
StartScan ==
  /\ stage = "list"
  /\ unread \cap alive = {}
  /\ stage' = "scan"
  /\ UNCHANGED <<vars, alive, parent, comm, unread, processes_allocated, truth, ends>>

Scan == stage = "scan" /\ Next /\ UNCHANGED listVars

ListNext == ReadEntry \/ SkipEntry \/ AllocationFails \/ StartScan \/ Scan \/ ProcessEnds

\* The scheduler runs the program.
ListSpec == ListInit /\ [][ListNext]_allVars /\ WF_allVars(Scan)

-----------------------------------------------------------------------------
(* ProcessTree reads a parent in one step, and chooses whom to signal in    *)
(* one more.  Its processes are those of this module without init.         *)

Others == Pids \ {InitProcess}

ParentsIn(table) ==
  [p \in Others |->
     LET at == {k \in DOMAIN table : table[k].process_id = p} IN
       IF at = {} THEN 0 ELSE table[CHOOSE k \in at : TRUE].parent_process_id]

Tree == INSTANCE ProcessTree WITH
  Pids <- Others, Strangers <- {Self}, Reaper <- InitProcess, NotListed <- 0,
  Foreign <- {}, ExternalPid <- FALSE, OutsideKills <- TRUE,
  parent <- [p \in Others |-> parent[p]],
  status <- [p \in Others |-> IF p \in alive THEN "running" ELSE "gone"],
  family <- {}, newborn <- {},   \* of no concern to the scan
  step <- IF done THEN "signal" ELSE "scan",
  operation <- "pause",
  command_paused <- FALSE,
  unread <- unread \cap alive \cap Others,
  all_processes <- ParentsIn(all_processes),
  targets <- IF done THEN {found[k] : k \in DOMAIN found} ELSE {}

-----------------------------------------------------------------------------
ListTypeOK ==
  /\ TypeOK
  /\ alive \subseteq Pids /\ unread \subseteq Pids
  /\ parent \in [Pids -> Pids \cup {0}]
  /\ comm \in Comms
  /\ processes_allocated \in Nat
  /\ stage \in {"list", "scan", "failed"}
  /\ \A e \in truth : e \in ProcessInfo
  /\ ends \in 0 .. MaxEnds

\* "What we need is parent pid, which comes after state": the parent that is read
\* is the one the kernel knew, and nobody is left out, although the name before it
\* may have spaces and parentheses.  (A name with ") " inside defeats the code.)
ReadsRealParent == {all_processes[k] : k \in DOMAIN all_processes} = truth

\* No name has what ends a name inside.
NamesAreReadable ==
  \A c \in Comms : \A p \in Pids :
    \A k \in 1 .. Len(c[p]) - 1 : ~(c[p][k] = ")" /\ c[p][k + 1] = " ")

\* However the array grows, every entry is inside of what is allocated.
StaysInsideAllocation == total_processes <= processes_allocated

TreeStep ==
  \/ \E p \in Others : Tree!read_parent_process_id(p)
  \/ Tree!get_child_processes
  \/ UNCHANGED Tree!vars
  \/ ProcessEnds

\* What ProcessTree says of the scan is what becomes of it, text, arrays, loops and
\* all: it begins as OpenProc leaves it, and every step is the reading of one right
\* parent, the choice of exactly the descendants when all have been read, or
\* nothing to ProcessTree.  What the kernel does meanwhile is none of its steps; it
\* forks nothing here, which ProcessTree does.
ImplementsTree ==
  /\ ParentsIn(all_processes) = [p \in Others |-> 0]
  /\ unread \cap alive \cap Others = {p \in Others : Tree!Exists(p)}
  /\ [][TreeStep]_allVars

\* Parents that are read while processes end and orphans move are what stage 2
\* can work with: no PID twice, no cycle through the command, and somebody
\* outside of its tree, without whom the array of stage 2 would be too short.
HandsOverTable == stage = "scan" => IsProcessTable(all_processes)

\* The loop that lengthens what it iterates over comes to an end.
ScanEnds == stage = "scan" ~> done
=============================================================================
