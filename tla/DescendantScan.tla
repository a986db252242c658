--------------------------- MODULE DescendantScan ---------------------------
(***************************************************************************)
(* Stage 2 of get_child_processes() in process_handling.c: from the        *)
(* processes read from /proc, collect those that descend from Root.        *)
(*                                                                         *)
(* The outer loop runs over the array it is filling.  The array has as     *)
(* many elements as /proc had processes, and the zero that ends it has to  *)
(* fit as well; found is the part of it that has been written.             *)
(***************************************************************************)
EXTENDS Naturals, Sequences

CONSTANTS
  Pids,
  Root,           \* initial_parent_process_id
  Tables,         \* what stage 1 may have read
  Uninitialized   \* what malloc() leaves in the array

ProcessInfo == [process_id : Pids, parent_process_id : Pids]

\* The least set that has the children of Root and of its own members.
Descendants(table) ==
  {p \in Pids : \A S \in SUBSET Pids :
     (\A k \in DOMAIN table :
        table[k].parent_process_id \in S \cup {Root} => table[k].process_id \in S)
     => p \in S}

\* A PID is listed once, the command is not below itself, and some process is
\* not below the command: the command's own entry, or runwhenidle's.
IsProcessTable(table) ==
  /\ table \in Seq(ProcessInfo)
  /\ \A k, m \in DOMAIN table : table[k].process_id = table[m].process_id => k = m
  /\ LET below == Descendants(table) IN
       /\ Root \notin below
       /\ \E k \in DOMAIN table : table[k].process_id \notin below

ASSUME ScanAssumption ==
  /\ Root \in Pids
  /\ Uninitialized \notin Pids
  /\ \A table \in Tables : IsProcessTable(table)

VARIABLES
  all_processes,
  found,               \* descendants[0 .. known_descendants - 2]
  checked_process_id,
  pass,                \* descendantIndex + 1
  entry,               \* processIndex + 1
  done

vars == <<all_processes, found, checked_process_id, pass, entry, done>>

known_descendants == Len(found) + 1
total_processes == Len(all_processes)

Init ==
  /\ all_processes \in Tables
  /\ found = <<>>
  /\ checked_process_id = Root
  /\ pass = 1
  /\ entry = 1
  /\ done = FALSE

\* Mutant: every pass looks for the children of all that were found.
CheckEntryAgain ==
  /\ ~done
  /\ entry <= total_processes
  /\ found' = IF all_processes[entry].parent_process_id
                   \in {Root} \cup {found[k] : k \in DOMAIN found}
              THEN Append(found, all_processes[entry].process_id)
              ELSE found
  /\ entry' = entry + 1
  /\ UNCHANGED <<all_processes, checked_process_id, pass, done>>

\* Mutant: "continue" skips the increment.
CheckEntryStuck ==
  /\ ~done
  /\ entry <= total_processes
  /\ all_processes[entry].parent_process_id = checked_process_id
  /\ found' = Append(found, all_processes[entry].process_id)
  /\ entry' = entry + 1
  /\ UNCHANGED <<all_processes, checked_process_id, pass, done>>

CheckEntry ==
  /\ ~done
  /\ entry <= total_processes
  /\ found' = IF all_processes[entry].parent_process_id = checked_process_id
              THEN Append(found, all_processes[entry].process_id)
              ELSE found
  /\ entry' = entry + 1
  /\ UNCHANGED <<all_processes, checked_process_id, pass, done>>

\* Mutants: the loop ends one pass late or early.
NextPassUntil(last) ==
  /\ ~done
  /\ entry > total_processes
  /\ checked_process_id' = IF pass <= Len(found) THEN found[pass] ELSE Uninitialized
  /\ done' = (pass >= last)
  /\ pass' = pass + 1
  /\ entry' = 1
  /\ UNCHANGED <<all_processes, found>>

NextPassOnceMore == NextPassUntil(known_descendants + 1)
NextPassOnceLess == NextPassUntil(known_descendants - 1)

\* The last pass reads the element it has not written, and the loop ends.
NextPass ==
  /\ ~done
  /\ entry > total_processes
  /\ checked_process_id' = IF pass <= Len(found) THEN found[pass] ELSE Uninitialized
  /\ done' = (pass >= known_descendants)
  /\ pass' = pass + 1
  /\ entry' = 1
  /\ UNCHANGED <<all_processes, found>>

Next == CheckEntry \/ NextPass

Spec == Init /\ [][Next]_vars /\ WF_vars(Next)

-----------------------------------------------------------------------------
TypeOK ==
  /\ all_processes \in Seq(ProcessInfo)
  /\ found \in Seq(Pids)
  /\ checked_process_id \in Pids \cup {Uninitialized}
  /\ pass \in Nat \ {0} /\ entry \in Nat \ {0}
  /\ done \in BOOLEAN

\* The descendants that are written, and the element that each pass reads or
\* ends with zero, are inside the memory allocated for the array, whatever the
\* order in which /proc lists the tree.
StaysInsideArray ==
  /\ Len(found) <= total_processes
  /\ pass - 1 <= total_processes

\* The element read before it was written is never compared with a parent PID.
NeverComparesUninitialized == ~done => checked_process_id \in Pids

\* The array that is returned has every descendant and nothing else, once each,
\* and none before its parent.
FindsDescendants ==
  done =>
    /\ {found[k] : k \in DOMAIN found} = Descendants(all_processes)
    /\ \A k, m \in DOMAIN found : found[k] = found[m] => k = m
    /\ \A k \in DOMAIN found, e \in DOMAIN all_processes :
         all_processes[e].process_id = found[k] =>
           \/ all_processes[e].parent_process_id = Root
           \/ \E m \in 1 .. k - 1 : found[m] = all_processes[e].parent_process_id
=============================================================================
