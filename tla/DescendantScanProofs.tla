------------------------ MODULE DescendantScanProofs ------------------------
(***************************************************************************)
(* Proofs about DescendantScan: for every process table, of any length and *)
(* in any order, the array is large enough and what is returned is the set *)
(* of descendants, after a number of steps that is bounded.               *)
(*                                                                         *)
(* The processes are looked at in the order in which they were found, the  *)
(* command first.  An entry has been found exactly if its parent has been  *)
(* looked at, or is being looked at and the entry has been passed.         *)
(***************************************************************************)
EXTENDS DescendantScan, FiniteSetTheorems, TLAPS

Id(k) == all_processes[k].process_id
Parent(k) == all_processes[k].parent_process_id

IsFound(p) == \E j \in 1 .. Len(found) : found[j] = p

\* What checked_process_id is in the m-th pass.
Checked(m) == IF m = 1 THEN Root ELSE found[m - 1]

HasBeenChecked(p) == \E m \in 1 .. pass - 1 : Checked(m) = p

Types ==
  /\ IsProcessTable(all_processes)
  /\ found \in Seq(Pids)
  /\ checked_process_id \in Pids \cup {Uninitialized}
  /\ pass \in Nat \ {0} /\ entry \in Nat \ {0}
  /\ done \in BOOLEAN

Position ==
  /\ entry <= total_processes + 1
  /\ ~done => pass <= Len(found) + 1 /\ checked_process_id = Checked(pass)
  /\ done => pass = Len(found) + 2 /\ entry = 1

FoundIfChecked ==
  \A k \in 1 .. total_processes :
    IsFound(Id(k)) <=> \/ HasBeenChecked(Parent(k))
                       \/ k < entry /\ Parent(k) = Checked(pass)

FoundOnce ==
  \A j, m \in 1 .. Len(found) : found[j] = found[m] => j = m

FoundAreListed ==
  \A j \in 1 .. Len(found) : \E k \in 1 .. total_processes : found[j] = Id(k)

FoundDescend ==
  \A j \in 1 .. Len(found) : found[j] \in Descendants(all_processes)

ParentsFirst ==
  \A j \in 1 .. Len(found), k \in 1 .. total_processes :
    Id(k) = found[j] =>
      \/ Parent(k) = Root
      \/ \E m \in 1 .. j - 1 : found[m] = Parent(k)

IInv ==
  /\ Types /\ Position /\ FoundIfChecked /\ FoundOnce
  /\ FoundAreListed /\ FoundDescend /\ ParentsFirst

USE ScanAssumption

-----------------------------------------------------------------------------
(* What stage 1 guarantees, and what being a descendant is. *)

LEMMA TableFacts ==
  ASSUME Types
  PROVE  /\ all_processes \in Seq(ProcessInfo)
         /\ total_processes \in Nat
         /\ DOMAIN all_processes = 1 .. total_processes
         /\ \A k \in 1 .. total_processes : Id(k) \in Pids /\ Parent(k) \in Pids
         /\ \A k, m \in 1 .. total_processes : Id(k) = Id(m) => k = m
         /\ Root \notin Descendants(all_processes)
         /\ \E k \in 1 .. total_processes : Id(k) \notin Descendants(all_processes)
<1>1. IsProcessTable(all_processes)
  BY DEF Types
<1>2. all_processes \in Seq(ProcessInfo)
  BY <1>1 DEF IsProcessTable
<1>3. total_processes \in Nat /\ DOMAIN all_processes = 1 .. total_processes
  BY <1>2 DEF total_processes
<1>4. \A k \in 1 .. total_processes : all_processes[k] \in ProcessInfo
  BY <1>2, <1>3
<1>5. \A k \in 1 .. total_processes : Id(k) \in Pids /\ Parent(k) \in Pids
  BY <1>4 DEF Id, Parent, ProcessInfo
<1>6. \A k, m \in 1 .. total_processes : Id(k) = Id(m) => k = m
  BY <1>1, <1>3 DEF IsProcessTable, Id
<1>7. Root \notin Descendants(all_processes)
  BY <1>1 DEF IsProcessTable
<1>8. \E k \in 1 .. total_processes : Id(k) \notin Descendants(all_processes)
  BY <1>1, <1>3 DEF IsProcessTable, Id
<1> QED
  BY <1>2, <1>3, <1>5, <1>6, <1>7, <1>8

LEMMA ChildrenDescend ==
  ASSUME Types, NEW k \in 1 .. total_processes,
         Parent(k) = Root \/ Parent(k) \in Descendants(all_processes)
  PROVE  Id(k) \in Descendants(all_processes)
<1>1. Id(k) \in Pids /\ k \in DOMAIN all_processes
  BY TableFacts
<1> SUFFICES ASSUME NEW S \in SUBSET Pids,
                    \A m \in DOMAIN all_processes :
                      all_processes[m].parent_process_id \in S \cup {Root}
                        => all_processes[m].process_id \in S
             PROVE  Id(k) \in S
  BY <1>1 DEF Descendants
<1>2. Parent(k) \in S \cup {Root}
  BY DEF Descendants
<1> QED
  BY <1>1, <1>2 DEF Id, Parent

LEMMA DescendantsLeast ==
  ASSUME Types, NEW S \in SUBSET Pids,
         \A k \in 1 .. total_processes : Parent(k) \in S \cup {Root} => Id(k) \in S
  PROVE  Descendants(all_processes) \subseteq S
<1>1. \A k \in DOMAIN all_processes :
        all_processes[k].parent_process_id \in S \cup {Root}
          => all_processes[k].process_id \in S
  BY TableFacts DEF Id, Parent
<1> QED
  BY <1>1 DEF Descendants

-----------------------------------------------------------------------------
(* The steps. *)

\* CheckEntry finds a process, or it does not.
Finds == CheckEntry /\ Parent(entry) = checked_process_id
Skips == CheckEntry /\ Parent(entry) # checked_process_id

LEMMA FindsAppends ==
  ASSUME IInv, Finds
  PROVE  /\ found' = Append(found, Id(entry))
         /\ found' \in Seq(Pids)
         /\ Len(found) \in Nat
         /\ Len(found') = Len(found) + 1
         /\ \A j \in 1 .. Len(found) : found'[j] = found[j] /\ found[j] \in Pids
         /\ found'[Len(found) + 1] = Id(entry)
         /\ entry \in 1 .. total_processes
         /\ entry' = entry + 1
         /\ UNCHANGED <<all_processes, checked_process_id, pass, done>>
         /\ pass \in 1 .. Len(found) + 1
         /\ Parent(entry) = Checked(pass)
         /\ ~done
<1>1. found' = Append(found, Id(entry))
  BY DEF Finds, CheckEntry, Parent, Id
<1>2. entry \in 1 .. total_processes
  BY TableFacts DEF IInv, Types, Finds, CheckEntry
<1>3. Id(entry) \in Pids
  BY <1>2, TableFacts DEF IInv
<1>4. found \in Seq(Pids)
  BY DEF IInv, Types
<1>5. /\ found' \in Seq(Pids)
      /\ Len(found) \in Nat
      /\ Len(found') = Len(found) + 1
      /\ \A j \in 1 .. Len(found) : found'[j] = found[j] /\ found[j] \in Pids
      /\ found'[Len(found) + 1] = Id(entry)
  BY <1>1, <1>3, <1>4
<1>6. ~done /\ entry' = entry + 1
      /\ UNCHANGED <<all_processes, checked_process_id, pass, done>>
  BY DEF Finds, CheckEntry
<1>7. pass \in 1 .. Len(found) + 1 /\ Parent(entry) = Checked(pass)
  BY <1>5, <1>6 DEF IInv, Types, Position, Finds
<1> QED
  BY <1>1, <1>2, <1>5, <1>6, <1>7

\* What is looked at is looked at once.
LEMMA CheckedOnce ==
  ASSUME IInv, NEW i \in 1 .. Len(found) + 1, NEW m \in 1 .. Len(found) + 1,
         Checked(i) = Checked(m)
  PROVE  i = m
<1>1. \A j \in 1 .. Len(found) : found[j] # Root
  BY TableFacts DEF IInv, FoundDescend
<1>2. Len(found) \in Nat
  BY DEF IInv, Types
<1>3. CASE i = 1 \/ m = 1
  BY <1>1, <1>2, <1>3 DEF Checked
<1>4. CASE i # 1 /\ m # 1
  <2>1. i - 1 \in 1 .. Len(found) /\ m - 1 \in 1 .. Len(found)
    BY <1>2, <1>4
  <2>2. i - 1 = m - 1
    BY <1>4, <2>1 DEF Checked, IInv, FoundOnce
  <2> QED
    BY <1>2, <2>2
<1> QED
  BY <1>3, <1>4

\* What is found now had not been found before.
LEMMA FindsNew ==
  ASSUME IInv, Finds
  PROVE  ~IsFound(Id(entry))
<1>1. ~HasBeenChecked(Parent(entry))
  <2> SUFFICES ASSUME NEW m \in 1 .. pass - 1, Checked(m) = Parent(entry)
               PROVE  FALSE
    BY DEF HasBeenChecked
  <2>1. m \in 1 .. Len(found) + 1 /\ pass \in 1 .. Len(found) + 1 /\ m # pass
    BY FindsAppends
  <2> QED
    BY <2>1, FindsAppends, CheckedOnce
<1>2. entry \in 1 .. total_processes /\ ~(entry < entry)
  BY FindsAppends, TableFacts DEF IInv
<1> QED
  BY <1>1, <1>2 DEF IInv, FoundIfChecked

LEMMA FindsStep == IInv /\ Finds => IInv'
<1> SUFFICES ASSUME IInv, Finds PROVE IInv'
  OBVIOUS
<1>1. /\ all_processes' = all_processes /\ pass' = pass /\ done' = done
      /\ checked_process_id' = checked_process_id /\ ~done
      /\ entry \in 1 .. total_processes /\ entry' = entry + 1
      /\ pass \in 1 .. Len(found) + 1 /\ Parent(entry) = Checked(pass)
  BY FindsAppends
<1>2. /\ found' \in Seq(Pids)
      /\ Len(found) \in Nat
      /\ Len(found') = Len(found) + 1
      /\ \A j \in 1 .. Len(found) : found'[j] = found[j]
      /\ found'[Len(found) + 1] = Id(entry)
  BY FindsAppends
<1>3. /\ total_processes' = total_processes
      /\ \A k \in 1 .. total_processes : Id(k)' = Id(k) /\ Parent(k)' = Parent(k)
  BY <1>1 DEF total_processes, Id, Parent
<1>4. total_processes \in Nat
  BY TableFacts DEF IInv
<1>5. \A m \in 1 .. Len(found) + 1 : Checked(m)' = Checked(m)
  BY <1>2 DEF Checked
<1>6. Types'
  BY <1>1, <1>2, <1>4 DEF IInv, Types
<1>7. Position'
  <2>1. checked_process_id = Checked(pass)
    BY <1>1 DEF IInv, Position
  <2>2. checked_process_id' = Checked(pass)'
    BY <1>1, <1>5, <2>1
  <2> QED
    BY <1>1, <1>2, <1>3, <1>4, <2>2 DEF Position
<1>8. \A p : IsFound(p)' <=> IsFound(p) \/ p = Id(entry)
  BY <1>2 DEF IsFound
<1>9. FoundIfChecked'
  <2> SUFFICES ASSUME NEW k \in 1 .. total_processes
               PROVE  IsFound(Id(k))' <=>
                        \/ HasBeenChecked(Parent(k))'
                        \/ k < entry' /\ Parent(k) = Checked(pass)
    BY <1>1, <1>3, <1>5 DEF FoundIfChecked
  <2>1. HasBeenChecked(Parent(k))' <=> HasBeenChecked(Parent(k))
    BY <1>1, <1>2, <1>3, <1>5 DEF HasBeenChecked
  <2>2. IsFound(Id(k))' <=> IsFound(Id(k)) \/ k = entry
    BY <1>1, <1>3, <1>8, TableFacts DEF IInv
  <2>3. k < entry' <=> k < entry \/ k = entry
    BY <1>1, <1>4
  <2>4. IsFound(Id(k)) <=> \/ HasBeenChecked(Parent(k))
                           \/ k < entry /\ Parent(k) = Checked(pass)
    BY DEF IInv, FoundIfChecked
  <2> QED
    BY <1>1, <2>1, <2>2, <2>3, <2>4
<1>10. FoundOnce'
  <2>1. \A j \in 1 .. Len(found) : found[j] # Id(entry)
    BY FindsNew DEF IsFound
  <2> QED
    BY <1>2, <2>1 DEF IInv, FoundOnce
<1>11. FoundAreListed'
  BY <1>1, <1>2, <1>3 DEF IInv, FoundAreListed
<1>12. FoundDescend'
  <2>1. Parent(entry) = Root \/ Parent(entry) \in Descendants(all_processes)
    <3>1. CASE pass = 1
      BY <1>1, <3>1 DEF Checked
    <3>2. CASE pass # 1
      <4>1. pass - 1 \in 1 .. Len(found)
        BY <1>1, <1>2, <3>2
      <4> QED
        BY <1>1, <3>2, <4>1 DEF Checked, IInv, FoundDescend
    <3> QED
      BY <3>1, <3>2
  <2>2. Id(entry) \in Descendants(all_processes)
    BY <1>1, <2>1, ChildrenDescend DEF IInv
  <2> QED
    BY <1>1, <1>2, <2>2 DEF IInv, FoundDescend
<1>13. ParentsFirst'
  <2> SUFFICES ASSUME NEW j \in 1 .. Len(found) + 1, NEW k \in 1 .. total_processes,
                      Id(k) = found'[j], Parent(k) # Root
               PROVE  \E m \in 1 .. j - 1 : found'[m] = Parent(k)
    BY <1>2, <1>3 DEF ParentsFirst
  <2>1. CASE j \in 1 .. Len(found)
    <3>1. \E m \in 1 .. j - 1 : found[m] = Parent(k)
      BY <1>2, <2>1 DEF IInv, ParentsFirst
    <3> QED
      BY <1>2, <2>1, <3>1
  <2>2. CASE j = Len(found) + 1
    <3>1. k = entry
      BY <1>1, <1>2, <2>2, TableFacts DEF IInv
    <3>2. pass # 1 /\ found[pass - 1] = Parent(k)
      BY <1>1, <3>1 DEF Checked
    <3>3. pass - 1 \in 1 .. Len(found)
      BY <1>1, <1>2, <3>2
    <3> QED
      BY <1>2, <2>2, <3>2, <3>3
  <2> QED
    BY <1>2, <2>1, <2>2
<1> QED
  BY <1>6, <1>7, <1>9, <1>10, <1>11, <1>12, <1>13 DEF IInv

\* A step that leaves found alone leaves alone what is said of it only.
LEMMA FoundFrame ==
  ASSUME IInv, UNCHANGED <<all_processes, found>>
  PROVE  FoundOnce' /\ FoundAreListed' /\ FoundDescend' /\ ParentsFirst'
  BY DEF IInv, FoundOnce, FoundAreListed, FoundDescend, ParentsFirst, Id, Parent,
         total_processes

LEMMA SkipsStep == IInv /\ Skips => IInv'
<1> SUFFICES ASSUME IInv, Skips PROVE IInv'
  OBVIOUS
<1>1. /\ all_processes' = all_processes /\ pass' = pass /\ done' = done
      /\ checked_process_id' = checked_process_id /\ ~done /\ found' = found
      /\ entry' = entry + 1 /\ entry <= total_processes
      /\ Parent(entry) # checked_process_id
  BY DEF Skips, CheckEntry, Parent
<1>2. total_processes \in Nat /\ entry \in Nat \ {0} /\ total_processes' = total_processes
  BY <1>1, TableFacts DEF IInv, Types, total_processes
<1>3. checked_process_id = Checked(pass)
  BY <1>1 DEF IInv, Position
<1>4. Types'
  BY <1>1, <1>2 DEF IInv, Types
<1>5. Position'
  BY <1>1, <1>2 DEF IInv, Position, Checked
<1>6. FoundIfChecked'
  <2> SUFFICES ASSUME NEW k \in 1 .. total_processes
               PROVE  IsFound(Id(k)) <=> \/ HasBeenChecked(Parent(k))
                                         \/ k < entry' /\ Parent(k) = Checked(pass)
    BY <1>1, <1>2 DEF FoundIfChecked, IsFound, HasBeenChecked, Id, Parent, Checked
  <2>1. k < entry' <=> k < entry \/ k = entry
    BY <1>1, <1>2
  <2> QED
    BY <1>1, <1>3, <2>1 DEF IInv, FoundIfChecked
<1> QED
  BY <1>1, <1>4, <1>5, <1>6, FoundFrame DEF IInv

LEMMA NextPassStep == IInv /\ NextPass => IInv'
<1> SUFFICES ASSUME IInv, NextPass PROVE IInv'
  OBVIOUS
<1>1. /\ all_processes' = all_processes /\ found' = found /\ ~done
      /\ pass' = pass + 1 /\ entry' = 1 /\ entry > total_processes
      /\ done' = (pass >= Len(found) + 1)
      /\ checked_process_id' = IF pass <= Len(found) THEN found[pass] ELSE Uninitialized
  BY DEF NextPass, known_descendants
<1>2. /\ total_processes \in Nat /\ total_processes' = total_processes
      /\ entry \in Nat \ {0} /\ pass \in Nat \ {0} /\ Len(found) \in Nat
      /\ pass <= Len(found) + 1
      /\ \A j \in 1 .. Len(found) : found[j] \in Pids
  BY <1>1, TableFacts DEF IInv, Types, Position, total_processes
<1>3. Types'
  <2>1. checked_process_id' \in Pids \cup {Uninitialized}
    BY <1>1, <1>2
  <2>2. done' \in BOOLEAN
    BY <1>1
  <2>3. pass' \in Nat \ {0} /\ entry' \in Nat \ {0}
    BY <1>1, <1>2
  <2> QED
    BY <1>1, <2>1, <2>2, <2>3 DEF IInv, Types
<1>4. Position'
  <2>1. CASE pass <= Len(found)
    <3>1. /\ pass' # 1 /\ pass' - 1 = pass
          /\ ~(pass >= Len(found) + 1) /\ pass' <= Len(found) + 1
      BY <1>1, <1>2, <2>1
    <3>2. checked_process_id' = Checked(pass)'
      <4>1. checked_process_id' = found[pass]
        BY <1>1, <2>1
      <4>2. Checked(pass)' = found'[pass' - 1]
        BY <3>1 DEF Checked
      <4> QED
        BY <1>1, <3>1, <4>1, <4>2
    <3>3. ~done'
      BY <1>1, <3>1
    <3>4. entry' <= total_processes' + 1
      BY <1>1, <1>2
    <3> QED
      BY <1>1, <3>1, <3>2, <3>3, <3>4 DEF Position
  <2>2. CASE pass = Len(found) + 1
    <3>1. pass >= Len(found) + 1 /\ pass + 1 = Len(found) + 2
      BY <1>2, <2>2
    <3>2. done'
      BY <1>1, <3>1
    <3>3. Len(found') = Len(found)
      BY <1>1
    <3>4. pass' = Len(found') + 2
      BY <1>1, <3>1, <3>3
    <3>5. entry' <= total_processes' + 1
      BY <1>1, <1>2
    <3> QED
      BY <1>1, <3>2, <3>4, <3>5 DEF Position
  <2> QED
    BY <1>2, <2>1, <2>2
<1>5. FoundIfChecked'
  <2> SUFFICES ASSUME NEW k \in 1 .. total_processes
               PROVE  IsFound(Id(k)) <=> HasBeenChecked(Parent(k))'
    BY <1>1, <1>2 DEF FoundIfChecked, IsFound, Id, Parent
  <2>1. k < entry
    BY <1>1, <1>2
  <2>2. HasBeenChecked(Parent(k))' <=>
          HasBeenChecked(Parent(k)) \/ Parent(k) = Checked(pass)
    <3>1. 1 .. pass' - 1 = (1 .. pass - 1) \cup {pass}
      BY <1>1, <1>2
    <3>2. \A m \in 1 .. pass : Checked(m)' = Checked(m)
      BY <1>1 DEF Checked
    <3>3. Parent(k)' = Parent(k)
      BY <1>1 DEF Parent
    <3>4. pass \in 1 .. pass /\ 1 .. pass - 1 \subseteq 1 .. pass
      BY <1>2
    <3>5. HasBeenChecked(Parent(k))' <=> \E m \in 1 .. pass' - 1 : Checked(m)' = Parent(k)'
      BY DEF HasBeenChecked
    <3> QED
      BY <3>1, <3>2, <3>3, <3>4, <3>5 DEF HasBeenChecked
  <2> QED
    BY <2>1, <2>2 DEF IInv, FoundIfChecked
<1> QED
  BY <1>1, <1>3, <1>4, <1>5, FoundFrame DEF IInv

\* The state in which the scan of a table begins.
Untouched ==
  /\ found = <<>> /\ checked_process_id = Root
  /\ pass = 1 /\ entry = 1 /\ done = FALSE

LEMMA BeginIInv == IsProcessTable(all_processes) /\ Untouched => IInv
<1> SUFFICES ASSUME IsProcessTable(all_processes), Untouched PROVE IInv
  OBVIOUS
<1>1. /\ IsProcessTable(all_processes) /\ found = <<>> /\ checked_process_id = Root
      /\ pass = 1 /\ entry = 1 /\ done = FALSE
  BY DEF Untouched
<1>2. found \in Seq(Pids) /\ Len(found) = 0
  BY <1>1
<1>3. 1 .. Len(found) = {}
  BY <1>2
<1>4. Types
  <2>1. checked_process_id \in Pids \cup {Uninitialized}
    BY <1>1
  <2>2. done \in BOOLEAN
    BY <1>1
  <2>3. pass \in Nat \ {0} /\ entry \in Nat \ {0}
    BY <1>1
  <2> QED
    BY <1>1, <1>2, <2>1, <2>2, <2>3 DEF Types
<1>5. total_processes \in Nat
  BY <1>4, TableFacts
<1>6. Position
  BY <1>1, <1>2, <1>5 DEF Position, Checked
<1>7. FoundIfChecked
  <2>1. 1 .. pass - 1 = {}
    BY <1>1
  <2>2. \A k \in 1 .. total_processes : ~(k < entry)
    BY <1>1, <1>5
  <2> QED
    BY <1>3, <2>1, <2>2 DEF FoundIfChecked, IsFound, HasBeenChecked
<1>8. FoundOnce /\ FoundAreListed /\ FoundDescend /\ ParentsFirst
  BY <1>3 DEF FoundOnce, FoundAreListed, FoundDescend, ParentsFirst
<1> QED
  BY <1>4, <1>6, <1>7, <1>8 DEF IInv

LEMMA StepIInv == IInv /\ [Next]_vars => IInv'
<1> SUFFICES ASSUME IInv, [Next]_vars PROVE IInv'
  OBVIOUS
<1>1. CASE CheckEntry
  <2>1. Finds \/ Skips
    BY <1>1 DEF Finds, Skips
  <2> QED
    BY <2>1, FindsStep, SkipsStep
<1>2. CASE NextPass
  BY <1>2, NextPassStep
<1>3. CASE UNCHANGED vars
  BY <1>3 DEF vars, IInv, Types, Position, FoundIfChecked, FoundOnce, FoundAreListed,
              FoundDescend, ParentsFirst, IsFound, HasBeenChecked, Checked, Id,
              Parent, total_processes
<1> QED
  BY <1>1, <1>2, <1>3 DEF Next

LEMMA Invariance == Spec => []IInv
<1>1. Init => IInv
  BY BeginIInv DEF Init, Untouched
<1>2. IInv /\ [Next]_vars => IInv'
  BY StepIInv
<1> QED
  BY <1>1, <1>2, PTL DEF Spec

-----------------------------------------------------------------------------
(* What follows from the invariant. *)

LEMMA TypeOKHolds == IInv => TypeOK
  BY TableFacts DEF IInv, Types, TypeOK

\* The processes found are entries of the table, all of them different, and one
\* entry is not among them.
LEMMA StaysInsideHolds == IInv => StaysInsideArray
<1> SUFFICES ASSUME IInv PROVE StaysInsideArray
  OBVIOUS
<1>1. total_processes \in Nat /\ Len(found) \in Nat
  BY TableFacts DEF IInv, Types
<1> DEFINE Of(j) == CHOOSE k \in 1 .. total_processes : found[j] = Id(k)
<1>2. PICK out \in 1 .. total_processes : Id(out) \notin Descendants(all_processes)
  BY TableFacts DEF IInv
<1> DEFINE Places == (1 .. total_processes) \ {out}
           Place == [j \in 1 .. Len(found) |-> Of(j)]
<1>3. \A j \in 1 .. Len(found) : Of(j) \in Places /\ found[j] = Id(Of(j))
  <2> SUFFICES ASSUME NEW j \in 1 .. Len(found)
               PROVE  Of(j) \in Places /\ found[j] = Id(Of(j))
    OBVIOUS
  <2>1. \E k \in 1 .. total_processes : found[j] = Id(k)
    BY DEF IInv, FoundAreListed
  <2>2. Of(j) \in 1 .. total_processes /\ found[j] = Id(Of(j))
    BY <2>1
  <2>3. found[j] \in Descendants(all_processes)
    BY DEF IInv, FoundDescend
  <2> QED
    BY <1>2, <2>2, <2>3
<1>4. Place \in Injection(1 .. Len(found), Places)
  <2>1. Place \in [1 .. Len(found) -> Places]
    BY <1>3
  <2>2. \A j, m \in 1 .. Len(found) : Place[j] = Place[m] => j = m
    BY <1>3 DEF IInv, FoundOnce
  <2> QED
    BY <2>1, <2>2 DEF Injection, IsInjective
<1>5. /\ IsFiniteSet(1 .. Len(found)) /\ Cardinality(1 .. Len(found)) = Len(found)
      /\ IsFiniteSet(1 .. total_processes)
      /\ Cardinality(1 .. total_processes) = total_processes
  <2>1. \A n \in Nat : IsFiniteSet(1 .. n) /\ Cardinality(1 .. n) = n
    <3> TAKE n \in Nat
    <3>1. 1 \in Int /\ n \in Int
      OBVIOUS
    <3>2. IsFiniteSet(1 .. n)
      BY <3>1, FS_Interval
    <3>3. Cardinality(1 .. n) = IF 1 > n THEN 0 ELSE n - 1 + 1
      BY <3>1, FS_Interval
    <3>4. Cardinality(1 .. n) = n
      BY <3>3
    <3> QED
      BY <3>2, <3>4
  <2> QED
    BY <1>1, <2>1
<1>6. IsFiniteSet(Places) /\ Cardinality(Places) = total_processes - 1
  BY <1>2, <1>5, FS_RemoveElement
<1> HIDE DEF Places, Place
<1>7. Cardinality(1 .. Len(found)) <= Cardinality(Places)
  BY <1>4, <1>5, <1>6, FS_Injection
<1>8. Len(found) <= total_processes - 1
  BY <1>5, <1>6, <1>7
<1>9. Len(found) + 1 <= total_processes
  BY <1>1, <1>8
<1>10. pass - 1 <= Len(found) + 1
  BY <1>1 DEF IInv, Types, Position
<1>11. Len(found) \in Nat /\ total_processes \in Nat /\ pass \in Nat
  BY <1>1 DEF IInv, Types
<1> QED
  BY <1>9, <1>10, <1>11 DEF StaysInsideArray

\* One place is left for the zero, and every pass but the last has its element.
LEMMA PlacesAreLeft ==
  ASSUME IInv
  PROVE  /\ total_processes \in Nat /\ Len(found) \in Nat
         /\ pass \in Nat \ {0} /\ entry \in Nat \ {0}
         /\ entry <= total_processes + 1
         /\ pass <= total_processes + 1
  BY TableFacts, StaysInsideHolds DEF IInv, Types, Position, StaysInsideArray

LEMMA NeverComparesHolds == IInv => NeverComparesUninitialized
<1> SUFFICES ASSUME IInv, ~done PROVE checked_process_id \in Pids
  BY DEF NeverComparesUninitialized
<1>1. pass \in Nat \ {0} /\ pass <= Len(found) + 1 /\ checked_process_id = Checked(pass)
  BY DEF IInv, Types, Position
<1>2. found \in Seq(Pids) /\ Len(found) \in Nat
  BY DEF IInv, Types
<1>3. CASE pass = 1
  BY <1>1, <1>3 DEF Checked
<1>4. CASE pass # 1
  <2>1. pass - 1 \in 1 .. Len(found)
    BY <1>1, <1>2, <1>4
  <2> QED
    BY <1>1, <1>2, <1>4, <2>1 DEF Checked
<1> QED
  BY <1>3, <1>4

\* When the scan ends every process found has been looked at, so that what was
\* found has the children of the command and of its own members.
LEMMA FindsDescendantsHolds == IInv => FindsDescendants
<1> SUFFICES ASSUME IInv, done PROVE FindsDescendants
  BY DEF FindsDescendants
<1>1. /\ total_processes \in Nat /\ DOMAIN all_processes = 1 .. total_processes
      /\ \A k \in 1 .. total_processes : Id(k) \in Pids /\ Parent(k) \in Pids
  BY TableFacts DEF IInv
<1>2. /\ found \in Seq(Pids) /\ Len(found) \in Nat /\ DOMAIN found = 1 .. Len(found)
      /\ \A j \in 1 .. Len(found) : found[j] \in Pids
      /\ pass = Len(found) + 2 /\ entry = 1
  BY DEF IInv, Types, Position
<1> DEFINE Result == {found[j] : j \in DOMAIN found}
<1>3. Result = Descendants(all_processes)
  <2>1. Result \subseteq Descendants(all_processes)
    BY <1>2 DEF IInv, FoundDescend
  <2>2. ASSUME NEW k \in 1 .. total_processes, Parent(k) \in Result \cup {Root}
        PROVE  Id(k) \in Result
    <3>1. HasBeenChecked(Parent(k))
      <4>1. CASE Parent(k) = Root
        <5>1. 1 \in 1 .. pass - 1
          BY <1>2
        <5> QED
          BY <4>1, <5>1 DEF HasBeenChecked, Checked
      <4>2. CASE Parent(k) \in Result
        <5>1. PICK j \in 1 .. Len(found) : found[j] = Parent(k)
          BY <1>2, <4>2
        <5>2. j + 1 \in 1 .. pass - 1 /\ j + 1 # 1 /\ (j + 1) - 1 = j
          BY <1>2
        <5>3. Checked(j + 1) = Parent(k)
          BY <5>1, <5>2 DEF Checked
        <5> QED
          BY <5>2, <5>3 DEF HasBeenChecked
      <4> QED
        BY <2>2, <4>1, <4>2
    <3>2. IsFound(Id(k))
      BY <3>1 DEF IInv, FoundIfChecked
    <3> QED
      BY <1>2, <3>2 DEF IsFound
  <2>3. Result \in SUBSET Pids
    BY <1>2
  <2> HIDE DEF Result
  <2>4. Descendants(all_processes) \subseteq Result
    BY <2>2, <2>3, DescendantsLeast DEF IInv
  <2> QED
    BY <2>1, <2>4
<1>4. \A k, m \in DOMAIN found : found[k] = found[m] => k = m
  BY <1>2 DEF IInv, FoundOnce
<1>5. \A k \in DOMAIN found, e \in DOMAIN all_processes :
        all_processes[e].process_id = found[k] =>
          \/ all_processes[e].parent_process_id = Root
          \/ \E m \in 1 .. k - 1 : found[m] = all_processes[e].parent_process_id
  BY <1>1, <1>2 DEF IInv, ParentsFirst, Id, Parent
<1> QED
  BY <1>3, <1>4, <1>5 DEF FindsDescendants

\* The steps that are left, with one for the end of each pass.
ScanRank ==
  (total_processes + 1 - pass) * (total_processes + 2) + (total_processes + 1 - entry)

LEMMA RankIsNatural == IInv => ScanRank \in Nat
<1> SUFFICES ASSUME IInv PROVE ScanRank \in Nat
  OBVIOUS
<1> DEFINE passes == total_processes + 1 - pass
<1>1. /\ passes \in Nat /\ total_processes + 2 \in Nat
      /\ total_processes + 1 - entry \in Nat
  BY PlacesAreLeft
<1>2. \A a, b, c \in Nat : a * b + c \in Nat
  OBVIOUS
<1> HIDE DEF passes
<1>3. passes * (total_processes + 2) + (total_processes + 1 - entry) \in Nat
  BY <1>1, <1>2
<1> QED
  BY <1>3 DEF ScanRank, passes

LEMMA StepsUseRank == IInv /\ Next => ScanRank' < ScanRank
<1> SUFFICES ASSUME IInv, Next PROVE ScanRank' < ScanRank
  OBVIOUS
<1>1. /\ total_processes \in Nat /\ pass \in Nat /\ entry \in Nat
      /\ total_processes' = total_processes
  BY PlacesAreLeft DEF Next, CheckEntry, NextPass, total_processes
<1>2. CASE CheckEntry
  <2>1. pass' = pass /\ entry' = entry + 1
    BY <1>2 DEF CheckEntry
  <2>2. ScanRank' = (total_processes + 1 - pass) * (total_processes + 2)
                      + (total_processes + 1 - (entry + 1))
    BY <1>1, <2>1 DEF ScanRank
  <2> QED
    BY <1>1, <2>2 DEF ScanRank
<1>3. CASE NextPass
  <2>1. pass' = pass + 1 /\ entry' = 1 /\ entry = total_processes + 1
    BY <1>3, PlacesAreLeft DEF NextPass
  <2>2. ScanRank' = (total_processes + 1 - (pass + 1)) * (total_processes + 2)
                      + (total_processes + 1 - 1)
    BY <1>1, <2>1 DEF ScanRank
  <2>3. \A a, b \in Int : (a - 1) * b = a * b - b
    OBVIOUS
  <2> DEFINE passes == total_processes + 1 - pass
             entries == total_processes + 2
  <2>4. passes \in Int /\ entries \in Int /\ total_processes + 1 - (pass + 1) = passes - 1
    BY <1>1
  <2>5. ScanRank = passes * entries
    BY <1>1, <2>1, <2>4 DEF ScanRank
  <2>6. ScanRank' = (passes - 1) * entries + total_processes
    BY <1>1, <2>2, <2>4
  <2>7. (passes - 1) * entries = passes * entries - entries /\ passes * entries \in Int
    BY <2>3, <2>4
  <2>8. total_processes < entries
    BY <1>1
  <2> HIDE DEF passes, entries
  <2> QED
    BY <1>1, <2>4, <2>5, <2>6, <2>7, <2>8
<1> QED
  BY <1>2, <1>3 DEF Next

-----------------------------------------------------------------------------
\* The variables of the scan keep their types: what is read from the array,
\* and what is written to it, are PIDs of the table.
THEOREM TypeCorrect == Spec => []TypeOK
  BY Invariance, TypeOKHolds, PTL

\* get_child_processes() never writes past the array it has allocated, whatever
\* the processes /proc lists and whatever their order.
THEOREM StaysInside == Spec => []StaysInsideArray
  BY Invariance, StaysInsideHolds, PTL

\* The element the last pass of get_child_processes() reads before it is written
\* is never compared with a parent PID.
THEOREM NeverUninitialized == Spec => []NeverComparesUninitialized
  BY Invariance, NeverComparesHolds, PTL

\* Each entry that is compared and each pass that ends use up some of a number of
\* steps that the length of the table bounds: there is no table on which the loop
\* of get_child_processes() that lengthens its own array goes on for ever.
THEOREM ScanRunsOut == Spec => [](ScanRank \in Nat) /\ [][ScanRank' < ScanRank]_vars
<1>1. IInv => ScanRank \in Nat
  BY RankIsNatural
<1>2. IInv /\ [Next]_vars => [ScanRank' < ScanRank]_vars
  BY StepsUseRank
<1> QED
  BY <1>1, <1>2, Invariance, PTL DEF Spec

\* The array get_child_processes() returns has exactly the descendants of the
\* command that /proc listed, each once and after its parent.
THEOREM ReturnsTheDescendants == Spec => []FindsDescendants
  BY Invariance, FindsDescendantsHolds, PTL
=============================================================================
