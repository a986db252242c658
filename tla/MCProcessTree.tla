---------------------------- MODULE MCProcessTree ----------------------------
(* Instances of ProcessTree for TLC. *)
EXTENDS ProcessTree, TLC

\* The command's descendants are interchangeable, except those of other users.
Symmetry == Permutations(Pids \ ({Root} \cup Strangers \cup Foreign))
=============================================================================
