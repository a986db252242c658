-------------------------- MODULE MCProcessListing --------------------------
(* Instances of ProcessListing for TLC: init is 1, runwhenidle 10. *)
EXTENDS ProcessListing

CONSTANT Names   \* of which the command and one other process have one

\* runwhenidle has started the command; the others form every tree in which
\* a parent has the lower number.
MCFamilies ==
  {f \in [Pids -> Pids \cup {0}] :
     /\ f[InitProcess] = 0 /\ f[Self] = InitProcess /\ f[Root] = Self
     /\ LET others == Pids \ {InitProcess, Root, Self} IN
          \A p \in others : f[p] \in {InitProcess, Root} \cup {q \in others : q < p}}

MCComms ==
  {[p \in Pids |-> IF p \in {Root, 3} THEN name ELSE <<"s", "h">>] : name \in Names}

\* "(s)" and "4 )": what may look like the end of a name.
PlainNames == {<<"(", "s", ")">>, <<"4", " ", ")">>}

\* "a) S 2": the name of a process that looks like a child of the command.
ClosingNames == {<<"a", ")", " ", "S", " ", "2">>}

\* What ProcessListingProofs supposes is so for the former only.
ASSUME ReadableNames == NamesAreReadable <=> Names = PlainNames
=============================================================================
