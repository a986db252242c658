--------------------------- MODULE IdleSupervisor ---------------------------
(***************************************************************************)
(* What runwhenidle promises about the command it is put in front of,      *)
(* without saying how idleness is detected.                                *)
(*                                                                         *)
(* While it watches the user it may hold the command and let it go on.     *)
(* Once it starts to release the command there is no way back: it never    *)
(* holds it again, lets it go on if it was held, and leaves when the       *)
(* command is over, or, if it is not the command's parent, once it runs.   *)
(* The only other end is a failure.                                        *)
(***************************************************************************)
CONSTANT ExternalPid

VARIABLES
  phase,   \* "watching", "releasing", "left", "failed"
  process  \* "runs", "held", "over"

supervisorVars == <<phase, process>>

Working == phase \in {"watching", "releasing"}

Init == phase = "watching" /\ process = "runs"

Hold ==
  /\ phase = "watching" /\ process = "runs"
  /\ process' = "held"
  /\ UNCHANGED phase

GoOn ==
  /\ Working /\ process = "held"
  /\ process' = "runs"
  /\ UNCHANGED phase

End ==
  /\ Working /\ process # "over"
  /\ process' = "over"
  /\ UNCHANGED phase

Release ==
  /\ phase = "watching"
  /\ phase' = "releasing"
  /\ UNCHANGED process

Leave ==
  /\ Working
  /\ \/ process = "over"
     \/ ExternalPid /\ phase = "releasing" /\ process = "runs"
  /\ phase' = "left"
  /\ UNCHANGED process

\* A failing call ends the program in the middle of what it was doing.
Fail ==
  /\ Working
  /\ phase' = "failed"
  /\ \/ UNCHANGED process
     \/ process = "held" /\ process' = "runs"
     \/ phase = "watching" /\ process = "runs" /\ process' = "held"

Next == Hold \/ GoOn \/ End \/ Release \/ Leave \/ Fail

Spec == Init /\ [][Next]_supervisorVars
             /\ WF_supervisorVars(phase = "releasing" /\ GoOn)
=============================================================================
