------------------------------ MODULE Startup ------------------------------
(***************************************************************************)
(* main() up to its loops: the options are parsed, the command is started  *)
(* or the process looked for, and the session is found in which the user's *)
(* activity can be observed.                                               *)
(***************************************************************************)
EXTENDS ArgumentsParsing, EnvironmentGuessing

VARIABLE command  \* "none" yet, "child", "external", or "failed": exit(1)

vars == <<command, argumentsVars, sessionVars>>

Init == command = "none" /\ ArgumentsInit /\ SessionInit

\* Blocking the signals, signalfd(), fork() or kill(pid, 0) may fail.
StartCommand ==
  /\ parsing = "parsed"
  /\ command = "none"
  /\ command' \in {IF settings.external_pid = 0 THEN "child" ELSE "external", "failed"}
  /\ UNCHANGED <<argumentsVars, sessionVars>>

Program ==
  \/ ParseArguments /\ UNCHANGED <<command, sessionVars>>
  \/ StartCommand
  \/ FindSession /\ UNCHANGED <<command, argumentsVars>>

World ==
  \/ command \in {"child", "external"} /\ Begin /\ UNCHANGED <<command, argumentsVars>>
  \/ Servers /\ UNCHANGED <<command, argumentsVars>>

Next == Program \/ World

Spec == Init /\ [][Next]_vars

\* Every variable has one of the values that the code can give it.
TypeOK ==
  /\ command \in {"none", "child", "external", "failed"}
  /\ ArgumentsTypeOK
  /\ SessionTypeOK
=============================================================================
