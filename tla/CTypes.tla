------------------------------- MODULE CTypes -------------------------------
(* Integers of the C program that the options and the guesses go through.  *)
EXTENDS Integers

CONSTANTS INT_MAX, LONG_MAX

ASSUME CTypesAssumption ==
  /\ INT_MAX \in Nat \ {0}
  /\ LONG_MAX \in Nat
  /\ INT_MAX <= LONG_MAX

\* strtol() stops at the ends of a long, and sets errno there and nowhere else.
OutOfRange(number) == number > LONG_MAX \/ number < -LONG_MAX - 1

strtol(number) ==
  CASE number > LONG_MAX      -> LONG_MAX
    [] number < -LONG_MAX - 1 -> -LONG_MAX - 1
    [] OTHER                  -> number

\* A long assigned to an int, as gcc converts it.
ToInt(long) == ((long + INT_MAX + 1) % (2 * (INT_MAX + 1))) - INT_MAX - 1
=============================================================================
