------------------------------- MODULE Mishaps -------------------------------
(***************************************************************************)
(* Statements and calls that may fail, and pods that may die, in the       *)
(* components whose work goes on in the background (Wiki, Summaries,       *)
(* Skills): each happens at most MaxMishaps times in a behaviour.          *)
(***************************************************************************)
EXTENDS Naturals

CONSTANT MaxMishaps

VARIABLE mishap

Works == UNCHANGED mishap
Fails == mishap < MaxMishaps /\ mishap' = mishap + 1
=============================================================================
