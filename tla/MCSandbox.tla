----------------------------- MODULE MCSandbox -----------------------------
(* A TLC instance of Sandbox: two calls at a time. *)
EXTENDS Sandbox, TLC

CONSTANTS c1, c2

TwoCallers == {c1, c2}

\* Between them the callers have every kind; one runs commands beside the
\* other's file operations, and each may make two calls in a row.
KindsOf == c1 :> {"exec", "put"} @@ c2 :> {"write", "read"}

\* The contents differ in length.
Lengths == [v \in 0..MaxWrites |-> v]
=============================================================================
