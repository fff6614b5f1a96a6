--------------------------- MODULE MCIndexServing ---------------------------
(* Instances of IndexServing for TLC. *)
EXTENDS IndexServing, TLC

\* ServedWhileAppended says nothing of what follows the end of `steady`, which
\* never becomes true again: what follows is not explored.
StillSteady == steady

=============================================================================
