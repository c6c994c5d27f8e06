---------------------------- MODULE MCSendBudget ----------------------------
(* Instances of SendBudget for TLC. *)
EXTENDS SendBudget, TLC

CONSTANTS t1, t2

\* Ticks are interchangeable.
MCTicks == Permutations(Ticks)
=============================================================================
