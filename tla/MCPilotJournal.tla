----------------------------- MODULE MCPilotJournal -----------------------------
(* Two processes, each started again and again for one of two runs. *)
EXTENDS PilotJournal, TLC

CONSTANTS p1, p2, runA, runB

Symmetry == Permutations({p1, p2}) \cup Permutations({runA, runB})
================================================================================
