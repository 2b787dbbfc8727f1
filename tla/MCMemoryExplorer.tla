-------------------------- MODULE MCMemoryExplorer --------------------------
EXTENDS MemoryExplorer
CONSTANTS a, b, c1, w1, w2

(* A coordinator that explores alone goes deepest.                         *)
Budget == [x \in Coordinators \cup Workers |-> IF x = c1 THEN 3 ELSE 1]

RecallShows == {{a}}
=============================================================================
