--------------------------- MODULE MCMemorySession ---------------------------
EXTENDS MemorySession, TLC
CONSTANTS k1, k2, e1, e2, x, y

(* A new session, and one whose log has the former spelling of auto.       *)
Logs == {<<>>,
         <<[type |-> "run", id |-> k1, arg |-> "active"],
           [type |-> "done", id |-> k1, kind |-> "success"]>>}

Symmetry == Permutations({e1, e2}) \cup Permutations({x, y})
=============================================================================
