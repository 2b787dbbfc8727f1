----------------------------- MODULE MCRuntime -----------------------------
EXTENDS Runtime, TLC
CONSTANTS t1, t2, t3, h1, h2, w0, w1
MCFaults(F) == [f \in FaultKinds |-> IF f \in F THEN 1 ELSE 0]
FaultsAll == MCFaults(FaultKinds)
FaultsStart == MCFaults({"build", "timeout"})
NoFaults == MCFaults({})
=============================================================================
