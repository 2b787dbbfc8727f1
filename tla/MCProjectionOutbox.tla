------------------------ MODULE MCProjectionOutbox ------------------------
EXTENDS ProjectionOutbox, TLC
CONSTANTS p1, p2, e1, e2, r1
MCEnds == [r \in Relations |-> {e1, e2}]
MCFaults(s, a, c) == ("store" :> s) @@ ("abort" :> a) @@ ("crash" :> c)
FaultsRestart == MCFaults(1, 0, 1)
FaultsServing == MCFaults(1, 1, 0)
=============================================================================
