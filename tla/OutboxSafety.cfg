SPECIFICATION Spec
CONSTANTS
    p1 = p1
    p2 = p2
    e1 = e1
    e2 = e2
    r1 = r1
    None = None
    Procs = {p1}
    Entities = {e1, e2}
    Relations = {r1}
    Ends <- MCEnds
    WriteThrough = {"graph"}
    Limited = {r1}
    BatchLimit = 2
    MaxRev = 2
    MaxFaults <- FaultsRestart
INVARIANTS AppliedIsCurrent NoGhostProjection AppliedIsVisible AtomsRegistered
PROPERTIES ImplementsReplica
CHECK_DEADLOCK FALSE
