SPECIFICATION FairSpec
CONSTANTS
    p1 = p1
    p2 = p2
    e1 = e1
    e2 = e2
    r1 = r1
    None = None
    Procs = {p1, p2}
    Entities = {e1}
    Relations = {}
    Ends <- MCEnds
    WriteThrough = {"graph"}
    Limited = {e1}
    BatchLimit = 1
    MaxRev = 2
    MaxFaults <- FaultsServing
PROPERTIES EventuallyApplied
CHECK_DEADLOCK FALSE
