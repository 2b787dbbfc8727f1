SPECIFICATION Spec
CONSTANTS
    t1 = t1
    t2 = t2
    t3 = t3
    h1 = h1
    h2 = h2
    w0 = w0
    w1 = w1
    None = None
    Tasks = {t1, t2}
    Handles = {h1}
    Workspaces = {w0, w1}
    Default = w0
    Deletable = {w1}
    MaxBundles = 4
    MaxFaults <- NoFaults
INVARIANTS OfflineByFault
CHECK_DEADLOCK FALSE
