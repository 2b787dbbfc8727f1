SPECIFICATION FairSpec
CONSTANTS
    t1 = t1
    t2 = t2
    t3 = t3
    h1 = h1
    h2 = h2
    w0 = w0
    w1 = w1
    None = None
    Tasks = {t1, t2, t3}
    Handles = {h1}
    Workspaces = {w0, w1}
    Default = w0
    Deletable = {}
    MaxBundles = 2
    MaxFaults <- FaultsStart
INVARIANTS OneCore ReadyIsChosen
PROPERTIES EveryoneReturns
CHECK_DEADLOCK FALSE
