SPECIFICATION Spec
CONSTANTS
    k1 = k1
    k2 = k2
    e1 = e1
    e2 = e2
    x = x
    y = y
    None = None
    Commands = {k1, k2}
    Args = {"manual", "active"}
    Legacy <- Logs
    Calls = {e1, e2}
    Workspaces = {x, y}
    MaxTurns = 2
    MaxOthers = 1
SYMMETRY Symmetry
INVARIANTS ProjectionAgrees ApprovedOnly ActivatedMeanwhile
CHECK_DEADLOCK FALSE
