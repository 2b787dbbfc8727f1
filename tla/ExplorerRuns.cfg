SPECIFICATION FairSpec
CONSTANTS
    a = a
    b = b
    c1 = c1
    w1 = w1
    w2 = w2
    None = None
    Names = {a, b}
    Coordinators = {c1}
    Workers = {w1, w2}
    Shown <- RecallShows
    MaxCalls <- Budget
INVARIANTS ReportsAll CleanReturn
PROPERTIES Released
CHECK_DEADLOCK FALSE
