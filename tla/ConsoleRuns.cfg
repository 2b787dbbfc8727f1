SPECIFICATION MCSpec
CONSTANTS
    None = None
    Nothing = Nothing
    Workspaces = {w1, w2}
    Default = w1
    MaxAsked = 2
    MaxOrphans = 1
    Atoms = {"a1", "a2"}
    Entities = {"e1", "e2"}
    Others <- RestOf
    Owner <- OwnerOf
    Named = {"e1"}
    Queries = {"", "q"}
    Pages = 2
    MaxCalls = 2
    Explorations = {x1, x2}
    ExpandCalls = {"c1", "c2"}
    Payload <- PayloadOf
    Batch = 2
    MaxEvents = 3
    Members = {"m1", "m2", "m3", "m4", "m5"}
    Nowhere = Nowhere
    NoReports = NoReports
    Homes <- HomesOf
    Ties <- TiesOf
    MaxRuns = 2
    MaxPolls = 2
    Roles = {extract, query}
    FirstRole = extract
    NoRole = NoRole
    Budgets <- BudgetSet
INVARIANTS ListIsAsked DialogTruthful OneWorkspace ShownIsPrefix FinishIsShown RolesApart
PROPERTIES DecisionStands VisitedStays CatchesUp
CHECK_DEADLOCK FALSE
