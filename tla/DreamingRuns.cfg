SPECIFICATION FairSpec
CONSTANTS
    s1 = s1
    s2 = s2
    s3 = s3
    None = None
    Runs = {s1, s2, s3}
    MaxFaults <- FaultsAll
INVARIANTS RowsAgree GraphIsStaged GraphShowsLatest
PROPERTIES SlotFreed
CHECK_DEADLOCK FALSE
