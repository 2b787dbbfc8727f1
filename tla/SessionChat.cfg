SPECIFICATION Spec
CONSTANTS
    Users <- UserSet
    Guest = "guest"
    None = None
    MaxRequests = 2
    MaxTokens = 3
    MaxReloads = 1
INVARIANTS HistoryIsShown HistoryOwned
PROPERTIES Settles
CHECK_DEADLOCK FALSE
