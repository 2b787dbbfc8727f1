SPECIFICATION MCSpec
CONSTANTS
    Statuses <- FilterSet
    Orders <- OrderSet
    Sizes <- SizeSet
    NoRequest = NoRequest
    All = "all"
    Newest = "desc"
    MaxTotal = 2
    MaxChoices = 1
    MaxArrivals = 1
    MaxLate = 1
    Drops <- DropSet
    NoBatch = NoBatch
    MaxDrops = 2
INVARIANTS OnlyLateMisleads VerdictsShown
PROPERTIES Converges
CHECK_DEADLOCK FALSE
