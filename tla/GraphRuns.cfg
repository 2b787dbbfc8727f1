SPECIFICATION FairSpec
CONSTANTS
    None = None
    Names <- NameSet
    Spare = "d"
    Star = "*"
    NoLabel = ""
    Ties <- TieSet
    Depths <- Few
    Limits <- Few
    MaxRetries = 1
    MaxChoices = 3
INVARIANTS SingleOwner RefreshServed OnlyLateMiscounts
PROPERTIES Settles
CHECK_DEADLOCK FALSE
