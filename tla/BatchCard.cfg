SPECIFICATION FairSpec
CONSTANTS
    Ids = {"c1", "c2"}
    First = "c1"
    MaxCalls = 2
    MaxMoves = 1
    MaxClicks = 2
    MaxFailures = 1
    None = None
INVARIANTS
    OneBatchPerClick
    LoadedIsOfPage
PROPERTIES
    EndedBatchLeavesCard
CHECK_DEADLOCK FALSE
