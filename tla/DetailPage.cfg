SPECIFICATION Spec
CONSTANTS
    Ids = {"a", "b"}
    Schedules = {"hourly", "once"}
    OneTime = {"once"}
    NextFire <- MCNextFire
    Resolvers = {"multi"}
    Evented = {}
    Defs = {"def"}
    CommitInputs <- Bodies
    EditPatches <- Rebinds
    MaxTime = 0
    None = None
    Keep = Keep
    Unborn = Unborn
    Deleted = Deleted
    Start <- MCStart
    Past <- MCPast
    MultiTx = {"multi"}
    MaxFires = 4
    MaxEnds = 2
    PageSize = 1
    MaxTurns = 4
INVARIANTS
    TypeOK
    ShownIsOfPage
    HistoryIsOfRow
    PageInRange
    RecoveryStays
PROPERTIES
    DeletesWhatWasConfirmed

CHECK_DEADLOCK FALSE
