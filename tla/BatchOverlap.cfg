SPECIFICATION Spec
CONSTANTS
    Ids = {c1}
    Schedules = {"once", "every1"}
    OneTime = {"once"}
    NextFire <- MCNextFire
    Resolvers = {"mint"}
    Evented = {}
    MultiTx = {}
    Defs = {"d1"}
    CommitInputs <- MCCommits
    EditPatches <- NoEdits
    MaxTime = 2
    None = None
    Keep = Keep
    Unborn = Unborn
    Deleted = Deleted
    Batches = {b1, b2}
    MinTotal = 2
    MaxTotal = 3
    Interval = 1
    Workers = {w1, w2}
    BatchLimit = 1
    MaxCrashes = 1
SYMMETRY MCSymmetry
INVARIANTS RunsToItsTotal OneBatchPerCronoton SlotsAreSpaced
PROPERTIES EndedBatchesStay KeepsSlotLedger
