SPECIFICATION Spec
CONSTANTS
    Ids = {c1}
    Schedules = {"once"}
    OneTime = {"once"}
    NextFire <- MCNextFire
    Resolvers = {}
    Evented = {}
    MultiTx = {}
    Defs = {"d1"}
    CommitInputs <- PlainCommits
    EditPatches <- NoEdits
    MaxTime = 2
    None = None
    Keep = Keep
    Unborn = Unborn
    Deleted = Deleted
    Passes = {p1}
    Callers = {h1}
    BatchLimit = 1
    MaxFaults = 0
INVARIANTS OneTimeFiresOnce
