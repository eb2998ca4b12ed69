SPECIFICATION FairSpec
CONSTANTS
    Ids = {c1, c2}
    Schedules = {"once", "every1"}
    OneTime = {"once"}
    NextFire <- MCNextFire
    Resolvers = {"multi", "mint"}
    Evented = {}
    MultiTx = {"multi"}
    Defs = {"d1"}
    CommitInputs <- OnDemandCommits
    EditPatches <- NoEdits
    MaxTime = 1
    None = None
    Keep = Keep
    Unborn = Unborn
    Deleted = Deleted
    Passes = {p1}
    Callers = {h1}
    BatchLimit = 1
    MaxFaults = 1
INVARIANTS FinalStatusHasItsFire
PROPERTIES FinalStatusStays DueIsServed OneTimeRowEnds
