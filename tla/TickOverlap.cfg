SPECIFICATION Spec
CONSTANTS
    Ids = {c1, c2}
    Schedules = {"once", "every1"}
    OneTime = {"once"}
    NextFire <- MCNextFire
    Resolvers = {}
    Evented = {}
    MultiTx = {}
    Defs = {"d1"}
    CommitInputs <- PlainCommits
    EditPatches <- NoEdits
    MaxTime = 2
    None = None
    Keep = Keep
    Unborn = Unborn
    Deleted = Deleted
    Passes = {p1, p2}
    Callers = {}
    BatchLimit = 1
    MaxFaults = 1
SYMMETRY TickSymmetry
INVARIANTS ArmedPastMark OneFirePerClaim OneTimeFiresOnce
PROPERTIES KeepsClaimLedger OldestIsServed
