SPECIFICATION Spec
CONSTANTS
    Ids = {c1}
    Schedules = {"soon", "every1", "dying"}
    OneTime = {"soon"}
    NextFire <- MCNextFire
    Resolvers = {"event", "mint"}
    Evented = {"event"}
    MultiTx = {}
    Defs = {"d1"}
    CommitInputs <- FlagCommits
    EditPatches <- RepointEdits
    MaxTime = 2
    None = None
    Keep = Keep
    Unborn = Unborn
    Deleted = Deleted
    Passes = {p1, p2}
    Callers = {}
    BatchLimit = 1
    MaxFaults = 0
SYMMETRY PassSymmetry
INVARIANTS SchedulerOffNeverArmed
PROPERTIES ClaimIsOfCurrentSchedule
