SPECIFICATION Spec
CONSTANTS
    Ids = {"a"}
    Plans <- MCMonthEnd
    Starts <- MCYearEnd
    Delays <- MCDelays
    MaxBatch = 1
    MaxFires = 3
    MaxFailures = 1
    Null = Null
    Thrown = Thrown
INVARIANT
    RecurringAlwaysFires
CHECK_DEADLOCK FALSE
