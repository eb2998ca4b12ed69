SPECIFICATION Spec
CONSTANTS
    Ids = {"a", "b"}
    Plans <- MCPlans
    Starts <- MCStarts
    Delays <- MCDelays
    MaxBatch = 1
    MaxFires = 2
    MaxFailures = 1
    Null = Null
    Thrown = Thrown
INVARIANTS
    NoOccurrenceMissed
PROPERTIES
    AdvancedOnlyWhenEnqueued
    OnceUnlessFailed
CHECK_DEADLOCK FALSE
