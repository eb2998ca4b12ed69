SPECIFICATION FairSpec
CONSTANTS
    f1 = f1
    f2 = f2
    i1 = i1
    i2 = i2
    None = None
    Fires <- MCFires
    Items <- MCItems
    Hashed <- MCHashed
    Definitions <- MCDefinitions
    MaxCrashes = 1
INVARIANTS
    KeyIsKept
    SettledIsPaid
    AnswersFitTheTick
PROPERTIES
    KeepsFireContract
    ListenEnds
CHECK_DEADLOCK FALSE
