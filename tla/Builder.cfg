SPECIFICATION Spec
CONSTANTS
    Ids = {"a", "b", "n"}
    Schedules = {"hourly", "blank"}
    OneTime = {}
    NextFire <- MCNextFire
    Resolvers = {"event", "mint"}
    Evented = {"event"}
    Defs <- Envelope
    CommitInputs <- Earlier
    EditPatches = {}
    MaxTime = 0
    None = None
    Keep = Keep
    Unborn = Unborn
    Deleted = Deleted
    Start <- MCStart
    Codes = {"", "code"}
    Payloads = {"{}", "data"}
    NoData = "{}"
    Malformed = "malformed"
    Clashing = {"data"}
    Keys = {"k"}
    ConfigEvented = {}
    DefaultCode = ""
    DefaultSchedule = "hourly"
    MaxEdits = 2
    MaxClicks = 2
    MaxTurns = 2
INVARIANTS
    PatchFitsItsRow
    EditsKept
    FormOpens
    EveryRowFires
    OneSavePerClick
PROPERTIES
    SaveKeepsForm
    UnchangedSaveIsNeutral

CHECK_DEADLOCK FALSE
