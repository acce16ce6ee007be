SPECIFICATION SinkSpec
CONSTANTS
    Records = {r1, r2, r3}
    MaxNodes = 3
    MaxAlterations = 3
    MaxRestarts = 2
    MaxFailures = 2
    Retries = TRUE
    Opened = {"none", "file"}
INVARIANTS
    TrailInv
    OneChangeIsFound
    HeadBindsTrail
    LossNeedsReuse
    LogInv
    CleanRunIsReadable
PROPERTIES
    SyncedNeverChanges
SYMMETRY Symmetry
CHECK_DEADLOCK FALSE
