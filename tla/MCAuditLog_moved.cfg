SPECIFICATION Spec
CONSTANTS
    Records = {r1, r2, r3}
    MaxRestarts = 0
    MaxFailures = 0
    Retries = FALSE
    Opened = {"none"}
INVARIANTS
    AckedOnDisk
SYMMETRY Symmetry
CHECK_DEADLOCK FALSE
