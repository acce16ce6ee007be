SPECIFICATION FairSpec
CONSTANTS
    Requests = {r1, r2, r3}
    Quit = quit
    MaxProcesses = 3
    MaxCrashes = 2
INVARIANTS
    BindingInv
PROPERTIES
    CallsEnd
CHECK_DEADLOCK FALSE
