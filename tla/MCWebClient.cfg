SPECIFICATION FairClientSpec
CONSTANTS
    Nil = Nil
    WebCalls = {r1, r2}
    MaxSockets = 2
    MaxVersion = 3
    MaxRefusals = 1
INVARIANTS
    ClientInv
PROPERTIES
    ViewNeverGoesBack
    CallsSettle
    ViewCatchesUp
CHECK_DEADLOCK FALSE
