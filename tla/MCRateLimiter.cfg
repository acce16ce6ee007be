SPECIFICATION Spec
CONSTANTS
    Operators = {o1}
    Classes = {"broad", "bounded"}
    limit_for <- MCLimits
    Window = 2
    Threads = {t1, t2}
    MaxTime = 6
    MaxGrants = 4
    MaxStall = 2
INVARIANTS
    LimiterInv
    BurstBounded
PROPERTIES
    WindowsDisjoint
    RejectionJustified
SYMMETRY Symmetry
CHECK_DEADLOCK FALSE
