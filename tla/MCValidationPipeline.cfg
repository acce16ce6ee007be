SPECIFICATION PipelineSpec
CONSTANTS
    Operators = {"op"}
    Classes = {"scoped", "broad"}
    BudgetOperators = {"op"}
    BudgetSessions = {"s"}
    BudgetClasses = {"scoped", "broad"}
    ActionIds = {"edit", "purge", "admin", "grant", "unknown"}
    registry <- MCRegistry
    Requests <- MCRequests
    limit_for <- MCLimits
    ceiling_for <- MCCeilings
    Window = 2
    Word = 8
    Threads = {t1, t2}
    MaxTime = 4
    MaxRequests = 3
    MaxResets = 1
INVARIANTS
    ValidatedMeansChecked
    LedgerInv
    RefusesExactlyExcess
SYMMETRY Symmetry
CHECK_DEADLOCK FALSE
