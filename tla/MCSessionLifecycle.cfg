SPECIFICATION SpecWithRestarts
CONSTANTS
    n1 = n1
    n2 = n2
    v1 = v1
    v2 = v2
    Nil = Nil
    SlotNames = {n1, n2}
    Values = {v1, v2}
    Texts = {t1}
    Owners = {o1}
    SlotLists <- MCSlotLists
    Ttls <- MCTtls
    Starts <- MCStarts
    MaxTime = 3
    Micro = 2
INVARIANTS
    SessionInv
    RestoredAsSaved
    DeadlineKept
PROPERTIES
    FollowsTransitionTable
    ImplementsApproval
CHECK_DEADLOCK FALSE
