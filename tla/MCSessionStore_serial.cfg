SPECIFICATION FairSpec
CONSTANTS
    n1 = n1
    o1 = o1
    o2 = o2
    c1 = c1
    c2 = c2
    Nil = Nil
    SlotNames = {n1}
    Values = {v1}
    Texts = {t1}
    Owners = {o1, o2}
    Callers = {c1, c2}
    SlotLists <- MCSlotLists
    Ttl = 1
    OwnerOf <- MCOwnerOf
    Ids = {i1}
    MaxTime = 3
    MaxCalls = 1
    Serialised = TRUE
    ByListing = TRUE

    
PROPERTIES
    ArchivedStaysArchived
    SessionsCloseForGood
CHECK_DEADLOCK FALSE
