SPECIFICATION Spec
CONSTANTS
    a = a
    b = b
    Nil = Nil
    NaN = NaN
    SlotNames = {a, b}
    Values = {v}
    Texts = {q}
    Owners = {o}
    Phrases = {p1, p2}
    Setups <- MCReact
    Coolings <- MCCoolings
    SlotLists <- MCSlotLists
    MaxCommands = 2
    MaxUpdates = 1
    Patience = 2
INVARIANTS
    ShowsTheSession
CHECK_DEADLOCK FALSE
