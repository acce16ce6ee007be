SPECIFICATION EngineSpec
CONSTANTS
    n1 = n1
    n2 = n2
    x1 = x1
    x2 = x2
    a1 = a1
    a2 = a2
    v1 = v1
    v2 = v2
    z = z
    Nil = Nil
    Failed = Nil
    ActionIds = {a1, a2}
    Versions = {v1, v2}
    Half = 4
    Bad = Bad
    Built <- MCBuilt
    Documents <- MCDocuments
    MaxPointers = 1
    SlotNames = {n1, n2}
    Values = {x1, x2}
    Texts = {}
    Owners = {o1, o2}
    SessionIds = {s1}
    Signature <- MCSignature
    Level1 <- MCLevel1
    Level2 <- MCLevel2
    Grants <- MCGrants
    MinConfidence = 7
    MinGap = 2
    Ttl = 1
    Relevance <- MCRelevance
    Glossary <- MCGlossary
    Similarity <- MCSimilarity
    Queries <- MCQueries
    OtherAnswers <- MCOtherAnswers
    MaxResults = 2
INVARIANTS
    
    ChoiceIsJustified
    ShownFitsSchema
    RetrievesTheBest
PROPERTIES
    ValuesFromAnswers
SYMMETRY Symmetry
CHECK_DEADLOCK FALSE
