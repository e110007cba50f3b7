SPECIFICATION Spec
CONSTANTS
    p1 = p1
    p2 = p2
    db = db
    cache = cache
    pg = pg
    dyn = dyn
    Semantic = TRUE
    Procs <- Writers
    MaxClaims = 3
    MaxUserActions = 1
    MaxMishaps = 1
    Namespaces = {"n1"}
    Sessions = {"s1"}
    Sources <- UserAndAssistant
    Subjects <- Slots
    Preds = {"decision"}
    SingleValued = {"decision"}
    Vals <- Values
    Norm <- Identity
    Historical <- NothingPast
    Attr <- NoAttributes
    Quantity <- NoPairs
    Overlap <- NoOverlap
    Narrower <- NoPairs
SYMMETRY AllAlike
INVARIANTS LooksBack RetiredWithLineage WindowsAgree
CHECK_DEADLOCK FALSE
