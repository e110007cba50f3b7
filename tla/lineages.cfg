SPECIFICATION ViewSpec
CONSTANTS
    Namespaces = {n1, n2}
    Sessions = {s1, s2}
    Sources <- UserAndAssistant
    Subjects = {db, cache}
    Preds = {"decision"}
    SingleValued = {"decision"}
    Vals = {pg, dyn}
    Norm <- NormOf
    Plain <- PlainOf
    Historical <- Past
    Attr <- AttrOf
    Quantity <- QuantityOf
    Overlap <- OverlapOf
    Narrower <- NarrowerOf
    Semantic = TRUE
    FallbackEpisodes = 1
    MaxTurns = 3
    MaxClaims = 3
    MaxQueue = 0
    MaxUserActions = 2
SYMMETRY Symmetry
INVARIANTS HeadIsCurrent ViewsAgree
PROPERTIES UserWordStands KeepsLedger
CHECK_DEADLOCK FALSE
