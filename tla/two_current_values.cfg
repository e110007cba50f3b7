SPECIFICATION Spec
CONSTANTS
    Namespaces = {"n1"}
    Sessions = {"s1"}
    Sources <- UserAndAssistant
    Subjects = {"db"}
    Preds = {"decision"}
    SingleValued = {"decision"}
    Vals <- ThreeValues
    Norm <- NormOf
    Plain <- PlainOf
    Historical <- Past
    Attr <- AttrOf
    Quantity <- QuantityOf
    Overlap <- OverlapOf
    Narrower <- NarrowerOf
    Semantic = FALSE
    MaxTurns = 3
    MaxClaims = 3
    MaxQueue = 0
    MaxUserActions = 0
INVARIANT NoSilentSecondValue
CHECK_DEADLOCK FALSE
