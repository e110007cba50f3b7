SPECIFICATION StoresOnlySpec
CONSTANTS
    Namespaces = {"n1"}
    Sessions = {"s1"}
    Sources <- UserAndAssistant
    Subjects = {"kim"}
    Preds = {"fact", "decision"}
    SingleValued = {"decision"}
    Vals <- Phrases
    Norm <- NormOf
    Plain <- PlainOf
    Historical <- Past
    Attr <- AttrOf
    Quantity <- QuantityOf
    Overlap <- OverlapOf
    Narrower <- NarrowerOf
    Semantic = FALSE
    MaxTurns = 3
    MaxClaims = 3
    MaxQueue = 1
    MaxUserActions = 0
CONSTRAINT Fruitful
INVARIANTS NoStaleCopy OneCurrentValue LineageComplete TrustGuard ConflictsAgree
CHECK_DEADLOCK FALSE
