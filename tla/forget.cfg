SPECIFICATION Spec
CONSTANTS
    Claims = {"c1", "c2", "c3"}
    Turns = {"t1", "t2"}
    TurnOf <- Turn
    SubjOf <- Subj
    PredOf <- Pred
    ValOf <- Val
    SessOf <- Sess
    TopFacts = 1
    MinPredicates = 2
    Concurrent = FALSE
    MaxForgets = 2
    MaxBuilds = 2
    MaxCrashes = 1
INVARIANTS DeletedIsAudited NothingCitesTheGone 
CHECK_DEADLOCK FALSE
