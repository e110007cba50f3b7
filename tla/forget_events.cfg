SPECIFICATION Spec
CONSTANTS
    Claims = {"c1", "c2", "c3"}
    Turns = {"t1", "t2"}
    TurnOf <- Turn
    SubjOf <- Subj
    PredOf <- Pred
    ValOf <- Val
    SessOf <- Sess
    TopFacts = 1
    MinPredicates = 2
    Concurrent = FALSE
    MaxForgets = 1
    MaxBuilds = 1
    MaxCrashes = 0
INVARIANT EventsForget
CHECK_DEADLOCK FALSE
