SPECIFICATION HttpSpec
CONSTANTS
    TurnOf <- MCTurnOf
    SessOf <- MCSessOf
    NsOf <- MCNsOf
    Turns <- MCTurns
    OldTurns = {2}
    Requests <- MCRequests
    Alike <- MCAlike
    LineOf <- MCLineOf
    None = None
    RrfK = 10
    TopK = 3
    PerSessionK = 2
    MaxAcrossHits = 4
    Toks <- MCToks
    TokenBudget = 3
    MaxNested = 1
    MaxLines = 2
    MaxValues = 2
    InitialStatus <- MCInitialStatus
    Demotable = {1}
    MaxWrites = 1
    MaxRequests = 1
    Tools = {1, 2, 3}
    Texts <- MCTexts
    Models = {"mini", "bge"}
    Lexical = {0, 1, 2}
    Cosines <- MCCosines
    ToolTopK = 2
    InitialTools <- MCInitialTools
    Tokens = {"own", "kim"}
    OwnToken = "own"
    Calls <- MCPaths
    FirstGrants <- MCFirstGrants
    Grants <- MCGrants
    Default = "home"
INVARIANTS ShownVerifies  CurrentUnlessOvertaken BetterToolFirst
PROPERTIES NoSlotWasted EverySessionHeard StoredInScope
CHECK_DEADLOCK FALSE
