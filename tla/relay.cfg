SPECIFICATION FairSpec
CONSTANTS
    Requests = {r1, r2}
    MaxConns = 2
INVARIANTS LatestIsRouted
PROPERTIES KeepsPromise EveryCallEnds BrainComesBack StopEndsServing
CHECK_DEADLOCK FALSE
