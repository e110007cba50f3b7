SPECIFICATION Spec
CONSTANTS
    Procs = {p1, p2}
    Kinds <- AllKinds
    Endings = {"superseded", "forgotten"}
    Facts <- FewFacts
    MinSessions = 2
    MaxClaims = 3
    MaxBare = 1
    MaxRetired = 1
    MaxJobs = 2
CONSTRAINT Telling
SYMMETRY ProcSymmetry
INVARIANTS CopiesAreCovered SupersededHasNoVector
PROPERTY PassSettles
CHECK_DEADLOCK FALSE
