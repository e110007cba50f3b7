SPECIFICATION Spec
CONSTANTS
    Clients = {c1, c2}
    MaxLogins = 1
    MaxPairs = 3
    MaxCrashes = 1
    MaxFailures = 1
SYMMETRY ClientSymmetry
INVARIANTS AnsweredIsDurable ReplacedStaysOut OneSessionPerLogin
CHECK_DEADLOCK FALSE
