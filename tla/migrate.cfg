SPECIFICATION Spec
CONSTANTS
    Procs = {p1, p2}
    Claims = {"triple", "words"}
    Structured = {"triple"}
    Absent = Absent
    Versions <- MCVersions
    MaxOpens = 3
    MaxCrashes = 1
INVARIANTS OpenIsComplete
PROPERTIES MigrationDeletesNothing WordsSurvive
CHECK_DEADLOCK FALSE
