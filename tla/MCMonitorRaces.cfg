SPECIFICATION Spec
CONSTANTS
    Checks = {c1}
    Channels = {ch1}
    Requests = {r1, r2}
    Forms <- OptedIn
    Second = 1
    Minute = 1
    MaxDuration = 3
    MaxTime = 2
    QueueCap = 1
    MaxCrashes = 0
    Nil = Nil
    Operations = {"create", "fail", "start", "update", "pause", "delete", "attach"}
SYMMETRY Symmetry
INVARIANTS TypeOK RecordsConsistent AlertsBacked
PROPERTIES NoResurrection ImplementsStore
CHECK_DEADLOCK FALSE
