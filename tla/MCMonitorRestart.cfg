SPECIFICATION FairSpec
CONSTANTS
    Checks = {c1}
    Channels = {ch1}
    Requests = {r1}
    Forms <- AtTheEdges
    Second = 2
    Minute = 2
    MaxDuration = 3
    MaxTime = 5
    QueueCap = 1
    MaxCrashes = 1
    Nil = Nil
    Operations = {"create", "success", "update", "pause", "delete", "attach", "detach"}
INVARIANTS RecordsConsistent
PROPERTIES MissedIsDetected
CHECK_DEADLOCK FALSE
