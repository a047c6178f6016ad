SPECIFICATION Spec
CONSTANTS
    Checks = {c1}
    Channels = {ch1}
    Requests = {r1}
    Forms <- OptedIn
    Second = 1
    Minute = 1
    MaxDuration = 3
    MaxTime = 4
    QueueCap = 1
    MaxCrashes = 0
    Nil = Nil
    Operations = {"create", "success", "attach"}
PROPERTIES RecoveryAlerted
CHECK_DEADLOCK FALSE
