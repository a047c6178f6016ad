SPECIFICATION ServedSpec
CONSTANTS
    Checks = {c1}
    Channels = {ch1, ch2}
    Requests = {r1}
    Forms <- OptedIn
    Second = 1
    Minute = 1
    MaxDuration = 3
    MaxTime = 3
    QueueCap = 1
    MaxCrashes = 0
    Nil = Nil
    Operations = {"create", "success", "start", "attach"}
PROPERTIES DroppedIsRequeued
CHECK_DEADLOCK FALSE
