SPECIFICATION SignalledSpec
CONSTANTS
    Checks = {c1}
    Channels = {ch1}
    Registered = {ch1}
    Requests = {r1}
    QueueCap = 1
    Nil = Nil
INVARIANTS NoSendOnClosed
CHECK_DEADLOCK FALSE
