SPECIFICATION FairSpec
CONSTANTS
    Checks = {c1}
    Channels = {ch1, ch2}
    Registered = {ch1}
    Requests = {r1}
    QueueCap = 2
    Nil = Nil
INVARIANTS TypeOK EventsAccountedFor FirstInFirstOut RowsTruthful OrderlyEnd
PROPERTIES Terminates
CHECK_DEADLOCK FALSE
