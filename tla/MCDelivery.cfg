SPECIFICATION FairSpec
CONSTANTS
    Objects <- Schema
    Files <- TwoFiles
    ChecksTable = "checks"
    Intervals <- Periods
    Second = 4
    MaxDuration = 63
    MaxAddrs = 2
    MaxHops = 1
INVARIANTS TypeOK RecordedIsComplete RunsOnFullSchema SentMeansTaken FailureHasACause
PROPERTIES StartGoesOn SendShrinks ComesUp DispatchEnds
