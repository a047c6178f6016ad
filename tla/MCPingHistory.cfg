SPECIFICATION Spec
CONSTANTS
    Checks = {c1}
    Requests = {r1, r2}
    KeepN = 2
    GridSize = 2
    Second = 2
    MaxTime = 2
    MaxPings = 3
    Nil = Nil
SYMMETRY Symmetry
INVARIANTS TypeOK HistoryCoversLastPing PrunedStaysBounded PageExplainsLastPing
PROPERTIES CleanupLeavesThePage
CHECK_DEADLOCK FALSE
