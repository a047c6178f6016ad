SPECIFICATION Spec
CONSTANTS
    Checks = {c1}
    Channels = {ch1, ch2}
    Requests = {r1}
    FormCap = 1
    Nil = Nil
INVARIANTS SelectionIsApplied
CHECK_DEADLOCK FALSE
