SPECIFICATION Spec
CONSTANTS
    Checks = {c1}
    Channels = {ch1, ch2, ch3}
    Requests = {r1, r2}
    FormCap = 2
    Nil = Nil
INVARIANTS TypeOK AloneIsExact
PROPERTIES SelectedStaysAttached
CHECK_DEADLOCK FALSE
