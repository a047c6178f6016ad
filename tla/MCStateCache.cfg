SPECIFICATION FairSpec
CONSTANTS
    Checks = {c1, c2}
    Callers = {p1, p2}
    Forms <- MCForms
    Inputs <- MCInputs
    Second = 2
    Minute = 2
    MaxDuration = 3
    MaxTime = 1
    MaxCrashes = 1
    Nil = Nil
INVARIANTS TypeOK ReadersSeeTheTable WaitingEnds
PROPERTIES ImplementsStore CallsReturn
