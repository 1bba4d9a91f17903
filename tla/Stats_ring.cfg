CONSTANTS
    N = 5
    L = 2
    Spans = {2, 4}
    MaxWait = 12
    MaxTime = 34
    MaxTotal = 3
SPECIFICATION Spec
INVARIANT TotalsTrue
CHECK_DEADLOCK FALSE
