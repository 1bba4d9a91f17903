SPECIFICATION FairSpec
CONSTANTS
    Name = {"a", "b", "h", "g", "x", "y", "/g"}
    quote_dirs <- MCQuoteDirs
    angle_dirs <- MCAngleDirs
    Symbol = {"S"}
    Absolute = {"/g"}
    Programs <- Trees
    Commands <- MCCommands
    MaxRequests = 3
    Faults = {"timeout", "stat_reset"}
CHECK_DEADLOCK FALSE
INVARIANTS TypeOK ClosureComplete ClosureTight
PROPERTY EveryRequestAnswered
