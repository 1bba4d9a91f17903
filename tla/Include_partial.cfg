SPECIFICATION Spec
CONSTANTS
    Name = {"a", "b", "h", "g", "x", "y", "/g"}
    quote_dirs <- MCQuoteDirs
    angle_dirs <- MCAngleDirs
    Symbol = {"S"}
    Absolute = {"/g"}
    Programs <- AbsoluteTrees
    Commands <- MCCommands
    MaxRequests = 2
    Faults = {}
CHECK_DEADLOCK FALSE
INVARIANT ClosureTrusted
