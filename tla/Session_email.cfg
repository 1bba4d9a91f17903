SPECIFICATION Spec
CONSTANTS
    Versions = {"VER_1"}
    Faults = {"email"}
INVARIANT ObjectAlwaysRetrieved
CHECK_DEADLOCK FALSE
