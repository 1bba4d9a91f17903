\* A file with two directories above it: the array grows from 0 to 1 to 3.
CONSTANTS
    NULL = NULL
    d = d
    e = e
    f = f
    Paths = {d, e, f}
    Parent <- Tree
    InitialSize = 1
    MaxArrays = 2
    MaxSignals = 2
    Faults = {"no_memory", "io_error", "exec_fails", "transfer"}
SPECIFICATION Spec
INVARIANTS SignalSafe NothingLeft
CHECK_DEADLOCK FALSE
