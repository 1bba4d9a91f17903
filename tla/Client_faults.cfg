SPECIFICATION Spec
CONSTANTS
    c1 = c1  c2 = c2  c3 = c3  h1 = h1  h2 = h2
    Client = {c1, c2}
    Remote = {h1}
    Local = Local
    NoHost = NoHost
    NoLock = NoLock
    NoClient = NoClient
    HostList <- OneHost
    NSlots <- OneSlotEach
    LocalSlots = 1
    LocalCppSlots = 1
    MaxCpu = 1
    Down = {}
    Pump = {h1}
    Recursive = {}
    MaxDiscrepancies = 1
    Faults = {"tmpfile", "lock", "kill", "include_server", "spawn", "wait", "net", "cpp", "compiler", "stderr", "no_fallback"}
SYMMETRY ClientSymmetry
INVARIANT TypeOK NoLockAtCleanUp ExitZeroMeansCompiled
CHECK_DEADLOCK FALSE
