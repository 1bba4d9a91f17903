SPECIFICATION Spec
CONSTANTS
    c1 = c1  c2 = c2  c3 = c3  h1 = h1  h2 = h2
    Client = {c1, c2, c3}
    Remote = {h1}
    Local = Local
    NoHost = NoHost
    NoLock = NoLock
    NoClient = NoClient
    HostList <- HostThenLocal
    NSlots <- OneSlotEach
    LocalSlots = 1
    LocalCppSlots = 2
    MaxCpu = 2
    Down = {}
    Pump = {}
    Recursive = {c3}
    MaxDiscrepancies = 1
    Faults = {"net", "kill"}
SYMMETRY LockingSymmetry
INVARIANT HeldExactly SlotExclusive LocalLimit
PROPERTY RemoteAcquiredFirst
CHECK_DEADLOCK FALSE
