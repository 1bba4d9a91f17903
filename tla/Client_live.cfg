SPECIFICATION FairSpec
CONSTANTS
    c1 = c1  c2 = c2  c3 = c3  h1 = h1  h2 = h2
    Client = {c1, c2}
    Remote = {h1}
    Local = Local
    NoHost = NoHost
    NoLock = NoLock
    NoClient = NoClient
    HostList <- HostThenLocal
    NSlots <- OneSlotEach
    LocalSlots = 1
    LocalCppSlots = 1
    MaxCpu = 2
    Down = {}
    Pump = {}
    Recursive = {}
    MaxDiscrepancies = 1
    Faults = {"net", "kill"}
PROPERTY JobsFinish
CHECK_DEADLOCK FALSE
