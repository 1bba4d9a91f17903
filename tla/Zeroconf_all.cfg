SPECIFICATION FairSpec
CONSTANTS
    Client = {c1, c2}
    Service = {s1}
    MaxEvents = 3
    Faults = {"kill", "fork", "lock", "disk", "avahi", "resolver"}
    Nobody = Nobody
CHECK_DEADLOCK FALSE
INVARIANTS TypeOK OneDaemon NoTornRead FileMatchesHosts
PROPERTIES ClientsFinish HostsAppear
