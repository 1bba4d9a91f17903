SPECIFICATION FairSpec
CONSTANTS
    Kid = {k1, k2, k3}
    dcc_max_kids = 2
    child_lifetime = 1
    PipeSize = 1
    MaxJobs = 2
    NoDetach = {TRUE, FALSE}
    Stats = {TRUE, FALSE}
    JobLifetime = TRUE
    Faults = {"term", "vanish", "fork", "accept", "refuse", "pid_file"}
CHECK_DEADLOCK FALSE
INVARIANTS TypeOK NkidsExact StatsExact PidFileNamesMaster
PROPERTIES Served GroupDies
