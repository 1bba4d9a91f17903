SPECIFICATION FairSpec
CONSTANTS
    Versions = {"VER_1", "VER_2", "VER_3"}
    Faults = {"reset", "server_vanishes", "timeout", "xfile", "open", "local", "cpp", "compiler", "lifetime", "server", "client_vanishes", "client_killed", "unlink", "version"}
INVARIANT TypeOK SuccessMeansObject NoPartialObject NoStrayInput StatsTruthful
PROPERTIES BothEnd ImplementsRemoteJob
CHECK_DEADLOCK FALSE
