CONSTANTS
    Pid = {1, 2}
    Place <- Places
    MaxNotes = 2
    MaxStarts = 2
SPECIFICATION FairSpec
INVARIANTS NobodyMissed ListSorted
PROPERTY OrphansRemoved
