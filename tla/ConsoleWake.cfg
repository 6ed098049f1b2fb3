SPECIFICATION FairSpec
CONSTANTS
    Servers = {s1, s2}
    Viewers = {v1, v2}
    MaxReaders = 1
    MaxTasks = 2
    MaxChans = 2
    MaxIncs = 0
    Callers = {"scan", "docker"}
    Overlap = FALSE
INVARIANTS
    ReaderBound
PROPERTIES
    ViewerReads
