SPECIFICATION Spec
CONSTANTS
    Servers = {s1}
    Viewers = {v1, v2}
    MaxReaders = 1
    MaxTasks = 2
    MaxChans = 2
    MaxIncs = 1
    Callers = {"create", "start", "delete", "sync", "scan", "publish"}
    Overlap = FALSE
INVARIANTS
    
    ViewersAreServed
    
