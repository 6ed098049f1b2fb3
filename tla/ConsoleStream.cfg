SPECIFICATION Spec
CONSTANTS
    Servers = {s1, s2}
    Viewers = {v1}
    Chatty = {s1}
    Texts = {a, b}
    MaxLog = 2
    MaxTime = 1
    Ticks = 2
    TailLines = 1
    Capacity = 1
    HistoryLines = 2
    HistoryBytes = 3
    Maximum = 4
    Overhead = 1
    Limit = 1
    StrikeLimit = 3
    MaxBreaks = 1
    MaxPublished = 1
    MaxViews = 2
SYMMETRY TextsSymmetry
INVARIANTS
    ReplayComplete
    
    NoSilentLoss
    HistoryAccounts
CHECK_DEADLOCK FALSE
