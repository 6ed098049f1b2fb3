SPECIFICATION FairDiskSpec
CONSTANTS
    Callers = {c1, c2}
    Forced = {c1}
    Limits = {10, 20}
    Default = 0
    MaxUpdates = 2
    Faults = {"drop", "io"}
INVARIANTS
    DiskTypeOK
    FreshLimit
    EntryIsOwned
PROPERTIES
    CallsEnd
CHECK_DEADLOCK FALSE
