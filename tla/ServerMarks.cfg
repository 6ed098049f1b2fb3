SPECIFICATION FairSpec
CONSTANTS
    Calls = {c1}
    Ops = {"create", "start", "delete"}
    Faults = {}
    Supervisor = supervisor
    FailureLimit = 2
PROPERTIES
    DiskMarkClears
    NoGhostStatus

