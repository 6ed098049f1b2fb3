SPECIFICATION Spec
CONSTANTS
    Calls = {c1}
    Ops = {"create", "start", "stop", "kill", "restart", "recreate", "reconfigure", "delete"}
    Faults = {"pull", "create", "drop", "start", "attach", "config", "remove", "rmdir", "install", "port"}
    Supervisor = supervisor
    FailureLimit = 2
INVARIANTS
    
    NoTwins
    StopHolds

