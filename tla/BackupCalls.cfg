SPECIFICATION Spec
CONSTANTS
    Calls = {c1, c2, c3}
    Earlier = {e1}
    Permits = 1
    MaxRetention = 2
    MaxKills = 1
SYMMETRY CallsSymmetry
INVARIANTS
    
    OwnBackupKept
    BackupKept

    
CHECK_DEADLOCK FALSE
