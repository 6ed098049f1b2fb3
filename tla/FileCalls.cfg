SPECIFICATION Spec
CONSTANTS
    Dirs = {d1, d2}
    Names = {x, y}
    Calls = {c1, c2}
    Files = 2
    Absent = Absent
    Torn = Torn
    Faults = {"io", "drop"}
SYMMETRY FilesSymmetry
INVARIANTS
    SuccessMeansDone
    FilesKept
    OnlyWholeFiles
CHECK_DEADLOCK FALSE
