SPECIFICATION Spec
CONSTANTS
    Runs = {a}
    Kinds = {"apply", "restore", "move"}
    N = 2
    MaxId = 1
    Layouts <- HereOrFar
    Racing = FALSE
    NoRun = NoRun
    Gone = Gone
    MaxWrites = 1
    MaxCrashes = 1
    MaxFails = 1
    MaxSlow = 0
INVARIANTS NothingLost HeldIsRecorded
PROPERTIES PendingSettles
