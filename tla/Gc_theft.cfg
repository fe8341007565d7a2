SPECIFICATION Spec
CONSTANTS
    Runs = {a, b}
    Kinds = {"apply", "restore"}
    N = 1
    MaxId = 1
    Layouts <- HereOrHidden
    Racing = FALSE
    NoRun = NoRun
    Gone = Gone
    MaxWrites = 2
    MaxCrashes = 0
    MaxFails = 0
    MaxSlow = 1
SYMMETRY Symmetry
INVARIANTS TypeOK LostOnlyAfterSlip
