SPECIFICATION LiveSpec
CONSTANTS
    Pids = {p1, p2, p3}
    Starters = {s1}
    Versions = {"old", "new"}
    VersionOf <- AllNew
    Kinds = {"session", "quick", "stop"}
    None = None
    Foreign = Foreign
    Timely = TRUE
    MaxFaults = 2
INVARIANTS TypeOK ServingIsRecorded
PROPERTIES TermSparesHolders ComesBack
