SPECIFICATION Spec
CONSTANTS
    Machines = {"a", "b"}
    Procs = {a1, a2, b1}
    Pushers = {a1, a2}
    MachineOf <- TwoOnA
    LastRow <- TwoRows
    Accounts = {"x"}
    AccountOf <- AllX
    Key <- Backwards
    Lists = {{"x"}}
    InitialConf <- AllOn
    InitialRows = 2
    Commands <- PushersAndPuller
    Alone = {"enable", "disable", "purge"}
    Window = 2
    BatchRows = 1
    MaxPush = 1
    MaxPull = 0
    MaxNow = 2
    MaxSize <- FirstGrows
    MaxSalt = 1
    MaxCrashes = 0
    MaxLost = 0
SYMMETRY Symmetry
INVARIANTS TypeOK NothingBehindCursor
