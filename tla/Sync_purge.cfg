SPECIFICATION Spec
CONSTANTS
    Pushers = {}
    Machines = {"a", "b"}
    Procs = {"a1", "b1"}
    MachineOf <- OneEach
    LastRow <- TwoRows
    Accounts = {"x", "y"}
    AccountOf <- YThenX
    Key <- Backwards
    Lists = {{"x"}, {"x", "y"}}
    InitialConf <- AOff
    InitialRows = 0
    Commands <- PurgeAndSync
    Alone = {"enable", "disable", "purge"}
    Window = 1
    BatchRows = 1
    MaxPush = 0
    MaxPull = 0
    MaxNow = 0
    MaxSize <- OneEachRow
    MaxSalt = 2
    MaxCrashes = 1
    MaxLost = 1
INVARIANTS SentBehindMark OldHashIsNoticed PurgeLeavesNothing
