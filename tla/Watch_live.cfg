SPECIFICATION LiveSpec
CONSTANTS
    Day = 2
    ObjectCooldown = 1
    LadderApprovals = 1
    LadderSpan = 1
    BackoffBase = 1
    BackoffCap = 2
    Items = {"m1"}
    Rules = {"r1"}
    Objects = {"o1"}
    Loops = {w}
    Clis = {a}
    NoProc = NoProc
    RuleOf <- OneRuleOne
    ObjectOf <- OneObjectOne
    ClassOf <- AddressOnly
    ByModel = {}
    RuleCap <- CapOne
    GlobalCap <- DayCap
    QueueLimit = 2
    MaxAttempts = 2
    Costs = {0}
    InitialSetting <- AutoOne
    SettingMoves = {}
    MaxNow = 1
    MaxCrashes = 1
    MaxLost = 1
INVARIANTS TypeOK
PROPERTIES ApprovedSettles RunningSettles
