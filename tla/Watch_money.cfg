SPECIFICATION Spec
CONSTANTS
    Day = 1
    ObjectCooldown = 1
    LadderApprovals = 1
    LadderSpan = 1
    BackoffBase = 1
    BackoffCap = 2
    Items <- TwoItems
    Rules <- TwoRules
    Objects = {"o1", "o2"}
    Loops = {w}
    Clis = {a}
    NoProc = NoProc
    RuleOf <- ByName
    ObjectOf <- OwnObject
    ClassOf <- ReviewAndAddress
    ByModel = {}
    RuleCap <- CapTwo
    GlobalCap <- DayCap
    QueueLimit = 2
    MaxAttempts = 1
    Costs = {0}
    InitialSetting <- AutoTwo
    SettingMoves = {}
    MaxNow = 1
    MaxCrashes = 1
    MaxLost = 0
INVARIANTS SpendWithinCap
