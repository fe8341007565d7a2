SPECIFICATION Spec
CONSTANTS
    Day = 3
    ObjectCooldown = 2
    LadderApprovals = 1
    LadderSpan = 1
    BackoffBase = 1
    BackoffCap = 2
    Items <- TwoItems
    Rules = {"r1"}
    Objects = {"o1"}
    Loops = {w}
    Clis = {a}
    NoProc = NoProc
    RuleOf <- OneRuleTwo
    ObjectOf <- OneObjectTwo
    ClassOf <- TriageOnly
    ByModel = {"r1"}
    RuleCap <- CapOne
    GlobalCap <- DayCap
    QueueLimit = 2
    MaxAttempts = 1
    Costs = {0}
    InitialSetting <- AutoOne
    SettingMoves = {}
    MaxNow = 3
    MaxCrashes = 1
    MaxLost = 0
PROPERTIES LadderEarned AutoWithinCap CooldownHolds DoneIsFinal
