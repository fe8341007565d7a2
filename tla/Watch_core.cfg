SPECIFICATION Spec
CONSTANTS
    Day = 2
    ObjectCooldown = 1
    LadderApprovals = 1
    LadderSpan = 1
    BackoffBase = 1
    BackoffCap = 2
    Items <- TwoItems
    Rules <- TwoRules
    Objects = {"o1", "o2"}
    Loops = {w, v}
    Clis = {a}
    NoProc = NoProc
    RuleOf <- ByName
    ObjectOf <- OwnObject
    ClassOf <- CommentAndMerge
    ByModel = {}
    RuleCap <- CapTwo
    GlobalCap <- DayCap
    QueueLimit = 1
    MaxAttempts = 2
    Costs = {0}
    InitialSetting <- AutoTwo
    SettingMoves = {"missing"}
    MaxNow = 0
    MaxCrashes = 1
    MaxLost = 1
INVARIANTS AtMostOnce UnsafeNeedsPerson PauseLetsOneFinish
PROPERTIES KeepsItemPromise
