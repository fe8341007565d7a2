---------------------------- MODULE WatchLimits ----------------------------
(***************************************************************************)
(* The pure decisions of watch mode: what level a rule runs at, whether    *)
(* the day's caps and the per object cap leave room for one more automatic *)
(* action, whether an action class has climbed the trust ladder, and how   *)
(* long a failed try waits.  Times are whole numbers of an abstract unit;  *)
(* dollars are whole cents.  The lengths and thresholds of the code are    *)
(* constants so that a small instance can reach every boundary.            *)
(***************************************************************************)
EXTENDS Integers, FiniteSets

CONSTANTS
    Day,              \* length of a UTC day (86 400 s)
    ObjectCooldown,   \* OBJECT_COOLDOWN (3600 s)
    LadderApprovals,  \* LADDER_APPROVALS (10)
    LadderSpan,       \* LADDER_SPAN (28 days)
    BackoffBase,      \* BASE (30 s)
    BackoffCap        \* CAP (3600 s)

ASSUME LimitsAssumption ==
    /\ Day \in Nat \ {0}
    /\ LadderApprovals \in Nat \ {0}
    /\ {ObjectCooldown, LadderSpan, BackoffBase, BackoffCap} \subseteq Nat

\* A time that was never written (SQL NULL, Rust None).
Never == -1

DayOf(now) == now \div Day

Classes == {"label", "comment", "triage_issue", "address_comment",
            "update_branch", "review_pr", "merge_when_green"}

Autonomy == {"off", "propose", "auto"}

\* Off < Propose < Auto.
Rank == [off |-> 0, propose |-> 1, auto |-> 2]

LowerOf(a, b) == IF Rank[a] <= Rank[b] THEN a ELSE b

\* The highest level an action allows, whatever the rule and the ceiling say.
Highest(class) ==
    IF class \in {"address_comment", "review_pr", "merge_when_green"}
    THEN "propose" ELSE "auto"

\* Actions that may run on their own with no track record.
RunsFree(class) == class \in {"label", "comment"}

\* Mutated form of LevelOf: the action's own limit is forgotten.
LevelUncapped(effective, class) == effective

\* level(rule, ceiling), where `effective` is the lower of rule and ceiling.
LevelOf(effective, class) == LowerOf(effective, Highest(class))

\* Mutated form of WithinCaps: the caps are off by one.
WithinCapsLoose(usage, caps, lastActed, now) ==
    /\ usage.ruleActions <= caps.ruleActions
    /\ usage.globalActions <= caps.globalActions
    /\ usage.ruleUsd <= caps.ruleUsd
    /\ usage.globalUsd <= caps.globalUsd
    /\ lastActed # Never => now - lastActed >= ObjectCooldown

\* check(): one more action of cost 0 fits the day and the object's cooldown.
WithinCaps(usage, caps, lastActed, now) ==
    /\ usage.ruleActions < caps.ruleActions
    /\ usage.globalActions < caps.globalActions
    /\ usage.ruleUsd <= caps.ruleUsd
    /\ usage.globalUsd <= caps.globalUsd
    /\ lastActed # Never => now - lastActed >= ObjectCooldown

\* Mutated form of LadderAllows: the age of the approvals is not looked at.
LadderAllowsYoung(history, now) ==
    /\ Cardinality(history) >= LadderApprovals
    /\ \A h \in history : ~h.failed

\* ladder_allows(): enough finished approvals, old enough, none of them dead.
\* history is a set of records with an id, so equal approvals stay apart.
LadderAllows(history, now) ==
    /\ Cardinality(history) >= LadderApprovals
    /\ \E h \in history : now - h.at >= LadderSpan
    /\ \A h \in history : ~h.failed

\* delay(attempt): any wait from 0 to ceiling(attempt), which doubles from BASE
\* and never passes CAP.
Delays(attempt) == {d \in 0..BackoffCap : d <= BackoffBase * 2^attempt}
=============================================================================
