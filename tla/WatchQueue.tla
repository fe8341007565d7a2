----------------------------- MODULE WatchQueue -----------------------------
(***************************************************************************)
(* The work queue of `playbook watch` (crates/cli/src/watch): watch.db, the *)
(* instance lock, the pass of the lock holder (recover, ingest, redecide,  *)
(* run the approved items), the commands a person runs beside it, and the  *)
(* effects on GitHub, git and the model that the actions have.             *)
(*                                                                         *)
(* One step of the model is one database transaction or one call to the    *)
(* outside world.  A process may be killed between any two of them; it     *)
(* then loses its local state and the operating system frees the lock.     *)
(* A call to GitHub or git may fail, and it may fail after it had its      *)
(* effect (a timeout that loses the reply).                                *)
(***************************************************************************)
EXTENDS WatchLimits

CONSTANTS
    Items,          \* work rows that can come to exist: one per event and rule
    Rules, Objects, \* rule ids; issues and pull requests of the one watched repo
    Loops,          \* processes that run `watch` or `watch once`
    Clis,           \* processes that run approve, reject, retry, status, pause, resume
    NoProc,         \* the lock is free
    RuleOf,         \* [Items -> Rules]
    ObjectOf,       \* [Items -> Objects]
    ClassOf,        \* [Rules -> Classes], the rule's `do`
    ByModel,        \* the rules with `decide` set to `model`
    RuleCap,        \* [Rules -> [actions, usd]], the rule's day limits
    GlobalCap,      \* [actions, usd], watch.limits.*
    QueueLimit,     \* QUEUE_LIMIT (500)
    MaxAttempts,    \* MAX_ATTEMPTS (5)
    Costs,          \* what one classify decision may cost, in cents
    InitialSetting, \* [Rules -> Setting] when the model starts
    SettingMoves,   \* settings a person may give a rule while it runs
    MaxNow,         \* bound on the clock
    MaxCrashes,     \* bound on kills
    MaxLost         \* bound on calls whose answer is lost

\* A rule can be absent (or a tombstone); otherwise its level is already
\* lowered to the autonomy ceiling of the tiers.
Setting == Autonomy \cup {"missing"}

Procs == Loops \cup Clis
Scopes == Rules \cup {"*"}

ASSUME QueueAssumption ==
    /\ Loops \cap Clis = {}
    /\ NoProc \notin Loops \cup Clis
    /\ "*" \notin Rules
    /\ Items # {}
    /\ RuleOf \in [Items -> Rules]
    /\ ObjectOf \in [Items -> Objects]
    /\ ClassOf \in [Rules -> Classes]
    /\ ByModel \subseteq {r \in Rules : ClassOf[r] \in {"label", "triage_issue"}}
    /\ {r \in Rules : ClassOf[r] = "triage_issue"} \subseteq ByModel
    /\ RuleCap \in [Rules -> [actions : Nat, usd : Nat]]
    /\ \A r \in Rules :
          ClassOf[r] \in {"review_pr", "address_comment"} => RuleCap[r].usd > 0
    /\ GlobalCap \in [actions : Nat, usd : Nat]
    /\ QueueLimit \in Nat /\ MaxAttempts \in Nat \ {0}
    /\ Costs \subseteq Nat
    /\ InitialSetting \in [Rules -> Setting]
    /\ SettingMoves \subseteq Setting
    /\ MaxNow \in Nat /\ MaxCrashes \in Nat /\ MaxLost \in Nat

VARIABLES
    \* --- watch.db
    work,     \* [Items -> Row]
    journal,  \* the step an action reached
    actions,  \* [Scopes -> Nat], today's counter.actions
    usd,      \* [Scopes -> Nat], today's counter.usd
    acted,    \* [Rules -> [Objects -> time]], table acted
    paused,   \* control.paused
    \* --- config and lock files
    enabled,  \* watch.enabled, the kill switch
    setting,  \* the rules and their effective level
    lock,     \* who holds watch.lock
    \* --- one process
    pc, item, row, todo, cfg, out, bill,
    \* --- the outside world
    now,
    posted,   \* how many times the item's own effect was written to GitHub
    branch,   \* the item's branch exists on the remote
    worktree, \* the item's checkout exists on disk
    \* --- observation only
    spent,    \* dollars the model really cost today
    touched,  \* [Items -> time], when the item's action last wrote to GitHub
    late,     \* items whose action wrote to GitHub since the watch was paused
    crashes, lost

dbVars   == <<work, journal, actions, usd, acted, paused>>
confVars == <<enabled, setting>>
procVars == <<pc, item, row, todo, cfg, out, bill>>
worldVars == <<now, posted, branch, worktree>>
seenVars == <<spent, touched, late, crashes, lost>>
vars == <<dbVars, confVars, lock, procVars, worldVars, seenVars>>

(***************************************************************************)
(* Types                                                                   *)
(***************************************************************************)
\* "unseen": no row and no key in `seen` yet.
States == {"unseen", "queued", "proposed", "approved", "running", "dead", "done"}
Pending == {"queued", "proposed", "approved", "running"}

\* The reason column matters to the code only when it is `auto`.
Row == [state : States, reason : {"auto", "other"}, attempts : Nat,
        notBefore : Nat, approvedAt : Int]

\* Where a process is.  The first line holds no lock unless it is approving.
CliPcs == {"idle", "approve", "reject", "retry"}
LoopPcs == {"start", "sleep", "recover", "poll", "decide", "pick"}
RunPcs == {"begin", "perform", "write", "checkout", "tool", "stage", "push",
           "comment", "charge", "discard", "clear", "settle"}
HolderPcs == LoopPcs \cup RunPcs \cup {"status"}

\* What one try at an action found: the variants of Step, and Err.
Outcomes == {"done", "demote", "already", "skipped", "stopped", "error"}

AnyItem == CHOOSE i \in Items : TRUE

UnseenRow == [state |-> "unseen", reason |-> "other", attempts |-> 0,
              notBefore |-> 0, approvedAt |-> Never]

DbOK ==
    /\ work \in [Items -> Row]
    /\ journal \in [Items -> {"none", "worktree", "pushed"}]
    /\ actions \in [Scopes -> Nat]
    /\ usd \in [Scopes -> Nat]
    /\ acted \in [Rules -> [Objects -> Int]]
    /\ paused \in BOOLEAN

ConfOK ==
    /\ enabled \in BOOLEAN
    /\ setting \in [Rules -> Setting]
    /\ lock \in Procs \cup {NoProc}

ProcOK ==
    /\ pc \in [Procs -> CliPcs \cup HolderPcs]
    /\ item \in [Procs -> Items]
    /\ row \in [Procs -> Row]
    /\ todo \in [Procs -> SUBSET Items]
    /\ cfg \in [Procs -> [Rules -> Setting]]
    /\ out \in [Procs -> Outcomes]
    /\ bill \in [Procs -> Nat]

WorldOK ==
    /\ now \in Nat
    /\ posted \in [Items -> Nat]
    /\ branch \in [Items -> BOOLEAN]
    /\ worktree \in [Items -> BOOLEAN]

SeenOK ==
    /\ spent \in Nat
    /\ touched \in [Items -> Int]
    /\ late \subseteq Items
    /\ crashes \in Nat
    /\ lost \in Nat

TypeOK == DbOK /\ ConfOK /\ ProcOK /\ WorldOK /\ SeenOK

Init ==
    /\ work = [i \in Items |-> UnseenRow]
    /\ journal = [i \in Items |-> "none"]
    /\ actions = [s \in Scopes |-> 0]
    /\ usd = [s \in Scopes |-> 0]
    /\ acted = [r \in Rules |-> [o \in Objects |-> Never]]
    /\ paused = FALSE
    /\ enabled = TRUE
    /\ setting = InitialSetting
    /\ lock = NoProc
    /\ pc = [p \in Procs |-> "idle"]
    /\ item = [p \in Procs |-> AnyItem]
    /\ row = [p \in Procs |-> UnseenRow]
    /\ todo = [p \in Procs |-> {}]
    /\ cfg = [p \in Procs |-> InitialSetting]
    /\ out = [p \in Procs |-> "done"]
    /\ bill = [p \in Procs |-> 0]
    /\ now = 0
    /\ posted = [i \in Items |-> 0]
    /\ branch = [i \in Items |-> FALSE]
    /\ worktree = [i \in Items |-> FALSE]
    /\ spent = 0
    /\ touched = [i \in Items |-> Never]
    /\ late = {}
    /\ crashes = 0 /\ lost = 0

(***************************************************************************)
(* Helpers                                                                 *)
(***************************************************************************)
Class(i) == ClassOf[RuleOf[i]]

Goto(p, l) == pc' = [pc EXCEPT ![p] = l]

\* A process forgets what it was working on.
Forget(p) ==
    /\ item' = [item EXCEPT ![p] = AnyItem]
    /\ row' = [row EXCEPT ![p] = UnseenRow]
    /\ out' = [out EXCEPT ![p] = "done"]
    /\ bill' = [bill EXCEPT ![p] = 0]

\* The process ends: its lock is freed with it.
Exit(p) ==
    /\ Goto(p, "idle")
    /\ Forget(p)
    /\ todo' = [todo EXCEPT ![p] = {}]
    /\ cfg' = [cfg EXCEPT ![p] = InitialSetting]
    /\ lock' = IF lock = p THEN NoProc ELSE lock

\* The result of a try; what is left is to write it down, at pc `next`.
Result(p, o, next) ==
    /\ out' = [out EXCEPT ![p] = o]
    /\ Goto(p, next)

\* Tx::set_state
SetState(i, state, reason) ==
    work' = [work EXCEPT ![i].state = state, ![i].reason = reason]

\* Tx::set_retry
SetRetry(i, state, reason, attempts, notBefore) ==
    work' = [work EXCEPT ![i] = [state |-> state, reason |-> reason, attempts |-> attempts,
                                 notBefore |-> notBefore, approvedAt |-> @.approvedAt]]

InState(s) == {i \in Items : work[i].state = s}

\* The level of the item's rule under the settings `c` a process loaded.
Level(c, i) ==
    IF c[RuleOf[i]] = "missing" THEN "off" ELSE LevelOf(c[RuleOf[i]], Class(i))

(***************************************************************************)
(* The lock holder: run_loop, once and cycle                               *)
(***************************************************************************)
\* Mutated form of StartWatch: the lock file is written without asking who has it.
StartWatchAnyway(p) ==
    /\ p \in Loops /\ pc[p] = "idle" /\ enabled
    /\ lock' = p
    /\ Goto(p, "start")
    /\ UNCHANGED <<dbVars, confVars, item, row, todo, cfg, out, bill, worldVars, seenVars>>

\* `watch` and `watch once` do nothing while the watch is off, or when another
\* process holds the lock.
StartWatch(p) ==
    /\ p \in Loops /\ pc[p] = "idle" /\ enabled /\ lock = NoProc
    /\ lock' = p
    /\ Goto(p, "start")
    /\ UNCHANGED <<dbVars, confVars, item, row, todo, cfg, out, bill, worldVars, seenVars>>

\* A pass begins with the items still `running`: they belong to a killed run.
StartPass(p) ==
    /\ pc[p] \in {"start", "sleep"} /\ enabled
    /\ Goto(p, "recover")
    /\ todo' = [todo EXCEPT ![p] = InState("running")]
    /\ UNCHANGED <<dbVars, confVars, lock, item, row, cfg, out, bill, worldVars, seenVars>>

\* `once` ends after its pass, the loop when it is told to stop; a refused
\* token ends both in the middle of the polls.
StopWatch(p) ==
    /\ pc[p] \in {"sleep", "poll"}
    /\ Exit(p)
    /\ UNCHANGED <<dbVars, confVars, worldVars, seenVars>>

\* recover(), journal step `pushed` and the branch is on GitHub: the marker
\* comment is posted unless it is there, and the item is done.  If the post
\* fails, or the process is killed before the transaction, it stays running.
RecoverPushed(p, i) ==
    /\ pc[p] = "recover" /\ i \in todo[p]
    /\ journal[i] = "pushed" /\ branch[i]
    /\ todo' = [todo EXCEPT ![p] = @ \ {i}]
    /\ \/ /\ posted' = [posted EXCEPT ![i] = IF @ = 0 THEN 1 ELSE @]
          /\ SetState(i, "done", "other")
          /\ journal' = [journal EXCEPT ![i] = "none"]
          /\ lost' = lost
       \/ /\ lost < MaxLost /\ lost' = lost + 1
          /\ \/ posted[i] = 0 /\ posted' = [posted EXCEPT ![i] = 1]
             \/ UNCHANGED posted
          /\ UNCHANGED <<work, journal>>
    /\ UNCHANGED <<actions, usd, acted, paused, confVars, lock, pc, item, row, cfg,
                   out, bill, now, branch, worktree, spent, touched, late, crashes>>

\* recover(), nothing was pushed, or the question whether it was got no answer
\* (unwrap_or(false)).  `git worktree remove` fails on a missing worktree.
RecoverUnpushed(p, i) ==
    /\ pc[p] = "recover" /\ i \in todo[p]
    /\ journal[i] \in {"worktree", "pushed"}
    /\ \/ ~(journal[i] = "pushed" /\ branch[i]) /\ lost' = lost
       \/ journal[i] = "pushed" /\ branch[i] /\ lost < MaxLost /\ lost' = lost + 1
    /\ todo' = [todo EXCEPT ![p] = @ \ {i}]
    /\ \/ /\ worktree[i]
          /\ worktree' = [worktree EXCEPT ![i] = FALSE]
          /\ SetState(i, "queued", "other")
          /\ journal' = [journal EXCEPT ![i] = "none"]
       \/ /\ SetState(i, "dead", "other")
          /\ UNCHANGED <<worktree, journal>>
    /\ UNCHANGED <<actions, usd, acted, paused, confVars, lock, pc, item, row, cfg,
                   out, bill, now, posted, branch, spent, touched, late, crashes>>

\* Mutated form of RecoverUnknown: the item is left for the next start.
RecoverUnknownSkip(p, i) ==
    /\ pc[p] = "recover" /\ i \in todo[p]
    /\ journal[i] = "none"
    /\ todo' = [todo EXCEPT ![p] = @ \ {i}]
    /\ UNCHANGED <<dbVars, confVars, lock, pc, item, row, cfg, out, bill, worldVars,
                   seenVars>>

\* recover(), no step recovery knows: dead with reason `unknown_step`.
RecoverUnknown(p, i) ==
    /\ pc[p] = "recover" /\ i \in todo[p]
    /\ journal[i] = "none"
    /\ todo' = [todo EXCEPT ![p] = @ \ {i}]
    /\ SetState(i, "dead", "other")
    /\ UNCHANGED <<journal, actions, usd, acted, paused, confVars, lock, pc, item,
                   row, cfg, out, bill, worldVars, seenVars>>

\* The rules are read once per pass, after recovery (repo_rules).
EndRecover(p) ==
    /\ pc[p] = "recover" /\ todo[p] = {}
    /\ Goto(p, "poll")
    /\ cfg' = [cfg EXCEPT ![p] = setting]
    /\ UNCHANGED <<dbVars, confVars, lock, item, row, todo, out, bill, worldVars, seenVars>>

\* ingest() of one fresh event for one rule that matches it: insert_work with
\* its queue limit, then the proposal or the automatic item.
Ingest(p, i) ==
    LET level == Level(cfg[p], i)
        full  == Cardinality({j \in Items : work[j].state \in Pending}) >= QueueLimit
    IN  /\ pc[p] = "poll" /\ work[i].state = "unseen" /\ level # "off"
        /\ \/ full /\ SetState(i, "dead", "other")
           \/ ~full /\ level = "auto" /\ SetState(i, "approved", "auto")
           \/ ~full /\ level = "propose" /\ SetState(i, "proposed", "other")
        /\ UNCHANGED <<journal, actions, usd, acted, paused, confVars, lock, procVars,
                       worldVars, seenVars>>

EndPoll(p) ==
    /\ pc[p] = "poll"
    /\ Goto(p, "decide")
    /\ todo' = [todo EXCEPT ![p] = InState("queued")]
    /\ UNCHANGED <<dbVars, confVars, lock, item, row, cfg, out, bill, worldVars, seenVars>>

\* redecide() of one queued item.
Redecide(p, i) ==
    LET level == Level(cfg[p], i) IN
    /\ pc[p] = "decide" /\ i \in todo[p]
    /\ todo' = [todo EXCEPT ![p] = @ \ {i}]
    /\ \/ level = "off" /\ SetState(i, "done", "other")
       \/ level = "propose" /\ SetState(i, "proposed", "other")
       \/ level = "auto" /\ SetState(i, "approved", "auto")
    /\ UNCHANGED <<journal, actions, usd, acted, paused, confVars, lock, pc, item, row,
                   cfg, out, bill, worldVars, seenVars>>

\* run_approved(): the ids that are due are read once.
StartRun(p) ==
    /\ pc[p] = "decide" /\ todo[p] = {}
    /\ Goto(p, "pick")
    /\ todo' = [todo EXCEPT ![p] = {i \in InState("approved") : work[i].notBefore <= now}]
    /\ UNCHANGED <<dbVars, confVars, lock, item, row, cfg, out, bill, worldVars, seenVars>>

\* Mutated form of MayStart: the pause flag is not read.
MayStartAlways == TRUE

\* paused(), asked before every item.
MayStart == ~paused

\* Each id: stop when paused, then read its row.  The row's state is not
\* looked at again.
Pick(p) ==
    /\ pc[p] = "pick" /\ MayStart
    /\ \E i \in todo[p] :
         /\ todo' = [todo EXCEPT ![p] = @ \ {i}]
         /\ item' = [item EXCEPT ![p] = i]
         /\ row' = [row EXCEPT ![p] = work[i]]
    /\ Goto(p, "begin")
    /\ UNCHANGED <<dbVars, confVars, lock, cfg, out, bill, worldVars, seenVars>>

EndPass(p) ==
    /\ pc[p] = "pick" /\ (~MayStart \/ todo[p] = {})
    /\ Goto(p, "sleep")
    /\ todo' = [todo EXCEPT ![p] = {}]
    /\ cfg' = [cfg EXCEPT ![p] = InitialSetting]
    /\ UNCHANGED <<dbVars, confVars, lock, item, row, out, bill, worldVars, seenVars>>

(***************************************************************************)
(* run(): one try at one item, by the loop or by an approve with the lock  *)
(***************************************************************************)
\* Store::approvals of the item's class.
History(i) ==
    {[id |-> j, at |-> work[j].approvedAt, failed |-> work[j].state = "dead"] :
        j \in {k \in Items : /\ Class(k) = Class(i)
                             /\ work[k].approvedAt # Never
                             /\ work[k].state \in {"done", "dead"}}}

\* demotion(): why an automatic item may not run now.
Demoted(i) ==
    LET r == RuleOf[i]
        usage == [ruleActions |-> actions[r], globalActions |-> actions["*"],
                  ruleUsd |-> usd[r], globalUsd |-> usd["*"]]
        caps == [ruleActions |-> RuleCap[r].actions, globalActions |-> GlobalCap.actions,
                 ruleUsd |-> RuleCap[r].usd, globalUsd |-> GlobalCap.usd]
    IN  \/ ~WithinCaps(usage, caps, acted[r][ObjectOf[i]], now)
        \/ ~RunsFree(Class(i)) /\ ~LadderAllows(History(i), now)

\* The head of run(): the rule may be gone, the ceiling may have come down,
\* a cap or the ladder may stand in the way of an automatic item.
Begin(p) ==
    LET i == item[p]
        auto == row[p].reason = "auto"
    IN  /\ pc[p] = "begin"
        /\ \/ /\ cfg[p][RuleOf[i]] = "missing"
              /\ Result(p, "skipped", "settle")
           \/ /\ cfg[p][RuleOf[i]] # "missing"
              /\ auto /\ (Level(cfg[p], i) # "auto" \/ Demoted(i))
              /\ Result(p, "demote", "settle")
           \/ /\ cfg[p][RuleOf[i]] # "missing"
              /\ ~(auto /\ (Level(cfg[p], i) # "auto" \/ Demoted(i)))
              /\ Goto(p, "perform") /\ out' = out
        /\ UNCHANGED <<dbVars, confVars, lock, item, row, todo, cfg, bill, worldVars, seenVars>>

\* Mutated form of Present: an action no longer looks for its own effect.
PresentNever(i) == FALSE

\* The item's own effect is visible on GitHub: its marker comment, its pending
\* review, its labels, the merged pull request, the branch up to date.
Present(i) == posted[i] > 0

\* Mutated form of Remaining: the day's global cap is left out.
RemainingOfRule(i) ==
    LET left == RuleCap[RuleOf[i]].usd - usd[RuleOf[i]]
    IN  IF left > 0 THEN left ELSE 0

\* remaining_usd(): what the rule and the day have left.
Remaining(i) ==
    LET ruleLeft == RuleCap[RuleOf[i]].usd - usd[RuleOf[i]]
        dayLeft == GlobalCap.usd - usd["*"]
        left == IF ruleLeft <= dayLeft THEN ruleLeft ELSE dayLeft
    IN  IF left > 0 THEN left ELSE 0

PlainClass(i) == Class(i) \in {"label", "comment", "update_branch"} /\ RuleOf[i] \notin ByModel

\* perform(): the object is read again.  It may be closed, a fork, edited
\* since the event, in conflict, or unreadable; a merged one is closed.
PerformStop(p) ==
    /\ pc[p] = "perform"
    /\ \E o \in {"skipped", "error"} : Result(p, o, "settle")
    /\ UNCHANGED <<dbVars, confVars, lock, item, row, todo, cfg, bill, worldVars, seenVars>>

\* label by rules, comment, update_branch: check the effect, then write it.
\* Someone else may have set the label or updated the branch, and a branch that
\* was updated may have fallen behind again.
PerformPlain(p) ==
    LET i == item[p] IN
    /\ pc[p] = "perform" /\ PlainClass(i)
    /\ \/ (Present(i) \/ Class(i) # "comment") /\ Result(p, "already", "settle")
       \/ /\ ~Present(i) \/ Class(i) = "update_branch"
          /\ Goto(p, "write") /\ out' = out
    /\ UNCHANGED <<dbVars, confVars, lock, item, row, todo, cfg, bill, worldVars, seenVars>>

\* merge_when_green(): autoMerge off or not ready sends it back.  A merged
\* pull request is closed, which PerformStop covers.
PerformMerge(p) ==
    /\ pc[p] = "perform" /\ Class(item[p]) = "merge_when_green" /\ ~Present(item[p])
    /\ \/ Result(p, "demote", "settle")
       \/ Goto(p, "write") /\ out' = out
    /\ UNCHANGED <<dbVars, confVars, lock, item, row, todo, cfg, bill, worldVars, seenVars>>

\* A label or triage decided by three model calls.  They cost money whatever
\* they answer; the cost is kept only when the label is then written.  A later
\* try may settle on another label than the one an earlier try wrote.
PerformModel(p) ==
    LET i == item[p] IN
    /\ pc[p] = "perform" /\ RuleOf[i] \in ByModel
    /\ \E c \in Costs :
         /\ spent' = spent + c
         /\ \/ /\ Result(p, "demote", "settle") /\ bill' = bill
            \/ /\ Result(p, "already", "settle") /\ bill' = bill
            \/ /\ Goto(p, "write") /\ out' = out
               /\ bill' = [bill EXCEPT ![p] = c]
    /\ UNCHANGED <<dbVars, confVars, lock, item, row, todo, cfg, worldVars,
                   touched, late, crashes, lost>>

\* Mutated form of Charges: the difference to the budget instead of the cost.
ChargesDelta(c, budget) == {c - budget}

\* What a reply that cost c is charged: its own figure, or the whole budget
\* when it names none (Reply::charge).
Charges(c, budget) == {c, budget}

\* review(): marker, budget, diff, model, then the pending review.
PerformReview(p) ==
    LET i == item[p]
        budget == Remaining(i)
    IN  /\ pc[p] = "perform" /\ Class(i) = "review_pr"
        /\ \/ /\ Present(i) /\ Result(p, "already", "settle")
              /\ UNCHANGED <<bill, spent>>
           \/ /\ ~Present(i) /\ budget = 0 /\ Result(p, "demote", "settle")
              /\ UNCHANGED <<bill, spent>>
           \/ /\ ~Present(i) /\ budget > 0
              /\ \E c \in 0..budget :
                   /\ spent' = spent + c
                   /\ \/ /\ Result(p, "error", "charge")
                         /\ bill' = [bill EXCEPT ![p] = budget]
                      \/ /\ Result(p, "demote", "charge")
                         /\ \E b \in Charges(c, budget) : bill' = [bill EXCEPT ![p] = b]
                      \/ /\ Goto(p, "write") /\ out' = out
                         /\ \E b \in Charges(c, budget) : bill' = [bill EXCEPT ![p] = b]
        /\ UNCHANGED <<dbVars, confVars, lock, item, row, todo, cfg, worldVars,
                       touched, late, crashes, lost>>

\* address(), up to the journal: unsupported platform, an untrusted author in
\* the thread or no money left demote; the first step marks the item running.
PerformAddress(p) ==
    LET i == item[p] IN
    /\ pc[p] = "perform" /\ Class(i) = "address_comment"
    /\ \/ /\ Present(i) /\ Result(p, "already", "settle")
          /\ UNCHANGED <<work, journal, bill>>
       \/ /\ Result(p, "demote", "settle")
          /\ UNCHANGED <<work, journal, bill>>
       \/ /\ ~Present(i) /\ Remaining(i) > 0
          /\ SetState(i, "running", "other")
          /\ journal' = [journal EXCEPT ![i] = "worktree"]
          /\ bill' = [bill EXCEPT ![p] = Remaining(i)]
          /\ Goto(p, "checkout") /\ out' = out
    /\ UNCHANGED <<actions, usd, acted, paused, confVars, lock, item, row, todo, cfg,
                   worldVars, seenVars>>

\* The GitHub write happened: what the observers note.
Noted(p) ==
    /\ late' = IF paused THEN late \cup {item[p]} ELSE late
    /\ touched' = [touched EXCEPT ![item[p]] = now]

\* One write to GitHub: it works, it fails, or it fails after its effect.
PostEffect(p, okNext, errorNext) ==
    LET i == item[p] IN
    \/ /\ posted' = [posted EXCEPT ![i] = @ + 1]
       /\ Noted(p)
       /\ Result(p, "done", okNext)
       /\ lost' = lost
    \/ /\ Result(p, "error", errorNext)
       /\ UNCHANGED <<posted, touched, late, lost>>
    \/ /\ lost < MaxLost
       /\ posted' = [posted EXCEPT ![i] = @ + 1]
       /\ Noted(p)
       /\ Result(p, "error", errorNext)
       /\ lost' = lost + 1

\* add_labels, add_comment, update-branch, merge, create_pending_review.
\* Only a failed review is charged; the others spent nothing or drop it.
Write(p) ==
    /\ pc[p] = "write"
    /\ PostEffect(p, "settle", IF Class(item[p]) = "review_pr" THEN "charge" ELSE "settle")
    /\ UNCHANGED <<dbVars, confVars, lock, item, row, todo, cfg, bill, now, branch,
                   worktree, spent, crashes>>

(***************************************************************************)
(* address_comment after its first journal step                            *)
(***************************************************************************)
Checkout(p) ==
    LET i == item[p] IN
    /\ pc[p] = "checkout"
    /\ \/ /\ worktree' = [worktree EXCEPT ![i] = TRUE]
          /\ Goto(p, "tool") /\ out' = out
       \/ /\ Result(p, "error", "discard")
          /\ UNCHANGED worktree
    /\ UNCHANGED <<dbVars, confVars, lock, item, row, todo, cfg, bill, now, posted,
                   branch, seenVars>>

\* The editing model runs under the kill switch.  A call that failed or was
\* stopped is charged its whole budget.
Tool(p) ==
    /\ pc[p] = "tool"
    /\ \E c \in 0..bill[p] :
         /\ spent' = spent + c
         /\ \/ /\ Result(p, "error", "charge") /\ bill' = bill
            \/ /\ ~enabled /\ Result(p, "stopped", "charge") /\ bill' = bill
            \/ /\ Goto(p, "stage") /\ out' = out
               /\ \E b \in Charges(c, bill[p]) : bill' = [bill EXCEPT ![p] = b]
    /\ UNCHANGED <<dbVars, confVars, lock, item, row, todo, cfg, worldVars,
                   touched, late, crashes, lost>>

\* publish(), before the push: git failed, nothing changed, or the change is
\* over its caps; otherwise the journal moves to `pushed` first.
Stage(p) ==
    LET i == item[p] IN
    /\ pc[p] = "stage"
    /\ \/ /\ \E o \in {"error", "skipped", "demote"} : Result(p, o, "charge")
          /\ UNCHANGED journal
       \/ /\ journal' = [journal EXCEPT ![i] = "pushed"]
          /\ Goto(p, "push") /\ out' = out
    /\ UNCHANGED <<work, actions, usd, acted, paused, confVars, lock, item, row, todo,
                   cfg, bill, worldVars, seenVars>>

\* commit and push without force: a branch an earlier try left on the remote
\* refuses the new commit.
Push(p) ==
    LET i == item[p] IN
    /\ pc[p] = "push"
    /\ \/ /\ ~branch[i]
          /\ branch' = [branch EXCEPT ![i] = TRUE]
          /\ Goto(p, "comment") /\ out' = out /\ lost' = lost
       \/ /\ Result(p, "error", "charge")
          /\ UNCHANGED <<branch, lost>>
       \/ /\ ~branch[i] /\ lost < MaxLost
          /\ branch' = [branch EXCEPT ![i] = TRUE]
          /\ Result(p, "error", "charge") /\ lost' = lost + 1
    /\ UNCHANGED <<dbVars, confVars, lock, item, row, todo, cfg, bill, now, posted,
                   worktree, spent, touched, late, crashes>>

\* The marker comment that names the branch.
Comment(p) ==
    /\ pc[p] = "comment"
    /\ PostEffect(p, "discard", "charge")
    /\ UNCHANGED <<dbVars, confVars, lock, item, row, todo, cfg, bill, now, branch,
                   worktree, spent, crashes>>

\* spend(): the bill of a try that took no action.
Charge(p) ==
    LET r == RuleOf[item[p]] IN
    /\ pc[p] = "charge"
    /\ usd' = [usd EXCEPT ![r] = @ + bill[p], !["*"] = @ + bill[p]]
    /\ Goto(p, IF Class(item[p]) = "address_comment" THEN "discard" ELSE "settle")
    /\ UNCHANGED <<work, journal, actions, acted, paused, confVars, lock, item, row,
                   todo, cfg, out, bill, worldVars, seenVars>>

\* Every way out of address() removes the checkout; a failure is only logged.
Discard(p) ==
    LET i == item[p] IN
    /\ pc[p] = "discard"
    /\ \/ worktree' = [worktree EXCEPT ![i] = FALSE]
       \/ UNCHANGED worktree
    /\ Goto(p, "clear")
    /\ UNCHANGED <<dbVars, confVars, lock, item, row, todo, cfg, out, bill, now,
                   posted, branch, seenVars>>

\* clear_journal(), a transaction of its own.
Clear(p) ==
    /\ pc[p] = "clear"
    /\ journal' = [journal EXCEPT ![item[p]] = "none"]
    /\ Goto(p, "settle")
    /\ UNCHANGED <<work, actions, usd, acted, paused, confVars, lock, item, row, todo,
                   cfg, out, bill, worldVars, seenVars>>

(***************************************************************************)
(* The last transaction of run(): finish(), set() or fail()                *)
(***************************************************************************)
\* Mutated form of CountAction: the object's last action is not stamped.
CountActionNoStamp(p) ==
    LET r == RuleOf[item[p]]
    IN  /\ actions' = [actions EXCEPT ![r] = @ + 1, !["*"] = @ + 1]
        /\ usd' = [usd EXCEPT ![r] = @ + bill[p], !["*"] = @ + bill[p]]
        /\ acted' = acted

\* count_action(): the day's counters and the object's cooldown.
CountAction(p) ==
    LET i == item[p]
        r == RuleOf[i]
    IN  /\ actions' = [actions EXCEPT ![r] = @ + 1, !["*"] = @ + 1]
        /\ usd' = [usd EXCEPT ![r] = @ + bill[p], !["*"] = @ + bill[p]]
        /\ acted' = [acted EXCEPT ![r][ObjectOf[i]] = now]

\* Mutated form of Fail: the failed tries are never counted.
FailUncounted(p) ==
    \E d \in Delays(row[p].attempts) :
        /\ now + d <= MaxNow
        /\ SetRetry(item[p], "approved", row[p].reason, row[p].attempts, now + d)

\* fail(): five tries, then the dead list.  A count past MAX_ATTEMPTS is kept as
\* MAX_ATTEMPTS: the code only compares it.
Fail(p) ==
    LET tries == row[p].attempts + 1
    IN  \/ /\ tries >= MaxAttempts
           /\ SetRetry(item[p], "dead", "other", MaxAttempts, 0)
        \/ /\ tries < MaxAttempts
           /\ \E d \in Delays(row[p].attempts) :
                /\ now + d <= MaxNow
                /\ SetRetry(item[p], "approved", row[p].reason, tries, now + d)

Settle(p) ==
    LET i == item[p] IN
    /\ pc[p] = "settle"
    /\ \/ out[p] = "done" /\ SetState(i, "done", "other") /\ CountAction(p)
       \/ /\ \/ out[p] \in {"already", "skipped"} /\ SetState(i, "done", "other")
             \/ out[p] = "demote" /\ SetState(i, "proposed", "other")
             \/ out[p] = "stopped" /\ SetState(i, "approved", row[p].reason)
             \/ out[p] = "error" /\ Fail(p)
          /\ UNCHANGED <<actions, usd, acted>>
    /\ \/ /\ p \in Loops
          /\ Goto(p, "pick") /\ Forget(p) /\ UNCHANGED <<todo, cfg, lock>>
       \/ p \in Clis /\ Exit(p)
    /\ UNCHANGED <<journal, paused, confVars, worldVars, seenVars>>

(***************************************************************************)
(* The commands beside the loop.  Each reads the row in one statement and   *)
(* writes it in a later transaction.                                       *)
(***************************************************************************)
Load(c, i, next) ==
    /\ item' = [item EXCEPT ![c] = i]
    /\ row' = [row EXCEPT ![c] = work[i]]
    /\ Goto(c, next)

\* approve: load the rules, try the lock, read the row.
ApproveRead(c, i) ==
    /\ c \in Clis /\ pc[c] = "idle" /\ work[i].state = "proposed"
    /\ Load(c, i, "approve")
    /\ cfg' = [cfg EXCEPT ![c] = setting]
    /\ lock' = IF lock = NoProc THEN c ELSE lock
    /\ UNCHANGED <<dbVars, confVars, todo, out, bill, worldVars, seenVars>>

\* Mark the item approved; carry it out only with the lock and not paused.
ApproveWrite(c) ==
    LET i == item[c] IN
    /\ pc[c] = "approve"
    /\ work' = [work EXCEPT ![i] = [state |-> "approved", reason |-> "other",
                                    attempts |-> @.attempts, notBefore |-> @.notBefore,
                                    approvedAt |-> now]]
    /\ \/ /\ lock = c /\ MayStart
          /\ row' = [row EXCEPT ![c].reason = "other"]
          /\ Goto(c, "begin")
          /\ UNCHANGED <<lock, item, todo, cfg, out, bill>>
       \/ (lock # c \/ ~MayStart) /\ Exit(c)
    /\ UNCHANGED <<journal, actions, usd, acted, paused, confVars, worldVars, seenVars>>

RejectRead(c, i) ==
    /\ c \in Clis /\ pc[c] = "idle" /\ work[i].state = "proposed"
    /\ Load(c, i, "reject")
    /\ UNCHANGED <<dbVars, confVars, lock, todo, cfg, out, bill, worldVars, seenVars>>

RejectWrite(c) ==
    /\ pc[c] = "reject"
    /\ SetState(item[c], "done", "other")
    /\ Exit(c)
    /\ UNCHANGED <<journal, actions, usd, acted, paused, confVars, worldVars, seenVars>>

\* Mutated form of CanRetry: any finished item may be put back.
CanRetryFinished(i) == work[i].state \in {"dead", "done"}

CanRetry(i) == work[i].state = "dead"

RetryRead(c, i) ==
    /\ c \in Clis /\ pc[c] = "idle" /\ CanRetry(i)
    /\ Load(c, i, "retry")
    /\ UNCHANGED <<dbVars, confVars, lock, todo, cfg, out, bill, worldVars, seenVars>>

\* Mutated form of RetryWrite: the item goes straight back to be carried out.
RetryWriteApproved(c) ==
    /\ pc[c] = "retry"
    /\ SetRetry(item[c], "approved", "other", 0, 0)
    /\ Exit(c)
    /\ UNCHANGED <<journal, actions, usd, acted, paused, confVars, worldVars, seenVars>>

RetryWrite(c) ==
    /\ pc[c] = "retry"
    /\ SetRetry(item[c], "queued", "other", 0, 0)
    /\ Exit(c)
    /\ UNCHANGED <<journal, actions, usd, acted, paused, confVars, worldVars, seenVars>>

\* pause and resume, at any time and without the lock.
SetPaused(c) ==
    /\ c \in Clis /\ pc[c] = "idle"
    /\ paused' = ~paused
    /\ late' = {}
    /\ UNCHANGED <<work, journal, actions, usd, acted, confVars, lock, procVars,
                   worldVars, spent, touched, crashes, lost>>

\* status takes the lock for a moment to see whether it is free.
Status(c) ==
    /\ c \in Clis
    /\ \/ /\ pc[c] = "idle" /\ lock = NoProc
          /\ lock' = c /\ Goto(c, "status")
       \/ /\ pc[c] = "status"
          /\ lock' = NoProc /\ Goto(c, "idle")
    /\ UNCHANGED <<dbVars, confVars, item, row, todo, cfg, out, bill, worldVars, seenVars>>

(***************************************************************************)
(* The environment                                                         *)
(***************************************************************************)
\* A person turns the kill switch, or changes a rule or a ceiling.
SetEnabled ==
    /\ enabled' = ~enabled
    /\ UNCHANGED <<dbVars, setting, lock, procVars, worldVars, seenVars>>

SetRule(r) ==
    /\ \E s \in SettingMoves : s # setting[r] /\ setting' = [setting EXCEPT ![r] = s]
    /\ UNCHANGED <<dbVars, enabled, lock, procVars, worldVars, seenVars>>

\* Time passes.  Counters are kept per UTC day, so a new day starts from 0.
Tick ==
    LET newDay == DayOf(now + 1) # DayOf(now) IN
    /\ now < MaxNow
    /\ now' = now + 1
    /\ actions' = IF newDay THEN [s \in Scopes |-> 0] ELSE actions
    /\ usd' = IF newDay THEN [s \in Scopes |-> 0] ELSE usd
    /\ spent' = IF newDay THEN 0 ELSE spent
    /\ UNCHANGED <<work, journal, acted, paused, confVars, lock, procVars, posted,
                   branch, worktree, touched, late, crashes, lost>>

\* A process is killed, between any two steps.
Crash(p) ==
    /\ pc[p] # "idle" /\ crashes < MaxCrashes
    /\ crashes' = crashes + 1
    /\ Exit(p)
    /\ UNCHANGED <<dbVars, confVars, worldVars, spent, touched, late, lost>>
-----------------------------------------------------------------------------
Pass(p) ==
    \/ StartPass(p) \/ EndRecover(p) \/ EndPoll(p) \/ StartRun(p) \/ EndPass(p)
    \/ \E i \in Items : \/ RecoverPushed(p, i) \/ RecoverUnpushed(p, i)
                        \/ RecoverUnknown(p, i)
                        \/ Ingest(p, i) \/ Redecide(p, i)
    \/ Pick(p)

Try(p) ==
    \/ Begin(p)
    \/ PerformStop(p) \/ PerformPlain(p) \/ PerformMerge(p) \/ PerformModel(p)
    \/ PerformReview(p) \/ PerformAddress(p)
    \/ Write(p) \/ Checkout(p) \/ Tool(p) \/ Stage(p) \/ Push(p) \/ Comment(p)
    \/ Charge(p) \/ Discard(p) \/ Clear(p) \/ Settle(p)

Command(c) ==
    \/ \E i \in Items : ApproveRead(c, i) \/ RejectRead(c, i) \/ RetryRead(c, i)
    \/ ApproveWrite(c) \/ RejectWrite(c) \/ RetryWrite(c)
    \/ SetPaused(c) \/ Status(c)

Next ==
    \/ \E p \in Procs : \/ StartWatch(p) \/ StopWatch(p) \/ Pass(p) \/ Try(p)
                        \/ Command(p) \/ Crash(p)
    \/ SetEnabled
    \/ \E r \in Rules : SetRule(r)
    \/ Tick

Spec == Init /\ [][Next]_vars

(***************************************************************************)
(* Properties                                                              *)
(***************************************************************************)
\* The effect of an item can be recognised on GitHub: a marker, a fixed set of
\* labels, a merged pull request.  A label a model picks and a branch that falls
\* behind again are not of this kind.
Recognised(i) == RuleOf[i] \notin ByModel /\ Class(i) # "update_branch"

\* A comment, a review, a merge, a fixed set of labels and the marker of a pushed
\* branch are written to GitHub at most once per item, whatever is killed, lost
\* or retried and whoever runs it: perform() looks for the effect before every
\* write, recovery before its marker, and only the holder of watch.lock writes.
AtMostOnce == \A i \in Items : Recognised(i) => posted[i] <= 1

\* An action that is unsafe unattended (a merge, a review, code) never reaches
\* GitHub unless a person approved that item, also after a retry, a recovery or
\* a change of settings: level() caps the rule at `propose`.
UnsafeNeedsPerson ==
    \A i \in Items :
        posted[i] > 0 /\ Highest(Class(i)) = "propose" => work[i].approvedAt # Never

\* After `watch pause` at most one action still writes to GitHub, the one that
\* was already running: run_approved() and approve() ask before each item.  The
\* marker recovery posts finishes an older action and is not one.
PauseLetsOneFinish == Cardinality(late) <= 1

\* A done item stays done: nothing runs it again.
DoneIsFinal == [][\A i \in Items : work[i].state = "done" => work'[i].state = "done"]_vars

\* The model costs at most watch.limits.usdPerDay in one UTC day.  A kill between
\* a model call and its charge hides one call, which had at most that budget.
SpendWithinCap == spent <= GlobalCap.usd * (1 + crashes)

\* This step writes to GitHub for item i, and nobody approved it.
WritesAlone(i) ==
    \E p \in Procs : /\ lock = p /\ item[p] = i /\ row[p].reason = "auto"
                     /\ posted'[i] > posted[i]

\* A rule acts on its own only while fewer than actions_per_day of its items were
\* written in the UTC day of the write, the approved ones included.  Only a kill
\* or a lost reply between the effect and finish() hides an action from the count.
AutoWithinCap ==
    [][\A i \in Items : WritesAlone(i) =>
          LET today == {j \in Items \ {i} : /\ RuleOf[j] = RuleOf[i] /\ touched[j] # Never
                                            /\ DayOf(touched[j]) = DayOf(now)}
          IN  Cardinality(today) < RuleCap[RuleOf[i]].actions + crashes + lost]_vars

\* A rule that acts on its own leaves an object alone for the cooldown after any
\* action of that rule on it, unless a kill or a lost reply hid that action.
CooldownHolds ==
    [][\A i \in Items : WritesAlone(i) /\ crashes + lost = 0 =>
          \A j \in Items \ {i} :
             /\ RuleOf[j] = RuleOf[i] /\ ObjectOf[j] = ObjectOf[i] /\ touched[j] # Never
             => now - touched[j] >= ObjectCooldown]_vars

\* A class with no free pass acts on its own only after a person approved enough
\* items of that class, the oldest at least the ladder's span before.
LadderEarned ==
    [][\A i \in Items : WritesAlone(i) /\ ~RunsFree(Class(i)) =>
          LET stamps == {j \in Items : Class(j) = Class(i) /\ work[j].approvedAt # Never}
          IN  /\ Cardinality(stamps) >= LadderApprovals
              /\ \E j \in stamps : now - work[j].approvedAt >= LadderSpan]_vars

(***************************************************************************)
(* Why AtMostOnce, UnsafeNeedsPerson and PauseLetsOneFinish hold: inductive *)
(* invariants, proved in WatchSafetyProofs.                                *)
(***************************************************************************)
\* The steps of a try that come after its look for the effect, up to the write.
EffectPcs == {"write", "checkout", "tool", "stage", "push", "comment"}

\* watch.lock is exclusive: whoever is in a pass or in a try holds it.
LockInv == \A p \in Procs : pc[p] \in HolderPcs => lock = p

\* What perform() found is still true when it writes: nobody else can write the
\* effect in between.
OnceInv ==
    /\ LockInv
    /\ AtMostOnce
    /\ \A p \in Procs :
          pc[p] \in EffectPcs /\ Recognised(item[p]) => posted[item[p]] = 0

\* Wherever an unsafe item is on its way to its effect, in the table, in the ids
\* a pass has read or in a process, a person has approved it.
PersonInv ==
    \A i \in Items :
        (/\ Highest(Class(i)) = "propose"
         /\ \/ work[i].state \in {"approved", "running"}
            \/ posted[i] > 0
            \/ \E p \in Procs : \/ pc[p] \in RunPcs /\ item[p] = i
                                \/ pc[p] # "decide" /\ i \in todo[p])
        => work[i].approvedAt # Never

\* Once an action wrote after the pause, no process is on its way to another.
PauseInv ==
    /\ LockInv
    /\ ~paused => late = {}
    /\ \A i, j \in late : i = j
    /\ late # {} => \A p \in Procs : pc[p] \notin EffectPcs \cup {"begin", "perform"}

(***************************************************************************)
(* Liveness                                                                *)
(***************************************************************************)
\* The timer of install-service starts `watch once` again and again, so a
\* start that is possible again and again happens, and GitHub does not refuse
\* the token every time.  A process that is not killed goes on.  People owe
\* nothing: no fairness on the commands they may type, only on finishing one.
Fairness ==
    /\ WF_vars(Tick)
    /\ \A p \in Loops : /\ SF_vars(StartWatch(p)) /\ SF_vars(EndPoll(p))
                        /\ WF_vars(StartPass(p)) /\ WF_vars(EndRecover(p))
                        /\ WF_vars(StartRun(p)) /\ WF_vars(EndPass(p)) /\ WF_vars(Pick(p))
                        /\ WF_vars(\E i \in Items : RecoverPushed(p, i) \/ RecoverUnpushed(p, i)
                                                    \/ RecoverUnknown(p, i) \/ Redecide(p, i))
    /\ \A p \in Procs : WF_vars(Try(p))
    /\ \A c \in Clis : WF_vars(ApproveWrite(c) \/ RejectWrite(c) \/ RetryWrite(c))
                       /\ WF_vars(pc[c] = "status" /\ Status(c))

LiveSpec == Spec /\ Fairness

\* An approved item does not wait for ever: it is carried out, sent back or given
\* up, unless the watch is paused or switched off.
ApprovedSettles ==
    \A i \in Items :
        work[i].state = "approved" ~> (work[i].state # "approved" \/ paused \/ ~enabled)

\* An item left `running` by a kill is picked up by a later start.
RunningSettles ==
    \A i \in Items : work[i].state = "running" ~> (work[i].state # "running" \/ ~enabled)
=============================================================================
