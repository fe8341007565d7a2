-------------------------- MODULE WatchQueueProofs --------------------------
(***************************************************************************)
(* Proofs about the work queue of watch mode, for any number of items,     *)
(* rules, objects and processes, and for any bound on kills, lost answers  *)
(* and time:                                                               *)
(*                                                                         *)
(*   - TypeOK is invariant;                                                *)
(*   - AtMostOnce, UnsafeNeedsPerson and PauseLetsOneFinish follow from     *)
(*     inductive invariants that rest on the mutual exclusion that         *)
(*     watch.lock gives (LockInv).                                         *)
(***************************************************************************)
EXTENDS WatchQueue, TLAPS, FiniteSetTheorems

-----------------------------------------------------------------------------
(* What the assumptions say, in the form the proofs use.                    *)

\* The constants have the types the configuration code gives them.
LEMMA ConstantTypes ==
    /\ RuleOf \in [Items -> Rules] /\ ObjectOf \in [Items -> Objects]
    /\ ClassOf \in [Rules -> Classes]
    /\ RuleCap \in [Rules -> [actions : Nat, usd : Nat]]
    /\ GlobalCap \in [actions : Nat, usd : Nat]
    /\ Costs \subseteq Nat /\ MaxAttempts \in Nat
    /\ InitialSetting \in [Rules -> Setting] /\ SettingMoves \subseteq Setting
    /\ AnyItem \in Items
    /\ UnseenRow \in Row
    /\ BackoffCap \in Nat
    /\ NoProc \notin Procs
  BY QueueAssumption, LimitsAssumption
     DEF AnyItem, UnseenRow, Row, States, Never, Procs

-----------------------------------------------------------------------------
(* Types of the building blocks.                                            *)

\* set_state leaves every row well formed.
LEMMA SetStateType ==
    ASSUME DbOK, NEW i \in Items, NEW s \in States, NEW r \in {"auto", "other"},
           SetState(i, s, r)
    PROVE  work' \in [Items -> Row]
  <1>1. work[i] \in Row
    BY DEF DbOK
  <1>2. [work[i] EXCEPT !.state = s, !.reason = r] \in Row
    BY <1>1 DEF Row
  <1>3. work' = [work EXCEPT ![i] = [work[i] EXCEPT !.state = s, !.reason = r]]
    BY DEF SetState, DbOK
  <1> QED
    BY <1>2, <1>3 DEF DbOK

\* set_retry does so too.
LEMMA SetRetryType ==
    ASSUME DbOK, NEW i \in Items, NEW s \in States, NEW r \in {"auto", "other"},
           NEW n \in Nat, NEW t \in Nat, SetRetry(i, s, r, n, t)
    PROVE  work' \in [Items -> Row]
  BY DEF DbOK, SetRetry, Row

\* A wait is a natural number.
LEMMA DelaysType == ASSUME NEW n PROVE Delays(n) \subseteq Nat
  BY ConstantTypes DEF Delays

\* A step of a try leaves the program counter and the outcome well formed.
LEMMA ResultType ==
    ASSUME ProcOK, NEW p \in Procs, NEW o \in Outcomes, NEW l \in RunPcs, Result(p, o, l)
    PROVE  pc' \in [Procs -> CliPcs \cup HolderPcs] /\ out' \in [Procs -> Outcomes]
  BY DEF ProcOK, Result, Goto, HolderPcs

LEMMA GotoType ==
    ASSUME ProcOK, NEW p \in Procs, NEW l \in CliPcs \cup HolderPcs, Goto(p, l)
    PROVE  pc' \in [Procs -> CliPcs \cup HolderPcs]
  BY DEF ProcOK, Goto

LEMMA ForgetType ==
    ASSUME ProcOK, NEW p \in Procs, Forget(p)
    PROVE  /\ item' \in [Procs -> Items] /\ row' \in [Procs -> Row]
           /\ out' \in [Procs -> Outcomes] /\ bill' \in [Procs -> Nat]
  BY ConstantTypes DEF ProcOK, Forget, Outcomes

LEMMA ExitType ==
    ASSUME ProcOK, ConfOK, NEW p \in Procs, Exit(p)
    PROVE  ProcOK' /\ lock' \in Procs \cup {NoProc}
  <1>1. Forget(p)
    BY DEF Exit
  <1>2. /\ pc' \in [Procs -> CliPcs \cup HolderPcs] /\ todo' \in [Procs -> SUBSET Items]
        /\ cfg' \in [Procs -> [Rules -> Setting]]
    BY ConstantTypes DEF ProcOK, Exit, Goto, CliPcs
  <1>3. lock' \in Procs \cup {NoProc}
    BY DEF ConfOK, Exit
  <1> QED
    BY <1>1, <1>2, <1>3, ForgetType DEF ProcOK

\* The budget of a model call is a natural number of cents.
LEMMA RemainingType ==
    ASSUME TypeOK, NEW i \in Items
    PROVE  Remaining(i) \in Nat
  BY ConstantTypes DEF Remaining, TypeOK, DbOK, Scopes

\* One write to GitHub keeps the types of all it may change.
LEMMA PostEffectType ==
    ASSUME TypeOK, NEW p \in Procs, NEW l \in RunPcs, NEW m \in RunPcs, PostEffect(p, l, m)
    PROVE  /\ pc' \in [Procs -> CliPcs \cup HolderPcs] /\ out' \in [Procs -> Outcomes]
           /\ posted' \in [Items -> Nat]
           /\ late' \subseteq Items /\ touched' \in [Items -> Int] /\ lost' \in Nat
  <1>1. pc' \in [Procs -> CliPcs \cup HolderPcs] /\ out' \in [Procs -> Outcomes]
    <2>1. \/ Result(p, "done", l)
          \/ Result(p, "error", m)
      BY DEF PostEffect
    <2> QED
      BY <2>1, ResultType DEF TypeOK, Outcomes
  <1>2. posted' \in [Items -> Nat] /\ lost' \in Nat
    BY DEF PostEffect, TypeOK, WorldOK, SeenOK
  <1>3. Noted(p) \/ UNCHANGED <<touched, late>>
    BY DEF PostEffect
  <1>4. late' \subseteq Items /\ touched' \in [Items -> Int]
    BY <1>3 DEF Noted, TypeOK, ProcOK, SeenOK, WorldOK
  <1> QED
    BY <1>1, <1>2, <1>4

-----------------------------------------------------------------------------
(* Every action keeps TypeOK.                                               *)

\* The pass of the lock holder.
LEMMA PassType ==
    ASSUME TypeOK, NEW p \in Procs, Pass(p)
    PROVE  TypeOK'
  <1> USE ConstantTypes
  <1>1. ASSUME StartPass(p) PROVE TypeOK'
    BY <1>1 DEF TypeOK, DbOK, ConfOK, ProcOK, WorldOK, SeenOK, StartPass, InState, Goto,
                HolderPcs, LoopPcs, dbVars, confVars, worldVars, seenVars
  <1>2. ASSUME EndRecover(p) PROVE TypeOK'
    BY <1>2 DEF TypeOK, DbOK, ConfOK, ProcOK, WorldOK, SeenOK, EndRecover, Goto,
                HolderPcs, LoopPcs, dbVars, confVars, worldVars, seenVars
  <1>3. ASSUME EndPoll(p) PROVE TypeOK'
    BY <1>3 DEF TypeOK, DbOK, ConfOK, ProcOK, WorldOK, SeenOK, EndPoll, InState, Goto,
                HolderPcs, LoopPcs, dbVars, confVars, worldVars, seenVars
  <1>4. ASSUME StartRun(p) PROVE TypeOK'
    BY <1>4 DEF TypeOK, DbOK, ConfOK, ProcOK, WorldOK, SeenOK, StartRun, InState, Goto,
                HolderPcs, LoopPcs, dbVars, confVars, worldVars, seenVars
  <1>5. ASSUME EndPass(p) PROVE TypeOK'
    BY <1>5 DEF TypeOK, DbOK, ConfOK, ProcOK, WorldOK, SeenOK, EndPass, Goto,
                HolderPcs, LoopPcs, dbVars, confVars, worldVars, seenVars
  <1>6. ASSUME Pick(p) PROVE TypeOK'
    BY <1>6 DEF TypeOK, DbOK, ConfOK, ProcOK, WorldOK, SeenOK, Pick, Goto,
                HolderPcs, RunPcs, dbVars, confVars, worldVars, seenVars
  <1>7. ASSUME NEW i \in Items, RecoverPushed(p, i) PROVE TypeOK'
    <2>1. SetState(i, "done", "other") \/ UNCHANGED work
      BY <1>7 DEF RecoverPushed
    <2>2. work' \in [Items -> Row]
      BY <2>1, SetStateType DEF TypeOK, DbOK, States
    <2>3. DbOK'
      BY <1>7, <2>2 DEF TypeOK, DbOK, RecoverPushed
    <2>4. ConfOK' /\ ProcOK'
      BY <1>7 DEF TypeOK, ConfOK, ProcOK, RecoverPushed, confVars
    <2>5. WorldOK' /\ SeenOK'
      <3>1. posted' \in [Items -> Nat]
        BY <1>7 DEF TypeOK, WorldOK, RecoverPushed
      <3>2. lost' \in Nat
        BY <1>7 DEF TypeOK, SeenOK, RecoverPushed
      <3> QED
        BY <1>7, <3>1, <3>2 DEF TypeOK, WorldOK, SeenOK, RecoverPushed
    <2> QED
      BY <2>3, <2>4, <2>5 DEF TypeOK
  <1>8. ASSUME NEW i \in Items, RecoverUnpushed(p, i) PROVE TypeOK'
    <2>1. SetState(i, "queued", "other") \/ SetState(i, "dead", "other")
      BY <1>8 DEF RecoverUnpushed
    <2>2. work' \in [Items -> Row]
      BY <2>1, SetStateType DEF TypeOK, States
    <2>3. DbOK'
      BY <1>8, <2>2 DEF TypeOK, DbOK, RecoverUnpushed
    <2>4. ConfOK' /\ ProcOK'
      BY <1>8 DEF TypeOK, ConfOK, ProcOK, RecoverUnpushed, confVars
    <2>5. WorldOK'
      <3>1. worktree' = [worktree EXCEPT ![i] = FALSE] \/ UNCHANGED worktree
        BY <1>8 DEF RecoverUnpushed
      <3> QED
        BY <1>8, <3>1 DEF TypeOK, WorldOK, RecoverUnpushed
    <2>6. SeenOK'
      BY <1>8 DEF TypeOK, SeenOK, RecoverUnpushed
    <2> QED
      BY <2>3, <2>4, <2>5, <2>6 DEF TypeOK
  <1>9. ASSUME NEW i \in Items, RecoverUnknown(p, i) PROVE TypeOK'
    <2>1. work' \in [Items -> Row]
      BY <1>9, SetStateType DEF TypeOK, States, RecoverUnknown
    <2> QED
      BY <1>9, <2>1 DEF TypeOK, DbOK, ConfOK, ProcOK, WorldOK, SeenOK, RecoverUnknown,
                        confVars, worldVars, seenVars
  <1>10. ASSUME NEW i \in Items, Ingest(p, i) PROVE TypeOK'
    <2>1. \/ SetState(i, "dead", "other")
          \/ SetState(i, "approved", "auto")
          \/ SetState(i, "proposed", "other")
      BY <1>10 DEF Ingest
    <2>2. work' \in [Items -> Row]
      BY <2>1, SetStateType DEF TypeOK, States
    <2> QED
      BY <1>10, <2>2 DEF TypeOK, DbOK, ConfOK, ProcOK, WorldOK, SeenOK, Ingest,
                         confVars, procVars, worldVars, seenVars
  <1>11. ASSUME NEW i \in Items, Redecide(p, i) PROVE TypeOK'
    <2>1. \/ SetState(i, "done", "other")
          \/ SetState(i, "approved", "auto")
          \/ SetState(i, "proposed", "other")
      BY <1>11 DEF Redecide
    <2>2. work' \in [Items -> Row]
      BY <2>1, SetStateType DEF TypeOK, States
    <2> QED
      BY <1>11, <2>2 DEF TypeOK, DbOK, ConfOK, ProcOK, WorldOK, SeenOK, Redecide,
                         confVars, worldVars, seenVars
  <1> QED
    BY <1>1, <1>2, <1>3, <1>4, <1>5, <1>6, <1>7, <1>8, <1>9, <1>10, <1>11 DEF Pass

\* The decision what to do, up to the first effect.
LEMMA PerformType ==
    ASSUME TypeOK, NEW p \in Procs,
           \/ Begin(p) \/ PerformStop(p) \/ PerformPlain(p) \/ PerformMerge(p)
           \/ PerformModel(p) \/ PerformReview(p) \/ PerformAddress(p)
    PROVE  TypeOK'
  <1>1. ASSUME Begin(p) \/ PerformStop(p) \/ PerformPlain(p) \/ PerformMerge(p)
        PROVE  TypeOK'
    <2>1. \/ \E o \in Outcomes : Result(p, o, "settle")
          \/ out' = out /\ Goto(p, "perform")
          \/ out' = out /\ Goto(p, "write")
      BY <1>1 DEF Begin, PerformStop, PerformPlain, PerformMerge, Outcomes
    <2>2. pc' \in [Procs -> CliPcs \cup HolderPcs] /\ out' \in [Procs -> Outcomes]
      BY <2>1, ResultType, GotoType DEF TypeOK, ProcOK, HolderPcs, RunPcs
    <2>3. UNCHANGED <<dbVars, confVars, lock, item, row, todo, cfg, bill, worldVars, seenVars>>
      BY <1>1 DEF Begin, PerformStop, PerformPlain, PerformMerge
    <2> QED
      BY <2>2, <2>3 DEF TypeOK, DbOK, ConfOK, ProcOK, WorldOK, SeenOK,
                        dbVars, confVars, worldVars, seenVars
  <1>2. ASSUME PerformModel(p) PROVE TypeOK'
    <2>1. PICK c \in Costs :
             /\ spent' = spent + c
             /\ \/ /\ \E o \in Outcomes : Result(p, o, "settle")
                   /\ bill' = bill
                \/ /\ Goto(p, "write") /\ out' = out
                   /\ bill' = [bill EXCEPT ![p] = c]
      BY <1>2 DEF PerformModel, Outcomes
    <2>2. pc' \in [Procs -> CliPcs \cup HolderPcs] /\ out' \in [Procs -> Outcomes]
      BY <2>1, ResultType, GotoType DEF TypeOK, ProcOK, HolderPcs, RunPcs
    <2>3. c \in Nat
      BY ConstantTypes
    <2>4. spent' \in Nat
      BY <2>1, <2>3 DEF TypeOK, SeenOK
    <2>5. bill' \in [Procs -> Nat]
      BY <2>1, <2>3 DEF TypeOK, ProcOK
    <2> QED
      BY <1>2, <2>2, <2>4, <2>5 DEF TypeOK, DbOK, ConfOK, ProcOK, WorldOK, SeenOK, PerformModel,
                              dbVars, confVars, worldVars
  <1>3. ASSUME PerformReview(p) PROVE TypeOK'
    <2> DEFINE budget == Remaining(item[p])
    <2>1. budget \in Nat
      BY RemainingType DEF TypeOK, ProcOK
    <2>2. \/ UNCHANGED <<bill, spent>>
          \/ /\ \E c \in 0..budget : spent' = spent + c
             /\ \E b \in Nat : bill' = [bill EXCEPT ![p] = b]
      BY <1>3, <2>1 DEF PerformReview, Charges
    <2> HIDE DEF budget
    <2>3. spent' \in Nat /\ bill' \in [Procs -> Nat]
      BY <2>1, <2>2 DEF TypeOK, ProcOK, SeenOK
    <2>4. \/ \E o \in Outcomes, l \in RunPcs : Result(p, o, l)
          \/ Goto(p, "write") /\ out' = out
      BY <1>3 DEF PerformReview, RunPcs, Outcomes
    <2>5. pc' \in [Procs -> CliPcs \cup HolderPcs] /\ out' \in [Procs -> Outcomes]
      BY <2>4, ResultType, GotoType DEF TypeOK, ProcOK, HolderPcs, RunPcs
    <2> QED
      BY <1>3, <2>3, <2>5 DEF TypeOK, DbOK, ConfOK, ProcOK, WorldOK, SeenOK, PerformReview,
                              dbVars, confVars, worldVars
  <1>4. ASSUME PerformAddress(p) PROVE TypeOK'
    <2>1. \/ SetState(item[p], "running", "other") \/ UNCHANGED work
      BY <1>4 DEF PerformAddress
    <2>2. work' \in [Items -> Row]
      BY <2>1, SetStateType DEF TypeOK, DbOK, ProcOK, States
    <2>3. DbOK'
      BY <1>4, <2>2 DEF TypeOK, DbOK, ProcOK, PerformAddress
    <2>4. \/ \E o \in Outcomes : Result(p, o, "settle")
          \/ Goto(p, "checkout") /\ out' = out
      BY <1>4 DEF PerformAddress, Outcomes
    <2>5. pc' \in [Procs -> CliPcs \cup HolderPcs] /\ out' \in [Procs -> Outcomes]
      BY <2>4, ResultType, GotoType DEF TypeOK, ProcOK, HolderPcs, RunPcs
    <2>6. bill' \in [Procs -> Nat]
      BY <1>4, RemainingType DEF PerformAddress, TypeOK, ProcOK
    <2> QED
      BY <1>4, <2>3, <2>5, <2>6 DEF TypeOK, ConfOK, ProcOK, WorldOK, SeenOK, PerformAddress,
                                    confVars, worldVars, seenVars
  <1> QED
    BY <1>1, <1>2, <1>3, <1>4
\* The effects of a try and what is written down about it.
LEMMA EffectType ==
    ASSUME TypeOK, NEW p \in Procs,
           \/ Write(p) \/ Checkout(p) \/ Tool(p) \/ Stage(p) \/ Push(p) \/ Comment(p)
           \/ Charge(p) \/ Discard(p) \/ Clear(p)
    PROVE  TypeOK'
  <1>1. ASSUME Write(p) PROVE TypeOK'
    <2>1. \E m \in RunPcs : PostEffect(p, "settle", m)
      BY <1>1 DEF Write, RunPcs
    <2>2. /\ pc' \in [Procs -> CliPcs \cup HolderPcs] /\ out' \in [Procs -> Outcomes]
          /\ posted' \in [Items -> Nat]
          /\ late' \subseteq Items /\ touched' \in [Items -> Int] /\ lost' \in Nat
      BY <2>1, PostEffectType DEF RunPcs
    <2> QED
      BY <1>1, <2>2 DEF TypeOK, DbOK, ConfOK, ProcOK, WorldOK, SeenOK, Write, dbVars, confVars
  <1>2. ASSUME Comment(p) PROVE TypeOK'
    <2>1. /\ pc' \in [Procs -> CliPcs \cup HolderPcs] /\ out' \in [Procs -> Outcomes]
          /\ posted' \in [Items -> Nat]
          /\ late' \subseteq Items /\ touched' \in [Items -> Int] /\ lost' \in Nat
      BY <1>2, PostEffectType DEF Comment, RunPcs
    <2> QED
      BY <1>2, <2>1 DEF TypeOK, DbOK, ConfOK, ProcOK, WorldOK, SeenOK, Comment, dbVars, confVars
  <1>3. ASSUME Checkout(p) PROVE TypeOK'
    <2>1. \/ Result(p, "error", "discard")
          \/ Goto(p, "tool") /\ out' = out
      BY <1>3 DEF Checkout
    <2>2. pc' \in [Procs -> CliPcs \cup HolderPcs] /\ out' \in [Procs -> Outcomes]
      BY <2>1, ResultType, GotoType DEF TypeOK, ProcOK, HolderPcs, RunPcs, Outcomes
    <2>3. worktree' \in [Items -> BOOLEAN]
      BY <1>3 DEF Checkout, TypeOK, WorldOK, ProcOK
    <2> QED
      BY <1>3, <2>2, <2>3 DEF TypeOK, DbOK, ConfOK, ProcOK, WorldOK, SeenOK, Checkout,
                              dbVars, confVars, seenVars
  <1>4. ASSUME Tool(p) PROVE TypeOK'
    <2>1. bill[p] \in Nat
      BY DEF TypeOK, ProcOK
    <2>2. PICK c \in 0..bill[p] : 
             /\ spent' = spent + c
             /\ bill' = bill \/ \E b \in {c, bill[p]} : bill' = [bill EXCEPT ![p] = b]
      BY <1>4 DEF Tool, Charges
    <2>3. spent' \in Nat
      BY <2>1, <2>2 DEF TypeOK, SeenOK
    <2>4. bill' \in [Procs -> Nat]
      BY <2>1, <2>2 DEF TypeOK, ProcOK
    <2>5. \/ \E o \in Outcomes : Result(p, o, "charge")
          \/ Goto(p, "stage") /\ out' = out
      BY <1>4 DEF Tool, Outcomes
    <2>6. pc' \in [Procs -> CliPcs \cup HolderPcs] /\ out' \in [Procs -> Outcomes]
      BY <2>5, ResultType, GotoType DEF TypeOK, ProcOK, HolderPcs, RunPcs
    <2> QED
      BY <1>4, <2>3, <2>4, <2>6 DEF TypeOK, DbOK, ConfOK, ProcOK, WorldOK, SeenOK, Tool,
                                    dbVars, confVars, worldVars
  <1>5. ASSUME Stage(p) PROVE TypeOK'
    <2>1. \/ \E o \in Outcomes : Result(p, o, "charge")
          \/ Goto(p, "push") /\ out' = out
      BY <1>5 DEF Stage, Outcomes
    <2>2. pc' \in [Procs -> CliPcs \cup HolderPcs] /\ out' \in [Procs -> Outcomes]
      BY <2>1, ResultType, GotoType DEF TypeOK, ProcOK, HolderPcs, RunPcs
    <2>3. journal' \in [Items -> {"none", "worktree", "pushed"}]
      BY <1>5 DEF Stage, TypeOK, DbOK, ProcOK
    <2> QED
      BY <1>5, <2>2, <2>3 DEF TypeOK, DbOK, ConfOK, ProcOK, WorldOK, SeenOK, Stage,
                              confVars, worldVars, seenVars
  <1>6. ASSUME Push(p) PROVE TypeOK'
    <2>1. \/ Result(p, "error", "charge")
          \/ Goto(p, "comment") /\ out' = out
      BY <1>6 DEF Push
    <2>2. pc' \in [Procs -> CliPcs \cup HolderPcs] /\ out' \in [Procs -> Outcomes]
      BY <2>1, ResultType, GotoType DEF TypeOK, ProcOK, HolderPcs, RunPcs, Outcomes
    <2>3. branch' = [branch EXCEPT ![item[p]] = TRUE] \/ UNCHANGED branch
      BY <1>6 DEF Push
    <2>4. branch' \in [Items -> BOOLEAN]
      BY <2>3 DEF TypeOK, WorldOK, ProcOK
    <2>5. lost' \in Nat
      BY <1>6 DEF Push, TypeOK, SeenOK
    <2> QED
      BY <1>6, <2>2, <2>4, <2>5 DEF TypeOK, DbOK, ConfOK, ProcOK, WorldOK, SeenOK, Push,
                                    dbVars, confVars
  <1>7. ASSUME Charge(p) PROVE TypeOK'
    <2> DEFINE r == RuleOf[item[p]]
    <2>a. r \in Rules /\ bill[p] \in Nat
      BY ConstantTypes DEF TypeOK, ProcOK
    <2>b. usd' = [usd EXCEPT ![r] = @ + bill[p], !["*"] = @ + bill[p]]
      BY <1>7 DEF Charge
    <2> HIDE DEF r
    <2>1. usd' \in [Scopes -> Nat]
      BY <2>a, <2>b DEF TypeOK, DbOK, Scopes
    <2>2. pc' \in [Procs -> CliPcs \cup HolderPcs]
      BY <1>7, GotoType DEF Charge, TypeOK, HolderPcs, RunPcs
    <2> QED
      BY <1>7, <2>1, <2>2 DEF TypeOK, DbOK, ConfOK, ProcOK, WorldOK, SeenOK, Charge,
                              confVars, worldVars, seenVars
  <1>8. ASSUME Discard(p) PROVE TypeOK'
    BY <1>8 DEF TypeOK, DbOK, ConfOK, ProcOK, WorldOK, SeenOK, Discard, Goto,
                HolderPcs, RunPcs, dbVars, confVars, seenVars
  <1>9. ASSUME Clear(p) PROVE TypeOK'
    BY <1>9 DEF TypeOK, DbOK, ConfOK, ProcOK, WorldOK, SeenOK, Clear, Goto,
                HolderPcs, RunPcs, confVars, worldVars, seenVars
  <1> QED
    BY <1>1, <1>2, <1>3, <1>4, <1>5, <1>6, <1>7, <1>8, <1>9

\* The last transaction of a try.
LEMMA SettleType ==
    ASSUME TypeOK, NEW p \in Procs, Settle(p)
    PROVE  TypeOK'
  <1> DEFINE i == item[p]
  <1>1. i \in Items /\ row[p] \in Row /\ bill[p] \in Nat /\ now \in Nat
    BY DEF TypeOK, ProcOK, WorldOK
  <1>2. ASSUME Fail(p) PROVE work' \in [Items -> Row]
    <2>1. \/ \E d \in Nat :
                SetRetry(i, "approved", row[p].reason, row[p].attempts + 1, now + d)
          \/ SetRetry(i, "dead", "other", MaxAttempts, 0)
      BY <1>2, DelaysType DEF Fail
    <2>2. row[p].reason \in {"auto", "other"} /\ row[p].attempts \in Nat
      BY <1>1 DEF Row
    <2> QED
      BY <1>1, <2>1, <2>2, ConstantTypes, SetRetryType DEF TypeOK, States
  <1>3. work' \in [Items -> Row]
    <2>1. \/ SetState(i, "done", "other") \/ SetState(i, "proposed", "other")
          \/ SetState(i, "approved", row[p].reason) \/ Fail(p)
      BY DEF Settle
    <2>2. row[p].reason \in {"auto", "other"}
      BY <1>1 DEF Row
    <2> QED
      BY <1>1, <1>2, <2>1, <2>2, SetStateType DEF TypeOK, States
  <1>4. /\ actions' \in [Scopes -> Nat] /\ usd' \in [Scopes -> Nat]
        /\ acted' \in [Rules -> [Objects -> Int]]
    <2>1. CountAction(p) \/ UNCHANGED <<actions, usd, acted>>
      BY DEF Settle
    <2>2. RuleOf[i] \in Rules /\ ObjectOf[i] \in Objects
      BY <1>1, ConstantTypes
    <2>3. ASSUME CountAction(p)
          PROVE  /\ actions' \in [Scopes -> Nat] /\ usd' \in [Scopes -> Nat]
                 /\ acted' \in [Rules -> [Objects -> Int]]
      <3>1. actions' \in [Scopes -> Nat]
        BY <2>2, <2>3 DEF CountAction, TypeOK, DbOK, Scopes
      <3>2. usd' \in [Scopes -> Nat]
        BY <1>1, <2>2, <2>3 DEF CountAction, TypeOK, DbOK, Scopes
      <3>3. acted' \in [Rules -> [Objects -> Int]]
        BY <1>1, <2>2, <2>3 DEF CountAction, TypeOK, DbOK
      <3> QED
        BY <3>1, <3>2, <3>3
    <2> QED
      BY <2>1, <2>3 DEF TypeOK, DbOK
  <1>5. ProcOK' /\ lock' \in Procs \cup {NoProc}
    <2>1. CASE Exit(p)
      BY <2>1, ExitType DEF TypeOK
    <2>2. CASE Goto(p, "pick") /\ Forget(p) /\ UNCHANGED <<todo, cfg, lock>>
      BY <2>2, ForgetType, GotoType DEF TypeOK, ProcOK, ConfOK, HolderPcs, LoopPcs
    <2> QED
      BY <2>1, <2>2 DEF Settle
  <1> QED
    BY <1>3, <1>4, <1>5 DEF TypeOK, DbOK, ConfOK, WorldOK, SeenOK, Settle,
                            confVars, worldVars, seenVars
\* The commands a person runs.
LEMMA CommandType ==
    ASSUME TypeOK, NEW c \in Procs, Command(c)
    PROVE  TypeOK'
  <1>1. ASSUME NEW i \in Items, ApproveRead(c, i) \/ RejectRead(c, i) \/ RetryRead(c, i)
        PROVE  TypeOK'
    <2>1. /\ item' = [item EXCEPT ![c] = i] /\ row' = [row EXCEPT ![c] = work[i]]
          /\ \E l \in CliPcs : Goto(c, l)
          /\ cfg' = [cfg EXCEPT ![c] = setting] \/ cfg' = cfg
          /\ lock' = c \/ lock' = lock
          /\ UNCHANGED <<dbVars, confVars, todo, out, bill, worldVars, seenVars>>
      BY <1>1 DEF ApproveRead, RejectRead, RetryRead, Load, CliPcs
    <2>2. pc' \in [Procs -> CliPcs \cup HolderPcs]
      BY <2>1, GotoType DEF TypeOK
    <2> QED
      BY <2>1, <2>2 DEF TypeOK, DbOK, ConfOK, ProcOK, WorldOK, SeenOK,
                        dbVars, confVars, worldVars, seenVars
  <1>2. ASSUME ApproveWrite(c) PROVE TypeOK'
    <2>1. item[c] \in Items /\ now \in Nat
      BY DEF TypeOK, ProcOK, WorldOK
    <2>2. work' \in [Items -> Row]
      BY <1>2, <2>1 DEF ApproveWrite, TypeOK, DbOK, Row, States
    <2>3. ProcOK' /\ lock' \in Procs \cup {NoProc}
      <3>1. CASE Exit(c)
        BY <3>1, ExitType DEF TypeOK
      <3>2. CASE /\ row' = [row EXCEPT ![c].reason = "other"]
                 /\ Goto(c, "begin")
                 /\ UNCHANGED <<lock, item, todo, cfg, out, bill>>
        <4>1. row[c] \in Row
          BY DEF TypeOK, ProcOK
        <4>2. [row[c] EXCEPT !.reason = "other"] \in Row
          BY <4>1 DEF Row
        <4>3. row' = [row EXCEPT ![c] = [row[c] EXCEPT !.reason = "other"]]
          BY <3>2 DEF TypeOK, ProcOK
        <4>4. row' \in [Procs -> Row]
          BY <4>2, <4>3 DEF TypeOK, ProcOK
        <4> QED
          BY <3>2, <4>4, GotoType DEF TypeOK, ProcOK, ConfOK, HolderPcs, RunPcs
      <3> QED
        BY <1>2, <3>1, <3>2 DEF ApproveWrite
    <2> QED
      BY <1>2, <2>2, <2>3 DEF TypeOK, DbOK, ConfOK, WorldOK, SeenOK, ApproveWrite,
                              confVars, worldVars, seenVars
  <1>3. ASSUME RejectWrite(c) PROVE TypeOK'
    <2>1. work' \in [Items -> Row]
      BY <1>3, SetStateType DEF RejectWrite, TypeOK, ProcOK, States
    <2>2. ProcOK' /\ lock' \in Procs \cup {NoProc}
      BY <1>3, ExitType DEF RejectWrite, TypeOK
    <2> QED
      BY <1>3, <2>1, <2>2 DEF TypeOK, DbOK, ConfOK, WorldOK, SeenOK, RejectWrite,
                              confVars, worldVars, seenVars
  <1>4. ASSUME RetryWrite(c) PROVE TypeOK'
    <2>1. work' \in [Items -> Row]
      BY <1>4, SetRetryType DEF RetryWrite, TypeOK, ProcOK, States
    <2>2. ProcOK' /\ lock' \in Procs \cup {NoProc}
      BY <1>4, ExitType DEF RetryWrite, TypeOK
    <2> QED
      BY <1>4, <2>1, <2>2 DEF TypeOK, DbOK, ConfOK, WorldOK, SeenOK, RetryWrite,
                              confVars, worldVars, seenVars
  <1>5. ASSUME SetPaused(c) PROVE TypeOK'
    BY <1>5 DEF TypeOK, DbOK, ConfOK, ProcOK, WorldOK, SeenOK, SetPaused,
                confVars, procVars, worldVars
  <1>6. ASSUME Status(c) PROVE TypeOK'
    BY <1>6 DEF TypeOK, DbOK, ConfOK, ProcOK, WorldOK, SeenOK, Status, Goto,
                CliPcs, HolderPcs, dbVars, confVars, worldVars, seenVars
  <1> QED
    BY <1>1, <1>2, <1>3, <1>4, <1>5, <1>6 DEF Command

\* Every step keeps TypeOK.
LEMMA TypeStep ==
    ASSUME TypeOK, [Next]_vars
    PROVE  TypeOK'
  <1>1. ASSUME NEW p \in Procs, StartWatch(p) PROVE TypeOK'
    BY <1>1 DEF TypeOK, DbOK, ConfOK, ProcOK, WorldOK, SeenOK, StartWatch, Goto,
                HolderPcs, LoopPcs, dbVars, confVars, worldVars, seenVars
  <1>2. ASSUME NEW p \in Procs, StopWatch(p) PROVE TypeOK'
    <2>1. ProcOK' /\ lock' \in Procs \cup {NoProc}
      BY <1>2, ExitType DEF StopWatch, TypeOK
    <2> QED
      BY <1>2, <2>1 DEF TypeOK, DbOK, ConfOK, WorldOK, SeenOK, StopWatch,
                        dbVars, confVars, worldVars, seenVars
  <1>3. ASSUME NEW p \in Procs, Try(p) PROVE TypeOK'
    BY <1>3, PerformType, EffectType, SettleType DEF Try
  <1>4. ASSUME NEW p \in Procs, Crash(p) PROVE TypeOK'
    <2>1. ProcOK' /\ lock' \in Procs \cup {NoProc}
      BY <1>4, ExitType DEF Crash, TypeOK
    <2> QED
      BY <1>4, <2>1 DEF TypeOK, DbOK, ConfOK, WorldOK, SeenOK, Crash,
                        dbVars, confVars, worldVars
  <1>5. ASSUME SetEnabled PROVE TypeOK'
    BY <1>5 DEF TypeOK, DbOK, ConfOK, ProcOK, WorldOK, SeenOK, SetEnabled,
                dbVars, procVars, worldVars, seenVars
  <1>6. ASSUME NEW r \in Rules, SetRule(r) PROVE TypeOK'
    <2>1. setting' \in [Rules -> Setting]
      BY <1>6, ConstantTypes DEF SetRule, TypeOK, ConfOK
    <2> QED
      BY <1>6, <2>1 DEF TypeOK, DbOK, ConfOK, ProcOK, WorldOK, SeenOK, SetRule,
                        dbVars, procVars, worldVars, seenVars
  <1>7. ASSUME Tick PROVE TypeOK'
    <2>1. /\ actions' \in [Scopes -> Nat] /\ usd' \in [Scopes -> Nat]
          /\ spent' \in Nat /\ now' \in Nat
      BY <1>7 DEF Tick, TypeOK, DbOK, WorldOK, SeenOK
    <2> QED
      BY <1>7, <2>1 DEF TypeOK, DbOK, ConfOK, ProcOK, WorldOK, SeenOK, Tick,
                        confVars, procVars
  <1>8. ASSUME UNCHANGED vars PROVE TypeOK'
    BY <1>8 DEF TypeOK, DbOK, ConfOK, ProcOK, WorldOK, SeenOK, vars,
                dbVars, confVars, procVars, worldVars, seenVars
  <1> QED
    BY <1>1, <1>2, <1>3, <1>4, <1>5, <1>6, <1>7, <1>8, PassType, CommandType DEF Next

\* The state before anything ran is well formed.
LEMMA TypeInit == Init => TypeOK
  <1> SUFFICES ASSUME Init PROVE TypeOK
    OBVIOUS
  <1> USE ConstantTypes DEF Init
  <1>1. DbOK
    <2>1. work \in [Items -> Row] /\ journal \in [Items -> {"none", "worktree", "pushed"}]
      OBVIOUS
    <2>2. actions \in [Scopes -> Nat] /\ usd \in [Scopes -> Nat] /\ paused \in BOOLEAN
      OBVIOUS
    <2>3. acted \in [Rules -> [Objects -> Int]]
      <3>1. [o \in Objects |-> Never] \in [Objects -> Int]
        BY DEF Never
      <3> QED
        BY <3>1
    <2> QED
      BY <2>1, <2>2, <2>3 DEF DbOK
  <1>2. ConfOK
    BY DEF ConfOK
  <1>3. ProcOK
    BY DEF ProcOK, CliPcs, Outcomes
  <1>4. WorldOK
    BY DEF WorldOK
  <1>5. SeenOK
    BY DEF SeenOK, Never
  <1> QED
    BY <1>1, <1>2, <1>3, <1>4, <1>5 DEF TypeOK

\* Type correctness of watch.db, the processes and the world.
THEOREM TypeCorrect == Spec => []TypeOK
  BY TypeInit, TypeStep, PTL DEF Spec
=============================================================================
