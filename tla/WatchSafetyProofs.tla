------------------------- MODULE WatchSafetyProofs -------------------------
(***************************************************************************)
(* The safety of the work queue, for any number of items, rules, objects   *)
(* and processes, and for any bound on kills, lost answers and time.       *)
(*                                                                         *)
(* watch.lock excludes two passes (LockInv).  From it follow OnceInv, the  *)
(* reason why no effect is written twice, and PauseInv, the reason why a   *)
(* pause lets at most one action finish.  PersonInv needs no lock: it      *)
(* follows a person's approval from the command to the effect.             *)
(*                                                                         *)
(* MoneyInv follows a dollar from the model's call to the day's counter,   *)
(* AloneInv an unattended action from demotion() to finish(), LadderInv    *)
(* the approvals such an action rests on.  TakenInv says that what a       *)
(* process has read of an item is still so; with it the queue implements   *)
(* WatchItem.                                                              *)
(***************************************************************************)
EXTENDS WatchQueueProofs, WatchRefinement

-----------------------------------------------------------------------------
(* The lock                                                                 *)

\* What one step may do to the lock and to the place of process p.
Moves(p) ==
    \/ /\ pc[p] \in HolderPcs \/ lock = p
       /\ lock' = lock
       /\ \E l \in CliPcs \cup HolderPcs : Goto(p, l)
    \/ /\ lock = NoProc /\ lock' = p
       /\ \E l \in CliPcs \cup HolderPcs : Goto(p, l)
    \/ /\ lock' = lock
       /\ \E l \in CliPcs : Goto(p, l)
    \/ /\ lock' = IF lock = p THEN NoProc ELSE lock
       /\ Goto(p, "idle")
    \/ UNCHANGED <<lock, pc>>

\* A pass moves under the lock it has.
LEMMA PassMoves ==
    ASSUME TypeOK, NEW p \in Procs, Pass(p) PROVE Moves(p)
  <1>1. ASSUME StartPass(p) \/ EndRecover(p) \/ EndPoll(p) \/ StartRun(p) \/ EndPass(p)
        PROVE  Moves(p)
    BY <1>1 DEF StartPass, EndRecover, EndPoll, StartRun, EndPass, Moves, HolderPcs, LoopPcs
  <1>2. ASSUME Pick(p) PROVE Moves(p)
    BY <1>2 DEF Pick, Moves, HolderPcs, LoopPcs, RunPcs
  <1>3. ASSUME NEW i \in Items,
               RecoverPushed(p, i) \/ RecoverUnpushed(p, i) \/ RecoverUnknown(p, i)
        PROVE  Moves(p)
    BY <1>3 DEF RecoverPushed, RecoverUnpushed, RecoverUnknown, Moves
  <1>4. ASSUME NEW i \in Items, Ingest(p, i) \/ Redecide(p, i) PROVE Moves(p)
    BY <1>4 DEF Ingest, Redecide, Moves, procVars
  <1> QED
    BY <1>1, <1>2, <1>3, <1>4 DEF Pass

\* A try moves under the lock it has, or ends.
LEMMA TryMoves ==
    ASSUME TypeOK, NEW p \in Procs, Try(p)
    PROVE  Moves(p)
  <1> USE DEF Moves, HolderPcs, LoopPcs, RunPcs, Result
  <1>1. ASSUME \/ Begin(p) \/ PerformStop(p) \/ PerformPlain(p) \/ PerformMerge(p)
        PROVE  Moves(p)
    BY <1>1 DEF Begin, PerformStop, PerformPlain, PerformMerge
  <1>2. ASSUME PerformModel(p) \/ PerformAddress(p) PROVE Moves(p)
    BY <1>2 DEF PerformModel, PerformAddress
  <1>3. ASSUME PerformReview(p) PROVE Moves(p)
    BY <1>3 DEF PerformReview
  <1>4. ASSUME Write(p) \/ Comment(p) PROVE Moves(p)
    BY <1>4 DEF Write, Comment, PostEffect
  <1>5. ASSUME Checkout(p) \/ Tool(p) \/ Stage(p) \/ Push(p) PROVE Moves(p)
    BY <1>5 DEF Checkout, Tool, Stage, Push
  <1>6. ASSUME Charge(p) \/ Discard(p) \/ Clear(p) PROVE Moves(p)
    BY <1>6 DEF Charge, Discard, Clear
  <1>7. ASSUME Settle(p) PROVE Moves(p)
    BY <1>7 DEF Settle, Exit
  <1> QED
    BY <1>1, <1>2, <1>3, <1>4, <1>5, <1>6, <1>7 DEF Try

\* A command takes the lock only when it is free.
LEMMA CommandMoves ==
    ASSUME TypeOK, LockInv, NEW c \in Procs, Command(c)
    PROVE  Moves(c)
  <1> USE DEF Moves, HolderPcs, LoopPcs, RunPcs, CliPcs
  <1>1. ASSUME NEW i \in Items, ApproveRead(c, i) \/ RejectRead(c, i) \/ RetryRead(c, i)
        PROVE  Moves(c)
    BY <1>1 DEF ApproveRead, RejectRead, RetryRead, Load
  <1>2. ASSUME ApproveWrite(c) PROVE Moves(c)
    BY <1>2 DEF ApproveWrite, Exit
  <1>3. ASSUME RejectWrite(c) \/ RetryWrite(c) PROVE Moves(c)
    BY <1>3 DEF RejectWrite, RetryWrite, Exit
  <1>4. ASSUME SetPaused(c) PROVE Moves(c)
    BY <1>4 DEF SetPaused, procVars
  <1>5. ASSUME Status(c) PROVE Moves(c)
    BY <1>5 DEF Status, LockInv
  <1> QED
    BY <1>1, <1>2, <1>3, <1>4, <1>5 DEF Command

\* A move of one process keeps the lock exclusive.
LEMMA MovesKeepLock ==
    ASSUME TypeOK, LockInv, NEW p \in Procs, Moves(p)
    PROVE  LockInv'
  BY ConstantTypes DEF TypeOK, ProcOK, LockInv, Moves, Goto, CliPcs, HolderPcs, LoopPcs, RunPcs

\* Every step keeps the lock exclusive.
LEMMA LockStep ==
    ASSUME TypeOK, LockInv, [Next]_vars
    PROVE  LockInv'
  <1>1. ASSUME NEW p \in Procs, StartWatch(p) \/ StopWatch(p) \/ Crash(p) PROVE Moves(p)
    BY <1>1 DEF StartWatch, StopWatch, Crash, Exit, Moves, HolderPcs, LoopPcs
  <1>2. ASSUME \/ SetEnabled
               \/ \E r \in Rules : SetRule(r)
               \/ Tick
               \/ UNCHANGED vars
        PROVE  LockInv'
    BY <1>2 DEF SetEnabled, SetRule, Tick, vars, procVars, LockInv
  <1> QED
    BY <1>1, <1>2, PassMoves, TryMoves, CommandMoves, MovesKeepLock DEF Next

-----------------------------------------------------------------------------
(* No effect is written twice                                               *)

\* What one step may do to the effects on GitHub and to the place of process p.
\* A step to the write keeps the finding that the effect is not there; a write
\* leaves the steps before the write; recovery looks before it writes.
Quiet(p) ==
    /\ posted' = posted
    /\ \E l \in CliPcs \cup (HolderPcs \ EffectPcs) : Goto(p, l)
    /\ item' = item \/ \E i \in Items : item' = [item EXCEPT ![p] = i]

Approaches(p) ==
    /\ posted' = posted /\ item' = item
    /\ Recognised(item[p]) => posted[item[p]] = 0
    /\ \E l \in EffectPcs : Goto(p, l)

Writes(p) ==
    /\ pc[p] \in EffectPcs /\ item' = item
    /\ posted' = posted \/ posted' = [posted EXCEPT ![item[p]] = @ + 1]
    /\ \E l \in HolderPcs \ EffectPcs : Goto(p, l)

Marks(p) ==
    /\ pc[p] = "recover" /\ pc' = pc /\ item' = item
    /\ \/ posted' = posted
       \/ \E i \in Items : posted' = [posted EXCEPT ![i] = IF @ = 0 THEN 1 ELSE @]

Idles == UNCHANGED <<pc, item, posted>>

\* Each of them keeps what OnceInv says.
LEMMA ShapesKeepOnce ==
    ASSUME TypeOK, OnceInv, LockInv', NEW p \in Procs,
           Quiet(p) \/ Approaches(p) \/ Writes(p) \/ Marks(p) \/ Idles
    PROVE  OnceInv'
  <1> USE DEF TypeOK, ProcOK, WorldOK, OnceInv, LockInv, AtMostOnce, Recognised, Goto,
              EffectPcs, HolderPcs, LoopPcs, RunPcs, CliPcs
  <1>1. CASE Quiet(p)
    BY <1>1 DEF Quiet
  <1>2. CASE Approaches(p)
    BY <1>2 DEF Approaches
  <1>3. CASE Writes(p)
    <2>1. \A q \in Procs : q # p => pc[q] \notin EffectPcs
      BY <1>3 DEF Writes
    <2>2. \A q \in Procs : pc'[q] \notin EffectPcs
      BY <1>3, <2>1 DEF Writes
    <2>3. AtMostOnce'
      BY <1>3 DEF Writes
    <2> QED
      BY <2>2, <2>3
  <1>4. CASE Marks(p)
    <2>1. \A q \in Procs : pc'[q] \notin EffectPcs
      BY <1>4 DEF Marks
    <2>2. AtMostOnce'
      BY <1>4 DEF Marks
    <2> QED
      BY <2>1, <2>2
  <1>5. CASE Idles
    BY <1>5 DEF Idles
  <1> QED
    BY <1>1, <1>2, <1>3, <1>4, <1>5

\* The steps of a pass, of which only recovery writes.
LEMMA PassShape ==
    ASSUME TypeOK, NEW p \in Procs, Pass(p)
    PROVE  Quiet(p) \/ Marks(p) \/ Idles
  <1> USE DEF Quiet, Marks, Idles, HolderPcs, LoopPcs, RunPcs, EffectPcs, worldVars, procVars
  <1>1. ASSUME StartPass(p) \/ EndRecover(p) \/ EndPoll(p) \/ StartRun(p) \/ EndPass(p)
        PROVE  Quiet(p)
    BY <1>1 DEF StartPass, EndRecover, EndPoll, StartRun, EndPass
  <1>2. ASSUME Pick(p) PROVE Quiet(p)
    BY <1>2 DEF Pick, TypeOK, ProcOK
  <1>3. ASSUME NEW i \in Items, RecoverPushed(p, i) PROVE Marks(p)
    <2>1. \/ posted' = [posted EXCEPT ![i] = IF @ = 0 THEN 1 ELSE @]
          \/ posted' = posted
          \/ posted[i] = 0 /\ posted' = [posted EXCEPT ![i] = 1]
      BY <1>3 DEF RecoverPushed
    <2> QED
      BY <1>3, <2>1 DEF RecoverPushed
  <1>4. ASSUME NEW i \in Items,
               \/ RecoverUnpushed(p, i) \/ RecoverUnknown(p, i)
               \/ Ingest(p, i) \/ Redecide(p, i)
        PROVE  Idles
    BY <1>4 DEF RecoverUnpushed, RecoverUnknown, Ingest, Redecide
  <1> QED
    BY <1>1, <1>2, <1>3, <1>4 DEF Pass

\* The steps of a try.  perform() reaches the write of a recognisable effect only
\* when the effect is not there.
LEMMA TryShape ==
    ASSUME TypeOK, OnceInv, NEW p \in Procs, Try(p)
    PROVE  Quiet(p) \/ Approaches(p) \/ Writes(p)
  <1> USE DEF Quiet, Approaches, Writes, HolderPcs, LoopPcs, RunPcs, EffectPcs, worldVars,
              Result
  <1>1. ASSUME Begin(p) \/ PerformStop(p) PROVE Quiet(p)
    BY <1>1 DEF Begin, PerformStop
  <1>2. ASSUME PerformPlain(p) \/ PerformMerge(p) PROVE Quiet(p) \/ Approaches(p)
    <2>1. posted[item[p]] \in Nat
      BY DEF TypeOK, ProcOK, WorldOK
    <2> QED
      BY <1>2, <2>1 DEF PerformPlain, PerformMerge, Present, Recognised
  <1>3. ASSUME PerformModel(p) PROVE Quiet(p) \/ Approaches(p)
    BY <1>3 DEF PerformModel, Recognised
  <1>4. ASSUME PerformReview(p) \/ PerformAddress(p) PROVE Quiet(p) \/ Approaches(p)
    <2>1. posted[item[p]] \in Nat
      BY DEF TypeOK, ProcOK, WorldOK
    <2> QED
      BY <1>4, <2>1 DEF PerformReview, PerformAddress, Present
  <1>5. ASSUME Write(p) \/ Comment(p) PROVE Writes(p)
    BY <1>5 DEF Write, Comment, PostEffect
  <1>6. ASSUME Checkout(p) \/ Tool(p) \/ Stage(p) \/ Push(p)
        PROVE  Quiet(p) \/ Approaches(p)
    BY <1>6 DEF Checkout, Tool, Stage, Push, OnceInv
  <1>7. ASSUME Charge(p) \/ Discard(p) \/ Clear(p) PROVE Quiet(p)
    BY <1>7 DEF Charge, Discard, Clear
  <1>8. ASSUME Settle(p) PROVE Quiet(p)
    BY <1>8, ConstantTypes DEF Settle, Exit, Forget, CliPcs
  <1> QED
    BY <1>1, <1>2, <1>3, <1>4, <1>5, <1>6, <1>7, <1>8 DEF Try

\* The commands write nothing of their own.
LEMMA CommandShape ==
    ASSUME TypeOK, NEW c \in Procs, Command(c)
    PROVE  Quiet(c) \/ Idles
  <1> USE ConstantTypes
      DEF Quiet, Idles, HolderPcs, LoopPcs, RunPcs, EffectPcs, CliPcs, worldVars, procVars
  <1>1. ASSUME NEW i \in Items, ApproveRead(c, i) \/ RejectRead(c, i) \/ RetryRead(c, i)
        PROVE  Quiet(c)
    BY <1>1 DEF ApproveRead, RejectRead, RetryRead, Load
  <1>2. ASSUME ApproveWrite(c) \/ RejectWrite(c) \/ RetryWrite(c) PROVE Quiet(c)
    BY <1>2 DEF ApproveWrite, RejectWrite, RetryWrite, Exit, Forget
  <1>3. ASSUME SetPaused(c) PROVE Idles
    BY <1>3 DEF SetPaused
  <1>4. ASSUME Status(c) PROVE Quiet(c)
    BY <1>4 DEF Status
  <1> QED
    BY <1>1, <1>2, <1>3, <1>4 DEF Command

\* Every step keeps OnceInv.
LEMMA OnceStep ==
    ASSUME TypeOK, OnceInv, [Next]_vars
    PROVE  OnceInv'
  <1>1. LockInv'
    BY LockStep DEF OnceInv
  <1>2. ASSUME NEW p \in Procs, StartWatch(p) \/ StopWatch(p) \/ Crash(p) PROVE Quiet(p)
    BY <1>2, ConstantTypes DEF StartWatch, StopWatch, Crash, Exit, Forget, Quiet, worldVars,
                               CliPcs, HolderPcs, LoopPcs, RunPcs, EffectPcs
  <1>3. ASSUME \/ SetEnabled
               \/ \E r \in Rules : SetRule(r)
               \/ Tick
               \/ UNCHANGED vars
        PROVE  Idles
    BY <1>3 DEF SetEnabled, SetRule, Tick, Idles, vars, procVars, worldVars
  <1>4. Idles => OnceInv'
    BY <1>1 DEF Idles, OnceInv, AtMostOnce
  <1>5. ASSUME NEW p \in Procs, Quiet(p) \/ Approaches(p) \/ Writes(p) \/ Marks(p)
        PROVE  OnceInv'
    BY <1>1, <1>5, ShapesKeepOnce
  <1> QED
    BY <1>2, <1>3, <1>4, <1>5, PassShape, TryShape, CommandShape DEF Next

\* Before anything ran, nothing was written and nobody holds the lock.
LEMMA OnceInit == Init => OnceInv
  BY DEF Init, OnceInv, LockInv, AtMostOnce, HolderPcs, LoopPcs, RunPcs, EffectPcs

\* The invariant that carries AtMostOnce.
THEOREM OnceInvariant == Spec => [](TypeOK /\ OnceInv)
  BY TypeInit, TypeStep, OnceInit, OnceStep, PTL DEF Spec

\* No recognisable effect of an item is written twice, whatever is killed, lost
\* or retried.
THEOREM WrittenAtMostOnce == Spec => []AtMostOnce
  BY OnceInvariant, PTL DEF OnceInv

-----------------------------------------------------------------------------
(* A person stands behind every unsafe effect                               *)

Unsafe(i) == Highest(Class(i)) = "propose"
Person(i) == work[i].approvedAt # Never

\* The places where an item is on its way to its effect, and the effect.
Underway(i) ==
    \/ work[i].state \in {"approved", "running"}
    \/ posted[i] > 0
    \/ \E p \in Procs : \/ pc[p] \in RunPcs /\ item[p] = i
                        \/ pc[p] # "decide" /\ i \in todo[p]

LEMMA PersonDef == PersonInv <=> \A i \in Items : Unsafe(i) /\ Underway(i) => Person(i)
  BY DEF PersonInv, Unsafe, Underway, Person

\* level() never lets an unsafe action run on its own.
LEMMA UnsafeIsNotAuto ==
    ASSUME NEW i \in Items, Unsafe(i), NEW c \in [Rules -> Setting]
    PROVE  Level(c, i) # "auto"
  <1>1. c[RuleOf[i]] \in Setting
    BY ConstantTypes
  <1> QED
    BY <1>1 DEF Unsafe, Level, LevelOf, LowerOf, Rank, Setting, Autonomy

\* Nothing takes an approval back.
LEMMA ApprovalStays ==
    ASSUME TypeOK, [Next]_vars, NEW i \in Items, Person(i)
    PROVE  Person(i)'
  <1> USE DEF Person, TypeOK, DbOK, ProcOK, WorldOK
  <1>1. ASSUME NEW j \in Items, NEW s, NEW r, SetState(j, s, r) PROVE Person(i)'
    BY <1>1 DEF SetState, Row
  <1>2. ASSUME NEW j \in Items, NEW s, NEW r, NEW n, NEW t, SetRetry(j, s, r, n, t)
        PROVE  Person(i)'
    BY <1>2 DEF SetRetry, Row
  <1>3. ASSUME work' = work PROVE Person(i)'
    BY <1>3
  <1>4. ASSUME NEW p \in Procs, Pass(p) PROVE Person(i)'
    <2>1. \/ work' = work
          \/ \E j \in Items, s \in States, r \in {"auto", "other"} : SetState(j, s, r)
      BY <1>4 DEF Pass, StartPass, EndRecover, EndPoll, StartRun, EndPass, Pick,
                  RecoverPushed, RecoverUnpushed, RecoverUnknown, Ingest, Redecide, dbVars,
                  States
    <2> QED
      BY <2>1, <1>1, <1>3
  <1>5. ASSUME NEW p \in Procs, Try(p) PROVE Person(i)'
    <2>1. CASE Settle(p)
      <3>1. \/ \E s, r : SetState(item[p], s, r)
            \/ \E s, r, n, t : SetRetry(item[p], s, r, n, t)
        BY <2>1 DEF Settle, Fail
      <3> QED
        BY <3>1, <1>1, <1>2
    <2>2. CASE PerformAddress(p)
      BY <2>2, <1>1, <1>3 DEF PerformAddress
    <2>3. CASE ~Settle(p) /\ ~PerformAddress(p)
      BY <1>5, <2>3, <1>3 DEF Try, Begin, PerformStop, PerformPlain, PerformMerge, PerformModel,
                  PerformReview, Write, Checkout, Tool, Stage, Push, Comment, Charge,
                  Discard, Clear, dbVars
    <2> QED
      BY <2>1, <2>2, <2>3
  <1>6. ASSUME NEW c \in Procs, Command(c) PROVE Person(i)'
    <2>1. CASE ApproveWrite(c)
      BY <2>1 DEF ApproveWrite, Never
    <2>2. CASE RejectWrite(c) \/ RetryWrite(c)
      BY <2>2, <1>1, <1>2 DEF RejectWrite, RetryWrite
    <2>3. CASE ~ApproveWrite(c) /\ ~RejectWrite(c) /\ ~RetryWrite(c)
      BY <1>6, <2>3, <1>3 DEF Command, ApproveRead, RejectRead, RetryRead, SetPaused, Status,
                              dbVars
    <2> QED
      BY <2>1, <2>2, <2>3
  <1>7. ASSUME NEW p \in Procs, StartWatch(p) \/ StopWatch(p) \/ Crash(p) PROVE Person(i)'
    BY <1>7, <1>3 DEF StartWatch, StopWatch, Crash, dbVars
  <1>8. ASSUME \/ SetEnabled
               \/ \E r \in Rules : SetRule(r)
               \/ Tick
               \/ UNCHANGED vars
        PROVE  Person(i)'
    BY <1>8, <1>3 DEF SetEnabled, SetRule, Tick, vars, dbVars
  <1> QED
    BY <1>4, <1>5, <1>6, <1>7, <1>8 DEF Next

\* set_state and set_retry change one row, and give it its new state.
LEMMA RowChange ==
    ASSUME DbOK, NEW j \in Items, NEW s, NEW r, NEW n, NEW t,
           SetState(j, s, r) \/ SetRetry(j, s, r, n, t)
    PROVE  /\ \A i \in Items : i # j => work'[i] = work[i]
           /\ work'[j].state = s
  BY DEF DbOK, SetState, SetRetry, Row

\* Dealing with one id takes nothing up.
LEMMA TodoShrinks ==
    ASSUME ProcOK, NEW p \in Procs, NEW j,
           todo' = todo \/ todo' = [todo EXCEPT ![p] = @ \ {j}]
    PROVE  \A q \in Procs : todo'[q] \subseteq todo[q]
  BY DEF ProcOK

\* An item that is not underway stays so when its row does not get there, no
\* effect is written, and no process takes it up.
LEMMA StaysAside ==
    ASSUME NEW i \in Items, ~Underway(i),
           work'[i].state = work[i].state \/ work'[i].state \notin {"approved", "running"},
           posted'[i] = posted[i],
           \A q \in Procs :
              /\ pc'[q] \in RunPcs /\ item'[q] = i => pc[q] \in RunPcs /\ item[q] = i
              /\ pc'[q] # "decide" /\ i \in todo'[q] => pc[q] # "decide" /\ i \in todo[q]
    PROVE  ~Underway(i)'
  BY DEF Underway

\* A process that ends takes nothing up.
LEMMA ExitStaysAside ==
    ASSUME TypeOK, NEW p \in Procs, Exit(p), NEW i \in Items, ~Underway(i),
           work'[i].state = work[i].state \/ work'[i].state \notin {"approved", "running"},
           posted'[i] = posted[i]
    PROVE  ~Underway(i)'
  <1>1. pc'[p] = "idle" /\ todo'[p] = {}
    BY DEF Exit, Goto, TypeOK, ProcOK
  <1>2. \A q \in Procs : q # p => pc'[q] = pc[q] /\ item'[q] = item[q] /\ todo'[q] = todo[q]
    BY DEF Exit, Goto, Forget, TypeOK, ProcOK
  <1>3. "idle" \notin RunPcs
    BY DEF RunPcs
  <1> QED
    BY <1>1, <1>2, <1>3, StaysAside

\* An unsafe item gets underway only through the approval of a person.
LEMMA UnderwayStep ==
    ASSUME TypeOK, [Next]_vars, NEW i \in Items, Unsafe(i), Underway(i)'
    PROVE  Underway(i) \/ Person(i)'
  <1> USE DEF TypeOK, DbOK, ProcOK, WorldOK, Underway, InState, Goto, RunPcs, worldVars
  <1> SUFFICES ASSUME ~Underway(i) PROVE Person(i)' \/ FALSE
    OBVIOUS
  <1>1. ASSUME NEW p \in Procs,
               StartPass(p) \/ EndRecover(p) \/ EndPoll(p) \/ StartRun(p) \/ EndPass(p)
        PROVE  FALSE
    <2>1. work' = work /\ posted' = posted /\ item' = item
      BY <1>1 DEF StartPass, EndRecover, EndPoll, StartRun, EndPass, dbVars
    <2>2. \E l \in LoopPcs : Goto(p, l)
      BY <1>1 DEF StartPass, EndRecover, EndPoll, StartRun, EndPass, LoopPcs
    <2>3. \A q \in Procs : q # p => todo'[q] = todo[q]
      BY <1>1 DEF StartPass, EndRecover, EndPoll, StartRun, EndPass
    <2>4. pc'[p] # "decide" => i \notin todo'[p]
      BY <1>1 DEF StartPass, EndRecover, EndPoll, StartRun, EndPass
    <2> QED
      BY <2>1, <2>2, <2>3, <2>4 DEF LoopPcs
  <1>2. ASSUME NEW p \in Procs, Pick(p) PROVE FALSE
    BY <1>2 DEF Pick, dbVars
  <1>3. ASSUME NEW p \in Procs, NEW j \in Items,
               RecoverPushed(p, j) \/ RecoverUnpushed(p, j) \/ RecoverUnknown(p, j)
        PROVE  FALSE
    <2>1. pc[p] = "recover" /\ i # j
      BY <1>3 DEF RecoverPushed, RecoverUnpushed, RecoverUnknown
    <2>2. \/ work' = work
          \/ \E s \in States : SetState(j, s, "other")
      BY <1>3 DEF RecoverPushed, RecoverUnpushed, RecoverUnknown, States
    <2>3. work'[i] = work[i]
      <3>1. ASSUME NEW s \in States, SetState(j, s, "other") PROVE work'[i] = work[i]
        BY <2>1, <3>1 DEF SetState
      <3> QED
        BY <2>2, <3>1
    <2>4. posted'[i] = posted[i]
      BY <1>3, <2>1 DEF RecoverPushed, RecoverUnpushed, RecoverUnknown
    <2>5. /\ pc' = pc /\ item' = item
          /\ todo' = [todo EXCEPT ![p] = @ \ {j}]
      BY <1>3 DEF RecoverPushed, RecoverUnpushed, RecoverUnknown
    <2> QED
      BY <2>3, <2>4, <2>5
  <1>4. ASSUME NEW p \in Procs, NEW j \in Items, Ingest(p, j) \/ Redecide(p, j) PROVE FALSE
    <2>1. Level(cfg[p], i) # "auto"
      BY UnsafeIsNotAuto
    <2>2. \/ i = j /\ \E s \in {"dead", "proposed", "done"} : SetState(j, s, "other")
          \/ i # j /\ \E s \in States, r \in {"auto", "other"} : SetState(j, s, r)
      BY <1>4, <2>1 DEF Ingest, Redecide, States
    <2>3. work'[i].state \notin {"approved", "running"}
      BY <2>2, RowChange
    <2>4. pc' = pc /\ item' = item /\ posted' = posted
      BY <1>4 DEF Ingest, Redecide, procVars
    <2>5. todo' = todo \/ todo' = [todo EXCEPT ![p] = @ \ {j}]
      BY <1>4 DEF Ingest, Redecide, procVars
    <2>6. \A q \in Procs : todo'[q] \subseteq todo[q]
      BY <2>5, TodoShrinks
    <2>7. \A q \in Procs : pc'[q] = pc[q] /\ item'[q] = item[q]
      BY <2>4
    <2>8. posted'[i] = posted[i]
      BY <2>4
    <2> HIDE DEF Underway, RunPcs
    <2> QED
      BY <2>3, <2>6, <2>7, <2>8, StaysAside
  <1>5. ASSUME NEW p \in Procs, Try(p), ~Settle(p) PROVE FALSE
    <2>1. item' = item /\ todo' = todo /\ pc[p] \in RunPcs
      BY <1>5 DEF Try, Begin, PerformStop, PerformPlain, PerformMerge, PerformModel,
                  PerformReview, PerformAddress, Write, Checkout, Tool, Stage, Push,
                  Comment, Charge, Discard, Clear
    <2>2. item[p] # i
      BY <2>1
    <2>3. \E l \in RunPcs : Goto(p, l)
      BY <1>5 DEF Try, Begin, PerformStop, PerformPlain, PerformMerge, PerformModel,
                  PerformReview, PerformAddress, Write, Checkout, Tool, Stage, Push,
                  Comment, Charge, Discard, Clear, Result, PostEffect
    <2>4. work'[i] = work[i]
      BY <1>5, <2>2 DEF Try, Begin, PerformStop, PerformPlain, PerformMerge, PerformModel,
                  PerformReview, PerformAddress, Write, Checkout, Tool, Stage, Push,
                  Comment, Charge, Discard, Clear, SetState, dbVars
    <2>5. posted'[i] = posted[i]
      BY <1>5, <2>2 DEF Try, Begin, PerformStop, PerformPlain, PerformMerge, PerformModel,
                  PerformReview, PerformAddress, Write, Checkout, Tool, Stage, Push,
                  Comment, Charge, Discard, Clear, PostEffect
    <2> QED
      BY <2>1, <2>2, <2>3, <2>4, <2>5
  <1>6. ASSUME NEW p \in Procs, Settle(p) PROVE FALSE
    <2>1. item[p] # i
      BY <1>6 DEF Settle
    <2>2. work'[i] = work[i]
      BY <1>6, <2>1 DEF Settle, SetState, SetRetry, Fail
    <2>3. posted' = posted
      BY <1>6 DEF Settle
    <2>4. CASE Exit(p)
      BY <2>2, <2>3, <2>4, ExitStaysAside
    <2>5. CASE Goto(p, "pick") /\ Forget(p) /\ todo' = todo
      <3>1. "pick" \notin RunPcs /\ pc[p] # "decide"
        BY <1>6 DEF Settle
      <3>2. pc'[p] = "pick"
        BY <2>5
      <3>3. \A q \in Procs : q # p => pc'[q] = pc[q] /\ item'[q] = item[q]
        BY <2>5 DEF Forget
      <3> QED
        BY <2>2, <2>3, <2>5, <3>1, <3>2, <3>3, StaysAside
    <2> QED
      BY <1>6, <2>4, <2>5 DEF Settle
  <1>7. ASSUME NEW c \in Procs, ApproveWrite(c) PROVE Person(i)'
    <2>1. item[c] = i => Person(i)'
      BY <1>7 DEF ApproveWrite, Person, Never
    <2>2. item[c] # i => work'[i] = work[i]
      BY <1>7 DEF ApproveWrite
    <2>3. item[c] # i /\ Exit(c) => FALSE
      BY <1>7, <2>2, ExitStaysAside DEF ApproveWrite
    <2>4. item[c] # i /\ ~Exit(c) => FALSE
      BY <1>7, <2>2 DEF ApproveWrite
    <2> QED
      BY <2>1, <2>3, <2>4
  <1>8. ASSUME NEW c \in Procs, RejectWrite(c) \/ RetryWrite(c) PROVE FALSE
    <2>1. item[c] \in Items /\ DbOK
      OBVIOUS
    <2>2. \/ SetState(item[c], "done", "other")
          \/ SetRetry(item[c], "queued", "other", 0, 0)
      BY <1>8 DEF RejectWrite, RetryWrite
    <2>3. /\ i # item[c] => work'[i] = work[i]
          /\ work'[item[c]].state \in {"done", "queued"}
      BY <2>1, <2>2, RowChange
    <2>4. work'[i].state \notin {"approved", "running"}
      BY <2>3
    <2> QED
      BY <1>8, <2>4, ExitStaysAside DEF RejectWrite, RetryWrite
  <1>9. ASSUME NEW c \in Procs, NEW j \in Items,
               ApproveRead(c, j) \/ RejectRead(c, j) \/ RetryRead(c, j)
        PROVE  FALSE
    BY <1>9 DEF ApproveRead, RejectRead, RetryRead, Load, dbVars
  <1>10. ASSUME NEW c \in Procs, SetPaused(c) \/ Status(c) PROVE FALSE
    BY <1>10 DEF SetPaused, Status, procVars, dbVars
  <1>11. ASSUME NEW p \in Procs, StartWatch(p) \/ StopWatch(p) \/ Crash(p) PROVE FALSE
    <2>1. CASE StartWatch(p)
      BY <2>1 DEF StartWatch, dbVars
    <2>2. CASE StopWatch(p) \/ Crash(p)
      BY <2>2, ExitStaysAside DEF StopWatch, Crash, dbVars
    <2> QED
      BY <1>11, <2>1, <2>2
  <1>12. ASSUME \/ SetEnabled
                \/ \E r \in Rules : SetRule(r)
                \/ Tick
                \/ UNCHANGED vars
         PROVE  FALSE
    BY <1>12 DEF SetEnabled, SetRule, Tick, vars, dbVars, procVars
  <1> QED
    BY <1>1, <1>2, <1>3, <1>4, <1>5, <1>6, <1>7, <1>8, <1>9, <1>10, <1>11, <1>12
       DEF Next, Pass, Command

\* Every step keeps PersonInv.
LEMMA PersonStep ==
    ASSUME TypeOK, PersonInv, [Next]_vars
    PROVE  PersonInv'
  <1>1. ASSUME NEW i \in Items, Unsafe(i), Underway(i)' PROVE Person(i)'
    BY <1>1, UnderwayStep, ApprovalStays, PersonDef
  <1>2. \A i \in Items : Unsafe(i)' = Unsafe(i)
    BY DEF Unsafe, Highest, Class
  <1> QED
    BY <1>1, <1>2 DEF PersonInv, Unsafe, Underway, Person

\* An unsafe action reaches GitHub only for an item a person approved.
THEOREM UnsafeOnlyWithPerson == Spec => []UnsafeNeedsPerson
  <1>1. Init => PersonInv
    BY DEF Init, PersonInv, UnseenRow, RunPcs
  <1>2. PersonInv => UnsafeNeedsPerson
    BY DEF PersonInv, UnsafeNeedsPerson
  <1> QED
    BY <1>1, <1>2, TypeInit, TypeStep, PersonStep, PTL DEF Spec

-----------------------------------------------------------------------------
(* A pause lets at most one action finish                                   *)

\* The steps of a try up to its write.
BusyPcs == EffectPcs \cup {"begin", "perform"}

\* What one step may do to the pause flag, to what was written since, and to the
\* place of process p: a try begins only when the watch is not paused, and a
\* write leaves the steps before the write.
Proceeds(p) ==
    /\ late' = late /\ paused' = paused
    /\ \E l \in CliPcs \cup HolderPcs :
          Goto(p, l) /\ (l \in BusyPcs => pc[p] \in BusyPcs \/ ~paused)

Lands(p) ==
    /\ pc[p] \in EffectPcs /\ paused' = paused
    /\ late' = late \/ (paused /\ late' = late \cup {item[p]})
    /\ \E l \in HolderPcs \ BusyPcs : Goto(p, l)

Rests == pc' = pc /\ (late' = {} \/ UNCHANGED <<late, paused>>)

\* Each of them keeps PauseInv.
LEMMA ShapesKeepPause ==
    ASSUME TypeOK, PauseInv, LockInv', NEW p \in Procs, Proceeds(p) \/ Lands(p) \/ Rests
    PROVE  PauseInv'
  <1> USE DEF TypeOK, DbOK, ProcOK, SeenOK, PauseInv, LockInv, Goto, BusyPcs, EffectPcs,
              HolderPcs, LoopPcs, RunPcs, CliPcs
  <1>1. CASE Proceeds(p)
    BY <1>1 DEF Proceeds
  <1>2. CASE Lands(p)
    <2>1. late = {} /\ \A q \in Procs : q # p => pc[q] \notin HolderPcs
      BY <1>2 DEF Lands
    <2>2. \A q \in Procs : pc'[q] \notin BusyPcs
      BY <1>2, <2>1 DEF Lands
    <2>3. (~paused => late = {})' /\ (\A i, j \in late : i = j)'
      BY <1>2, <2>1 DEF Lands
    <2> QED
      BY <2>2, <2>3
  <1>3. CASE Rests
    BY <1>3 DEF Rests
  <1> QED
    BY <1>1, <1>2, <1>3

\* A pass picks an item only when the watch is not paused.
LEMMA PassPause ==
    ASSUME TypeOK, NEW p \in Procs, Pass(p) PROVE Proceeds(p) \/ Rests
  <1> USE DEF Proceeds, Rests, BusyPcs, EffectPcs, HolderPcs, LoopPcs, RunPcs, dbVars,
              procVars, seenVars
  <1>1. ASSUME StartPass(p) \/ EndRecover(p) \/ EndPoll(p) \/ StartRun(p) \/ EndPass(p)
        PROVE  Proceeds(p)
    BY <1>1 DEF StartPass, EndRecover, EndPoll, StartRun, EndPass
  <1>2. ASSUME Pick(p) PROVE Proceeds(p)
    BY <1>2 DEF Pick, MayStart
  <1>3. ASSUME NEW i \in Items,
               \/ RecoverPushed(p, i) \/ RecoverUnpushed(p, i) \/ RecoverUnknown(p, i)
               \/ Ingest(p, i) \/ Redecide(p, i)
        PROVE  Rests
    BY <1>3 DEF RecoverPushed, RecoverUnpushed, RecoverUnknown, Ingest, Redecide
  <1> QED
    BY <1>1, <1>2, <1>3 DEF Pass

\* A try goes on whether or not the watch is paused, and writes once.
LEMMA TryPause ==
    ASSUME TypeOK, NEW p \in Procs, Try(p) PROVE Proceeds(p) \/ Lands(p)
  <1> USE DEF Proceeds, Lands, BusyPcs, EffectPcs, HolderPcs, LoopPcs, RunPcs, dbVars,
              seenVars, Result
  <1>1. ASSUME Begin(p) \/ PerformStop(p) \/ PerformPlain(p) \/ PerformMerge(p)
        PROVE  Proceeds(p)
    BY <1>1 DEF Begin, PerformStop, PerformPlain, PerformMerge
  <1>2. ASSUME PerformModel(p) \/ PerformReview(p) \/ PerformAddress(p) PROVE Proceeds(p)
    BY <1>2 DEF PerformModel, PerformReview, PerformAddress
  <1>3. ASSUME Write(p) \/ Comment(p) PROVE Lands(p)
    <2>1. \/ UNCHANGED late
          \/ late' = IF paused THEN late \cup {item[p]} ELSE late
      BY <1>3 DEF Write, Comment, PostEffect, Noted
    <2>2. \E l \in HolderPcs \ BusyPcs : Goto(p, l)
      BY <1>3 DEF Write, Comment, PostEffect
    <2>3. pc[p] \in EffectPcs /\ paused' = paused
      BY <1>3 DEF Write, Comment
    <2>4. late' = late \/ (paused /\ late' = late \cup {item[p]})
      <3>1. paused \in BOOLEAN
        BY DEF TypeOK, DbOK
      <3>2. CASE paused
        BY <2>1, <3>2
      <3>3. CASE ~paused
        BY <2>1, <3>3
      <3> QED
        BY <3>1, <3>2, <3>3
    <2> QED
      BY <2>2, <2>3, <2>4
  <1>4. ASSUME Checkout(p) \/ Tool(p) \/ Stage(p) \/ Push(p) PROVE Proceeds(p)
    BY <1>4 DEF Checkout, Tool, Stage, Push
  <1>5. ASSUME Charge(p) \/ Discard(p) \/ Clear(p) PROVE Proceeds(p)
    BY <1>5 DEF Charge, Discard, Clear
  <1>6. ASSUME Settle(p) PROVE Proceeds(p)
    BY <1>6 DEF Settle, Exit, CliPcs
  <1> QED
    BY <1>1, <1>2, <1>3, <1>4, <1>5, <1>6 DEF Try

\* approve() carries an item out only when the watch is not paused.
LEMMA CommandPause ==
    ASSUME TypeOK, NEW c \in Procs, Command(c) PROVE Proceeds(c) \/ Rests
  <1> USE DEF Proceeds, Rests, BusyPcs, EffectPcs, HolderPcs, LoopPcs, RunPcs, CliPcs,
              dbVars, procVars, seenVars
  <1>1. ASSUME NEW i \in Items, ApproveRead(c, i) \/ RejectRead(c, i) \/ RetryRead(c, i)
        PROVE  Proceeds(c)
    BY <1>1 DEF ApproveRead, RejectRead, RetryRead, Load
  <1>2. ASSUME ApproveWrite(c) PROVE Proceeds(c)
    BY <1>2 DEF ApproveWrite, MayStart, Exit
  <1>3. ASSUME RejectWrite(c) \/ RetryWrite(c) \/ Status(c) PROVE Proceeds(c)
    BY <1>3 DEF RejectWrite, RetryWrite, Status, Exit
  <1>4. ASSUME SetPaused(c) PROVE Rests
    BY <1>4 DEF SetPaused
  <1> QED
    BY <1>1, <1>2, <1>3, <1>4 DEF Command

\* Every step keeps PauseInv.
LEMMA PauseStep ==
    ASSUME TypeOK, PauseInv, [Next]_vars
    PROVE  PauseInv'
  <1>1. LockInv'
    BY LockStep DEF PauseInv
  <1>2. ASSUME NEW p \in Procs, StartWatch(p) \/ StopWatch(p) \/ Crash(p) PROVE Proceeds(p)
    BY <1>2 DEF StartWatch, StopWatch, Crash, Exit, Proceeds, dbVars, seenVars, CliPcs,
                HolderPcs, LoopPcs, RunPcs, BusyPcs, EffectPcs
  <1>3. ASSUME \/ SetEnabled
               \/ \E r \in Rules : SetRule(r)
               \/ Tick
               \/ UNCHANGED vars
        PROVE  PauseInv'
    <2>1. UNCHANGED <<pc, late, paused>>
      BY <1>3 DEF SetEnabled, SetRule, Tick, vars, dbVars, procVars, seenVars
    <2> QED
      BY <1>1, <2>1 DEF PauseInv
  <1> QED
    BY <1>1, <1>2, <1>3, PassPause, TryPause, CommandPause, ShapesKeepPause DEF Next

\* After a pause at most one action still writes to GitHub.
THEOREM PauseIsSoft == Spec => []PauseLetsOneFinish
  <1>1. Init => PauseInv
    BY DEF Init, PauseInv, LockInv, HolderPcs, LoopPcs, RunPcs, EffectPcs
  <1>2. PauseInv => PauseLetsOneFinish
    <2> SUFFICES ASSUME PauseInv PROVE Cardinality(late) <= 1
      BY DEF PauseLetsOneFinish
    <2>1. CASE late = {}
      BY <2>1, FS_EmptySet
    <2>2. CASE late # {}
      <3>1. PICK i : i \in late
        BY <2>2
      <3>2. late = {i}
        BY <3>1 DEF PauseInv
      <3> QED
        <4>1. Cardinality({i}) = 1
          BY FS_Singleton, Zenon
        <4> QED
          BY <3>2, <4>1
    <2> QED
      BY <2>1, <2>2
  <1> QED
    BY <1>1, <1>2, TypeInit, TypeStep, PauseStep, PTL DEF Spec
-----------------------------------------------------------------------------
(* What the model costs stays within the day's budget                       *)

\* No rule has its label decided by model calls, whose cost is dropped unless the
\* label is written and is not held against the budget before (engine.rs).
NoClassify == ByModel = {}

\* A model call was made, or may have been, and its bill is not booked yet.
Owes(p) ==
    \/ pc[p] \in {"write", "charge", "stage", "push", "comment"}
    \/ pc[p] \in {"discard", "clear", "settle"} /\ out[p] = "done"

\* The budget of the editing model is set aside.
Reserves(p) == pc[p] \in {"checkout", "tool"}

\* A bill fits what the day has left, and is booked once.
BillOK(p) ==
    /\ pc[p] \notin RunPcs \/ pc[p] \in {"begin", "perform"} => bill[p] = 0
    /\ pc[p] = "write" /\ Class(item[p]) # "review_pr" => bill[p] = 0
    /\ pc[p] = "charge" => out[p] # "done"
    /\ Owes(p) \/ Reserves(p) => usd["*"] + bill[p] <= GlobalCap.usd

\* What kills may have hidden: one budget each.
Hidden == GlobalCap.usd * crashes

\* The model cost no more than is booked, hidden, or in the bill of a try.
SpentInv ==
    \/ spent <= usd["*"] + Hidden
    \/ \E p \in Procs : Owes(p) /\ spent <= usd["*"] + bill[p] + Hidden

MoneyInv ==
    /\ LockInv
    /\ usd["*"] <= GlobalCap.usd
    /\ \A p \in Procs : BillOK(p)
    /\ SpentInv

LEMMA HiddenGrows ==
    ASSUME TypeOK
    PROVE  /\ Hidden \in Nat
           /\ crashes' = crashes + 1 => Hidden' = Hidden + GlobalCap.usd
           /\ crashes' = crashes => Hidden' = Hidden
  <1>1. crashes \in Nat /\ GlobalCap.usd \in Nat
    BY ConstantTypes DEF TypeOK, SeenOK
  <1>2. \A n, k \in Nat : n * (k + 1) = n * k + n /\ n * k \in Nat
    OBVIOUS
  <1> QED
    BY <1>1, <1>2 DEF Hidden

\* What one step may do to the money and to the bill of process p.  Books: a bill
\* is kept, forgotten or taken up.  Calls: the model is run.  Pays: a bill
\* is booked.  Dies: a kill hides a bill.  A new day starts from nothing.
Elsewhere(p) ==
    \A q \in Procs \ {p} : /\ pc'[q] = pc[q] /\ out'[q] = out[q]
                           /\ bill'[q] = bill[q] /\ item'[q] = item[q]

Books(p) ==
    /\ UNCHANGED <<usd, spent, crashes>> /\ BillOK(p)'
    /\ Owes(p) => bill[p] = 0 \/ (Owes(p)' /\ bill'[p] = bill[p])

Calls(p) ==
    /\ pc[p] \in HolderPcs /\ ~Owes(p) /\ Owes(p)' /\ BillOK(p)'
    /\ UNCHANGED <<usd, crashes>> /\ spent' <= spent + bill'[p]

Pays(p) ==
    /\ pc[p] \in HolderPcs /\ Owes(p) /\ ~Owes(p)' /\ ~Reserves(p)' /\ BillOK(p)'
    /\ usd'["*"] = usd["*"] + bill[p] /\ UNCHANGED <<spent, crashes>>

Dies(p) ==
    /\ pc'[p] = "idle" /\ bill'[p] = 0
    /\ crashes' = crashes + 1 /\ UNCHANGED <<usd, spent>>

NewDay ==
    /\ UNCHANGED <<pc, out, bill, item, crashes>>
    /\ usd'["*"] = 0 /\ spent' = 0

Untouched == UNCHANGED <<pc, out, bill, item, usd, spent, crashes>>

\* A bill that is not p's keeps what BillOK says while the day's sum stays.
LEMMA BillKept ==
    ASSUME TypeOK, NEW q \in Procs, BillOK(q), usd'["*"] = usd["*"],
           pc'[q] = pc[q], out'[q] = out[q], bill'[q] = bill[q], item'[q] = item[q]
    PROVE  BillOK(q)' /\ Owes(q)' = Owes(q)
  BY DEF BillOK, Owes, Reserves, Class

LEMMA ShapesKeepMoney ==
    ASSUME TypeOK, TypeOK', MoneyInv, LockInv',
           \/ \E p \in Procs : Elsewhere(p) /\ (Books(p) \/ Calls(p) \/ Pays(p) \/ Dies(p))
           \/ NewDay \/ Untouched
    PROVE  MoneyInv'
  <1>1. /\ GlobalCap.usd \in Nat /\ usd["*"] \in Nat /\ usd'["*"] \in Nat
        /\ spent \in Nat /\ spent' \in Nat /\ Hidden \in Nat
        /\ \A q \in Procs : bill[q] \in Nat /\ bill'[q] \in Nat
    BY ConstantTypes, HiddenGrows DEF TypeOK, DbOK, ProcOK, SeenOK, Scopes
  <1>2. ASSUME NEW p \in Procs, Elsewhere(p), Books(p) PROVE MoneyInv'
    <2>1. Hidden' = Hidden /\ usd' = usd /\ spent' = spent /\ BillOK(p)'
      BY <1>2, HiddenGrows DEF Books
    <2>2. \A q \in Procs \ {p} : BillOK(q)' /\ Owes(q)' = Owes(q) /\ bill'[q] = bill[q]
      BY <1>2, <2>1, BillKept DEF Elsewhere, MoneyInv
    <2>3. SpentInv'
      <3>1. CASE spent <= usd["*"] + Hidden
        BY <3>1, <2>1 DEF SpentInv
      <3>2. ASSUME NEW q \in Procs, Owes(q), spent <= usd["*"] + bill[q] + Hidden
            PROVE  SpentInv'
        <4>1. CASE q = p /\ bill[p] = 0
          BY <4>1, <3>2, <2>1, <1>1 DEF SpentInv
        <4>2. CASE q # p \/ (Owes(p)' /\ bill'[p] = bill[p])
          BY <4>2, <3>2, <2>1, <2>2 DEF SpentInv
        <4> QED BY <4>1, <4>2, <3>2, <1>2 DEF Books
      <3> QED BY <3>1, <3>2 DEF MoneyInv, SpentInv
    <2> QED BY <2>1, <2>2, <2>3 DEF MoneyInv
  <1>3. ASSUME NEW p \in Procs, Elsewhere(p), pc[p] \in HolderPcs, usd'["*"] <= GlobalCap.usd
        PROVE  \A q \in Procs \ {p} : BillOK(q)' /\ ~Owes(q) /\ ~Owes(q)'
    <2> TAKE q \in Procs \ {p}
    <2>1. pc[q] \notin HolderPcs
      BY <1>3 DEF MoneyInv, LockInv
    <2>2. pc'[q] = pc[q] /\ bill'[q] = bill[q] /\ pc[q] \notin RunPcs
      BY <1>3, <2>1 DEF Elsewhere, HolderPcs
    <2>3. ~Owes(q) /\ ~Owes(q)' /\ ~Reserves(q)' /\ pc'[q] \notin {"write", "charge"}
      BY <2>2 DEF Owes, Reserves, RunPcs
    <2>4. bill'[q] = 0
      BY <2>2 DEF MoneyInv, BillOK
    <2> QED BY <2>2, <2>3, <2>4 DEF BillOK
  <1>4. ASSUME NEW p \in Procs, Elsewhere(p), Calls(p) PROVE MoneyInv'
    <2>1. /\ Hidden' = Hidden /\ usd' = usd /\ BillOK(p)' /\ Owes(p)' /\ ~Owes(p)
          /\ spent' <= spent + bill'[p]
      BY <1>4, HiddenGrows DEF Calls
    <2>2. \A q \in Procs \ {p} : BillOK(q)' /\ ~Owes(q)
      BY <1>3, <1>4, <2>1 DEF Calls, MoneyInv
    <2>3. spent <= usd["*"] + Hidden
      BY <2>1, <2>2 DEF MoneyInv, SpentInv
    <2>4. spent' <= usd'["*"] + bill'[p] + Hidden'
      BY <2>1, <2>3, <1>1
    <2> QED BY <1>4, <2>1, <2>2, <2>4 DEF MoneyInv, SpentInv
  <1>5. ASSUME NEW p \in Procs, Elsewhere(p), Pays(p) PROVE MoneyInv'
    <2>1. /\ Hidden' = Hidden /\ spent' = spent /\ BillOK(p)' /\ Owes(p)
          /\ usd'["*"] = usd["*"] + bill[p]
      BY <1>5, HiddenGrows DEF Pays
    <2>2. usd'["*"] <= GlobalCap.usd
      BY <2>1 DEF MoneyInv, BillOK
    <2>3. \A q \in Procs \ {p} : BillOK(q)' /\ ~Owes(q)
      BY <1>3, <1>5, <2>2 DEF Pays
    <2>4. spent <= usd["*"] + Hidden \/ spent <= usd["*"] + bill[p] + Hidden
      BY <2>3 DEF MoneyInv, SpentInv
    <2>5. spent' <= usd'["*"] + Hidden'
      BY <2>1, <2>4, <1>1
    <2> QED BY <2>1, <2>2, <2>3, <2>5 DEF MoneyInv, SpentInv
  <1>6. ASSUME NEW p \in Procs, Elsewhere(p), Dies(p) PROVE MoneyInv'
    <2>1. /\ Hidden' = Hidden + GlobalCap.usd /\ usd' = usd /\ spent' = spent
      BY <1>6, HiddenGrows DEF Dies
    <2>2. BillOK(p)'
      BY <1>6 DEF Dies, BillOK, Owes, Reserves
    <2>3. \A q \in Procs \ {p} : BillOK(q)'
      BY <1>6, <2>1, BillKept DEF Elsewhere, MoneyInv
    <2>4. \A q \in Procs : Owes(q) => usd["*"] + bill[q] <= GlobalCap.usd
      BY DEF MoneyInv, BillOK
    <2>5. spent <= usd["*"] + Hidden + GlobalCap.usd
      <3>1. ASSUME NEW q \in Procs, Owes(q), spent <= usd["*"] + bill[q] + Hidden
            PROVE  spent <= usd["*"] + Hidden + GlobalCap.usd
        BY <3>1, <2>4, <1>1
      <3> QED BY <3>1, <1>1 DEF MoneyInv, SpentInv
    <2> QED BY <2>1, <2>2, <2>3, <2>5, <1>1 DEF MoneyInv, SpentInv
  <1>7. CASE NewDay
    <2>1. \A q \in Procs : BillOK(q)'
      <3> TAKE q \in Procs
      <3>1. Owes(q)' = Owes(q) /\ Reserves(q)' = Reserves(q) /\ bill'[q] = bill[q]
        BY <1>7 DEF NewDay, Owes, Reserves
      <3>2. Owes(q) \/ Reserves(q) => usd'["*"] + bill[q] <= GlobalCap.usd
        BY <1>1, <1>7 DEF NewDay, MoneyInv, BillOK
      <3> QED BY <1>7, <3>1, <3>2 DEF NewDay, MoneyInv, BillOK, Class
    <2>2. Hidden' = Hidden
      BY HiddenGrows, <1>7 DEF NewDay
    <2>3. usd'["*"] = 0 /\ spent' = 0
      BY <1>7 DEF NewDay
    <2>4. usd'["*"] <= GlobalCap.usd /\ spent' <= usd'["*"] + Hidden'
      BY <1>1, <2>2, <2>3
    <2> QED BY <2>1, <2>4 DEF MoneyInv, SpentInv
  <1>8. CASE Untouched
    <2>1. \A q \in Procs : BillOK(q)' /\ Owes(q)' = Owes(q)
      BY <1>8, BillKept DEF Untouched, MoneyInv
    <2>2. Hidden' = Hidden
      BY <1>8, HiddenGrows DEF Untouched
    <2> QED BY <1>8, <2>1, <2>2 DEF Untouched, MoneyInv, SpentInv
  <1> QED BY <1>2, <1>4, <1>5, <1>6, <1>7, <1>8

\* What the model may still cost today is within both limits.
LEMMA RemainingFits ==
    ASSUME TypeOK, usd["*"] <= GlobalCap.usd, NEW i \in Items
    PROVE  Remaining(i) \in Nat /\ usd["*"] + Remaining(i) <= GlobalCap.usd
  <1>1. /\ usd["*"] \in Nat /\ usd[RuleOf[i]] \in Nat /\ GlobalCap.usd \in Nat
        /\ RuleCap[RuleOf[i]].usd \in Nat
    BY ConstantTypes DEF TypeOK, DbOK, Scopes
  <1> QED BY <1>1 DEF Remaining

\* A pass has no bills.
LEMMA PassMoney ==
    ASSUME TypeOK, MoneyInv, NEW p \in Procs, Pass(p)
    PROVE  (Elsewhere(p) /\ Books(p)) \/ Untouched
  <1> USE DEF Elsewhere, Books, Untouched, BillOK, Owes, Reserves, RunPcs, MoneyInv, TypeOK,
              ProcOK, dbVars, procVars, seenVars, Goto
  <1>1. ASSUME StartPass(p) \/ EndRecover(p) \/ EndPoll(p) \/ StartRun(p) \/ EndPass(p)
        PROVE  Elsewhere(p) /\ Books(p)
    BY <1>1 DEF StartPass, EndRecover, EndPoll, StartRun, EndPass
  <1>2. ASSUME Pick(p) PROVE Elsewhere(p) /\ Books(p)
    BY <1>2 DEF Pick
  <1>3. ASSUME NEW i \in Items,
               \/ RecoverPushed(p, i) \/ RecoverUnpushed(p, i) \/ RecoverUnknown(p, i)
               \/ Ingest(p, i) \/ Redecide(p, i)
        PROVE  Untouched
    BY <1>3 DEF RecoverPushed, RecoverUnpushed, RecoverUnknown, Ingest, Redecide
  <1> QED
    BY <1>1, <1>2, <1>3 DEF Pass

\* A try makes one bill, within what is left, and books it once.
LEMMA TryMoney ==
    ASSUME NoClassify, TypeOK, MoneyInv, NEW p \in Procs, Try(p)
    PROVE  Elsewhere(p) /\ (Books(p) \/ Calls(p) \/ Pays(p))
  <1> DEFINE i == item[p]
  <1>1. /\ i \in Items /\ bill[p] \in Nat /\ spent \in Nat /\ usd["*"] \in Nat
        /\ GlobalCap.usd \in Nat /\ usd["*"] <= GlobalCap.usd
        /\ Remaining(i) \in Nat /\ usd["*"] + Remaining(i) <= GlobalCap.usd
        /\ DOMAIN pc = Procs /\ DOMAIN out = Procs /\ DOMAIN bill = Procs
    BY ConstantTypes, RemainingFits DEF TypeOK, DbOK, ProcOK, SeenOK, Scopes, MoneyInv
  <1>2. BillOK(p)
    BY DEF MoneyInv
  <1> USE DEF Elsewhere, BillOK, Owes, Reserves, RunPcs, Result, Goto
  <1>3. ASSUME Begin(p) \/ PerformStop(p) \/ PerformPlain(p) \/ PerformMerge(p)
        PROVE  Elsewhere(p) /\ Books(p)
    <2>1. /\ pc[p] \in {"begin", "perform"} /\ UNCHANGED <<item, bill, usd, spent, crashes>>
          /\ bill[p] = 0
          /\ \/ \E o \in Outcomes \ {"done"} : Result(p, o, "settle")
             \/ pc' = [pc EXCEPT ![p] = "perform"] /\ out' = out
             \/ pc' = [pc EXCEPT ![p] = "write"] /\ out' = out
      BY <1>2, <1>3 DEF Begin, PerformStop, PerformPlain, PerformMerge, Outcomes, dbVars, seenVars
    <2> QED BY <1>1, <2>1 DEF Books
  <1>4. ~PerformModel(p)
    BY DEF PerformModel, NoClassify
  <1>5. ASSUME PerformReview(p) PROVE Elsewhere(p) /\ (Books(p) \/ Calls(p))
    <2>1. pc[p] = "perform" /\ bill[p] = 0 /\ Class(i) = "review_pr"
          /\ UNCHANGED <<item, usd, crashes>>
      BY <1>2, <1>5 DEF PerformReview, dbVars
    <2>2. CASE /\ UNCHANGED <<bill, spent>>
               /\ \E o \in {"already", "demote"} : Result(p, o, "settle")
      BY <1>1, <2>1, <2>2 DEF Books
    <2>3. CASE \E c \in 0 .. Remaining(i) :
                  /\ spent' = spent + c
                  /\ \/ Result(p, "error", "charge") \/ Result(p, "demote", "charge")
                     \/ Goto(p, "write") /\ out' = out
                  /\ \E b \in {c, Remaining(i)} : bill' = [bill EXCEPT ![p] = b]
      <3>1. PICK c \in 0 .. Remaining(i) :
               /\ spent' = spent + c
               /\ \/ Result(p, "error", "charge") \/ Result(p, "demote", "charge")
                  \/ Goto(p, "write") /\ out' = out
               /\ \E b \in {c, Remaining(i)} : bill' = [bill EXCEPT ![p] = b]
        BY <2>3
      <3>2. PICK b \in {c, Remaining(i)} : bill' = [bill EXCEPT ![p] = b]
        BY <3>1
      <3>3. c \in Nat /\ c <= b /\ b <= Remaining(i) /\ b \in Nat
        BY <1>1
      <3>4. bill'[p] = b /\ usd["*"] + b <= GlobalCap.usd /\ spent' <= spent + b
        BY <1>1, <3>1, <3>2, <3>3
      <3>5. Elsewhere(p) /\ pc'[p] \in {"charge", "write"} /\ (pc'[p] = "charge" => out'[p] # "done")
        BY <1>1, <2>1, <3>1, <3>2
      <3>6. Class(item[p])' = Class(item[p])
        BY <2>1 DEF Class
      <3> QED BY <2>1, <3>4, <3>5, <3>6 DEF Calls, HolderPcs
    <2> QED BY <1>5, <2>2, <2>3 DEF PerformReview, Charges
  <1>6. ASSUME PerformAddress(p) PROVE Elsewhere(p) /\ Books(p)
    <2>1. /\ pc[p] = "perform" /\ bill[p] = 0 /\ UNCHANGED <<item, usd, spent, crashes>>
          /\ \/ bill' = bill /\ \E o \in {"already", "demote"} : Result(p, o, "settle")
             \/ bill' = [bill EXCEPT ![p] = Remaining(i)] /\ Goto(p, "checkout") /\ out' = out
      BY <1>2, <1>6 DEF PerformAddress, seenVars
    <2> QED BY <1>1, <2>1 DEF Books
  <1>7. ASSUME Write(p) PROVE Elsewhere(p) /\ Books(p)
    <2>1. /\ pc[p] = "write" /\ UNCHANGED <<item, bill, usd, spent, crashes>>
          /\ \/ Result(p, "done", "settle")
             \/ Class(i) = "review_pr" /\ Result(p, "error", "charge")
             \/ Class(i) # "review_pr" /\ Result(p, "error", "settle")
      BY <1>7 DEF Write, PostEffect, dbVars
    <2> QED BY <1>1, <1>2, <2>1 DEF Books
  <1>8. ASSUME Comment(p) PROVE Elsewhere(p) /\ Books(p)
    <2>1. /\ pc[p] = "comment" /\ UNCHANGED <<item, bill, usd, spent, crashes>>
          /\ \/ Result(p, "done", "discard")
             \/ Result(p, "error", "charge")
      BY <1>8 DEF Comment, PostEffect, dbVars
    <2> QED BY <1>1, <1>2, <2>1 DEF Books
  <1>9. ASSUME Checkout(p) PROVE Elsewhere(p) /\ Books(p)
    <2>1. /\ pc[p] = "checkout" /\ UNCHANGED <<item, bill, usd, spent, crashes>>
          /\ \/ Goto(p, "tool") /\ out' = out
             \/ Result(p, "error", "discard")
      BY <1>9 DEF Checkout, dbVars, seenVars
    <2> QED BY <1>1, <1>2, <2>1 DEF Books
  <1>10. ASSUME Tool(p) PROVE Elsewhere(p) /\ Calls(p)
    <2>1. PICK c \in 0 .. bill[p] :
             /\ spent' = spent + c
             /\ \/ Result(p, "error", "charge") /\ bill' = bill
                \/ Result(p, "stopped", "charge") /\ bill' = bill
                \/ /\ Goto(p, "stage") /\ out' = out
                   /\ \E b \in {c, bill[p]} : bill' = [bill EXCEPT ![p] = b]
      BY <1>10 DEF Tool, Charges
    <2>2. pc[p] = "tool" /\ UNCHANGED <<item, usd, crashes>> /\ usd["*"] + bill[p] <= GlobalCap.usd
      BY <1>2, <1>10 DEF Tool, dbVars
    <2>3. c <= bill'[p] /\ bill'[p] <= bill[p] /\ bill'[p] \in Nat
      BY <1>1, <2>1
    <2>4. spent' <= spent + bill'[p] /\ usd["*"] + bill'[p] <= GlobalCap.usd
      BY <1>1, <2>1, <2>2, <2>3
    <2>5. Elsewhere(p) /\ pc'[p] \in {"charge", "stage"} /\ (pc'[p] = "charge" => out'[p] # "done")
      BY <1>1, <2>1, <2>2
    <2> QED BY <2>2, <2>4, <2>5 DEF Calls, HolderPcs
  <1>11. ASSUME Stage(p) \/ Push(p) PROVE Elsewhere(p) /\ Books(p)
    <2>1. /\ pc[p] \in {"stage", "push"} /\ UNCHANGED <<item, bill, usd, spent, crashes>>
          /\ \/ \E o \in Outcomes \ {"done"} : Result(p, o, "charge")
             \/ \E l \in {"push", "comment"} : Goto(p, l) /\ out' = out
      BY <1>11 DEF Stage, Push, Outcomes, dbVars, seenVars
    <2> QED BY <1>1, <1>2, <2>1 DEF Books
  <1>12. ASSUME NEW r \in Rules, usd' = [usd EXCEPT ![r] = @ + bill[p], !["*"] = @ + bill[p]]
         PROVE  usd'["*"] = usd["*"] + bill[p]
    BY <1>12, QueueAssumption DEF TypeOK, DbOK, Scopes
  <1>13. ASSUME Charge(p) PROVE Elsewhere(p) /\ Pays(p)
    <2>1. usd'["*"] = usd["*"] + bill[p]
      BY <1>1, <1>12, <1>13, ConstantTypes DEF Charge
    <2>2. /\ pc[p] = "charge" /\ UNCHANGED <<item, out, bill, spent, crashes>>
          /\ \E l \in {"discard", "settle"} : Goto(p, l)
      BY <1>13 DEF Charge, seenVars
    <2> QED BY <1>1, <1>2, <2>1, <2>2 DEF Pays, HolderPcs
  <1>14. ASSUME Discard(p) \/ Clear(p) PROVE Elsewhere(p) /\ Books(p)
    BY <1>1, <1>2, <1>14 DEF Discard, Clear, Books, dbVars, seenVars
  <1>15. ASSUME Settle(p) PROVE Elsewhere(p) /\ (Books(p) \/ Pays(p))
    <2>1. /\ pc[p] = "settle" /\ UNCHANGED <<spent, crashes>>
          /\ \E l \in {"pick", "idle"} : Goto(p, l)
          /\ item' = [item EXCEPT ![p] = AnyItem]
          /\ out' = [out EXCEPT ![p] = "done"] /\ bill' = [bill EXCEPT ![p] = 0]
      BY <1>15 DEF Settle, Exit, Forget, seenVars
    <2>2. Elsewhere(p) /\ pc'[p] \in {"pick", "idle"} /\ bill'[p] = 0
      BY <1>1, <2>1 DEF TypeOK, ProcOK
    <2>3. BillOK(p)' /\ ~Owes(p)' /\ ~Reserves(p)'
      BY <2>2
    <2>4. CASE out[p] = "done" /\ CountAction(p)
      <3>1. usd'["*"] = usd["*"] + bill[p]
        BY <1>1, <1>12, <2>4, ConstantTypes DEF CountAction
      <3> QED BY <2>1, <2>2, <2>3, <2>4, <3>1 DEF Pays, HolderPcs
    <2>5. CASE out[p] # "done" /\ usd' = usd
      BY <2>1, <2>2, <2>3, <2>5 DEF Books
    <2> QED BY <1>15, <2>4, <2>5 DEF Settle
  <1> QED
    BY <1>3, <1>4, <1>5, <1>6, <1>7, <1>8, <1>9, <1>10, <1>11, <1>13, <1>14, <1>15 DEF Try

\* A command runs no model of its own.
LEMMA CommandMoney ==
    ASSUME TypeOK, MoneyInv, NEW c \in Procs, Command(c)
    PROVE  (Elsewhere(c) /\ Books(c)) \/ Untouched
  <1>1. BillOK(c) /\ DOMAIN pc = Procs /\ DOMAIN item = Procs /\ DOMAIN bill = Procs
        /\ DOMAIN out = Procs
    BY DEF MoneyInv, TypeOK, ProcOK
  <1> USE DEF Elsewhere, Books, Untouched, BillOK, Owes, Reserves, RunPcs, Goto,
              dbVars, procVars, seenVars
  <1>2. ASSUME NEW i \in Items, ApproveRead(c, i) \/ RejectRead(c, i) \/ RetryRead(c, i)
        PROVE  Elsewhere(c) /\ Books(c)
    BY <1>1, <1>2 DEF ApproveRead, RejectRead, RetryRead, Load
  <1>3. ASSUME ApproveWrite(c) \/ RejectWrite(c) \/ RetryWrite(c)
        PROVE  Elsewhere(c) /\ Books(c)
    BY <1>1, <1>3 DEF ApproveWrite, RejectWrite, RetryWrite, Exit, Forget
  <1>4. ASSUME SetPaused(c) PROVE Untouched
    BY <1>4 DEF SetPaused
  <1>5. ASSUME Status(c) PROVE Elsewhere(c) /\ Books(c)
    BY <1>1, <1>5 DEF Status
  <1> QED
    BY <1>2, <1>3, <1>4, <1>5 DEF Command

\* Every step keeps MoneyInv.
LEMMA MoneyStep ==
    ASSUME NoClassify, TypeOK, MoneyInv, [Next]_vars
    PROVE  MoneyInv'
  <1>1. TypeOK' /\ LockInv'
    BY TypeStep, LockStep DEF MoneyInv
  <1>2. ASSUME NEW p \in Procs, StartWatch(p) \/ StopWatch(p)
        PROVE  Elsewhere(p) /\ Books(p)
    BY <1>2 DEF StartWatch, StopWatch, Exit, Forget, Elsewhere, Books, BillOK, Owes, Reserves,
                RunPcs, Goto, dbVars, seenVars, MoneyInv, TypeOK, ProcOK
  <1>3. ASSUME NEW p \in Procs, Crash(p) PROVE Elsewhere(p) /\ Dies(p)
    BY <1>3 DEF Crash, Exit, Forget, Elsewhere, Dies, Goto, dbVars, TypeOK, ProcOK
  <1>4. ASSUME SetEnabled \/ (\E r \in Rules : SetRule(r)) \/ UNCHANGED vars
        PROVE  Untouched
    BY <1>4 DEF SetEnabled, SetRule, vars, dbVars, procVars, seenVars, Untouched
  <1>5. ASSUME Tick PROVE NewDay \/ Untouched
    BY <1>5 DEF Tick, procVars, NewDay, Untouched, Scopes
  <1> QED
    BY <1>1, <1>2, <1>3, <1>4, <1>5, PassMoney, TryMoney, CommandMoney, ShapesKeepMoney DEF Next

\* The model costs at most the day's budget, and one budget more for every kill
\* between a call and its charge.
THEOREM BudgetHolds ==
    ASSUME NoClassify
    PROVE  Spec => []SpendWithinCap
  <1>1. Init => MoneyInv
    <2>1. Init => Hidden = 0 /\ usd["*"] = 0
      BY ConstantTypes DEF Init, Hidden, Scopes
    <2> QED
      BY <2>1, ConstantTypes DEF Init, MoneyInv, LockInv, BillOK, SpentInv, Owes, Reserves,
         HolderPcs, LoopPcs, RunPcs
  <1>2. TypeOK /\ MoneyInv => SpendWithinCap
    <2> SUFFICES ASSUME TypeOK, MoneyInv PROVE SpendWithinCap
      OBVIOUS
    <2>1. /\ spent \in Nat /\ crashes \in Nat /\ GlobalCap.usd \in Nat /\ usd["*"] \in Nat
          /\ \A q \in Procs : bill[q] \in Nat
      BY ConstantTypes DEF TypeOK, DbOK, ProcOK, SeenOK, Scopes
    <2>2. spent <= GlobalCap.usd + Hidden /\ Hidden \in Nat
      BY <2>1, HiddenGrows DEF MoneyInv, SpentInv, BillOK
    <2>3. \A n, k \in Nat : n * (1 + k) = n + n * k
      OBVIOUS
    <2> QED BY <2>1, <2>2, <2>3 DEF SpendWithinCap, Hidden
  <1>3. TypeOK /\ MoneyInv /\ [Next]_vars => MoneyInv'
    BY MoneyStep
  <1> QED
    BY <1>1, <1>2, <1>3, TypeInit, TypeStep, PTL DEF Spec
-----------------------------------------------------------------------------
(* What a rule does on its own is within its caps and its cooldown          *)

\* An action was written and finish() has still to count it.
Counting(p) == pc[p] \in {"discard", "clear", "settle"} /\ out[p] = "done"

\* An automatic item is between its caps check and its write.
Acting(p) == pc[p] \in EffectPcs \cup {"perform"} /\ row[p].reason = "auto"

\* When the rule last acted on the object of item i.
ActedOn(i) == acted[RuleOf[i]][ObjectOf[i]]

TouchedEver == {j \in Items : touched[j] # Never}

TouchedToday(r) ==
    {j \in TouchedEver : RuleOf[j] = r /\ DayOf(touched[j]) = DayOf(now)}

\* No action lies in the future.
TimesInv ==
    /\ \A i \in Items : Never <= touched[i] /\ touched[i] <= now
    /\ \A r \in Rules : \A o \in Objects : acted[r][o] <= now

\* Only a process that has an item has a row in hand.
RowOK(p) == pc[p] \in LoopPcs \cup {"idle", "status"} => row[p].reason = "other"

\* What the caps check found is still so at the write.
LeaveOK(p) ==
    Acting(p) => /\ ActedOn(item[p]) # Never => now - ActedOn(item[p]) >= ObjectCooldown
                 /\ actions[RuleOf[item[p]]] < RuleCap[RuleOf[item[p]]].actions

\* Unless a kill or a lost answer hid it, an action is stamped or about to be.
StampedInv ==
    crashes + lost = 0 =>
        \A j \in TouchedEver :
            ActedOn(j) >= touched[j] \/ \E p \in Procs : Counting(p) /\ item[p] = j

\* Every item written today is counted, about to be counted, or was hidden.
CountedInv ==
    /\ IsFiniteSet(TouchedEver)
    /\ \A r \in Rules :
          \/ Cardinality(TouchedToday(r)) <= actions[r] + crashes + lost
          \/ /\ \E p \in Procs : Counting(p) /\ RuleOf[item[p]] = r
             /\ Cardinality(TouchedToday(r)) <= actions[r] + crashes + lost + 1

AloneInv ==
    /\ LockInv
    /\ TimesInv
    /\ \A p \in Procs : RowOK(p) /\ LeaveOK(p)
    /\ StampedInv
    /\ CountedInv

LEMMA CapTypes ==
    ASSUME TypeOK
    PROVE  /\ now \in Nat /\ crashes \in Nat /\ lost \in Nat
           /\ \A i \in Items : /\ touched[i] \in Int /\ ActedOn(i) \in Int
                               /\ RuleOf[i] \in Rules /\ ObjectOf[i] \in Objects
           /\ \A r \in Rules : actions[r] \in Nat /\ RuleCap[r].actions \in Nat
           /\ \A p \in Procs : item[p] \in Items
           /\ ObjectCooldown \in Nat /\ Never = -1
  BY ConstantTypes, LimitsAssumption
     DEF TypeOK, DbOK, ProcOK, WorldOK, SeenOK, ActedOn, Scopes, Never

\* Days follow one another.
LEMMA DaysInOrder ==
    ASSUME NEW a \in Nat, NEW b \in Nat, a <= b
    PROVE  DayOf(a) \in Nat /\ DayOf(a) <= DayOf(b)
  <1>1. Day \in Nat /\ Day > 0
    BY LimitsAssumption
  <1>2. \A n, m \in Nat, d \in Nat \ {0} : n <= m => n \div d \in Nat /\ n \div d <= m \div d
    OBVIOUS
  <1> QED BY <1>1, <1>2 DEF DayOf

\* What was written today is a part of what was ever written.
LEMMA TodayIsFinite ==
    ASSUME CountedInv, NEW r \in Rules
    PROVE  IsFiniteSet(TouchedToday(r)) /\ Cardinality(TouchedToday(r)) \in Nat
  <1>1. TouchedToday(r) \subseteq TouchedEver /\ IsFiniteSet(TouchedEver)
    BY DEF TouchedToday, CountedInv
  <1> QED BY <1>1, FS_Subset, FS_CardinalityType

\* What one step of process p may do.  Goes: it keeps the action it has to count,
\* or is killed.  Touches: it writes, and keeps it in mind or loses the answer.
\* Counts: finish().
ElsewhereAt(p) ==
    \A q \in Procs \ {p} : /\ pc'[q] = pc[q] /\ out'[q] = out[q]
                           /\ item'[q] = item[q] /\ row'[q] = row[q]

Goes(p) ==
    /\ UNCHANGED <<touched, acted, actions, now>>
    /\ RowOK(p)' /\ LeaveOK(p)'
    /\ crashes' \in {crashes, crashes + 1} /\ lost' \in {lost, lost + 1}
    /\ Counting(p) => (Counting(p)' /\ item'[p] = item[p]) \/ crashes' = crashes + 1

Touches(p) ==
    /\ pc[p] \in EffectPcs
    /\ touched' = [touched EXCEPT ![item[p]] = now]
    /\ UNCHANGED <<acted, actions, now, crashes>>
    /\ RowOK(p)' /\ ~Acting(p)'
    /\ \/ Counting(p)' /\ item'[p] = item[p] /\ lost' = lost
       \/ lost' = lost + 1

Counts(p) ==
    /\ Counting(p) /\ pc[p] \in HolderPcs
    /\ UNCHANGED <<touched, now, crashes, lost>>
    /\ RowOK(p)' /\ ~Acting(p)'
    /\ LET r == RuleOf[item[p]] IN
         /\ \A s \in Rules : actions'[s] = IF s = r THEN actions[s] + 1 ELSE actions[s]
         /\ acted' = [acted EXCEPT ![r][ObjectOf[item[p]]] = now]

Ticks ==
    /\ UNCHANGED <<pc, out, item, row, touched, acted, crashes, lost>>
    /\ now' = now + 1
    /\ \/ DayOf(now + 1) = DayOf(now) /\ actions' = actions
       \/ DayOf(now + 1) # DayOf(now) /\ \A r \in Rules : actions'[r] = 0

Waits == UNCHANGED <<pc, out, item, row, touched, acted, actions, now, crashes, lost>>

\* A process that is not p keeps what it found.
LEMMA LeaveKept ==
    ASSUME TypeOK, NEW q \in Procs, RowOK(q), LeaveOK(q), UNCHANGED <<acted, actions, now>>,
           pc'[q] = pc[q], out'[q] = out[q], item'[q] = item[q], row'[q] = row[q]
    PROVE  RowOK(q)' /\ LeaveOK(q)' /\ Counting(q)' = Counting(q)
  BY DEF RowOK, LeaveOK, Counting, Acting, ActedOn

\* While the holder of the lock steps, no other process counts or is to write.
LEMMA OthersAreOut ==
    ASSUME TypeOK, AloneInv, NEW p \in Procs, pc[p] \in HolderPcs, ElsewhereAt(p)
    PROVE  \A q \in Procs \ {p} : /\ RowOK(q)' /\ LeaveOK(q)'
                                  /\ ~Counting(q) /\ ~Counting(q)' /\ ~Acting(q)
  <1> TAKE q \in Procs \ {p}
  <1>1. pc[q] \notin HolderPcs /\ RowOK(q)
    BY DEF AloneInv, LockInv
  <1>2. pc'[q] = pc[q] /\ row'[q] = row[q] /\ out'[q] = out[q]
    BY DEF ElsewhereAt
  <1>3. ~Counting(q) /\ ~Counting(q)' /\ ~Acting(q) /\ ~Acting(q)'
    BY <1>1, <1>2 DEF Counting, Acting, HolderPcs, RunPcs, EffectPcs
  <1> QED BY <1>1, <1>2, <1>3 DEF RowOK, LeaveOK

\* A step that writes nothing keeps the sets of what was written.
LEMMA TouchedKept ==
    ASSUME touched' = touched, now' = now
    PROVE  TouchedEver' = TouchedEver /\ \A r \in Rules : TouchedToday(r)' = TouchedToday(r)
  BY DEF TouchedEver, TouchedToday

LEMMA GoesKeeps ==
    ASSUME TypeOK, AloneInv, LockInv', NEW p \in Procs, ElsewhereAt(p), Goes(p)
    PROVE  AloneInv'
  <1>1. TouchedEver' = TouchedEver /\ \A r \in Rules : TouchedToday(r)' = TouchedToday(r)
    BY TouchedKept DEF Goes
  <1>2. \A q \in Procs : RowOK(q)' /\ LeaveOK(q)'
    <2>1. \A q \in Procs \ {p} : RowOK(q)' /\ LeaveOK(q)'
      BY LeaveKept DEF AloneInv, Goes, ElsewhereAt
    <2> QED BY <2>1 DEF Goes
  <1>3. \A q \in Procs : Counting(q) => (Counting(q)' /\ item'[q] = item[q]) \/ crashes' = crashes + 1
    BY DEF Goes, ElsewhereAt, Counting
  <1>4. TimesInv'
    BY DEF AloneInv, TimesInv, Goes
  <1>5. StampedInv'
    <2> SUFFICES ASSUME crashes' + lost' = 0, NEW j \in TouchedEver,
                        ~(ActedOn(j) >= touched[j])
                 PROVE  \E q \in Procs : Counting(q)' /\ item'[q] = j
      BY <1>1 DEF StampedInv, Goes, ActedOn
    <2>1. crashes' = crashes /\ lost' = lost /\ crashes' # crashes + 1
      BY CapTypes DEF Goes
    <2>2. PICK q \in Procs : Counting(q) /\ item[q] = j
      BY <2>1 DEF AloneInv, StampedInv
    <2> QED BY <1>3, <2>1, <2>2
  <1>6. CountedInv'
    <2>1. IsFiniteSet(TouchedEver)'
      BY <1>1 DEF AloneInv, CountedInv
    <2> SUFFICES ASSUME NEW r \in Rules
                 PROVE  \/ Cardinality(TouchedToday(r)) <= actions[r] + crashes' + lost'
                        \/ /\ \E q \in Procs : Counting(q)' /\ RuleOf[item'[q]] = r
                           /\ Cardinality(TouchedToday(r)) <= actions[r] + crashes' + lost' + 1
      BY <1>1, <2>1 DEF CountedInv, Goes
    <2> DEFINE n == Cardinality(TouchedToday(r))
    <2>2. /\ n \in Nat /\ actions[r] \in Nat /\ crashes \in Nat /\ lost \in Nat
          /\ crashes' \in {crashes, crashes + 1} /\ lost' \in {lost, lost + 1}
      BY CapTypes, TodayIsFinite DEF AloneInv, Goes
    <2> HIDE DEF n
    <2>3. CASE n <= actions[r] + crashes + lost
      <3>1. n <= actions[r] + crashes' + lost'
        BY <2>2, <2>3
      <3> QED BY <3>1 DEF n
    <2>4. ASSUME NEW q \in Procs, Counting(q), RuleOf[item[q]] = r,
                 n <= actions[r] + crashes + lost + 1
          PROVE  \/ n <= actions[r] + crashes' + lost'
                 \/ /\ \E x \in Procs : Counting(x)' /\ RuleOf[item'[x]] = r
                    /\ n <= actions[r] + crashes' + lost' + 1
      <3>1. CASE crashes' = crashes + 1
        BY <2>2, <2>4, <3>1
      <3>2. CASE Counting(q)' /\ item'[q] = item[q]
        <4>1. n <= actions[r] + crashes' + lost' + 1
          BY <2>2, <2>4
        <4> QED BY <2>4, <3>2, <4>1
      <3> QED BY <1>3, <2>4, <3>1, <3>2
    <2> QED BY <2>3, <2>4 DEF AloneInv, CountedInv, n
  <1> QED BY <1>2, <1>4, <1>5, <1>6 DEF AloneInv

LEMMA TouchesKeeps ==
    ASSUME TypeOK, AloneInv, LockInv', NEW p \in Procs, ElsewhereAt(p), Touches(p)
    PROVE  AloneInv'
  <1> DEFINE i == item[p]
  <1>1. /\ i \in Items /\ now \in Nat /\ RuleOf[i] \in Rules
        /\ crashes \in Nat /\ lost \in Nat /\ \A r \in Rules : actions[r] \in Nat
    BY CapTypes
  <1>2. pc[p] \in HolderPcs /\ ~Counting(p)
    BY DEF Touches, EffectPcs, HolderPcs, RunPcs, Counting
  <1>3. \A q \in Procs : ~Counting(q)
    BY <1>2, OthersAreOut
  <1>4. \A q \in Procs : RowOK(q)' /\ LeaveOK(q)'
    BY <1>2, OthersAreOut DEF Touches, LeaveOK
  <1>5. \A j \in Items : touched'[j] = IF j = i THEN now ELSE touched[j]
    BY DEF Touches, TypeOK, SeenOK
  <1>6. TouchedEver' \subseteq TouchedEver \cup {i}
    BY <1>5 DEF TouchedEver
  <1>7. TimesInv'
    BY <1>1, <1>5 DEF AloneInv, TimesInv, Touches, Never
  <1>8. StampedInv'
    <2> SUFFICES ASSUME crashes' + lost' = 0, NEW j \in TouchedEver'
                 PROVE  \/ ActedOn(j)' >= touched'[j]
                        \/ \E q \in Procs : Counting(q)' /\ item'[q] = j
      BY DEF StampedInv
    <2>1. lost' = lost /\ crashes' = crashes /\ Counting(p)' /\ item'[p] = i
      BY <1>1 DEF Touches
    <2>2. CASE j = i
      BY <2>1, <2>2
    <2>3. CASE j # i
      <3>1. j \in TouchedEver /\ j \in Items
        BY <1>6, <2>3 DEF TouchedEver
      <3>2. ActedOn(j) >= touched[j]
        BY <1>3, <2>1, <3>1 DEF AloneInv, StampedInv
      <3> QED BY <1>5, <2>3, <3>1, <3>2 DEF ActedOn, Touches
    <2> QED BY <2>2, <2>3
  <1>9. CountedInv'
    <2>1. IsFiniteSet(TouchedEver)'
      <3>1. IsFiniteSet(TouchedEver \cup {i})
        BY FS_AddElement DEF AloneInv, CountedInv
      <3> QED BY <1>6, <3>1, FS_Subset
    <2> SUFFICES ASSUME NEW r \in Rules
                 PROVE  \/ Cardinality(TouchedToday(r))' <= actions'[r] + crashes' + lost'
                        \/ /\ \E q \in Procs : Counting(q)' /\ RuleOf[item'[q]] = r
                           /\ Cardinality(TouchedToday(r))' <= actions'[r] + crashes' + lost' + 1
      BY <2>1 DEF CountedInv
    <2> DEFINE S == TouchedToday(r)
               T == TouchedToday(r)'
    <2>2. IsFiniteSet(S) /\ Cardinality(S) \in Nat
      BY TodayIsFinite DEF AloneInv
    <2>3. Cardinality(S) <= actions[r] + crashes + lost
      BY <1>3 DEF AloneInv, CountedInv
    <2>4. T \subseteq S \cup {i} /\ (r # RuleOf[i] => T \subseteq S)
      BY <1>5 DEF TouchedToday, TouchedEver, Touches
    <2> HIDE DEF S, T
    <2>5. /\ IsFiniteSet(S \cup {i}) /\ Cardinality(S \cup {i}) \in Nat
          /\ Cardinality(S \cup {i}) <= Cardinality(S) + 1
      <3>1. /\ IsFiniteSet(S \cup {i})
            /\ Cardinality(S \cup {i}) = IF i \in S THEN Cardinality(S) ELSE Cardinality(S) + 1
        BY <2>2, FS_AddElement, Zenon
      <3> QED BY <2>2, <3>1
    <2>6. /\ Cardinality(T) \in Nat
          /\ Cardinality(T) <= Cardinality(S) + 1
          /\ r # RuleOf[i] => Cardinality(T) <= Cardinality(S)
      <3>1. Cardinality(T) <= Cardinality(S \cup {i}) /\ IsFiniteSet(T)
        BY <2>4, <2>5, FS_Subset
      <3>2. r # RuleOf[i] => Cardinality(T) <= Cardinality(S)
        BY <2>2, <2>4, FS_Subset
      <3>3. Cardinality(T) \in Nat
        BY <3>1, FS_CardinalityType
      <3> QED BY <2>2, <2>5, <3>1, <3>2, <3>3
    <2>7. crashes' = crashes /\ actions' = actions
      BY DEF Touches
    <2>8. CASE lost' = lost + 1
      <3>1. Cardinality(T) <= actions'[r] + crashes' + lost'
        BY <1>1, <2>2, <2>3, <2>6, <2>7, <2>8
      <3> QED BY <3>1 DEF T
    <2>9. CASE Counting(p)' /\ item'[p] = i /\ lost' = lost
      <3>1. CASE r = RuleOf[i]
        <4>1. Cardinality(T) <= actions'[r] + crashes' + lost' + 1
          BY <1>1, <2>2, <2>3, <2>6, <2>7, <2>9
        <4> QED BY <2>9, <3>1, <4>1 DEF T
      <3>2. CASE r # RuleOf[i]
        <4>1. Cardinality(T) <= actions'[r] + crashes' + lost'
          BY <1>1, <2>2, <2>3, <2>6, <2>7, <2>9, <3>2
        <4> QED BY <4>1 DEF T
      <3> QED BY <3>1, <3>2
    <2> QED BY <2>8, <2>9 DEF Touches
  <1> QED BY <1>4, <1>7, <1>8, <1>9 DEF AloneInv

LEMMA CountsKeeps ==
    ASSUME TypeOK, AloneInv, LockInv', NEW p \in Procs, ElsewhereAt(p), Counts(p)
    PROVE  AloneInv'
  <1> DEFINE i == item[p]
             s == RuleOf[i]
  <1>1. /\ i \in Items /\ s \in Rules /\ ObjectOf[i] \in Objects /\ now \in Nat
        /\ crashes \in Nat /\ lost \in Nat /\ \A r \in Rules : actions[r] \in Nat
    BY CapTypes
  <1>2. \A q \in Procs \ {p} : RowOK(q)' /\ LeaveOK(q)' /\ ~Counting(q)
    BY OthersAreOut DEF Counts
  <1>3. \A q \in Procs : RowOK(q)' /\ LeaveOK(q)'
    BY <1>2 DEF Counts, LeaveOK
  <1>4. /\ TouchedEver' = TouchedEver /\ \A r \in Rules : TouchedToday(r)' = TouchedToday(r)
        /\ UNCHANGED <<touched, now, crashes, lost>>
    BY TouchedKept DEF Counts
  <1>5. \A r \in Rules : \A o \in Objects :
           acted'[r][o] = IF r = s /\ o = ObjectOf[i] THEN now ELSE acted[r][o]
    BY <1>1 DEF Counts, TypeOK, DbOK
  <1>6. TimesInv'
    BY <1>1, <1>4, <1>5 DEF AloneInv, TimesInv
  <1>7. StampedInv'
    <2> SUFFICES ASSUME crashes + lost = 0, NEW j \in TouchedEver
                 PROVE  ActedOn(j)' >= touched[j]
      BY <1>4 DEF StampedInv
    <2>1. /\ j \in Items /\ RuleOf[j] \in Rules /\ ObjectOf[j] \in Objects
          /\ touched[j] <= now /\ touched[j] \in Int
      BY CapTypes DEF TouchedEver, AloneInv, TimesInv
    <2>2. ActedOn(j) >= touched[j] \/ j = i
      BY <1>2 DEF AloneInv, StampedInv
    <2> QED BY <1>1, <1>5, <2>1, <2>2 DEF ActedOn
  <1>8. CountedInv'
    <2>1. IsFiniteSet(TouchedEver)'
      BY <1>4 DEF AloneInv, CountedInv
    <2> SUFFICES ASSUME NEW r \in Rules
                 PROVE  Cardinality(TouchedToday(r)) <= actions'[r] + crashes + lost
      BY <1>4, <2>1 DEF CountedInv
    <2>2. Cardinality(TouchedToday(r)) \in Nat
      BY TodayIsFinite DEF AloneInv
    <2>3. actions'[r] = IF r = s THEN actions[r] + 1 ELSE actions[r]
      BY DEF Counts
    <2>4. \/ Cardinality(TouchedToday(r)) <= actions[r] + crashes + lost
          \/ r = s /\ Cardinality(TouchedToday(r)) <= actions[r] + crashes + lost + 1
      BY <1>2 DEF AloneInv, CountedInv
    <2> QED BY <1>1, <2>2, <2>3, <2>4
  <1> QED BY <1>3, <1>6, <1>7, <1>8 DEF AloneInv

LEMMA TicksKeeps ==
    ASSUME TypeOK, AloneInv, LockInv', Ticks
    PROVE  AloneInv'
  <1>1. /\ now \in Nat /\ now' = now + 1 /\ crashes \in Nat /\ lost \in Nat
        /\ UNCHANGED <<pc, out, item, row, touched, acted, crashes, lost>>
    BY CapTypes DEF Ticks
  <1>2. TimesInv'
    BY <1>1, CapTypes DEF AloneInv, TimesInv, Ticks, TypeOK, DbOK
  <1>3. ASSUME NEW q \in Procs PROVE RowOK(q)' /\ LeaveOK(q)'
    <2>1. RowOK(q)' /\ Acting(q)' = Acting(q) /\ ActedOn(item[q])' = ActedOn(item[q])
      BY <1>1 DEF AloneInv, RowOK, Acting, ActedOn
    <2>2. /\ item[q] \in Items /\ RuleOf[item[q]] \in Rules /\ ActedOn(item[q]) \in Int
          /\ ObjectCooldown \in Nat /\ actions[RuleOf[item[q]]] \in Nat
          /\ RuleCap[RuleOf[item[q]]].actions \in Nat
      BY CapTypes
    <2>3. actions'[RuleOf[item[q]]] <= actions[RuleOf[item[q]]]
          /\ actions'[RuleOf[item[q]]] \in Nat
      BY <2>2 DEF Ticks
    <2>4. LeaveOK(q)
      BY DEF AloneInv
    <2>5. Acting(q) /\ ActedOn(item[q]) # Never => now' - ActedOn(item[q]) >= ObjectCooldown
      BY <1>1, <2>2, <2>4 DEF LeaveOK
    <2>6. Acting(q) => actions'[RuleOf[item[q]]] < RuleCap[RuleOf[item[q]]].actions
      BY <2>2, <2>3, <2>4 DEF LeaveOK
    <2> QED BY <1>1, <2>1, <2>5, <2>6 DEF LeaveOK, ActedOn
  <1>4. TouchedEver' = TouchedEver /\ \A q \in Procs : Counting(q)' = Counting(q)
    BY <1>1 DEF TouchedEver, Counting
  <1>5. StampedInv'
    BY <1>1, <1>4 DEF AloneInv, StampedInv, ActedOn
  <1>6. CountedInv'
    <2>1. IsFiniteSet(TouchedEver)'
      BY <1>4 DEF AloneInv, CountedInv
    <2>2. CASE DayOf(now + 1) = DayOf(now) /\ actions' = actions
      <3>1. \A r \in Rules : TouchedToday(r)' = TouchedToday(r)
        BY <1>1, <1>4, <2>2 DEF TouchedToday
      <3> QED BY <1>1, <1>4, <2>1, <2>2, <3>1 DEF AloneInv, CountedInv
    <2>3. CASE DayOf(now + 1) # DayOf(now) /\ \A r \in Rules : actions'[r] = 0
      <3>1. ASSUME NEW r \in Rules, NEW j \in TouchedToday(r)' PROVE FALSE
        <4>1. j \in TouchedEver /\ DayOf(touched[j]) = DayOf(now + 1)
          BY <1>1, <1>4, <3>1 DEF TouchedToday
        <4>2. touched[j] \in Nat /\ touched[j] <= now /\ now <= now + 1 /\ now + 1 \in Nat
          BY <1>1, <4>1, CapTypes DEF TouchedEver, AloneInv, TimesInv
        <4>3. /\ DayOf(touched[j]) <= DayOf(now) /\ DayOf(now) <= DayOf(now + 1)
              /\ DayOf(now) \in Nat /\ DayOf(now + 1) \in Nat
          BY <1>1, <4>2, DaysInOrder
        <4> QED BY <2>3, <4>1, <4>3
      <3>2. \A r \in Rules : TouchedToday(r)' = {}
        BY <3>1
      <3>3. \A r \in Rules : Cardinality(TouchedToday(r)') = 0
        BY <3>2, FS_EmptySet
      <3>4. \A r \in Rules : Cardinality(TouchedToday(r)') <= actions'[r] + crashes' + lost'
        BY <1>1, <2>3, <3>3
      <3> QED BY <2>1, <3>4 DEF CountedInv
    <2> QED BY <2>2, <2>3 DEF Ticks
  <1> QED BY <1>2, <1>3, <1>5, <1>6 DEF AloneInv

LEMMA WaitsKeeps ==
    ASSUME TypeOK, AloneInv, LockInv', Waits
    PROVE  AloneInv'
  <1>1. TouchedEver' = TouchedEver /\ \A r \in Rules : TouchedToday(r)' = TouchedToday(r)
    BY TouchedKept DEF Waits
  <1>2. \A q \in Procs : RowOK(q)' /\ LeaveOK(q)' /\ Counting(q)' = Counting(q)
    BY LeaveKept DEF Waits, AloneInv
  <1>3. TimesInv' /\ StampedInv'
    BY <1>1, <1>2 DEF Waits, AloneInv, TimesInv, StampedInv, ActedOn
  <1>4. CountedInv'
    BY <1>1, <1>2 DEF Waits, AloneInv, CountedInv
  <1> QED BY <1>2, <1>3, <1>4 DEF AloneInv

\* A pass goes on without writing an item's effect for the observers.
LEMMA PassGoes ==
    ASSUME TypeOK, AloneInv, NEW p \in Procs, Pass(p)
    PROVE  ElsewhereAt(p) /\ Goes(p)
  <1>1. RowOK(p) /\ DOMAIN pc = Procs /\ DOMAIN out = Procs /\ DOMAIN item = Procs
        /\ DOMAIN row = Procs
    BY DEF AloneInv, TypeOK, ProcOK
  <1> USE DEF ElsewhereAt, Goes, RowOK, LeaveOK, Acting, Counting, Goto, EffectPcs, LoopPcs
  <1>2. ASSUME StartPass(p) \/ EndRecover(p) \/ EndPoll(p) \/ StartRun(p) \/ EndPass(p)
        PROVE  ElsewhereAt(p) /\ Goes(p)
    BY <1>1, <1>2 DEF StartPass, EndRecover, EndPoll, StartRun, EndPass, dbVars, worldVars, seenVars
  <1>3. ASSUME Pick(p) PROVE ElsewhereAt(p) /\ Goes(p)
    BY <1>1, <1>3 DEF Pick, dbVars, worldVars, seenVars
  <1>4. ASSUME NEW i \in Items,
               \/ RecoverPushed(p, i) \/ RecoverUnpushed(p, i) \/ RecoverUnknown(p, i)
               \/ Ingest(p, i) \/ Redecide(p, i)
        PROVE  ElsewhereAt(p) /\ Goes(p)
    <2>1. /\ pc[p] \in LoopPcs /\ UNCHANGED <<pc, out, item, row, touched, acted, actions, now, crashes>>
          /\ lost' \in {lost, lost + 1}
      BY <1>4 DEF RecoverPushed, RecoverUnpushed, RecoverUnknown, Ingest, Redecide,
                  procVars, worldVars, seenVars
    <2> QED BY <1>1, <2>1
  <1> QED BY <1>2, <1>3, <1>4 DEF Pass

\* An automatic item that is not demoted is within its caps and its cooldown.
LEMMA NotDemoted ==
    ASSUME TypeOK, NEW i \in Items, ~Demoted(i)
    PROVE  /\ ActedOn(i) # Never => now - ActedOn(i) >= ObjectCooldown
           /\ actions[RuleOf[i]] < RuleCap[RuleOf[i]].actions
  BY DEF Demoted, WithinCaps, ActedOn

\* A try leaves once it was found within its caps, writes once and counts once.
LEMMA TryGoes ==
    ASSUME TypeOK, AloneInv, NEW p \in Procs, Try(p)
    PROVE  ElsewhereAt(p) /\ (Goes(p) \/ Touches(p) \/ Counts(p))
  <1>1. /\ LeaveOK(p) /\ DOMAIN pc = Procs /\ DOMAIN out = Procs /\ DOMAIN item = Procs
        /\ DOMAIN row = Procs /\ item[p] \in Items
    BY DEF AloneInv, TypeOK, ProcOK
  <1> USE DEF ElsewhereAt, RowOK, Acting, Counting, EffectPcs, LoopPcs, Result, Goto
  \* the common form of the steps between the check and the count
  <1>2. ASSUME UNCHANGED <<item, row, touched, acted, actions, now, crashes>>,
               lost' \in {lost, lost + 1}, ~Counting(p),
               pc[p] \in EffectPcs \cup {"perform", "charge"},
               \/ \E o \in Outcomes, l \in {"settle", "charge", "discard"} : Result(p, o, l)
               \/ out' = out /\ \E l \in EffectPcs \cup {"settle", "discard"} :
                                   Goto(p, l) /\ (pc[p] = "charge" => l \notin EffectPcs)
        PROVE  ElsewhereAt(p) /\ Goes(p)
    <2>1. ElsewhereAt(p) /\ RowOK(p)' /\ (Acting(p)' => Acting(p))
      BY <1>1, <1>2
    <2>2. LeaveOK(p)'
      BY <1>1, <1>2, <2>1 DEF LeaveOK, ActedOn
    <2> QED BY <1>2, <2>1, <2>2 DEF Goes
  <1>3. ASSUME Begin(p) PROVE ElsewhereAt(p) /\ Goes(p)
    <2>1. /\ pc[p] = "begin" /\ UNCHANGED <<item, row, touched, acted, actions, now, crashes, lost>>
          /\ \/ \E o \in Outcomes : Result(p, o, "settle")
             \/ /\ Goto(p, "perform") /\ out' = out
                /\ row[p].reason = "auto" => ~Demoted(item[p])
      BY <1>3 DEF Begin, Outcomes, dbVars, worldVars, seenVars
    <2>2. ElsewhereAt(p) /\ RowOK(p)' /\ (Acting(p)' => ~Demoted(item[p]))
      BY <1>1, <2>1
    <2>3. LeaveOK(p)'
      BY <1>1, <2>1, <2>2, NotDemoted DEF LeaveOK, ActedOn
    <2> QED BY <2>1, <2>2, <2>3 DEF Goes
  <1>4. ASSUME \/ PerformStop(p) \/ PerformPlain(p) \/ PerformMerge(p) \/ PerformModel(p)
               \/ PerformReview(p) \/ PerformAddress(p)
        PROVE  ElsewhereAt(p) /\ Goes(p)
    <2>1. /\ pc[p] = "perform"
          /\ UNCHANGED <<item, row, touched, acted, actions, now, crashes, lost>>
          /\ \/ \E o \in Outcomes, l \in {"settle", "charge"} : Result(p, o, l)
             \/ out' = out /\ \E l \in {"write", "checkout"} : Goto(p, l)
      BY <1>4 DEF PerformStop, PerformPlain, PerformMerge, PerformModel, PerformReview,
                  PerformAddress, Outcomes, dbVars, worldVars, seenVars
    <2> QED BY <1>2, <2>1
  <1>5. ASSUME Checkout(p) \/ Tool(p) \/ Stage(p) \/ Push(p) PROVE ElsewhereAt(p) /\ Goes(p)
    <2>1. /\ pc[p] \in {"checkout", "tool", "stage", "push"} /\ lost' \in {lost, lost + 1}
          /\ UNCHANGED <<item, row, touched, acted, actions, now, crashes>>
          /\ \/ \E o \in Outcomes, l \in {"charge", "discard"} : Result(p, o, l)
             \/ out' = out /\ \E l \in {"tool", "stage", "push", "comment"} : Goto(p, l)
      BY <1>5 DEF Checkout, Tool, Stage, Push, Outcomes, dbVars, worldVars, seenVars
    <2> QED BY <1>2, <2>1
  <1>6. ASSUME Write(p) \/ Comment(p) PROVE ElsewhereAt(p) /\ (Goes(p) \/ Touches(p))
    <2>1. /\ pc[p] \in {"write", "comment"}
          /\ UNCHANGED <<item, row, acted, actions, now, crashes>>
          /\ \/ /\ touched' = touched /\ lost' = lost
                /\ \E l \in {"settle", "charge"} : Result(p, "error", l)
             \/ /\ touched' = [touched EXCEPT ![item[p]] = now] /\ lost' = lost
                /\ \E l \in {"settle", "discard"} : Result(p, "done", l)
             \/ /\ touched' = [touched EXCEPT ![item[p]] = now] /\ lost' = lost + 1
                /\ \E l \in {"settle", "charge"} : Result(p, "error", l)
      BY <1>6 DEF Write, Comment, PostEffect, Noted, dbVars
    <2>2. CASE touched' = touched /\ lost' = lost /\ \E l \in {"settle", "charge"} : Result(p, "error", l)
      BY <1>2, <2>1, <2>2 DEF Outcomes
    <2>3. CASE /\ touched' = [touched EXCEPT ![item[p]] = now] /\ lost' = lost
               /\ \E l \in {"settle", "discard"} : Result(p, "done", l)
      BY <1>1, <2>1, <2>3 DEF Touches
    <2>4. CASE /\ touched' = [touched EXCEPT ![item[p]] = now] /\ lost' = lost + 1
               /\ \E l \in {"settle", "charge"} : Result(p, "error", l)
      BY <1>1, <2>1, <2>4 DEF Touches
    <2> QED BY <2>1, <2>2, <2>3, <2>4
  <1>7. ASSUME Charge(p) PROVE ElsewhereAt(p) /\ Goes(p)
    <2>1. /\ pc[p] = "charge" /\ out' = out
          /\ UNCHANGED <<item, row, touched, acted, actions, now, crashes, lost>>
          /\ \E l \in {"settle", "discard"} : Goto(p, l)
      BY <1>7 DEF Charge, worldVars, seenVars
    <2> QED BY <1>2, <2>1
  <1>8. ASSUME Discard(p) \/ Clear(p) PROVE ElsewhereAt(p) /\ Goes(p)
    <2>1. /\ pc[p] \in {"discard", "clear"} /\ out' = out
          /\ UNCHANGED <<item, row, touched, acted, actions, now, crashes, lost>>
          /\ \E l \in {"clear", "settle"} : Goto(p, l)
      BY <1>8 DEF Discard, Clear, dbVars, worldVars, seenVars
    <2> QED BY <1>1, <2>1 DEF Goes, LeaveOK
  <1>9. ASSUME Settle(p) PROVE ElsewhereAt(p) /\ (Goes(p) \/ Counts(p))
    <2>1. /\ pc[p] = "settle" /\ UNCHANGED <<touched, now, crashes, lost>>
          /\ \E l \in {"pick", "idle"} : Goto(p, l)
          /\ item' = [item EXCEPT ![p] = AnyItem] /\ row' = [row EXCEPT ![p] = UnseenRow]
          /\ out' = [out EXCEPT ![p] = "done"]
          /\ \/ out[p] = "done" /\ CountAction(p)
             \/ out[p] # "done" /\ UNCHANGED <<acted, actions>>
      BY <1>9 DEF Settle, Exit, Forget, worldVars, seenVars
    <2>2. ElsewhereAt(p) /\ RowOK(p)' /\ ~Acting(p)'
      BY <1>1, <2>1 DEF UnseenRow
    <2>3. CASE out[p] = "done" /\ CountAction(p)
      <3> DEFINE r == RuleOf[item[p]]
      <3>1. r \in Rules /\ "*" \notin Rules
        BY <1>1, CapTypes, QueueAssumption
      <3>2. actions' = [actions EXCEPT ![r] = @ + 1, !["*"] = @ + 1]
            /\ acted' = [acted EXCEPT ![r][ObjectOf[item[p]]] = now]
        BY <2>3 DEF CountAction
      <3> HIDE DEF r
      <3>3. \A s \in Rules : actions'[s] = IF s = r THEN actions[s] + 1 ELSE actions[s]
        BY <3>1, <3>2 DEF TypeOK, DbOK, Scopes
      <3> QED BY <2>1, <2>2, <2>3, <3>2, <3>3 DEF Counts, HolderPcs, RunPcs, r
    <2>4. CASE out[p] # "done" /\ UNCHANGED <<acted, actions>>
      BY <2>1, <2>2, <2>4 DEF Goes, LeaveOK
    <2> QED BY <2>1, <2>3, <2>4
  <1> QED BY <1>3, <1>4, <1>5, <1>6, <1>7, <1>8, <1>9 DEF Try

\* A command puts no item on its way but by run() itself.
LEMMA CommandGoes ==
    ASSUME TypeOK, AloneInv, NEW c \in Procs, Command(c)
    PROVE  ElsewhereAt(c) /\ Goes(c)
  <1>1. RowOK(c) /\ DOMAIN pc = Procs /\ DOMAIN out = Procs /\ DOMAIN item = Procs
        /\ DOMAIN row = Procs
    BY DEF AloneInv, TypeOK, ProcOK
  <1> USE DEF ElsewhereAt, Goes, RowOK, LeaveOK, Acting, Counting, Goto, EffectPcs, LoopPcs,
              dbVars, procVars, worldVars, seenVars
  <1>2. ASSUME NEW i \in Items, ApproveRead(c, i) \/ RejectRead(c, i) \/ RetryRead(c, i)
        PROVE  ElsewhereAt(c) /\ Goes(c)
    BY <1>1, <1>2 DEF ApproveRead, RejectRead, RetryRead, Load
  <1>3. ASSUME ApproveWrite(c) \/ RejectWrite(c) \/ RetryWrite(c)
        PROVE  ElsewhereAt(c) /\ Goes(c)
    BY <1>1, <1>3 DEF ApproveWrite, RejectWrite, RetryWrite, Exit, Forget, UnseenRow
  <1>4. ASSUME Status(c) PROVE ElsewhereAt(c) /\ Goes(c)
    BY <1>1, <1>4 DEF Status
  <1>5. ASSUME SetPaused(c) PROVE ElsewhereAt(c) /\ Goes(c)
    BY <1>1, <1>5 DEF SetPaused
  <1> QED BY <1>2, <1>3, <1>4, <1>5 DEF Command

\* Every step keeps AloneInv.
LEMMA AloneStep ==
    ASSUME TypeOK, AloneInv, [Next]_vars
    PROVE  AloneInv'
  <1>1. LockInv'
    BY LockStep DEF AloneInv
  <1>2. ASSUME NEW p \in Procs, StartWatch(p) \/ StopWatch(p) \/ Crash(p)
        PROVE  ElsewhereAt(p) /\ Goes(p)
    <2>1. RowOK(p) /\ DOMAIN pc = Procs /\ DOMAIN out = Procs /\ DOMAIN item = Procs
          /\ DOMAIN row = Procs
      BY DEF AloneInv, TypeOK, ProcOK
    <2> QED
      BY <1>2, <2>1 DEF StartWatch, StopWatch, Crash, Exit, Forget, UnseenRow, ElsewhereAt, Goes,
         RowOK, LeaveOK, Acting, Counting, Goto, EffectPcs, LoopPcs, dbVars, worldVars, seenVars
  <1>3. ASSUME SetEnabled \/ (\E r \in Rules : SetRule(r)) \/ UNCHANGED vars
        PROVE  Waits
    BY <1>3 DEF SetEnabled, SetRule, vars, dbVars, procVars, worldVars, seenVars, Waits
  <1>4. ASSUME Tick PROVE Ticks
    BY <1>4 DEF Tick, Ticks, procVars, Scopes
  <1> QED
    BY <1>1, <1>2, <1>3, <1>4, PassGoes, TryGoes, CommandGoes, GoesKeeps, TouchesKeeps,
       CountsKeeps, TicksKeeps, WaitsKeeps DEF Next

LEMMA AloneInit == Init => AloneInv
  <1> SUFFICES ASSUME Init PROVE AloneInv
    OBVIOUS
  <1>1. LockInv /\ \A p \in Procs : RowOK(p) /\ LeaveOK(p)
    BY DEF Init, LockInv, HolderPcs, LoopPcs, RunPcs, EffectPcs, RowOK, LeaveOK, Acting, UnseenRow
  <1>2. TimesInv
    BY DEF Init, TimesInv, Never
  <1>3. TouchedEver = {} /\ \A r \in Rules : TouchedToday(r) = {}
    BY DEF Init, TouchedEver, TouchedToday
  <1>4. StampedInv
    BY <1>3 DEF StampedInv
  <1>5. CountedInv
    <2>1. IsFiniteSet({}) /\ Cardinality({}) = 0
      BY FS_EmptySet
    <2>2. \A r \in Rules : actions[r] = 0
      BY DEF Init, Scopes
    <2>3. crashes = 0 /\ lost = 0
      BY DEF Init
    <2>4. \A r \in Rules : Cardinality(TouchedToday(r)) <= actions[r] + crashes + lost
      BY <1>3, <2>1, <2>2, <2>3
    <2> QED BY <1>3, <2>1, <2>4 DEF CountedInv
  <1> QED BY <1>1, <1>2, <1>4, <1>5 DEF AloneInv

\* An unattended write is made by the holder of the lock, from a step to a write:
\* recovery has no row in hand.
LEMMA WriterIsActing ==
    ASSUME TypeOK, OnceInv, AloneInv, [Next]_vars, NEW i \in Items, WritesAlone(i)
    PROVE  \E p \in Procs : /\ Acting(p) /\ pc[p] \in EffectPcs /\ item[p] = i
                            /\ \A q \in Procs : ~Counting(q)
  <1>1. PICK p \in Procs : /\ lock = p /\ item[p] = i /\ row[p].reason = "auto"
                           /\ posted'[i] > posted[i]
    BY DEF WritesAlone
  <1>2. posted \in [Items -> Nat] /\ posted[i] \in Nat /\ ~(posted[i] > posted[i])
    BY DEF TypeOK, WorldOK
  <1>3. posted' # posted
    BY <1>1, <1>2
  <1>4. ASSUME Idles \/ \E q \in Procs : Quiet(q) \/ Approaches(q) PROVE FALSE
    BY <1>3, <1>4 DEF Idles, Quiet, Approaches
  <1>5. \E q \in Procs : Writes(q) \/ Marks(q)
    <2>1. ASSUME NEW q \in Procs, StartWatch(q) \/ StopWatch(q) \/ Crash(q) PROVE FALSE
      BY <1>3, <2>1 DEF StartWatch, StopWatch, Crash, worldVars
    <2>2. ASSUME SetEnabled \/ (\E r \in Rules : SetRule(r)) \/ Tick \/ UNCHANGED vars
          PROVE  FALSE
      BY <1>3, <2>2 DEF SetEnabled, SetRule, Tick, vars, worldVars
    <2> QED BY <1>4, <2>1, <2>2, PassShape, TryShape, CommandShape DEF Next
  <1>6. PICK q \in Procs : Writes(q) \/ Marks(q)
    BY <1>5
  <1>7. pc[q] \in HolderPcs
    BY <1>6 DEF Writes, Marks, EffectPcs, HolderPcs, RunPcs, LoopPcs
  <1>8. q = p
    BY <1>1, <1>7 DEF AloneInv, LockInv
  <1>9. ~Marks(p)
    BY <1>1 DEF Marks, AloneInv, RowOK, LoopPcs
  <1>10. pc[p] \in EffectPcs /\ Acting(p)
    BY <1>1, <1>6, <1>8, <1>9 DEF Writes, Acting
  <1>11. \A x \in Procs : ~Counting(x)
    BY <1>7, <1>8, <1>10 DEF AloneInv, LockInv, Counting, HolderPcs, RunPcs, EffectPcs
  <1> QED BY <1>1, <1>10, <1>11

\* A rule leaves an object alone for the cooldown after it acted on it, unless a
\* kill or a lost answer hid that action.
THEOREM ObjectsAreLeftAlone == Spec => CooldownHolds
  <1>1. ASSUME TypeOK, OnceInv, AloneInv, [Next]_vars, NEW i \in Items, WritesAlone(i),
               crashes + lost = 0, NEW j \in Items \ {i}, RuleOf[j] = RuleOf[i],
               ObjectOf[j] = ObjectOf[i], touched[j] # Never
        PROVE  now - touched[j] >= ObjectCooldown
    <2>1. PICK p \in Procs : Acting(p) /\ item[p] = i /\ \A q \in Procs : ~Counting(q)
      BY <1>1, WriterIsActing
    <2>2. ActedOn(j) >= touched[j] /\ touched[j] >= Never
      BY <1>1, <2>1 DEF AloneInv, StampedInv, TimesInv, TouchedEver
    <2>3. ActedOn(j) = ActedOn(i)
      BY <1>1 DEF ActedOn
    <2>4. ActedOn(i) # Never => now - ActedOn(i) >= ObjectCooldown
      BY <1>1, <2>1 DEF AloneInv, LeaveOK
    <2>5. touched[j] \in Int /\ ActedOn(i) \in Int /\ now \in Nat /\ ObjectCooldown \in Nat
          /\ Never = -1
      BY CapTypes, <1>1
    <2> QED BY <1>1, <2>2, <2>3, <2>4, <2>5
  <1>2. TypeOK /\ OnceInv /\ AloneInv /\ [Next]_vars
          => [\A i \in Items : WritesAlone(i) /\ crashes + lost = 0 =>
                \A j \in Items \ {i} :
                   /\ RuleOf[j] = RuleOf[i] /\ ObjectOf[j] = ObjectOf[i] /\ touched[j] # Never
                   => now - touched[j] >= ObjectCooldown]_vars
    BY <1>1
  <1>3. TypeOK /\ AloneInv /\ [Next]_vars => AloneInv'
    BY AloneStep
  <1> QED
    BY <1>2, <1>3, AloneInit, OnceInvariant, PTL DEF Spec, CooldownHolds

\* A rule writes on its own only while fewer of its items were written today
\* than it may, and than kills and lost answers have hidden.
THEOREM CapsHold == Spec => AutoWithinCap
  <1>1. ASSUME TypeOK, OnceInv, AloneInv, [Next]_vars, NEW i \in Items, WritesAlone(i)
        PROVE  LET today == {j \in Items \ {i} : /\ RuleOf[j] = RuleOf[i] /\ touched[j] # Never
                                                 /\ DayOf(touched[j]) = DayOf(now)}
               IN  Cardinality(today) < RuleCap[RuleOf[i]].actions + crashes + lost
    <2> DEFINE r == RuleOf[i]
               today == {j \in Items \ {i} : /\ RuleOf[j] = RuleOf[i] /\ touched[j] # Never
                                             /\ DayOf(touched[j]) = DayOf(now)}
    <2>1. PICK p \in Procs : Acting(p) /\ item[p] = i /\ \A q \in Procs : ~Counting(q)
      BY <1>1, WriterIsActing
    <2>2. /\ r \in Rules /\ actions[r] \in Nat /\ RuleCap[r].actions \in Nat
          /\ crashes \in Nat /\ lost \in Nat
      BY <1>1, CapTypes
    <2>3. actions[r] < RuleCap[r].actions
      BY <1>1, <2>1 DEF AloneInv, LeaveOK
    <2>4. Cardinality(TouchedToday(r)) <= actions[r] + crashes + lost
      BY <1>1, <2>1, <2>2 DEF AloneInv, CountedInv
    <2>5. IsFiniteSet(TouchedToday(r)) /\ Cardinality(TouchedToday(r)) \in Nat
      BY <1>1, <2>2, TodayIsFinite DEF AloneInv
    <2>6. today \subseteq TouchedToday(r)
      BY DEF TouchedToday, TouchedEver
    <2> HIDE DEF today, r
    <2>7. /\ Cardinality(today) <= Cardinality(TouchedToday(r))
          /\ Cardinality(today) \in Nat
      BY <2>5, <2>6, FS_Subset, FS_CardinalityType
    <2>8. Cardinality(today) < RuleCap[r].actions + crashes + lost
      BY <2>2, <2>3, <2>4, <2>5, <2>7
    <2> QED BY <2>8 DEF today, r
  <1>2. TypeOK /\ OnceInv /\ AloneInv /\ [Next]_vars
          => [\A i \in Items : WritesAlone(i) =>
                LET today == {j \in Items \ {i} : /\ RuleOf[j] = RuleOf[i] /\ touched[j] # Never
                                                  /\ DayOf(touched[j]) = DayOf(now)}
                IN  Cardinality(today) < RuleCap[RuleOf[i]].actions + crashes + lost]_vars
    BY <1>1
  <1>3. TypeOK /\ AloneInv /\ [Next]_vars => AloneInv'
    BY AloneStep
  <1> QED
    BY <1>2, <1>3, AloneInit, OnceInvariant, PTL DEF Spec, AutoWithinCap
-----------------------------------------------------------------------------
(* What a process has read of an item is still so                           *)

\* A person waits for a command before typing the next.  Two commands at once can
\* set back what the other did: `approve` and `retry` write what they read.
OneCommand == \A c, d \in Clis : c = d

\* The ids a pass has listed, the item a try runs and the item a command has read
\* are in the state in which they were taken.
TakenOK(p) ==
    /\ pc[p] \in {"approve", "reject"} => p \in Clis /\ work[item[p]].state = "proposed"
    /\ pc[p] = "retry" => p \in Clis /\ work[item[p]].state = "dead"
    /\ pc[p] = "recover" => \A i \in todo[p] : work[i].state = "running"
    /\ pc[p] = "decide" => \A i \in todo[p] : work[i].state = "queued"
    /\ pc[p] \in RunPcs \cup {"pick"} => \A i \in todo[p] : work[i].state = "approved"
    /\ pc[p] \notin RunPcs \cup {"recover", "decide", "pick"} => todo[p] = {}
    /\ pc[p] \in RunPcs => /\ item[p] \notin todo[p]
                           /\ work[item[p]].state \in {"approved", "running"}

TakenInv == LockInv /\ \A p \in Procs : TakenOK(p)

Stamped == {j \in Items : Person(j)}

Stamps(i) == {j \in Stamped : Class(j) = Class(i)}

\* An old approval that no step up to the write can renew.
OldStamp(i, j) ==
    /\ j \in Stamps(i) /\ now - work[j].approvedAt >= LadderSpan
    /\ work[j].state \in {"done", "dead", "queued"}

\* What the ladder asked of an item is still so at its write.
ClimbedOK(p) ==
    Acting(p) /\ ~RunsFree(Class(item[p])) =>
        /\ Cardinality(Stamps(item[p])) >= LadderApprovals
        /\ \E j \in Items : OldStamp(item[p], j)

LadderInv == IsFiniteSet(Stamped) /\ \A p \in Procs : ClimbedOK(p)

\* What one step of process p may do to the rows.  The holder of the lock moves
\* items that no command has read; a command moves items that no pass has.
WithP(p) ==
    \A q \in Procs \ {p} : pc'[q] = pc[q] /\ item'[q] = item[q] /\ todo'[q] = todo[q]

SameState(i) == work'[i].state = work[i].state

HolderMoves(p) ==
    /\ WithP(p) /\ TakenOK(p)' /\ pc[p] \in HolderPcs
    /\ \A i \in Items :
          SameState(i) \/ work[i].state \in {"unseen", "queued", "approved", "running"}

CommandMoves2(p) ==
    /\ WithP(p) /\ TakenOK(p)' /\ pc[p] \in {"approve", "reject", "retry"}
    /\ \A i \in Items : SameState(i) \/ work[i].state \in {"proposed", "dead"}

MovesNone(p) == WithP(p) /\ TakenOK(p)' /\ work' = work

RowsRest == UNCHANGED <<pc, item, todo, work>>

LEMMA ShapesKeepTaken ==
    ASSUME OneCommand, TypeOK, TakenInv, LockInv',
           \/ \E p \in Procs : HolderMoves(p) \/ CommandMoves2(p) \/ MovesNone(p)
           \/ RowsRest
    PROVE  TakenInv'
  <1>1. \A q \in Procs : item[q] \in Items /\ todo[q] \subseteq Items
    BY DEF TypeOK, ProcOK
  <1>2. ASSUME NEW p \in Procs, NEW q \in Procs \ {p}, WithP(p),
               \A i \in Items : \/ SameState(i)
                                \/ /\ i \notin todo[q]
                                   /\ pc[q] \in RunPcs \cup {"approve", "reject", "retry"}
                                        => i # item[q]
        PROVE  TakenOK(q)'
    <2>1. pc'[q] = pc[q] /\ item'[q] = item[q] /\ todo'[q] = todo[q] /\ TakenOK(q)
      BY <1>2 DEF WithP, TakenInv
    <2>2. \A i \in todo[q] : work'[i].state = work[i].state
      BY <1>1, <1>2 DEF SameState
    <2>3. pc[q] \in RunPcs \cup {"approve", "reject", "retry"}
            => work'[item[q]].state = work[item[q]].state
      BY <1>1, <1>2 DEF SameState
    <2> QED BY <2>1, <2>2, <2>3 DEF TakenOK
  <1>3. ASSUME NEW p \in Procs, HolderMoves(p) PROVE TakenInv'
    <2>1. ASSUME NEW q \in Procs \ {p} PROVE TakenOK(q)'
      <3>1. pc[q] \notin HolderPcs /\ TakenOK(q)
        BY <1>3 DEF HolderMoves, TakenInv, LockInv
      <3>2. todo[q] = {} /\ pc[q] \notin RunPcs
        BY <3>1 DEF TakenOK, HolderPcs, LoopPcs
      <3>3. pc[q] \in {"approve", "reject", "retry"} => work[item[q]].state \in {"proposed", "dead"}
        BY <3>1 DEF TakenOK
      <3> QED BY <1>2, <1>3, <3>2, <3>3 DEF HolderMoves
    <2> QED BY <1>3, <2>1 DEF HolderMoves, TakenInv
  <1>4. ASSUME NEW p \in Procs, CommandMoves2(p) PROVE TakenInv'
    <2>1. ASSUME NEW q \in Procs \ {p} PROVE TakenOK(q)'
      <3>1. TakenOK(q) /\ TakenOK(p)
        BY DEF TakenInv
      <3>2. pc[q] \notin {"approve", "reject", "retry"}
        BY <1>4, <3>1 DEF CommandMoves2, OneCommand, TakenOK
      <3>3. \A i \in todo[q] : work[i].state \in {"running", "queued", "approved"}
        BY <3>1 DEF TakenOK
      <3>4. pc[q] \in RunPcs => work[item[q]].state \in {"approved", "running"}
        BY <3>1 DEF TakenOK
      <3> QED BY <1>2, <1>4, <3>2, <3>3, <3>4 DEF CommandMoves2
    <2> QED BY <1>4, <2>1 DEF CommandMoves2, TakenInv
  <1>5. ASSUME NEW p \in Procs, MovesNone(p) PROVE TakenInv'
    <2>1. ASSUME NEW q \in Procs \ {p} PROVE TakenOK(q)'
      BY <1>2, <1>5 DEF MovesNone, SameState
    <2> QED BY <1>5, <2>1 DEF MovesNone, TakenInv
  <1>6. CASE RowsRest
    BY <1>6 DEF RowsRest, TakenInv, TakenOK
  <1> QED BY <1>3, <1>4, <1>5, <1>6

\* One row changes its state.
LEMMA StateMoves ==
    ASSUME TypeOK, NEW j \in Items, NEW s, NEW r, NEW n, NEW t,
           SetState(j, s, r) \/ SetRetry(j, s, r, n, t)
    PROVE  work'[j].state = s /\ \A i \in Items : i # j => SameState(i)
  BY RowChange DEF TypeOK, SameState

LEMMA PassTaken ==
    ASSUME TypeOK, TakenInv, NEW p \in Procs, Pass(p)
    PROVE  HolderMoves(p) \/ MovesNone(p)
  <1>1. TakenOK(p) /\ DOMAIN pc = Procs /\ DOMAIN item = Procs /\ DOMAIN todo = Procs
        /\ todo[p] \subseteq Items
    BY DEF TakenInv, TypeOK, ProcOK
  <1>2. ASSUME StartPass(p) \/ EndRecover(p) \/ EndPoll(p) \/ StartRun(p) \/ EndPass(p)
        PROVE  MovesNone(p)
    BY <1>1, <1>2 DEF StartPass, EndRecover, EndPoll, StartRun, EndPass, MovesNone, WithP,
       TakenOK, InState, Goto, RunPcs, dbVars
  <1>3. ASSUME Pick(p) PROVE MovesNone(p)
    <2>1. PICK i \in todo[p] : /\ todo' = [todo EXCEPT ![p] = @ \ {i}]
                               /\ item' = [item EXCEPT ![p] = i]
      BY <1>3 DEF Pick
    <2>2. pc[p] = "pick" /\ pc' = [pc EXCEPT ![p] = "begin"] /\ work' = work
      BY <1>3 DEF Pick, Goto, dbVars
    <2> QED BY <1>1, <2>1, <2>2 DEF MovesNone, WithP, TakenOK, RunPcs
  <1>4. ASSUME NEW i \in Items, \E s \in States, r \in {"auto", "other"} : SetState(i, s, r),
               i \in todo[p], pc[p] \in {"recover", "decide"}, UNCHANGED <<pc, item>>,
               todo' = [todo EXCEPT ![p] = @ \ {i}]
        PROVE  HolderMoves(p)
    <2>1. \A j \in Items : j # i => SameState(j)
      BY <1>4, StateMoves
    <2>2. work[i].state \in {"running", "queued"}
      BY <1>1, <1>4 DEF TakenOK
    <2>3. TakenOK(p)'
      BY <1>1, <1>4, <2>1 DEF TakenOK, SameState, RunPcs
    <2> QED BY <1>1, <1>4, <2>1, <2>2, <2>3 DEF HolderMoves, WithP, HolderPcs, LoopPcs
  <1>5. ASSUME NEW i \in Items, RecoverPushed(p, i) PROVE HolderMoves(p) \/ MovesNone(p)
    <2>1. CASE work' = work
      BY <1>1, <1>5, <2>1 DEF RecoverPushed, MovesNone, WithP, TakenOK, RunPcs
    <2>2. CASE SetState(i, "done", "other")
      BY <1>4, <1>5, <2>2 DEF RecoverPushed, States
    <2> QED BY <1>5, <2>1, <2>2 DEF RecoverPushed
  <1>6. ASSUME NEW i \in Items, RecoverUnpushed(p, i) \/ RecoverUnknown(p, i) \/ Redecide(p, i)
        PROVE  HolderMoves(p)
    <2>1. \E s \in States, r \in {"auto", "other"} : SetState(i, s, r)
      BY <1>6 DEF RecoverUnpushed, RecoverUnknown, Redecide, States
    <2>2. /\ i \in todo[p] /\ pc[p] \in {"recover", "decide"} /\ UNCHANGED <<pc, item>>
          /\ todo' = [todo EXCEPT ![p] = @ \ {i}]
      BY <1>6 DEF RecoverUnpushed, RecoverUnknown, Redecide
    <2> QED BY <1>4, <2>1, <2>2
  <1>7. ASSUME NEW i \in Items, Ingest(p, i) PROVE HolderMoves(p)
    <2>1. /\ pc[p] = "poll" /\ work[i].state = "unseen" /\ UNCHANGED <<pc, item, todo>>
          /\ \E s \in States, r \in {"auto", "other"} : SetState(i, s, r)
      BY <1>7 DEF Ingest, procVars, States
    <2>2. \A j \in Items : j # i => SameState(j)
      BY <2>1, StateMoves
    <2> QED BY <1>1, <2>1, <2>2 DEF HolderMoves, WithP, TakenOK, HolderPcs, LoopPcs, RunPcs
  <1> QED BY <1>2, <1>3, <1>5, <1>6, <1>7 DEF Pass

LEMMA TryTaken ==
    ASSUME TypeOK, TakenInv, NEW p \in Procs, Try(p)
    PROVE  HolderMoves(p) \/ MovesNone(p)
  <1> DEFINE i == item[p]
  <1>1. TakenOK(p) /\ DOMAIN pc = Procs /\ DOMAIN item = Procs /\ DOMAIN todo = Procs
        /\ todo[p] \subseteq Items /\ i \in Items /\ pc[p] \in RunPcs
    BY DEF TakenInv, TypeOK, ProcOK, Try, Begin, PerformStop, PerformPlain, PerformMerge, PerformModel,
           PerformReview, PerformAddress, Write, Checkout, Tool, Stage, Push,
           Comment, Charge, Discard, Clear, Settle, RunPcs
  <1>2. ASSUME ~Settle(p), ~PerformAddress(p) PROVE MovesNone(p)
    <2>1. work' = work /\ item' = item /\ todo' = todo
      BY <1>2 DEF Try, Begin, PerformStop, PerformPlain, PerformMerge, PerformModel,
                  PerformReview, Write, Checkout, Tool, Stage, Push,
                  Comment, Charge, Discard, Clear, dbVars
    <2>2. \E l \in RunPcs : Goto(p, l)
      BY <1>2 DEF Try, Begin, PerformStop, PerformPlain, PerformMerge, PerformModel,
                  PerformReview, Write, Checkout, Tool, Stage, Push,
                  Comment, Charge, Discard, Clear, Result, PostEffect, RunPcs
    <2> QED BY <1>1, <2>1, <2>2 DEF MovesNone, WithP, TakenOK, Goto, RunPcs
  <1>3. ASSUME PerformAddress(p) PROVE HolderMoves(p) \/ MovesNone(p)
    <2>1. /\ item' = item /\ todo' = todo /\ \E l \in RunPcs : Goto(p, l)
          /\ work' = work \/ SetState(i, "running", "other")
      BY <1>3 DEF PerformAddress, Result, RunPcs
    <2>2. CASE work' = work
      BY <1>1, <2>1, <2>2 DEF MovesNone, WithP, TakenOK, Goto, RunPcs
    <2>3. CASE SetState(i, "running", "other")
      <3>1. work'[i].state = "running" /\ \A j \in Items : j # i => SameState(j)
        BY <1>1, <2>3, StateMoves
      <3>2. TakenOK(p)'
        BY <1>1, <2>1, <3>1 DEF TakenOK, Goto, RunPcs, SameState
      <3> QED BY <1>1, <2>1, <3>1, <3>2 DEF HolderMoves, WithP, TakenOK, Goto, HolderPcs
    <2> QED BY <2>1, <2>2, <2>3
  <1>4. ASSUME Settle(p) PROVE HolderMoves(p)
    <2>1. \A j \in Items : j # i => SameState(j)
      <3>1. \/ \E s, r : SetState(i, s, r)
            \/ \E s, r, n, t : SetRetry(i, s, r, n, t)
        BY <1>4 DEF Settle, Fail
      <3> QED BY <1>1, <3>1, StateMoves
    <2>2. /\ item' = [item EXCEPT ![p] = AnyItem] /\ pc[p] = "settle"
          /\ \/ Goto(p, "pick") /\ todo' = todo
             \/ Goto(p, "idle") /\ todo' = [todo EXCEPT ![p] = {}]
      BY <1>4 DEF Settle, Exit, Forget
    <2>3. TakenOK(p)'
      BY <1>1, <2>1, <2>2 DEF TakenOK, Goto, RunPcs, SameState
    <2> QED BY <1>1, <2>1, <2>2, <2>3 DEF HolderMoves, WithP, TakenOK, Goto, HolderPcs
  <1> QED BY <1>2, <1>3, <1>4

LEMMA CommandTaken ==
    ASSUME TypeOK, TakenInv, NEW c \in Procs, Command(c)
    PROVE  CommandMoves2(c) \/ MovesNone(c)
  <1>1. TakenOK(c) /\ DOMAIN pc = Procs /\ DOMAIN item = Procs /\ DOMAIN todo = Procs
        /\ item[c] \in Items
    BY DEF TakenInv, TypeOK, ProcOK
  <1>2. ASSUME NEW i \in Items, ApproveRead(c, i) \/ RejectRead(c, i) \/ RetryRead(c, i)
        PROVE  MovesNone(c)
    BY <1>1, <1>2 DEF ApproveRead, RejectRead, RetryRead, CanRetry, Load, MovesNone, WithP,
       TakenOK, Goto, RunPcs, dbVars
  <1>3. ASSUME ApproveWrite(c) PROVE CommandMoves2(c)
    <2>1. work'[item[c]].state = "approved" /\ \A j \in Items : j # item[c] => SameState(j)
      BY <1>1, <1>3 DEF ApproveWrite, SameState, TypeOK, DbOK
    <2>2. /\ pc[c] = "approve" /\ work[item[c]].state = "proposed"
          /\ \/ Goto(c, "begin") /\ item' = item /\ todo' = todo
             \/ /\ Goto(c, "idle") /\ item' = [item EXCEPT ![c] = AnyItem]
                /\ todo' = [todo EXCEPT ![c] = {}]
      BY <1>1, <1>3 DEF ApproveWrite, Exit, Forget, TakenOK
    <2>3. TakenOK(c)'
      BY <1>1, <2>1, <2>2 DEF TakenOK, Goto, RunPcs
    <2> QED BY <1>1, <2>1, <2>2, <2>3 DEF CommandMoves2, WithP, Goto
  <1>4. ASSUME RejectWrite(c) \/ RetryWrite(c) PROVE CommandMoves2(c)
    <2>1. \A j \in Items : j # item[c] => SameState(j)
      <3>1. \/ SetState(item[c], "done", "other")
            \/ SetRetry(item[c], "queued", "other", 0, 0)
        BY <1>4 DEF RejectWrite, RetryWrite
      <3> QED BY <1>1, <3>1, StateMoves
    <2>2. /\ pc[c] \in {"reject", "retry"} /\ work[item[c]].state \in {"proposed", "dead"}
          /\ Goto(c, "idle") /\ item' = [item EXCEPT ![c] = AnyItem]
          /\ todo' = [todo EXCEPT ![c] = {}]
      BY <1>1, <1>4 DEF RejectWrite, RetryWrite, Exit, Forget, TakenOK
    <2> QED BY <1>1, <2>1, <2>2 DEF CommandMoves2, WithP, TakenOK, Goto, RunPcs
  <1>5. ASSUME SetPaused(c) \/ Status(c) PROVE MovesNone(c)
    BY <1>1, <1>5 DEF SetPaused, Status, MovesNone, WithP, TakenOK, Goto, RunPcs, dbVars, procVars
  <1> QED BY <1>2, <1>3, <1>4, <1>5 DEF Command

\* Every step is one of these shapes.
LEMMA TakenShapes ==
    ASSUME TypeOK, TakenInv, [Next]_vars
    PROVE  \/ \E p \in Procs : HolderMoves(p) \/ CommandMoves2(p) \/ MovesNone(p)
           \/ RowsRest
  <1>1. ASSUME NEW p \in Procs, StartWatch(p) \/ StopWatch(p) \/ Crash(p) PROVE MovesNone(p)
    <2>1. TakenOK(p) /\ DOMAIN pc = Procs /\ DOMAIN item = Procs /\ DOMAIN todo = Procs
      BY DEF TakenInv, TypeOK, ProcOK
    <2> QED
      BY <1>1, <2>1 DEF StartWatch, StopWatch, Crash, Exit, Forget, MovesNone, WithP, TakenOK,
         Goto, RunPcs, dbVars
  <1>2. ASSUME SetEnabled \/ (\E r \in Rules : SetRule(r)) \/ Tick \/ UNCHANGED vars
        PROVE  RowsRest
    BY <1>2 DEF SetEnabled, SetRule, Tick, vars, dbVars, procVars, RowsRest
  <1> QED BY <1>1, <1>2, PassTaken, TryTaken, CommandTaken DEF Next

LEMMA TakenStep ==
    ASSUME OneCommand, TypeOK, TakenInv, [Next]_vars
    PROVE  TakenInv'
  BY LockStep, TakenShapes, ShapesKeepTaken DEF TakenInv

LEMMA TakenInit == Init => TakenInv
  BY DEF Init, TakenInv, TakenOK, LockInv, HolderPcs, LoopPcs, RunPcs

\* The invariant that carries DoneIsFinal and the refinement: what was taken up is
\* still in the state in which it was taken.
THEOREM TakenInvariant ==
    ASSUME OneCommand
    PROVE  Spec => [](TypeOK /\ TakenInv)
  <1>1. TypeOK /\ TakenInv /\ [Next]_vars => TakenInv'
    BY TakenStep
  <1> QED BY <1>1, TypeInit, TypeStep, TakenInit, PTL DEF Spec

\* A done item is never taken up again: every row a step moves was taken in
\* another state.
THEOREM DoneStaysDone ==
    ASSUME OneCommand
    PROVE  Spec => DoneIsFinal
  <1>1. TypeOK /\ TakenInv /\ [Next]_vars
          => [\A i \in Items : work[i].state = "done" => work'[i].state = "done"]_vars
    <2> SUFFICES ASSUME TypeOK, TakenInv, [Next]_vars, NEW i \in Items, work[i].state = "done"
                 PROVE  work'[i].state = "done"
      OBVIOUS
    <2> QED
      BY TakenShapes DEF HolderMoves, CommandMoves2, MovesNone, RowsRest, SameState
  <1>2. TypeOK /\ TakenInv /\ [Next]_vars => TakenInv'
    BY TakenStep
  <1> QED BY <1>1, <1>2, TypeInit, TypeStep, TakenInit, PTL DEF Spec, DoneIsFinal

-----------------------------------------------------------------------------
(* The queue implements the life of an item                                 *)

\* The row of one item changes, and keeps its approval.
OneRow(i, s) ==
    /\ work'[i].state = s
    /\ \A j \in Items : SameState(j) \/ j = i
    /\ \A j \in Items : work'[j].approvedAt = work[j].approvedAt

\* Rows change in nothing the promise speaks of.
RowsKept ==
    \A j \in Items : SameState(j) /\ work'[j].approvedAt = work[j].approvedAt

\* One effect of item i more.
OneMore(i) == posted' = [posted EXCEPT ![i] = @ + 1]

LEMMA OneRowMoves ==
    ASSUME TypeOK, NEW i \in Items, NEW s, NEW r, NEW n, NEW t,
           SetState(i, s, r) \/ SetRetry(i, s, r, n, t)
    PROVE  OneRow(i, s)
  <1>1. ASSUME NEW j \in Items PROVE work'[j].approvedAt = work[j].approvedAt
    <2>1. CASE SetState(i, s, r)
      BY <2>1 DEF TypeOK, DbOK, SetState, Row
    <2>2. CASE SetRetry(i, s, r, n, t)
      BY <2>2 DEF TypeOK, DbOK, SetRetry, Row
    <2> QED BY <2>1, <2>2
  <1> QED BY <1>1, StateMoves DEF OneRow

LEMMA StatusFollows ==
    ASSUME NEW j \in Items, SameState(j)
    PROVE  StatusOf(j)' = StatusOf(j)
  BY DEF StatusOf, SameState

\* A change of one row is a move of that item.
LEMMA RowIsMove ==
    ASSUME NEW i \in Items, NEW s, OneRow(i, s), NEW from, NEW to,
           StatusOf(i) \in from, StatusOf(i)' = to
    PROVE  Life!Moves(i, from, to)
  <1>1. \A j \in Items : j # i => StatusOf(j)' = StatusOf(j)
    BY StatusFollows DEF OneRow
  <1> QED BY <1>1 DEF Life!Moves

\* Rows that keep their approval leave consent alone.
LEMMA ConsentKept ==
    ASSUME \A j \in Items : work'[j].approvedAt = work[j].approvedAt
    PROVE  [i \in Items |-> work[i].approvedAt # Never]'
              = [i \in Items |-> work[i].approvedAt # Never]
  OBVIOUS

\* A step the promise does not see.
LEMMA HiddenStep ==
    ASSUME RowsKept, posted' = posted
    PROVE  UNCHANGED Life!vars
  <1>1. \A j \in Items : StatusOf(j)' = StatusOf(j)
    BY StatusFollows DEF RowsKept
  <1> QED BY <1>1, ConsentKept DEF RowsKept, Life!vars

\* An effect without a change of rows that shows.
LEMMA EffectIsAct ==
    ASSUME TypeOK, OnceInv, PersonInv, NEW i \in Items, OneMore(i), RowsKept,
           work[i].state \in {"approved", "running"}, Recognised(i) => posted[i] = 0
    PROVE  Life!Act(i)
  <1>1. \A j \in Items : StatusOf(j)' = StatusOf(j)
    BY StatusFollows DEF RowsKept
  <1>2. StatusOf(i) = "granted"
    BY DEF StatusOf
  <1>3. Unsafe(i) => work[i].approvedAt # Never
    BY DEF PersonInv, Unsafe
  <1>4. Life!Moves(i, {"granted"}, "granted")
    BY <1>1, <1>2 DEF Life!Moves
  <1> QED BY <1>3, <1>4, ConsentKept DEF RowsKept, OneMore, Unsafe, Life!Act

\* What a transaction that gives one row the state s is to the promise.
LEMMA OneRowIsLife ==
    ASSUME TypeOK, NEW i \in Items, NEW s \in States, OneRow(i, s), posted' = posted,
           \/ work[i].state = "unseen" /\ s \in {"proposed", "dead"}
           \/ work[i].state = "unseen" /\ s = "approved" /\ ~Unsafe(i)
           \/ work[i].state = "queued" /\ s \in {"proposed", "done"}
           \/ work[i].state = "queued" /\ s = "approved" /\ ~Unsafe(i)
           \/ work[i].state = "proposed" /\ s = "done"
           \/ /\ work[i].state \in {"approved", "running"}
              /\ s \in {"proposed", "queued", "dead", "done"}
           \/ work[i].state = "dead" /\ s = "queued"
    PROVE  Life!Next
  <1>1. UNCHANGED <<posted, [j \in Items |-> work[j].approvedAt # Never]>>
    BY ConsentKept DEF OneRow
  <1>2. work'[i].state = s
    BY DEF OneRow
  <1>3. CASE work[i].state = "unseen"
    <2>1. StatusOf(i) = "new"
      BY <1>3 DEF StatusOf
    <2>2. CASE s \in {"proposed", "dead"}
      <3>1. StatusOf(i)' = s
        BY <1>2, <2>2 DEF StatusOf
      <3>2. Life!Moves(i, {"new"}, s)
        BY <2>1, <3>1, RowIsMove
      <3> QED BY <1>1, <2>2, <3>2 DEF Life!Next, Life!Offer, Life!Decide
    <2>3. CASE s = "approved" /\ ~Unsafe(i)
      <3>1. StatusOf(i)' = "granted"
        BY <1>2, <2>3 DEF StatusOf
      <3>2. Life!Moves(i, {"new"}, "granted")
        BY <2>1, <3>1, RowIsMove
      <3> QED BY <1>1, <2>3, <3>2 DEF Life!Next, Life!Offer, Life!Decide, Unsafe
    <2> QED BY <1>3, <2>2, <2>3
  <1>4. CASE work[i].state = "queued"
    <2>1. StatusOf(i) = "queued"
      BY <1>4 DEF StatusOf
    <2>2. CASE s = "proposed"
      <3>1. StatusOf(i)' = "proposed"
        BY <1>2, <2>2 DEF StatusOf
      <3>2. Life!Moves(i, {"queued"}, "proposed")
        BY <2>1, <3>1, RowIsMove
      <3> QED BY <1>1, <3>2 DEF Life!Next, Life!Decide
    <2>3. CASE s = "done"
      <3>1. StatusOf(i)' = "closed"
        BY <1>2, <2>3 DEF StatusOf
      <3>2. Life!Moves(i, {"queued", "proposed", "granted"}, "closed")
        BY <2>1, <3>1, RowIsMove
      <3> QED BY <1>1, <3>2 DEF Life!Next, Life!Close
    <2>4. CASE s = "approved" /\ ~Unsafe(i)
      <3>1. StatusOf(i)' = "granted"
        BY <1>2, <2>4 DEF StatusOf
      <3>2. Life!Moves(i, {"queued"}, "granted")
        BY <2>1, <3>1, RowIsMove
      <3> QED BY <1>1, <2>4, <3>2 DEF Life!Next, Life!Decide, Unsafe
    <2> QED BY <1>4, <2>2, <2>3, <2>4
  <1>5. CASE work[i].state \in {"proposed", "approved", "running"} /\ s = "done"
    <2>1. StatusOf(i) \in {"queued", "proposed", "granted"} /\ StatusOf(i)' = "closed"
      BY <1>2, <1>5 DEF StatusOf
    <2>2. Life!Moves(i, {"queued", "proposed", "granted"}, "closed")
      BY <2>1, RowIsMove
    <2> QED BY <1>1, <2>2 DEF Life!Next, Life!Close
  <1>6. CASE work[i].state \in {"approved", "running"} /\ s \in {"proposed", "queued", "dead"}
    <2>1. StatusOf(i) = "granted" /\ StatusOf(i)' = s
      BY <1>2, <1>6 DEF StatusOf
    <2>2. Life!Moves(i, {"granted"}, s)
      BY <2>1, RowIsMove
    <2> QED BY <1>1, <1>6, <2>2 DEF Life!Next, Life!Withdraw
  <1>7. CASE work[i].state = "dead" /\ s = "queued"
    <2>1. StatusOf(i) = "dead" /\ StatusOf(i)' = "queued"
      BY <1>2, <1>7 DEF StatusOf
    <2>2. Life!Moves(i, {"dead"}, "queued")
      BY <2>1, RowIsMove
    <2> QED BY <1>1, <2>2 DEF Life!Next, Life!Retry
  <1> QED BY <1>3, <1>4, <1>5, <1>6, <1>7

\* Recovery writes the marker and closes the item in one step.
LEMMA ActAndClose ==
    ASSUME TypeOK, PersonInv, NEW i \in Items, OneMore(i), OneRow(i, "done"),
           work[i].state = "running", posted[i] = 0
    PROVE  Life!Act(i)
  <1>1. StatusOf(i) = "granted"
    BY DEF StatusOf
  <1>2. StatusOf(i)' = "closed"
    BY DEF StatusOf, OneRow
  <1>3. Unsafe(i) => work[i].approvedAt # Never
    BY DEF PersonInv, Unsafe
  <1>4. Life!Moves(i, {"granted"}, "closed")
    BY <1>1, <1>2, RowIsMove
  <1> QED BY <1>3, <1>4, ConsentKept DEF OneRow, OneMore, Unsafe, Life!Act

\* What the promise asks of a step.
LifeStep == Life!Next \/ UNCHANGED Life!vars

\* What is known before every step.
RefineInv == TypeOK /\ OnceInv /\ PersonInv /\ TakenInv

LEMMA NothingShows ==
    ASSUME work' = work, posted' = posted
    PROVE  LifeStep
  BY HiddenStep DEF RowsKept, SameState, LifeStep

LEMMA PassLife ==
    ASSUME RefineInv, NEW p \in Procs, Pass(p)
    PROVE  LifeStep
  <1>1. TypeOK /\ PersonInv /\ OnceInv /\ TakenOK(p) /\ todo[p] \subseteq Items
        /\ cfg[p] \in [Rules -> Setting]
    BY DEF RefineInv, TakenInv, TypeOK, ProcOK
  <1>2. ASSUME StartPass(p) \/ EndRecover(p) \/ EndPoll(p) \/ StartRun(p) \/ EndPass(p) \/ Pick(p)
        PROVE  LifeStep
    BY <1>2, NothingShows
       DEF StartPass, EndRecover, EndPoll, StartRun, EndPass, Pick, dbVars, worldVars
  <1>3. ASSUME NEW i \in Items, RecoverPushed(p, i) PROVE LifeStep
    <2>1. work[i].state = "running" /\ posted \in [Items -> Nat]
      BY <1>1, <1>3 DEF RecoverPushed, TakenOK, TypeOK, WorldOK
    <2>2. CASE posted' = posted /\ work' = work
      BY <2>2, NothingShows
    <2>3. CASE posted' = posted /\ SetState(i, "done", "other")
      <3>1. OneRow(i, "done")
        BY <1>1, <2>3, OneRowMoves
      <3> QED BY <1>1, <2>1, <2>3, <3>1, OneRowIsLife DEF LifeStep, States
    <2>4. CASE posted[i] = 0 /\ OneMore(i) /\ SetState(i, "done", "other")
      <3>1. OneRow(i, "done")
        BY <1>1, <2>4, OneRowMoves
      <3> QED BY <1>1, <2>1, <2>4, <3>1, ActAndClose DEF LifeStep, Life!Next
    <2>5. CASE posted[i] = 0 /\ OneMore(i) /\ work' = work
      BY <1>1, <2>1, <2>5, EffectIsAct DEF LifeStep, Life!Next, RowsKept, SameState
    <2>6. posted' = posted \/ (posted[i] = 0 /\ OneMore(i))
      <3>1. \/ posted' = posted
            \/ posted' = [posted EXCEPT ![i] = IF @ = 0 THEN 1 ELSE @]
            \/ posted[i] = 0 /\ posted' = [posted EXCEPT ![i] = 1]
        BY <1>3 DEF RecoverPushed
      <3>2. CASE posted[i] = 0
        BY <2>1, <3>1, <3>2, 0 + 1 = 1 DEF OneMore
      <3>3. CASE posted[i] # 0
        BY <2>1, <3>1, <3>3
      <3> QED BY <3>2, <3>3
    <2> QED BY <1>3, <2>2, <2>3, <2>4, <2>5, <2>6 DEF RecoverPushed
  <1>4. ASSUME NEW i \in Items, RecoverUnpushed(p, i) \/ RecoverUnknown(p, i) PROVE LifeStep
    <2>1. work[i].state = "running" /\ posted' = posted
      BY <1>1, <1>4 DEF RecoverUnpushed, RecoverUnknown, TakenOK, worldVars
    <2>2. SetState(i, "queued", "other") \/ SetState(i, "dead", "other")
      BY <1>4 DEF RecoverUnpushed, RecoverUnknown
    <2>3. OneRow(i, "queued") \/ OneRow(i, "dead")
      BY <1>1, <2>2, OneRowMoves
    <2> QED BY <1>1, <2>1, <2>3, OneRowIsLife DEF LifeStep, States
  <1>5. ASSUME NEW i \in Items, Level(cfg[p], i) = "auto" PROVE ~Unsafe(i)
    BY <1>1, <1>5, UnsafeIsNotAuto
  <1>6. ASSUME NEW i \in Items, NEW s, NEW r, SetState(i, s, r) PROVE OneRow(i, s)
    BY <1>1, <1>6, OneRowMoves
  <1>7. ASSUME NEW i \in Items, Ingest(p, i) PROVE LifeStep
    <2>1. work[i].state = "unseen" /\ posted' = posted
      BY <1>7 DEF Ingest, worldVars
    <2>2. \/ SetState(i, "dead", "other") \/ SetState(i, "proposed", "other")
          \/ SetState(i, "approved", "auto") /\ ~Unsafe(i)
      BY <1>5, <1>7 DEF Ingest
    <2>3. \/ OneRow(i, "dead") \/ OneRow(i, "proposed")
          \/ OneRow(i, "approved") /\ ~Unsafe(i)
      BY <1>6, <2>2
    <2> QED BY <1>1, <2>1, <2>3, OneRowIsLife DEF LifeStep, States
  <1>8. ASSUME NEW i \in Items, Redecide(p, i) PROVE LifeStep
    <2>1. work[i].state = "queued" /\ posted' = posted
      BY <1>1, <1>8 DEF Redecide, TakenOK, worldVars
    <2>2. \/ SetState(i, "done", "other") \/ SetState(i, "proposed", "other")
          \/ SetState(i, "approved", "auto") /\ ~Unsafe(i)
      BY <1>5, <1>8 DEF Redecide
    <2>3. \/ OneRow(i, "done") \/ OneRow(i, "proposed")
          \/ OneRow(i, "approved") /\ ~Unsafe(i)
      BY <1>6, <2>2
    <2> QED BY <1>1, <2>1, <2>3, OneRowIsLife DEF LifeStep, States
  <1> QED BY <1>2, <1>3, <1>4, <1>7, <1>8, Zenon DEF Pass

LEMMA TryLife ==
    ASSUME RefineInv, NEW p \in Procs, Try(p)
    PROVE  LifeStep
  <1>1. PICK i \in Items : i = item[p]
    BY DEF RefineInv, TypeOK, ProcOK
  <1>2. TypeOK /\ PersonInv /\ OnceInv /\ TakenOK(p) /\ posted \in [Items -> Nat]
    BY DEF RefineInv, TakenInv, TypeOK, ProcOK, WorldOK
  <1>3. ASSUME ~Settle(p), ~PerformAddress(p), ~Write(p), ~Comment(p) PROVE LifeStep
    BY <1>3, NothingShows
       DEF Try, Begin, PerformStop, PerformPlain, PerformMerge, PerformModel, PerformReview,
           Checkout, Tool, Stage, Push, Charge, Discard, Clear, dbVars, worldVars
  <1>4. ASSUME PerformAddress(p) PROVE LifeStep
    <2>1. posted' = posted /\ work[i].state \in {"approved", "running"}
      BY <1>1, <1>2, <1>4 DEF PerformAddress, TakenOK, RunPcs, worldVars
    <2>2. CASE work' = work
      BY <2>1, <2>2, NothingShows
    <2>3. CASE SetState(i, "running", "other")
      <3>1. OneRow(i, "running")
        BY <1>2, <2>3, OneRowMoves
      <3>2. StatusOf(i)' = StatusOf(i)
        BY <2>1, <3>1 DEF OneRow, StatusOf
      <3>3. \A j \in Items : StatusOf(j)' = StatusOf(j)
        BY <3>1, <3>2, StatusFollows DEF OneRow
      <3> QED BY <2>1, <3>1, <3>3, ConsentKept DEF OneRow, LifeStep, Life!vars
    <2> QED BY <1>1, <1>4, <2>2, <2>3 DEF PerformAddress
  <1>5. ASSUME Write(p) \/ Comment(p) PROVE LifeStep
    <2>1. /\ work' = work /\ pc[p] \in EffectPcs /\ work[i].state \in {"approved", "running"}
          /\ posted' = posted \/ OneMore(i)
      BY <1>1, <1>2, <1>5 DEF Write, Comment, PostEffect, OneMore, TakenOK, RunPcs, EffectPcs, dbVars
    <2>2. Recognised(i) => posted[i] = 0
      BY <1>1, <1>2, <2>1 DEF OnceInv
    <2>3. CASE OneMore(i)
      BY <1>2, <2>1, <2>2, <2>3, EffectIsAct DEF LifeStep, Life!Next, RowsKept, SameState
    <2> QED BY <2>1, <2>3, NothingShows
  <1>6. ASSUME Settle(p) PROVE LifeStep
    <2>1. posted' = posted /\ work[i].state \in {"approved", "running"}
      BY <1>1, <1>2, <1>6 DEF Settle, TakenOK, RunPcs, worldVars
    <2>2. PICK s \in {"done", "proposed", "approved", "dead"} :
             \E r, n, t : SetState(i, s, r) \/ SetRetry(i, s, r, n, t)
      BY <1>1, <1>6 DEF Settle, Fail
    <2>3. OneRow(i, s)
      BY <1>2, <2>2, OneRowMoves
    <2>4. CASE s = "approved"
      <3>1. StatusOf(i)' = StatusOf(i)
        BY <2>1, <2>3, <2>4 DEF OneRow, StatusOf
      <3>2. \A j \in Items : StatusOf(j)' = StatusOf(j)
        BY <2>3, <3>1, StatusFollows DEF OneRow
      <3> QED BY <2>1, <2>3, <3>2, ConsentKept DEF OneRow, LifeStep, Life!vars
    <2>5. CASE s # "approved"
      BY <1>2, <2>1, <2>2, <2>3, <2>5, OneRowIsLife DEF LifeStep, States
    <2> QED BY <2>4, <2>5
  <1> QED BY <1>3, <1>4, <1>5, <1>6

LEMMA CommandLife ==
    ASSUME RefineInv, NEW c \in Procs, Command(c)
    PROVE  LifeStep
  <1>1. PICK i \in Items : i = item[c]
    BY DEF RefineInv, TypeOK, ProcOK
  <1>2. TypeOK /\ TakenOK(c) /\ DOMAIN work = Items /\ now \in Nat
        /\ DOMAIN [j \in Items |-> work[j].approvedAt # Never] = Items
    BY DEF RefineInv, TakenInv, TypeOK, ProcOK, DbOK, WorldOK
  <1>3. ASSUME ApproveWrite(c) PROVE LifeStep
    <2>1. /\ work[i].state = "proposed" /\ posted' = posted
          /\ work' = [work EXCEPT ![i] = [state |-> "approved", reason |-> "other",
                         attempts |-> @.attempts, notBefore |-> @.notBefore,
                         approvedAt |-> now]]
      BY <1>1, <1>2, <1>3 DEF ApproveWrite, TakenOK, worldVars
    <2>2. /\ work'[i].state = "approved" /\ work'[i].approvedAt = now
          /\ \A j \in Items : j # i => work'[j] = work[j]
      BY <1>2, <2>1
    <2>3. \A j \in Items : j # i => StatusOf(j)' = StatusOf(j)
      BY <2>2, StatusFollows DEF SameState
    <2>4. StatusOf(i) = "proposed" /\ StatusOf(i)' = "granted"
      BY <2>1, <2>2 DEF StatusOf
    <2>5. Life!Moves(i, {"proposed"}, "granted")
      BY <1>2, <2>3, <2>4 DEF Life!Moves
    <2>6. (work[i].approvedAt # Never)' = TRUE
      BY <1>2, <2>2 DEF Never
    <2>7. \A j \in Items : j # i => (work[j].approvedAt # Never)' = (work[j].approvedAt # Never)
      BY <2>2
    <2>8. [j \in Items |-> work[j].approvedAt # Never]'
             = [[j \in Items |-> work[j].approvedAt # Never] EXCEPT ![i] = TRUE]
      BY <1>2, <2>6, <2>7
    <2> QED BY <1>2, <2>1, <2>5, <2>8 DEF Life!Approve, Life!Next, LifeStep
  <1>4. ASSUME RejectWrite(c) \/ RetryWrite(c) PROVE LifeStep
    <2>1. /\ posted' = posted
          /\ \/ work[i].state = "proposed" /\ SetState(i, "done", "other")
             \/ work[i].state = "dead" /\ SetRetry(i, "queued", "other", 0, 0)
      BY <1>1, <1>2, <1>4 DEF RejectWrite, RetryWrite, TakenOK, worldVars
    <2>2. \/ work[i].state = "proposed" /\ OneRow(i, "done")
          \/ work[i].state = "dead" /\ OneRow(i, "queued")
      BY <1>2, <2>1, OneRowMoves
    <2> QED BY <1>2, <2>1, <2>2, OneRowIsLife DEF LifeStep, States
  <1>5. ASSUME ~ApproveWrite(c), ~RejectWrite(c), ~RetryWrite(c) PROVE LifeStep
    BY <1>5, NothingShows
       DEF Command, ApproveRead, RejectRead, RetryRead, SetPaused, Status, dbVars, worldVars
  <1> QED BY <1>3, <1>4, <1>5

LEMMA EveryLifeStep ==
    ASSUME RefineInv, [Next]_vars
    PROVE  LifeStep
  <1>1. ASSUME NEW p \in Procs, StartWatch(p) \/ StopWatch(p) \/ Crash(p) PROVE LifeStep
    BY <1>1, NothingShows DEF StartWatch, StopWatch, Crash, dbVars, worldVars
  <1>2. ASSUME SetEnabled \/ (\E r \in Rules : SetRule(r)) \/ Tick \/ UNCHANGED vars
        PROVE  LifeStep
    BY <1>2, NothingShows DEF SetEnabled, SetRule, Tick, vars, dbVars, worldVars
  <1> QED BY <1>1, <1>2, PassLife, TryLife, CommandLife DEF Next

\* The queue keeps the promise of WatchItem: every transaction and every write is
\* one step of an item's life, or hidden from it.
THEOREM QueueKeepsPromise ==
    ASSUME OneCommand
    PROVE  Spec => KeepsItemPromise
  <1>1. ASSUME Init PROVE Life!Init
    <2>1. \A i \in Items : StatusOf(i) = "new" /\ (work[i].approvedAt # Never) = FALSE
      BY <1>1 DEF Init, StatusOf, UnseenRow
    <2>2. posted = [i \in Items |-> 0]
      BY <1>1 DEF Init
    <2> QED BY <2>1, <2>2 DEF Life!Init
  <1>2. TypeOK /\ OnceInv /\ PersonInv /\ TakenInv /\ [Next]_vars => [Life!Next]_(Life!vars)
    BY EveryLifeStep DEF RefineInv, LifeStep
  <1>3. TypeOK /\ TakenInv /\ [Next]_vars => TakenInv'
    BY TakenStep
  <1>4. Init => PersonInv
    BY DEF Init, PersonInv, UnseenRow, RunPcs
  <1>5. TypeOK /\ PersonInv /\ [Next]_vars => PersonInv'
    BY PersonStep
  <1> QED
    BY <1>1, <1>2, <1>3, <1>4, <1>5, TypeInit, TypeStep, TakenInit, OnceInit, OnceStep,
       PTL DEF Spec, KeepsItemPromise, Life!Spec

-----------------------------------------------------------------------------
(* The ladder is climbed by approvals                                       *)

\* Who changes which row.
LEMMA RowSteps ==
    ASSUME TypeOK, [Next]_vars
    PROVE  \/ work' = work
           \/ \E p \in Procs, i \in Items, s \in States : pc[p] \in LoopPcs /\ OneRow(i, s)
           \/ \E p \in Procs, s \in States : pc[p] \in RunPcs /\ OneRow(item[p], s)
           \/ \E p \in Procs : \/ pc[p] = "reject" /\ OneRow(item[p], "done")
                               \/ pc[p] = "retry" /\ OneRow(item[p], "queued")
                               \/ ApproveWrite(p)
  <1>1. \A p \in Procs : item[p] \in Items
    BY DEF TypeOK, ProcOK
  <1>2. ASSUME NEW p \in Procs, Pass(p)
        PROVE  \/ work' = work
               \/ \E i \in Items, s \in States : pc[p] \in LoopPcs /\ OneRow(i, s)
    <2>1. \/ work' = work
          \/ pc[p] \in LoopPcs /\ \E j \in Items, s \in States, r \in {"auto", "other"} :
                                     SetState(j, s, r)
      BY <1>2 DEF Pass, StartPass, EndRecover, EndPoll, StartRun, EndPass, Pick,
                  RecoverPushed, RecoverUnpushed, RecoverUnknown, Ingest, Redecide, dbVars,
                  States, LoopPcs
    <2> QED BY <2>1, OneRowMoves
  <1>3. ASSUME NEW p \in Procs, Try(p)
        PROVE  work' = work \/ \E s \in States : pc[p] \in RunPcs /\ OneRow(item[p], s)
    <2>1. CASE Settle(p)
      <3>1. pc[p] \in RunPcs /\ \E s \in {"done", "proposed", "approved", "dead"} :
               \E r, n, t : SetState(item[p], s, r) \/ SetRetry(item[p], s, r, n, t)
        BY <2>1 DEF Settle, Fail, RunPcs
      <3> QED BY <1>1, <3>1, OneRowMoves DEF States
    <2>2. CASE PerformAddress(p)
      <3>1. pc[p] \in RunPcs /\ (work' = work \/ SetState(item[p], "running", "other"))
        BY <2>2 DEF PerformAddress, RunPcs
      <3> QED BY <1>1, <3>1, OneRowMoves DEF States
    <2>3. CASE ~Settle(p) /\ ~PerformAddress(p)
      BY <1>3, <2>3 DEF Try, Begin, PerformStop, PerformPlain, PerformMerge, PerformModel,
                  PerformReview, Write, Checkout, Tool, Stage, Push, Comment, Charge,
                  Discard, Clear, dbVars
    <2> QED BY <2>1, <2>2, <2>3
  <1>4. ASSUME NEW c \in Procs, Command(c)
        PROVE  \/ work' = work
               \/ pc[c] = "reject" /\ OneRow(item[c], "done")
               \/ pc[c] = "retry" /\ OneRow(item[c], "queued")
               \/ ApproveWrite(c)
    <2>1. \/ work' = work
          \/ pc[c] = "reject" /\ SetState(item[c], "done", "other")
          \/ pc[c] = "retry" /\ SetRetry(item[c], "queued", "other", 0, 0)
          \/ ApproveWrite(c)
      BY <1>4 DEF Command, RejectWrite, RetryWrite, ApproveRead, RejectRead, RetryRead,
                  SetPaused, Status, dbVars
    <2> QED BY <1>1, <2>1, OneRowMoves
  <1>5. ASSUME NEW p \in Procs, StartWatch(p) \/ StopWatch(p) \/ Crash(p) PROVE work' = work
    BY <1>5 DEF StartWatch, StopWatch, Crash, dbVars
  <1>6. ASSUME SetEnabled \/ (\E r \in Rules : SetRule(r)) \/ Tick \/ UNCHANGED vars
        PROVE  work' = work
    BY <1>6 DEF SetEnabled, SetRule, Tick, vars, dbVars
  <1> QED BY <1>2, <1>3, <1>4, <1>5, <1>6 DEF Next

\* The only approval time a step writes is that of a proposed item.
StampKept(j) == work'[j].approvedAt = work[j].approvedAt

LEMMA StampRenewed ==
    ASSUME TypeOK, TakenInv, [Next]_vars
    PROVE  \/ \A j \in Items : StampKept(j)
           \/ \E x \in Items : work[x].state = "proposed" /\ \A j \in Items \ {x} : StampKept(j)
  <1>1. ASSUME NEW c \in Procs, ApproveWrite(c)
        PROVE  /\ item[c] \in Items /\ work[item[c]].state = "proposed"
               /\ \A j \in Items \ {item[c]} : StampKept(j)
    BY <1>1 DEF ApproveWrite, TakenInv, TakenOK, TypeOK, ProcOK, DbOK, StampKept
  <1> QED BY <1>1, RowSteps DEF OneRow, StampKept

LEMMA StampedFinite ==
    ASSUME TypeOK, TakenInv, [Next]_vars, IsFiniteSet(Stamped)
    PROVE  IsFiniteSet(Stamped)'
  <1>1. CASE \A j \in Items : StampKept(j)
    BY <1>1 DEF StampKept, Stamped, Person
  <1>2. ASSUME NEW x \in Items, \A j \in Items \ {x} : StampKept(j)
        PROVE  IsFiniteSet(Stamped)'
    <2>1. Stamped' \subseteq Stamped \cup {x}
      BY <1>2 DEF StampKept, Stamped, Person
    <2> QED BY <2>1, FS_AddElement, FS_Subset
  <1> QED BY <1>1, <1>2, StampRenewed

\* While a process acts, no finished item is taken up: nobody else is in a pass.
LEMMA FinishedStay ==
    ASSUME TypeOK, TakenInv, [Next]_vars, NEW p \in Procs, Acting(p), Acting(p)', NEW j \in Items,
           work[j].state \in {"done", "dead", "queued"}
    PROVE  work'[j].state \in {"done", "dead", "queued"}
  <1>1. \A q \in Procs : pc[q] \notin LoopPcs
    BY DEF Acting, TakenInv, LockInv, HolderPcs, LoopPcs, RunPcs, EffectPcs
  <1>2. \A q \in Procs : pc[q] \in RunPcs => item[q] # j
    BY DEF TakenInv, TakenOK
  <1>3. ASSUME NEW c \in Procs, ApproveWrite(c) PROVE work'[j].state = work[j].state
    BY <1>3 DEF ApproveWrite, TakenInv, TakenOK, TypeOK, ProcOK, DbOK
  <1> QED BY <1>1, <1>2, <1>3, RowSteps DEF OneRow, SameState

LEMMA ClockForward ==
    ASSUME TypeOK, [Next]_vars
    PROVE  now' \in {now, now + 1}
  <1>1. ASSUME NEW p \in Procs, Pass(p) \/ Command(p) PROVE now' = now
    BY <1>1 DEF Pass, StartPass, EndRecover, EndPoll, StartRun, EndPass, Pick, RecoverPushed,
                RecoverUnpushed, RecoverUnknown, Ingest, Redecide, Command, ApproveRead,
                RejectRead, RetryRead, ApproveWrite, RejectWrite, RetryWrite, SetPaused,
                Status, worldVars
  <1>2. ASSUME NEW p \in Procs, Try(p) PROVE now' = now
    BY <1>2 DEF Try, Begin, PerformStop, PerformPlain, PerformMerge, PerformModel,
                PerformReview, PerformAddress, Write, Checkout, Tool, Stage, Push, Comment,
                Charge, Discard, Clear, Settle, worldVars
  <1>3. ASSUME NEW p \in Procs, StartWatch(p) \/ StopWatch(p) \/ Crash(p) PROVE now' = now
    BY <1>3 DEF StartWatch, StopWatch, Crash, worldVars
  <1>4. ASSUME SetEnabled \/ (\E r \in Rules : SetRule(r)) \/ Tick \/ UNCHANGED vars
        PROVE  now' \in {now, now + 1}
    BY <1>4 DEF SetEnabled, SetRule, Tick, vars, worldVars
  <1> QED BY <1>1, <1>2, <1>3, <1>4 DEF Next

\* What the ladder asked for holds as long as the process acts.
LEMMA ClimbedKept ==
    ASSUME TypeOK, TakenInv, [Next]_vars, IsFiniteSet(Stamped)', NEW p \in Procs, ClimbedOK(p),
           Acting(p), Acting(p)', item'[p] = item[p]
    PROVE  ClimbedOK(p)'
  <1>1. PICK i \in Items : i = item[p] /\ i = item'[p]
    BY DEF TypeOK, ProcOK
  <1>2. SUFFICES ASSUME ~RunsFree(Class(i))
                 PROVE  /\ (Cardinality(Stamps(i)) >= LadderApprovals)'
                        /\ \E j \in Items : OldStamp(i, j)'
    BY <1>1 DEF ClimbedOK, Class
  <1>3. Cardinality(Stamps(i)) >= LadderApprovals /\ \E j \in Items : OldStamp(i, j)
    BY <1>1, <1>2 DEF ClimbedOK
  <1>4. \A j \in Items : Person(j) => Person(j)'
    BY ApprovalStays
  <1>5. Stamps(i) \subseteq Stamps(i)' /\ IsFiniteSet(Stamps(i)')
    <2>1. Stamps(i) \subseteq Stamps(i)' /\ Stamps(i)' \subseteq Stamped'
      BY <1>4 DEF Stamps, Stamped, Class
    <2> QED BY <2>1, FS_Subset
  <1>6. (Cardinality(Stamps(i)) >= LadderApprovals)'
    <2>1. IsFiniteSet(Stamps(i))
      BY <1>5, FS_Subset
    <2>2. /\ Cardinality(Stamps(i)) <= Cardinality(Stamps(i)')
          /\ Cardinality(Stamps(i)) \in Nat /\ Cardinality(Stamps(i)') \in Nat
      BY <1>5, <2>1, FS_Subset, FS_CardinalityType
    <2> QED BY <1>3, <2>2, LimitsAssumption
  <1>7. PICK j \in Items : OldStamp(i, j)
    BY <1>3
  <1>8. j \in Stamps(i)' /\ work'[j].state \in {"done", "dead", "queued"}
    BY <1>5, <1>7, FinishedStay DEF OldStamp
  <1>9. StampKept(j)
    BY <1>7, StampRenewed DEF OldStamp
  <1>10. now' >= now /\ now \in Int /\ now' \in Int /\ work[j].approvedAt \in Int
    BY TypeStep, ClockForward DEF TypeOK, WorldOK, DbOK, Row
  <1>11. OldStamp(i, j)'
    BY <1>7, <1>8, <1>9, <1>10, LimitsAssumption DEF OldStamp, StampKept
  <1> QED BY <1>6, <1>11

\* A process that acts acted before, on the same item, or has just begun.
LEMMA ActingSteps ==
    ASSUME TypeOK, AloneInv, [Next]_vars, NEW p \in Procs, Acting(p)'
    PROVE  (Acting(p) /\ item'[p] = item[p]) \/ Begin(p)
  <1> USE DEF Acting, EffectPcs, Goto
  <1>1. DOMAIN pc = Procs /\ DOMAIN item = Procs /\ DOMAIN row = Procs
    BY DEF TypeOK, ProcOK
  <1>2. ASSUME NEW q \in Procs, q # p, ElsewhereAt(q) PROVE Acting(p) /\ item'[p] = item[p]
    BY <1>2 DEF ElsewhereAt
  <1>3. ASSUME Pass(p) PROVE FALSE
    BY <1>1, <1>3 DEF Pass, StartPass, EndRecover, EndPoll, StartRun, EndPass, Pick,
                RecoverPushed, RecoverUnpushed, RecoverUnknown, Ingest, Redecide, procVars
  <1>4. ASSUME Try(p), ~Begin(p) PROVE Acting(p) /\ item'[p] = item[p]
    <2>1. CASE PerformStop(p) \/ PerformPlain(p) \/ PerformMerge(p) \/ PerformModel(p)
               \/ PerformReview(p) \/ PerformAddress(p)
      BY <1>1, <2>1 DEF PerformStop, PerformPlain, PerformMerge, PerformModel,
                  PerformReview, PerformAddress
    <2>2. CASE Write(p) \/ Comment(p)
      BY <1>1, <2>2 DEF Write, Comment, PostEffect, Result
    <2>3. CASE Checkout(p) \/ Tool(p) \/ Stage(p) \/ Push(p)
      BY <1>1, <2>3 DEF Checkout, Tool, Stage, Push
    <2>4. CASE Charge(p) \/ Discard(p) \/ Clear(p) \/ Settle(p)
      BY <1>1, <2>4 DEF Charge, Discard, Clear, Settle, Exit, Forget
    <2> QED BY <1>4, <2>1, <2>2, <2>3, <2>4 DEF Try
  <1>5. ASSUME Command(p) PROVE FALSE
    BY <1>1, <1>5 DEF Command, ApproveRead, RejectRead, RetryRead, Load, ApproveWrite,
                RejectWrite, RetryWrite, Exit, SetPaused, Status, procVars
  <1>6. ASSUME NEW q \in Procs, StartWatch(q) \/ StopWatch(q) \/ Crash(q)
        PROVE  Acting(p) /\ item'[p] = item[p]
    BY <1>1, <1>6 DEF StartWatch, StopWatch, Crash, Exit, Forget
  <1>7. ASSUME SetEnabled \/ (\E r \in Rules : SetRule(r)) \/ Tick \/ UNCHANGED vars
        PROVE  Acting(p) /\ item'[p] = item[p]
    BY <1>7 DEF SetEnabled, SetRule, Tick, vars, procVars
  <1> QED
    BY <1>2, <1>3, <1>4, <1>5, <1>6, <1>7, PassGoes, TryGoes, CommandGoes DEF Next

\* demotion() asks the ladder, and its history is of approvals that still stand.
LEMMA ClimbedAtBegin ==
    ASSUME TypeOK, IsFiniteSet(Stamped), NEW p \in Procs, Begin(p), Acting(p)'
    PROVE  ClimbedOK(p)'
  <1>1. PICK i \in Items : i = item[p]
    BY DEF TypeOK, ProcOK
  <1>2. /\ row[p].reason = "auto" => ~Demoted(i)
        /\ UNCHANGED <<work, now, item, row>>
    BY <1>1 DEF Begin, Acting, Goto, Result, EffectPcs, TypeOK, ProcOK, dbVars, worldVars
  <1>3. SUFFICES ASSUME ~RunsFree(Class(i))
                 PROVE  /\ Cardinality(Stamps(i)) >= LadderApprovals
                        /\ \E j \in Items : OldStamp(i, j)
    BY <1>1, <1>2 DEF ClimbedOK, Class, Stamps, Stamped, Person, OldStamp
  <1>4. LadderAllows(History(i), now)
    BY <1>2, <1>3 DEF Demoted, Acting
  <1> DEFINE K == {k \in Items : /\ Class(k) = Class(i) /\ work[k].approvedAt # Never
                                 /\ work[k].state \in {"done", "dead"}}
             f == [j \in K |-> [id |-> j, at |-> work[j].approvedAt,
                                failed |-> work[j].state = "dead"]]
  <1>5. f \in Surjection(K, History(i))
    BY DEF Surjection, History
  <1>6. K \subseteq Stamps(i) /\ Stamps(i) \subseteq Stamped
    BY DEF Stamps, Stamped, Person
  <1>7. IsFiniteSet(Stamps(i)) /\ IsFiniteSet(K)
    BY <1>6, FS_Subset
  <1> HIDE DEF K, f
  <1>8. /\ Cardinality(History(i)) <= Cardinality(K) /\ Cardinality(K) <= Cardinality(Stamps(i))
        /\ IsFiniteSet(History(i))
    BY <1>5, <1>6, <1>7, FS_Surjection, FS_Subset
  <1>9. /\ Cardinality(History(i)) \in Nat /\ Cardinality(K) \in Nat
        /\ Cardinality(Stamps(i)) \in Nat
    BY <1>7, <1>8, FS_CardinalityType
  <1>10. Cardinality(Stamps(i)) >= LadderApprovals
    BY <1>4, <1>8, <1>9, LimitsAssumption DEF LadderAllows
  <1>11. PICK h \in History(i) : now - h.at >= LadderSpan
    BY <1>4 DEF LadderAllows
  <1>12. PICK j \in K : h.at = work[j].approvedAt
    BY <1>11 DEF History, K
  <1>13. OldStamp(i, j)
    BY <1>6, <1>11, <1>12 DEF OldStamp, K
  <1> QED BY <1>6, <1>10, <1>12, <1>13 DEF K

LEMMA LadderStep ==
    ASSUME OneCommand, TypeOK, AloneInv, TakenInv, LadderInv, [Next]_vars
    PROVE  LadderInv'
  <1>1. IsFiniteSet(Stamped)'
    BY StampedFinite DEF LadderInv
  <1>2. ASSUME NEW p \in Procs, Acting(p)' PROVE ClimbedOK(p)'
    <2>1. CASE Begin(p)
      BY <1>2, <2>1, ClimbedAtBegin DEF LadderInv
    <2>2. CASE Acting(p) /\ item'[p] = item[p]
      BY <1>1, <1>2, <2>2, ClimbedKept DEF LadderInv
    <2> QED BY <1>2, <2>1, <2>2, ActingSteps
  <1>3. \A p \in Procs : ClimbedOK(p)'
    BY <1>2 DEF ClimbedOK
  <1> QED BY <1>1, <1>3 DEF LadderInv

\* An unattended action of a class that climbs has enough approvals of its class
\* behind it, one of them old enough, when it writes.
THEOREM LadderIsClimbed ==
    ASSUME OneCommand
    PROVE  Spec => LadderEarned
  <1>1. ASSUME TypeOK, OnceInv, AloneInv, LadderInv, [Next]_vars, NEW i \in Items,
               WritesAlone(i), ~RunsFree(Class(i))
        PROVE  LET stamps == {j \in Items : Class(j) = Class(i) /\ work[j].approvedAt # Never}
               IN  /\ Cardinality(stamps) >= LadderApprovals
                   /\ \E j \in stamps : now - work[j].approvedAt >= LadderSpan
    <2>1. PICK p \in Procs : Acting(p) /\ item[p] = i
      BY <1>1, WriterIsActing
    <2>2. Cardinality(Stamps(i)) >= LadderApprovals /\ \E j \in Items : OldStamp(i, j)
      BY <1>1, <2>1 DEF LadderInv, ClimbedOK
    <2>3. Stamps(i) = {j \in Items : Class(j) = Class(i) /\ work[j].approvedAt # Never}
      BY DEF Stamps, Stamped, Person
    <2> QED BY <2>2, <2>3 DEF OldStamp
  <1>2. TypeOK /\ OnceInv /\ AloneInv /\ LadderInv /\ [Next]_vars
          => [\A i \in Items : WritesAlone(i) /\ ~RunsFree(Class(i)) =>
                LET stamps == {j \in Items : Class(j) = Class(i) /\ work[j].approvedAt # Never}
                IN  /\ Cardinality(stamps) >= LadderApprovals
                    /\ \E j \in stamps : now - work[j].approvedAt >= LadderSpan]_vars
    BY <1>1
  <1>3. TypeOK /\ AloneInv /\ [Next]_vars => AloneInv'
    BY AloneStep
  <1>4. TypeOK /\ TakenInv /\ [Next]_vars => TakenInv'
    BY TakenStep
  <1>5. TypeOK /\ AloneInv /\ TakenInv /\ LadderInv /\ [Next]_vars => LadderInv'
    BY LadderStep
  <1>6. Init => LadderInv
    <2>1. ASSUME Init PROVE Stamped = {} /\ \A p \in Procs : ~Acting(p)
      BY <2>1 DEF Init, Stamped, Person, UnseenRow, Acting, EffectPcs
    <2> QED BY <2>1, FS_EmptySet DEF LadderInv, ClimbedOK
  <1> QED
    BY <1>2, <1>3, <1>4, <1>5, <1>6, AloneInit, TakenInit, TypeInit, TypeStep, OnceInit,
       OnceStep, PTL DEF Spec, LadderEarned
=============================================================================
