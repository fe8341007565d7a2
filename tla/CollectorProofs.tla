-------------------------- MODULE CollectorProofs ---------------------------
(***************************************************************************)
(* The files that lead to a collector, for any number of collectors,       *)
(* starters, versions and faults.  A collector that has the lock is the    *)
(* only writer of the holder line and of collector.json (FoundInv), and a  *)
(* process that is about to be terminated as lockless never had the lock   *)
(* or is gone (SparedInv).                                                 *)
(***************************************************************************)
EXTENDS Collector, TLAPS

\* Before its first entry in collector.json, and in possession of the lock.
Early == {"starting", "locked", "cut", "named", "bound"}
Holding == {"locked", "cut", "named", "bound", "serving", "stopping", "leaving"}

\* What a collector has reached on its way up stays true until it ends.
FoundInv ==
    \A p \in Pids :
        /\ proc[p] \in Holding => holder = p
        /\ proc[p] \in {"named", "bound", "serving", "stopping", "leaving"} => line = p
        /\ proc[p] \in {"bound", "serving", "stopping", "leaving"} => port = p
        /\ proc[p] = "serving" => json = p

\* A pid in collector.json is past its start, and so is the one a starter has
\* taken from there; once the lock was seen to be free it never had it.
SparedInv ==
    /\ \A p \in Pids : json = p => proc[p] \notin Early
    /\ \A s \in Starters :
          /\ at[s] = "lockless" => target[s] \in Pids /\ proc[target[s]] \notin Early
          /\ at[s] = "term" => target[s] \in Pids /\ proc[target[s]] \in {"lockless", "free"}

IInv == TypeOK /\ FoundInv /\ SparedInv

-----------------------------------------------------------------------------
(* Types                                                                    *)

LEMMA TypeInit == Init => TypeOK
  <1> SUFFICES ASSUME Init PROVE TypeOK
    OBVIOUS
  <1>1. version \in [Pids -> Versions]
    BY DEF Init
  <1>2. kind \in [Starters -> Kinds]
    BY DEF Init
  <1>3. /\ proc \in [Pids -> Places] /\ at \in [Starters -> StarterPlaces]
        /\ target \in [Starters -> Pids \cup {None}]
    BY DEF Init, Places, StarterPlaces
  <1>4. /\ hung \subseteq Pids /\ asked \subseteq Pids /\ stamp \in BOOLEAN
        /\ holder \in Pids \cup {None} /\ line \in Pids \cup {None}
        /\ json \in Pids \cup {None} /\ port \in Pids \cup {None, Foreign}
    BY DEF Init
  <1>5. faults \in 0 .. MaxFaults
    BY CollectorAssumption DEF Init
  <1> QED BY <1>1, <1>2, <1>3, <1>4, <1>5 DEF TypeOK

LEMMA CollectorType == ASSUME TypeOK, NEW p \in Pids, CollectorStep(p) PROVE TypeOK'
  <1> USE DEF TypeOK, files, starters, Moves, Places
  <1>1. ASSUME Acquire(p) \/ CutLine(p) \/ WriteLine(p) \/ Bind(p) \/ Record(p)
               \/ Stops(p) \/ ClearPid(p)
        PROVE  TypeOK'
    BY <1>1 DEF Acquire, CutLine, WriteLine, Bind, Record, Stops, ClearPid
  <1>2. ASSUME Busy(p) \/ GivesWay(p) \/ PortTaken(p) \/ Leave(p) PROVE TypeOK'
    BY <1>2 DEF Busy, GivesWay, PortTaken, Leave, Ends
  <1> QED BY <1>1, <1>2 DEF CollectorStep

LEMMA FaultType == ASSUME TypeOK, Fault PROVE faults' \in 0 .. MaxFaults
  BY CollectorAssumption DEF TypeOK, Fault

LEMMA ProcessType ==
  ASSUME TypeOK, NEW p \in Pids,
         Crash(p) \/ Hang(p) \/ (\E v \in Versions : CollectByHand(p, v))
  PROVE  TypeOK'
  <1> USE FaultType DEF TypeOK, files, starters, Places
  <1>1. ASSUME Crash(p) PROVE TypeOK'
    BY <1>1 DEF Crash, Ends
  <1>2. ASSUME Hang(p) PROVE TypeOK'
    BY <1>2 DEF Hang
  <1>3. ASSUME NEW v \in Versions, CollectByHand(p, v) PROVE TypeOK'
    BY <1>3 DEF CollectByHand, Born
  <1> QED BY <1>1, <1>2, <1>3

LEMMA WorldType ==
  ASSUME TypeOK, ForeignTakesPort \/ ForeignLeaves \/ StampExpires
  PROVE  TypeOK'
  BY FaultType DEF TypeOK, ForeignTakesPort, ForeignLeaves, StampExpires, collectors, files,
                   starters

\* Starter s goes from one place to another.
LEMMA GoesType ==
  ASSUME TypeOK, NEW s \in Starters, NEW from, NEW to \in StarterPlaces,
         NEW q \in Pids \cup {None}, Goes(s, from, to, q)
  PROVE  /\ at' \in [Starters -> StarterPlaces]
         /\ target' \in [Starters -> Pids \cup {None}]
         /\ kind' \in [Starters -> Kinds]
  BY DEF TypeOK, Goes

LEMMA AfterStopType ==
  ASSUME TypeOK, NEW s \in Starters PROVE AfterStop(s) \in StarterPlaces
  <1>1. kind[s] \in {"session", "quick", "stop"}
    BY CollectorAssumption DEF TypeOK
  <1> QED BY <1>1 DEF AfterStop, StarterPlaces

LEMMA StarterType ==
  ASSUME TypeOK, NEW s \in Starters,
         StarterStep(s) \/ (\E k \in Kinds : Begin(s, k))
  PROVE  TypeOK'
  <1> DEFINE Gone == /\ at' \in [Starters -> StarterPlaces]
                     /\ target' \in [Starters -> Pids \cup {None}]
                     /\ kind' \in [Starters -> Kinds]
  <1> USE DEF TypeOK, Unseen, collectors, files
  <1>1. ASSUME \E k \in Kinds : Begin(s, k) PROVE TypeOK'
    BY <1>1 DEF Begin, StarterPlaces
  <1>2. ASSUME Look(s) PROVE TypeOK'
    <2>1. PICK to \in StarterPlaces : Goes(s, "look", to, None)
      BY <1>2 DEF Look, StarterPlaces
    <2>2. Gone
      BY <2>1, GoesType
    <2> QED BY <1>2, <2>2 DEF Look
  <1>3. ASSUME Probe(s) PROVE TypeOK'
    BY <1>3 DEF Probe, Goes, StarterPlaces
  <1>4. ASSUME StampFirst(s) \/ Stamp(s) PROVE TypeOK'
    BY <1>4 DEF StampFirst, Stamp, TakeStamp, Goes, StarterPlaces
  <1>5. ASSUME Stop(s) PROVE TypeOK'
    <2>1. PICK to \in StarterPlaces, q \in Pids \cup {None} : Goes(s, "stop", to, q)
      BY <1>5, AfterStopType DEF Stop, StarterPlaces
    <2>2. Gone
      BY <2>1, GoesType
    <2> QED BY <1>5, <2>2 DEF Stop
  <1>6. ASSUME Send(s) PROVE TypeOK'
    BY <1>6 DEF Send, Goes, StarterPlaces, Alive
  <1>7. ASSUME LockFrees(s) PROVE TypeOK'
    <2>1. PICK from : Goes(s, from, AfterStop(s), None)
      BY <1>7 DEF LockFrees
    <2>2. Gone
      BY <2>1, GoesType, AfterStopType
    <2> QED BY <1>7, <2>2 DEF LockFrees
  <1>8. ASSUME WaitEnds(s) \/ Check(s) \/ Retire(s) \/ Lockless(s) PROVE TypeOK'
    BY <1>8 DEF WaitEnds, Check, Retire, Lockless, Goes, StarterPlaces
  <1>9. ASSUME Kill(s) \/ Term(s) PROVE TypeOK'
    BY <1>9 DEF Kill, Term, Goes, Ends, StarterPlaces, Places
  <1>10. ASSUME Spawn(s) PROVE TypeOK'
    <2>1. VersionOf[s] \in Versions
      BY CollectorAssumption
    <2> QED BY <1>10, <2>1 DEF Spawn, Goes, Born, StarterPlaces, Places
  <1> QED BY <1>1, <1>2, <1>3, <1>4, <1>5, <1>6, <1>7, <1>8, <1>9, <1>10 DEF StarterStep

LEMMA TypeStep == TypeOK /\ [Next]_vars => TypeOK'
  <1> SUFFICES ASSUME TypeOK, [Next]_vars PROVE TypeOK'
    OBVIOUS
  <1>1. CASE UNCHANGED vars
    BY <1>1 DEF vars, TypeOK
  <1>2. CASE \E p \in Pids : CollectorStep(p)
    BY <1>2, CollectorType
  <1>3. CASE \E p \in Pids : \/ Crash(p) \/ Hang(p)
                             \/ \E v \in Versions : CollectByHand(p, v)
    BY <1>3, ProcessType
  <1>4. CASE ForeignTakesPort \/ ForeignLeaves \/ StampExpires
    BY <1>4, WorldType
  <1>5. CASE \E s \in Starters : StarterStep(s) \/ \E k \in Kinds : Begin(s, k)
    BY <1>5, StarterType
  <1> QED BY <1>1, <1>2, <1>3, <1>4, <1>5 DEF Next

\* Every part of the collectors' and the starters' state has its type.
THEOREM TypeCorrect == Spec => []TypeOK
  BY TypeInit, TypeStep, PTL DEF Spec

-----------------------------------------------------------------------------
(* The collector on its way up and down                                     *)

\* A process that ends takes nobody else's lock or port along.
LEMMA EndsFound ==
  ASSUME TypeOK, FoundInv, NEW p \in Pids, Ends(p), UNCHANGED files
  PROVE  FoundInv'
  BY DEF TypeOK, FoundInv, Ends, files, Holding

LEMMA CollectorFound ==
  ASSUME TypeOK, FoundInv, NEW p \in Pids, CollectorStep(p)
  PROVE  FoundInv'
  <1> USE CollectorAssumption DEF TypeOK, FoundInv, Holding, files, Moves
  <1>1. ASSUME Acquire(p) PROVE FoundInv'
    BY <1>1 DEF Acquire
  <1>2. ASSUME CutLine(p) \/ WriteLine(p) PROVE FoundInv'
    BY <1>2 DEF CutLine, WriteLine
  <1>3. ASSUME Bind(p) PROVE FoundInv'
    BY <1>3 DEF Bind
  <1>4. ASSUME Record(p) \/ ClearPid(p) PROVE FoundInv'
    BY <1>4 DEF Record, ClearPid
  <1>5. ASSUME Stops(p) PROVE FoundInv'
    BY <1>5 DEF Stops
  <1>6. ASSUME Busy(p) \/ GivesWay(p) \/ PortTaken(p) \/ Leave(p) PROVE FoundInv'
    BY <1>6, EndsFound DEF Busy, GivesWay, PortTaken, Leave
  <1> QED BY <1>1, <1>2, <1>3, <1>4, <1>5, <1>6 DEF CollectorStep

\* A process that is born holds nothing.
LEMMA BornFound ==
  ASSUME TypeOK, FoundInv, NEW p \in Pids, NEW v, Born(p, v),
         UNCHANGED <<holder, files, port>>
  PROVE  FoundInv'
  BY DEF TypeOK, FoundInv, Born, files, Holding

LEMMA WorldFound ==
  ASSUME TypeOK, FoundInv,
         \/ \E p \in Pids : Crash(p) \/ Hang(p) \/ \E v \in Versions : CollectByHand(p, v)
         \/ ForeignTakesPort \/ ForeignLeaves \/ StampExpires
  PROVE  FoundInv'
  <1>1. ASSUME NEW p \in Pids, Crash(p) PROVE FoundInv'
    BY <1>1, EndsFound DEF Crash
  <1>2. ASSUME NEW p \in Pids, NEW v \in Versions, CollectByHand(p, v) PROVE FoundInv'
    BY <1>2, BornFound DEF CollectByHand
  <1>3. ASSUME \/ \E p \in Pids : Hang(p)
               \/ ForeignTakesPort \/ ForeignLeaves \/ StampExpires
        PROVE  FoundInv'
    BY <1>3, CollectorAssumption
       DEF Hang, ForeignTakesPort, ForeignLeaves, StampExpires, FoundInv, collectors, files,
           Holding
  <1> QED BY <1>1, <1>2, <1>3

LEMMA StarterFound ==
  ASSUME TypeOK, FoundInv, NEW s \in Starters,
         StarterStep(s) \/ (\E k \in Kinds : Begin(s, k))
  PROVE  FoundInv'
  <1>1. ASSUME UNCHANGED <<proc, holder, files, port>> PROVE FoundInv'
    BY <1>1 DEF FoundInv, files
  <1>2. CASE \/ Look(s) \/ Probe(s) \/ StampFirst(s) \/ Stamp(s) \/ Stop(s) \/ LockFrees(s)
             \/ WaitEnds(s) \/ Check(s) \/ Retire(s) \/ Lockless(s)
             \/ \E k \in Kinds : Begin(s, k)
    BY <1>1, <1>2 DEF Look, Probe, StampFirst, Stamp, TakeStamp, Stop, LockFrees, WaitEnds,
                      Check, Retire, Lockless, Begin, Unseen, collectors
  <1>3. CASE Send(s)
    BY <1>1, <1>3 DEF Send
  <1>4. CASE Kill(s) \/ Term(s)
    <2>1. \/ target[s] \in Pids /\ Ends(target[s]) /\ UNCHANGED files
          \/ UNCHANGED <<proc, holder, files, port>>
      BY <1>4 DEF Kill, Term, Unseen, collectors, Alive
    <2> QED BY <1>1, <2>1, EndsFound
  <1>5. CASE Spawn(s)
    BY <1>5, BornFound DEF Spawn
  <1> QED BY <1>2, <1>3, <1>4, <1>5 DEF StarterStep

LEMMA FoundStep == ASSUME TypeOK, FoundInv, Next PROVE FoundInv'
  BY CollectorFound, WorldFound, StarterFound DEF Next

-----------------------------------------------------------------------------
(* The starter that terminates a collector without a lock                   *)

LEMMA CollectorSpares ==
  ASSUME TypeOK, SparedInv, NEW p \in Pids, CollectorStep(p)
  PROVE  SparedInv'
  <1> USE CollectorAssumption DEF TypeOK, SparedInv, Early, starters, files, Moves
  <1>1. ASSUME Acquire(p) \/ CutLine(p) \/ WriteLine(p) \/ Bind(p) PROVE SparedInv'
    BY <1>1 DEF Acquire, CutLine, WriteLine, Bind
  <1>2. ASSUME Record(p) \/ Stops(p) \/ ClearPid(p) PROVE SparedInv'
    BY <1>2 DEF Record, Stops, ClearPid
  <1>3. ASSUME Busy(p) \/ GivesWay(p) \/ PortTaken(p) \/ Leave(p) PROVE SparedInv'
    BY <1>3 DEF Busy, GivesWay, PortTaken, Leave, Ends
  <1> QED BY <1>1, <1>2, <1>3 DEF CollectorStep

LEMMA EndsSpares ==
  ASSUME TypeOK, SparedInv, NEW p \in Pids, Ends(p), UNCHANGED <<files, at, target>>
  PROVE  SparedInv'
  BY DEF TypeOK, SparedInv, Early, Ends, files

\* A pid that is used again is named nowhere.
LEMMA BornSpares ==
  ASSUME TypeOK, SparedInv, NEW p \in Pids, NEW v, Born(p, v), UNCHANGED <<files, at, target>>
  PROVE  SparedInv'
  BY DEF TypeOK, SparedInv, Early, Born, Fresh, files

LEMMA WorldSpares ==
  ASSUME TypeOK, SparedInv,
         \/ \E p \in Pids : Crash(p) \/ Hang(p) \/ \E v \in Versions : CollectByHand(p, v)
         \/ ForeignTakesPort \/ ForeignLeaves \/ StampExpires
  PROVE  SparedInv'
  <1>1. ASSUME NEW p \in Pids, Crash(p) PROVE SparedInv'
    BY <1>1, EndsSpares DEF Crash, starters
  <1>2. ASSUME NEW p \in Pids, NEW v \in Versions, CollectByHand(p, v) PROVE SparedInv'
    BY <1>2, BornSpares DEF CollectByHand, starters
  <1>3. ASSUME \/ \E p \in Pids : Hang(p)
               \/ ForeignTakesPort \/ ForeignLeaves \/ StampExpires
        PROVE  SparedInv'
    BY <1>3 DEF Hang, ForeignTakesPort, ForeignLeaves, StampExpires, SparedInv, collectors,
                files, starters
  <1> QED BY <1>1, <1>2, <1>3

\* A starter that goes anywhere but to retire_lockless().
LEMMA AwaySpares ==
  ASSUME TypeOK, SparedInv, NEW s \in Starters, NEW from, NEW to, NEW q,
         Goes(s, from, to, q), to \notin {"lockless", "term"}, UNCHANGED <<proc, files>>
  PROVE  SparedInv'
  BY DEF TypeOK, SparedInv, Goes, files

LEMMA StarterSpares ==
  ASSUME TypeOK, FoundInv, SparedInv, NEW s \in Starters,
         StarterStep(s) \/ (\E k \in Kinds : Begin(s, k))
  PROVE  SparedInv'
  <1> USE DEF TypeOK, Unseen, collectors, files
  <1>1. ASSUME \E k \in Kinds : Begin(s, k) PROVE SparedInv'
    BY <1>1 DEF Begin, SparedInv
  <1>2. ASSUME Look(s) PROVE SparedInv'
    <2>1. PICK to \in StarterPlaces \ {"lockless", "term"} : Goes(s, "look", to, None)
      BY <1>2 DEF Look, StarterPlaces
    <2> QED BY <1>2, <2>1, AwaySpares DEF Look
  <1>3. ASSUME Stop(s) PROVE SparedInv'
    <2>1. AfterStop(s) \in StarterPlaces \ {"lockless", "term"}
      BY CollectorAssumption DEF AfterStop, StarterPlaces
    <2>2. PICK to \in StarterPlaces \ {"lockless", "term"}, q \in Pids \cup {None} :
             Goes(s, "stop", to, q)
      BY <1>3, <2>1 DEF Stop, StarterPlaces
    <2> QED BY <1>3, <2>2, AwaySpares DEF Stop
  <1>4. ASSUME LockFrees(s) PROVE SparedInv'
    <2>1. AfterStop(s) \in StarterPlaces \ {"lockless", "term"}
      BY CollectorAssumption DEF AfterStop, StarterPlaces
    <2>2. PICK from : Goes(s, from, AfterStop(s), None)
      BY <1>4 DEF LockFrees
    <2> QED BY <1>4, <2>1, <2>2, AwaySpares DEF LockFrees
  <1>5. ASSUME Probe(s) \/ StampFirst(s) \/ Stamp(s) \/ WaitEnds(s) \/ Check(s) \/ Send(s)
        PROVE  SparedInv'
    BY <1>5 DEF Probe, StampFirst, Stamp, TakeStamp, WaitEnds, Check, Send, Goes, SparedInv
  <1>6. ASSUME Retire(s) PROVE SparedInv'
    BY <1>6 DEF Retire, Goes, SparedInv, Alive
  <1>7. ASSUME Lockless(s) PROVE SparedInv'
    BY <1>7, CollectorAssumption DEF Lockless, Goes, SparedInv, FoundInv, Holding, Early, Places
  <1>8. ASSUME Kill(s) \/ Term(s) PROVE SparedInv'
    BY <1>8 DEF Kill, Term, Goes, Ends, SparedInv, Early
  <1>9. ASSUME Spawn(s) PROVE SparedInv'
    BY <1>9 DEF Spawn, Goes, Born, Fresh, SparedInv, Early
  <1> QED BY <1>1, <1>2, <1>3, <1>4, <1>5, <1>6, <1>7, <1>8, <1>9 DEF StarterStep

LEMMA SparedStep == ASSUME TypeOK, FoundInv, SparedInv, Next PROVE SparedInv'
  BY CollectorSpares, WorldSpares, StarterSpares DEF Next

-----------------------------------------------------------------------------
LEMMA IInvInit == Init => IInv
  <1> SUFFICES ASSUME Init PROVE IInv
    OBVIOUS
  <1>1. FoundInv
    BY CollectorAssumption DEF Init, FoundInv, Holding
  <1>2. SparedInv
    BY DEF Init, SparedInv, Early
  <1> QED BY <1>1, <1>2, TypeInit DEF IInv

LEMMA IInvStep == IInv /\ [Next]_vars => IInv'
  <1>1. IInv /\ Next => IInv'
    BY TypeStep, FoundStep, SparedStep DEF IInv
  <1>2. IInv /\ UNCHANGED vars => IInv'
    BY TypeStep DEF IInv, FoundInv, SparedInv, vars
  <1> QED BY <1>1, <1>2

LEMMA Invariant == Spec => []IInv
  BY IInvInit, IInvStep, PTL DEF Spec

\* A collector that serves has the lock and the port, and both files name it:
\* from the exclusion of the lock, whoever starts, stops or crashes beside it
\* (collector.rs run_collect_with).
THEOREM ServingIsFound == Spec => []ServingIsRecorded
  <1>1. IInv => ServingIsRecorded
    BY DEF IInv, FoundInv, ServingIsRecorded, Holding
  <1> QED BY <1>1, Invariant, PTL

\* The SIGTERM of retire_lockless() meets a collector that knows no lock, or
\* nobody: a pid that was in collector.json while the lock was free cannot take
\* it any more (daemon.rs retire_lockless).
THEOREM HoldersAreSpared == Spec => TermSparesHolders
  <1>1. IInv /\ [Next]_vars
          => [\A s \in Starters :
                 at[s] = "term" /\ at'[s] # "term" => proc[target[s]] \in {"lockless", "free"}]_vars
    BY DEF IInv, SparedInv
  <1> QED BY <1>1, Invariant, PTL DEF Spec, TermSparesHolders
=============================================================================
