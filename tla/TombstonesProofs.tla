-------------------------- MODULE TombstonesProofs --------------------------
(***************************************************************************)
(* Why gc loses nothing, for any number of runs, paths, tombstones, kills, *)
(* failed calls and stolen locks, as long as no run is overtaken between   *)
(* its look at the token and the call it guards, and why one run at a time *)
(* records all it holds.  What each theorem needs is named below and in    *)
(* the theorem.                                                            *)
(*                                                                         *)
(* The argument rests on the token.  Every call that moves or removes data *)
(* asks for it first, and a run that has lost it never gets it back.  So   *)
(* what a run with the token has seen of the disk stays true but for its   *)
(* own steps and the programs'; that goes for what it found before it      *)
(* asked, too, while it still has the token when it makes the call         *)
(* (SureInv).  The index is another matter: a run that has lost its lock   *)
(* still appends to it.                                                    *)
(***************************************************************************)
EXTENDS Tombstones, FiniteSetTheorems, WellFoundedInduction, TLAPS

\* Only one process ever runs gc.
Alone == \E r \in Runs : Runs = {r}

\* No member of a group is on a mount that only its rename notices.
NoSurprise == N = 1 \/ \A l \in Layouts : l.hidden = {}

\* Every path is on the filesystem of the tombstones.
OneDisk == \A l \in Layouts : l.far = {} /\ l.hidden = {}

\* Nobody restores.
NoRestore == "restore" \notin Kinds

-----------------------------------------------------------------------------
(* Types and places                                                         *)

Versions == 0 .. MaxWrites + 1
States == Terminal \cup {"none", "pending", "copied", "done", "expiring", "restoring"}
Prints == [bytes : Nat, mtime : Versions]
Records == [state : States, mode : {"none", "rename", "copy"}, missing : SUBSET Members,
            print : Prints]
Thens == Terminal \cup {"none", "done"}
Fixes == [op : {"none", "record", "clean", "finish"}, rec : Records, then : Thens,
          away : SUBSET {"dest", "tmp"}, left : SUBSET Members]
Locals == [id : 0 .. MaxId, rec : Records, left : SUBSET Members, print : Prints,
           away : SUBSET {"dest", "tmp"}, then : Thens, back : {"none", "fix", "expiring"}]

\* A run is outside until it has written its token; then it reads and decides, it
\* moves the item, mends what a crash left, or restores.
Outside == {"off", "lock", "claim", "token"}
Deciding == {"survey", "fix", "stores", "prepare", "expire", "expiring", "compact",
             "restore", "release"}
Moving == {"rename", "copy", "staged", "placed", "remove", "done"}
Mending == {"clean", "finish", "record"}
Restoring == {"back", "uncopy", "restored"}
Places == Outside \cup Deciding \cup Moving \cup Mending \cup Restoring

TypeInv ==
    /\ src \in [Members -> Versions]
    /\ dest \in [Ids -> [Members -> Versions]] /\ tmp \in [Ids -> [Members -> Versions]]
    /\ index \in [Ids -> Records]
    /\ \A i \in Ids : index[i].state = "pending" => index[i].mode # "none"
    /\ old \cup past \subseteq Recorded /\ ripe \subseteq Ids
    /\ lock \in [dir : BOOLEAN, token : Runs \cup {NoRun, Gone}, stale : BOOLEAN]
    /\ lock.token # NoRun \/ lock.stale => lock.dir
    /\ at \in [Runs -> Places] /\ kind \in [Runs -> Kinds]
    /\ plan \in [Runs -> [Ids -> Fixes]] /\ cur \in [Runs -> Locals]
    /\ layout \in Layouts /\ version \in 1 .. MaxWrites + 1
    /\ live \subseteq Members \X Versions

\* What a run holds in its hands, by its place.
HandInv ==
    \A r \in Runs :
        /\ at[r] \in Moving \cup Mending \cup Restoring => cur[r].id \in Ids
        /\ at[r] \in Outside \cup (Deciding \ {"release"}) => cur[r] = Idle
        /\ Planned(r) # {} => at[r] \in Mending \cup {"fix", "expiring"}
        /\ \A i \in Planned(r) : i # cur[r].id /\ plan[r][i].op # "none"
        /\ at[r] = "finish" => cur[r].back = "fix"
        /\ at[r] \in Mending => cur[r].back \in {"fix", "expiring"}
        /\ lock.token = r => at[r] \notin Outside

-----------------------------------------------------------------------------
(* Moves                                                                    *)

Mover(r, i) == at[r] \in Moving /\ cur[r].id = i

PendingIn(mode, i) == index[i].state = "pending" /\ index[i].mode = mode

\* An id is moved by one run, and only that run writes its `pending` and `copied`.
MoverOf(r) ==
    LET i == cur[r].id
        rec == cur[r].rec
    IN  at[r] \in Moving =>
            /\ \A q \in Runs : Mover(q, i) => q = r
            /\ at[r] = "rename" =>
                  /\ rec.state = "pending" /\ rec.mode = "rename"
                  /\ cur[r].left \cap layout.far = {}
            /\ at[r] \in {"copy", "staged", "placed", "remove"} => rec.mode = "copy"
            /\ at[r] \in {"rename", "copy", "staged", "placed"} =>
                  /\ index[i].state # "copied"
                  /\ index[i].state = "pending" => index[i].mode = rec.mode
            /\ at[r] = "remove" => index[i].state # "pending"
            /\ at[r] = "done" => ~PendingIn("copy", i)

MoverInv == \A r \in Runs : MoverOf(r)

\* What run r is to do for id i, planned or under way.
Task(r, i) ==
    IF at[r] \in {"clean", "finish"} /\ cur[r].id = i
    THEN [op |-> at[r], rec |-> cur[r].rec, then |-> cur[r].then,
          away |-> cur[r].away, left |-> cur[r].left]
    ELSE plan[r][i]

\* Tombstone i is about to be removed as a copy whose sources are all there.
Drops(r, i) == Task(r, i).op = "clean" /\ Task(r, i).then = "dropped" /\ "dest" \in Task(r, i).away

Scrap(i) == PendingIn("copy", i) \/ \E r \in Runs : Verified(r) /\ Drops(r, i)

\* NothingLost without what is in tombstones that may be removed as copies.
SafeInv ==
    \A d \in live :
        src[d[1]] = d[2] \/ \E i \in Ids : dest[i][d[1]] = d[2] /\ ~Scrap(i)

\* The source has nothing that was written before `time` and is not in `copy`.
CopiedTo(copy, time) ==
    \A m \in Members : src[m] = 0 \/ src[m] = copy[m] \/ src[m] > time

\* Members ms of the source are in `copy`, or gone.
AllIn(copy, ms) == \A m \in ms : src[m] = 0 \/ src[m] = copy[m]

\* No version, and no fingerprint, is newer than the last write.
ClockInv ==
    /\ \A m \in Members : src[m] <= version
    /\ \A i \in Ids, m \in Members : dest[i][m] <= version /\ tmp[i][m] <= version
    /\ \A i \in Ids : index[i].print.mtime <= version
    /\ \A r \in Runs : cur[r].print.mtime <= version /\ cur[r].rec.print.mtime <= version
    /\ \A r \in Runs, i \in Ids : plan[r][i].rec.print.mtime <= version
    /\ \A d \in live : d[2] # 0

\* What a move goes by, ...
CopyOf(r) ==
    LET i == cur[r].id
    IN  /\ at[r] = "staged" /\ Verified(r) => CopiedTo(tmp[i], cur[r].print.mtime)
        /\ at[r] = "placed" => dest[i] = Nothing \/ CopiedTo(dest[i], cur[r].print.mtime)
        /\ at[r] \in {"placed", "remove"} /\ Verified(r) => AllIn(dest[i], cur[r].left)

\* ... and a repair of one.
CopiedId(i) ==
    index[i].state = "copied" => dest[i] = Nothing \/ CopiedTo(dest[i], index[i].print.mtime)

CopyInv == (\A r \in Runs : CopyOf(r)) /\ \A i \in Ids : CopiedId(i)

\* What a run found before it looked at its token, and still has it.
SureOf(r) ==
    LET i == cur[r].id
    IN  r \in sure /\ Verified(r) =>
            /\ at[r] \in {"rename", "finish"} => dest[i][Min(cur[r].left)] = 0
            /\ at[r] = "staged" => AllIn(tmp[i], cur[r].left)

SureInv == \A r \in Runs : SureOf(r)

\* What a run plans for a tombstone, or is doing with it.
TaskOf(r, i) ==
    LET f == Task(r, i)
    IN  /\ f.then = "expired" => i \in ripe
        /\ f.op = "clean" /\ "dest" \in f.away => f.then \in {"expired", "dropped", "restored"}
        /\ Verified(r) /\ f.op = "clean" =>
              /\ "dest" \in f.away /\ f.then = "restored" => dest[i] = Nothing
              /\ f.left # {} => index[i].state # "pending" /\ f.away = {}
              /\ AllIn(dest[i], f.left)
        /\ Verified(r) /\ f.op = "finish" =>
              /\ index[i].state # "copied" /\ ~PendingIn("copy", i)
              /\ \A q \in Runs : Mover(q, i) => at[q] \in {"rename", "done"}

\* An expiry plans nothing else.
ExpiryOf(r) ==
    at[r] = "expiring" \/ (at[r] \in Mending /\ cur[r].back = "expiring") =>
        \A i \in Planned(r) : plan[r][i].op = "clean" /\ plan[r][i].then = "expired"

TaskInv == \A r \in Runs : ExpiryOf(r) /\ \A i \in Ids : TaskOf(r, i)

ExpiringInv == \A i \in Ids : index[i].state = "expiring" => i \in ripe

\* Without restores.
NoRestoreInv ==
    \A r \in Runs :
        /\ at[r] \notin Restoring \cup {"restore"}
        /\ at[r] \in {"survey", "fix"} \/ cur[r].back = "fix" => kind[r] = "apply"

LossInv == SafeInv /\ ClockInv /\ CopyInv /\ TaskInv /\ ExpiringInv /\ MoverInv

-----------------------------------------------------------------------------
(* One run at a time                                                        *)

\* With one run and one filesystem nothing is copied, a tombstone holds nothing that
\* its record calls missing, ...
KeptId(i) ==
    /\ index[i].mode # "copy" /\ index[i].state # "copied"
    /\ \A m \in index[i].missing : dest[i][m] = 0

\* ... a restore overwrites nothing and leaves nothing, ...
KeptHand(r) ==
    LET i == cur[r].id
        rec == cur[r].rec
    IN  /\ at[r] \notin {"copy", "staged", "placed", "remove", "uncopy"} /\ rec.mode # "copy"
        /\ at[r] \in Moving \cup Mending \cup Restoring => \A m \in rec.missing : dest[i][m] = 0
        /\ at[r] \in {"rename", "finish"} =>
              cur[r].left \cap rec.missing = {} /\ index[i].missing = rec.missing
        /\ at[r] \in Restoring => Has(dest[i]) \subseteq cur[r].left
        /\ at[r] = "back" => \A m \in cur[r].left : src[m] = 0

\* ... and the run knows what is missing where.
KeptPlan(r) ==
    \A i \in Planned(r) :
        LET f == plan[r][i]
        IN  /\ f.rec.mode # "copy" /\ f.rec.missing = index[i].missing
            /\ f.left \cap f.rec.missing = {}

KeptInv == (\A i \in Ids : KeptId(i)) /\ \A r \in Runs : KeptHand(r) /\ KeptPlan(r)

\* The one run knows what the index says of what it works on, ...
HeldHand(r) ==
    LET i == cur[r].id
    IN  /\ at[r] \notin Outside => Verified(r)
        /\ at[r] \in {"rename", "copy", "staged", "finish"} => index[i].state = "pending"
        /\ at[r] = "rename" =>
              /\ cur[r].rec.state = "pending" /\ cur[r].left \cap layout.far = {}
              /\ cur[r].left \cap Far # {} => dest[i] = Nothing
        /\ at[r] \in {"copy", "staged", "restored"} => dest[i] = Nothing
        /\ at[r] = "finish" => cur[r].then = "done"
        /\ at[r] \in {"clean", "record"} /\ cur[r].then # "done" =>
              dest[i] = Nothing \/ (at[r] = "clean" /\ "dest" \in cur[r].away)

\* ... plans to remove a tombstone before it records that it is gone, ...
HeldPlan(r) ==
    \A i \in Planned(r) :
        LET f == plan[r][i]
        IN  /\ f.op = "finish" => f.then = "done" /\ index[i].state = "pending"
            /\ f.then # "done" => dest[i] = Nothing \/ (f.op = "clean" /\ "dest" \in f.away)

\* ... and so the index has a record of everything held.
HeldInv == HeldIsRecorded /\ \A r \in Runs : HeldHand(r) /\ HeldPlan(r)
-----------------------------------------------------------------------------
(* Numbers                                                                  *)

LEMMA LeastNumber ==
  ASSUME NEW S \in SUBSET Nat, S # {}
  PROVE  \E m \in S : \A n \in S : m <= n
  <1>1. PICK m \in S : \A n \in S : <<n, m>> \notin OpToRel(<, Nat)
    BY NatLessThanWellFounded, WFMin
  <1>2. ASSUME NEW n \in S PROVE m <= n
    <2>1. ~(n < m)
      BY <1>1 DEF OpToRel
    <2>2. m \in Nat /\ n \in Nat
      OBVIOUS
    <2> QED BY <2>1, <2>2
  <1> QED BY <1>2

\* Min() and Max() of FiniteSetsExt find what they look for.
LEMMA MinFound ==
  ASSUME NEW S \in SUBSET Nat, S # {}
  PROVE  Min(S) \in S
  BY LeastNumber DEF Min

\* ... and Max the greatest of a bounded one.
LEMMA MaxFound ==
  ASSUME NEW S \in SUBSET Nat, S # {}, NEW b \in Nat, \A n \in S : n <= b
  PROVE  Max(S) \in S /\ \A n \in S : n <= Max(S)
  <1> DEFINE Bounds == {c \in Nat : \A n \in S : n <= c}
  <1>1. PICK m \in Bounds : \A c \in Bounds : m <= c
    BY LeastNumber
  <1>2. ASSUME m \notin S PROVE FALSE
    <2>1. PICK n \in S : TRUE
      OBVIOUS
    <2>2. m - 1 \in Bounds
      BY <1>2, <2>1
    <2> QED BY <1>1, <2>2
  <1>3. \E x \in S : \A y \in S : x >= y
    BY <1>1, <1>2
  <1> QED BY <1>3 DEF Max

\* The constants as sets of numbers.
LEMMA Sizes ==
  /\ N \in Nat \ {0} /\ MaxId \in Nat \ {0} /\ MaxWrites \in Nat
  /\ Members \in SUBSET Nat /\ Ids \in SUBSET Nat /\ 0 \notin Ids
  BY TombstonesAssumption DEF Members, Ids

\* The member a step takes next is one that is left.
LEMMA LeftFound == \A ms \in SUBSET Members : ms # {} => Min(ms) \in ms
  BY Sizes, MinFound

\* The repair a run takes next is one it planned.
LEMMA PlanFound ==
  ASSUME NEW r \in Runs, Planned(r) # {}
  PROVE  Min(Planned(r)) \in Planned(r) /\ Min(Planned(r)) \in Ids
  BY Sizes, MinFound DEF Planned

\* The fingerprint of some members is at least as late as each of them.
LEMMA MeasureFound ==
  ASSUME TypeInv, NEW ms \in SUBSET Members
  PROVE  /\ Measure(ms) \in Prints
         /\ \A m \in ms : src[m] <= Measure(ms).mtime
         /\ (\A m \in Members : src[m] <= version) => Measure(ms).mtime <= version
  <1> DEFINE S == {0} \cup {src[m] : m \in ms}
  <1>1. S \in SUBSET Nat /\ S \subseteq Versions /\ \A n \in S : n <= MaxWrites + 1
    BY Sizes DEF TypeInv, Versions
  <1>2. Max(S) \in S /\ \A n \in S : n <= Max(S)
    <2>1. MaxWrites + 1 \in Nat /\ S # {}
      BY Sizes
    <2> HIDE DEF S
    <2> QED BY <1>1, <2>1, MaxFound
  <1>3. IsFiniteSet(ms \cap Has(src))
    <2>1. IsFiniteSet(Members)
      BY Sizes, FS_Interval DEF Members
    <2>2. ms \cap Has(src) \subseteq Members
      OBVIOUS
    <2> QED BY <2>1, <2>2, FS_Subset
  <1>4. Cardinality(ms \cap Has(src)) \in Nat
    BY <1>3, FS_CardinalityType
  <1>5. ASSUME \A m \in Members : src[m] <= version PROVE Max(S) <= version
    <2>1. version \in 1 .. MaxWrites + 1
      BY DEF TypeInv
    <2> QED BY <1>2, <1>5, <2>1, Sizes
  <1> QED BY <1>1, <1>2, <1>4, <1>5 DEF Measure, Prints

-----------------------------------------------------------------------------
(* One run's steps                                                          *)

\* A step of run r leaves the others where they are, with no token they had not.
OnlyRun(r) ==
    \A q \in Runs \ {r} :
        /\ at'[q] = at[q] /\ kind'[q] = kind[q] /\ plan'[q] = plan[q] /\ cur'[q] = cur[q]
        /\ Verified(q)' => Verified(q)

\* A step of one run leaves the hands of the others alone.
LEMMA StepOfOne ==
  ASSUME TypeInv, NEW r \in Runs, RunStep(r) \/ Crash(r) \/ \E k \in Kinds : Start(r, k)
  PROVE  OnlyRun(r)
  <1> USE DEF OnlyRun, TypeInv, Verified, mine, Goes, EndMove, FixEnds, Quit, Works, DoneWith,
              Touch, Takes
  <1>1. CASE LockStep(r)
    BY <1>1, TombstonesAssumption DEF LockStep, MakeLock, AlreadyRunning, FindStale, Claim, WriteToken, Release
  <1>2. CASE MoveStep(r)
    <2>1. CASE \/ Stores(r) \/ PrepareStops(r) \/ RenameMember(r)
               \/ RenameStops(r) \/ RenamesDone(r)
      BY <2>1 DEF Stores, PrepareStops, RenameMember, RenameStops, RenamesDone
    <2>2. CASE Prepare(r)
      BY <2>2 DEF Prepare
    <2>3. CASE SwitchToCopy(r)
      BY <2>3 DEF SwitchToCopy
    <2>4. CASE \/ Stage(r) \/ StageFails(r) \/ CopyDropped(r) \/ PlaceCopy(r) \/ PlaceFails(r)
      BY <2>4 DEF Stage, StageFails, CopyDropped, PlaceCopy, PlaceFails
    <2>5. CASE \/ MarkCopied(r) \/ RemoveSource(r) \/ CopyStops(r) \/ SourcesRemoved(r)
               \/ MarkDone(r)
      BY <2>5 DEF MarkCopied, RemoveSource, CopyStops, SourcesRemoved, MarkDone
    <2> QED BY <1>2, <2>1, <2>4, <2>5, <2>2, <2>3 DEF MoveStep
  <1>3. CASE FixStep(r)
    BY <1>3 DEF FixStep, Survey, TakeFix, ReconcileEnds, CleanDest, CleanTmp, CleanSource,
       CleanStops, CleanDone, FinishStops, FinishDone, RecordFix
  <1>4. CASE LaterStep(r)
    BY <1>4 DEF LaterStep, FindExpired, ExpireNext, ExpireEnds, Compact, CompactFails,
       BeginRestore, RestoreRefused, PutBack, Uncopy, RestoreStops, RestoreEnds, MarkRestored
  <1>5. CASE Crash(r)
    BY <1>5, TombstonesAssumption DEF Crash
  <1>6. CASE \E k \in Kinds : Start(r, k)
    BY <1>6 DEF Start
  <1> QED BY <1>1, <1>2, <1>3, <1>4, <1>5, <1>6 DEF RunStep

\* Nothing but what runs have seen of their tokens changes.
Still == UNCHANGED <<disk, journal, lock, mine, world>>

\* The steps of the system, with what each does beside.
LEMMA NextSteps ==
  ASSUME [Next]_vars
  PROVE  \/ \E r \in Runs : RunStep(r) \/ Crash(r) \/ \E k \in Kinds : Start(r, k)
         \/ \E m \in Members : Write(m) \/ Delete(m)
         \/ MinutesPass \/ DaysPass \/ Still
  BY DEF Next, Step, Verify, Still, vars

-----------------------------------------------------------------------------
(* Types                                                                    *)

LEMMA Values ==
  /\ NoPrint \in Prints /\ NoRecord \in Records /\ NoFix \in Fixes /\ Idle \in Locals
  /\ NoPlan \in [Ids -> Fixes] /\ Nothing \in [Members -> Versions]
  /\ \A rec \in Records, s \in States :
        WithState(rec, s) \in Records /\ WithState(rec, s).state = s
  BY Sizes DEF NoPrint, Prints, NoRecord, Records, NoFix, Fixes, Idle, Locals, NoPlan, Nothing,
     Versions, WithState, States, Terminal, Thens

\* Every repair that reconcile can state is a repair.
LEMMA FixValues ==
  ASSUME NEW rec \in Records
  PROVE  /\ \A then \in Thens : Mark(rec, then) \in Fixes
         /\ \A then \in Thens, away \in SUBSET {"dest", "tmp"}, ms \in SUBSET Members :
               Cleanup(rec, away, ms, then) \in Fixes
         /\ FinishRenames(rec) \in Fixes
  <1>1. Members \ rec.missing \in SUBSET Members
    OBVIOUS
  <1> QED BY <1>1 DEF Mark, Cleanup, FinishRenames, Fixes, Thens, Terminal

\* Diagnose, one state at a time.
LEMMA Diagnosed ==
  ASSUME TypeInv, NEW i \in Ids
  PROVE  LET rec == index[i]
             s == Has(src) # {}
             d == Has(dest[i]) # {}
         IN  /\ rec.state = "pending" => Diagnose(i) = DiagnosePending(i, rec, s, d)
             /\ rec.state = "copied" => Diagnose(i) = DiagnoseCopied(rec, s, d)
             /\ rec.state = "done" => Diagnose(i) = IF d THEN NoFix ELSE Mark(rec, "lost")
             /\ rec.state = "expiring" => Diagnose(i) = Cleanup(rec, {"dest"}, {}, "expired")
             /\ rec.state = "restoring" => Diagnose(i) = DiagnoseRestoring(rec, s, d)
             /\ rec.state \in Terminal \cup {"none"} => Diagnose(i) = NoFix
  BY DEF Diagnose, Terminal

\* What reconcile plans for an id is a repair.
LEMMA DiagnoseType ==
  ASSUME TypeInv, NEW i \in Ids
  PROVE  Diagnose(i) \in Fixes
  <1> DEFINE rec == index[i]
             s == Has(src) # {}
             d == Has(dest[i]) # {}
  <1>1. rec \in Records /\ NoFix \in Fixes
    BY Values DEF TypeInv
  <1>2. /\ \A then \in Thens : Mark(rec, then) \in Fixes
        /\ \A then \in Thens, away \in SUBSET {"dest", "tmp"}, ms \in SUBSET Members :
              Cleanup(rec, away, ms, then) \in Fixes
        /\ FinishRenames(rec) \in Fixes
    BY <1>1, FixValues
  <1>3. {"dropped", "done", "lost", "restored", "expired"} \subseteq Thens
    BY DEF Thens, Terminal
  <1>4. rec.state = "pending" => DiagnosePending(i, rec, s, d) \in Fixes
    <2>1. rec.state = "pending" => rec.mode \in {"rename", "copy"}
      BY <1>1 DEF TypeInv, Records
    <2> QED BY <2>1, <1>1, <1>2, <1>3 DEF DiagnosePending
  <1>5. DiagnoseCopied(rec, s, d) \in Fixes
    <2>1. FinishCopied(rec) \in Fixes
      BY <1>1, <1>2, <1>3 DEF FinishCopied, Has
    <2> QED BY <2>1, <1>1, <1>2, <1>3 DEF DiagnoseCopied
  <1>6. DiagnoseRestoring(rec, s, d) \in Fixes
    BY <1>1, <1>2, <1>3 DEF DiagnoseRestoring
  <1>7. rec.state \in Terminal \cup {"none", "pending", "copied", "done", "expiring", "restoring"}
    BY <1>1 DEF Records, States
  <1> QED BY <1>1, <1>2, <1>3, <1>4, <1>5, <1>6, <1>7, Diagnosed

\* The journal keeps its type.
JournalTypes ==
    /\ index \in [Ids -> Records]
    /\ \A i \in Ids : index[i].state = "pending" => index[i].mode # "none"
    /\ old \cup past \subseteq Recorded /\ ripe \subseteq Ids

\* A line appended to the index keeps the types of the journal.
LEMMA AppendTypes ==
  ASSUME TypeInv
  PROVE  \A i \in Ids, rec \in Records :
            Append(i, rec) /\ (rec.state = "pending" => rec.mode # "none") => JournalTypes'
  <1> SUFFICES ASSUME NEW i \in Ids, NEW rec \in Records, Append(i, rec),
                      rec.state = "pending" => rec.mode # "none"
               PROVE  JournalTypes'
    OBVIOUS
  <1>1. index' \in [Ids -> Records] /\ ripe' \subseteq Ids
    BY DEF TypeInv, Append
  <1>2. \A j \in Ids : index'[j] = IF j = i THEN rec ELSE index[j]
    BY DEF TypeInv, Append
  <1>3. old' \cup past' \subseteq Recorded'
    BY <1>2 DEF TypeInv, Append, Recorded
  <1> QED BY <1>1, <1>2, <1>3 DEF TypeInv, JournalTypes

\* What of the state is not the journal, part by part.
LockType ==
    /\ lock \in [dir : BOOLEAN, token : Runs \cup {NoRun, Gone}, stale : BOOLEAN]
    /\ lock.token # NoRun \/ lock.stale => lock.dir
DiskTypes ==
    /\ src \in [Members -> Versions]
    /\ dest \in [Ids -> [Members -> Versions]] /\ tmp \in [Ids -> [Members -> Versions]]
MineTypes ==
    /\ at \in [Runs -> Places] /\ kind \in [Runs -> Kinds]
    /\ plan \in [Runs -> [Ids -> Fixes]] /\ cur \in [Runs -> Locals]
WorldTypes ==
    /\ layout \in Layouts /\ version \in 1 .. MaxWrites + 1
    /\ live \subseteq Members \X Versions

\* TypeInv by the groups of variables that steps share.
LEMMA TypeParts ==
  TypeInv <=> DiskTypes /\ JournalTypes /\ LockType /\ MineTypes /\ WorldTypes
  BY DEF TypeInv, DiskTypes, JournalTypes, LockType, MineTypes, WorldTypes

\* Types: taking and freeing the lock, starts and kills.
LEMMA LockSteps ==
  ASSUME TypeInv, NEW r \in Runs, LockStep(r) \/ Crash(r) \/ \E k \in Kinds : Start(r, k)
  PROVE  TypeInv'
  <1>1. DiskTypes' /\ JournalTypes' /\ WorldTypes'
    BY TypeParts DEF LockStep, MakeLock, AlreadyRunning, FindStale, Claim, WriteToken, Release,
       Crash, Start, Quit, disk, journal, world, DiskTypes, JournalTypes, WorldTypes, Recorded
  <1>2. LockType'
    <2>1. lock \in [dir : BOOLEAN, token : Runs \cup {NoRun, Gone}, stale : BOOLEAN]
          /\ (lock.token # NoRun \/ lock.stale => lock.dir) /\ r # NoRun /\ Gone # NoRun
      BY TombstonesAssumption DEF TypeInv
    <2>2. CASE UNCHANGED lock
      BY <2>1, <2>2 DEF LockType
    <2>3. CASE lock' = [dir |-> FALSE, token |-> NoRun, stale |-> FALSE]
      BY <2>3 DEF LockType
    <2>4. CASE lock.dir /\ lock' = [dir |-> TRUE, token |-> r, stale |-> FALSE]
      BY <2>1, <2>4 DEF LockType
    <2>5. CASE lock' = [dir |-> TRUE, token |-> NoRun, stale |-> FALSE]
      BY <2>1, <2>5 DEF LockType
    <2>6. CASE lock.token = r /\ lock' = [lock EXCEPT !.token = Gone]
      BY <2>1, <2>6 DEF LockType
    <2> QED
      BY <2>2, <2>3, <2>4, <2>5, <2>6 DEF LockStep, MakeLock, AlreadyRunning, FindStale, Claim,
         WriteToken, Release, Crash, Start
  <1>3. MineTypes'
    BY TypeParts, Values DEF LockStep, MakeLock, AlreadyRunning, FindStale, Claim,
       WriteToken, Release, Crash, Start, Quit, Goes, MineTypes, Places, Outside, Deciding
  <1> QED BY <1>1, <1>2, <1>3 DEF TypeInv, DiskTypes, JournalTypes, LockType, MineTypes, WorldTypes

\* The disk after a member was moved, copied or removed.
LEMMA DiskEdits ==
  ASSUME TypeInv, NEW i \in 0 .. MaxId, NEW m \in Members, NEW v \in Versions,
         NEW w \in Versions
  PROVE  /\ [src EXCEPT ![m] = v] \in [Members -> Versions]
         /\ [dest EXCEPT ![i][m] = v] \in [Ids -> [Members -> Versions]]
         /\ [dest EXCEPT ![i] = Nothing] \in [Ids -> [Members -> Versions]]
         /\ [tmp EXCEPT ![i] = Nothing] \in [Ids -> [Members -> Versions]]
  <1>1. src \in [Members -> Versions] /\ dest \in [Ids -> [Members -> Versions]]
        /\ tmp \in [Ids -> [Members -> Versions]] /\ Nothing \in [Members -> Versions]
    BY Values DEF TypeInv
  <1>2. [dest EXCEPT ![i][m] = v] \in [Ids -> [Members -> Versions]]
    <2>1. \A j \in Ids : [dest[j] EXCEPT ![m] = v] \in [Members -> Versions]
      BY <1>1
    <2> QED BY <1>1, <2>1
  <1> QED BY <1>1, <1>2

\* Every local record keeps its type when it is begun or worked off.
LEMMA LocalEdits ==
  ASSUME TypeInv, NEW r \in Runs
  PROVE  /\ \A i \in 0 .. MaxId, rec \in Records, ms \in SUBSET Members :
               Works(r, i, rec, ms) => cur' \in [Runs -> Locals]
         /\ \A m \in Members : DoneWith(r, m) => cur' \in [Runs -> Locals]
  <1>1. cur \in [Runs -> Locals] /\ Idle \in Locals
    BY Values DEF TypeInv
  <1>2. \A i \in 0 .. MaxId, rec \in Records, ms \in SUBSET Members :
           [Idle EXCEPT !.id = i, !.rec = rec, !.left = ms] \in Locals
    BY <1>1 DEF Locals
  <1>3. \A m \in Members : [cur[r] EXCEPT !.left = @ \ {m}] \in Locals
    BY <1>1 DEF Locals
  <1>4. \A m \in Members :
           [cur EXCEPT ![r].left = @ \ {m}]
           = [cur EXCEPT ![r] = [cur[r] EXCEPT !.left = @ \ {m}]]
    BY <1>1
  <1>5. \A m \in Members : DoneWith(r, m) => cur' \in [Runs -> Locals]
    BY <1>1, <1>3, <1>4 DEF DoneWith
  <1>6. ASSUME NEW i \in 0 .. MaxId, NEW rec \in Records, NEW ms \in SUBSET Members,
               Works(r, i, rec, ms)
        PROVE  cur' \in [Runs -> Locals]
    <2> DEFINE l == [Idle EXCEPT !.id = i, !.rec = rec, !.left = ms]
    <2>1. cur' = [cur EXCEPT ![r] = l] /\ l \in Locals
      BY <1>2, <1>6 DEF Works
    <2> HIDE DEF l
    <2> QED BY <1>1, <2>1
  <1> QED BY <1>5, <1>6

\* Types: a move ends, well or not.
LEMMA EndMoveTypes ==
  ASSUME TypeInv, NEW r \in Runs, EndMove(r)
  PROVE  MineTypes' /\ LockType'
  BY Values DEF TypeInv, EndMove, Touch, MineTypes, LockType, Places, Deciding

\* What a run has in hand has its type.
LEMMA HandIds ==
  ASSUME TypeInv, NEW r \in Runs
  PROVE  cur[r] \in Locals /\ cur[r].id \in 0 .. MaxId /\ cur[r].rec \in Records
         /\ cur[r].left \in SUBSET Members
  BY DEF TypeInv, Locals

\* Types: the steps of a move.
LEMMA MoveTypes ==
  ASSUME TypeInv, HandInv, NEW r \in Runs, MoveStep(r)
  PROVE  TypeInv'
  <1> DEFINE i == cur[r].id
  <1>1. /\ DiskTypes /\ JournalTypes /\ LockType /\ MineTypes /\ WorldTypes
        /\ i \in 0 .. MaxId /\ cur[r] \in Locals /\ cur[r].rec \in Records
        /\ cur[r].left \in SUBSET Members
        /\ (at[r] \in Moving \cup Mending => i \in Ids)
    BY TypeParts, HandIds DEF HandInv
  <1>2. DiskTypes'
    <2>1. CASE UNCHANGED <<src, dest, tmp>>
      BY <1>1, <2>1 DEF DiskTypes
    <2>2. CASE RenameMember(r)
      <3>1. PICK m \in Members : \/ UNCHANGED <<src, dest>>
                                 \/ /\ src' = [src EXCEPT ![m] = 0]
                                    /\ dest' = [dest EXCEPT ![i][m] = src[m]]
        BY <1>1, <2>2, LeftFound DEF RenameMember
      <3>2. src[m] \in Versions /\ 0 \in Versions
        BY Sizes DEF TypeInv, Versions
      <3>3. /\ [src EXCEPT ![m] = 0] \in [Members -> Versions]
            /\ [dest EXCEPT ![i][m] = src[m]] \in [Ids -> [Members -> Versions]]
        BY <1>1, <3>2, DiskEdits
      <3> QED BY <1>1, <2>2, <3>1, <3>3 DEF RenameMember, DiskTypes
    <2>3. CASE Stage(r)
      <3>1. src \in [Members -> Versions] /\ tmp \in [Ids -> [Members -> Versions]]
        BY DEF TypeInv
      <3>2. tmp' \in [Ids -> [Members -> Versions]]
        BY <2>3, <3>1 DEF Stage
      <3> QED BY <1>1, <2>3, <3>2 DEF Stage, DiskTypes
    <2>4. CASE StageFails(r) \/ CopyDropped(r) \/ PlaceFails(r)
      <3>1. tmp' = tmp \/ tmp' = [tmp EXCEPT ![i] = Nothing]
        BY <2>4 DEF StageFails, CopyDropped, PlaceFails, Discard
      <3>2. UNCHANGED <<src, dest>>
        BY <2>4 DEF StageFails, CopyDropped, PlaceFails
      <3>3. tmp' \in [Ids -> [Members -> Versions]]
        BY <3>1, Values DEF TypeInv
      <3> QED BY <1>1, <3>2, <3>3 DEF DiskTypes
    <2>5. CASE PlaceCopy(r)
      <3>1. i \in Ids
        BY <1>1, <2>5 DEF PlaceCopy, Goes, Moving
      <3>2. tmp[i] \in [Members -> Versions]
        BY <3>1 DEF TypeInv
      <3> QED BY <1>1, <2>5, <3>1, <3>2, Values DEF PlaceCopy, DiskTypes
    <2>6. CASE RemoveSource(r)
      BY <1>1, <2>6, LeftFound, Sizes DEF RemoveSource, DiskTypes, Versions
    <2> QED BY <2>1, <2>2, <2>3, <2>4, <2>5, <2>6 DEF MoveStep, Stores, Prepare, PrepareStops,
               RenameStops, RenamesDone, SwitchToCopy, MarkCopied, CopyStops, SourcesRemoved,
               MarkDone, disk
  <1>3. JournalTypes'
    <2>1. CASE UNCHANGED <<index, old, past, ripe>>
      BY <1>1, <2>1 DEF JournalTypes, Recorded
    <2>2. CASE Prepare(r)
      <3>1. PICK j \in Ids, mode \in {"rename", "copy"} :
               Append(j, [state |-> "pending", mode |-> mode,
                          missing |-> Members \ Has(src), print |-> NoPrint])
        <4>1. at'[r] \in {"rename", "copy"}
          BY <2>2 DEF Prepare, Goes, TypeInv
        <4> QED BY <2>2, <4>1 DEF Prepare
      <3>2. [state |-> "pending", mode |-> mode, missing |-> Members \ Has(src),
             print |-> NoPrint] \in Records
        BY Values DEF Records, States
      <3> QED BY <3>1, <3>2, AppendTypes
    <2>3. CASE SwitchToCopy(r)
      <3>1. /\ index' = [index EXCEPT ![i] = [cur[r].rec EXCEPT !.mode = "copy"]]
            /\ UNCHANGED <<old, past, ripe>> /\ i \in Ids
        BY <1>1, <2>3 DEF SwitchToCopy, Goes, Moving
      <3>2. [cur[r].rec EXCEPT !.mode = "copy"] \in Records
        BY <1>1 DEF Records
      <3>3. index' \in [Ids -> Records]
        BY <1>1, <3>1, <3>2 DEF JournalTypes
      <3>4. \A j \in Ids : index'[j] = IF j = i THEN [cur[r].rec EXCEPT !.mode = "copy"]
                                       ELSE index[j]
        BY <1>1, <3>1 DEF JournalTypes
      <3>5. [cur[r].rec EXCEPT !.mode = "copy"].mode = "copy"
        BY <1>1 DEF Records
      <3>6. old' \cup past' \subseteq Recorded'
        <4>1. index'[i] # NoRecord
          BY <3>1, <3>4, <3>5 DEF NoRecord
        <4> QED BY <1>1, <3>1, <3>4, <4>1 DEF JournalTypes, Recorded
      <3> QED BY <1>1, <3>1, <3>3, <3>4, <3>5, <3>6 DEF JournalTypes
    <2>4. CASE CopyDropped(r)
      BY <1>1, <2>4, Values, AppendTypes, <2>1
         DEF CopyDropped, journal, Moving, States, Terminal
    <2>5. CASE MarkCopied(r)
      <3>1. [WithState(cur[r].rec, "copied") EXCEPT !.print = cur[r].print] \in Records
        BY <1>1 DEF WithState, Records, Locals, States
      <3>2. [WithState(cur[r].rec, "copied") EXCEPT !.print = cur[r].print].state = "copied"
        BY <1>1 DEF WithState, Records
      <3> QED BY <1>1, <2>5, <3>1, <3>2, AppendTypes DEF MarkCopied, Goes, Moving
    <2>6. CASE MarkDone(r)
      BY <1>1, <2>6, Values, AppendTypes, <2>1 DEF MarkDone, journal, Moving, States, Terminal
    <2> QED BY <2>1, <2>2, <2>3, <2>4, <2>5, <2>6 DEF MoveStep, Stores, PrepareStops,
               RenameMember, RenameStops, RenamesDone, Stage, StageFails, PlaceCopy, PlaceFails,
               RemoveSource, CopyStops, SourcesRemoved, journal
  <1>4. LockType'
    <2>1. EndMove(r) => LockType'
      BY EndMoveTypes
    <2> QED BY <1>1, <2>1 DEF MoveStep, Stores, Prepare, PrepareStops, RenameMember, RenameStops,
               RenamesDone, SwitchToCopy, Stage, StageFails, CopyDropped, PlaceCopy, PlaceFails,
               MarkCopied, RemoveSource, CopyStops, SourcesRemoved, MarkDone, LockType
  <1>5. MineTypes'
    <2>1. EndMove(r) => MineTypes'
      BY EndMoveTypes
    <2>2. CASE Prepare(r)
      <3>1. at' \in [Runs -> Places] /\ UNCHANGED <<kind, plan>>
        BY <1>1, <2>2 DEF Prepare, Goes, MineTypes, Places, Moving
      <3>2. PICK j \in Ids, mode \in {"rename", "copy"} :
               Works(r, j, [state |-> "pending", mode |-> mode,
                            missing |-> Members \ Has(src), print |-> NoPrint], Has(src))
        <4>1. at'[r] \in {"rename", "copy"}
          BY <2>2 DEF Prepare, Goes, TypeInv
        <4> QED BY <2>2, <4>1 DEF Prepare
      <3>3. [state |-> "pending", mode |-> mode, missing |-> Members \ Has(src),
             print |-> NoPrint] \in Records /\ Has(src) \in SUBSET Members /\ j \in 0 .. MaxId
        BY Values DEF Records, States, Has, Ids
      <3>4. cur' \in [Runs -> Locals]
        BY <3>2, <3>3, LocalEdits
      <3> QED BY <1>1, <3>1, <3>4 DEF MineTypes
    <2>3. CASE SwitchToCopy(r)
      <3>1. [cur[r].rec EXCEPT !.mode = "copy"] \in Records
        BY <1>1 DEF Records
      <3>2. cur' \in [Runs -> Locals]
        BY <1>1, <2>3, <3>1, LocalEdits DEF SwitchToCopy
      <3> QED BY <1>1, <2>3, <3>2 DEF SwitchToCopy, Goes, MineTypes, Places, Moving
    <2>4. CASE Stage(r)
      <3>1. Has(src) \in SUBSET Members
        BY DEF Has
      <3>2. Measure(Has(src)) \in Prints
        BY <3>1, MeasureFound
      <3>3. cur' \in [Runs -> Locals]
        BY <1>1, <2>4, <3>1, <3>2 DEF Stage, MineTypes, Locals
      <3> QED BY <1>1, <2>4, <3>3 DEF Stage, Goes, MineTypes, Places, Moving
    <2>5. CASE RenameMember(r) \/ RemoveSource(r)
      <3>1. PICK m \in Members : DoneWith(r, m)
        BY <1>1, <2>5, LeftFound DEF RenameMember, RemoveSource
      <3>2. cur' \in [Runs -> Locals]
        BY <3>1, LocalEdits
      <3> QED BY <1>1, <2>5, <3>2 DEF RenameMember, RemoveSource, MineTypes
    <2>6. CASE \/ Stores(r) \/ RenamesDone(r) \/ PlaceCopy(r) \/ MarkCopied(r)
               \/ SourcesRemoved(r)
      BY <1>1, <2>6 DEF Stores, RenamesDone, PlaceCopy, MarkCopied, SourcesRemoved, Goes,
         MineTypes, Places, Moving, Deciding
    <2> QED BY <2>1, <2>2, <2>3, <2>4, <2>5, <2>6 DEF MoveStep, PrepareStops, RenameStops,
               StageFails, CopyDropped, PlaceFails, CopyStops, MarkDone
  <1>6. WorldTypes'
    BY <1>1 DEF MoveStep, Stores, Prepare, PrepareStops, RenameMember, RenameStops,
       RenamesDone, SwitchToCopy, Stage, StageFails, CopyDropped, PlaceCopy, PlaceFails,
       MarkCopied, RemoveSource, CopyStops, SourcesRemoved, MarkDone, world, WorldTypes
  <1> QED BY <1>2, <1>3, <1>4, <1>5, <1>6
          DEF TypeInv, DiskTypes, JournalTypes, LockType, MineTypes, WorldTypes

\* The lock and the journal after a fix was recorded.
LEMMA TouchType == ASSUME TypeInv, Touch PROVE LockType'
  BY DEF TypeInv, Touch, LockType

\* Types: a repair ends and the next one is due.
LEMMA FixEndsTypes ==
  ASSUME TypeInv, HandInv, NEW r \in Runs, FixEnds(r), at[r] \in Mending
  PROVE  MineTypes'
  BY Values DEF TypeInv, HandInv, FixEnds, MineTypes, Places, Deciding

\* A run that turns to a fix takes over what was planned.
LEMMA TakesTypes ==
  ASSUME TypeInv, NEW r \in Runs, NEW i \in Ids, NEW back \in {"fix", "expiring"},
         Takes(r, i, back)
  PROVE  plan' \in [Runs -> [Ids -> Fixes]] /\ cur' \in [Runs -> Locals]
  <1> DEFINE f == plan[r][i]
             l == [id |-> i, rec |-> f.rec, left |-> f.left, print |-> NoPrint,
                   away |-> f.away, then |-> f.then, back |-> back]
  <1>1. /\ plan \in [Runs -> [Ids -> Fixes]] /\ cur \in [Runs -> Locals]
        /\ f \in Fixes /\ i \in 0 .. MaxId /\ NoFix \in Fixes /\ NoPrint \in Prints
    <2>1. plan \in [Runs -> [Ids -> Fixes]] /\ cur \in [Runs -> Locals]
      BY DEF TypeInv
    <2>2. i \in 0 .. MaxId
      BY Sizes DEF Ids
    <2>3. f \in Fixes
      BY <2>1
    <2> QED BY <2>1, <2>2, <2>3, Values
  <1>2. l \in Locals
    BY <1>1 DEF Locals, Fixes
  <1>3. plan' = [plan EXCEPT ![r][i] = NoFix] /\ cur' = [cur EXCEPT ![r] = l]
    BY DEF Takes
  <1>4. plan' = [plan EXCEPT ![r] = [plan[r] EXCEPT ![i] = NoFix]]
    BY <1>1, <1>3
  <1>5. [plan[r] EXCEPT ![i] = NoFix] \in [Ids -> Fixes]
    BY <1>1
  <1> HIDE DEF l, f
  <1> QED BY <1>1, <1>2, <1>3, <1>4, <1>5

\* Types: reconcile and its repairs.
LEMMA FixTypes ==
  ASSUME TypeInv, HandInv, NEW r \in Runs, FixStep(r)
  PROVE  TypeInv'
  <1> DEFINE i == cur[r].id
  <1>1. /\ DiskTypes /\ JournalTypes /\ LockType /\ MineTypes /\ WorldTypes
        /\ i \in 0 .. MaxId /\ cur[r] \in Locals /\ cur[r].rec \in Records
        /\ cur[r].left \in SUBSET Members
        /\ (at[r] \in Moving \cup Mending => i \in Ids)
    BY TypeParts, HandIds DEF HandInv
  <1>2. DiskTypes'
    <2>1. CASE UNCHANGED <<src, dest, tmp>>
      BY <1>1, <2>1 DEF DiskTypes
    <2>2. CASE CleanDest(r) \/ CleanTmp(r)
      BY <1>1, <2>2, Values DEF CleanDest, CleanTmp, DiskTypes
    <2>3. CASE CleanSource(r)
      BY <1>1, <2>3, LeftFound, Sizes DEF CleanSource, DiskTypes, Versions
    <2> QED BY <2>1, <2>2, <2>3 DEF FixStep, Survey, TakeFix, ReconcileEnds, CleanStops,
               CleanDone, FinishStops, FinishDone, RecordFix, disk
  <1>3. JournalTypes'
    <2>1. CASE UNCHANGED <<index, old, past, ripe>>
      BY <1>1, <2>1 DEF JournalTypes, Recorded
    <2>2. CASE RecordFix(r)
      <3>1. cur[r].then \in States /\ cur[r].then # "pending"
        BY <1>1 DEF Locals, Thens, States, Terminal
      <3>2. WithState(cur[r].rec, cur[r].then) \in Records
            /\ WithState(cur[r].rec, cur[r].then).state # "pending"
        BY <1>1, <3>1, Values
      <3> QED BY <1>1, <2>1, <2>2, <3>2, AppendTypes DEF RecordFix, Mending, journal
    <2> QED BY <2>1, <2>2 DEF FixStep, Survey, TakeFix, ReconcileEnds, CleanDest, CleanTmp,
               CleanSource, CleanStops, CleanDone, FinishStops, FinishDone, journal
  <1>4. LockType'
    BY <1>1, TouchType DEF FixStep, Survey, TakeFix, ReconcileEnds, CleanDest, CleanTmp,
       CleanSource, CleanStops, CleanDone, FinishStops, FinishDone, RecordFix, LockType
  <1>5. MineTypes'
    <2>1. CASE Survey(r)
      <3>1. [j \in Ids |-> Diagnose(j)] \in [Ids -> Fixes]
        BY DiagnoseType
      <3>2. plan' \in [Runs -> [Ids -> Fixes]]
        BY <1>1, <2>1, <3>1 DEF Survey, MineTypes
      <3> QED BY <1>1, <2>1, <3>2 DEF Survey, Goes, MineTypes, Places, Deciding
    <2>2. CASE TakeFix(r)
      <3>1. Min(Planned(r)) \in Ids /\ plan[r][Min(Planned(r))] # NoFix
        BY <2>2, PlanFound DEF TakeFix, Planned
      <3>2. plan[r][Min(Planned(r))] \in Fixes
        BY <3>1 DEF TypeInv
      <3>3. Min(Planned(r)) \in Planned(r)
        BY <2>2, PlanFound DEF TakeFix
      <3>4. plan[r][Min(Planned(r))].op \in {"record", "clean", "finish"}
        BY <3>2, <3>3 DEF Fixes, HandInv
      <3>5. plan' \in [Runs -> [Ids -> Fixes]] /\ cur' \in [Runs -> Locals]
        BY <2>2, <3>1, TakesTypes DEF TakeFix
      <3>6. at' \in [Runs -> Places]
        BY <1>1, <2>2, <3>4 DEF TakeFix, MineTypes, Places, Mending
      <3> QED BY <1>1, <2>2, <3>5, <3>6 DEF TakeFix, MineTypes
    <2>3. CASE CleanDest(r) \/ CleanTmp(r) \/ CleanSource(r)
      <3>1. cur' \in [Runs -> Locals]
        <4>1. CASE CleanSource(r)
          <5>1. PICK m \in Members : DoneWith(r, m)
            BY <1>1, <4>1, LeftFound DEF CleanSource
          <5> QED BY <5>1, LocalEdits
        <4>2. CASE CleanDest(r) \/ CleanTmp(r)
          <5>1. PICK gone \in SUBSET {"dest", "tmp"} : cur' = [cur EXCEPT ![r].away = gone]
            BY <1>1, <4>2 DEF CleanDest, CleanTmp, Locals
          <5>2. [cur[r] EXCEPT !.away = gone] \in Locals
            BY <1>1 DEF Locals
          <5> QED BY <1>1, <5>1, <5>2 DEF MineTypes
        <4> QED BY <2>3, <4>1, <4>2
      <3> QED BY <1>1, <2>3, <3>1 DEF CleanDest, CleanTmp, CleanSource, MineTypes
    <2>4. CASE CleanStops(r) \/ FinishStops(r) \/ RecordFix(r)
      BY <2>4, FixEndsTypes DEF CleanStops, FinishStops, RecordFix, Mending
    <2>5. CASE FinishDone(r)
      <3>1. Members \ (Has(src) \cup Has(dest[i])) \in SUBSET Members
        OBVIOUS
      <3>2. cur' \in [Runs -> Locals]
        BY <1>1, <2>5, <3>1 DEF FinishDone, MineTypes, Locals, Records
      <3> QED BY <1>1, <2>5, <3>2 DEF FinishDone, Goes, MineTypes, Places, Mending
    <2>6. CASE ReconcileEnds(r) \/ CleanDone(r)
      BY <1>1, <2>6 DEF ReconcileEnds, CleanDone, Goes, MineTypes, Places, Mending, Deciding
    <2> QED BY <2>1, <2>2, <2>3, <2>4, <2>5, <2>6 DEF FixStep
  <1>6. WorldTypes'
    BY <1>1 DEF FixStep, Survey, TakeFix, ReconcileEnds, CleanDest, CleanTmp, Forgets,
       CleanSource, CleanStops, CleanDone, FinishStops, FinishDone, RecordFix, world, WorldTypes
  <1> QED BY <1>2, <1>3, <1>4, <1>5, <1>6
          DEF TypeInv, DiskTypes, JournalTypes, LockType, MineTypes, WorldTypes

\* Types: expiry, compaction and restore.
LEMMA LaterTypes ==
  ASSUME TypeInv, HandInv, NEW r \in Runs, LaterStep(r)
  PROVE  TypeInv'
  <1> DEFINE i == cur[r].id
  <1>1. /\ DiskTypes /\ JournalTypes /\ LockType /\ MineTypes /\ WorldTypes
        /\ i \in 0 .. MaxId /\ cur[r] \in Locals /\ cur[r].rec \in Records
        /\ cur[r].left \in SUBSET Members
        /\ (at[r] \in Restoring => i \in Ids)
    BY TypeParts, HandIds DEF HandInv
  <1>2. DiskTypes'
    <2>1. CASE UNCHANGED <<src, dest, tmp>>
      BY <1>1, <2>1 DEF DiskTypes
    <2>2. CASE PutBack(r)
      <3>1. Min(cur[r].left) \in Members /\ i \in Ids
        BY <1>1, <2>2, LeftFound DEF PutBack, Restoring
      <3>2. dest[i][Min(cur[r].left)] \in Versions /\ 0 \in Versions
        <4>1. dest[i] \in [Members -> Versions]
          BY <3>1 DEF TypeInv
        <4>2. 0 \in Versions
          BY Sizes DEF Versions
        <4> QED BY <3>1, <4>1, <4>2
      <3>3. /\ [src EXCEPT ![Min(cur[r].left)] = dest[i][Min(cur[r].left)]]
               \in [Members -> Versions]
            /\ [dest EXCEPT ![i][Min(cur[r].left)] = 0] \in [Ids -> [Members -> Versions]]
        BY <1>1, <3>1, <3>2, DiskEdits
      <3> QED BY <1>1, <2>2, <3>3 DEF PutBack, DiskTypes
    <2>3. CASE Uncopy(r)
      <3>1. dest' \in [Ids -> [Members -> Versions]]
        <4>1. 0 \in Versions
          BY Sizes DEF Versions
        <4>2. \A m : [dest EXCEPT ![i][m] = 0] \in [Ids -> [Members -> Versions]]
          BY <1>1, <4>1 DEF DiskTypes
        <4> QED BY <2>3, <4>2 DEF Uncopy
      <3> QED BY <1>1, <2>3, <3>1 DEF Uncopy, DiskTypes
    <2>4. CASE RestoreEnds(r)
      BY <1>1, <2>4, Values DEF RestoreEnds, DiskTypes
    <2> QED BY <2>1, <2>2, <2>3, <2>4 DEF LaterStep, FindExpired, ExpireNext, ExpireEnds,
               Compact, CompactFails, BeginRestore, RestoreRefused, RestoreStops, MarkRestored, disk
  <1>3. JournalTypes'
    <2>1. CASE UNCHANGED <<index, old, past, ripe>>
      BY <1>1, <2>1 DEF JournalTypes, Recorded
    <2>2. CASE ExpireNext(r)
      <3>1. Min(Planned(r)) \in Ids
        BY <2>2, PlanFound DEF ExpireNext
      <3>2. plan[r][Min(Planned(r))].rec \in Records
        BY <3>1 DEF TypeInv, Fixes
      <3>3. "expiring" \in States
        BY DEF States
      <3> QED BY <2>2, <3>1, <3>2, <3>3, Values, AppendTypes DEF ExpireNext
    <2>3. CASE Compact(r)
      <3>1. NoRecord \in Records /\ NoRecord.state # "pending"
        BY Values DEF NoRecord
      <3>2. \A j \in Ids : index[j] \in Records
        BY DEF TypeInv
      <3>3. index' \in [Ids -> Records]
        BY <2>3, <3>1, <3>2 DEF Compact
      <3>4. \A j \in Ids : index[j].state = "pending" => index[j].mode # "none"
        BY DEF TypeInv
      <3>5. \A j \in Ids : index'[j].state = "pending" => index'[j].mode # "none"
        BY <2>3, <3>1, <3>4 DEF Compact
      <3>6. old' \cup past' \subseteq Recorded'
        BY <2>3 DEF Compact, Recorded, TypeInv
      <3>7. ripe' \subseteq Ids
        BY <2>3 DEF Compact, TypeInv
      <3> QED BY <3>3, <3>5, <3>6, <3>7 DEF JournalTypes
    <2>4. CASE BeginRestore(r)
      <3>1. PICK j \in Ids : Append(j, WithState(index[j], "restoring"))
        BY <2>4 DEF BeginRestore
      <3>2. index[j] \in Records /\ "restoring" \in States
        BY DEF TypeInv, States
      <3> QED BY <3>1, <3>2, Values, AppendTypes
    <2>5. CASE MarkRestored(r)
      <3>1. "restored" \in States
        BY DEF States, Terminal
      <3> QED BY <1>1, <2>1, <2>5, <3>1, Values, AppendTypes
              DEF MarkRestored, Goes, Restoring, journal
    <2> QED BY <2>1, <2>2, <2>3, <2>4, <2>5 DEF LaterStep, FindExpired, ExpireEnds,
               CompactFails, RestoreRefused, PutBack, Uncopy, RestoreStops, RestoreEnds, journal
  <1>4. LockType'
    BY <1>1 DEF LaterStep, FindExpired, ExpireNext, ExpireEnds, Compact, CompactFails,
       BeginRestore, RestoreRefused, PutBack, Uncopy, RestoreStops, RestoreEnds, MarkRestored,
       LockType
  <1>5. MineTypes'
    <2>1. CASE FindExpired(r)
      <3>1. ASSUME NEW j \in Ids
            PROVE  (IF Expirable(j) THEN Cleanup(index[j], {"dest"}, {}, "expired") ELSE NoFix)
                   \in Fixes
        <4>1. index[j] \in Records /\ "expired" \in Thens /\ NoFix \in Fixes
          BY Values DEF TypeInv, Thens, Terminal
        <4> QED BY <4>1, FixValues
      <3>2. plan' \in [Runs -> [Ids -> Fixes]]
        BY <1>1, <2>1, <3>1 DEF FindExpired, MineTypes
      <3> QED BY <1>1, <2>1, <3>2 DEF FindExpired, Goes, MineTypes, Places, Deciding
    <2>2. CASE ExpireNext(r)
      <3>1. Min(Planned(r)) \in Ids
        BY <2>2, PlanFound DEF ExpireNext
      <3>2. plan' \in [Runs -> [Ids -> Fixes]] /\ cur' \in [Runs -> Locals]
        BY <2>2, <3>1, TakesTypes DEF ExpireNext
      <3> QED BY <1>1, <2>2, <3>2 DEF ExpireNext, Goes, MineTypes, Places, Mending
    <2>3. CASE BeginRestore(r)
      <3>1. PICK j \in Ids : Works(r, j, index[j], Members \ index[j].missing)
        BY <2>3 DEF BeginRestore
      <3>2. index[j] \in Records /\ j \in 0 .. MaxId
            /\ Members \ index[j].missing \in SUBSET Members
        BY Sizes DEF TypeInv, Ids
      <3>3. cur' \in [Runs -> Locals]
        BY <3>1, <3>2, LocalEdits
      <3> QED BY <1>1, <2>3, <3>3 DEF BeginRestore, Goes, MineTypes, Places, Restoring
    <2>4. CASE PutBack(r)
      <3>1. Min(cur[r].left) \in Members
        BY <1>1, <2>4, LeftFound DEF PutBack
      <3>2. cur' \in [Runs -> Locals]
        BY <1>1, <2>4, <3>1, LocalEdits DEF PutBack, MineTypes
      <3>3. at' \in [Runs -> Places]
        BY <1>1, <2>4 DEF PutBack, MineTypes, Places, Restoring
      <3> QED BY <1>1, <2>4, <3>2, <3>3 DEF PutBack, MineTypes
    <2>5. CASE Uncopy(r)
      <3>1. cur' \in [Runs -> Locals]
        <4>1. \A m : [cur[r] EXCEPT !.left = @ \ {m}] \in Locals
          BY <1>1 DEF Locals
        <4>2. PICK m : cur' = [cur EXCEPT ![r] = [cur[r] EXCEPT !.left = @ \ {m}]]
          BY <1>1, <2>5 DEF Uncopy, DoneWith, MineTypes
        <4> QED BY <1>1, <4>1, <4>2 DEF MineTypes
      <3> QED BY <1>1, <2>5, <3>1 DEF Uncopy, Goes, MineTypes, Places, Restoring
    <2>6. CASE ExpireEnds(r)
      BY <1>1, <2>6, Values DEF ExpireEnds, Goes, MineTypes, Places, Deciding
    <2>7. CASE \/ Compact(r) \/ CompactFails(r) \/ RestoreRefused(r) \/ RestoreStops(r)
               \/ RestoreEnds(r) \/ MarkRestored(r)
      BY <1>1, <2>7 DEF Compact, CompactFails, RestoreRefused, RestoreStops, RestoreEnds,
         MarkRestored, Goes, MineTypes, Places, Restoring, Deciding
    <2> QED BY <2>1, <2>2, <2>3, <2>4, <2>5, <2>6, <2>7 DEF LaterStep
  <1>6. WorldTypes'
    BY <1>1 DEF LaterStep, FindExpired, ExpireNext, ExpireEnds, Compact, CompactFails,
       BeginRestore, RestoreRefused, PutBack, Uncopy, RestoreStops, RestoreEnds, MarkRestored,
       world, WorldTypes
  <1> QED BY <1>2, <1>3, <1>4, <1>5, <1>6
          DEF TypeInv, DiskTypes, JournalTypes, LockType, MineTypes, WorldTypes

\* Types: the programs and the clock.
LEMMA OutsideTypes ==
  ASSUME TypeInv, \/ \E m \in Members : Write(m) \/ Delete(m)
                  \/ MinutesPass \/ DaysPass \/ Still
  PROVE  TypeInv'
  <1>1. ASSUME NEW m \in Members, Write(m) PROVE TypeInv'
    <2>1. version + 1 \in Versions /\ version' = version + 1 /\ version' \in 1 .. MaxWrites + 1
      BY <1>1, Sizes DEF TypeInv, Write, Versions
    <2>2. src' \in [Members -> Versions] /\ live' \subseteq Members \X Versions
      BY <1>1, <2>1 DEF TypeInv, Write
    <2> QED BY <1>1, <2>1, <2>2 DEF TypeInv, Write, journal, mine, Recorded
  <1>2. ASSUME NEW m \in Members, Delete(m) PROVE TypeInv'
    <2>1. src' \in [Members -> Versions] /\ live' \subseteq Members \X Versions
      BY <1>2, Sizes DEF TypeInv, Delete, Versions
    <2> QED BY <1>2, <2>1 DEF TypeInv, Delete, journal, mine, Recorded
  <1>3. CASE MinutesPass \/ DaysPass
    <2>1. LockType' /\ JournalTypes'
      BY <1>3 DEF TypeInv, MinutesPass, DaysPass, LockType, JournalTypes, Recorded
    <2>2. UNCHANGED <<disk, mine, world>>
      BY <1>3 DEF MinutesPass, DaysPass
    <2> QED BY <2>1, <2>2 DEF TypeInv, LockType, JournalTypes, disk, mine, world
  <1>4. CASE Still
    BY <1>4 DEF Still, TypeInv, disk, journal, mine, world, Recorded
  <1> QED BY <1>1, <1>2, <1>3, <1>4

\* Every step keeps the types.
LEMMA TypeStep ==
  ASSUME TypeInv, HandInv, [Next]_vars
  PROVE  TypeInv'
  BY NextSteps, LockSteps, MoveTypes, FixTypes, LaterTypes, OutsideTypes DEF RunStep

-----------------------------------------------------------------------------
(* Hands                                                                    *)

Hand(r) ==
    /\ at[r] \in Moving \cup Mending \cup Restoring => cur[r].id \in Ids
    /\ at[r] \in Outside \cup (Deciding \ {"release"}) => cur[r] = Idle
    /\ Planned(r) # {} => at[r] \in Mending \cup {"fix", "expiring"}
    /\ \A i \in Planned(r) : i # cur[r].id /\ plan[r][i].op # "none"
    /\ at[r] = "finish" => cur[r].back = "fix"
    /\ at[r] \in Mending => cur[r].back \in {"fix", "expiring"}
    /\ Verified(r) => at[r] \notin Outside

\* HandInv run by run.
LEMMA HandOfEach == HandInv <=> \A r \in Runs : Hand(r)
  BY DEF HandInv, Hand, Verified

\* A run whose hands are untouched keeps to them.
LEMMA HandKept ==
  ASSUME NEW q \in Runs, Hand(q), at'[q] = at[q], cur'[q] = cur[q], plan'[q] = plan[q],
         Verified(q)' => Verified(q)
  PROVE  Hand(q)'
  BY DEF Hand, Planned

\* With no plan there is nothing planned.
LEMMA NothingPlanned == ASSUME NEW r \in Runs, plan[r] = NoPlan PROVE Planned(r) = {}
  BY DEF Planned, NoPlan

\* What a run holds, over the steps of the lock and of a move.
LEMMA MoveHands ==
  ASSUME TypeInv, HandInv, NEW r \in Runs, MoveStep(r) \/ LockStep(r) \/ Crash(r) \/ \E k \in Kinds : Start(r, k)
  PROVE  Hand(r)'
  <1>1. Hand(r) /\ cur \in [Runs -> Locals] /\ plan \in [Runs -> [Ids -> Fixes]]
        /\ at \in [Runs -> Places] /\ lock.token \in Runs \cup {NoRun, Gone}
        /\ r \notin {NoRun, Gone} /\ Idle.id = 0 /\ 0 \notin Ids /\ cur[r] \in Locals
    BY HandOfEach, TombstonesAssumption, Sizes DEF TypeInv, Idle
  <1> USE DEF Moving, Mending, Restoring, Outside, Deciding, Goes, Hand, Planned, Verified
  <1>2. CASE LockStep(r)
    <2>1. ASSUME plan'[r] = NoPlan, NEW i \in Ids PROVE plan'[r][i] = NoFix
      BY <2>1 DEF NoPlan
    <2> QED
      BY <1>1, <1>2, <2>1, TombstonesAssumption DEF LockStep, MakeLock, AlreadyRunning, FindStale,
         Claim, WriteToken, Release, Quit
  <1>3. CASE Crash(r) \/ \E k \in Kinds : Start(r, k)
    <2>1. ASSUME plan'[r] = NoPlan, NEW i \in Ids PROVE plan'[r][i] = NoFix
      BY <2>1 DEF NoPlan
    <2>2. lock' = [lock EXCEPT !.token = Gone] => lock'.token = Gone
      BY DEF TypeInv
    <2> QED BY <1>1, <1>3, <2>1, <2>2 DEF Crash, Start, Quit
  <1>4. CASE \/ PrepareStops(r) \/ RenameStops(r) \/ StageFails(r) \/ CopyDropped(r)
             \/ PlaceFails(r) \/ CopyStops(r) \/ MarkDone(r)
    <2>1. at[r] \in Moving \cup {"prepare"} /\ EndMove(r)
      BY <1>4 DEF PrepareStops, RenameStops, StageFails, CopyDropped, PlaceFails, CopyStops, MarkDone
    <2> QED BY <1>1, <2>1 DEF EndMove
  <1>5. CASE Prepare(r)
    <2>1. /\ plan' = plan /\ Planned(r) = {} /\ at'[r] \in {"rename", "copy"} /\ lock' = lock
      BY <1>1, <1>5 DEF Prepare
    <2>2. cur'[r].id \in Ids
      BY <1>1, <1>5 DEF Prepare, Works, Idle
    <2> QED BY <1>1, <2>1, <2>2
  <1>6. CASE RenameMember(r) \/ RemoveSource(r) \/ Stage(r) \/ SwitchToCopy(r)
    <2>1. /\ cur'[r].id = cur[r].id /\ plan' = plan /\ lock' = lock
          /\ cur'[r].back = cur[r].back \/ at'[r] \in Moving
      <3>1. CASE RenameMember(r) \/ RemoveSource(r)
        BY <1>1, <3>1 DEF RenameMember, RemoveSource, DoneWith, Locals
      <3>2. CASE Stage(r)
        BY <1>1, <3>2 DEF Stage, Locals
      <3>3. CASE SwitchToCopy(r)
        BY <1>1, <3>3 DEF SwitchToCopy, Works, Idle
      <3> QED BY <1>6, <3>1, <3>2, <3>3
    <2>2. /\ at[r] \in Moving \cup {"finish"}
          /\ (at'[r] \in Moving /\ at[r] \in Moving) \/ at'[r] = at[r]
      BY <1>1, <1>6 DEF RenameMember, RemoveSource, Stage, SwitchToCopy
    <2> QED BY <1>1, <2>1, <2>2
  <1>7. CASE Stores(r) \/ RenamesDone(r) \/ PlaceCopy(r) \/ MarkCopied(r) \/ SourcesRemoved(r)
    BY <1>1, <1>7 DEF Stores, RenamesDone, PlaceCopy, MarkCopied, SourcesRemoved
  <1> QED BY <1>2, <1>3, <1>4, <1>5, <1>6, <1>7 DEF MoveStep

\* A repair that is planned does something.
LEMMA Diagnosis ==
  ASSUME TypeInv, NEW i \in Ids, Diagnose(i) # NoFix
  PROVE  Diagnose(i).op # "none"
  <1>1. index[i] \in Records
    BY DEF TypeInv
  <1>2. index[i].state \in Terminal \cup {"none", "pending", "copied", "done", "expiring", "restoring"}
    BY <1>1 DEF Records, States
  <1>3. index[i].state = "pending" => index[i].mode \in {"rename", "copy"}
    BY <1>1 DEF TypeInv, Records
  <1>4. CASE index[i].state = "pending"
    <2>1. Diagnose(i) = DiagnosePending(i, index[i], Has(src) # {}, Has(dest[i]) # {})
      BY <1>4, Diagnosed
    <2> QED BY <1>3, <1>4, <2>1 DEF DiagnosePending, Mark, Cleanup, FinishRenames
  <1>5. CASE index[i].state = "copied"
    <2>1. Diagnose(i) = DiagnoseCopied(index[i], Has(src) # {}, Has(dest[i]) # {})
      BY <1>5, Diagnosed
    <2> QED BY <1>5, <2>1 DEF DiagnoseCopied, FinishCopied, Mark, Cleanup
  <1>6. CASE index[i].state = "restoring"
    <2>1. Diagnose(i) = DiagnoseRestoring(index[i], Has(src) # {}, Has(dest[i]) # {})
      BY <1>6, Diagnosed
    <2> QED BY <1>6, <2>1 DEF DiagnoseRestoring, Mark, Cleanup
  <1>7. CASE index[i].state = "done"
    <2>1. Diagnose(i) = IF Has(dest[i]) # {} THEN NoFix ELSE Mark(index[i], "lost")
      BY <1>7, Diagnosed
    <2> QED BY <2>1 DEF Mark
  <1>8. CASE index[i].state = "expiring"
    <2>1. Diagnose(i) = Cleanup(index[i], {"dest"}, {}, "expired")
      BY <1>8, Diagnosed
    <2> QED BY <2>1 DEF Cleanup
  <1>9. CASE index[i].state \in Terminal \cup {"none"}
    BY <1>9, Diagnosed
  <1> QED BY <1>2, <1>4, <1>5, <1>6, <1>7, <1>8, <1>9

\* What a run holds, over reconcile and its repairs.
LEMMA FixHands ==
  ASSUME TypeInv, HandInv, NEW r \in Runs, FixStep(r)
  PROVE  Hand(r)'
  <1>1. Hand(r) /\ cur \in [Runs -> Locals] /\ plan \in [Runs -> [Ids -> Fixes]]
        /\ at \in [Runs -> Places] /\ Idle.id = 0 /\ 0 \notin Ids /\ cur[r] \in Locals
    BY HandOfEach, Sizes DEF TypeInv, Idle
  <1> USE DEF Moving, Mending, Restoring, Outside, Deciding, Goes, Hand, Planned, Verified
  <1>2. CASE Survey(r)
    BY <1>1, <1>2, Diagnosis DEF Survey
  <1>3. CASE TakeFix(r)
    <2> DEFINE i == Min(Planned(r))
    <2>1. i \in Planned(r) /\ i \in Ids
      BY <1>3, PlanFound DEF TakeFix
    <2>2. plan[r][i].op \in {"record", "clean", "finish"}
      <3>1. plan[r][i] \in Fixes /\ plan[r][i].op # "none"
        BY <1>1, <2>1
      <3> QED BY <3>1 DEF Fixes
    <2>3. /\ at'[r] = plan[r][i].op /\ cur'[r].id = i /\ cur'[r].back = "fix"
          /\ plan'[r] = [plan[r] EXCEPT ![i] = NoFix] /\ lock' = lock
      BY <1>1, <1>3, <2>1 DEF TakeFix, Takes
    <2>4. \A j \in Ids : plan'[r][j] = IF j = i THEN NoFix ELSE plan[r][j]
      BY <1>1, <2>3
    <2> HIDE DEF i
    <2> QED BY <1>1, <2>1, <2>2, <2>3, <2>4
  <1>4. CASE CleanDest(r) \/ CleanTmp(r) \/ CleanSource(r)
    <2>1. /\ cur'[r].id = cur[r].id /\ cur'[r].back = cur[r].back
          /\ at' = at /\ plan' = plan /\ lock' = lock /\ at[r] = "clean"
      BY <1>1, <1>4 DEF CleanDest, CleanTmp, CleanSource, DoneWith, Locals
    <2> QED BY <1>1, <2>1
  <1>5. CASE CleanStops(r) \/ FinishStops(r) \/ RecordFix(r)
    <2>1. /\ FixEnds(r) /\ at[r] \in Mending /\ lock'.token = lock.token
      BY <1>1, <1>5 DEF CleanStops, FinishStops, RecordFix, Touch, TypeInv
    <2> QED BY <1>1, <2>1 DEF FixEnds
  <1>6. CASE ReconcileEnds(r) \/ CleanDone(r)
    BY <1>1, <1>6 DEF ReconcileEnds, CleanDone
  <1>7. CASE FinishDone(r)
    <2>1. cur'[r].id = cur[r].id /\ cur'[r].back = cur[r].back
      BY <1>1, <1>7 DEF FinishDone, Locals
    <2> QED BY <1>1, <1>7, <2>1 DEF FinishDone
  <1> QED BY <1>2, <1>3, <1>4, <1>5, <1>6, <1>7 DEF FixStep

\* What a run holds, over expiry, compaction and restore.
LEMMA LaterHands ==
  ASSUME TypeInv, HandInv, NEW r \in Runs, LaterStep(r)
  PROVE  Hand(r)'
  <1>1. Hand(r) /\ cur \in [Runs -> Locals] /\ plan \in [Runs -> [Ids -> Fixes]]
        /\ at \in [Runs -> Places] /\ Idle.id = 0 /\ 0 \notin Ids /\ cur[r] \in Locals
    BY HandOfEach, Sizes DEF TypeInv, Idle
  <1> USE DEF Moving, Mending, Restoring, Outside, Deciding, Goes, Hand, Planned, Verified
  <1>2. CASE FindExpired(r)
    <2>1. \A i \in Ids : plan'[r][i] # NoFix => plan'[r][i].op # "none"
      BY <1>1, <1>2 DEF FindExpired, Cleanup
    <2> QED BY <1>1, <1>2, <2>1 DEF FindExpired
  <1>3. CASE ExpireNext(r)
    <2> DEFINE i == Min(Planned(r))
    <2>1. i \in Planned(r) /\ i \in Ids
      BY <1>3, PlanFound DEF ExpireNext
    <2>2. /\ at'[r] = "clean" /\ cur'[r].id = i /\ cur'[r].back = "expiring"
          /\ plan'[r] = [plan[r] EXCEPT ![i] = NoFix] /\ lock' = lock
      BY <1>1, <1>3, <2>1 DEF ExpireNext, Takes
    <2>3. \A j \in Ids : plan'[r][j] = IF j = i THEN NoFix ELSE plan[r][j]
      BY <1>1, <2>2
    <2> HIDE DEF i
    <2> QED BY <1>1, <2>1, <2>2, <2>3
  <1>4. CASE ExpireEnds(r)
    <2>1. \A i \in Ids : plan'[r][i] = NoFix
      BY <1>1, <1>4 DEF ExpireEnds, NoPlan
    <2> QED BY <1>1, <1>4, <2>1 DEF ExpireEnds
  <1>5. CASE BeginRestore(r)
    <2>1. cur'[r].id \in Ids
      BY <1>1, <1>5 DEF BeginRestore, Works
    <2> QED BY <1>1, <1>5, <2>1 DEF BeginRestore
  <1>6. CASE PutBack(r) \/ Uncopy(r)
    <2>1. cur'[r].id = cur[r].id
      BY <1>1, <1>6 DEF PutBack, Uncopy, DoneWith, Locals
    <2>2. /\ plan' = plan /\ lock' = lock /\ at[r] \in {"back", "uncopy"}
          /\ at'[r] \in {"back", "uncopy"}
      BY <1>1, <1>6 DEF PutBack, Uncopy
    <2> QED BY <1>1, <2>1, <2>2
  <1>7. CASE \/ Compact(r) \/ CompactFails(r) \/ RestoreRefused(r) \/ RestoreStops(r)
             \/ RestoreEnds(r) \/ MarkRestored(r)
    BY <1>1, <1>7 DEF Compact, CompactFails, RestoreRefused, RestoreStops, RestoreEnds, MarkRestored
  <1> QED BY <1>2, <1>3, <1>4, <1>5, <1>6, <1>7 DEF LaterStep

\* The programs and time leave the runs alone.
LEMMA OutsideRuns ==
  ASSUME TypeInv, \/ \E m \in Members : Write(m) \/ Delete(m)
                  \/ MinutesPass \/ DaysPass \/ Still
  PROVE  at' = at /\ kind' = kind /\ plan' = plan /\ cur' = cur /\ lock'.token = lock.token
  BY DEF TypeInv, Write, Delete, MinutesPass, DaysPass, Still, mine

\* Every step keeps what runs hold in order.
LEMMA HandStep ==
  ASSUME TypeInv, HandInv, [Next]_vars
  PROVE  HandInv'
  <1>1. CASE \E r \in Runs : RunStep(r) \/ Crash(r) \/ \E k \in Kinds : Start(r, k)
    <2>1. PICK r \in Runs : RunStep(r) \/ Crash(r) \/ \E k \in Kinds : Start(r, k)
      BY <1>1
    <2>2. Hand(r)'
      BY <2>1, MoveHands, FixHands, LaterHands DEF RunStep
    <2>3. ASSUME NEW q \in Runs, q # r PROVE Hand(q)'
      <3>1. OnlyRun(r) /\ Hand(q)
        BY <2>1, StepOfOne, HandOfEach
      <3> QED BY <2>3, <3>1, HandKept DEF OnlyRun
    <2>4. \A q \in Runs : Hand(q)'
      BY <2>2, <2>3
    <2> QED BY <2>4 DEF HandInv, Hand, Verified
  <1>2. CASE \/ \E m \in Members : Write(m) \/ Delete(m)
             \/ MinutesPass \/ DaysPass \/ Still
    <2>1. at' = at /\ plan' = plan /\ cur' = cur /\ lock'.token = lock.token
      BY <1>2, OutsideRuns
    <2>2. \A q \in Runs : Hand(q)'
      BY <2>1, HandOfEach, HandKept DEF Verified
    <2> QED BY <2>2 DEF HandInv, Hand, Verified
  <1> QED BY <1>1, <1>2, NextSteps

\* Only a run has seen its token.
SightInv == sure \subseteq Runs /\ slipped \in BOOLEAN

BaseInv == TypeInv /\ HandInv /\ SightInv

\* The types and hands hold at the start, ...
LEMMA BaseStart == Init => BaseInv
  <1> SUFFICES ASSUME Init PROVE BaseInv
    OBVIOUS
  <1>1. 0 \in Versions /\ 1 \in Versions /\ 1 \in 1 .. MaxWrites + 1 /\ NoRun \notin Runs
    BY Sizes, TombstonesAssumption DEF Versions
  <1>2. kind \in [Runs -> Kinds]
    BY DEF Init
  <1>3. /\ index = [i \in Ids |-> NoRecord] /\ NoRecord.state # "pending"
        /\ at \in [Runs -> Places] /\ plan \in [Runs -> [Ids -> Fixes]]
        /\ cur \in [Runs -> Locals]
    BY Values DEF Init, NoRecord, Places, Outside
  <1>4. TypeInv
    BY <1>1, <1>2, <1>3, Values DEF Init, TypeInv, Recorded
  <1>5. HandInv
    BY <1>1 DEF Init, HandInv, Planned, NoPlan, Idle, Outside, Moving, Mending, Restoring, Deciding
  <1>6. SightInv
    BY DEF Init, SightInv
  <1> QED BY <1>4, <1>5, <1>6 DEF BaseInv

\* ... over every step, ...
LEMMA BaseStep == BaseInv /\ [Next]_vars => BaseInv'
  <1> SUFFICES ASSUME BaseInv, [Next]_vars PROVE BaseInv'
    OBVIOUS
  <1>1. sure' \subseteq Runs
    BY DEF BaseInv, SightInv, Next, Verify, Step, Crash, Start, Write, Delete, MinutesPass,
       DaysPass, sight, vars
  <1>2. slipped' \in BOOLEAN
    BY DEF BaseInv, SightInv, Next, Verify, Step, Crash, Start, Write, Delete, MinutesPass,
       DaysPass, sight, vars
  <1> QED BY <1>1, <1>2, TypeStep, HandStep DEF BaseInv, SightInv

\* ... and so always.
LEMMA BaseHolds == Spec => []BaseInv
  BY BaseStart, BaseStep, PTL DEF Spec

\* The types every run of TLC checks hold for all constants: in particular nothing
\* but a record of an id is ever old, and a token lies only in a lock folder, however
\* many runs claim, lose and release the lock.
THEOREM TypeCorrect == Spec => []TypeOK
  <1>1. ASSUME BaseInv PROVE TypeOK
    <2>1. ASSUME NEW i \in Ids
          PROVE  index[i].state \in Terminal \cup
                    {"none", "pending", "copied", "done", "expiring", "restoring"}
      <3>1. index[i] \in Records
        BY <1>1 DEF BaseInv, TypeInv
      <3> QED BY <3>1 DEF Records, States
    <2> QED BY <1>1, <2>1 DEF BaseInv, TypeInv, SightInv, TypeOK, Versions
  <1> QED BY <1>1, BaseHolds, PTL

-----------------------------------------------------------------------------
(* One run: what is held is recorded                                        *)

LEMMA HasNothing ==
  ASSUME TypeInv, NEW i \in Ids
  PROVE  Has(dest[i]) = {} <=> dest[i] = Nothing
  <1>1. dest[i] \in [Members -> Versions]
    BY DEF TypeInv
  <1>2. ASSUME Has(dest[i]) = {} PROVE dest[i] = Nothing
    <2>1. \A m \in Members : dest[i][m] = 0
      BY <1>2 DEF Has
    <2> QED BY <1>1, <2>1 DEF Nothing
  <1> QED BY <1>2 DEF Has, Nothing

\* HeldIsRecorded of one id.
HeldId(i) == dest[i] # Nothing => index[i].state \notin Terminal \cup {"none"}

\* HeldIsRecorded id by id.
LEMMA HeldEach ==
  ASSUME TypeInv
  PROVE  HeldIsRecorded <=> \A i \in Ids : HeldId(i)
  BY HasNothing DEF HeldIsRecorded, HeldId

\* What the only run can rely on before its step.
HeldBefore(r) ==
    /\ Runs = {r} /\ r \in Runs /\ HeldHand(r) /\ HeldPlan(r) /\ Hand(r)
    /\ \A i \in Ids : HeldId(i)
    /\ dest \in [Ids -> [Members -> Versions]] /\ tmp \in [Ids -> [Members -> Versions]]
    /\ index \in [Ids -> Records]
    /\ at \in [Runs -> Places] /\ kind \in [Runs -> Kinds]
    /\ plan \in [Runs -> [Ids -> Fixes]] /\ cur \in [Runs -> Locals]
    /\ lock \in [dir : BOOLEAN, token : Runs \cup {NoRun, Gone}, stale : BOOLEAN]
    /\ layout \in Layouts
    /\ cur[r] \in Locals /\ plan[r] \in [Ids -> Fixes]

HeldAfter(r) == HeldHand(r) /\ HeldPlan(r) /\ \A i \in Ids : HeldId(i)

\* The steps that neither move data nor write to the index.
LEMMA HeldOutside ==
  ASSUME NEW r, HeldBefore(r), UNCHANGED <<dest, index, cur, plan, at, layout>>,
         lock'.token = lock.token
  PROVE  HeldAfter(r)'
  BY DEF HeldBefore, HeldAfter, HeldHand, HeldPlan, HeldId, Planned, Far, Verified

\* A run that has nothing in its hands.
LEMMA HeldIdle ==
  ASSUME NEW r, HeldBefore(r), UNCHANGED layout,
         at'[r] \in Outside \cup Deciding, \A i \in Ids : plan'[r][i] = NoFix,
         at'[r] \notin Outside => Verified(r)'
  PROVE  HeldHand(r)' /\ HeldPlan(r)'
  BY DEF HeldBefore, HeldHand, HeldPlan, Planned, Outside, Deciding

\* What is held stays recorded over the steps of the lock, ...
LEMMA HeldLock ==
  ASSUME NEW r, HeldBefore(r), LockStep(r) \/ Crash(r) \/ \E k \in Kinds : Start(r, k)
  PROVE  HeldAfter(r)'
  <1>1. UNCHANGED <<dest, index, layout>>
    BY DEF LockStep, MakeLock, AlreadyRunning, FindStale, Claim, WriteToken, Release, Crash, Start,
       disk, journal, world
  <1>2. at'[r] \in Outside \cup Deciding /\ (at'[r] \notin Outside => Verified(r)')
    BY DEF HeldBefore, HeldHand, LockStep, MakeLock, AlreadyRunning, FindStale, Claim, WriteToken,
       Release, Crash, Start, Goes, Outside, Deciding, Verified
  <1>3. \A i \in Ids : plan'[r][i] = NoFix
    BY DEF HeldBefore, LockStep, MakeLock, AlreadyRunning, FindStale, Claim, WriteToken,
       Release, Crash, Start, Goes, Outside, Deciding, Hand, Planned, Quit, NoPlan, Mending
  <1>4. \A i \in Ids : HeldId(i)'
    BY <1>1 DEF HeldBefore, HeldId
  <1> QED BY <1>1, <1>2, <1>3, <1>4, HeldIdle DEF HeldAfter

\* What a move ends with.
LEMMA HeldEndMove ==
  ASSUME NEW r, HeldBefore(r), EndMove(r), at[r] \in Moving \cup {"prepare"}, UNCHANGED layout
  PROVE  HeldHand(r)' /\ HeldPlan(r)'
  <1>1. at'[r] \in Deciding /\ Verified(r)' /\ plan' = plan
    BY DEF HeldBefore, HeldHand, EndMove, Deciding, Outside, Moving, Verified, Touch
  <1>2. \A i \in Ids : plan'[r][i] = NoFix
    BY <1>1 DEF HeldBefore, Hand, Planned, Moving, Mending
  <1> QED BY <1>1, <1>2, HeldIdle

\* A record that is not terminal breaks nothing; a terminal one needs an empty folder.
LEMMA HeldAppend ==
  ASSUME NEW r, HeldBefore(r), NEW i \in Ids, NEW rec, Append(i, rec), UNCHANGED dest,
         rec.state \in Terminal \cup {"none"} => dest[i] = Nothing
  PROVE  \A j \in Ids : HeldId(j)'
  <1>1. \A j \in Ids : index'[j] = IF j = i THEN rec ELSE index[j]
    BY DEF HeldBefore, Append
  <1> QED BY <1>1 DEF HeldBefore, HeldId

\* ... of a move, where the record comes before the data, ...
LEMMA HeldMove ==
  ASSUME NEW r, HeldBefore(r), NoSurprise, MoveStep(r)
  PROVE  HeldAfter(r)'
  <1> DEFINE i == cur[r].id
  <1>1. /\ cur[r].rec \in Records /\ cur[r].left \in SUBSET Members
        /\ (at[r] \in Moving \cup Mending => i \in Ids)
        /\ (at[r] \in Moving \cup {"prepare", "stores"} => \A j \in Ids : plan[r][j] = NoFix)
    BY DEF HeldBefore, Locals, Hand, Planned, Mending, Moving
  <1> USE DEF Goes
  <1>2. CASE PrepareStops(r) \/ RenameStops(r) \/ StageFails(r) \/ PlaceFails(r) \/ CopyStops(r)
    <2>1. /\ EndMove(r) /\ at[r] \in Moving \cup {"prepare"} /\ UNCHANGED <<dest, index, layout>>
      BY <1>2 DEF PrepareStops, RenameStops, StageFails, PlaceFails, CopyStops, Moving, disk,
         journal, world
    <2> QED BY <2>1, HeldEndMove DEF HeldAfter, HeldBefore, HeldId
  <1>3. CASE CopyDropped(r) \/ MarkDone(r)
    <2>1. /\ EndMove(r) /\ at[r] \in Moving /\ UNCHANGED <<dest, layout>> /\ i \in Ids
      BY <1>1, <1>3 DEF CopyDropped, MarkDone, Moving, disk, world
    <2>2. CASE UNCHANGED journal
      BY <2>1, <2>2, HeldEndMove DEF HeldAfter, HeldBefore, HeldId, journal
    <2>3. CASE CopyDropped(r) /\ Append(i, WithState(cur[r].rec, "dropped"))
      <3>1. dest[i] = Nothing
        BY <2>3 DEF CopyDropped, HeldBefore, HeldHand
      <3>2. \A j \in Ids : HeldId(j)'
        BY <2>1, <2>3, <3>1, HeldAppend
      <3> QED BY <2>1, <3>2, HeldEndMove DEF HeldAfter
    <2>4. CASE MarkDone(r) /\ Append(i, WithState(cur[r].rec, "done"))
      <3>1. WithState(cur[r].rec, "done").state \notin Terminal \cup {"none"}
        BY <1>1, Values DEF States, Terminal
      <3>2. \A j \in Ids : HeldId(j)'
        BY <2>1, <2>4, <3>1, HeldAppend
      <3> QED BY <2>1, <3>2, HeldEndMove DEF HeldAfter
    <2> QED BY <1>3, <2>2, <2>3, <2>4 DEF CopyDropped, MarkDone
  <1>4. CASE Stores(r)
    <2>1. /\ at'[r] \in Deciding /\ Verified(r)' /\ UNCHANGED <<dest, index, layout, plan>>
      BY <1>4 DEF Stores, Deciding, HeldBefore, HeldHand, Outside, Verified, disk, journal, world
    <2> QED BY <1>1, <1>4, <2>1, HeldIdle DEF HeldAfter, HeldBefore, HeldId, Stores
  <1>5. CASE Prepare(r)
    <2>1. PICK j \in Ids :
             /\ FreshId(j)
             /\ Append(j, [state |-> "pending", mode |-> at'[r],
                           missing |-> Members \ Has(src), print |-> NoPrint])
             /\ Works(r, j, [state |-> "pending", mode |-> at'[r],
                             missing |-> Members \ Has(src), print |-> NoPrint], Has(src))
      BY <1>5 DEF Prepare
    <2>2. dest[j] = Nothing /\ UNCHANGED <<dest, plan, lock, layout>> /\ Verified(r)
      BY <1>5, <2>1 DEF FreshId, Prepare, disk, world, HeldBefore, HeldHand, Outside
    <2>3. \A k \in Ids : HeldId(k)'
      BY <2>1, <2>2, HeldAppend
    <2>4. /\ cur'[r].id = j /\ cur'[r].rec.state = "pending" /\ cur'[r].left = Has(src)
          /\ index'[j].state = "pending"
      BY <2>1 DEF Append, Works, HeldBefore
    <2>5. at'[r] = (IF Has(src) \cap layout.far = {} THEN "rename" ELSE "copy")
      BY <1>5 DEF Prepare, HeldBefore
    <2>6. HeldHand(r)'
      BY <2>2, <2>4, <2>5 DEF HeldHand, Verified
    <2>7. HeldPlan(r)'
      BY <1>1, <1>5, <2>2 DEF HeldPlan, Planned, Prepare
    <2> QED BY <2>3, <2>6, <2>7 DEF HeldAfter
  <1>6. CASE RenameMember(r)
    <2> DEFINE m == Min(cur[r].left)
    <2>1. m \in cur[r].left /\ m \in Members /\ i \in Ids /\ at' = at
          /\ UNCHANGED <<lock, index, plan, layout>>
      BY <1>1, <1>6, LeftFound DEF RenameMember, Moving, Mending, journal, world
    <2>2. /\ cur'[r].id = i /\ cur'[r].left = cur[r].left \ {m} /\ cur'[r].rec = cur[r].rec
          /\ cur'[r].then = cur[r].then
      BY <1>6 DEF RenameMember, DoneWith, HeldBefore, Locals
    <2>3. at[r] \in {"rename", "finish"} /\ index[i].state = "pending"
      BY <1>6 DEF RenameMember, HeldBefore, HeldHand
    <2>4. \A j \in Ids : j # i => dest'[j] = dest[j]
      BY <1>6, <2>1 DEF RenameMember, HeldBefore
    <2>5. \A j \in Ids : HeldId(j)'
      BY <2>1, <2>3, <2>4 DEF HeldBefore, HeldId, Terminal
    <2>6. \A j \in Planned(r) : j # i
      BY DEF HeldBefore, Hand
    <2>7. HeldPlan(r)'
      BY <2>1, <2>4, <2>6 DEF HeldPlan, Planned, HeldBefore
    <2>8. ASSUME at[r] = "rename", (cur[r].left \ {m}) \cap Far # {} PROVE FALSE
      <3>1. cur[r].left \cap layout.far = {}
        BY <2>8 DEF HeldBefore, HeldHand
      <3>2. N = 1 \/ layout.hidden = {}
        BY DEF NoSurprise, HeldBefore
      <3>3. N # 1
        BY <1>1, <2>1, <2>8, Sizes DEF Members
      <3> QED BY <2>8, <3>1, <3>2, <3>3 DEF Far
    <2>9. HeldHand(r)'
      BY <2>1, <2>2, <2>3, <2>8 DEF HeldBefore, HeldHand, Verified, Far
    <2> QED BY <2>5, <2>7, <2>9 DEF HeldAfter
  <1>7. CASE SwitchToCopy(r)
    <2>1. /\ i \in Ids /\ at'[r] = "copy" /\ at[r] = "rename" /\ cur'[r].id = i
          /\ UNCHANGED <<dest, lock, plan, layout>>
          /\ index' = [index EXCEPT ![i] = [cur[r].rec EXCEPT !.mode = "copy"]]
      BY <1>1, <1>7 DEF SwitchToCopy, Works, HeldBefore, Moving, disk, world
    <2>2. dest[i] = Nothing /\ cur[r].rec.state = "pending" /\ Verified(r)
      BY <1>1, <1>7, <2>1, LeftFound
         DEF SwitchToCopy, CrossDevice, NextToRename, HeldBefore, HeldHand, Outside
    <2>3. \A j \in Ids : index'[j].state = IF j = i THEN "pending" ELSE index[j].state
      BY <1>1, <2>1, <2>2 DEF HeldBefore, Records
    <2>4. \A j \in Ids : HeldId(j)'
      BY <2>1, <2>2, <2>3 DEF HeldBefore, HeldId
    <2>5. HeldHand(r)'
      BY <2>1, <2>2, <2>3 DEF HeldHand, Verified
    <2>6. HeldPlan(r)'
      BY <1>1, <2>1 DEF HeldPlan, Planned, Moving
    <2> QED BY <2>4, <2>5, <2>6 DEF HeldAfter
  <1>8. CASE RenamesDone(r) \/ Stage(r) \/ SourcesRemoved(r) \/ RemoveSource(r)
    <2>1. /\ UNCHANGED <<dest, index, lock, plan, layout>> /\ at[r] \in Moving
          /\ at'[r] \in {"done", "staged", "remove"}
          /\ at'[r] = "staged" => at[r] = "copy"
      BY <1>8 DEF RenamesDone, Stage, SourcesRemoved, RemoveSource, HeldBefore, disk, journal,
         world, Moving
    <2>2. cur'[r].id = cur[r].id
      BY <1>8 DEF RenamesDone, Stage, SourcesRemoved, RemoveSource, DoneWith, HeldBefore, Locals
    <2>3. HeldHand(r)'
      BY <2>1, <2>2 DEF HeldBefore, HeldHand, Verified, Moving, Outside
    <2>4. HeldPlan(r)'
      BY <1>1, <2>1 DEF HeldPlan, Planned
    <2> QED BY <2>1, <2>3, <2>4 DEF HeldAfter, HeldBefore, HeldId
  <1>9. CASE PlaceCopy(r)
    <2>1. /\ i \in Ids /\ at[r] = "staged" /\ at'[r] = "placed"
          /\ UNCHANGED <<index, lock, plan, cur, layout>>
          /\ \A j \in Ids : j # i => dest'[j] = dest[j]
      BY <1>1, <1>9 DEF PlaceCopy, Moving, HeldBefore, journal, world
    <2>2. index[i].state = "pending" /\ Verified(r)
      BY <2>1 DEF HeldBefore, HeldHand, Outside
    <2>3. \A j \in Ids : HeldId(j)'
      BY <2>1, <2>2 DEF HeldBefore, HeldId, Terminal
    <2>4. HeldHand(r)'
      BY <2>1, <2>2 DEF HeldHand, Verified
    <2>5. HeldPlan(r)'
      BY <1>1, <2>1 DEF HeldPlan, Planned, Moving
    <2> QED BY <2>3, <2>4, <2>5 DEF HeldAfter
  <1>10. CASE MarkCopied(r)
    <2> DEFINE rec == [WithState(cur[r].rec, "copied") EXCEPT !.print = cur[r].print]
    <2>1. /\ i \in Ids /\ at[r] = "placed" /\ at'[r] = "remove"
          /\ UNCHANGED <<dest, lock, plan, cur, layout>> /\ Append(i, rec)
      BY <1>1, <1>10 DEF MarkCopied, Moving, HeldBefore, disk, world
    <2>2. rec.state = "copied"
      BY <1>1 DEF WithState, Records
    <2>3. \A j \in Ids : HeldId(j)'
      BY <2>1, <2>2, HeldAppend DEF Terminal
    <2>4. HeldHand(r)'
      BY <2>1 DEF HeldBefore, HeldHand, Verified, Outside
    <2>5. HeldPlan(r)'
      BY <1>1, <2>1 DEF HeldPlan, Planned, Moving
    <2> QED BY <2>3, <2>4, <2>5 DEF HeldAfter
  <1> QED BY <1>2, <1>3, <1>4, <1>5, <1>6, <1>7, <1>8, <1>9, <1>10 DEF MoveStep

\* A fix that does not record `done` finds the folder empty or is about to empty it.
LEMMA HeldDiagnosis ==
  ASSUME TypeInv, NEW i \in Ids, Diagnose(i) # NoFix
  PROVE  LET f == Diagnose(i)
         IN  /\ f.op = "finish" => f.then = "done" /\ index[i].state = "pending"
             /\ f.then # "done" => dest[i] = Nothing \/ (f.op = "clean" /\ "dest" \in f.away)
  <1> DEFINE rec == index[i]
             s == Has(src) # {}
             d == Has(dest[i]) # {}
  <1>1. rec.state \in Terminal \cup {"none", "pending", "copied", "done", "expiring", "restoring"}
    BY DEF TypeInv, Records, States
  <1>2. rec.state = "pending" => rec.mode \in {"rename", "copy"}
    BY DEF TypeInv, Records
  <1>3. ~d <=> dest[i] = Nothing
    BY HasNothing
  <1>4. CASE rec.state = "pending"
    <2>1. Diagnose(i) = DiagnosePending(i, rec, s, d)
      BY <1>4, Diagnosed
    <2> HIDE DEF s, d
    <2> QED BY <1>2, <1>3, <1>4, <2>1 DEF DiagnosePending, Mark, Cleanup, FinishRenames
  <1>5. CASE rec.state = "copied"
    <2>1. Diagnose(i) = DiagnoseCopied(rec, s, d)
      BY <1>5, Diagnosed
    <2> HIDE DEF s, d
    <2> QED BY <1>3, <2>1 DEF DiagnoseCopied, FinishCopied, Mark, Cleanup
  <1>6. CASE rec.state = "restoring"
    <2>1. Diagnose(i) = DiagnoseRestoring(rec, s, d)
      BY <1>6, Diagnosed
    <2> HIDE DEF s, d
    <2> QED BY <1>3, <2>1 DEF DiagnoseRestoring, Mark, Cleanup
  <1>7. CASE rec.state = "done"
    <2>1. Diagnose(i) = IF d THEN NoFix ELSE Mark(rec, "lost")
      BY <1>7, Diagnosed
    <2> HIDE DEF d
    <2> QED BY <1>3, <2>1 DEF Mark
  <1>8. CASE rec.state = "expiring"
    <2>1. Diagnose(i) = Cleanup(rec, {"dest"}, {}, "expired")
      BY <1>8, Diagnosed
    <2> QED BY <2>1 DEF Cleanup
  <1>9. CASE rec.state \in Terminal \cup {"none"}
    BY <1>9, Diagnosed
  <1> QED BY <1>1, <1>4, <1>5, <1>6, <1>7, <1>8, <1>9

\* The repair taken is the one planned.
LEMMA HeldTakes ==
  ASSUME NEW r, HeldBefore(r), at[r] \in {"fix", "expiring"}, Planned(r) # {},
         NEW back, Takes(r, Min(Planned(r)), back)
  PROVE  LET i == Min(Planned(r))
             f == plan[r][i]
         IN  /\ i \in Ids /\ i \in Planned(r) /\ f.op \in {"record", "clean", "finish"}
             /\ f.rec \in Records
             /\ cur'[r].id = i /\ cur'[r].then = f.then /\ cur'[r].away = f.away
             /\ \A j \in Ids : plan'[r][j] = IF j = i THEN NoFix ELSE plan[r][j]
  <1> DEFINE i == Min(Planned(r))
  <1>1. i \in Ids /\ i \in Planned(r)
    BY PlanFound DEF HeldBefore
  <1>2. plan[r][i] \in Fixes /\ plan[r][i].op # "none"
    BY <1>1 DEF HeldBefore, Hand
  <1>3. plan[r][i].op \in {"record", "clean", "finish"} /\ plan[r][i].rec \in Records
    BY <1>2 DEF Fixes
  <1>4. /\ plan' = [plan EXCEPT ![r][i] = NoFix]
        /\ cur'[r].id = i /\ cur'[r].then = plan[r][i].then /\ cur'[r].away = plan[r][i].away
    BY DEF Takes, HeldBefore
  <1>5. \A j \in Ids : plan'[r][j] = IF j = i THEN NoFix ELSE plan[r][j]
    BY <1>1, <1>4 DEF HeldBefore
  <1> QED BY <1>1, <1>3, <1>4, <1>5

\* ... of a repair, where the data goes before the final record, ...
LEMMA HeldFix ==
  ASSUME TypeInv, NEW r, HeldBefore(r), FixStep(r)
  PROVE  HeldAfter(r)'
  <1> DEFINE i == cur[r].id
  <1>1. /\ cur[r].rec \in Records /\ cur[r].left \in SUBSET Members /\ cur[r].then \in Thens
        /\ (at[r] \in Mending => i \in Ids)
        /\ (at[r] = "survey" => \A j \in Ids : plan[r][j] = NoFix)
        /\ \A j \in Planned(r) : j # i
    BY DEF HeldBefore, Locals, Hand, Planned, Mending
  <1> USE DEF Goes
  <1>2. CASE Survey(r)
    <2>1. /\ UNCHANGED <<dest, index, lock, layout>> /\ at'[r] = "fix" /\ Verified(r)
          /\ plan'[r] = [j \in Ids |-> Diagnose(j)]
      BY <1>2 DEF Survey, HeldBefore, HeldHand, Outside, disk, journal, world
    <2>2. HeldHand(r)'
      BY <2>1 DEF HeldHand, Verified
    <2>3. HeldPlan(r)'
      BY <2>1, HeldDiagnosis DEF HeldPlan, Planned
    <2> QED BY <2>1, <2>2, <2>3 DEF HeldAfter, HeldBefore, HeldId
  <1>3. CASE TakeFix(r)
    <2> DEFINE k == Min(Planned(r))
    <2>1. /\ UNCHANGED <<dest, index, lock, layout>> /\ at[r] = "fix" /\ at'[r] = plan[r][k].op
          /\ Verified(r)
      BY <1>3 DEF TakeFix, HeldBefore, HeldHand, Outside, disk, journal, world
    <2>2. /\ k \in Ids /\ k \in Planned(r) /\ plan[r][k].op \in {"record", "clean", "finish"}
          /\ cur'[r].id = k /\ cur'[r].then = plan[r][k].then /\ cur'[r].away = plan[r][k].away
          /\ \A j \in Ids : plan'[r][j] = IF j = k THEN NoFix ELSE plan[r][j]
      BY <1>3, HeldTakes DEF TakeFix
    <2> HIDE DEF k
    <2>3. HeldHand(r)'
      BY <2>1, <2>2 DEF HeldBefore, HeldHand, HeldPlan, Verified
    <2>4. HeldPlan(r)'
      BY <2>1, <2>2 DEF HeldBefore, HeldPlan, Planned
    <2> QED BY <2>1, <2>3, <2>4 DEF HeldAfter, HeldBefore, HeldId
  <1>4. CASE CleanDest(r)
    <2>1. /\ UNCHANGED <<index, lock, layout, plan, at>> /\ at[r] = "clean" /\ i \in Ids
          /\ dest' = [dest EXCEPT ![i] = Nothing]
      BY <1>1, <1>4 DEF CleanDest, Mending, journal
    <2>2. cur'[r].id = i
      BY <1>4 DEF CleanDest, HeldBefore, Locals
    <2>3. \A j \in Ids : dest'[j] = IF j = i THEN Nothing ELSE dest[j]
      BY <2>1 DEF HeldBefore
    <2>4. HeldHand(r)'
      BY <2>1, <2>2, <2>3 DEF HeldBefore, HeldHand, Verified
    <2>5. HeldPlan(r)'
      BY <2>1, <2>3 DEF HeldBefore, HeldPlan, Planned
    <2> QED BY <2>1, <2>3, <2>4, <2>5 DEF HeldAfter, HeldBefore, HeldId
  <1>5. CASE CleanTmp(r) \/ CleanSource(r) \/ ReconcileEnds(r)
    <2>1. /\ UNCHANGED <<dest, index, lock, layout, plan>>
          /\ \/ at'[r] = at[r] /\ at[r] = "clean"
             \/ at'[r] \in {"stores", "restore"} /\ at[r] = "fix"
      BY <1>5 DEF CleanTmp, CleanSource, ReconcileEnds, HeldBefore, journal, world, disk
    <2>2. /\ cur'[r].id = i /\ cur'[r].then = cur[r].then
          /\ "dest" \in cur[r].away => CleanTmp(r) \/ cur'[r].away = cur[r].away
          /\ CleanTmp(r) => cur[r].away = {"tmp"}
      BY <1>5 DEF CleanTmp, CleanSource, ReconcileEnds, DoneWith, HeldBefore, Locals
    <2>3. HeldHand(r)'
      BY <2>1, <2>2 DEF HeldBefore, HeldHand, Verified, Outside
    <2>4. HeldPlan(r)'
      BY <2>1 DEF HeldBefore, HeldPlan, Planned
    <2> QED BY <2>1, <2>3, <2>4 DEF HeldAfter, HeldBefore, HeldId
  <1>6. CASE CleanStops(r) \/ FinishStops(r) \/ RecordFix(r)
    <2>1. /\ at[r] \in Mending /\ i \in Ids /\ UNCHANGED <<dest, layout, plan>>
          /\ at'[r] \in {"fix", "expiring"} /\ Verified(r)'
      BY <1>1, <1>6 DEF CleanStops, FinishStops, RecordFix, Mending, FixEnds, disk, world,
         HeldBefore, HeldHand, Hand, Verified, Outside, Touch
    <2>2. Verified(r)' /\ at'[r] \in {"fix", "expiring"}
      BY <1>1, <1>6 DEF CleanStops, FinishStops, RecordFix, Mending, FixEnds,
         HeldBefore, HeldHand, Hand, Verified, Outside, Touch
    <2>3. HeldHand(r)'
      BY <2>2 DEF HeldHand
    <2>4. \A j \in Ids : j # i => index'[j] = index[j]
      BY <1>6, <2>1 DEF CleanStops, FinishStops, RecordFix, Append, journal, HeldBefore
    <2>5. HeldPlan(r)'
      BY <1>1, <2>1, <2>4 DEF HeldBefore, HeldPlan, Planned
    <2>6. CASE index' = index
      BY <2>1, <2>3, <2>5, <2>6 DEF HeldAfter, HeldBefore, HeldId
    <2>7. CASE RecordFix(r) /\ Append(i, WithState(cur[r].rec, cur[r].then))
      <3>1. WithState(cur[r].rec, cur[r].then).state = cur[r].then
        BY <1>1, Values DEF Thens, States, Terminal
      <3>2. cur[r].then \in Terminal \cup {"none"} => dest[i] = Nothing
        BY <2>7 DEF RecordFix, HeldBefore, HeldHand, Terminal
      <3>3. \A j \in Ids : HeldId(j)'
        BY <2>1, <2>7, <3>1, <3>2, HeldAppend
      <3> QED BY <2>3, <2>5, <3>3 DEF HeldAfter
    <2> QED BY <1>6, <2>6, <2>7 DEF CleanStops, FinishStops, RecordFix, journal
  <1>7. CASE CleanDone(r) \/ FinishDone(r)
    <2>1. /\ UNCHANGED <<dest, index, lock, layout, plan>> /\ at'[r] = "record" /\ i \in Ids
          /\ at[r] \in {"clean", "finish"}
      BY <1>1, <1>7 DEF CleanDone, FinishDone, Mending, HeldBefore, disk, journal, world
    <2>2. /\ cur'[r].id = i /\ cur'[r].then = cur[r].then
      BY <1>7 DEF CleanDone, FinishDone, HeldBefore, Locals
    <2>3. at[r] = "clean" /\ "dest" \in cur[r].away => dest[i] = Nothing
      BY <1>7, <2>1, HasNothing DEF CleanDone, ToClean, FinishDone
    <2>4. HeldHand(r)'
      BY <2>1, <2>2, <2>3 DEF HeldBefore, HeldHand, Verified, Outside
    <2>5. HeldPlan(r)'
      BY <2>1 DEF HeldBefore, HeldPlan, Planned
    <2> QED BY <2>1, <2>4, <2>5 DEF HeldAfter, HeldBefore, HeldId
  <1> QED BY <1>2, <1>3, <1>4, <1>5, <1>6, <1>7 DEF FixStep

\* ... of expiry, compaction and restore, ...
LEMMA HeldLater ==
  ASSUME TypeInv, NEW r, HeldBefore(r), LaterStep(r)
  PROVE  HeldAfter(r)'
  <1> DEFINE i == cur[r].id
  <1>1. /\ cur[r].rec \in Records /\ cur[r].left \in SUBSET Members
        /\ (at[r] \in Restoring => i \in Ids) /\ (at[r] \notin Outside => Verified(r))
        /\ (at[r] \in Restoring \cup {"expire", "compact", "restore", "release"} =>
               \A j \in Ids : plan[r][j] = NoFix)
        /\ Verified(r)' <=> lock'.token = r
    BY DEF HeldBefore, HeldHand, Locals, Hand, Planned, Mending, Restoring, Verified
  <1> USE DEF Goes
  <1>2. CASE FindExpired(r)
    <2>1. /\ UNCHANGED <<dest, index, lock, layout>> /\ at'[r] = "expiring" /\ Verified(r)
      BY <1>1, <1>2 DEF FindExpired, HeldBefore, Outside, disk, journal, world
    <2>2. \A j \in Ids : plan'[r][j] # NoFix => plan'[r][j] = Cleanup(index[j], {"dest"}, {}, "expired")
      BY <1>2 DEF FindExpired, HeldBefore
    <2>3. HeldHand(r)'
      BY <2>1 DEF HeldHand, Verified
    <2>4. \A j \in Ids : plan'[r][j] # NoFix =>
             plan'[r][j].op = "clean" /\ plan'[r][j].away = {"dest"}
      <3>1. \A rec : /\ Cleanup(rec, {"dest"}, {}, "expired").op = "clean"
                     /\ Cleanup(rec, {"dest"}, {}, "expired").away = {"dest"}
        BY DEF Cleanup
      <3> QED BY <2>2, <3>1
    <2>5. HeldPlan(r)'
      BY <2>4 DEF HeldPlan, Planned
    <2> QED BY <2>1, <2>3, <2>5 DEF HeldAfter, HeldBefore, HeldId
  <1>3. CASE ExpireNext(r)
    <2> DEFINE k == Min(Planned(r))
    <2>1. /\ UNCHANGED <<dest, lock, layout>> /\ at[r] = "expiring" /\ at'[r] = "clean"
          /\ Verified(r) /\ Append(k, WithState(plan[r][k].rec, "expiring"))
      BY <1>1, <1>3 DEF ExpireNext, HeldBefore, Outside, disk, world
    <2>2. /\ k \in Ids /\ k \in Planned(r) /\ plan[r][k].rec \in Records
          /\ cur'[r].id = k /\ cur'[r].then = plan[r][k].then /\ cur'[r].away = plan[r][k].away
          /\ \A j \in Ids : plan'[r][j] = IF j = k THEN NoFix ELSE plan[r][j]
      BY <1>3, HeldTakes DEF ExpireNext
    <2> HIDE DEF k
    <2>3. WithState(plan[r][k].rec, "expiring").state \notin Terminal \cup {"none"}
      BY <2>2, Values DEF States, Terminal
    <2>4. \A j \in Ids : HeldId(j)'
      BY <2>1, <2>2, <2>3, HeldAppend
    <2>5. \A j \in Ids : j # k => index'[j] = index[j]
      BY <2>1 DEF Append, HeldBefore
    <2>6. plan[r][k].op = "clean" \/ plan[r][k].then = "done" \/ dest[k] = Nothing
      BY <2>2 DEF HeldBefore, HeldPlan
    <2>7. HeldHand(r)'
      BY <2>1, <2>2, <2>6 DEF HeldBefore, HeldHand, HeldPlan, Verified
    <2>8. HeldPlan(r)'
      BY <2>1, <2>2, <2>5 DEF HeldBefore, HeldPlan, Planned
    <2> QED BY <2>4, <2>7, <2>8 DEF HeldAfter
  <1>4. CASE \/ ExpireEnds(r) \/ CompactFails(r) \/ RestoreRefused(r) \/ RestoreStops(r)
    <2>1. /\ UNCHANGED <<dest, index, lock, layout>> /\ at'[r] \in Deciding /\ Verified(r)
      BY <1>1, <1>4 DEF ExpireEnds, CompactFails, RestoreRefused, RestoreStops, HeldBefore,
         Outside, Deciding, disk, journal, world
    <2>2. \A j \in Ids : plan'[r][j] = NoFix
      BY <1>1, <1>4 DEF ExpireEnds, CompactFails, RestoreRefused, RestoreStops, HeldBefore,
         NoPlan, Restoring
    <2> QED BY <2>1, <2>2, HeldIdle DEF HeldAfter, HeldBefore, HeldId, Verified
  <1>5. CASE Compact(r)
    <2>1. /\ UNCHANGED <<dest, lock, layout, plan>> /\ at'[r] \in Deciding /\ Verified(r)
          /\ \A j \in Ids : plan'[r][j] = NoFix
      BY <1>1, <1>5 DEF Compact, HeldBefore, Outside, Deciding, disk, world
    <2>2. \A j \in Ids : HeldId(j)'
      BY <1>5, <2>1 DEF Compact, Droppable, HeldBefore, HeldId, NoRecord
    <2> QED BY <2>1, <2>2, HeldIdle DEF HeldAfter, Verified
  <1>6. CASE BeginRestore(r)
    <2>1. PICK j \in Ids : /\ Append(j, WithState(index[j], "restoring"))
                           /\ index[j] \in Records
      BY <1>6 DEF BeginRestore, HeldBefore
    <2>2. WithState(index[j], "restoring").state \notin Terminal \cup {"none"}
      BY <2>1, Values DEF States, Terminal
    <2>3. /\ UNCHANGED <<dest, lock, layout, plan>> /\ at'[r] = "back" /\ Verified(r)
      BY <1>1, <1>6 DEF BeginRestore, HeldBefore, Outside, disk, world
    <2>4. \A k \in Ids : HeldId(k)'
      BY <2>1, <2>2, <2>3, HeldAppend
    <2>5. HeldHand(r)'
      BY <1>1, <2>3 DEF HeldHand, Verified
    <2>6. HeldPlan(r)'
      BY <1>1, <1>6, <2>3 DEF HeldPlan, Planned, BeginRestore
    <2> QED BY <2>4, <2>5, <2>6 DEF HeldAfter
  <1>7. CASE PutBack(r) \/ Uncopy(r) \/ RestoreEnds(r)
    <2>1. /\ UNCHANGED <<index, lock, layout, plan>> /\ at'[r] \in Restoring
          /\ at[r] \in Restoring /\ i \in Ids /\ Verified(r)
          /\ (at'[r] = "restored" => RestoreEnds(r))
      BY <1>1, <1>7 DEF PutBack, Uncopy, RestoreEnds, HeldBefore, Outside, Restoring,
         journal, world
    <2>2. cur'[r].id = i
      BY <1>7 DEF PutBack, Uncopy, RestoreEnds, DoneWith, HeldBefore, Locals
    <2>3. \A j \in Ids : \/ dest'[j] = dest[j] \/ dest'[j] = Nothing \/ dest[j] # Nothing
      <3>1. CASE RestoreEnds(r)
        BY <3>1, <2>1 DEF RestoreEnds, HeldBefore
      <3>2. CASE PutBack(r)
        <4>1. dest[i][Min(cur[r].left)] # 0 /\ Min(cur[r].left) \in Members
          BY <1>1, <3>2, LeftFound DEF PutBack
        <4>2. dest[i] # Nothing
          BY <4>1 DEF Nothing
        <4> QED BY <2>1, <3>2, <4>2 DEF PutBack, HeldBefore
      <3>3. CASE Uncopy(r)
        <4>1. \A m : [Nothing EXCEPT ![m] = 0] = Nothing
          BY DEF Nothing
        <4>2. \E m : dest' = [dest EXCEPT ![i] = [dest[i] EXCEPT ![m] = 0]]
          BY <3>3 DEF Uncopy, HeldBefore
        <4> QED BY <2>1, <4>1, <4>2 DEF HeldBefore
      <3> QED BY <1>7, <3>1, <3>2, <3>3
    <2>4. \A j \in Ids : HeldId(j)'
      BY <2>1, <2>3 DEF HeldBefore, HeldId
    <2>5. RestoreEnds(r) => dest'[i] = Nothing
      BY <2>1 DEF RestoreEnds, HeldBefore
    <2>6. HeldHand(r)'
      BY <2>1, <2>2, <2>5 DEF HeldHand, Verified, Restoring
    <2>7. HeldPlan(r)'
      BY <1>1, <2>1 DEF HeldPlan, Planned
    <2> QED BY <2>4, <2>6, <2>7 DEF HeldAfter
  <1>8. CASE MarkRestored(r)
    <2>1. /\ UNCHANGED <<dest, lock, layout, plan, cur>> /\ at'[r] \in Deciding /\ Verified(r)
          /\ \A j \in Ids : plan'[r][j] = NoFix
          /\ i \in Ids /\ dest[i] = Nothing
      BY <1>1, <1>8 DEF MarkRestored, HeldBefore, HeldHand, Outside, Deciding, Restoring, disk, world
    <2>2. \A j \in Ids : HeldId(j)'
      <3>1. CASE UNCHANGED journal
        BY <2>1, <3>1 DEF HeldBefore, HeldId, journal
      <3>2. CASE Append(i, WithState(cur[r].rec, "restored"))
        BY <2>1, <3>2, HeldAppend
      <3> QED BY <1>8, <3>1, <3>2 DEF MarkRestored
    <2> QED BY <2>1, <2>2, HeldIdle DEF HeldAfter, Verified
  <1> QED BY <1>2, <1>3, <1>4, <1>5, <1>6, <1>7, <1>8 DEF LaterStep

\* ... hence over every step.
LEMMA HeldStep ==
  ASSUME Alone, NoSurprise, BaseInv, HeldInv, [Next]_vars
  PROVE  HeldInv'
  <1>1. PICK r : Runs = {r}
    BY DEF Alone
  <1>2. HeldBefore(r)
    BY <1>1, HandOfEach, HeldEach DEF HeldBefore, HeldInv, BaseInv, TypeInv
  <1>3. HeldAfter(r)'
    <2>1. CASE \E q \in Runs : RunStep(q) \/ Crash(q) \/ \E k \in Kinds : Start(q, k)
      BY <1>1, <1>2, <2>1, HeldLock, HeldMove, HeldFix, HeldLater DEF RunStep, BaseInv
    <2>2. CASE \/ \E m \in Members : Write(m) \/ Delete(m)
               \/ MinutesPass \/ DaysPass \/ Still
      <3>1. at' = at /\ plan' = plan /\ cur' = cur /\ lock'.token = lock.token
        BY <2>2, OutsideRuns DEF BaseInv
      <3>2. UNCHANGED <<dest, index, layout>>
        BY <2>2 DEF Write, Delete, MinutesPass, DaysPass, Still, disk, journal, world
      <3> QED BY <1>2, <3>1, <3>2, HeldOutside
    <2> QED BY <2>1, <2>2, NextSteps
  <1>4. HeldIsRecorded'
    <2>1. TypeInv'
      BY TypeStep DEF BaseInv
    <2>2. \A i \in Ids : Has(dest'[i]) # {} => dest'[i] # Nothing
      BY DEF Has, Nothing
    <2> QED BY <1>3, <2>2 DEF HeldAfter, HeldId, HeldIsRecorded, Has
  <1> QED BY <1>1, <1>3, <1>4 DEF HeldInv, HeldAfter

\* At the start no tombstone holds anything.
LEMMA HeldStart == Init => HeldInv
  BY DEF Init, HeldInv, HeldIsRecorded, HeldHand, HeldPlan, Has, Nothing, NoPlan, Planned, Outside

\* With one run at a time, and no mount that only a rename notices, no kill, no failed
\* call, no restore and no write of a program makes a tombstone that holds data pass
\* for empty: reconcile and compact, which forget what the index calls terminal, lose
\* sight of nothing.
THEOREM HeldAlone == Alone /\ NoSurprise => (Spec => []HeldIsRecorded)
  <1>1. SUFFICES ASSUME Alone, NoSurprise PROVE Spec => []HeldIsRecorded
    OBVIOUS
  <1>2. HeldInv /\ BaseInv /\ [Next]_vars => HeldInv'
    BY <1>1, HeldStep
  <1>3. HeldInv => HeldIsRecorded
    BY DEF HeldInv
  <1> QED BY <1>2, <1>3, HeldStart, BaseHolds, PTL DEF Spec

-----------------------------------------------------------------------------
(* What one step of a run does to index, disk and tasks                     *)

\* Every record a step writes: pending, copied, or neither.
Writes(r, i) ==
    \/ index'[i] = index[i]
    \/ /\ at[r] = "prepare" /\ FreshId(i) /\ cur'[r].id = i /\ at'[r] \in {"rename", "copy"}
       /\ index'[i].state = "pending" /\ index'[i].mode = at'[r]
    \/ /\ at[r] = "rename" /\ cur[r].id = i /\ SwitchToCopy(r)
       /\ index'[i] = [cur[r].rec EXCEPT !.mode = "copy"]
    \/ /\ at[r] = "placed" /\ cur[r].id = i /\ at'[r] = "remove" /\ cur' = cur /\ UNCHANGED disk
       /\ index'[i].state = "copied" /\ index'[i].print = cur[r].print
    \/ /\ index'[i].state \notin {"pending", "copied"}
       /\ index'[i].state = "expiring" => at[r] = "expiring" /\ i \in Planned(r)

RipeStays(r) ==
    \A i \in ripe : i \in ripe' \/ (at[r] = "prepare" /\ FreshId(i) /\ index'[i].state = "pending")

\* An append changes the record of one id, and an id that is ripe stays so.
LEMMA AppendWrites ==
  ASSUME TypeInv, NEW i \in Ids, NEW rec, Append(i, rec)
  PROVE  /\ \A j \in Ids : index'[j] = IF j = i THEN rec ELSE index[j]
         /\ \A j \in ripe : j \in ripe' \/ (j = i /\ rec.state = "pending")
  BY DEF TypeInv, Append

\* How a step of one run changes the index.
LEMMA IndexStep ==
  ASSUME BaseInv, NEW r \in Runs, RunStep(r) \/ Crash(r) \/ \E k \in Kinds : Start(r, k)
  PROVE  RipeStays(r) /\ \A i \in Ids : Writes(r, i)
  <1> DEFINE i == cur[r].id
  <1>1. /\ TypeInv /\ Hand(r) /\ cur[r].rec \in Records /\ cur[r] \in Locals
        /\ (at[r] \in Moving \cup Mending \cup Restoring => i \in Ids)
    BY HandOfEach, HandIds DEF BaseInv, Hand
  <1>2. CASE UNCHANGED journal
    BY <1>2 DEF journal, Writes, RipeStays
  <1>3. CASE Prepare(r)
    <2>1. PICK j \in Ids :
             /\ FreshId(j)
             /\ Append(j, [state |-> "pending", mode |-> at'[r],
                           missing |-> Members \ Has(src), print |-> NoPrint])
             /\ Works(r, j, [state |-> "pending", mode |-> at'[r],
                             missing |-> Members \ Has(src), print |-> NoPrint], Has(src))
      BY <1>3 DEF Prepare
    <2>2. at[r] = "prepare" /\ at'[r] \in {"rename", "copy"} /\ cur'[r].id = j
      <3>1. at[r] = "prepare" /\ at'[r] \in {"rename", "copy"}
        BY <1>1, <1>3 DEF Prepare, Goes, TypeInv
      <3>2. cur'[r].id = j
        BY <1>1, <2>1 DEF Works, TypeInv
      <3> QED BY <3>1, <3>2
    <2>3. /\ \A k \in Ids : k # j => index'[k] = index[k]
          /\ index'[j].state = "pending" /\ index'[j].mode = at'[r]
          /\ \A k \in ripe : k \in ripe' \/ k = j
      BY <1>1, <2>1, AppendWrites
    <2> QED BY <2>1, <2>2, <2>3 DEF Writes, RipeStays
  <1>4. CASE SwitchToCopy(r)
    <2>1. /\ index' = [index EXCEPT ![i] = [cur[r].rec EXCEPT !.mode = "copy"]] /\ at[r] = "rename"
          /\ ripe' = ripe
      BY <1>4 DEF SwitchToCopy, Goes
    <2> QED BY <1>1, <1>4, <2>1 DEF Writes, RipeStays, TypeInv, Moving
  <1>5. CASE MarkCopied(r)
    <2> DEFINE rec == [WithState(cur[r].rec, "copied") EXCEPT !.print = cur[r].print]
    <2>1. rec.state = "copied" /\ rec.print = cur[r].print
      BY <1>1 DEF WithState, Records
    <2>2. /\ at[r] = "placed" /\ at'[r] = "remove" /\ cur' = cur /\ UNCHANGED disk /\ i \in Ids
          /\ Append(i, rec)
      BY <1>1, <1>5 DEF MarkCopied, Goes, TypeInv, Moving
    <2> HIDE DEF rec
    <2>3. /\ \A j \in Ids : index'[j] = IF j = i THEN rec ELSE index[j]
          /\ \A j \in ripe : j \in ripe' \/ (j = i /\ rec.state = "pending")
      BY <1>1, <2>2, AppendWrites
    <2> QED BY <2>1, <2>2, <2>3 DEF Writes, RipeStays
  <1>6. ASSUME NEW j \in Ids, NEW rec \in Records, NEW s \in States \ {"pending", "copied"},
               Append(j, WithState(rec, s)), s = "expiring" => at[r] = "expiring" /\ j \in Planned(r)
        PROVE  RipeStays(r) /\ \A k \in Ids : Writes(r, k)
    <2>1. WithState(rec, s).state = s
      BY Values
    <2> QED BY <1>1, <1>6, <2>1, AppendWrites DEF Writes, RipeStays
  <1>7. CASE CopyDropped(r)
    BY <1>1, <1>2, <1>6, <1>7 DEF CopyDropped, Moving, States, Terminal
  <1>8. CASE MarkDone(r)
    BY <1>1, <1>2, <1>6, <1>8 DEF MarkDone, Moving, States, Terminal
  <1>9. CASE RecordFix(r)
    <2>1. cur[r].then \in States \ {"pending", "copied", "expiring"}
      BY <1>1 DEF Locals, Thens, States, Terminal
    <2> QED BY <1>1, <1>2, <1>6, <1>9, <2>1 DEF RecordFix, Mending
  <1>10. CASE ExpireNext(r)
    <2> DEFINE j == Min(Planned(r))
    <2>1. /\ j \in Planned(r) /\ j \in Ids /\ at[r] = "expiring"
          /\ Append(j, WithState(plan[r][j].rec, "expiring"))
      BY <1>10, PlanFound DEF ExpireNext, Goes
    <2>2. plan[r][j].rec \in Records /\ "expiring" \in States \ {"pending", "copied"}
      BY <1>1, <2>1 DEF TypeInv, Fixes, States
    <2> HIDE DEF j
    <2> QED BY <1>6, <2>1, <2>2
  <1>11. CASE BeginRestore(r)
    <2>1. PICK j \in Ids : Append(j, WithState(index[j], "restoring"))
      BY <1>11 DEF BeginRestore
    <2>2. index[j] \in Records /\ "restoring" \in States \ {"pending", "copied"}
      BY <1>1 DEF TypeInv, States
    <2> QED BY <1>6, <2>1, <2>2
  <1>12. CASE MarkRestored(r)
    BY <1>1, <1>2, <1>6, <1>12 DEF MarkRestored, Goes, Restoring, States, Terminal
  <1>13. CASE Compact(r)
    BY <1>13 DEF Compact, NoRecord, Writes, RipeStays
  <1>14. CASE LockStep(r) \/ Crash(r) \/ \E k \in Kinds : Start(r, k)
    BY <1>2, <1>14 DEF LockStep, MakeLock, AlreadyRunning, FindStale, Claim, WriteToken, Release, Crash, Start
  <1>15. CASE MoveStep(r)
    BY <1>2, <1>3, <1>4, <1>5, <1>7, <1>8, <1>15
       DEF MoveStep, Stores, PrepareStops, RenameMember, RenameStops, RenamesDone,
           Stage, StageFails, PlaceCopy, PlaceFails, RemoveSource, CopyStops, SourcesRemoved
  <1>16. CASE FixStep(r)
    BY <1>2, <1>9, <1>16
       DEF FixStep, Survey, TakeFix, ReconcileEnds, CleanDest, CleanTmp, CleanSource,
           CleanStops, CleanDone, FinishStops, FinishDone
  <1>17. CASE LaterStep(r)
    BY <1>2, <1>10, <1>11, <1>12, <1>13, <1>17
       DEF LaterStep, FindExpired, ExpireEnds, CompactFails, RestoreRefused, PutBack, Uncopy,
           RestoreStops, RestoreEnds
  <1> QED BY <1>14, <1>15, <1>16, <1>17 DEF RunStep

\* A guarded call is made with the token.
Sound(r) == Allowed(r) => Verified(r) \/ at[r] = "release" \/ at'[r] = "off"

RunOrKill(r) ==
    /\ RunStep(r) \/ Crash(r) \/ \E k \in Kinds : Start(r, k)
    /\ Sound(r) /\ SureOf(r)

\* Every guarded call on data is made with the token.
LEMMA CallsHeld ==
  ASSUME TypeInv, NEW r \in Runs, Sound(r)
  PROVE  /\ RenameMember(r) => Verified(r) \/ UNCHANGED <<src, dest>>
         /\ SwitchToCopy(r) \/ PlaceCopy(r) \/ RemoveSource(r) => Verified(r)
         /\ CleanDest(r) \/ CleanTmp(r) \/ CleanSource(r) => Verified(r)
         /\ PutBack(r) \/ Uncopy(r) \/ RestoreEnds(r) => Verified(r)
  BY DEF TypeInv, Sound, RenameMember, SwitchToCopy, CrossDevice, PlaceCopy, RemoveSource,
     CleanDest, CleanTmp, CleanSource, PutBack, Uncopy, RestoreEnds, Goes

\* Every step that changes the disk, with what it found.
Puts(r) ==
    LET i == cur[r].id
        m == Min(cur[r].left)
    IN  \/ UNCHANGED <<src, dest>>
        \/ /\ RenameMember(r) /\ Verified(r)
           /\ i \in Ids /\ m \in cur[r].left /\ m \in Members
           /\ dest[i][m] = 0 /\ src[m] # 0
           /\ src' = [src EXCEPT ![m] = 0] /\ dest' = [dest EXCEPT ![i][m] = src[m]]
        \/ /\ PlaceCopy(r) /\ i \in Ids /\ UNCHANGED src
        \/ /\ RemoveSource(r) \/ CleanSource(r)
           /\ i \in Ids /\ m \in cur[r].left /\ m \in Members
           /\ src' = [src EXCEPT ![m] = 0] /\ UNCHANGED dest
        \/ /\ CleanDest(r) /\ i \in Ids /\ UNCHANGED src /\ dest' = [dest EXCEPT ![i] = Nothing]
        \/ PutBack(r) \/ Uncopy(r) \/ RestoreEnds(r)

\* How a step of one run changes the disk: nothing but by who has the token.
LEMMA DiskStep ==
  ASSUME BaseInv, NEW r \in Runs, RunOrKill(r)
  PROVE  /\ Puts(r) /\ UNCHANGED <<layout, version>>
         /\ ~Verified(r) => UNCHANGED <<src, dest>>
         /\ \A j \in Ids : j # cur[r].id => tmp'[j] = tmp[j]
         /\ ~Verified(r) => UNCHANGED tmp \/ Stage(r)
         /\ UNCHANGED live \/ CleanDest(r)
  <1> DEFINE i == cur[r].id
  <1>1. /\ TypeInv /\ cur[r].left \in SUBSET Members
        /\ (at[r] \in Moving \cup Mending \cup Restoring => i \in Ids)
        /\ RenameMember(r) => Verified(r) \/ UNCHANGED <<src, dest>>
        /\ SwitchToCopy(r) \/ PlaceCopy(r) \/ RemoveSource(r) => Verified(r)
        /\ CleanDest(r) \/ CleanTmp(r) \/ CleanSource(r) => Verified(r)
        /\ PutBack(r) \/ Uncopy(r) \/ RestoreEnds(r) => Verified(r)
    BY HandIds, CallsHeld DEF BaseInv, HandInv, RunOrKill
  <1>2. CASE LockStep(r) \/ Crash(r) \/ \E k \in Kinds : Start(r, k)
    BY <1>2 DEF LockStep, MakeLock, AlreadyRunning, FindStale, Claim, WriteToken, Release, Crash, Start, disk, world, Puts
  <1>3. CASE MoveStep(r)
    <2>1. CASE \/ Stores(r) \/ Prepare(r) \/ PrepareStops(r) \/ RenameStops(r)
               \/ RenamesDone(r) \/ SwitchToCopy(r) \/ MarkCopied(r) \/ CopyStops(r)
               \/ SourcesRemoved(r) \/ MarkDone(r)
      BY <2>1 DEF Stores, Prepare, PrepareStops, RenameStops, RenamesDone, SwitchToCopy,
         MarkCopied, CopyStops, SourcesRemoved, MarkDone, disk, world, Puts
    <2>2. CASE Stage(r) \/ StageFails(r) \/ CopyDropped(r) \/ PlaceFails(r)
      BY <2>2, <1>1 DEF Stage, StageFails, CopyDropped, PlaceFails, Discard, world, Puts, TypeInv
    <2>3. CASE PlaceCopy(r)
      BY <1>1, <2>3 DEF PlaceCopy, Goes, Moving, world, Puts, TypeInv
    <2>4. CASE RenameMember(r)
      <3> DEFINE m == Min(cur[r].left)
      <3>1. /\ at[r] \in {"rename", "finish"} /\ i \in Ids
            /\ m \in cur[r].left /\ m \in Members
            /\ UNCHANGED <<tmp, world>>
        BY <1>1, <2>4, LeftFound DEF RenameMember, Moving, Mending
      <3>2. CASE UNCHANGED <<src, dest>>
        BY <3>1, <3>2 DEF world, Puts
      <3>3. CASE ~UNCHANGED <<src, dest>>
        <4>1. /\ m \in ToRename(r) /\ Verified(r)
              /\ src' = [src EXCEPT ![m] = 0] /\ dest' = [dest EXCEPT ![i][m] = src[m]]
          BY <1>1, <2>4, <3>3 DEF RenameMember
        <4>2. dest[i][m] = 0 /\ src[m] # 0
          BY <3>1, <4>1 DEF ToRename, RunOrKill, SureOf
        <4> QED BY <2>4, <3>1, <4>1, <4>2 DEF world, Puts
      <3> QED BY <3>2, <3>3
    <2>5. CASE RemoveSource(r)
      BY <1>1, <2>5, LeftFound DEF RemoveSource, Moving, world, Puts
    <2> QED BY <1>3, <2>1, <2>2, <2>3, <2>4, <2>5 DEF MoveStep
  <1>4. CASE FixStep(r)
    <2>1. CASE \/ Survey(r) \/ TakeFix(r) \/ ReconcileEnds(r) \/ CleanStops(r) \/ CleanDone(r)
               \/ FinishStops(r) \/ FinishDone(r) \/ RecordFix(r)
      BY <2>1 DEF Survey, TakeFix, ReconcileEnds, CleanStops, CleanDone, FinishStops,
         FinishDone, RecordFix, disk, world, Puts
    <2>2. CASE CleanDest(r)
      BY <1>1, <2>2 DEF CleanDest, Mending, Puts
    <2>3. CASE CleanTmp(r)
      BY <1>1, <2>3 DEF CleanTmp, Mending, Puts, world, TypeInv
    <2>4. CASE CleanSource(r)
      BY <1>1, <2>4, LeftFound DEF CleanSource, Mending, Puts, world
    <2> QED BY <1>4, <2>1, <2>2, <2>3, <2>4 DEF FixStep
  <1>5. CASE LaterStep(r)
    <2>1. CASE \/ FindExpired(r) \/ ExpireNext(r) \/ ExpireEnds(r) \/ Compact(r)
               \/ CompactFails(r) \/ BeginRestore(r) \/ RestoreRefused(r)
               \/ RestoreStops(r) \/ MarkRestored(r)
      BY <2>1 DEF FindExpired, ExpireNext, ExpireEnds, Compact, CompactFails,
         BeginRestore, RestoreRefused, RestoreStops, MarkRestored, disk, world, Puts
    <2>2. CASE PutBack(r) \/ Uncopy(r) \/ RestoreEnds(r)
      BY <1>1, <2>2 DEF PutBack, Uncopy, RestoreEnds, world, Puts
    <2> QED BY <1>5, <2>1, <2>2 DEF LaterStep
  <1> QED BY <1>2, <1>3, <1>4, <1>5 DEF RunStep, RunOrKill

-----------------------------------------------------------------------------
(* Movers                                                                   *)

\* The steps while every guarded call is made with the token.
SoundNext ==
    \/ \E r \in Runs : RunOrKill(r)
    \/ \E m \in Members : Write(m) \/ Delete(m)
    \/ MinutesPass \/ DaysPass \/ Still

\* A move goes on, or begins under a fresh id.
LEMMA MoverBegins ==
  ASSUME BaseInv, NEW r \in Runs, RunOrKill(r), at'[r] \in Moving
  PROVE  \/ Prepare(r)
         \/ /\ at[r] \in Moving /\ cur'[r].id = cur[r].id
            /\ at'[r] = "rename" => RenameMember(r)
            /\ at'[r] = "copy" => SwitchToCopy(r)
            /\ at'[r] = "staged" => Stage(r)
            /\ at'[r] = "placed" => PlaceCopy(r)
            /\ at'[r] = "remove" => MarkCopied(r) \/ RemoveSource(r)
            /\ at'[r] = "done" => RenamesDone(r) \/ SourcesRemoved(r)
  <1>1. /\ at \in [Runs -> Places] /\ cur \in [Runs -> Locals] /\ Hand(r) /\ cur[r] \in Locals
        /\ TypeInv
    BY HandOfEach DEF BaseInv, TypeInv
  <1> USE DEF Goes, Moving
  <1>2. CASE LockStep(r) \/ Crash(r) \/ \E k \in Kinds : Start(r, k)
    BY <1>1, <1>2 DEF LockStep, MakeLock, AlreadyRunning, FindStale, Claim, WriteToken, Release, Crash, Start
  <1>3. CASE MoveStep(r)
    <2>1. CASE \/ Stores(r) \/ PrepareStops(r) \/ RenameStops(r) \/ StageFails(r)
               \/ CopyDropped(r) \/ PlaceFails(r) \/ CopyStops(r) \/ MarkDone(r)
      BY <1>1, <2>1 DEF Stores, PrepareStops, RenameStops, StageFails, CopyDropped, PlaceFails,
         CopyStops, MarkDone, EndMove
    <2>2. CASE RenameMember(r) \/ RemoveSource(r)
      <3>1. cur'[r].id = cur[r].id /\ at' = at
        BY <1>1, <2>2 DEF RenameMember, RemoveSource, DoneWith, Locals
      <3> QED BY <2>2, <3>1 DEF RenameMember, RemoveSource
    <2>3. CASE Stage(r)
      BY <1>1, <2>3 DEF Stage, Locals
    <2>4. CASE SwitchToCopy(r)
      BY <1>1, <2>4 DEF SwitchToCopy, Works
    <2>5. CASE RenamesDone(r) \/ PlaceCopy(r) \/ MarkCopied(r) \/ SourcesRemoved(r)
      BY <1>1, <2>5 DEF RenamesDone, PlaceCopy, MarkCopied, SourcesRemoved
    <2> QED BY <1>3, <2>1, <2>2, <2>3, <2>4, <2>5 DEF MoveStep
  <1>4. CASE FixStep(r)
    <2>1. CASE TakeFix(r)
      <3>1. Min(Planned(r)) \in Ids /\ Min(Planned(r)) \in Planned(r)
        BY <2>1, PlanFound DEF TakeFix
      <3>2. plan[r][Min(Planned(r))] \in Fixes
        BY <1>1, <3>1 DEF TypeInv
      <3>3. at'[r] \notin Moving
        BY <1>1, <2>1, <3>2 DEF TakeFix, Fixes
      <3> QED BY <3>3
    <2>2. CASE CleanStops(r) \/ FinishStops(r) \/ RecordFix(r)
      BY <1>1, <2>2 DEF CleanStops, FinishStops, RecordFix, FixEnds, Hand, Mending
    <2> QED BY <1>1, <1>4, <2>1, <2>2 DEF FixStep, Survey, ReconcileEnds, CleanDest, CleanTmp,
               CleanSource, CleanDone, FinishDone
  <1>5. CASE LaterStep(r)
    BY <1>1, <1>5 DEF LaterStep, FindExpired, ExpireNext, ExpireEnds, Compact, CompactFails,
       BeginRestore, RestoreRefused, PutBack, Uncopy, RestoreStops, RestoreEnds, MarkRestored
  <1> QED BY <1>2, <1>3, <1>4, <1>5 DEF RunStep, RunOrKill

\* A move begins with a fresh id and all that is at the source.
LEMMA PrepareFacts ==
  ASSUME BaseInv, NEW r \in Runs, Prepare(r)
  PROVE  \E j \in Ids :
            /\ FreshId(j) /\ at[r] = "prepare" /\ at'[r] \in {"rename", "copy"}
            /\ cur'[r].id = j /\ cur'[r].left = Has(src) /\ cur'[r].print = NoPrint
            /\ cur'[r].rec = [state |-> "pending", mode |-> at'[r],
                              missing |-> Members \ Has(src), print |-> NoPrint]
            /\ index'[j] = cur'[r].rec
            /\ \A k \in Ids : k # j => index'[k] = index[k]
            /\ at'[r] = "rename" => Has(src) \cap layout.far = {}
            /\ UNCHANGED <<src, dest, tmp, lock, plan, version, layout, live>>
  <1>1. PICK j \in Ids :
           /\ FreshId(j)
           /\ Append(j, [state |-> "pending", mode |-> at'[r],
                         missing |-> Members \ Has(src), print |-> NoPrint])
           /\ Works(r, j, [state |-> "pending", mode |-> at'[r],
                           missing |-> Members \ Has(src), print |-> NoPrint], Has(src))
    BY DEF Prepare
  <1>2. /\ at[r] = "prepare" /\ at'[r] \in {"rename", "copy"}
        /\ at'[r] = "rename" => Has(src) \cap layout.far = {}
        /\ UNCHANGED <<src, dest, tmp, lock, plan, version, layout, live>>
    BY DEF Prepare, Goes, BaseInv, TypeInv, disk, world
  <1> DEFINE rec == [state |-> "pending", mode |-> at'[r],
                     missing |-> Members \ Has(src), print |-> NoPrint]
  <1>3. Append(j, rec) /\ Works(r, j, rec, Has(src))
    BY <1>1
  <1> HIDE DEF rec
  <1>4. \A k \in Ids : index'[k] = IF k = j THEN rec ELSE index[k]
    BY <1>3, AppendWrites DEF BaseInv
  <1>5. /\ cur'[r].id = j /\ cur'[r].left = Has(src) /\ cur'[r].print = NoPrint
        /\ cur'[r].rec = rec
    BY <1>3 DEF Works, BaseInv, TypeInv, Idle
  <1>6. cur'[r].rec = [state |-> "pending", mode |-> at'[r],
                       missing |-> Members \ Has(src), print |-> NoPrint]
    BY <1>5 DEF rec
  <1> QED BY <1>1, <1>2, <1>4, <1>5, <1>6

\* A run's step leaves the moves of the others in order ...
LEMMA MoverOthers ==
  ASSUME BaseInv, MoverInv, NEW r \in Runs, RunOrKill(r), NEW q \in Runs, q # r
  PROVE  MoverOf(q)'
  <1> DEFINE i == cur[q].id
  <1> SUFFICES ASSUME at'[q] \in Moving PROVE MoverOf(q)'
    BY DEF MoverOf
  <1>1. /\ at'[q] = at[q] /\ at[q] \in Moving /\ cur'[q] = cur[q] /\ i \in Ids /\ layout' = layout
        /\ \A p \in Runs \ {r} : at'[p] = at[p] /\ cur'[p] = cur[p]
    BY StepOfOne, DiskStep DEF OnlyRun, BaseInv, HandInv, RunOrKill
  <1>2. MoverOf(q) /\ ~Mover(r, i)
    BY <1>1 DEF MoverInv, MoverOf
  <1>3. ~Mover(r, i)'
    <2>1. CASE Prepare(r)
      <3>1. PICK j \in Ids : FreshId(j) /\ cur'[r].id = j
        BY <2>1, PrepareFacts
      <3> QED BY <1>1, <3>1 DEF Mover, FreshId
    <2> QED BY <1>1, <1>2, <2>1, MoverBegins DEF Mover
  <1>4. \A p \in Runs : Mover(p, i)' => p = q
    BY <1>1, <1>2, <1>3 DEF MoverOf, Mover
  <1>5. Writes(r, i)
    BY <1>1, IndexStep DEF RunOrKill
  <1>6. index'[i] = index[i] \/ index'[i].state \notin {"pending", "copied"}
    BY <1>2, <1>5 DEF Writes, FreshId, Mover, Moving
  <1>7. PendingIn("copy", i)' => PendingIn("copy", i)
    BY <1>1, <1>6 DEF PendingIn
  <1> QED BY <1>1, <1>2, <1>4, <1>6, <1>7 DEF MoverOf

\* ... and its own.
LEMMA MoverOwn ==
  ASSUME BaseInv, MoverInv, NEW r \in Runs, RunOrKill(r)
  PROVE  MoverOf(r)'
  <1> DEFINE i == cur[r].id
  <1> SUFFICES ASSUME at'[r] \in Moving PROVE MoverOf(r)'
    BY DEF MoverOf
  <1>1. /\ TypeInv /\ layout' = layout
        /\ \A p \in Runs \ {r} : at'[p] = at[p] /\ cur'[p] = cur[p]
    BY StepOfOne, DiskStep DEF OnlyRun, BaseInv, RunOrKill
  <1>2. CASE Prepare(r)
    <2>1. PICK j \in Ids :
            /\ FreshId(j) /\ at'[r] \in {"rename", "copy"}
            /\ cur'[r].id = j /\ cur'[r].left = Has(src)
            /\ cur'[r].rec = [state |-> "pending", mode |-> at'[r],
                              missing |-> Members \ Has(src), print |-> NoPrint]
            /\ index'[j] = cur'[r].rec
            /\ at'[r] = "rename" => Has(src) \cap layout.far = {}
      BY <1>2, PrepareFacts
    <2>2. cur'[r].rec.state = "pending" /\ cur'[r].rec.mode = at'[r]
      BY <2>1
    <2>3. \A p \in Runs : Mover(p, j)' => p = r
      BY <1>1, <2>1 DEF Mover, FreshId
    <2> QED BY <1>1, <2>1, <2>2, <2>3 DEF MoverOf
  <1>3. CASE ~Prepare(r)
    <2>1. /\ at[r] \in Moving /\ cur'[r].id = i
          /\ at'[r] = "rename" => RenameMember(r)
          /\ at'[r] = "copy" => SwitchToCopy(r)
          /\ at'[r] = "staged" => Stage(r)
          /\ at'[r] = "placed" => PlaceCopy(r)
          /\ at'[r] = "remove" => MarkCopied(r) \/ RemoveSource(r)
          /\ at'[r] = "done" => RenamesDone(r) \/ SourcesRemoved(r)
      BY <1>3, MoverBegins
    <2>2. /\ MoverOf(r) /\ i \in Ids /\ cur[r] \in Locals /\ cur[r].rec \in Records
          /\ cur \in [Runs -> Locals] /\ at \in [Runs -> Places]
      BY <2>1, HandIds DEF MoverInv, BaseInv, HandInv, TypeInv
    <2>3. \A p \in Runs : Mover(p, i)' => p = r
      BY <1>1, <2>1, <2>2 DEF Mover, MoverOf
    <2>4. CASE RenameMember(r) /\ at'[r] = "rename"
      <3>1. /\ at[r] = "rename" /\ index' = index /\ cur'[r].rec = cur[r].rec
            /\ cur'[r].left \subseteq cur[r].left
        BY <2>2, <2>4 DEF RenameMember, DoneWith, Locals, journal
      <3> QED BY <1>1, <2>1, <2>2, <2>3, <2>4, <3>1 DEF MoverOf
    <2>5. CASE SwitchToCopy(r) /\ at'[r] = "copy"
      <3>1. /\ at[r] = "rename" /\ index'[i] = [cur[r].rec EXCEPT !.mode = "copy"]
            /\ cur'[r].rec = index'[i]
        BY <1>1, <2>2, <2>5 DEF SwitchToCopy, Goes, Works, TypeInv
      <3>2. cur'[r].rec.mode = "copy" /\ index'[i].state = "pending"
        BY <2>2, <3>1 DEF Records, MoverOf, Moving
      <3> QED BY <2>1, <2>2, <2>3, <2>5, <3>1, <3>2 DEF MoverOf
    <2>6. CASE (Stage(r) /\ at'[r] = "staged") \/ (PlaceCopy(r) /\ at'[r] = "placed")
      <3>1. at[r] \in {"copy", "staged"} /\ index' = index /\ cur'[r].rec = cur[r].rec
        BY <2>2, <2>6 DEF Stage, PlaceCopy, Goes, Locals, journal
      <3> QED BY <1>1, <2>1, <2>2, <2>3, <2>6, <3>1 DEF MoverOf
    <2>7. CASE MarkCopied(r) /\ at'[r] = "remove"
      <3>1. at[r] = "placed" /\ cur' = cur
        BY <2>7 DEF MarkCopied, Goes
      <3>2. index'[i].state # "pending"
        <4>1. Append(i, [WithState(cur[r].rec, "copied") EXCEPT !.print = cur[r].print])
          BY <2>7 DEF MarkCopied
        <4>2. [WithState(cur[r].rec, "copied") EXCEPT !.print = cur[r].print].state = "copied"
          BY <2>2 DEF WithState, Records
        <4> DEFINE rec == [WithState(cur[r].rec, "copied") EXCEPT !.print = cur[r].print]
        <4>3. Append(i, rec) /\ rec.state = "copied"
          BY <4>1, <4>2
        <4> HIDE DEF rec
        <4> QED BY <1>1, <2>2, <4>3, AppendWrites
      <3> QED BY <2>1, <2>2, <2>3, <2>7, <3>1, <3>2 DEF MoverOf
    <2>8. CASE RemoveSource(r) /\ at'[r] = "remove"
      <3>1. /\ at[r] = "remove" /\ index' = index /\ cur'[r].rec = cur[r].rec
        BY <2>2, <2>8 DEF RemoveSource, DoneWith, Locals, journal
      <3> QED BY <2>1, <2>2, <2>3, <2>8, <3>1 DEF MoverOf
    <2>9. CASE (RenamesDone(r) \/ SourcesRemoved(r)) /\ at'[r] = "done"
      <3>1. /\ at[r] \in {"rename", "remove"} /\ index' = index
        BY <2>9 DEF RenamesDone, SourcesRemoved, Goes, journal
      <3> QED BY <2>1, <2>2, <2>3, <2>9, <3>1 DEF MoverOf, PendingIn
    <2> QED BY <2>1, <2>4, <2>5, <2>6, <2>7, <2>8, <2>9 DEF Moving
  <1> QED BY <1>2, <1>3

\* Every step keeps the moves in order.
LEMMA MoverStep ==
  ASSUME BaseInv, MoverInv, SoundNext
  PROVE  MoverInv'
  <1>1. CASE \E r \in Runs : RunOrKill(r)
    BY <1>1, MoverOwn, MoverOthers DEF MoverInv
  <1>2. CASE \/ \E m \in Members : Write(m) \/ Delete(m)
             \/ MinutesPass \/ DaysPass \/ Still
    <2>1. at' = at /\ cur' = cur
      BY <1>2, OutsideRuns DEF BaseInv
    <2>2. UNCHANGED <<index, layout>>
      BY <1>2 DEF Write, Delete, MinutesPass, DaysPass, Still, journal, world
    <2> QED BY <2>1, <2>2 DEF MoverInv, MoverOf, Mover, PendingIn
  <1> QED BY <1>1, <1>2 DEF SoundNext

-----------------------------------------------------------------------------
(* Tasks                                                                    *)

Lessens(r, i) ==
    /\ Task(r, i)'.op = Task(r, i).op /\ Task(r, i)'.then = Task(r, i).then
    /\ Task(r, i)'.away \subseteq Task(r, i).away /\ Task(r, i)'.left \subseteq Task(r, i).left

\* A task is worked off or given up, except where a run takes a look.
Tasks(r, i) ==
    \/ Task(r, i)' = NoFix
    \/ Lessens(r, i)
    \/ Survey(r) /\ Task(r, i)' = Diagnose(i)
    \/ FindExpired(r) /\ Expirable(i)
       /\ Task(r, i)' = Cleanup(index[i], {"dest"}, {}, "expired")

\* Where a run has no task.
LEMMA NoTask ==
  ASSUME HandInv, NEW r \in Runs, NEW i \in Ids,
         \/ at[r] \notin Mending \cup {"fix", "expiring"}
         \/ i \notin Planned(r) /\ (cur[r].id # i \/ at[r] \notin {"clean", "finish"})
  PROVE  Task(r, i) = NoFix
  BY DEF HandInv, Planned, Mending, Task

\* A fresh id has no task.
LEMMA FreshTask ==
  ASSUME HandInv, NEW r \in Runs, NEW i \in Ids, FreshId(i)
  PROVE  Task(r, i) = NoFix
  BY NoTask DEF FreshId

\* What a place outside the repairs leaves of the tasks.
LEMMA TaskPlace ==
  ASSUME NEW r \in Runs, NEW i \in Ids, UNCHANGED plan, at'[r] \notin {"clean", "finish"},
         \/ at[r] \notin {"clean", "finish"}
         \/ HandInv
  PROVE  Task(r, i)' = Task(r, i) \/ Task(r, i)' = NoFix
  BY DEF Task, HandInv, Planned

\* An unchanged task has not grown.
LEMMA SameLessens ==
  ASSUME NEW r \in Runs, NEW i \in Ids, Task(r, i)' = Task(r, i)
  PROVE  Lessens(r, i)
  BY DEF Lessens

\* A task that is taken up is the one that was planned.
LEMMA TakenTask ==
  ASSUME BaseInv, NEW r \in Runs, at[r] \in {"fix", "expiring"}, Planned(r) # {},
         NEW back, Takes(r, Min(Planned(r)), back), at'[r] = plan[r][Min(Planned(r))].op,
         NEW i \in Ids
  PROVE  Task(r, i)' = NoFix \/ Lessens(r, i)
  <1> DEFINE k == Min(Planned(r))
             f == plan[r][k]
  <1>1. /\ k \in Ids /\ k \in Planned(r) /\ TypeInv
        /\ plan \in [Runs -> [Ids -> Fixes]] /\ cur \in [Runs -> Locals]
    BY PlanFound DEF BaseInv, TypeInv
  <1>2. /\ plan' = [plan EXCEPT ![r][k] = NoFix]
        /\ cur'[r].id = k /\ cur'[r].left = f.left /\ cur'[r].away = f.away
        /\ cur'[r].then = f.then
    BY <1>1 DEF Takes
  <1>3. plan'[r][i] = IF i = k THEN NoFix ELSE plan[r][i]
    BY <1>1, <1>2
  <1>4. Task(r, i) = plan[r][i]
    BY DEF Task
  <1> HIDE DEF k, f
  <1>5. CASE i # k
    <2>1. Task(r, i)' = plan'[r][i]
      BY <1>2, <1>5 DEF Task
    <2> QED BY <1>3, <1>4, <1>5, <2>1, SameLessens
  <1>6. CASE i = k /\ at'[r] \in {"clean", "finish"}
    <2>1. /\ Task(r, i)'.op = at'[r] /\ Task(r, i)'.then = f.then
          /\ Task(r, i)'.away = f.away /\ Task(r, i)'.left = f.left
      BY <1>2, <1>6 DEF Task
    <2>2. at'[r] = f.op /\ Task(r, i) = f
      BY <1>4, <1>6 DEF k, f
    <2> QED BY <2>1, <2>2 DEF Lessens
  <1>7. CASE i = k /\ at'[r] \notin {"clean", "finish"}
    BY <1>3, <1>7 DEF Task
  <1> QED BY <1>5, <1>6, <1>7

\* A step ends a task, goes on with it, or plans it by what it sees.
LEMMA TaskStep ==
  ASSUME BaseInv, NEW r \in Runs, ExpiryOf(r), RunOrKill(r), NEW i \in Ids
  PROVE  Tasks(r, i)
  <1>1. /\ TypeInv /\ HandInv /\ Hand(r) /\ at \in [Runs -> Places] /\ cur \in [Runs -> Locals]
        /\ plan \in [Runs -> [Ids -> Fixes]] /\ cur[r] \in Locals
    BY HandOfEach DEF BaseInv, TypeInv
  <1>2. CASE at'[r] \notin {"clean", "finish"} /\ UNCHANGED plan
    BY <1>1, <1>2, TaskPlace, SameLessens DEF Tasks
  <1>3. CASE at'[r] \notin {"clean", "finish"} /\ plan'[r] = NoPlan
    BY <1>3 DEF Tasks, Task, NoPlan
  <1> USE DEF Goes
  <1>4. CASE LockStep(r) \/ Crash(r) \/ \E k \in Kinds : Start(r, k)
    BY <1>1, <1>2, <1>3, <1>4 DEF LockStep, MakeLock, AlreadyRunning, FindStale, Claim, WriteToken, Release,
       Crash, Start, Quit
  <1>5. CASE MoveStep(r)
    <2>1. CASE RenameMember(r) /\ at[r] = "finish"
      <3>1. /\ plan' = plan /\ at' = at
            /\ cur'[r].id = cur[r].id /\ cur'[r].then = cur[r].then /\ cur'[r].away = cur[r].away
            /\ cur'[r].left \subseteq cur[r].left
        BY <1>1, <2>1 DEF RenameMember, DoneWith, Locals
      <3>2. Lessens(r, i)
        BY <2>1, <3>1 DEF Lessens, Task
      <3> QED BY <3>2 DEF Tasks
    <2>2. CASE ~(RenameMember(r) /\ at[r] = "finish")
      BY <1>1, <1>2, <1>5, <2>2 DEF MoveStep, Stores, Prepare, PrepareStops,
         RenameMember, RenameStops, RenamesDone, SwitchToCopy, Stage, StageFails, CopyDropped,
         PlaceCopy, PlaceFails, MarkCopied, RemoveSource, CopyStops, SourcesRemoved, MarkDone,
         EndMove
    <2> QED BY <2>1, <2>2
  <1>6. CASE FixStep(r)
    <2>1. CASE Survey(r)
      <3>1. plan'[r] = [j \in Ids |-> Diagnose(j)] /\ at'[r] = "fix"
        BY <1>1, <2>1 DEF Survey
      <3> QED BY <2>1, <3>1 DEF Tasks, Task
    <2>2. CASE TakeFix(r)
      <3>1. at'[r] = plan[r][Min(Planned(r))].op
        BY <1>1, <2>2 DEF TakeFix
      <3> QED BY <2>2, <3>1, TakenTask DEF TakeFix, Tasks
    <2>3. CASE CleanDest(r) \/ CleanTmp(r) \/ CleanSource(r)
      <3>1. /\ plan' = plan /\ at' = at /\ at[r] = "clean"
            /\ cur'[r].id = cur[r].id /\ cur'[r].then = cur[r].then
            /\ cur'[r].away \subseteq cur[r].away /\ cur'[r].left \subseteq cur[r].left
        <4>1. CASE CleanDest(r)
          BY <1>1, <4>1 DEF CleanDest, Locals
        <4>2. CASE CleanTmp(r)
          BY <1>1, <4>2 DEF CleanTmp, Locals
        <4>3. CASE CleanSource(r)
          BY <1>1, <4>3 DEF CleanSource, DoneWith, Locals
        <4> QED BY <2>3, <4>1, <4>3, <4>2
      <3>2. Lessens(r, i)
        BY <3>1 DEF Lessens, Task
      <3> QED BY <3>2 DEF Tasks
    <2>4. CASE CleanStops(r) \/ FinishStops(r) \/ RecordFix(r)
      <3>1. FixEnds(r) /\ at[r] \in Mending
        BY <2>4 DEF CleanStops, FinishStops, RecordFix, Mending
      <3>2. at'[r] \notin {"clean", "finish"} /\ plan' = plan
        BY <1>1, <3>1 DEF FixEnds, Hand
      <3> QED BY <1>2, <3>2
    <2>5. CASE ReconcileEnds(r) \/ CleanDone(r) \/ FinishDone(r)
      BY <1>1, <1>2, <2>5 DEF ReconcileEnds, CleanDone, FinishDone
    <2> QED BY <1>6, <2>1, <2>2, <2>3, <2>4, <2>5 DEF FixStep
  <1>7. CASE LaterStep(r)
    <2>1. CASE FindExpired(r)
      <3>1. /\ at'[r] = "expiring"
            /\ plan'[r][i] = IF Expirable(i) THEN Cleanup(index[i], {"dest"}, {}, "expired") ELSE NoFix
        BY <1>1, <2>1 DEF FindExpired
      <3> QED BY <2>1, <3>1 DEF Tasks, Task
    <2>2. CASE ExpireNext(r)
      <3>1. Min(Planned(r)) \in Planned(r) /\ at[r] = "expiring" /\ at'[r] = "clean"
        BY <1>1, <2>2, PlanFound DEF ExpireNext
      <3>2. at'[r] = plan[r][Min(Planned(r))].op
        BY <3>1 DEF ExpiryOf
      <3> QED BY <2>2, <3>1, <3>2, TakenTask DEF ExpireNext, Tasks
    <2>3. CASE ~FindExpired(r) /\ ~ExpireNext(r)
      BY <1>1, <1>2, <1>3, <1>7, <2>3 DEF LaterStep, ExpireEnds, Compact, CompactFails, BeginRestore,
         RestoreRefused, PutBack, Uncopy, RestoreStops, RestoreEnds, MarkRestored
    <2> QED BY <2>1, <2>2, <2>3
  <1> QED BY <1>4, <1>5, <1>6, <1>7 DEF RunStep, RunOrKill

\* A run gets its token once, when it has nothing to do yet.
LEMMA TokenStep ==
  ASSUME BaseInv, NEW r \in Runs, RunOrKill(r), Verified(r)'
  PROVE  \/ Verified(r)
         \/ at[r] = "token" /\ at'[r] \in {"prepare", "survey"} /\ WriteToken(r)
  <1>1. lock.token \in Runs \cup {NoRun, Gone} /\ r \notin {NoRun, Gone} /\ TypeInv
        /\ lock \in [dir : BOOLEAN, token : Runs \cup {NoRun, Gone}, stale : BOOLEAN]
    BY TombstonesAssumption DEF BaseInv, TypeInv
  <1> USE DEF Verified, Goes, EndMove, FixEnds, Touch
  <1>2. CASE LockStep(r)
    BY <1>1, <1>2 DEF LockStep, MakeLock, AlreadyRunning, FindStale, Claim, WriteToken, Release, TypeInv
  <1>3. CASE Crash(r) \/ \E k \in Kinds : Start(r, k)
    BY <1>1, <1>3 DEF Crash, Start
  <1>4. CASE MoveStep(r)
    <2>1. lock'.token = lock.token
      BY <1>1, <1>4 DEF MoveStep, Stores, Prepare, PrepareStops,
         RenameMember, RenameStops, RenamesDone, SwitchToCopy, Stage, StageFails, CopyDropped,
         PlaceCopy, PlaceFails, MarkCopied, RemoveSource, CopyStops, SourcesRemoved, MarkDone
    <2> QED BY <2>1
  <1>5. CASE FixStep(r)
    BY <1>1, <1>5 DEF FixStep, Survey, TakeFix, ReconcileEnds, CleanDest, CleanTmp, CleanSource,
       CleanStops, CleanDone, FinishStops, FinishDone, RecordFix
  <1>6. CASE LaterStep(r)
    BY <1>1, <1>6 DEF LaterStep, FindExpired, ExpireNext, ExpireEnds, Compact, CompactFails,
       BeginRestore, RestoreRefused, PutBack, Uncopy, RestoreStops, RestoreEnds, MarkRestored
  <1> QED BY <1>2, <1>3, <1>4, <1>5, <1>6 DEF RunStep, RunOrKill

-----------------------------------------------------------------------------
(* Clocks                                                                   *)

ClockDisk ==
    /\ \A m \in Members : src[m] <= version
    /\ \A i \in Ids, m \in Members : dest[i][m] <= version /\ tmp[i][m] <= version

ClockIndex == \A i \in Ids : index[i].print.mtime <= version
ClockRun(r) == cur[r].print.mtime <= version /\ cur[r].rec.print.mtime <= version
ClockPlan(r) == \A i \in Ids : plan[r][i].rec.print.mtime <= version

\* ClockInv by the places where times are kept.
LEMMA ClockParts ==
  ClockInv <=> /\ ClockDisk /\ ClockIndex /\ \A r \in Runs : ClockRun(r) /\ ClockPlan(r)
               /\ \A d \in live : d[2] # 0
  BY DEF ClockInv, ClockDisk, ClockIndex, ClockRun, ClockPlan

\* No data has no time.
LEMMA Prints0 ==
  ASSUME BaseInv
  PROVE  /\ version \in Nat /\ 0 <= version
         /\ NoPrint.mtime = 0 /\ NoRecord.print.mtime = 0 /\ NoFix.rec.print.mtime = 0
         /\ Idle.print.mtime = 0 /\ Idle.rec.print.mtime = 0
         /\ \A rec \in Records, s \in States : WithState(rec, s).print = rec.print
  <1>1. version \in 1 .. MaxWrites + 1
    BY DEF BaseInv, TypeInv
  <1>2. \A rec \in Records, s \in States : WithState(rec, s).print = rec.print
    BY DEF WithState, Records
  <1> QED BY <1>1, <1>2, Sizes DEF NoPrint, NoRecord, NoFix, Idle

\* A repair starts from the record in the index.
LEMMA DiagnosedRec ==
  ASSUME TypeInv, NEW i \in Ids
  PROVE  Diagnose(i) = NoFix \/ Diagnose(i).rec = index[i]
  <1>1. index[i].state \in Terminal \cup {"none", "pending", "copied", "done", "expiring", "restoring"}
    BY DEF TypeInv, Records, States
  <1>2. index[i].state = "pending" => index[i].mode \in {"rename", "copy"}
    BY DEF TypeInv, Records
  <1>3. CASE index[i].state = "pending"
    <2>1. Diagnose(i) = DiagnosePending(i, index[i], Has(src) # {}, Has(dest[i]) # {})
      BY <1>3, Diagnosed
    <2> QED BY <1>2, <1>3, <2>1 DEF DiagnosePending, Mark, Cleanup, FinishRenames
  <1>4. CASE index[i].state = "copied"
    <2>1. Diagnose(i) = DiagnoseCopied(index[i], Has(src) # {}, Has(dest[i]) # {})
      BY <1>4, Diagnosed
    <2> QED BY <2>1 DEF DiagnoseCopied, FinishCopied, Mark, Cleanup
  <1>5. CASE index[i].state = "restoring"
    <2>1. Diagnose(i) = DiagnoseRestoring(index[i], Has(src) # {}, Has(dest[i]) # {})
      BY <1>5, Diagnosed
    <2> QED BY <2>1 DEF DiagnoseRestoring, Mark, Cleanup
  <1>6. CASE index[i].state \in {"done", "expiring"}
    BY <1>6, Diagnosed DEF Mark, Cleanup
  <1>7. CASE index[i].state \in Terminal \cup {"none"}
    BY <1>7, Diagnosed
  <1> QED BY <1>1, <1>3, <1>4, <1>5, <1>6, <1>7

\* No version on the disk is newer than the last write, ...
LEMMA ClockDiskStep ==
  ASSUME BaseInv, ClockInv, NEW r \in Runs, RunOrKill(r)
  PROVE  ClockDisk'
  <1> DEFINE i == cur[r].id
  <1>1. /\ Puts(r) /\ version' = version /\ version \in Nat /\ 0 <= version /\ ClockDisk
        /\ src \in [Members -> Versions] /\ dest \in [Ids -> [Members -> Versions]]
        /\ tmp \in [Ids -> [Members -> Versions]] /\ Nothing \in [Members -> Versions]
        /\ (at[r] \in Moving \cup Mending \cup Restoring => i \in Ids)
        /\ cur[r].left \in SUBSET Members
    BY DiskStep, Prints0, ClockParts, Values, HandIds DEF RunOrKill, BaseInv, TypeInv, HandInv
  <1>2. \A m \in Members : src'[m] = src[m] \/ src'[m] = 0 \/ (i \in Ids /\ src'[m] = dest[i][m])
    <2>1. CASE PutBack(r)
      BY <1>1, <2>1, LeftFound DEF PutBack, Restoring
    <2>2. CASE Uncopy(r) \/ RestoreEnds(r)
      BY <2>2 DEF Uncopy, RestoreEnds
    <2> QED BY <1>1, <2>1, <2>2 DEF Puts
  <1>3. ASSUME NEW j \in Ids, NEW m \in Members
        PROVE  dest'[j][m] = dest[j][m] \/ dest'[j][m] = 0 \/ dest'[j][m] = src[m]
               \/ dest'[j][m] = tmp[j][m]
    <2>1. CASE PlaceCopy(r)
      BY <1>1, <2>1 DEF PlaceCopy
    <2>2. CASE PutBack(r) \/ Uncopy(r)
      <3>1. dest' = dest \/ \E k : dest' = [dest EXCEPT ![i][k] = 0]
        BY <2>2 DEF PutBack, Uncopy
      <3>2. ASSUME NEW k, dest' = [dest EXCEPT ![i][k] = 0]
            PROVE  dest'[j][m] = dest[j][m] \/ dest'[j][m] = 0
        <4>1. dest[j] \in [Members -> Versions] /\ dest \in [Ids -> [Members -> Versions]]
          BY <1>1
        <4>2. dest'[j] = IF j = i THEN [dest[j] EXCEPT ![k] = 0] ELSE dest[j]
          BY <3>2, <4>1
        <4> QED BY <4>1, <4>2
      <3> QED BY <3>1, <3>2
    <2>3. CASE RestoreEnds(r)
      BY <1>1, <2>3 DEF RestoreEnds, Nothing
    <2>4. CASE CleanDest(r) /\ dest' = [dest EXCEPT ![i] = Nothing]
      BY <1>1, <2>4 DEF Nothing
    <2>5. CASE /\ dest' = [dest EXCEPT ![i][Min(cur[r].left)] = src[Min(cur[r].left)]]
               /\ i \in Ids /\ Min(cur[r].left) \in Members
      BY <1>1, <2>5
    <2>6. CASE UNCHANGED dest
      BY <2>6
    <2> QED BY <1>1, <2>1, <2>2, <2>3, <2>4, <2>5, <2>6 DEF Puts
  <1>4. ASSUME NEW j \in Ids, NEW m \in Members
        PROVE  tmp'[j][m] = tmp[j][m] \/ tmp'[j][m] = 0 \/ tmp'[j][m] = src[m]
    <2>1. tmp' = tmp \/ tmp' = [tmp EXCEPT ![i] = Nothing] \/ tmp' = [tmp EXCEPT ![i] = src]
      <3>1. CASE MoveStep(r)
        BY <3>1 DEF MoveStep, Stores, Prepare, PrepareStops,
         RenameMember, RenameStops, RenamesDone, SwitchToCopy, Stage, StageFails, CopyDropped,
         PlaceCopy, PlaceFails, MarkCopied, RemoveSource, CopyStops, SourcesRemoved, MarkDone,
         Discard, disk
      <3>2. CASE FixStep(r)
        BY <3>2 DEF FixStep, Survey, TakeFix, ReconcileEnds, CleanDest, CleanTmp, CleanSource,
           CleanStops, CleanDone, FinishStops, FinishDone, RecordFix, disk
      <3>3. CASE LaterStep(r)
        BY <3>3 DEF LaterStep, FindExpired, ExpireNext, ExpireEnds, Compact, CompactFails,
           BeginRestore, RestoreRefused, PutBack, Uncopy, RestoreStops, RestoreEnds, MarkRestored,
           disk
      <3>4. CASE LockStep(r) \/ Crash(r) \/ \E k \in Kinds : Start(r, k)
        BY <3>4 DEF LockStep, MakeLock, AlreadyRunning, FindStale, Claim, WriteToken, Release,
           Crash, Start, disk
      <3> QED BY <3>1, <3>2, <3>3, <3>4 DEF RunOrKill, RunStep
    <2> QED BY <1>1, <2>1 DEF Nothing
  <1>5. \A m \in Members : src'[m] <= version
    BY <1>1, <1>2 DEF ClockDisk
  <1>6. \A j \in Ids, m \in Members : dest'[j][m] <= version
    BY <1>1, <1>3 DEF ClockDisk
  <1>7. \A j \in Ids, m \in Members : tmp'[j][m] <= version
    BY <1>1, <1>4 DEF ClockDisk
  <1> QED BY <1>1, <1>5, <1>6, <1>7 DEF ClockDisk

\* ... no fingerprint in the index, ...
LEMMA ClockIndexStep ==
  ASSUME BaseInv, ClockInv, NEW r \in Runs, RunOrKill(r)
  PROVE  ClockIndex'
  <1> DEFINE i == cur[r].id
  <1>1. /\ version' = version /\ TypeInv /\ ClockIndex /\ ClockRun(r) /\ ClockPlan(r)
        /\ cur[r] \in Locals /\ cur[r].rec \in Records
        /\ NoPrint.mtime <= version /\ NoRecord.print.mtime <= version
        /\ (at[r] \in Moving \cup Mending \cup Restoring => i \in Ids)
    BY DiskStep, Prints0, ClockParts, HandIds DEF RunOrKill, BaseInv, HandInv
  <1>2. CASE UNCHANGED journal
    BY <1>1, <1>2 DEF journal, ClockIndex
  <1>3. ASSUME NEW j \in Ids, NEW rec, Append(j, rec), rec.print.mtime <= version PROVE ClockIndex'
    BY <1>1, <1>3, AppendWrites DEF ClockIndex
  <1>4. ASSUME NEW j \in Ids, NEW rec \in Records, NEW s \in States, Append(j, WithState(rec, s)),
               rec.print.mtime <= version
        PROVE  ClockIndex'
    <2>1. WithState(rec, s).print.mtime <= version
      BY <1>4, Prints0
    <2> QED BY <1>3, <1>4, <2>1
  <1>5. CASE Prepare(r)
    <2>1. PICK j \in Ids : /\ index'[j] = [state |-> "pending", mode |-> at'[r],
                                           missing |-> Members \ Has(src), print |-> NoPrint]
                           /\ \A k \in Ids : k # j => index'[k] = index[k]
      BY <1>5, PrepareFacts
    <2>2. index'[j].print = NoPrint
      BY <2>1
    <2> QED BY <1>1, <2>1, <2>2 DEF ClockIndex
  <1>6. CASE SwitchToCopy(r)
    <2>1. index' = [index EXCEPT ![i] = [cur[r].rec EXCEPT !.mode = "copy"]]
      BY <1>6 DEF SwitchToCopy
    <2>2. [cur[r].rec EXCEPT !.mode = "copy"].print = cur[r].rec.print
      BY <1>1 DEF Records
    <2> QED BY <1>1, <2>1, <2>2 DEF TypeInv, ClockIndex, ClockRun
  <1>7. CASE MarkCopied(r)
    <2> DEFINE rec == [WithState(cur[r].rec, "copied") EXCEPT !.print = cur[r].print]
    <2>1. rec.print = cur[r].print
      BY <1>1 DEF WithState, Records
    <2>2. i \in Ids /\ Append(i, rec)
      BY <1>1, <1>7 DEF MarkCopied, Goes, Moving
    <2> HIDE DEF rec
    <2> QED BY <1>1, <1>3, <2>1, <2>2 DEF ClockRun
  <1>8. CASE CopyDropped(r) \/ MarkDone(r)
    BY <1>1, <1>2, <1>4, <1>8 DEF CopyDropped, MarkDone, Moving, States, Terminal, ClockRun
  <1>9. CASE RecordFix(r)
    <2>1. cur[r].then \in States
      BY <1>1 DEF Locals, Thens, States, Terminal
    <2> QED BY <1>1, <1>2, <1>4, <1>9, <2>1 DEF RecordFix, Mending, ClockRun
  <1>10. CASE ExpireNext(r)
    <2> DEFINE j == Min(Planned(r))
    <2>1. j \in Ids /\ Append(j, WithState(plan[r][j].rec, "expiring"))
      BY <1>10, PlanFound DEF ExpireNext, Goes
    <2>2. plan[r][j].rec \in Records /\ "expiring" \in States /\ plan[r][j].rec.print.mtime <= version
      BY <1>1, <2>1 DEF TypeInv, Fixes, States, ClockPlan
    <2> HIDE DEF j
    <2> QED BY <1>4, <2>1, <2>2
  <1>11. CASE BeginRestore(r)
    <2>1. PICK j \in Ids : Append(j, WithState(index[j], "restoring"))
      BY <1>11 DEF BeginRestore
    <2>2. index[j] \in Records /\ "restoring" \in States /\ index[j].print.mtime <= version
      BY <1>1 DEF TypeInv, States, ClockIndex
    <2> QED BY <1>4, <2>1, <2>2
  <1>12. CASE MarkRestored(r)
    BY <1>1, <1>2, <1>4, <1>12 DEF MarkRestored, Goes, Restoring, States, Terminal, ClockRun
  <1>13. CASE Compact(r)
    BY <1>1, <1>13 DEF Compact, ClockIndex
  <1>14. CASE LockStep(r) \/ Crash(r) \/ \E k \in Kinds : Start(r, k)
    BY <1>2, <1>14 DEF LockStep, MakeLock, AlreadyRunning, FindStale, Claim, WriteToken, Release, Crash, Start
  <1>15. CASE MoveStep(r)
    BY <1>2, <1>5, <1>6, <1>7, <1>8, <1>15
       DEF MoveStep, Stores, PrepareStops, RenameMember, RenameStops, RenamesDone,
           Stage, StageFails, PlaceCopy, PlaceFails, RemoveSource, CopyStops, SourcesRemoved
  <1>16. CASE FixStep(r)
    BY <1>2, <1>9, <1>16
       DEF FixStep, Survey, TakeFix, ReconcileEnds, CleanDest, CleanTmp, CleanSource,
           CleanStops, CleanDone, FinishStops, FinishDone
  <1>17. CASE LaterStep(r)
    BY <1>2, <1>10, <1>11, <1>12, <1>13, <1>17
       DEF LaterStep, FindExpired, ExpireEnds, CompactFails, RestoreRefused, PutBack, Uncopy,
           RestoreStops, RestoreEnds
  <1> QED BY <1>14, <1>15, <1>16, <1>17 DEF RunStep, RunOrKill

\* ... none in a repair that is taken up, ...
LEMMA ClockTakes ==
  ASSUME BaseInv, ClockInv, NEW r \in Runs, NEW back, Planned(r) # {},
         Takes(r, Min(Planned(r)), back), version' = version
  PROVE  ClockRun(r)' /\ ClockPlan(r)'
  <1> DEFINE k == Min(Planned(r))
             l == [id |-> k, rec |-> plan[r][k].rec, left |-> plan[r][k].left, print |-> NoPrint,
                   away |-> plan[r][k].away, then |-> plan[r][k].then, back |-> back]
  <1>1. /\ k \in Ids /\ plan \in [Runs -> [Ids -> Fixes]] /\ cur \in [Runs -> Locals]
        /\ ClockPlan(r) /\ NoPrint.mtime <= version /\ NoFix.rec.print.mtime <= version
    BY PlanFound, Prints0, ClockParts DEF BaseInv, TypeInv
  <1>2. /\ plan' = [plan EXCEPT ![r][k] = NoFix] /\ cur' = [cur EXCEPT ![r] = l]
        /\ l.print = NoPrint /\ l.rec = plan[r][k].rec
    BY DEF Takes
  <1>3. \A j \in Ids : plan'[r][j] = IF j = k THEN NoFix ELSE plan[r][j]
    BY <1>1, <1>2
  <1> HIDE DEF k, l
  <1>4. cur'[r] = l
    BY <1>1, <1>2
  <1> QED BY <1>1, <1>2, <1>3, <1>4 DEF ClockRun, ClockPlan

\* ... and none in a run's hands.
LEMMA ClockRunStep ==
  ASSUME BaseInv, ClockInv, NEW r \in Runs, RunOrKill(r)
  PROVE  ClockRun(r)' /\ ClockPlan(r)'
  <1> DEFINE i == cur[r].id
  <1>1. /\ version' = version /\ TypeInv /\ ClockIndex /\ ClockRun(r) /\ ClockPlan(r) /\ ClockDisk
        /\ cur[r] \in Locals /\ cur[r].rec \in Records /\ cur \in [Runs -> Locals]
        /\ plan \in [Runs -> [Ids -> Fixes]]
        /\ NoPrint.mtime <= version /\ NoRecord.print.mtime <= version
        /\ NoFix.rec.print.mtime <= version
        /\ Idle.print.mtime <= version /\ Idle.rec.print.mtime <= version
    BY DiskStep, Prints0, ClockParts, HandIds DEF RunOrKill, BaseInv, TypeInv
  <1>2. CASE plan' = plan /\ (cur' = cur \/ cur' = [cur EXCEPT ![r] = Idle])
    BY <1>1, <1>2 DEF ClockRun, ClockPlan
  <1>3. CASE plan' = [plan EXCEPT ![r] = NoPlan] /\ (cur' = cur \/ cur' = [cur EXCEPT ![r] = Idle])
    BY <1>1, <1>3 DEF ClockRun, ClockPlan, NoPlan
  <1>4. CASE LockStep(r) \/ Crash(r) \/ \E k \in Kinds : Start(r, k)
    BY <1>2, <1>3, <1>4 DEF LockStep, MakeLock, AlreadyRunning, FindStale, Claim, WriteToken, Release,
       Crash, Start, Quit
  <1>5. CASE /\ plan' = plan /\ cur'[r].print = cur[r].print /\ cur'[r].rec.print = cur[r].rec.print
    BY <1>1, <1>5 DEF ClockRun, ClockPlan
  <1>6. CASE MoveStep(r)
    <2>1. CASE Prepare(r)
      <3>1. /\ cur'[r].print = NoPrint /\ plan' = plan
            /\ cur'[r].rec = [state |-> "pending", mode |-> at'[r],
                              missing |-> Members \ Has(src), print |-> NoPrint]
        BY <2>1, PrepareFacts
      <3>2. cur'[r].rec.print = NoPrint
        BY <3>1
      <3> QED BY <1>1, <3>1, <3>2 DEF ClockRun, ClockPlan
    <2>2. CASE SwitchToCopy(r)
      <3>1. [cur[r].rec EXCEPT !.mode = "copy"].print = cur[r].rec.print
        BY <1>1 DEF Records
      <3>2. /\ cur'[r].rec = [cur[r].rec EXCEPT !.mode = "copy"] /\ cur'[r].print = NoPrint
            /\ plan' = plan
        BY <1>1, <2>2 DEF SwitchToCopy, Works, Idle
      <3> QED BY <1>1, <3>1, <3>2 DEF ClockRun, ClockPlan
    <2>3. CASE Stage(r)
      <3>1. Has(src) \in SUBSET Members
        BY DEF Has
      <3>2. Measure(Has(src)).mtime <= version
        BY <1>1, <3>1, MeasureFound DEF ClockDisk
      <3>3. /\ cur'[r].rec = cur[r].rec /\ cur'[r].print = Measure(Has(src)) /\ plan' = plan
        BY <1>1, <2>3 DEF Stage, Locals
      <3> QED BY <1>1, <3>2, <3>3 DEF ClockRun, ClockPlan
    <2>4. CASE RenameMember(r) \/ RemoveSource(r)
      BY <1>1, <1>5, <2>4 DEF RenameMember, RemoveSource, DoneWith, Locals
    <2> QED BY <1>2, <1>6, <2>1, <2>2, <2>3, <2>4 DEF MoveStep, Stores, PrepareStops, RenameStops, RenamesDone,
               StageFails, CopyDropped, PlaceCopy, PlaceFails, MarkCopied, CopyStops,
               SourcesRemoved, MarkDone, EndMove
  <1>7. CASE FixStep(r)
    <2>1. CASE Survey(r)
      <3>1. \A j \in Ids : plan'[r][j] = Diagnose(j) /\ cur' = cur
        BY <1>1, <2>1 DEF Survey
      <3>2. \A j \in Ids : plan'[r][j] = NoFix \/ plan'[r][j].rec = index[j]
        BY <1>1, <3>1, DiagnosedRec
      <3>3. cur' = cur
        BY <2>1 DEF Survey
      <3> QED BY <1>1, <3>2, <3>3 DEF ClockRun, ClockPlan, ClockIndex
    <2>2. CASE TakeFix(r)
      BY <1>1, <2>2, ClockTakes DEF TakeFix
    <2>3. CASE CleanDest(r)
      BY <1>1, <1>5, <2>3 DEF CleanDest, Locals
    <2>4. CASE CleanTmp(r)
      BY <1>1, <1>5, <2>4 DEF CleanTmp, Locals
    <2>5. CASE CleanSource(r)
      BY <1>1, <1>5, <2>5 DEF CleanSource, DoneWith, Locals
    <2>6. CASE FinishDone(r)
      BY <1>1, <1>5, <2>6 DEF FinishDone, Locals, Records
    <2> QED BY <1>2, <1>7, <2>1, <2>2, <2>3, <2>4, <2>5, <2>6 DEF FixStep, ReconcileEnds,
               CleanStops, CleanDone, FinishStops, RecordFix, FixEnds
  <1>8. CASE LaterStep(r)
    <2>1. CASE FindExpired(r)
      <3>1. \A j \in Ids : plan'[r][j] = IF Expirable(j)
                                         THEN Cleanup(index[j], {"dest"}, {}, "expired")
                                         ELSE NoFix
        BY <1>1, <2>1 DEF FindExpired
      <3>2. \A j \in Ids : plan'[r][j].rec = index[j] \/ plan'[r][j] = NoFix
        <4>1. \A rec : Cleanup(rec, {"dest"}, {}, "expired").rec = rec
          BY DEF Cleanup
        <4> QED BY <3>1, <4>1
      <3>3. cur' = cur
        BY <2>1 DEF FindExpired
      <3> QED BY <1>1, <3>2, <3>3 DEF ClockRun, ClockPlan, ClockIndex
    <2>2. CASE ExpireNext(r)
      BY <1>1, <2>2, ClockTakes DEF ExpireNext
    <2>3. CASE BeginRestore(r)
      <3>1. PICK j \in Ids : Works(r, j, index[j], Members \ index[j].missing)
        BY <2>3 DEF BeginRestore
      <3>2. cur'[r].rec = index[j] /\ cur'[r].print = NoPrint
        BY <1>1, <3>1 DEF Works, Idle
      <3>3. plan' = plan
        BY <2>3 DEF BeginRestore
      <3> QED BY <1>1, <3>2, <3>3 DEF ClockRun, ClockPlan, ClockIndex
    <2>4. CASE PutBack(r)
      BY <1>1, <1>5, <2>4 DEF PutBack, DoneWith, Locals
    <2>5. CASE Uncopy(r)
      BY <1>1, <1>5, <2>5 DEF Uncopy, DoneWith, Locals
    <2> QED BY <1>2, <1>3, <1>8, <2>1, <2>2, <2>3, <2>4, <2>5 DEF LaterStep, ExpireEnds, Compact, CompactFails,
               RestoreRefused, RestoreStops, RestoreEnds, MarkRestored
  <1> QED BY <1>4, <1>6, <1>7, <1>8 DEF RunStep, RunOrKill

\* Every step keeps times behind the clock.
LEMMA ClockStep ==
  ASSUME BaseInv, ClockInv, SoundNext
  PROVE  ClockInv'
  <1>1. \A d \in live : d[2] # 0
    BY DEF ClockInv
  <1>2. ASSUME NEW r \in Runs, RunOrKill(r) PROVE ClockInv'
    <2>1. ASSUME NEW q \in Runs PROVE ClockRun(q)' /\ ClockPlan(q)'
      <3>1. CASE q = r
        BY <1>2, <3>1, ClockRunStep
      <3>2. CASE q # r
        <4>1. cur'[q] = cur[q] /\ plan'[q] = plan[q] /\ version' = version
          BY <1>2, <3>2, StepOfOne, DiskStep DEF OnlyRun, RunOrKill, BaseInv
        <4>2. ClockRun(q) /\ ClockPlan(q)
          BY ClockParts
        <4> QED BY <4>1, <4>2 DEF ClockRun, ClockPlan
      <3> QED BY <3>1, <3>2
    <2>2. \A d \in live' : d[2] # 0
      BY <1>1, <1>2, DiskStep DEF RunOrKill, CleanDest, Forgets
    <2>3. ClockDisk' /\ ClockIndex'
      BY <1>2, ClockDiskStep, ClockIndexStep
    <2> QED BY <2>1, <2>2, <2>3 DEF ClockInv, ClockDisk, ClockIndex, ClockRun, ClockPlan
  <1>3. CASE \/ \E m \in Members : Write(m) \/ Delete(m)
             \/ MinutesPass \/ DaysPass \/ Still
    <2>1. cur' = cur /\ plan' = plan
      BY <1>3, OutsideRuns DEF BaseInv
    <2>2. UNCHANGED <<index, dest, tmp>>
      BY <1>3 DEF Write, Delete, MinutesPass, DaysPass, Still, journal, disk
    <2>3. /\ version \in Nat /\ version' \in Nat /\ version <= version'
          /\ \A m \in Members : src'[m] \in {src[m], 0, version'}
          /\ \A d \in live' : d[2] # 0
      <3>1. version \in Nat /\ src \in [Members -> Versions]
        BY Prints0 DEF BaseInv, TypeInv
      <3> QED BY <1>1, <1>3, <3>1 DEF Write, Delete, MinutesPass, DaysPass, Still, disk, world
    <2>4. \A m \in Members : src[m] \in Nat
      BY Sizes DEF BaseInv, TypeInv, Versions
    <2>5. \A i \in Ids, m \in Members : dest[i][m] \in Nat /\ tmp[i][m] \in Nat
      <3>1. \A i \in Ids : dest[i] \in [Members -> Versions] /\ tmp[i] \in [Members -> Versions]
        BY DEF BaseInv, TypeInv
      <3> QED BY <3>1, Sizes DEF Versions
    <2>6. ClockDisk'
      BY <2>2, <2>3, <2>4, <2>5 DEF ClockInv, ClockDisk
    <2>7. \A i \in Ids : index[i].print.mtime \in Nat
      BY Sizes DEF BaseInv, TypeInv, Records, Prints, Versions
    <2>8. ASSUME NEW r \in Runs PROVE ClockRun(r)' /\ ClockPlan(r)'
      <3>1. cur[r] \in Locals /\ \A i \in Ids : plan[r][i] \in Fixes
        BY DEF BaseInv, TypeInv
      <3>2. cur[r].print.mtime \in Nat /\ cur[r].rec.print.mtime \in Nat
            /\ \A i \in Ids : plan[r][i].rec.print.mtime \in Nat
        BY <3>1, Sizes DEF Locals, Fixes, Records, Prints, Versions
      <3> QED BY <2>1, <2>3, <3>2 DEF ClockInv, ClockRun, ClockPlan
    <2>9. ClockIndex'
      BY <2>2, <2>3, <2>7 DEF ClockInv, ClockIndex
    <2> QED BY <2>3, <2>6, <2>8, <2>9 DEF ClockInv, ClockDisk, ClockIndex, ClockRun, ClockPlan
  <1> QED BY <1>2, <1>3 DEF SoundNext

-----------------------------------------------------------------------------
(* Tasks are well founded                                                   *)

\* Data that was copied, or that is gone, is still so once more of it is gone.
LEMMA AllInLess ==
  ASSUME NEW copy, NEW ms, NEW ns, ns \subseteq ms, AllIn(copy, ms),
         \A m \in ns : src'[m] = src[m] \/ src'[m] = 0
  PROVE  \A m \in ns : src'[m] = 0 \/ src'[m] = copy[m]
  BY DEF AllIn

\* What a run reads of a `copied` id that has not grown is in its tombstone.
LEMMA NotGrown ==
  ASSUME BaseInv, NEW i \in Ids, index[i].state = "copied", CopiedId(i), dest[i] # Nothing,
         ~GrewSince(Measure(Members), index[i].print)
  PROVE  AllIn(dest[i], Members)
  <1>1. CopiedTo(dest[i], index[i].print.mtime) /\ TypeInv
    BY DEF CopiedId, BaseInv
  <1>2. \A m \in Members : src[m] <= Measure(Members).mtime
    BY <1>1, MeasureFound
  <1>3. /\ Measure(Members).mtime \in Nat /\ index[i].print.mtime \in Nat
        /\ Measure(Members).mtime <= index[i].print.mtime
        /\ \A m \in Members : src[m] \in Nat
    <2>1. Measure(Members) \in Prints /\ index[i] \in Records
      BY <1>1, MeasureFound DEF TypeInv
    <2>2. Measure(Members).mtime \in Nat /\ index[i].print.mtime \in Nat
      BY <2>1, Sizes DEF Prints, Records, Versions
    <2>3. \A m \in Members : src[m] \in Nat
      BY <1>1, Sizes DEF TypeInv, Versions
    <2> QED BY <2>2, <2>3 DEF GrewSince
  <1> QED BY <1>1, <1>2, <1>3 DEF CopiedTo, AllIn

\* Reconcile plans only repairs that are safe when they are planned.
LEMMA DiagnosedTask ==
  ASSUME BaseInv, CopyInv, ExpiringInv, MoverInv, NEW i \in Ids
  PROVE  LET f == Diagnose(i)
         IN  /\ f.then = "expired" => i \in ripe
             /\ f.op = "clean" /\ "dest" \in f.away =>
                   /\ f.then \in {"expired", "dropped", "restored"}
                   /\ f.then = "dropped" => PendingIn("copy", i)
             /\ f.op = "clean" =>
                   /\ "dest" \in f.away /\ f.then = "restored" => dest[i] = Nothing
                   /\ f.left # {} => index[i].state # "pending" /\ f.away = {}
                   /\ AllIn(dest[i], f.left)
             /\ f.op = "finish" =>
                   /\ index[i].state # "copied" /\ ~PendingIn("copy", i)
                   /\ \A q \in Runs : Mover(q, i) => at[q] \in {"rename", "done"}
  <1> DEFINE rec == index[i]
             s == Has(src) # {}
             d == Has(dest[i]) # {}
  <1>1. TypeInv /\ (~d <=> dest[i] = Nothing) /\ AllIn(dest[i], {})
    BY HasNothing DEF BaseInv, AllIn
  <1>2. rec.state \in Terminal \cup {"none", "pending", "copied", "done", "expiring", "restoring"}
    BY <1>1 DEF TypeInv, Records, States
  <1>3. rec.state = "pending" => rec.mode \in {"rename", "copy"}
    BY <1>1 DEF TypeInv, Records
  <1>4. CASE rec.state = "pending"
    <2>1. Diagnose(i) = DiagnosePending(i, rec, s, d)
      BY <1>1, <1>4, Diagnosed
    <2>2. rec.mode = "rename" => \A q \in Runs : Mover(q, i) => at[q] \in {"rename", "done"}
      BY <1>4 DEF MoverInv, MoverOf, Mover, Moving
    <2> HIDE DEF s, d
    <2> QED BY <1>1, <1>3, <1>4, <2>1, <2>2 DEF DiagnosePending, Mark, Cleanup, FinishRenames,
               PendingIn, NoFix
  <1>5. CASE rec.state = "copied"
    <2>1. Diagnose(i) = DiagnoseCopied(rec, s, d)
      BY <1>1, <1>5, Diagnosed
    <2>2. d /\ ~GrewSince(Measure(Members), rec.print) => AllIn(dest[i], Has(src))
      BY <1>1, <1>5, NotGrown DEF CopyInv, AllIn, Has
    <2> HIDE DEF s, d
    <2> QED BY <1>1, <1>5, <2>1, <2>2 DEF DiagnoseCopied, FinishCopied, Mark, Cleanup, NoFix
  <1>6. CASE rec.state = "restoring"
    <2>1. Diagnose(i) = DiagnoseRestoring(rec, s, d)
      BY <1>1, <1>6, Diagnosed
    <2> HIDE DEF s, d
    <2> QED BY <1>1, <2>1 DEF DiagnoseRestoring, Mark, Cleanup, NoFix
  <1>7. CASE rec.state = "done"
    <2>1. Diagnose(i) = IF d THEN NoFix ELSE Mark(rec, "lost")
      BY <1>1, <1>7, Diagnosed
    <2> HIDE DEF d
    <2> QED BY <2>1 DEF Mark, NoFix
  <1>8. CASE rec.state = "expiring"
    <2>1. Diagnose(i) = Cleanup(rec, {"dest"}, {}, "expired") /\ i \in ripe
      BY <1>1, <1>8, Diagnosed DEF ExpiringInv
    <2> QED BY <1>1, <2>1 DEF Cleanup
  <1>9. CASE rec.state \in Terminal \cup {"none"}
    <2>1. Diagnose(i) = NoFix
      BY <1>1, <1>9, Diagnosed
    <2> QED BY <2>1 DEF NoFix
  <1> QED BY <1>2, <1>4, <1>5, <1>6, <1>7, <1>8, <1>9

\* Where there is no task there is nothing to keep.
LEMMA NoFixTask ==
  ASSUME NEW r \in Runs, NEW i \in Ids, Task(r, i) = NoFix
  PROVE  TaskOf(r, i)
  BY DEF TaskOf, NoFix

\* A run that moves, restores or is outside has no task.
LEMMA BusyElsewhere ==
  ASSUME BaseInv, NEW r \in Runs, NEW i \in Ids, Task(r, i) # NoFix
  PROVE  /\ at[r] \in Mending \cup {"fix", "expiring"}
         /\ cur[r].id = i => at[r] \in {"clean", "finish"} /\ Task(r, i).op = at[r]
         /\ ~FreshId(i)
  <1>1. HandInv
    BY DEF BaseInv
  <1>2. at[r] \in Mending \cup {"fix", "expiring"}
    BY <1>1, NoTask
  <1>3. ASSUME cur[r].id = i PROVE at[r] \in {"clean", "finish"} /\ Task(r, i).op = at[r]
    <2>1. i \notin Planned(r)
      BY <1>1, <1>3 DEF HandInv
    <2>2. at[r] \in {"clean", "finish"}
      BY <1>1, <2>1, NoTask
    <2> QED BY <1>3, <2>2 DEF Task
  <1>4. ~FreshId(i)
    BY <1>1, FreshTask
  <1> QED BY <1>2, <1>3, <1>4

\* With work still to do, a run's own step moves no data into or out of tombstone i
\* but to remove it.
LEMMA OwnPuts ==
  ASSUME BaseInv, NEW r \in Runs, RunOrKill(r), NEW i \in Ids, Task(r, i).op = "clean"
  PROVE  /\ \A m \in Members : src'[m] = src[m] \/ src'[m] = 0
         /\ dest'[i] = dest[i] \/ (dest'[i] = Nothing /\ "dest" \in Task(r, i).away)
  <1>1. /\ Puts(r) /\ TypeInv /\ dest \in [Ids -> [Members -> Versions]]
        /\ src \in [Members -> Versions]
        /\ at[r] \in Mending \cup {"fix", "expiring"}
        /\ cur[r].id = i => at[r] = "clean"
    BY DiskStep, BusyElsewhere DEF RunOrKill, BaseInv, TypeInv, NoFix
  <1>2. CASE UNCHANGED <<src, dest>>
    BY <1>2
  <1>3. CASE RenameMember(r) /\ src' = [src EXCEPT ![Min(cur[r].left)] = 0]
             /\ dest' = [dest EXCEPT ![cur[r].id][Min(cur[r].left)] = src[Min(cur[r].left)]]
    <2>1. cur[r].id # i
      BY <1>1, <1>3 DEF RenameMember
    <2> QED BY <1>1, <1>3, <2>1
  <1>4. CASE PlaceCopy(r) \/ RemoveSource(r) \/ PutBack(r) \/ Uncopy(r) \/ RestoreEnds(r)
    BY <1>1, <1>4 DEF PlaceCopy, RemoveSource, PutBack, Uncopy, RestoreEnds, Goes, Mending
  <1>5. CASE CleanSource(r) /\ src' = [src EXCEPT ![Min(cur[r].left)] = 0] /\ UNCHANGED dest
    BY <1>1, <1>5
  <1>6. CASE CleanDest(r) /\ UNCHANGED src /\ dest' = [dest EXCEPT ![cur[r].id] = Nothing]
    BY <1>1, <1>6 DEF CleanDest, Task
  <1> QED BY <1>1, <1>2, <1>3, <1>4, <1>5, <1>6 DEF Puts

\* A run's own steps keep its tasks safe; ...
LEMMA TaskOwn ==
  ASSUME BaseInv, CopyInv, ExpiringInv, MoverInv, TaskInv, NEW r \in Runs, RunOrKill(r),
         NEW i \in Ids
  PROVE  TaskOf(r, i)'
  <1> DEFINE f == Task(r, i)
  <1>1. /\ Tasks(r, i) /\ TaskOf(r, i) /\ RipeStays(r) /\ Writes(r, i) /\ TypeInv
        /\ \A p \in Runs \ {r} : at'[p] = at[p] /\ cur'[p] = cur[p]
    BY TaskStep, IndexStep, StepOfOne DEF TaskInv, RunOrKill, BaseInv, OnlyRun
  <1>2. CASE Task(r, i)' = NoFix
    BY <1>2 DEF TaskOf, NoFix
  <1>3. CASE Survey(r) /\ Task(r, i)' = Diagnose(i)
    <2>1. UNCHANGED <<src, dest, index, ripe, cur, lock>> /\ at'[r] \notin Moving /\ at[r] \notin Moving
      BY <1>1, <1>3 DEF Survey, Goes, disk, journal, Moving, TypeInv
    <2>2. \A q \in Runs : Mover(q, i)' => Mover(q, i) /\ at'[q] = at[q]
      BY <1>1, <2>1 DEF Mover
    <2> QED BY <1>3, <2>1, <2>2, DiagnosedTask DEF TaskOf, AllIn, PendingIn
  <1>4. CASE FindExpired(r) /\ Expirable(i)
             /\ Task(r, i)' = Cleanup(index[i], {"dest"}, {}, "expired")
    <2>1. ripe' = ripe /\ i \in ripe
      BY <1>4 DEF FindExpired, Expirable, journal
    <2> QED BY <1>4, <2>1 DEF TaskOf, Cleanup, AllIn
  <1>5. CASE Lessens(r, i) /\ f = NoFix
    BY <1>5 DEF Lessens, NoFix, TaskOf, AllIn
  <1>6. CASE Lessens(r, i) /\ f # NoFix
    <2>1. /\ at[r] \in Mending \cup {"fix", "expiring"} /\ ~FreshId(i)
          /\ (Verified(r)' => Verified(r))
      BY <1>6, BusyElsewhere, TokenStep DEF Mending
    <2>2. i \in ripe => i \in ripe'
      BY <1>1, <2>1 DEF RipeStays
    <2>3. /\ index'[i].state = "pending" => index'[i] = index[i]
          /\ index'[i].state = "copied" => index'[i] = index[i]
      BY <1>1, <2>1 DEF Writes, Mending, FreshId
    <2>4. \A q \in Runs : Mover(q, i)' => Mover(q, i) /\ at'[q] = at[q]
      <3>1. at'[r] \notin Moving
        <4>1. at[r] \notin Moving /\ ~Prepare(r)
          BY <2>1 DEF Moving, Mending, Prepare, Goes
        <4> QED BY <4>1, MoverBegins
      <3> QED BY <1>1, <3>1 DEF Mover
    <2>5. ASSUME f.op = "clean"
          PROVE  /\ \A m \in Members : src'[m] = src[m] \/ src'[m] = 0
                 /\ dest'[i] = dest[i] \/ (dest'[i] = Nothing /\ "dest" \in f.away)
      BY <2>5, OwnPuts
    <2>6. /\ Task(r, i)'.op = f.op /\ Task(r, i)'.then = f.then
          /\ Task(r, i)'.away \subseteq f.away /\ Task(r, i)'.left \subseteq f.left
      BY <1>6 DEF Lessens
    <2>7. ASSUME Verified(r)', f.op = "clean"
          PROVE  /\ "dest" \in Task(r, i)'.away /\ f.then = "restored" => dest'[i] = Nothing
                 /\ Task(r, i)'.left # {} => index'[i].state # "pending" /\ Task(r, i)'.away = {}
                 /\ \A m \in Task(r, i)'.left : src'[m] = 0 \/ src'[m] = dest'[i][m]
      <3>1. /\ "dest" \in f.away /\ f.then = "restored" => dest[i] = Nothing
            /\ f.left # {} => index[i].state # "pending" /\ f.away = {}
            /\ AllIn(dest[i], f.left)
        BY <1>1, <2>1, <2>7 DEF TaskOf
      <3>2. f.left \subseteq Members
        BY <1>1 DEF Task, TypeInv, Locals, Fixes
      <3>3. ASSUME NEW m \in Task(r, i)'.left PROVE src'[m] = 0 \/ src'[m] = dest'[i][m]
        <4>1. m \in f.left /\ m \in Members /\ f.away = {}
          BY <2>6, <3>1, <3>2
        <4>2. dest'[i] = dest[i] /\ (src'[m] = src[m] \/ src'[m] = 0)
          BY <2>5, <2>7, <4>1
        <4> QED BY <3>1, <4>1, <4>2 DEF AllIn
      <3> QED BY <2>3, <2>5, <2>6, <2>7, <3>1, <3>3
    <2>8. ASSUME Verified(r)', f.op = "finish"
          PROVE  /\ index'[i].state # "copied" /\ ~PendingIn("copy", i)'
                 /\ \A q \in Runs : Mover(q, i)' => at'[q] \in {"rename", "done"}
      BY <1>1, <2>1, <2>3, <2>4, <2>8 DEF TaskOf, PendingIn
    <2> QED BY <1>1, <2>2, <2>6, <2>7, <2>8 DEF TaskOf, AllIn
  <1> QED BY <1>1, <1>2, <1>3, <1>4, <1>5, <1>6 DEF Tasks

\* ... those of another run do, since it lacks the token or the task does.
LEMMA TaskOthers ==
  ASSUME BaseInv, MoverInv, TaskInv, NEW r \in Runs, RunOrKill(r),
         NEW q \in Runs, q # r, NEW i \in Ids
  PROVE  TaskOf(q, i)'
  <1> DEFINE f == Task(q, i)
  <1>1. /\ TaskOf(q, i) /\ RipeStays(r) /\ Writes(r, i)
        /\ \A p \in Runs \ {r} : at'[p] = at[p] /\ cur'[p] = cur[p] /\ plan'[p] = plan[p]
        /\ Verified(q)' => Verified(q)
        /\ ~Verified(r) => UNCHANGED <<src, dest>>
        /\ SwitchToCopy(r) => Verified(r)
    BY IndexStep, StepOfOne, DiskStep, CallsHeld DEF TaskInv, RunOrKill, BaseInv, OnlyRun
  <1>2. Task(q, i)' = f
    BY <1>1 DEF Task
  <1>3. CASE f = NoFix
    BY <1>2, <1>3 DEF NoFix, TaskOf
  <1>4. CASE f # NoFix
    <2>1. ~FreshId(i)
      BY <1>4, BusyElsewhere
    <2>2. i \in ripe => i \in ripe'
      BY <1>1, <2>1 DEF RipeStays
    <2>3. Verified(q)' => Verified(q) /\ ~Verified(r) /\ UNCHANGED <<src, dest>>
      BY <1>1 DEF Verified
    <2>4. ASSUME Verified(q)'
          PROVE  index'[i].state = "pending" => index'[i] = index[i]
      BY <1>1, <2>1, <2>3, <2>4 DEF Writes
    <2>5. ASSUME Verified(q)', f.op = "finish"
          PROVE  /\ index'[i].state # "copied" /\ ~PendingIn("copy", i)'
                 /\ \A p \in Runs : Mover(p, i)' => at'[p] \in {"rename", "done"}
      <3>1. /\ index[i].state # "copied" /\ ~PendingIn("copy", i)
            /\ \A p \in Runs : Mover(p, i) => at[p] \in {"rename", "done"}
        BY <1>1, <2>3, <2>5 DEF TaskOf
      <3>2. index'[i].state # "copied"
        BY <1>1, <2>1, <2>3, <2>5, <3>1 DEF Writes, Mover, Moving
      <3>3. ~PendingIn("copy", i)'
        BY <2>4, <2>5, <3>1 DEF PendingIn
      <3>4. ASSUME Mover(r, i)' PROVE at'[r] \in {"rename", "done"}
        <4>1. at'[r] \in Moving /\ cur'[r].id = i
          BY <3>4 DEF Mover
        <4>2. ~Prepare(r)
          BY <2>1, <4>1, PrepareFacts
        <4>3. /\ at[r] \in Moving /\ cur[r].id = i
              /\ at'[r] = "copy" => SwitchToCopy(r)
              /\ at'[r] = "staged" => Stage(r)
              /\ at'[r] = "placed" => PlaceCopy(r)
              /\ at'[r] = "remove" => MarkCopied(r) \/ RemoveSource(r)
          BY <4>1, <4>2, MoverBegins
        <4>4. at[r] \in {"rename", "done"}
          BY <3>1, <4>3 DEF Mover
        <4>5. at'[r] # "copy"
          BY <1>1, <2>3, <2>5, <4>3
        <4> QED BY <4>1, <4>3, <4>4, <4>5
                DEF Moving, Stage, PlaceCopy, MarkCopied, RemoveSource, Goes
      <3> QED BY <1>1, <3>1, <3>2, <3>3, <3>4 DEF Mover
    <2> QED BY <1>1, <1>2, <2>2, <2>3, <2>4, <2>5 DEF TaskOf, AllIn
  <1> QED BY <1>3, <1>4

\* A run's own steps leave nothing but expiry in its plan of an expiry.
LEMMA ExpiryOwn ==
  ASSUME BaseInv, NEW r \in Runs, RunOrKill(r), ExpiryOf(r)
  PROVE  ExpiryOf(r)'
  <1>1. /\ TypeInv /\ Hand(r) /\ at \in [Runs -> Places] /\ cur \in [Runs -> Locals]
        /\ plan \in [Runs -> [Ids -> Fixes]] /\ cur[r] \in Locals
    BY HandOfEach DEF BaseInv, TypeInv
  <1> USE DEF Goes, ExpiryOf, Planned, Mending
  <1>2. CASE LockStep(r) \/ Crash(r) \/ \E k \in Kinds : Start(r, k)
    BY <1>1, <1>2 DEF LockStep, MakeLock, AlreadyRunning, FindStale, Claim, WriteToken, Release,
       Crash, Start
  <1>3. CASE MoveStep(r)
    <2>1. CASE RenameMember(r)
      BY <1>1, <2>1 DEF RenameMember, DoneWith, Hand, Locals
    <2>2. CASE ~RenameMember(r)
      BY <1>1, <1>3, <2>2 DEF MoveStep, Stores, Prepare, PrepareStops, RenameStops, RenamesDone,
         SwitchToCopy, Stage, StageFails, CopyDropped, PlaceCopy, PlaceFails, MarkCopied,
         RemoveSource, CopyStops, SourcesRemoved, MarkDone, EndMove
    <2> QED BY <2>1, <2>2
  <1>4. CASE FixStep(r)
    <2>1. CASE Survey(r) \/ ReconcileEnds(r)
      BY <1>1, <2>1 DEF Survey, ReconcileEnds
    <2>2. CASE TakeFix(r)
      <3>1. cur'[r].back = "fix"
        BY <1>1, <2>2 DEF TakeFix, Takes
      <3>2. at'[r] # "expiring"
        <4>1. Min(Planned(r)) \in Ids
          BY <2>2, PlanFound DEF TakeFix
        <4>2. plan[r][Min(Planned(r))] \in Fixes
          BY <1>1, <4>1
        <4> QED BY <1>1, <2>2, <4>2 DEF TakeFix, Fixes
      <3> QED BY <3>1, <3>2
    <2>3. CASE CleanDest(r) \/ CleanTmp(r) \/ CleanSource(r) \/ CleanDone(r) \/ FinishDone(r)
      <3>1. cur'[r].back = cur[r].back
        <4>1. CASE CleanDest(r)
          BY <1>1, <4>1 DEF CleanDest, Locals
        <4>2. CASE CleanTmp(r)
          BY <1>1, <4>2 DEF CleanTmp, Locals
        <4>3. CASE CleanSource(r)
          BY <1>1, <4>3 DEF CleanSource, DoneWith, Locals
        <4>4. CASE CleanDone(r) \/ FinishDone(r)
          BY <1>1, <4>4 DEF CleanDone, FinishDone, Locals
        <4> QED BY <2>3, <4>1, <4>2, <4>3, <4>4
      <3>2. plan' = plan /\ at[r] \in Mending /\ at'[r] \in Mending
        BY <1>1, <2>3 DEF CleanDest, CleanTmp, CleanSource, CleanDone, FinishDone
      <3> QED BY <3>1, <3>2
    <2>4. CASE CleanStops(r) \/ FinishStops(r) \/ RecordFix(r)
      <3>1. FixEnds(r) /\ at[r] \in Mending
        BY <2>4 DEF CleanStops, FinishStops, RecordFix
      <3> QED BY <1>1, <3>1 DEF FixEnds, Hand
    <2> QED BY <1>4, <2>1, <2>2, <2>3, <2>4 DEF FixStep
  <1>5. CASE LaterStep(r)
    <2>1. CASE FindExpired(r)
      <3>1. \A j \in Ids : plan'[r][j] = IF Expirable(j)
                                         THEN Cleanup(index[j], {"dest"}, {}, "expired") ELSE NoFix
        BY <1>1, <2>1 DEF FindExpired
      <3>2. \A rec : /\ Cleanup(rec, {"dest"}, {}, "expired").op = "clean"
                     /\ Cleanup(rec, {"dest"}, {}, "expired").then = "expired"
        BY DEF Cleanup
      <3> QED BY <3>1, <3>2
    <2>2. CASE ExpireNext(r)
      <3>1. at[r] = "expiring" /\ Min(Planned(r)) \in Ids
        BY <2>2, PlanFound DEF ExpireNext
      <3>2. \A j \in Ids : plan'[r][j] = plan[r][j] \/ plan'[r][j] = NoFix
        BY <1>1, <2>2, <3>1 DEF ExpireNext, Takes
      <3> QED BY <3>1, <3>2
    <2>3. CASE ~FindExpired(r) /\ ~ExpireNext(r)
      BY <1>1, <1>5, <2>3 DEF LaterStep, ExpireEnds, Compact, CompactFails, BeginRestore,
         RestoreRefused, PutBack, Uncopy, RestoreStops, RestoreEnds, MarkRestored
    <2> QED BY <2>1, <2>2, <2>3
  <1> QED BY <1>2, <1>3, <1>4, <1>5 DEF RunStep, RunOrKill

\* No program writes while a run goes by what it saw of the source.
LEMMA QuietTasks ==
  ASSUME Quiet, ~Racing, BaseInv, NEW r \in Runs, NEW i \in Ids, Task(r, i).op = "clean"
  PROVE  Task(r, i).left = {}
  <1>1. ~Guarded(r)
    BY DEF Quiet
  <1>2. CASE at[r] = "clean" /\ cur[r].id = i
    BY <1>1, <1>2 DEF Guarded, Task
  <1>3. CASE ~(at[r] \in {"clean", "finish"} /\ cur[r].id = i)
    <2>1. Task(r, i) = plan[r][i]
      BY <1>3 DEF Task
    <2>2. i \in Planned(r)
      BY <2>1 DEF Planned, NoFix
    <2> QED BY <1>1, <2>1, <2>2 DEF Guarded
  <1> QED BY <1>2, <1>3 DEF Task

\* Every step keeps the tasks safe.
LEMMA TaskInvStep ==
  ASSUME ~Racing, BaseInv, CopyInv, ExpiringInv, MoverInv, TaskInv, SoundNext
  PROVE  TaskInv'
  <1>1. ASSUME NEW r \in Runs, RunOrKill(r) PROVE TaskInv'
    <2>1. \A q \in Runs, i \in Ids : TaskOf(q, i)'
      BY <1>1, TaskOwn, TaskOthers
    <2>2. \A q \in Runs : ExpiryOf(q)'
      BY <1>1, ExpiryOwn, StepOfOne DEF OnlyRun, RunOrKill, BaseInv, TaskInv, ExpiryOf, Planned
    <2> QED BY <2>1, <2>2 DEF TaskInv
  <1>2. CASE \/ \E m \in Members : Write(m) \/ Delete(m)
             \/ MinutesPass \/ DaysPass \/ Still
    <2>1. at' = at /\ plan' = plan /\ cur' = cur /\ lock'.token = lock.token
      BY <1>2, OutsideRuns DEF BaseInv
    <2>2. UNCHANGED <<index, dest>> /\ ripe \subseteq ripe'
      BY <1>2 DEF Write, Delete, MinutesPass, DaysPass, Still, journal, disk
    <2>3. src' = src \/ Quiet
      BY <1>2 DEF Write, Delete, MinutesPass, DaysPass, Still, disk
    <2>4. ASSUME NEW r \in Runs, NEW i \in Ids PROVE TaskOf(r, i)'
      <3>1. Task(r, i)' = Task(r, i) /\ TaskOf(r, i)
        BY <2>1 DEF Task, TaskInv
      <3>2. src' = src \/ (Task(r, i).op = "clean" => Task(r, i).left = {})
        BY <2>3, QuietTasks
      <3> QED BY <2>1, <2>2, <3>1, <3>2 DEF TaskOf, AllIn, Verified, Mover, PendingIn
    <2>5. \A r \in Runs : ExpiryOf(r)'
      BY <2>1 DEF TaskInv, ExpiryOf, Planned
    <2> QED BY <2>4, <2>5 DEF TaskInv
  <1> QED BY <1>1, <1>2 DEF SoundNext

\* Only a tombstone whose grace period has passed is recorded as expiring.
LEMMA ExpiringStep ==
  ASSUME BaseInv, MoverInv, TaskInv, ExpiringInv, SoundNext
  PROVE  ExpiringInv'
  <1>1. ASSUME NEW r \in Runs, RunOrKill(r), NEW i \in Ids, index'[i].state = "expiring"
        PROVE  i \in ripe'
    <2>1. RipeStays(r) /\ Writes(r, i)
      BY <1>1, IndexStep DEF RunOrKill
    <2>2. CASE index'[i] = index[i]
      BY <1>1, <2>1, <2>2 DEF RipeStays, ExpiringInv
    <2>3. CASE at[r] = "expiring" /\ i \in Planned(r)
      <3>1. plan[r][i].then = "expired" /\ Task(r, i) = plan[r][i]
        BY <2>3 DEF TaskInv, ExpiryOf, Task
      <3>2. i \in ripe
        BY <3>1 DEF TaskInv, TaskOf
      <3> QED BY <2>1, <2>3, <3>2 DEF RipeStays
    <2>4. CASE SwitchToCopy(r) /\ index'[i] = [cur[r].rec EXCEPT !.mode = "copy"]
               /\ at[r] = "rename"
      <3>1. cur[r].rec \in Records
        BY HandIds DEF BaseInv
      <3>2. cur[r].rec.state = "pending"
        BY <2>4 DEF MoverInv, MoverOf, Moving
      <3> QED BY <1>1, <2>4, <3>1, <3>2 DEF Records
    <2> QED BY <1>1, <2>1, <2>2, <2>3, <2>4 DEF Writes
  <1>2. CASE \/ \E m \in Members : Write(m) \/ Delete(m)
             \/ MinutesPass \/ DaysPass \/ Still
    <2>1. index' = index /\ ripe \subseteq ripe'
      BY <1>2 DEF Write, Delete, MinutesPass, DaysPass, Still, journal
    <2> QED BY <2>1 DEF ExpiringInv
  <1> QED BY <1>1, <1>2 DEF SoundNext, ExpiringInv

-----------------------------------------------------------------------------
(* Copies stay true                                                         *)

\* What a restore goes by: it is the only run, nothing is in its way and nothing stays.
BackSafe ==
    \A r \in Runs :
        at[r] \in Restoring =>
            /\ at[r] # "uncopy" /\ Far = {} /\ \A q \in Runs : q = r
            /\ Has(dest[cur[r].id]) \subseteq cur[r].left
            /\ at[r] = "back" => \A m \in cur[r].left : src[m] = 0
            /\ \A i \in Ids : index[i].state # "copied"

\* Nobody adds to a tombstone that another run has just copied to, or that is `copied`.
LEMMA CopyKept ==
  ASSUME BaseInv, MoverInv, TaskInv, BackSafe, NEW r \in Runs, RunOrKill(r), NEW i \in Ids,
         \/ index[i].state = "copied"
         \/ \E q \in Runs : q # r /\ Mover(q, i) /\ at[q] = "placed"
  PROVE  /\ \A m \in Members : src'[m] = src[m] \/ src'[m] = 0
         /\ dest'[i] = dest[i] \/ dest'[i] = Nothing
  <1>1. /\ Puts(r) /\ TypeInv /\ dest \in [Ids -> [Members -> Versions]]
        /\ src \in [Members -> Versions]
    BY DiskStep DEF RunOrKill, BaseInv, TypeInv
  <1>2. at[r] \notin Restoring
    BY DEF BackSafe
  <1>3. at[r] \in {"rename", "staged"} => cur[r].id # i
    BY DEF MoverInv, MoverOf, Mover, Moving
  <1>4. at[r] = "finish" /\ Verified(r) => cur[r].id # i
    <2>1. ASSUME at[r] = "finish", Verified(r), cur[r].id = i PROVE FALSE
      <3>1. TaskOf(r, i) /\ Task(r, i).op = "finish"
        BY <2>1 DEF TaskInv, Task
      <3> QED BY <2>1, <3>1 DEF TaskOf
    <2> QED BY <2>1
  <1>5. CASE RenameMember(r) /\ Verified(r) /\ dest[cur[r].id][Min(cur[r].left)] = 0
             /\ src[Min(cur[r].left)] # 0
             /\ src' = [src EXCEPT ![Min(cur[r].left)] = 0]
             /\ dest' = [dest EXCEPT ![cur[r].id][Min(cur[r].left)] = src[Min(cur[r].left)]]
    <2>1. at[r] \in {"rename", "finish"} /\ Verified(r)
      BY <1>5 DEF RenameMember
    <2> QED BY <1>1, <1>3, <1>4, <1>5, <2>1
  <1>6. CASE PlaceCopy(r) /\ UNCHANGED src
    BY <1>1, <1>3, <1>6 DEF PlaceCopy, Goes
  <1>7. CASE UNCHANGED <<src, dest>>
    BY <1>7
  <1>8. CASE UNCHANGED dest /\ src' = [src EXCEPT ![Min(cur[r].left)] = 0]
    BY <1>1, <1>8
  <1>9. CASE UNCHANGED src /\ dest' = [dest EXCEPT ![cur[r].id] = Nothing]
    BY <1>1, <1>9
  <1>10. ~PutBack(r) /\ ~Uncopy(r) /\ ~RestoreEnds(r)
    BY <1>2 DEF PutBack, Uncopy, RestoreEnds, Goes, Restoring
  <1> QED BY <1>1, <1>5, <1>6, <1>7, <1>8, <1>9, <1>10 DEF Puts

\* A copy under way stays whole over the steps of another run ...
LEMMA CopyOthers ==
  ASSUME BaseInv, MoverInv, TaskInv, CopyInv, BackSafe, NEW r \in Runs, RunOrKill(r),
         NEW q \in Runs, q # r
  PROVE  CopyOf(q)'
  <1> DEFINE i == cur[q].id
  <1>1. /\ at'[q] = at[q] /\ cur'[q] = cur[q] /\ CopyOf(q) /\ (Verified(q)' => Verified(q))
        /\ (at[q] \in Moving => i \in Ids)
    BY StepOfOne DEF RunOrKill, BaseInv, OnlyRun, CopyInv, HandInv
  <1>2. ASSUME Verified(q)', at[q] \in Moving
        PROVE  UNCHANGED <<src, dest>> /\ tmp'[i] = tmp[i]
    <2>1. ~Verified(r)
      BY <1>1, <1>2 DEF Verified
    <2>2. UNCHANGED <<src, dest>> /\ (cur[r].id # i => tmp'[i] = tmp[i])
          /\ (UNCHANGED tmp \/ Stage(r))
      BY <1>1, <1>2, <2>1, DiskStep DEF RunOrKill
    <2>3. Stage(r) => cur[r].id # i
      BY <1>2 DEF Stage, Goes, MoverInv, MoverOf, Mover, Moving
    <2> QED BY <2>2, <2>3
  <1>3. ASSUME at[q] = "placed"
        PROVE  /\ \A m \in Members : src'[m] = src[m] \/ src'[m] = 0
               /\ dest'[i] = dest[i] \/ dest'[i] = Nothing
    BY <1>1, <1>3, CopyKept DEF Mover, Moving
  <1> QED BY <1>1, <1>2, <1>3 DEF CopyOf, CopiedTo, AllIn, Moving

\* A source that measures as it did when it was copied is in the copy.
LEMMA MeasuredIn ==
  ASSUME BaseInv, NEW r \in Runs, CopyOf(r), at[r] = "staged", Verified(r),
         Measure(cur[r].left) = cur[r].print
  PROVE  AllIn(tmp[cur[r].id], cur[r].left)
  <1>1. /\ TypeInv /\ src \in [Members -> Versions] /\ cur[r] \in Locals
        /\ cur[r].left \in SUBSET Members
    BY HandIds DEF BaseInv, TypeInv
  <1>2. CopiedTo(tmp[cur[r].id], cur[r].print.mtime)
    BY DEF CopyOf
  <1>3. \A m \in cur[r].left : src[m] <= cur[r].print.mtime
    BY <1>1, MeasureFound
  <1>4. cur[r].print.mtime \in Nat /\ \A m \in Members : src[m] \in Nat
    BY <1>1, Sizes DEF Locals, Prints, Versions
  <1> QED BY <1>1, <1>2, <1>3, <1>4 DEF CopiedTo, AllIn

\* ... and over those of its own.
LEMMA CopyOwn ==
  ASSUME BaseInv, CopyInv, NEW r \in Runs, RunOrKill(r)
  PROVE  CopyOf(r)'
  <1> DEFINE i == cur[r].id
  <1>1. /\ TypeInv /\ CopyOf(r) /\ cur[r] \in Locals /\ cur \in [Runs -> Locals]
        /\ (at[r] \in Moving => i \in Ids)
        /\ tmp \in [Ids -> [Members -> Versions]] /\ dest \in [Ids -> [Members -> Versions]]
        /\ src \in [Members -> Versions] /\ at \in [Runs -> Places]
        /\ cur[r].left \in SUBSET Members
    BY HandIds DEF BaseInv, TypeInv, CopyInv, HandInv
  <1>2. CASE Stage(r)
    <2>1. /\ at[r] = "copy" /\ at'[r] = "staged" /\ i \in Ids /\ src' = src
          /\ tmp' = [tmp EXCEPT ![i] = src] /\ cur'[r].id = i
      BY <1>1, <1>2 DEF Stage, Goes, Moving, Locals
    <2>2. tmp'[cur'[r].id] = src
      BY <1>1, <2>1
    <2> QED BY <2>1, <2>2 DEF CopyOf, CopiedTo
  <1>3. CASE PlaceCopy(r)
    <2>1. /\ at[r] = "staged" /\ at'[r] = "placed" /\ i \in Ids /\ src' = src /\ cur' = cur
          /\ Verified(r) /\ dest' = [dest EXCEPT ![i] = tmp[i]]
          /\ r \in sure \/ Measure(cur[r].left) = cur[r].print
      BY <1>1, <1>3, CallsHeld DEF PlaceCopy, Goes, Moving, SourceChanged, RunOrKill
    <2>2. CopiedTo(tmp[i], cur[r].print.mtime) /\ dest'[i] = tmp[i]
      BY <1>1, <2>1 DEF CopyOf
    <2>3. AllIn(tmp[i], cur[r].left)
      BY <2>1, MeasuredIn DEF CopyInv, RunOrKill, SureOf
    <2> QED BY <2>1, <2>2, <2>3 DEF CopyOf, CopiedTo, AllIn
  <1>4. CASE MarkCopied(r)
    <2>1. /\ at[r] = "placed" /\ at'[r] = "remove" /\ UNCHANGED <<src, dest, cur, lock>>
      BY <1>1, <1>4 DEF MarkCopied, Goes, disk
    <2> QED BY <1>1, <2>1 DEF CopyOf, AllIn, Verified
  <1>5. CASE RemoveSource(r)
    <2>1. /\ at[r] = "remove" /\ at' = at /\ dest' = dest /\ lock' = lock
          /\ src' = [src EXCEPT ![Min(cur[r].left)] = 0] /\ DoneWith(r, Min(cur[r].left))
      BY <1>5 DEF RemoveSource
    <2>2. cur'[r].id = i /\ cur'[r].left \subseteq cur[r].left
      BY <1>1, <2>1 DEF DoneWith, Locals
    <2> QED BY <1>1, <2>1, <2>2 DEF CopyOf, AllIn, Verified
  <1>6. CASE Prepare(r) \/ at'[r] \in {"rename", "copy", "done"} \/ at'[r] \notin Moving
    <2>1. at'[r] \notin {"staged", "placed", "remove"}
      BY <1>1, <1>6 DEF Prepare, Goes, Moving
    <2> QED BY <2>1 DEF CopyOf
  <1> QED BY <1>2, <1>3, <1>4, <1>5, <1>6, MoverBegins DEF Moving

\* What is recorded as copied stays so, up to what was written since.
LEMMA CopiedStep ==
  ASSUME BaseInv, MoverInv, TaskInv, CopyInv, BackSafe, NEW r \in Runs, RunOrKill(r),
         NEW i \in Ids
  PROVE  CopiedId(i)'
  <1>1. Writes(r, i) /\ CopiedId(i) /\ CopyOf(r)
    BY IndexStep DEF RunOrKill, CopyInv
  <1>2. CASE index'[i] = index[i]
    <2>1. ASSUME index[i].state = "copied"
          PROVE  /\ \A m \in Members : src'[m] = src[m] \/ src'[m] = 0
                 /\ dest'[i] = dest[i] \/ dest'[i] = Nothing
      BY <2>1, CopyKept
    <2> QED BY <1>1, <1>2, <2>1 DEF CopiedId, CopiedTo
  <1>3. CASE /\ at[r] = "placed" /\ cur[r].id = i /\ UNCHANGED disk
             /\ index'[i].print = cur[r].print
    BY <1>1, <1>3 DEF CopyOf, CopiedId, CopiedTo, disk
  <1>4. CASE SwitchToCopy(r) /\ index'[i] = [cur[r].rec EXCEPT !.mode = "copy"]
             /\ at[r] = "rename"
    <2>1. cur[r].rec \in Records /\ cur[r].rec.state = "pending"
      BY <1>4, HandIds DEF BaseInv, MoverInv, MoverOf, Moving
    <2> QED BY <1>4, <2>1 DEF Records, CopiedId
  <1>5. CASE index'[i].state # "copied"
    BY <1>5 DEF CopiedId
  <1> QED BY <1>1, <1>2, <1>3, <1>4, <1>5 DEF Writes

\* What a program writes is newer than every copy; and it does not write where a run
\* goes by what it copied.
LEMMA WriteIsNewer ==
  ASSUME BaseInv, ClockInv, NEW m \in Members, Write(m) \/ Delete(m),
         NEW copy, NEW time \in Nat, time <= version, CopiedTo(copy, time)
  PROVE  \A n \in Members : src'[n] = 0 \/ src'[n] = copy[n] \/ src'[n] > time
  <1>1. version \in Nat /\ src \in [Members -> Versions]
    BY Prints0 DEF BaseInv, TypeInv
  <1>2. src' = [src EXCEPT ![m] = 0] \/ src' = [src EXCEPT ![m] = version + 1]
    BY DEF Write, Delete
  <1> QED BY <1>1, <1>2 DEF CopiedTo

\* Every step keeps the copies whole.
LEMMA CopyStep ==
  ASSUME ~Racing, BaseInv, ClockInv, MoverInv, TaskInv, CopyInv, BackSafe, SoundNext
  PROVE  CopyInv'
  <1>1. ASSUME NEW r \in Runs, RunOrKill(r) PROVE CopyInv'
    BY <1>1, CopyOthers, CopyOwn, CopiedStep DEF CopyInv
  <1>2. ASSUME NEW m \in Members, Write(m) \/ Delete(m) PROVE CopyInv'
    <2>1. /\ UNCHANGED <<at, cur, index, dest, tmp, lock>> /\ Quiet
      BY <1>2 DEF Write, Delete, mine, journal
    <2>2. \A r \in Runs : at[r] \notin {"placed", "remove"}
      BY <2>1 DEF Quiet, Guarded
    <2>3. /\ \A r \in Runs : cur[r].print.mtime \in Nat /\ cur[r].print.mtime <= version
          /\ \A i \in Ids : index[i].print.mtime \in Nat /\ index[i].print.mtime <= version
      <3>1. TypeInv
        BY DEF BaseInv
      <3>2. \A r \in Runs : cur[r].print \in Prints
        BY <3>1 DEF TypeInv, Locals
      <3>3. \A i \in Ids : index[i].print \in Prints
        BY <3>1 DEF TypeInv, Records
      <3>4. \A p \in Prints : p.mtime \in Nat
        BY Sizes DEF Prints, Versions
      <3> QED BY <3>2, <3>3, <3>4 DEF ClockInv
    <2>4. ASSUME NEW r \in Runs PROVE CopyOf(r)'
      <3>1. ASSUME at[r] = "staged", Verified(r)
            PROVE  \A n \in Members : src'[n] = 0 \/ src'[n] = tmp[cur[r].id][n]
                                      \/ src'[n] > cur[r].print.mtime
        BY <1>2, <2>3, <3>1, WriteIsNewer DEF CopyInv, CopyOf
      <3> QED BY <2>1, <2>2, <3>1 DEF CopyOf, CopiedTo, Verified
    <2>5. ASSUME NEW i \in Ids PROVE CopiedId(i)'
      <3>1. ASSUME index[i].state = "copied", dest[i] # Nothing
            PROVE  \A n \in Members : src'[n] = 0 \/ src'[n] = dest[i][n]
                                      \/ src'[n] > index[i].print.mtime
        BY <1>2, <2>3, <3>1, WriteIsNewer DEF CopyInv, CopiedId
      <3> QED BY <2>1, <3>1 DEF CopiedId, CopiedTo
    <2> QED BY <2>4, <2>5 DEF CopyInv
  <1>3. CASE MinutesPass \/ DaysPass \/ Still
    <2>1. UNCHANGED <<at, cur, index, src, dest, tmp>> /\ lock'.token = lock.token
      BY <1>3, OutsideRuns DEF MinutesPass, DaysPass, Still, disk, journal, mine, BaseInv
    <2> QED BY <2>1 DEF CopyInv, CopyOf, CopiedId, CopiedTo, AllIn, Verified
  <1> QED BY <1>1, <1>2, <1>3 DEF SoundNext

-----------------------------------------------------------------------------
(* Nothing is lost                                                          *)

\* A tombstone that may be removed as a copy could be so before, or holds nothing.
LEMMA ScrapStep ==
  ASSUME NoSurprise, BaseInv, CopyInv, ExpiringInv, MoverInv, TaskInv, NEW r \in Runs,
         RunOrKill(r), NEW i \in Ids, Scrap(i)'
  PROVE  Scrap(i) \/ dest'[i] = Nothing
  <1>1. Writes(r, i) /\ Tasks(r, i) /\ TypeInv
    BY IndexStep, TaskStep DEF RunOrKill, TaskInv, BaseInv
  <1>2. CASE PendingIn("copy", i)'
    <2>1. CASE SwitchToCopy(r) /\ cur[r].id = i
      <3> DEFINE m == Min(cur[r].left)
      <3>1. /\ m \in cur[r].left /\ m \in Members /\ m \in Far /\ dest[i][m] = 0
            /\ cur[r].left \cap layout.far = {}
        <4>1. TypeInv /\ cur[r].left \in SUBSET Members
          BY <1>1, HandIds
        <4>2. Verified(r) /\ SureOf(r)
          BY <1>1, <2>1, CallsHeld DEF RunOrKill
        <4>3. at[r] = "rename" /\ m \in cur[r].left /\ m \in Far /\ m \in ToRename(r)
          BY <2>1 DEF SwitchToCopy, CrossDevice, NextToRename, Goes, ToRename
        <4>4. dest[i][m] = 0
          BY <2>1, <4>2, <4>3 DEF ToRename, SureOf
        <4> QED BY <4>1, <4>3, <4>4 DEF MoverInv, MoverOf, Moving
      <3>2. layout.hidden # {} /\ layout \in Layouts
        BY <1>1, <3>1 DEF Far, TypeInv
      <3>3. N = 1
        BY <3>2 DEF NoSurprise
      <3>4. \A n \in Members : n = m
        BY <3>1, <3>3 DEF Members
      <3>5. dest[i] \in [Members -> Versions] /\ dest' = dest
        BY <1>1, <2>1 DEF TypeInv, SwitchToCopy, disk
      <3> QED BY <3>1, <3>4, <3>5 DEF Nothing
    <2>2. CASE index'[i] = index[i]
      BY <1>2, <2>2 DEF PendingIn, Scrap
    <2>3. CASE FreshId(i) /\ at[r] = "prepare" /\ at'[r] \in {"rename", "copy"}
      <3>1. Prepare(r)
        BY <2>3, MoverBegins DEF Moving
      <3> QED BY <2>3, <3>1 DEF FreshId, Prepare, disk
    <2> QED BY <1>1, <1>2, <2>1, <2>2, <2>3 DEF Writes, PendingIn
  <1>3. ASSUME NEW q \in Runs, Verified(q)', Drops(q, i)' PROVE Scrap(i)
    <2>1. CASE q # r
      <3>1. Task(q, i)' = Task(q, i) /\ Verified(q)
        BY <1>1, <1>3, <2>1, StepOfOne DEF OnlyRun, RunOrKill, Task
      <3> QED BY <1>3, <3>1 DEF Scrap, Drops
    <2>2. CASE q = r /\ Lessens(r, i)
      <3>1. Task(r, i).op = "clean" /\ Task(r, i).then = "dropped" /\ "dest" \in Task(r, i).away
        BY <1>3, <2>2 DEF Lessens, Drops
      <3>2. at[r] # "token"
        BY <3>1, BusyElsewhere DEF NoFix, Mending
      <3>3. Verified(r)
        BY <1>3, <2>2, <3>2, TokenStep
      <3> QED BY <3>1, <3>3 DEF Scrap, Drops
    <2>3. CASE q = r /\ Task(r, i)' = Diagnose(i)
      BY <1>3, <2>3, DiagnosedTask DEF Drops, Scrap
    <2>4. CASE q = r /\ (Task(r, i)' = NoFix \/ Task(r, i)' = Cleanup(index[i], {"dest"}, {}, "expired"))
      BY <1>3, <2>4 DEF Drops, NoFix, Cleanup
    <2> QED BY <1>1, <2>1, <2>2, <2>3, <2>4 DEF Tasks
  <1> QED BY <1>2, <1>3 DEF Scrap

\* The tombstone a run moves to, or cleans the sources of, is not such a copy.
LEMMA TargetIsKept ==
  ASSUME BaseInv, MoverInv, TaskInv, NEW r \in Runs, Verified(r),
         \/ at[r] \in {"rename", "finish", "remove"}
         \/ at[r] = "clean" /\ cur[r].left # {}
  PROVE  ~Scrap(cur[r].id)
  <1> DEFINE i == cur[r].id
  <1>1. HandInv /\ i \in Ids
    BY DEF BaseInv, HandInv, Moving, Mending
  <1>2. ~PendingIn("copy", i)
    <2>1. CASE at[r] = "rename" \/ at[r] = "remove"
      BY <2>1 DEF MoverInv, MoverOf, PendingIn, Moving
    <2>2. CASE at[r] = "finish" \/ (at[r] = "clean" /\ cur[r].left # {})
      <3>1. TaskOf(r, i) /\ Task(r, i).op = at[r] /\ Task(r, i).left = cur[r].left
        BY <1>1, <2>2 DEF TaskInv, Task
      <3> QED BY <2>2, <3>1 DEF TaskOf, PendingIn
    <2> QED BY <2>1, <2>2
  <1>3. ~Drops(r, i)
    <2>1. CASE at[r] = "rename" \/ at[r] = "remove"
      <3>1. Task(r, i) = NoFix
        BY <1>1, <2>1, NoTask DEF Mending
      <3> QED BY <3>1 DEF Drops, NoFix
    <2>2. CASE at[r] = "finish" \/ (at[r] = "clean" /\ cur[r].left # {})
      <3>1. TaskOf(r, i) /\ Task(r, i).op = at[r] /\ Task(r, i).left = cur[r].left
        BY <1>1, <2>2 DEF TaskInv, Task
      <3> QED BY <2>2, <3>1 DEF TaskOf, Drops
    <2> QED BY <2>1, <2>2
  <1> QED BY <1>2, <1>3 DEF Scrap, Verified

\* What a run removes of the source is in the tombstone.
LEMMA RemovedIsCopied ==
  ASSUME BaseInv, CopyInv, TaskInv, NEW r \in Runs, RunOrKill(r),
         RemoveSource(r) \/ CleanSource(r),
         NEW m \in cur[r].left
  PROVE  src[m] = 0 \/ src[m] = dest[cur[r].id][m]
  <1> DEFINE i == cur[r].id
  <1>1. HandInv /\ Verified(r)
    BY CallsHeld DEF BaseInv, RunOrKill
  <1>2. CASE RemoveSource(r)
    BY <1>1, <1>2 DEF RemoveSource, CopyInv, CopyOf, AllIn
  <1>3. CASE CleanSource(r)
    <2>1. at[r] = "clean" /\ Verified(r) /\ i \in Ids
      BY <1>1, <1>3 DEF CleanSource, HandInv, Mending
    <2>2. TaskOf(r, i) /\ Task(r, i).op = "clean" /\ Task(r, i).left = cur[r].left
      BY <2>1 DEF TaskInv, Task
    <2> QED BY <2>1, <2>2 DEF TaskOf, AllIn
  <1> QED BY <1>2, <1>3

\* What is at its path stays there or goes into a tombstone.
LEMMA SafeSource ==
  ASSUME BaseInv, CopyInv, MoverInv, TaskInv, BackSafe, NEW r \in Runs, RunOrKill(r),
         NEW m \in Members, src[m] # 0
  PROVE  src'[m] = src[m] \/ \E i \in Ids : dest'[i][m] = src[m] /\ ~Scrap(i)
  <1>1. /\ Puts(r) /\ TypeInv /\ dest \in [Ids -> [Members -> Versions]]
        /\ src \in [Members -> Versions]
    BY DiskStep DEF RunOrKill, BaseInv, TypeInv
  <1>2. CASE RenameMember(r) /\ Verified(r) /\ cur[r].id \in Ids
             /\ dest[cur[r].id][Min(cur[r].left)] = 0
             /\ src[Min(cur[r].left)] # 0
             /\ src' = [src EXCEPT ![Min(cur[r].left)] = 0]
             /\ dest' = [dest EXCEPT ![cur[r].id][Min(cur[r].left)] = src[Min(cur[r].left)]]
    <2>1. at[r] \in {"rename", "finish"} /\ Verified(r)
      BY <1>2 DEF RenameMember
    <2>2. ~Scrap(cur[r].id)
      BY <2>1, TargetIsKept
    <2>3. m = Min(cur[r].left) => dest'[cur[r].id][m] = src[m]
      BY <1>1, <1>2
    <2> QED BY <1>1, <1>2, <2>2, <2>3
  <1>3. CASE (RemoveSource(r) \/ CleanSource(r)) /\ cur[r].id \in Ids
             /\ Min(cur[r].left) \in cur[r].left
             /\ src' = [src EXCEPT ![Min(cur[r].left)] = 0] /\ UNCHANGED dest
    <2>1. Verified(r) /\ (at[r] = "remove" \/ (at[r] = "clean" /\ cur[r].left # {}))
      BY <1>1, <1>3, CallsHeld DEF RemoveSource, CleanSource, RunOrKill
    <2>2. ~Scrap(cur[r].id)
      BY <2>1, TargetIsKept
    <2>3. m = Min(cur[r].left) => dest[cur[r].id][m] = src[m]
      BY <1>3, RemovedIsCopied
    <2> QED BY <1>1, <1>3, <2>2, <2>3
  <1>4. CASE PutBack(r)
    <2>1. /\ at[r] = "back" /\ cur[r].left # {}
          /\ src' = [src EXCEPT ![Min(cur[r].left)] = dest[cur[r].id][Min(cur[r].left)]]
      BY <1>4 DEF PutBack
    <2>2. Min(cur[r].left) \in cur[r].left
      BY <1>1, <2>1, LeftFound, HandIds
    <2>3. src[Min(cur[r].left)] = 0
      BY <2>1, <2>2 DEF BackSafe, Restoring
    <2> QED BY <1>1, <2>1, <2>3
  <1>5. CASE UNCHANGED src
    BY <1>5
  <1>6. CASE Uncopy(r) \/ RestoreEnds(r)
    BY <1>6 DEF Uncopy, RestoreEnds
  <1> QED BY <1>1, <1>2, <1>3, <1>4, <1>5, <1>6 DEF Puts

\* What is in a tombstone stays there, or is put back, or its grace period is over.
LEMMA SafeTombstone ==
  ASSUME BaseInv, MoverInv, TaskInv, BackSafe, NEW r \in Runs, RunOrKill(r),
         NEW i \in Ids, ~Scrap(i), NEW d \in live', dest[i][d[1]] = d[2],
         d[1] \in Members, d[2] # 0
  PROVE  src'[d[1]] = d[2] \/ dest'[i][d[1]] = d[2]
  <1> DEFINE j == cur[r].id
  <1>1. /\ Puts(r) /\ TypeInv /\ dest \in [Ids -> [Members -> Versions]]
        /\ src \in [Members -> Versions] /\ dest[i] # Nothing /\ dest[i][d[1]] # 0
    BY DiskStep DEF RunOrKill, BaseInv, TypeInv, Nothing
  <1>2. CASE RenameMember(r) /\ dest[j][Min(cur[r].left)] = 0
             /\ dest' = [dest EXCEPT ![j][Min(cur[r].left)] = src[Min(cur[r].left)]]
    BY <1>1, <1>2
  <1>3. CASE PlaceCopy(r)
    BY <1>1, <1>3 DEF PlaceCopy
  <1>4. CASE UNCHANGED dest
    BY <1>4
  <1>5. CASE CleanDest(r) /\ UNCHANGED src /\ dest' = [dest EXCEPT ![j] = Nothing]
    <2>1. CASE j # i
      BY <1>1, <1>5, <2>1
    <2>2. CASE j = i
      <3>1. at[r] = "clean" /\ "dest" \in cur[r].away /\ Verified(r)
        BY <1>1, <1>5, CallsHeld DEF CleanDest, RunOrKill
      <3>2. /\ TaskOf(r, i) /\ Task(r, i).op = "clean" /\ Task(r, i).then = cur[r].then
            /\ "dest" \in Task(r, i).away
        BY <2>2, <3>1 DEF TaskInv, Task
      <3>3. cur[r].then # "dropped"
        BY <3>1, <3>2 DEF Scrap, Drops
      <3>4. cur[r].then = "expired" /\ i \in ripe
        BY <1>1, <3>1, <3>2, <3>3 DEF TaskOf
      <3>5. Forgets(i)
        BY <1>5, <2>2, <3>4 DEF CleanDest
      <3> QED BY <1>5, <3>4, <3>5 DEF Forgets
    <2> QED BY <2>1, <2>2
  <1>6. CASE PutBack(r)
    <2>1. /\ at[r] = "back" /\ j \in Ids
          /\ src' = [src EXCEPT ![Min(cur[r].left)] = dest[j][Min(cur[r].left)]]
          /\ dest' = dest \/ dest' = [dest EXCEPT ![j][Min(cur[r].left)] = 0]
      BY <1>6 DEF PutBack, BaseInv, HandInv, Restoring
    <2> QED BY <1>1, <2>1
  <1>7. CASE RestoreEnds(r)
    <2>1. /\ at[r] = "back" /\ j \in Ids /\ cur[r].left = {}
          /\ dest' = [dest EXCEPT ![j] = Nothing]
      BY <1>7 DEF RestoreEnds, Goes, BaseInv, HandInv, Restoring
    <2>2. d[1] \notin Has(dest[j])
      BY <2>1 DEF BackSafe, Restoring
    <2> QED BY <1>1, <2>1, <2>2 DEF Has
  <1>8. ~Uncopy(r)
    BY DEF BackSafe, Restoring, Uncopy, Goes
  <1> QED BY <1>1, <1>2, <1>3, <1>4, <1>5, <1>6, <1>7, <1>8 DEF Puts

\* A run adds nothing to what has to be kept.
LEMMA LiveLess ==
  ASSUME BaseInv, NEW r \in Runs, RunOrKill(r)
  PROVE  live' \subseteq live
  <1>1. UNCHANGED live \/ CleanDest(r)
    BY DiskStep DEF RunOrKill
  <1> QED BY <1>1 DEF CleanDest, Forgets

\* Every step keeps each version at its path or in a tombstone that stays.
LEMMA SafeStep ==
  ASSUME NoSurprise, BaseInv, LossInv, BackSafe, SoundNext
  PROVE  SafeInv'
  <1> USE DEF LossInv
  <1>1. TypeInv /\ \A d \in live : d = <<d[1], d[2]>> /\ d[1] \in Members /\ d[2] # 0
    BY DEF BaseInv, TypeInv, ClockInv
  <1>2. ASSUME NEW r \in Runs, RunOrKill(r), NEW d \in live'
        PROVE  src'[d[1]] = d[2] \/ \E i \in Ids : dest'[i][d[1]] = d[2] /\ ~Scrap(i)'
    <2>1. d \in live /\ d[1] \in Members /\ d[2] # 0
      BY <1>1, <1>2, LiveLess
    <2>2. \A i \in Ids : dest'[i][d[1]] = d[2] /\ ~Scrap(i) => ~Scrap(i)'
      BY <1>2, <2>1, ScrapStep DEF Nothing
    <2>3. CASE src[d[1]] = d[2]
      BY <1>2, <2>1, <2>2, <2>3, SafeSource
    <2>4. ASSUME NEW i \in Ids, dest[i][d[1]] = d[2], ~Scrap(i)
          PROVE  src'[d[1]] = d[2] \/ dest'[i][d[1]] = d[2]
      BY <1>2, <2>1, <2>4, SafeTombstone
    <2> QED BY <1>2, <2>1, <2>2, <2>3, <2>4 DEF SafeInv
  <1>3. ASSUME NEW m \in Members, Write(m) \/ Delete(m) PROVE SafeInv'
    <2>1. /\ UNCHANGED <<index, at, plan, cur, lock, dest>>
          /\ \A n \in Members : n # m => src'[n] = src[n]
          /\ live' = live \ {<<m, src[m]>>} \/ live' = (live \ {<<m, src[m]>>}) \cup {<<m, src'[m]>>}
      BY <1>1, <1>3 DEF Write, Delete, mine, journal, TypeInv
    <2>2. \A i \in Ids : Scrap(i)' <=> Scrap(i)
      BY <2>1 DEF Scrap, PendingIn, Drops, Task, Verified
    <2> QED BY <1>1, <2>1, <2>2 DEF SafeInv
  <1>4. CASE MinutesPass \/ DaysPass \/ Still
    <2>1. UNCHANGED <<at, cur, plan, index, src, dest, live>> /\ lock'.token = lock.token
      BY <1>4, OutsideRuns DEF MinutesPass, DaysPass, Still, disk, journal, mine, world, BaseInv
    <2>2. \A i \in Ids : Scrap(i)' <=> Scrap(i)
      BY <2>1 DEF Scrap, PendingIn, Drops, Task, Verified
    <2> QED BY <2>1, <2>2 DEF SafeInv
  <1> QED BY <1>2, <1>3, <1>4 DEF SoundNext, SafeInv

\* While no call has been made without the token, none is made by this step either.
LEMMA SoundSteps ==
  ASSUME BaseInv, SureInv, [Next]_vars, ~slipped'
  PROVE  SoundNext
  <1>1. ASSUME NEW r \in Runs, Step(r) PROVE RunOrKill(r)
    <2>1. RunStep(r) /\ ~Slips(r)
      BY <1>1 DEF Step
    <2>2. Sound(r)
      BY <2>1 DEF Sound, Slips, Allowed
    <2> QED BY <2>1, <2>2 DEF RunOrKill, SureInv
  <1>2. ASSUME NEW r \in Runs, Crash(r) PROVE RunOrKill(r)
    <2>1. at'[r] = "off"
      BY <1>2 DEF Crash, BaseInv, TypeInv
    <2> QED BY <1>2, <2>1 DEF RunOrKill, SureInv, Sound
  <1>3. ASSUME NEW r \in Runs, NEW k \in Kinds, Start(r, k) PROVE RunOrKill(r)
    <2>1. at[r] = "off"
      BY <1>3 DEF Start, Goes
    <2>2. Sound(r)
      BY <2>1 DEF Sound, Allowed, There
    <2> QED BY <1>3, <2>2 DEF RunOrKill, SureInv
  <1>4. (\E r \in Runs : Verify(r)) \/ UNCHANGED vars => Still
    BY DEF Verify, Still, vars
  <1> QED BY <1>1, <1>2, <1>3, <1>4 DEF Next, SoundNext

\* What a run found before it looked at its token stays while it holds the lock.
LEMMA SureStep ==
  ASSUME ~Racing, BaseInv, MoverInv, CopyInv, SureInv, [Next]_vars, ~slipped'
  PROVE  SureInv'
  <1>1. ASSUME NEW r \in Runs, RunOrKill(r), sure' \subseteq sure,
               r \notin sure' \/ at'[r] = "lock"
        PROVE  SureInv'
    <2>1. SureOf(r)'
      BY <1>1 DEF SureOf
    <2>2. ASSUME NEW q \in Runs, q # r PROVE SureOf(q)'
      <3> DEFINE i == cur[q].id
      <3> SUFFICES ASSUME q \in sure', Verified(q)', at'[q] \in {"rename", "finish", "staged"}
                   PROVE  SureOf(q)'
        BY DEF SureOf
      <3>1. /\ at'[q] = at[q] /\ cur'[q] = cur[q] /\ Verified(q) /\ ~Verified(r) /\ SureOf(q)
            /\ q \in sure
        BY <1>1, <2>2, StepOfOne DEF OnlyRun, RunOrKill, BaseInv, SureInv, Verified
      <3>2. /\ UNCHANGED <<src, dest>> /\ (UNCHANGED tmp \/ Stage(r))
            /\ i \in Ids /\ (cur[r].id # i => tmp'[i] = tmp[i])
        BY <1>1, <3>1, DiskStep DEF BaseInv, HandInv, Moving, Mending
      <3>3. at[q] = "staged" => tmp'[i] = tmp[i]
        <4>1. at[q] = "staged" /\ Stage(r) => cur[r].id # i
          BY <2>2 DEF Stage, Goes, MoverInv, MoverOf, Mover, Moving
        <4> QED BY <3>2, <4>1
      <3> QED BY <3>1, <3>2, <3>3 DEF SureOf, AllIn
    <2> QED BY <2>1, <2>2 DEF SureInv
  <1>2. ASSUME NEW r \in Runs, Step(r) \/ Crash(r) PROVE SureInv'
    <2>1. sure' \subseteq sure /\ r \notin sure'
      BY <1>2 DEF Step, Crash
    <2>2. RunOrKill(r)
      <3>1. CASE Step(r)
        <4>1. RunStep(r) /\ ~Slips(r)
          BY <3>1 DEF Step
        <4> QED BY <4>1 DEF RunOrKill, SureInv, Sound, Slips, Allowed
      <3>2. CASE Crash(r)
        <4>1. at'[r] = "off"
          BY <3>2 DEF Crash, BaseInv, TypeInv
        <4> QED BY <3>2, <4>1 DEF RunOrKill, SureInv, Sound
      <3> QED BY <1>2, <3>1, <3>2
    <2> QED BY <1>1, <2>1, <2>2
  <1>3. ASSUME NEW r \in Runs, NEW k \in Kinds, Start(r, k) PROVE SureInv'
    <2>1. at[r] = "off" /\ at'[r] = "lock" /\ sure' = sure
      BY <1>3 DEF Start, Goes, sight, BaseInv, TypeInv
    <2>2. RunOrKill(r)
      BY <1>3, <2>1 DEF RunOrKill, SureInv, Sound, Allowed, There
    <2> QED BY <1>1, <2>1, <2>2
  <1>4. ASSUME NEW r \in Runs, Verify(r) PROVE SureInv'
    <2>1. /\ UNCHANGED <<src, dest, tmp, lock, at, cur>> /\ sure' = sure \cup {r}
          /\ r \notin sure /\ Verified(r) /\ Due(r)
      BY <1>4 DEF Verify, disk, mine
    <2>2. at[r] \in {"rename", "finish"} => dest[cur[r].id][Min(cur[r].left)] = 0
      BY <2>1 DEF Due, NextToRename, ToRename
    <2>3. at[r] = "staged" => AllIn(tmp[cur[r].id], cur[r].left)
      BY <2>1, MeasuredIn DEF Due, SourceChanged, CopyInv
    <2> QED BY <2>1, <2>2, <2>3 DEF SureInv, SureOf, AllIn, Verified
  <1>5. ASSUME NEW m \in Members, Write(m) \/ Delete(m) PROVE SureInv'
    <2>1. UNCHANGED <<dest, tmp, lock, at, cur, sure>> /\ Quiet
      BY <1>5 DEF Write, Delete, mine, sight
    <2>2. \A r \in sure : at[r] # "staged"
      BY <2>1 DEF Quiet, Guarded, BaseInv, SightInv
    <2> QED BY <2>1, <2>2 DEF SureInv, SureOf, Verified
  <1>6. CASE MinutesPass \/ DaysPass \/ UNCHANGED vars
    <2>1. UNCHANGED <<src, dest, tmp, at, cur, sure>> /\ lock'.token = lock.token
      BY <1>6 DEF MinutesPass, DaysPass, vars, disk, mine, sight, BaseInv, TypeInv
    <2> QED BY <2>1 DEF SureInv, SureOf, Verified, AllIn
  <1> QED BY <1>2, <1>3, <1>4, <1>5, <1>6 DEF Next

\* Who has slipped has slipped for good.
LEMMA SlippedStays ==
  ASSUME [Next]_vars, slipped
  PROVE  slipped'
  BY DEF Next, Step, Verify, Crash, Start, Write, Delete, MinutesPass, DaysPass, sight, vars

\* A lone run never acts without the lock.
LEMMA NoSlip ==
  ASSUME Alone, BaseInv, HeldInv, ~slipped, [Next]_vars
  PROVE  ~slipped'
  <1>1. ASSUME NEW r \in Runs, Slips(r) PROVE FALSE
    <2>1. ~Verified(r) /\ There(r)
      BY <1>1 DEF Slips, Allowed
    <2>2. at[r] \notin Outside
      BY <2>1 DEF There, Outside
    <2> QED BY <2>1, <2>2 DEF HeldInv, HeldHand
  <1> QED BY <1>1 DEF Next, Step, Verify, Crash, Start, Write, Delete, MinutesPass, DaysPass,
             sight, vars

\* Where nobody restores, nothing is put back.
LEMMA NoRestoreStep ==
  ASSUME NoRestore, BaseInv, NoRestoreInv, SoundNext
  PROVE  NoRestoreInv'
  <1>1. ASSUME NEW r \in Runs, RunOrKill(r)
        PROVE  /\ at'[r] \notin Restoring \cup {"restore"}
               /\ at'[r] \in {"survey", "fix"} \/ cur'[r].back = "fix" => kind'[r] = "apply"
    <2>1. /\ TypeInv /\ Hand(r) /\ at \in [Runs -> Places] /\ cur \in [Runs -> Locals]
          /\ kind \in [Runs -> Kinds] /\ plan \in [Runs -> [Ids -> Fixes]] /\ cur[r] \in Locals
          /\ at[r] \notin Restoring \cup {"restore"} /\ Idle.back = "none"
          /\ (at[r] \in {"survey", "fix"} \/ cur[r].back = "fix" => kind[r] = "apply")
          /\ Kinds \subseteq {"apply", "move"}
      BY HandOfEach, TombstonesAssumption DEF BaseInv, TypeInv, NoRestoreInv, NoRestore, Idle
    <2> USE DEF Goes, Restoring
    <2>2. CASE LockStep(r)
      BY <2>1, <2>2 DEF LockStep, MakeLock, AlreadyRunning, FindStale, Claim, WriteToken, Release, Quit
    <2>3. CASE Crash(r)
      BY <2>1, <2>3 DEF Crash, Quit
    <2>4. CASE \E k \in Kinds : Start(r, k)
      BY <2>1, <2>4 DEF Start, Hand, Outside
    <2>5. CASE MoveStep(r)
      <3>1. /\ at'[r] \notin Restoring \cup {"restore", "survey", "fix"} /\ kind' = kind
        BY <2>1, <2>5 DEF MoveStep, Stores, Prepare, PrepareStops, RenameMember, RenameStops,
           RenamesDone, SwitchToCopy, Stage, StageFails, CopyDropped, PlaceCopy, PlaceFails,
           MarkCopied, RemoveSource, CopyStops, SourcesRemoved, MarkDone, EndMove
      <3>2. cur'[r].back = cur[r].back \/ cur'[r].back = "none"
        <4>1. CASE Prepare(r)
          BY <2>1, <4>1 DEF Prepare, Works, Idle
        <4>2. CASE RenameMember(r) \/ RemoveSource(r)
          BY <2>1, <4>2 DEF RenameMember, RemoveSource, DoneWith, Locals
        <4>3. CASE SwitchToCopy(r)
          BY <2>1, <4>3 DEF SwitchToCopy, Works, Idle
        <4>4. CASE Stage(r)
          BY <2>1, <4>4 DEF Stage, Locals
        <4>5. CASE \/ PrepareStops(r) \/ RenameStops(r) \/ StageFails(r) \/ CopyDropped(r)
                   \/ PlaceFails(r) \/ CopyStops(r) \/ MarkDone(r)
          <5>1. EndMove(r)
            BY <4>5 DEF PrepareStops, RenameStops, StageFails, CopyDropped, PlaceFails, CopyStops, MarkDone
          <5> QED BY <2>1, <5>1 DEF EndMove
        <4>6. CASE Stores(r) \/ RenamesDone(r) \/ PlaceCopy(r) \/ MarkCopied(r) \/ SourcesRemoved(r)
          BY <4>6 DEF Stores, RenamesDone, PlaceCopy, MarkCopied, SourcesRemoved
        <4> QED BY <2>5, <4>1, <4>2, <4>3, <4>4, <4>5, <4>6 DEF MoveStep
      <3> QED BY <2>1, <3>1, <3>2
    <2>6. CASE FixStep(r)
      <3>1. CASE Survey(r) \/ ReconcileEnds(r)
        BY <2>1, <3>1 DEF Survey, ReconcileEnds
      <3>2. CASE TakeFix(r)
        <4>1. Min(Planned(r)) \in Ids
          BY <3>2, PlanFound DEF TakeFix
        <4>2. plan[r][Min(Planned(r))] \in Fixes
          BY <2>1, <4>1
        <4>3. at'[r] \notin Restoring \cup {"restore"}
          BY <2>1, <3>2, <4>2 DEF TakeFix, Fixes
        <4> QED BY <2>1, <3>2, <4>3 DEF TakeFix, Takes
      <3>3. CASE CleanDest(r) \/ CleanTmp(r) \/ CleanSource(r) \/ CleanDone(r) \/ FinishDone(r)
        <4>1. cur'[r].back = cur[r].back
          <5>1. CASE CleanDest(r)
            BY <2>1, <5>1 DEF CleanDest, Locals
          <5>2. CASE CleanTmp(r)
            BY <2>1, <5>2 DEF CleanTmp, Locals
          <5>3. CASE CleanSource(r)
            BY <2>1, <5>3 DEF CleanSource, DoneWith, Locals
          <5>4. CASE CleanDone(r) \/ FinishDone(r)
            BY <2>1, <5>4 DEF CleanDone, FinishDone, Locals
          <5> QED BY <3>3, <5>1, <5>2, <5>3, <5>4
        <4>2. kind' = kind /\ at'[r] \in {"clean", "record"}
          BY <2>1, <3>3 DEF CleanDest, CleanTmp, CleanSource, CleanDone, FinishDone
        <4> QED BY <2>1, <4>1, <4>2
      <3>4. CASE CleanStops(r) \/ FinishStops(r) \/ RecordFix(r)
        <4>1. FixEnds(r) /\ at[r] \in Mending
          BY <3>4 DEF CleanStops, FinishStops, RecordFix, Mending
        <4> QED BY <2>1, <4>1 DEF FixEnds, Hand
      <3> QED BY <2>6, <3>1, <3>2, <3>3, <3>4 DEF FixStep
    <2>7. CASE LaterStep(r)
      <3>1. CASE ExpireNext(r)
        BY <2>1, <3>1 DEF ExpireNext, Takes
      <3>2. CASE ~ExpireNext(r)
        BY <2>1, <2>7, <3>2 DEF LaterStep, FindExpired, ExpireEnds, Compact, CompactFails,
           BeginRestore, RestoreRefused, PutBack, Uncopy, RestoreStops, RestoreEnds, MarkRestored
      <3> QED BY <3>1, <3>2
    <2> QED BY <1>1, <2>2, <2>3, <2>4, <2>5, <2>6, <2>7 DEF RunOrKill, RunStep
  <1>2. ASSUME NEW r \in Runs, RunOrKill(r) PROVE NoRestoreInv'
    <2>1. \A q \in Runs \ {r} : at'[q] = at[q] /\ cur'[q] = cur[q] /\ kind'[q] = kind[q]
      <3>1. \A q \in Runs \ {r} : at'[q] = at[q] /\ cur'[q] = cur[q]
        BY <1>2, StepOfOne DEF OnlyRun, RunOrKill, BaseInv
      <3>2. kind' = kind \/ \E k \in Kinds : kind' = [kind EXCEPT ![r] = k]
        BY <1>2 DEF RunOrKill, RunStep, LockStep, MoveStep, FixStep, LaterStep, Start, Crash,
           MakeLock, AlreadyRunning, FindStale, Claim, WriteToken, Release,
           Stores, Prepare, PrepareStops, RenameMember, RenameStops, RenamesDone, SwitchToCopy,
           Stage, StageFails, CopyDropped, PlaceCopy, PlaceFails, MarkCopied, RemoveSource,
           CopyStops, SourcesRemoved, MarkDone, EndMove, Survey, TakeFix, ReconcileEnds,
           CleanDest, CleanTmp, CleanSource, CleanStops, CleanDone, FinishStops, FinishDone,
           RecordFix, FixEnds, FindExpired, ExpireNext, ExpireEnds, Compact, CompactFails,
           BeginRestore, RestoreRefused, PutBack, Uncopy, RestoreStops, RestoreEnds, MarkRestored
      <3>3. kind \in [Runs -> Kinds]
        BY DEF BaseInv, TypeInv
      <3> QED BY <3>1, <3>2, <3>3
    <2> QED BY <1>1, <1>2, <2>1 DEF NoRestoreInv
  <1>3. CASE \/ \E m \in Members : Write(m) \/ Delete(m)
             \/ MinutesPass \/ DaysPass \/ Still
    BY <1>3, OutsideRuns DEF BaseInv, NoRestoreInv
  <1> QED BY <1>2, <1>3 DEF SoundNext

\* The invariant holds at the start, ...
LEMMA LossStart == Init => LossInv
  <1> SUFFICES ASSUME Init PROVE LossInv
    OBVIOUS
  <1>1. /\ TypeInv /\ \A r \in Runs : at[r] = "off" /\ cur[r] = Idle /\ plan[r] = NoPlan
        /\ \A i \in Ids : index[i] = NoRecord
    BY BaseStart DEF Init, BaseInv
  <1>2. \A r \in Runs, i \in Ids : Task(r, i) = NoFix
    BY <1>1 DEF Task, NoPlan
  <1>3. ClockInv
    <2>1. 0 <= version /\ version = 1 /\ NoPrint.mtime = 0 /\ NoRecord.print.mtime = 0
          /\ NoFix.rec.print.mtime = 0 /\ Idle.print.mtime = 0 /\ Idle.rec.print.mtime = 0
      BY DEF Init, NoPrint, NoRecord, NoFix, Idle
    <2> QED BY <1>1, <2>1 DEF Init, ClockInv, Nothing, NoPlan
  <1>4. SafeInv
    BY DEF Init, SafeInv
  <1>5. CopyInv /\ MoverInv /\ ExpiringInv
    BY <1>1 DEF CopyInv, CopyOf, CopiedId, MoverInv, MoverOf, ExpiringInv, Moving, NoRecord
  <1>6. TaskInv
    BY <1>1, <1>2, NoFixTask DEF TaskInv, ExpiryOf, Mending
  <1> QED BY <1>3, <1>4, <1>5, <1>6 DEF LossInv

\* ... over every step, ...
LEMMA LossStep ==
  ASSUME ~Racing, NoSurprise, BaseInv, LossInv, BackSafe, SoundNext
  PROVE  LossInv'
  BY SafeStep, ClockStep, CopyStep, TaskInvStep, ExpiringStep, MoverStep DEF LossInv

\* ... and says that nothing is lost.
LEMMA LossSafe == LossInv => NothingLost
  BY DEF LossInv, SafeInv, NothingLost

\* The start has no looks at tokens.
LEMMA SureStart == Init => SureInv
  BY DEF Init, SureInv, SureOf

\* Whoever's lock is claimed while it is slow, and whatever is killed or fails, gc
\* without restores keeps what a program last wrote at its path or in a tombstone,
\* as long as programs keep out of the windows between what a run has seen of the
\* source and what it does about it, and until a run that was overtaken between
\* verify() and the call it guards makes that call without the lock.
THEOREM NothingLostByMoves ==
  ~Racing /\ NoSurprise /\ NoRestore => (Spec => []LostOnlyAfterSlip)
  <1> DEFINE Kept == LossInv /\ SureInv /\ NoRestoreInv
             Inv == slipped \/ Kept
  <1>1. SUFFICES ASSUME ~Racing, NoSurprise, NoRestore PROVE Spec => []LostOnlyAfterSlip
    OBVIOUS
  <1>2. Init => Inv
    <2>1. Init => NoRestoreInv
      BY DEF Init, NoRestoreInv, Restoring, Idle
    <2> QED BY <2>1, LossStart, SureStart
  <1>3. Inv /\ BaseInv /\ [Next]_vars => Inv'
    <2> SUFFICES ASSUME Inv, BaseInv, [Next]_vars, ~slipped' PROVE Kept'
      OBVIOUS
    <2>1. Kept
      BY SlippedStays
    <2>2. BackSafe
      BY <2>1 DEF NoRestoreInv, BackSafe
    <2>3. SoundNext
      BY <2>1, SoundSteps
    <2>4. NoRestoreInv'
      BY <1>1, <2>1, <2>3, NoRestoreStep
    <2>5. SureInv'
      BY <1>1, <2>1, SureStep DEF LossInv
    <2>6. LossInv'
      BY <1>1, <2>1, <2>2, <2>3, LossStep
    <2> QED BY <2>4, <2>5, <2>6
  <1>4. Inv => LostOnlyAfterSlip
    BY LossSafe DEF LostOnlyAfterSlip
  <1> HIDE DEF Inv
  <1> QED BY <1>2, <1>3, <1>4, BaseHolds, PTL DEF Spec

-----------------------------------------------------------------------------
(* One run, one filesystem: restores                                        *)

KeptBefore(r) ==
    /\ Runs = {r} /\ r \in Runs /\ KeptHand(r) /\ KeptPlan(r) /\ Hand(r) /\ Far = {}
    /\ \A i \in Ids : KeptId(i)
    /\ src \in [Members -> Versions] /\ dest \in [Ids -> [Members -> Versions]]
    /\ index \in [Ids -> Records]
    /\ at \in [Runs -> Places] /\ plan \in [Runs -> [Ids -> Fixes]] /\ cur \in [Runs -> Locals]
    /\ cur[r] \in Locals /\ plan[r] \in [Ids -> Fixes]

KeptAfter(r) == KeptHand(r) /\ KeptPlan(r) /\ \A i \in Ids : KeptId(i)

\* A change of state leaves the rest of a record.
LEMMA WithStateRest ==
  ASSUME NEW rec \in Records, NEW s
  PROVE  /\ WithState(rec, s).mode = rec.mode /\ WithState(rec, s).missing = rec.missing
         /\ WithState(rec, s).state = s
  BY DEF WithState, Records

\* An append of a rename's record keeps what is known of each id.
LEMMA KeptAppend ==
  ASSUME NEW r, KeptBefore(r), NEW i \in Ids, NEW rec, Append(i, rec), UNCHANGED dest,
         rec.mode # "copy", rec.state # "copied", \A m \in rec.missing : dest[i][m] = 0
  PROVE  /\ \A j \in Ids : KeptId(j)'
         /\ \A j \in Ids : index'[j] = IF j = i THEN rec ELSE index[j]
  <1>1. \A j \in Ids : index'[j] = IF j = i THEN rec ELSE index[j]
    BY DEF KeptBefore, Append
  <1> QED BY <1>1 DEF KeptBefore, KeptId

\* A record that only changes its state.
LEMMA KeptMark ==
  ASSUME NEW r, KeptBefore(r), NEW i \in Ids, NEW rec \in Records, NEW s,
         Append(i, WithState(rec, s)), UNCHANGED dest, s # "copied",
         rec.mode # "copy", \A m \in rec.missing : dest[i][m] = 0
  PROVE  /\ \A j \in Ids : KeptId(j)'
         /\ \A j \in Ids : j # i => index'[j] = index[j]
         /\ index'[i] = WithState(rec, s)
  <1> DEFINE new == WithState(rec, s)
  <1>1. new.mode = rec.mode /\ new.missing = rec.missing /\ new.state = s
    BY WithStateRest
  <1> HIDE DEF new
  <1>2. Append(i, new)
    BY DEF new
  <1>3. /\ \A j \in Ids : KeptId(j)'
        /\ \A j \in Ids : index'[j] = IF j = i THEN new ELSE index[j]
    BY <1>1, <1>2, KeptAppend
  <1> QED BY <1>3 DEF new

\* A run with empty hands has nothing to keep.
LEMMA KeptIdle ==
  ASSUME NEW r, KeptBefore(r), at'[r] \in Outside \cup Deciding,
         \A i \in Ids : plan'[r][i] = NoFix, cur'[r] = cur[r] \/ cur'[r] = Idle
  PROVE  KeptHand(r)' /\ KeptPlan(r)'
  <1>1. Idle.rec.mode = "none"
    BY DEF Idle, NoRecord
  <1> QED BY <1>1 DEF KeptBefore, KeptHand, KeptPlan, Planned, Outside, Deciding, Moving, Mending, Restoring

\* Restores beside renames: the steps of the lock, ...
LEMMA KeptLock ==
  ASSUME NEW r, KeptBefore(r), LockStep(r) \/ Crash(r) \/ \E k \in Kinds : Start(r, k)
  PROVE  KeptAfter(r)'
  <1>1. UNCHANGED <<dest, index, src>>
    BY DEF LockStep, MakeLock, AlreadyRunning, FindStale, Claim, WriteToken, Release, Crash, Start,
       disk, journal
  <1>2. at'[r] \in Outside \cup Deciding
    BY DEF KeptBefore, LockStep, MakeLock, AlreadyRunning, FindStale, Claim, WriteToken,
       Release, Crash, Start, Goes, Outside, Deciding
  <1>3. \A i \in Ids : plan'[r][i] = NoFix
    BY DEF KeptBefore, LockStep, MakeLock, AlreadyRunning, FindStale, Claim, WriteToken,
       Release, Crash, Start, Goes, Outside, Deciding, Hand, Planned, Quit, NoPlan, Mending
  <1>4. cur'[r] = cur[r] \/ cur'[r] = Idle
    BY DEF KeptBefore, LockStep, MakeLock, AlreadyRunning, FindStale, Claim, WriteToken,
       Release, Crash, Start, Quit
  <1> QED BY <1>1, <1>2, <1>3, <1>4, KeptIdle DEF KeptAfter, KeptBefore, KeptId

\* ... the end of a move, ...
LEMMA KeptEndMove ==
  ASSUME NEW r, KeptBefore(r), EndMove(r), at[r] \in Moving \cup {"prepare"}
  PROVE  KeptHand(r)' /\ KeptPlan(r)'
  <1>1. at'[r] \in Deciding /\ plan' = plan /\ cur'[r] = Idle
    BY DEF KeptBefore, EndMove, Deciding
  <1>2. \A i \in Ids : plan'[r][i] = NoFix
    BY <1>1 DEF KeptBefore, Hand, Planned, Moving, Mending
  <1> QED BY <1>1, <1>2, KeptIdle

\* ... its steps, ...
LEMMA KeptMove ==
  ASSUME NEW r, KeptBefore(r), MoveStep(r)
  PROVE  KeptAfter(r)'
  <1> DEFINE i == cur[r].id
             rec == cur[r].rec
  <1>1. /\ rec \in Records /\ cur[r].left \in SUBSET Members /\ layout.far = {}
        /\ (at[r] \in Moving \cup Mending => i \in Ids)
        /\ (at[r] \in Moving \cup {"prepare", "stores"} => \A j \in Ids : plan[r][j] = NoFix)
    BY DEF KeptBefore, Locals, Hand, Planned, Mending, Moving, Far
  <1> USE DEF Goes
  <1>2. CASE PrepareStops(r) \/ RenameStops(r)
    <2>1. /\ EndMove(r) /\ at[r] \in Moving \cup {"prepare"} /\ UNCHANGED <<dest, index>>
      BY <1>2 DEF PrepareStops, RenameStops, Moving, disk, journal
    <2> QED BY <2>1, KeptEndMove DEF KeptAfter, KeptBefore, KeptId
  <1>3. CASE MarkDone(r)
    <2>1. /\ EndMove(r) /\ at[r] = "done" /\ UNCHANGED dest /\ i \in Ids
      BY <1>1, <1>3 DEF MarkDone, Moving, disk
    <2>2. KeptHand(r)' /\ KeptPlan(r)'
      BY <2>1, KeptEndMove DEF Moving
    <2>3. CASE UNCHANGED journal
      BY <2>1, <2>2, <2>3 DEF KeptAfter, KeptBefore, KeptId, journal
    <2>4. CASE Append(i, WithState(rec, "done"))
      <3>1. rec.mode # "copy" /\ \A m \in rec.missing : dest[i][m] = 0
        BY <2>1 DEF KeptBefore, KeptHand, Moving
      <3>2. \A j \in Ids : KeptId(j)'
        BY <1>1, <2>1, <2>4, <3>1, KeptMark
      <3> QED BY <2>2, <3>2 DEF KeptAfter
    <2> QED BY <1>3, <2>3, <2>4 DEF MarkDone
  <1>4. CASE Stores(r)
    <2>1. /\ at'[r] \in Deciding /\ UNCHANGED <<dest, index, plan, cur>>
      BY <1>4 DEF Stores, Deciding, KeptBefore, disk, journal
    <2> QED BY <1>1, <1>4, <2>1, KeptIdle DEF KeptAfter, KeptBefore, KeptId, Stores
  <1>5. CASE Prepare(r)
    <2> DEFINE new == [state |-> "pending", mode |-> at'[r],
                       missing |-> Members \ Has(src), print |-> NoPrint]
    <2>1. PICK j \in Ids : FreshId(j) /\ Append(j, new) /\ Works(r, j, new, Has(src))
      BY <1>5 DEF Prepare
    <2>2. dest[j] = Nothing /\ UNCHANGED <<src, dest, plan>> /\ at'[r] = "rename"
      BY <1>1, <1>5, <2>1 DEF FreshId, Prepare, disk, KeptBefore
    <2>3. new.mode = "rename" /\ new.state = "pending" /\ new.missing = Members \ Has(src)
      BY <2>2
    <2>4. cur'[r].id = j /\ cur'[r].rec = new /\ cur'[r].left = Has(src)
      BY <2>1 DEF Works, KeptBefore
    <2> HIDE DEF new
    <2>5. \A m \in Members : dest[j][m] = 0
      BY <2>2 DEF Nothing
    <2>6. (\A k \in Ids : KeptId(k)') /\ index'[j] = new
      BY <2>1, <2>2, <2>3, <2>5, KeptAppend
    <2>7. KeptHand(r)'
      BY <2>2, <2>3, <2>4, <2>5, <2>6 DEF KeptHand, Restoring
    <2>8. KeptPlan(r)'
      BY <1>1, <1>5, <2>2 DEF KeptPlan, Planned, Prepare
    <2> QED BY <2>6, <2>7, <2>8 DEF KeptAfter
  <1>6. CASE RenameMember(r)
    <2> DEFINE m == Min(cur[r].left)
    <2>1. /\ m \in cur[r].left /\ m \in Members /\ i \in Ids /\ at' = at
          /\ at[r] \in {"rename", "finish"} /\ UNCHANGED <<index, plan>>
      BY <1>1, <1>6, LeftFound DEF RenameMember, Moving, Mending, journal
    <2>2. cur'[r].id = i /\ cur'[r].left = cur[r].left \ {m} /\ cur'[r].rec = rec
      BY <1>6 DEF RenameMember, DoneWith, KeptBefore, Locals
    <2>3. m \notin rec.missing /\ index[i].missing = rec.missing
      BY <2>1 DEF KeptBefore, KeptHand
    <2>4. /\ \A j \in Ids : j # i => dest'[j] = dest[j]
          /\ \A n \in Members : n # m => dest'[i][n] = dest[i][n]
      BY <1>6, <2>1 DEF RenameMember, KeptBefore
    <2>5. rec.missing \subseteq Members /\ \A j \in Ids : index[j].missing \subseteq Members
      BY <1>1 DEF KeptBefore, Records
    <2>6. ASSUME NEW j \in Ids PROVE KeptId(j)'
      <3>1. KeptId(j) /\ index'[j] = index[j]
        BY <2>1 DEF KeptBefore
      <3>2. CASE j = i
        <4>1. \A n \in index[i].missing : n # m /\ n \in Members
          BY <2>1, <2>3, <2>5
        <4> HIDE DEF m
        <4> QED BY <2>1, <2>4, <3>1, <3>2, <4>1 DEF KeptId
      <3>3. CASE j # i
        BY <2>1, <2>4, <3>1, <3>3 DEF KeptId
      <3> QED BY <3>2, <3>3
    <2>7. KeptHand(r)'
      BY <2>1, <2>2, <2>3, <2>4, <2>5 DEF KeptBefore, KeptHand, Moving, Mending, Restoring
    <2>8. KeptPlan(r)'
      BY <2>1 DEF KeptBefore, KeptPlan, Planned
    <2> QED BY <2>6, <2>7, <2>8 DEF KeptAfter
  <1>7. CASE RenamesDone(r)
    <2>1. /\ UNCHANGED <<dest, index, plan, cur>> /\ at[r] = "rename" /\ at'[r] = "done"
      BY <1>7 DEF RenamesDone, KeptBefore, disk, journal
    <2>2. KeptHand(r)'
      BY <2>1 DEF KeptBefore, KeptHand, Moving, Restoring
    <2> QED BY <2>1, <2>2 DEF KeptAfter, KeptBefore, KeptPlan, Planned, KeptId
  <1>8. ~SwitchToCopy(r)
    BY DEF SwitchToCopy, CrossDevice, NextToRename, KeptBefore
  <1>9. at[r] \notin {"copy", "staged", "placed", "remove"}
    BY DEF KeptBefore, KeptHand
  <1> QED BY <1>2, <1>3, <1>4, <1>5, <1>6, <1>7, <1>8, <1>9
       DEF MoveStep, Stage, StageFails, CopyDropped, PlaceCopy, PlaceFails, MarkCopied,
           RemoveSource, CopyStops, SourcesRemoved

\* Of a rename's record reconcile plans only what needs no copy.
LEMMA KeptDiagnosis ==
  ASSUME TypeInv, NEW i \in Ids, index[i].state # "copied", Diagnose(i) # NoFix
  PROVE  /\ Diagnose(i).rec = index[i]
         /\ Diagnose(i).left = {} \/ Diagnose(i).left = Members \ index[i].missing
  <1> DEFINE rec == index[i]
             s == Has(src) # {}
             d == Has(dest[i]) # {}
  <1>1. rec.state \in Terminal \cup {"none", "pending", "copied", "done", "expiring", "restoring"}
    BY DEF TypeInv, Records, States
  <1>2. rec.state = "pending" => rec.mode \in {"rename", "copy"}
    BY DEF TypeInv, Records
  <1>3. CASE rec.state = "pending"
    <2>1. Diagnose(i) = DiagnosePending(i, rec, s, d)
      BY <1>3, Diagnosed
    <2> HIDE DEF s, d
    <2> QED BY <1>2, <1>3, <2>1 DEF DiagnosePending, Mark, Cleanup, FinishRenames
  <1>4. CASE rec.state = "restoring"
    <2>1. Diagnose(i) = DiagnoseRestoring(rec, s, d)
      BY <1>4, Diagnosed
    <2> HIDE DEF s, d
    <2> QED BY <2>1 DEF DiagnoseRestoring, Mark, Cleanup
  <1>5. CASE rec.state = "done"
    <2>1. Diagnose(i) = IF d THEN NoFix ELSE Mark(rec, "lost")
      BY <1>5, Diagnosed
    <2> HIDE DEF d
    <2> QED BY <2>1 DEF Mark
  <1>6. CASE rec.state = "expiring"
    <2>1. Diagnose(i) = Cleanup(rec, {"dest"}, {}, "expired")
      BY <1>6, Diagnosed
    <2> QED BY <2>1 DEF Cleanup
  <1>7. CASE rec.state \in Terminal \cup {"none"}
    BY <1>7, Diagnosed
  <1> QED BY <1>1, <1>3, <1>4, <1>5, <1>6, <1>7

\* The repair taken is the one planned, and the others stay.
LEMMA KeptTakes ==
  ASSUME NEW r, KeptBefore(r), Planned(r) # {},
         NEW back, Takes(r, Min(Planned(r)), back)
  PROVE  LET k == Min(Planned(r))
             f == plan[r][k]
         IN  /\ k \in Ids /\ k \in Planned(r) /\ f.rec \in Records
             /\ f.op \in {"record", "clean", "finish"}
             /\ cur'[r].id = k /\ cur'[r].rec = f.rec /\ cur'[r].left = f.left
             /\ \A j \in Ids : plan'[r][j] = IF j = k THEN NoFix ELSE plan[r][j]
             /\ f.rec.mode # "copy" /\ f.left \cap f.rec.missing = {}
             /\ f.rec.missing = index[k].missing
             /\ \A m \in f.rec.missing : dest[k][m] = 0
  <1> DEFINE k == Min(Planned(r))
  <1>1. k \in Ids /\ k \in Planned(r)
    BY PlanFound DEF KeptBefore
  <1>2. plan[r][k] \in Fixes /\ plan[r][k].op # "none"
    BY <1>1 DEF KeptBefore, Hand
  <1>3. plan[r][k].op \in {"record", "clean", "finish"} /\ plan[r][k].rec \in Records
    BY <1>2 DEF Fixes
  <1>4. /\ plan' = [plan EXCEPT ![r][k] = NoFix]
        /\ cur'[r].id = k /\ cur'[r].rec = plan[r][k].rec /\ cur'[r].left = plan[r][k].left
    BY DEF Takes, KeptBefore
  <1>5. \A j \in Ids : plan'[r][j] = IF j = k THEN NoFix ELSE plan[r][j]
    BY <1>1, <1>4 DEF KeptBefore
  <1>6. /\ plan[r][k].rec.mode # "copy" /\ plan[r][k].left \cap plan[r][k].rec.missing = {}
        /\ plan[r][k].rec.missing = index[k].missing
        /\ \A m \in index[k].missing : dest[k][m] = 0
    BY <1>1 DEF KeptBefore, KeptPlan, KeptId
  <1> HIDE DEF k
  <1> QED BY <1>1, <1>3, <1>4, <1>5, <1>6 DEF k

\* ... repairs, ...
LEMMA KeptFix ==
  ASSUME TypeInv, NEW r, KeptBefore(r), FixStep(r)
  PROVE  KeptAfter(r)'
  <1> DEFINE i == cur[r].id
             rec == cur[r].rec
  <1>1. /\ rec \in Records /\ cur[r].left \in SUBSET Members /\ rec.mode # "copy"
        /\ (at[r] \in Mending => i \in Ids /\ \A m \in rec.missing : dest[i][m] = 0)
        /\ (at[r] = "survey" => cur[r] = Idle)
        /\ \A j \in Planned(r) : j # i
    BY DEF KeptBefore, KeptHand, Locals, Hand, Planned, Mending, Deciding
  <1> USE DEF Goes
  <1>2. CASE Survey(r)
    <2>1. /\ UNCHANGED <<dest, index, cur>> /\ at'[r] = "fix"
          /\ \A j \in Ids : plan'[r][j] = Diagnose(j)
      BY <1>2 DEF Survey, KeptBefore, disk, journal
    <2>2. KeptHand(r)'
      BY <1>1, <2>1 DEF KeptHand, Moving, Mending, Restoring
    <2>3. \A j \in Ids : KeptId(j)
      BY DEF KeptBefore
    <2>4. ASSUME NEW j \in Ids, Diagnose(j) # NoFix
          PROVE  /\ Diagnose(j).rec.mode # "copy" /\ Diagnose(j).rec.missing = index[j].missing
                 /\ Diagnose(j).left \cap Diagnose(j).rec.missing = {}
      <3>1. /\ Diagnose(j).rec = index[j]
            /\ Diagnose(j).left = {} \/ Diagnose(j).left = Members \ index[j].missing
        BY <2>3, <2>4, KeptDiagnosis DEF KeptId
      <3> QED BY <2>3, <3>1 DEF KeptId
    <2>5. KeptPlan(r)'
      BY <2>1, <2>4 DEF KeptPlan, Planned
    <2> QED BY <2>1, <2>2, <2>3, <2>5 DEF KeptAfter, KeptId
  <1>3. CASE TakeFix(r)
    <2> DEFINE k == Min(Planned(r))
    <2>1. /\ UNCHANGED <<src, dest, index>> /\ at[r] = "fix" /\ at'[r] = plan[r][k].op
      BY <1>3 DEF TakeFix, KeptBefore, disk, journal
    <2>2. /\ k \in Ids /\ k \in Planned(r) /\ plan[r][k].op \in {"record", "clean", "finish"}
          /\ cur'[r].id = k /\ cur'[r].rec = plan[r][k].rec /\ cur'[r].left = plan[r][k].left
          /\ \A j \in Ids : plan'[r][j] = IF j = k THEN NoFix ELSE plan[r][j]
          /\ cur'[r].rec.mode # "copy" /\ cur'[r].left \cap cur'[r].rec.missing = {}
          /\ cur'[r].rec.missing = index[k].missing
          /\ \A m \in cur'[r].rec.missing : dest[k][m] = 0
      BY <1>3, KeptTakes DEF TakeFix
    <2> HIDE DEF k
    <2>3. KeptHand(r)'
      BY <2>1, <2>2 DEF KeptHand, Restoring
    <2>4. KeptPlan(r)'
      BY <2>1, <2>2 DEF KeptBefore, KeptPlan, Planned
    <2> QED BY <2>1, <2>3, <2>4 DEF KeptAfter, KeptBefore, KeptId
  <1>4. CASE CleanDest(r)
    <2>1. /\ UNCHANGED <<index, plan, at>> /\ at[r] = "clean" /\ i \in Ids
          /\ dest' = [dest EXCEPT ![i] = Nothing]
      BY <1>1, <1>4 DEF CleanDest, Mending, journal
    <2>2. cur'[r].id = i /\ cur'[r].rec = rec
      BY <1>4 DEF CleanDest, KeptBefore, Locals
    <2>3. /\ \A j \in Ids : dest'[j] = IF j = i THEN Nothing ELSE dest[j]
          /\ rec.missing \subseteq Members /\ \A j \in Ids : index[j].missing \subseteq Members
      BY <1>1, <2>1 DEF KeptBefore, Records
    <2>4. KeptHand(r)'
      BY <1>1, <2>1, <2>2, <2>3 DEF KeptHand, Restoring, Nothing
    <2>5. \A j \in Ids : KeptId(j)'
      BY <2>1, <2>3 DEF KeptBefore, KeptId, Nothing
    <2>6. KeptPlan(r)'
      BY <2>1 DEF KeptBefore, KeptPlan, Planned
    <2> QED BY <2>4, <2>5, <2>6 DEF KeptAfter
  <1>5. CASE CleanTmp(r) \/ CleanSource(r) \/ CleanDone(r)
    <2>1. /\ UNCHANGED <<dest, index, plan>> /\ at[r] = "clean" /\ at'[r] \in {"clean", "record"}
      BY <1>5 DEF CleanTmp, CleanSource, CleanDone, KeptBefore, journal, disk
    <2>2. cur'[r].id = i /\ cur'[r].rec = rec
      BY <1>5 DEF CleanTmp, CleanSource, CleanDone, DoneWith, KeptBefore, Locals
    <2>3. KeptHand(r)'
      BY <1>1, <2>1, <2>2 DEF KeptHand, Mending, Restoring
    <2> QED BY <2>1, <2>3 DEF KeptAfter, KeptBefore, KeptPlan, Planned, KeptId
  <1>6. CASE FinishDone(r)
    <2>1. /\ UNCHANGED <<dest, index, plan>> /\ at[r] = "finish" /\ at'[r] = "record"
      BY <1>6 DEF FinishDone, KeptBefore, journal, disk
    <2>2. /\ cur'[r].id = i /\ cur'[r].rec.mode = rec.mode
          /\ cur'[r].rec.missing = Members \ (Has(src) \cup Has(dest[i]))
      BY <1>1, <1>6 DEF FinishDone, KeptBefore, Locals, Records
    <2>3. KeptHand(r)'
      BY <1>1, <2>1, <2>2 DEF KeptHand, Restoring, Has
    <2> QED BY <2>1, <2>3 DEF KeptAfter, KeptBefore, KeptPlan, Planned, KeptId
  <1>7. CASE ReconcileEnds(r)
    <2>1. /\ UNCHANGED <<dest, index, plan, cur>> /\ at'[r] \in {"stores", "restore"}
      BY <1>7 DEF ReconcileEnds, KeptBefore, journal, disk
    <2>2. KeptHand(r)'
      BY <1>1, <2>1 DEF KeptHand, Moving, Mending, Restoring
    <2> QED BY <2>1, <2>2 DEF KeptAfter, KeptBefore, KeptPlan, Planned, KeptId
  <1>8. CASE CleanStops(r) \/ FinishStops(r) \/ RecordFix(r)
    <2>1. /\ at[r] \in Mending /\ i \in Ids /\ UNCHANGED <<dest, plan>> /\ FixEnds(r)
      BY <1>1, <1>8 DEF CleanStops, FinishStops, RecordFix, Mending, FixEnds, disk
    <2>2. /\ cur'[r] = Idle /\ at'[r] \in {"fix", "expiring"} /\ Idle.rec.mode = "none"
      BY <2>1 DEF FixEnds, KeptBefore, Hand, Idle, NoRecord
    <2>3. KeptHand(r)'
      BY <2>2 DEF KeptHand, Moving, Mending, Restoring
    <2>4. CASE UNCHANGED journal
      BY <2>1, <2>3, <2>4 DEF KeptAfter, KeptBefore, KeptPlan, Planned, KeptId, journal
    <2>5. CASE Append(i, WithState(rec, cur[r].then))
      <3>1. cur[r].then # "copied"
        BY DEF KeptBefore, Locals, Thens, Terminal
      <3>2. /\ \A j \in Ids : KeptId(j)'
            /\ \A j \in Ids : j # i => index'[j] = index[j]
        BY <1>1, <2>1, <2>5, <3>1, KeptMark
      <3>3. KeptPlan(r)'
        BY <1>1, <2>1, <3>2 DEF KeptBefore, KeptPlan, Planned
      <3> QED BY <2>3, <3>2, <3>3 DEF KeptAfter
    <2> QED BY <1>8, <2>4, <2>5 DEF CleanStops, FinishStops, RecordFix
  <1> QED BY <1>2, <1>3, <1>4, <1>5, <1>6, <1>7, <1>8 DEF FixStep

\* ... expiry, compaction and restore, ...
LEMMA KeptLater ==
  ASSUME TypeInv, NEW r, KeptBefore(r), LaterStep(r)
  PROVE  KeptAfter(r)'
  <1> DEFINE i == cur[r].id
             rec == cur[r].rec
  <1>1. /\ rec \in Records /\ cur[r].left \in SUBSET Members /\ rec.mode # "copy"
        /\ (at[r] \in Restoring => i \in Ids /\ \A m \in rec.missing : dest[i][m] = 0)
        /\ (at[r] \in Restoring \cup {"expire", "compact", "restore", "release"} =>
               \A j \in Ids : plan[r][j] = NoFix)
    BY DEF KeptBefore, KeptHand, Locals, Hand, Planned, Mending, Restoring
  <1> USE DEF Goes
  <1>2. CASE FindExpired(r)
    <2>1. /\ UNCHANGED <<dest, index, cur>> /\ at'[r] = "expiring"
      BY <1>2 DEF FindExpired, KeptBefore, disk, journal
    <2>2. \A j \in Ids : plan'[r][j] # NoFix => plan'[r][j] = Cleanup(index[j], {"dest"}, {}, "expired")
      BY <1>2 DEF FindExpired, KeptBefore
    <2>3. \A x : Cleanup(x, {"dest"}, {}, "expired").rec = x /\ Cleanup(x, {"dest"}, {}, "expired").left = {}
      BY DEF Cleanup
    <2>4. \A j \in Ids : plan'[r][j] # NoFix => plan'[r][j].rec = index[j] /\ plan'[r][j].left = {}
      BY <2>2, <2>3
    <2>5. KeptPlan(r)'
      BY <2>1, <2>4 DEF KeptPlan, Planned, KeptBefore, KeptId
    <2>6. KeptHand(r)'
      BY <1>1, <2>1 DEF KeptHand, Moving, Mending, Restoring
    <2> QED BY <2>1, <2>5, <2>6 DEF KeptAfter, KeptBefore, KeptId
  <1>3. CASE ExpireNext(r)
    <2> DEFINE k == Min(Planned(r))
               x == plan[r][k].rec
    <2>1. /\ UNCHANGED <<src, dest>> /\ at'[r] = "clean" /\ Append(k, WithState(x, "expiring"))
      BY <1>3 DEF ExpireNext, KeptBefore, disk
    <2>2. /\ k \in Ids /\ k \in Planned(r) /\ x \in Records
          /\ cur'[r].id = k /\ cur'[r].rec = x
          /\ \A j \in Ids : plan'[r][j] = IF j = k THEN NoFix ELSE plan[r][j]
          /\ x.mode # "copy" /\ \A m \in x.missing : dest[k][m] = 0
      BY <1>3, KeptTakes DEF ExpireNext
    <2> HIDE DEF k, x
    <2>3. /\ \A j \in Ids : KeptId(j)'
          /\ \A j \in Ids : j # k => index'[j] = index[j]
      BY <2>1, <2>2, KeptMark
    <2>4. KeptHand(r)'
      BY <2>1, <2>2 DEF KeptHand, Restoring
    <2>5. KeptPlan(r)'
      BY <2>2, <2>3 DEF KeptBefore, KeptPlan, Planned
    <2> QED BY <2>3, <2>4, <2>5 DEF KeptAfter
  <1>4. CASE ExpireEnds(r) \/ CompactFails(r) \/ RestoreRefused(r) \/ RestoreStops(r)
    <2>1. /\ UNCHANGED <<dest, index, cur>> /\ at'[r] \in Deciding
      BY <1>4 DEF ExpireEnds, CompactFails, RestoreRefused, RestoreStops, KeptBefore,
         Deciding, disk, journal
    <2>2. \A j \in Ids : plan'[r][j] = NoFix
      BY <1>1, <1>4 DEF ExpireEnds, CompactFails, RestoreRefused, RestoreStops, KeptBefore,
         NoPlan, Restoring
    <2> QED BY <2>1, <2>2, KeptIdle DEF KeptAfter, KeptBefore, KeptId
  <1>5. CASE Compact(r)
    <2>1. /\ UNCHANGED <<dest, plan, cur>> /\ at'[r] \in Deciding
          /\ \A j \in Ids : plan'[r][j] = NoFix
      BY <1>1, <1>5 DEF Compact, KeptBefore, Deciding, disk
    <2>2. \A j \in Ids : KeptId(j)'
      BY <1>5, <2>1 DEF Compact, KeptBefore, KeptId, NoRecord
    <2> QED BY <2>1, <2>2, KeptIdle DEF KeptAfter
  <1>6. CASE BeginRestore(r)
    <2>1. PICK j \in Ids :
             /\ (Members \ index[j].missing) \cap Has(src) = {}
             /\ Append(j, WithState(index[j], "restoring"))
             /\ Works(r, j, index[j], Members \ index[j].missing)
      BY <1>6 DEF BeginRestore
    <2>2. /\ index[j] \in Records /\ index[j].mode # "copy"
          /\ \A m \in index[j].missing : dest[j][m] = 0
          /\ UNCHANGED <<src, dest, plan>> /\ at'[r] = "back"
      BY <1>6 DEF KeptBefore, KeptId, BeginRestore, disk
    <2>3. \A k \in Ids : KeptId(k)'
      BY <2>1, <2>2, KeptMark
    <2>4. cur'[r].id = j /\ cur'[r].rec = index[j] /\ cur'[r].left = Members \ index[j].missing
      BY <2>1 DEF Works, KeptBefore
    <2>5. KeptHand(r)'
      BY <2>1, <2>2, <2>4 DEF KeptHand, Has
    <2>6. KeptPlan(r)'
      BY <1>1, <1>6, <2>2 DEF KeptPlan, Planned, BeginRestore
    <2> QED BY <2>3, <2>5, <2>6 DEF KeptAfter
  <1>7. CASE PutBack(r)
    <2> DEFINE m == Min(cur[r].left)
    <2>1. /\ m \in cur[r].left /\ m \in Members /\ i \in Ids /\ at' = at /\ at[r] = "back"
          /\ UNCHANGED <<index, plan>> /\ DoneWith(r, m)
          /\ src' = [src EXCEPT ![m] = dest[i][m]] /\ dest' = [dest EXCEPT ![i][m] = 0]
      BY <1>1, <1>7, LeftFound DEF PutBack, KeptBefore, Restoring, journal
    <2>2. cur'[r].id = i /\ cur'[r].rec = rec /\ cur'[r].left = cur[r].left \ {m}
      BY <2>1 DEF DoneWith, KeptBefore, Locals
    <2>3. /\ \A j \in Ids : j # i => dest'[j] = dest[j]
          /\ \A n \in Members : dest'[i][n] = IF n = m THEN 0 ELSE dest[i][n]
          /\ \A n \in Members : n # m => src'[n] = src[n]
          /\ rec.missing \subseteq Members /\ \A j \in Ids : index[j].missing \subseteq Members
      BY <1>1, <2>1 DEF KeptBefore, Records
    <2> HIDE DEF m
    <2>4. \A j \in Ids : KeptId(j)'
      BY <2>1, <2>3 DEF KeptBefore, KeptId
    <2>5. KeptHand(r)'
      <3>1. /\ Has(dest[i]) \subseteq cur[r].left /\ \A n \in cur[r].left : src[n] = 0
        BY <2>1 DEF KeptBefore, KeptHand, Restoring
      <3>2. Has(dest'[i]) \subseteq cur'[r].left
        BY <2>2, <2>3, <3>1 DEF Has
      <3>3. \A n \in cur'[r].left : src'[n] = 0
        BY <1>1, <2>2, <2>3, <3>1
      <3>4. \A n \in rec.missing : dest'[i][n] = 0
        BY <1>1, <2>1, <2>3 DEF Restoring
      <3> QED BY <1>1, <2>1, <2>2, <3>2, <3>3, <3>4 DEF KeptHand, Has
    <2>6. KeptPlan(r)'
      BY <1>1, <2>1 DEF KeptPlan, Planned, Restoring
    <2> QED BY <2>4, <2>5, <2>6 DEF KeptAfter
  <1>8. CASE RestoreEnds(r)
    <2>1. /\ i \in Ids /\ at[r] = "back" /\ at'[r] = "restored" /\ UNCHANGED <<index, plan, cur>>
          /\ dest' = [dest EXCEPT ![i] = Nothing]
      BY <1>1, <1>8 DEF RestoreEnds, KeptBefore, Restoring, journal
    <2>2. /\ \A j \in Ids : dest'[j] = IF j = i THEN Nothing ELSE dest[j]
          /\ rec.missing \subseteq Members /\ \A j \in Ids : index[j].missing \subseteq Members
      BY <1>1, <2>1 DEF KeptBefore, Records
    <2>3. \A j \in Ids : KeptId(j)'
      BY <2>1, <2>2 DEF KeptBefore, KeptId, Nothing
    <2>4. KeptHand(r)'
      BY <1>1, <2>1, <2>2 DEF KeptHand, Nothing, Has
    <2>5. KeptPlan(r)'
      BY <1>1, <2>1 DEF KeptPlan, Planned, Restoring
    <2> QED BY <2>3, <2>4, <2>5 DEF KeptAfter
  <1>9. CASE MarkRestored(r)
    <2>1. /\ UNCHANGED <<dest, plan, cur>> /\ at'[r] \in Deciding /\ at[r] = "restored"
          /\ \A j \in Ids : plan'[r][j] = NoFix
          /\ i \in Ids /\ \A m \in rec.missing : dest[i][m] = 0
      BY <1>1, <1>9 DEF MarkRestored, KeptBefore, Deciding, Restoring, disk
    <2>2. KeptHand(r)' /\ KeptPlan(r)'
      BY <2>1, KeptIdle
    <2>3. CASE UNCHANGED journal
      BY <2>1, <2>2, <2>3 DEF KeptAfter, KeptBefore, KeptId, journal
    <2>4. CASE Append(i, WithState(rec, "restored"))
      <3>1. \A j \in Ids : KeptId(j)'
        BY <1>1, <2>1, <2>4, KeptMark
      <3> QED BY <2>2, <3>1 DEF KeptAfter
    <2> QED BY <1>9, <2>3, <2>4 DEF MarkRestored
  <1>10. ~Uncopy(r)
    BY DEF Uncopy, KeptBefore, KeptHand
  <1> QED BY <1>2, <1>3, <1>4, <1>5, <1>6, <1>7, <1>8, <1>9, <1>10 DEF LaterStep

\* ... hence every step.
LEMMA KeptStep ==
  ASSUME Alone, OneDisk, ~Racing, BaseInv, KeptInv, [Next]_vars
  PROVE  KeptInv'
  <1>1. PICK r : Runs = {r}
    BY DEF Alone
  <1>2. KeptBefore(r)
    <2>1. Far = {}
      BY DEF OneDisk, Far, BaseInv, TypeInv
    <2> QED BY <1>1, <2>1, HandOfEach DEF KeptBefore, KeptInv, BaseInv, TypeInv
  <1>3. KeptAfter(r)'
    <2>1. CASE \E q \in Runs : RunStep(q) \/ Crash(q) \/ \E k \in Kinds : Start(q, k)
      BY <1>1, <1>2, <2>1, KeptLock, KeptMove, KeptFix, KeptLater DEF RunStep, BaseInv
    <2>2. CASE \/ \E m \in Members : Write(m) \/ Delete(m)
               \/ MinutesPass \/ DaysPass \/ Still
      <3>1. at' = at /\ plan' = plan /\ cur' = cur /\ lock'.token = lock.token
        BY <2>2, OutsideRuns DEF BaseInv
      <3>2. UNCHANGED <<dest, index>>
        BY <2>2 DEF Write, Delete, MinutesPass, DaysPass, Still, disk, journal
      <3>3. src' = src \/ Quiet
        BY <2>2 DEF Write, Delete, MinutesPass, DaysPass, Still, disk
      <3>4. Quiet => at[r] # "back"
        BY <1>1 DEF Quiet, Guarded
      <3> QED BY <1>2, <3>1, <3>2, <3>3, <3>4 DEF KeptBefore, KeptAfter, KeptHand, KeptPlan, KeptId, Planned
    <2> QED BY <2>1, <2>2, NextSteps
  <1> QED BY <1>1, <1>3 DEF KeptInv, KeptAfter

\* At the start there is nothing to put back.
LEMMA KeptStart == Init => KeptInv
  BY DEF Init, KeptInv, KeptId, KeptHand, KeptPlan, Planned, Idle, NoRecord, NoPlan,
     Moving, Mending, Restoring

\* What a lone run restores, it restores whole.
LEMMA KeptSafe ==
  ASSUME Alone, OneDisk, BaseInv, KeptInv
  PROVE  BackSafe
  <1>1. Far = {}
    BY DEF OneDisk, Far, BaseInv, TypeInv
  <1> QED BY <1>1 DEF Alone, KeptInv, KeptHand, KeptId, BackSafe

\* Nor does a restore lose anything, where one run at a time puts back what is on the
\* same filesystem: it overwrites no new data, and nothing that is left in the
\* tombstone is removed with it, wherever it is killed or a call fails.
THEOREM NothingLostByRestores ==
  ~Racing /\ Alone /\ OneDisk => (Spec => []NothingLost)
  <1> DEFINE Inv == ~slipped /\ LossInv /\ SureInv /\ KeptInv /\ HeldInv
  <1>1. SUFFICES ASSUME ~Racing, Alone, OneDisk PROVE Spec => []NothingLost
    OBVIOUS
  <1>2. NoSurprise
    BY <1>1 DEF NoSurprise, OneDisk
  <1>3. Init => Inv
    BY KeptStart, LossStart, SureStart, HeldStart DEF Init
  <1>4. Inv /\ BaseInv /\ [Next]_vars => Inv'
    <2> SUFFICES ASSUME Inv, BaseInv, [Next]_vars PROVE Inv'
      OBVIOUS
    <2>1. ~slipped'
      BY <1>1, NoSlip
    <2>2. KeptInv' /\ HeldInv' /\ SureInv'
      BY <1>1, <1>2, <2>1, KeptStep, HeldStep, SureStep DEF LossInv
    <2>3. LossInv'
      BY <1>1, <1>2, <2>1, KeptSafe, SoundSteps, LossStep
    <2> QED BY <2>1, <2>2, <2>3
  <1>5. Inv => NothingLost
    BY LossSafe
  <1> HIDE DEF Inv
  <1> QED BY <1>3, <1>4, <1>5, BaseHolds, PTL DEF Spec
=============================================================================
