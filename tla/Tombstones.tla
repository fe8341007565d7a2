---------------------------- MODULE Tombstones -----------------------------
(***************************************************************************)
(* Garbage collection of on-disk state.  A due item, a group of paths, is  *)
(* moved into a tombstone folder, kept for a grace period, and then        *)
(* expired or restored.  Every move is journalled in an append-only index  *)
(* whose last record for an id wins; the next run reads index and disk and *)
(* finishes or drops what a crash cut short.  Runs hold a lock folder with *)
(* an owner token, which a later run may claim once it is stale.           *)
(*                                                                         *)
(* The item's programs know nothing of the lock: they write, recreate and  *)
(* delete its paths at their own pace.  Processes are killed between any   *)
(* two steps, calls fail, and a run can be so slow that its lock is stale  *)
(* while it still acts.                                                    *)
(*                                                                         *)
(* A step is one file-system call, or one index read and the rewrite right *)
(* after it.  A guarded call comes with the look at the token before it,   *)
(* in one step when the run is not overtaken, and in two (Verify) when it  *)
(* may be.  Data is a version number, larger for a later write, so it      *)
(* stands for a file's mtime too; all members have the same size.          *)
(***************************************************************************)
EXTENDS Integers, FiniteSets, FiniteSetsExt

CONSTANTS
    Runs,         \* processes that run gc
    Kinds,        \* what they do: "apply", "restore" or "move" (tombstone_now)
    N,            \* the item is the group of paths 1 .. N
    MaxId,        \* bound on the tombstones in the index at one time
    Layouts,      \* records far, hidden: see `layout`
    Racing,       \* whether programs also write in the windows Guarded names
    NoRun,        \* no token
    Gone,         \* the token of a run that was killed
    MaxWrites, MaxCrashes, MaxFails, MaxSlow  \* bounds

Members == 1 .. N
Ids == 1 .. MaxId

ASSUME TombstonesAssumption ==
    /\ N \in Nat \ {0} /\ MaxId \in Nat \ {0}
    /\ NoRun \notin Runs /\ Gone \notin Runs /\ NoRun # Gone
    /\ Kinds \subseteq {"apply", "restore", "move"}
    /\ Layouts \subseteq [far : SUBSET Members, hidden : SUBSET Members]
    /\ Racing \in BOOLEAN
    /\ {MaxWrites, MaxCrashes, MaxFails, MaxSlow} \subseteq Nat

VARIABLES
    src,      \* what is at every original path, 0 for nothing
    dest,     \* what every tombstone holds of it
    tmp,      \* what every staging folder holds
    index,    \* the last record of every id, NoRecord for none
    old,      \* ids whose record is older than RUN_LOCK_STALE
    past,     \* ids whose record is older than the grace period
    ripe,     \* ids tombstoned longer ago than the grace period
    lock,     \* the lock folder: dir, token, stale
    at,       \* where every run is
    kind,     \* what it does
    plan,     \* the fixes it still has to apply
    cur,      \* the move, fix or restore it is at
    sure,     \* runs that have seen their token and make a guarded call next
    layout,   \* members on another filesystem, and those where only rename says so
    version,  \* the last version written
    live,     \* history: the data that must not be lost
    slipped,  \* history: a run made a guarded call after it had lost the lock
    crashes, fails, slow

disk == <<src, dest, tmp>>
journal == <<index, old, past, ripe>>
mine == <<at, kind, plan, cur>>
world == <<layout, version, live>>
bounds == <<crashes, fails, slow>>
sight == <<sure, slipped>>
vars == <<disk, journal, lock, mine, world, bounds, sight>>

Nothing == [m \in Members |-> 0]
NoPrint == [bytes |-> 0, mtime |-> 0]
NoRecord == [state |-> "none", mode |-> "none", missing |-> {}, print |-> NoPrint]
NoFix == [op |-> "none", rec |-> NoRecord, then |-> "none", away |-> {}, left |-> {}]
NoPlan == [i \in Ids |-> NoFix]
Idle == [id |-> 0, rec |-> NoRecord, left |-> {}, print |-> NoPrint,
         away |-> {}, then |-> "none", back |-> "none"]

Has(place) == {m \in Members : place[m] # 0}

Terminal == {"expired", "restored", "lost", "dropped"}

(***************************************************************************)
(* Fingerprints, measure().                                                *)
(***************************************************************************)

Measure(ms) == [bytes |-> Cardinality(ms \cap Has(src)),
                mtime |-> Max({0} \cup {src[m] : m \in ms})]

\* Mutated form of GrewSince: a later write of the same size is not noticed.
GrewInSize(now, recorded) == now.bytes > recorded.bytes

GrewSince(now, recorded) == now.mtime > recorded.mtime \/ now.bytes > recorded.bytes

(***************************************************************************)
(* The index and the lock.                                                 *)
(***************************************************************************)

\* Appends a record for id i, dated now; a `pending` one starts the grace period.
Append(i, record) ==
    /\ index' = [index EXCEPT ![i] = record]
    /\ old' = old \ {i}
    /\ past' = past \ {i}
    /\ ripe' = IF record.state = "pending" THEN ripe \ {i} ELSE ripe

WithState(record, state) == [record EXCEPT !.state = state]

\* The lock still holds this run's token.
Verified(r) == lock.token = r

\* A call fails.
Fails == fails < MaxFails /\ fails' = fails + 1

\* What the next guarded call of run r removes or renames is there.
There(r) ==
    LET i == cur[r].id
        first(place) == cur[r].left # {} /\ place[Min(cur[r].left)] # 0
    IN  \/ at[r] \in {"rename", "finish", "remove"} /\ first(src)
        \/ at[r] = "staged" /\ Has(tmp[i]) # {}
        \/ at[r] = "clean" /\ "dest" \in cur[r].away /\ Has(dest[i]) # {}
        \/ at[r] = "clean" /\ cur[r].away = {"tmp"} /\ Has(tmp[i]) # {}
        \/ at[r] = "clean" /\ cur[r].away = {} /\ first(src)
        \/ at[r] \in {"back", "uncopy"} /\ (cur[r].left = {} \/ first(dest[i]))
        \/ at[r] = "release"

\* A guarded call does nothing: the lock was lost, the call failed, or what it
\* acts on went away after the look at the token.
Refused(r) ==
    \/ r \notin sure /\ ~Verified(r) /\ UNCHANGED fails
    \/ (r \in sure \/ Verified(r)) /\ Fails
    \/ r \in sure /\ ~There(r) /\ UNCHANGED fails

\* Mutated form of Allowed: the token is not read again before the call.
AllowedUnseen(r) == (r \in sure => There(r)) /\ UNCHANGED fails

\* A guarded call is made, on a look at the token just now or a while ago.
Allowed(r) ==
    /\ IF r \in sure THEN There(r) ELSE Verified(r)
    /\ UNCHANGED fails

Goes(r, from, to) ==
    /\ at[r] = from
    /\ at' = [at EXCEPT ![r] = to]

Quit(r) ==
    /\ plan' = [plan EXCEPT ![r] = NoPlan]
    /\ cur' = [cur EXCEPT ![r] = Idle]

Start(r, k) ==
    /\ Goes(r, "off", "lock")
    /\ kind' = [kind EXCEPT ![r] = k]
    /\ UNCHANGED <<disk, journal, lock, plan, cur, world, bounds, sight>>

\* The lock folder is made; the token follows as a step of its own.
MakeLock(r) ==
    /\ ~lock.dir
    /\ Goes(r, "lock", "token")
    /\ lock' = [dir |-> TRUE, token |-> NoRun, stale |-> FALSE]
    /\ UNCHANGED <<disk, journal, kind, plan, cur, world, bounds>>

AlreadyRunning(r) ==
    /\ lock.dir /\ ~lock.stale
    /\ Goes(r, "lock", "off")
    /\ UNCHANGED <<disk, journal, lock, kind, plan, cur, world, bounds>>

\* claim_stale(): two equal looks at a stale lock, ...
FindStale(r) ==
    /\ lock.dir /\ lock.stale
    /\ Goes(r, "lock", "claim")
    /\ UNCHANGED <<disk, journal, lock, kind, plan, cur, world, bounds>>

\* ... and a rename that takes away whatever lock is there by then.
Claim(r) ==
    /\ IF lock.dir
       THEN /\ Goes(r, "claim", "lock")
            /\ lock' = [dir |-> FALSE, token |-> NoRun, stale |-> FALSE]
       ELSE /\ Goes(r, "claim", IF kind[r] = "restore" THEN "lock" ELSE "off")
            /\ UNCHANGED lock
    /\ UNCHANGED <<disk, journal, kind, plan, cur, world, bounds>>

\* Mutated form of WriteToken: a write that failed is not noticed.
WriteTokenAnyway(r) ==
    /\ Goes(r, "token", IF kind[r] = "move" THEN "prepare" ELSE "survey")
    /\ lock' = [lock EXCEPT !.token = r, !.stale = FALSE]
    /\ UNCHANGED <<disk, journal, kind, plan, cur, world, bounds>>

\* The token goes into the folder at that name, whoever made it.
WriteToken(r) ==
    /\ IF lock.dir
       THEN /\ Goes(r, "token", IF kind[r] = "move" THEN "prepare" ELSE "survey")
            /\ lock' = [dir |-> TRUE, token |-> r, stale |-> FALSE]
       ELSE /\ Goes(r, "token", "off")
            /\ UNCHANGED lock
    /\ UNCHANGED <<disk, journal, kind, plan, cur, world, bounds>>

\* touch() does not look at the token.
Touch == lock' = [lock EXCEPT !.stale = FALSE]

\* Drop of Release looks at the token and then removes the folder.
Release(r) ==
    /\ Goes(r, "release", "off")
    /\ Quit(r)
    /\ lock' = IF r \in sure \/ Verified(r)
               THEN [dir |-> FALSE, token |-> NoRun, stale |-> FALSE]
               ELSE lock
    /\ UNCHANGED <<disk, journal, kind, world, bounds>>

(***************************************************************************)
(* A move, try_move().                                                     *)
(***************************************************************************)

Far == layout.far \cup layout.hidden

\* The ids of the fixes run r still has to apply.
Planned(r) == {i \in Ids : plan[r][i] # NoFix}

\* An id that is nowhere any more stands for one that was never used.
FreshId(i) ==
    /\ index[i] = NoRecord
    /\ dest[i] = Nothing /\ tmp[i] = Nothing
    /\ \A r \in Runs : cur[r].id # i /\ i \notin Planned(r)

\* The move ends, as it should or with an error; an apply run touches the lock.
EndMove(r) ==
    /\ at' = [at EXCEPT ![r] = IF kind[r] = "apply" THEN "expire" ELSE "release"]
    /\ cur' = [cur EXCEPT ![r] = Idle]
    /\ IF kind[r] = "apply" THEN Touch ELSE UNCHANGED lock
    /\ UNCHANGED <<kind, plan>>

\* Starts work on item i with record rec; `left` are the members still to do.
Works(r, i, rec, ms) ==
    cur' = [cur EXCEPT ![r] = [Idle EXCEPT !.id = i, !.rec = rec, !.left = ms]]

DoneWith(r, m) == cur' = [cur EXCEPT ![r].left = @ \ {m}]

\* run_stores(): the token is looked at only when the item is due.
Stores(r) ==
    /\ \/ Goes(r, "stores", IF Verified(r) THEN "prepare" ELSE "release")
       \/ Goes(r, "stores", "expire")
    /\ UNCHANGED <<disk, journal, lock, kind, plan, cur, world, bounds>>

\* prepare(), and the `pending` record.
Prepare(r) ==
    /\ Goes(r, "prepare", IF Has(src) \cap layout.far = {} THEN "rename" ELSE "copy")
    /\ Has(src) # {}
    /\ \E i \in Ids :
          /\ FreshId(i) /\ \A j \in 1 .. i - 1 : ~FreshId(j)
          /\ LET rec == [state |-> "pending", mode |-> at'[r],
                         missing |-> Members \ Has(src), print |-> NoPrint]
             IN  Append(i, rec) /\ Works(r, i, rec, Has(src))
    /\ UNCHANGED <<disk, lock, kind, plan, world, bounds>>

\* Every path is gone, or the record could not be written.
PrepareStops(r) ==
    /\ at[r] = "prepare"
    /\ \/ Has(src) = {} /\ UNCHANGED fails
       \/ (\A i \in Ids : ~FreshId(i)) /\ UNCHANGED fails
       \/ Fails
    /\ EndMove(r)
    /\ UNCHANGED <<disk, journal, world, crashes, slow>>

\* Members that have still to be renamed, of which the first is next.  A run
\* that has looked at the token does not look at the tombstone again.
ToRename(r) ==
    {m \in cur[r].left : (r \in sure \/ dest[cur[r].id][m] = 0) /\ src[m] # 0}

NextToRename(r, ms) ==
    /\ cur[r].left # {}
    /\ Min(cur[r].left) \in ms \cap ToRename(r)

\* rename_members(), for a move ("rename") or a repair of one ("finish").
RenameMember(r) ==
    /\ at[r] \in {"rename", "finish"}
    /\ cur[r].left # {}
    /\ LET m == Min(cur[r].left)
           i == cur[r].id
       IN  /\ \/ /\ r \notin sure /\ m \notin ToRename(r)
                 /\ UNCHANGED <<src, dest, fails>>
              \/ /\ m \in ToRename(r) \ Far
                 /\ Allowed(r)
                 /\ src' = [src EXCEPT ![m] = 0]
                 /\ dest' = [dest EXCEPT ![i][m] = src[m]]
           /\ DoneWith(r, m)
    /\ UNCHANGED <<tmp, journal, lock, at, kind, plan, world, crashes, slow>>

\* The rename reports another filesystem.
CrossDevice(r) == NextToRename(r, Far) /\ Allowed(r)

RenameStops(r) ==
    /\ at[r] = "rename"
    /\ r \in sure \/ NextToRename(r, Members)
    /\ Refused(r)
    /\ EndMove(r)
    /\ UNCHANGED <<disk, journal, world, crashes, slow>>

RenamesDone(r) ==
    /\ Goes(r, "rename", "done")
    /\ cur[r].left = {}
    /\ UNCHANGED <<disk, journal, lock, kind, plan, cur, world, bounds>>

\* The record is written again with mode copy; its date stays.
SwitchToCopy(r) ==
    /\ Goes(r, "rename", "copy")
    /\ CrossDevice(r)
    /\ LET rec == [cur[r].rec EXCEPT !.mode = "copy"]
       IN  /\ index' = [index EXCEPT ![cur[r].id] = rec]
           /\ Works(r, cur[r].id, rec, cur[r].left)
    /\ UNCHANGED <<disk, old, past, ripe, lock, kind, plan, world, crashes, slow>>

\* copy_members(): what is there is measured and copied to the staging folder.
Stage(r) ==
    /\ Goes(r, "copy", "staged")
    /\ tmp' = [tmp EXCEPT ![cur[r].id] = src]
    /\ cur' = [cur EXCEPT ![r].left = Has(src), ![r].print = Measure(Has(src))]
    /\ UNCHANGED <<src, dest, journal, lock, kind, plan, world, bounds>>

\* discard(): best effort, so only while the lock is held.
Discard(r, i) == tmp' = IF Verified(r) THEN [tmp EXCEPT ![i] = Nothing] ELSE tmp

StageFails(r) ==
    /\ at[r] = "copy"
    /\ Fails
    /\ Discard(r, cur[r].id)
    /\ EndMove(r)
    /\ UNCHANGED <<src, dest, journal, world, crashes, slow>>

\* The source is measured again before the token is looked at.
SourceChanged(r) == r \notin sure /\ Measure(cur[r].left) # cur[r].print

CopyDropped(r) ==
    /\ at[r] = "staged"
    /\ SourceChanged(r)
    /\ Discard(r, cur[r].id)
    /\ \/ Append(cur[r].id, WithState(cur[r].rec, "dropped")) /\ UNCHANGED fails
       \/ Fails /\ UNCHANGED journal
    /\ EndMove(r)
    /\ UNCHANGED <<src, dest, world, crashes, slow>>

\* The copy is renamed into place, where nothing may be yet.
PlaceCopy(r) ==
    /\ Goes(r, "staged", "placed")
    /\ ~SourceChanged(r)
    /\ dest[cur[r].id] = Nothing
    /\ Allowed(r)
    /\ dest' = [dest EXCEPT ![cur[r].id] = tmp[cur[r].id]]
    /\ tmp' = [tmp EXCEPT ![cur[r].id] = Nothing]
    /\ UNCHANGED <<src, journal, lock, kind, plan, cur, world, crashes, slow>>

PlaceFails(r) ==
    /\ at[r] = "staged"
    /\ ~SourceChanged(r)
    /\ Refused(r) \/ (dest[cur[r].id] # Nothing /\ UNCHANGED fails)
    /\ Discard(r, cur[r].id)
    /\ EndMove(r)
    /\ UNCHANGED <<src, dest, journal, world, crashes, slow>>

MarkCopied(r) ==
    /\ Goes(r, "placed", "remove")
    /\ Append(cur[r].id,
              [WithState(cur[r].rec, "copied") EXCEPT !.print = cur[r].print])
    /\ UNCHANGED <<disk, lock, kind, plan, cur, world, bounds>>

RemoveSource(r) ==
    /\ at[r] = "remove"
    /\ cur[r].left # {}
    /\ Allowed(r)
    /\ src' = [src EXCEPT ![Min(cur[r].left)] = 0]
    /\ DoneWith(r, Min(cur[r].left))
    /\ UNCHANGED <<dest, tmp, journal, lock, at, kind, plan, world, crashes, slow>>

\* The `copied` record cannot be written, or a source cannot be removed.
CopyStops(r) ==
    /\ \/ at[r] = "placed" /\ Fails
       \/ at[r] = "remove" /\ cur[r].left # {} /\ Refused(r)
    /\ EndMove(r)
    /\ UNCHANGED <<disk, journal, world, crashes, slow>>

SourcesRemoved(r) ==
    /\ Goes(r, "remove", "done")
    /\ cur[r].left = {}
    /\ UNCHANGED <<disk, journal, lock, kind, plan, cur, world, bounds>>

\* If this append fails the data is already safe; reconcile writes `done`.
MarkDone(r) ==
    /\ at[r] = "done"
    /\ \/ Append(cur[r].id, WithState(cur[r].rec, "done")) /\ UNCHANGED fails
       \/ Fails /\ UNCHANGED journal
    /\ EndMove(r)
    /\ UNCHANGED <<disk, world, crashes, slow>>

MoveStep(r) ==
    \/ Stores(r) \/ Prepare(r) \/ PrepareStops(r)
    \/ RenameMember(r) \/ RenameStops(r) \/ RenamesDone(r) \/ SwitchToCopy(r)
    \/ Stage(r) \/ StageFails(r) \/ CopyDropped(r) \/ PlaceCopy(r) \/ PlaceFails(r)
    \/ MarkCopied(r) \/ RemoveSource(r) \/ CopyStops(r) \/ SourcesRemoved(r)
    \/ MarkDone(r)

(***************************************************************************)
(* Reconcile.                                                              *)
(***************************************************************************)

\* Record `then`, after the removals and the renames the fix asks for.
Mark(rec, then) ==
    [op |-> "record", rec |-> rec, then |-> then, away |-> {}, left |-> {}]
Cleanup(rec, away, ms, then) ==
    [op |-> "clean", rec |-> rec, then |-> then, away |-> away, left |-> ms]
FinishRenames(rec) ==
    [op |-> "finish", rec |-> rec, then |-> "done", away |-> {},
     left |-> Members \ rec.missing]

\* A copied item whose source is still there: removed, unless it has new data.
FinishCopied(rec) ==
    IF GrewSince(Measure(Members), rec.print)
    THEN NoFix
    ELSE Cleanup(rec, {}, Has(src), "done")

\* Mutated form of DiagnosePending: a move that has begun is left as it is.
PendingLeft(i, rec, s, d) ==
    IF i \notin old \/ d
    THEN NoFix
    ELSE Cleanup(rec, {"tmp"}, {}, "dropped")

DiagnosePending(i, rec, s, d) ==
    CASE i \notin old -> NoFix
      [] i \in old /\ rec.mode = "rename" /\ d  -> FinishRenames(rec)
      [] i \in old /\ rec.mode = "rename" /\ ~d -> Mark(rec, "dropped")
      [] i \in old /\ rec.mode = "copy" /\ ~s /\ d -> Mark(rec, "done")
      [] i \in old /\ rec.mode = "copy" /\ s /\ d ->
             Cleanup(rec, {"dest", "tmp"}, {}, "dropped")
      [] i \in old /\ rec.mode = "copy" /\ ~d   -> Cleanup(rec, {"tmp"}, {}, "dropped")

DiagnoseCopied(rec, s, d) ==
    CASE ~s /\ d  -> Mark(rec, "done")
      [] s /\ d   -> FinishCopied(rec)
      [] s /\ ~d  -> NoFix
      [] ~s /\ ~d -> Mark(rec, "lost")

DiagnoseRestoring(rec, s, d) ==
    CASE s /\ d   -> NoFix
      [] s /\ ~d  -> Cleanup(rec, {"dest"}, {}, "restored")
      [] ~s /\ d  -> Mark(rec, "done")
      [] ~s /\ ~d -> Mark(rec, "lost")

\* diagnose(): the repair for id i; NoFix also where a person has to look.
Diagnose(i) ==
    LET rec == index[i]
        s   == Has(src) # {}
        d   == Has(dest[i]) # {}
    IN  CASE rec.state = "pending"        -> DiagnosePending(i, rec, s, d)
          [] rec.state = "copied"         -> DiagnoseCopied(rec, s, d)
          [] rec.state = "done" /\ ~d     -> Mark(rec, "lost")
          [] rec.state = "expiring"       -> Cleanup(rec, {"dest"}, {}, "expired")
          [] rec.state = "restoring"      -> DiagnoseRestoring(rec, s, d)
          [] OTHER                        -> NoFix

\* survey(): everything is decided before anything is changed.
Survey(r) ==
    /\ Goes(r, "survey", "fix")
    /\ plan' = [plan EXCEPT ![r] = [i \in Ids |-> Diagnose(i)]]
    /\ UNCHANGED <<disk, journal, lock, kind, cur, world, bounds>>

\* The run turns to the fix of id i, and then goes on at place `back`.
Takes(r, i, back) ==
    LET fix == plan[r][i]
    IN  /\ plan' = [plan EXCEPT ![r][i] = NoFix]
        /\ cur' = [cur EXCEPT ![r] =
               [id |-> i, rec |-> fix.rec, left |-> fix.left, print |-> NoPrint,
                away |-> fix.away, then |-> fix.then, back |-> back]]

\* The fixes of reconcile ("fix") or expire ("expiring") are taken in order.
TakeFix(r) ==
    /\ at[r] = "fix"
    /\ Planned(r) # {}
    /\ at' = [at EXCEPT ![r] = plan[r][Min(Planned(r))].op]
    /\ Takes(r, Min(Planned(r)), "fix")
    /\ UNCHANGED <<disk, journal, lock, kind, world, bounds>>

ReconcileEnds(r) ==
    /\ Goes(r, "fix", IF kind[r] = "apply" THEN "stores" ELSE "restore")
    /\ Planned(r) = {}
    /\ UNCHANGED <<disk, journal, lock, kind, plan, cur, world, bounds>>

\* The fix is over, or could not go on.
FixEnds(r) ==
    /\ at' = [at EXCEPT ![r] = cur[r].back]
    /\ cur' = [cur EXCEPT ![r] = Idle]
    /\ UNCHANGED <<kind, plan>>

\* The data of id i may go once its grace period has passed.
Forgets(i) ==
    live' = IF i \in ripe
            THEN {d \in live : dest[i][d[1]] # d[2] \/ src[d[1]] = d[2]}
            ELSE live

CleanDest(r) ==
    /\ at[r] = "clean"
    /\ "dest" \in cur[r].away
    /\ Allowed(r)
    /\ dest' = [dest EXCEPT ![cur[r].id] = Nothing]
    /\ IF cur[r].then = "expired" THEN Forgets(cur[r].id) ELSE UNCHANGED live
    /\ cur' = [cur EXCEPT ![r].away = @ \ {"dest"}]
    /\ UNCHANGED <<src, tmp, journal, lock, at, kind, plan, layout, version, crashes, slow>>

CleanTmp(r) ==
    /\ at[r] = "clean"
    /\ cur[r].away = {"tmp"}
    /\ Allowed(r)
    /\ tmp' = [tmp EXCEPT ![cur[r].id] = Nothing]
    /\ cur' = [cur EXCEPT ![r].away = {}]
    /\ UNCHANGED <<src, dest, journal, lock, at, kind, plan, world, crashes, slow>>

CleanSource(r) ==
    /\ at[r] = "clean"
    /\ cur[r].away = {} /\ cur[r].left # {}
    /\ Allowed(r)
    /\ src' = [src EXCEPT ![Min(cur[r].left)] = 0]
    /\ DoneWith(r, Min(cur[r].left))
    /\ UNCHANGED <<dest, tmp, journal, lock, at, kind, plan, world, crashes, slow>>

\* What the fix has still to remove and is there.
ToClean(r) ==
    \/ "dest" \in cur[r].away /\ Has(dest[cur[r].id]) # {}
    \/ "tmp" \in cur[r].away /\ Has(tmp[cur[r].id]) # {}
    \/ cur[r].left \cap Has(src) # {}

CleanStops(r) ==
    /\ at[r] = "clean"
    /\ r \in sure \/ ToClean(r)
    /\ Refused(r)
    /\ FixEnds(r)
    /\ UNCHANGED <<disk, journal, lock, world, crashes, slow>>

CleanDone(r) ==
    /\ Goes(r, "clean", "record")
    /\ r \notin sure /\ ~ToClean(r)
    /\ UNCHANGED <<disk, journal, lock, kind, plan, cur, world, bounds>>

FinishStops(r) ==
    /\ at[r] = "finish"
    /\ \/ CrossDevice(r)
       \/ (r \in sure \/ NextToRename(r, Members)) /\ Refused(r)
    /\ FixEnds(r)
    /\ UNCHANGED <<disk, journal, lock, world, crashes, slow>>

\* The members at neither place are recorded as missing.
FinishDone(r) ==
    /\ Goes(r, "finish", "record")
    /\ cur[r].left = {}
    /\ cur' = [cur EXCEPT ![r].rec.missing = Members \ (Has(src) \cup Has(dest[cur[r].id]))]
    /\ UNCHANGED <<disk, journal, lock, kind, plan, world, bounds>>

\* An expired item touches the lock.
RecordFix(r) ==
    /\ at[r] = "record"
    /\ \/ Append(cur[r].id, WithState(cur[r].rec, cur[r].then)) /\ UNCHANGED fails
       \/ Fails /\ UNCHANGED journal
    /\ FixEnds(r)
    /\ IF cur[r].back = "expiring" THEN Touch ELSE UNCHANGED lock
    /\ UNCHANGED <<disk, world, crashes, slow>>

FixStep(r) ==
    \/ Survey(r) \/ TakeFix(r) \/ ReconcileEnds(r)
    \/ CleanDest(r) \/ CleanTmp(r) \/ CleanSource(r) \/ CleanStops(r) \/ CleanDone(r)
    \/ FinishStops(r) \/ FinishDone(r) \/ RecordFix(r)

(***************************************************************************)
(* Expiry, compaction and restore.                                         *)
(***************************************************************************)

Expirable(i) == index[i].state = "done" /\ i \in ripe

\* expire() reads the index once.
FindExpired(r) ==
    /\ Goes(r, "expire", "expiring")
    /\ plan' = [plan EXCEPT ![r] =
           [i \in Ids |-> IF Expirable(i)
                          THEN Cleanup(index[i], {"dest"}, {}, "expired") ELSE NoFix]]
    /\ UNCHANGED <<disk, journal, lock, kind, cur, world, bounds>>

ExpireNext(r) ==
    /\ Goes(r, "expiring", "clean")
    /\ Planned(r) # {}
    /\ LET i == Min(Planned(r))
       IN  Append(i, WithState(plan[r][i].rec, "expiring")) /\ Takes(r, i, "expiring")
    /\ UNCHANGED <<disk, lock, kind, world, bounds>>

\* None is left, or the index cannot be written.
ExpireEnds(r) ==
    /\ Goes(r, "expiring", "compact")
    /\ \/ Planned(r) = {} /\ UNCHANGED fails
       \/ Planned(r) # {} /\ Fails
    /\ plan' = [plan EXCEPT ![r] = NoPlan]
    /\ UNCHANGED <<disk, journal, lock, kind, cur, world, crashes, slow>>

\* Mutated form of Droppable: a half-done step is forgotten too.
DroppableAny(i) == i \in past /\ index[i].state # "done"

Droppable(i) == index[i].state \in Terminal /\ i \in past

Compact(r) ==
    /\ Goes(r, "compact", "release")
    /\ LET gone == {i \in Ids : Droppable(i)}
       IN  /\ index' = [i \in Ids |-> IF i \in gone THEN NoRecord ELSE index[i]]
           /\ old' = old \ gone /\ past' = past \ gone
    /\ UNCHANGED <<ripe, disk, lock, kind, plan, cur, world, bounds>>

CompactFails(r) ==
    /\ Goes(r, "compact", "release")
    /\ Fails
    /\ UNCHANGED <<disk, journal, lock, kind, plan, cur, world, crashes, slow>>

\* Only a done item none of whose paths exists is restored.
BeginRestore(r) ==
    /\ Goes(r, "restore", "back")
    /\ \E i \in Ids :
          /\ index[i].state = "done"
          /\ (Members \ index[i].missing) \cap Has(src) = {}
          /\ Append(i, WithState(index[i], "restoring"))
          /\ Works(r, i, index[i], Members \ index[i].missing)
    /\ UNCHANGED <<disk, lock, kind, plan, world, bounds>>

RestoreRefused(r) ==
    /\ Goes(r, "restore", "release")
    /\ UNCHANGED <<disk, journal, lock, kind, plan, cur, world, bounds>>

\* put_back(): a rename, or a copy that is removed from the tombstone after.
PutBack(r) ==
    /\ at[r] = "back"
    /\ cur[r].left # {}
    /\ Allowed(r)
    /\ LET m == Min(cur[r].left)
           i == cur[r].id
       IN  /\ dest[i][m] # 0
           /\ src' = [src EXCEPT ![m] = dest[i][m]]
           /\ \/ /\ m \notin Far
                 /\ dest' = [dest EXCEPT ![i][m] = 0]
                 /\ DoneWith(r, m)
                 /\ UNCHANGED at
              \/ /\ m \in Far
                 /\ at' = [at EXCEPT ![r] = "uncopy"]
                 /\ UNCHANGED <<dest, cur>>
    /\ UNCHANGED <<tmp, journal, lock, kind, plan, world, crashes, slow>>

Uncopy(r) ==
    /\ Goes(r, "uncopy", "back")
    /\ Allowed(r)
    /\ dest' = [dest EXCEPT ![cur[r].id][Min(cur[r].left)] = 0]
    /\ DoneWith(r, Min(cur[r].left))
    /\ UNCHANGED <<src, tmp, journal, lock, kind, plan, world, crashes, slow>>

RestoreStops(r) ==
    /\ \/ /\ at[r] = "back" /\ cur[r].left # {}
          /\ \/ Refused(r)
             \/ dest[cur[r].id][Min(cur[r].left)] = 0 /\ UNCHANGED fails
       \/ at[r] = "back" /\ cur[r].left = {} /\ Refused(r)
       \/ at[r] = "uncopy" /\ Refused(r)
    /\ at' = [at EXCEPT ![r] = "release"]
    /\ UNCHANGED <<disk, journal, lock, kind, plan, cur, world, crashes, slow>>

\* The tombstone folder goes, whatever is left in it.
RestoreEnds(r) ==
    /\ Goes(r, "back", "restored")
    /\ cur[r].left = {}
    /\ Allowed(r)
    /\ dest' = [dest EXCEPT ![cur[r].id] = Nothing]
    /\ UNCHANGED <<src, tmp, journal, lock, kind, plan, cur, world, crashes, slow>>

MarkRestored(r) ==
    /\ Goes(r, "restored", "release")
    /\ \/ Append(cur[r].id, WithState(cur[r].rec, "restored")) /\ UNCHANGED fails
       \/ Fails /\ UNCHANGED journal
    /\ UNCHANGED <<disk, lock, kind, plan, cur, world, crashes, slow>>

LaterStep(r) ==
    \/ FindExpired(r) \/ ExpireNext(r) \/ ExpireEnds(r)
    \/ Compact(r) \/ CompactFails(r)
    \/ BeginRestore(r) \/ RestoreRefused(r) \/ PutBack(r) \/ Uncopy(r)
    \/ RestoreStops(r) \/ RestoreEnds(r) \/ MarkRestored(r)

LockStep(r) ==
    \/ MakeLock(r) \/ AlreadyRunning(r) \/ FindStale(r) \/ Claim(r)
    \/ WriteToken(r) \/ Release(r)

RunStep(r) == LockStep(r) \/ MoveStep(r) \/ FixStep(r) \/ LaterStep(r)

\* What comes before the look at the token of a guarded call holds.
Due(r) ==
    /\ There(r)
    /\ at[r] \in {"rename", "finish"} => NextToRename(r, Members)
    /\ at[r] = "staged" => ~SourceChanged(r)

\* verify() finds the token; the call it guards is the next step of the run, and
\* anything may happen before it.
Verify(r) ==
    /\ r \notin sure /\ Verified(r)
    /\ Due(r)
    /\ sure' = sure \cup {r}
    /\ UNCHANGED <<disk, journal, lock, mine, world, bounds, slipped>>

\* A guarded call on an old look at the token, by a run that no longer holds the
\* lock: it moves or removes data, or finds that it has to copy it.
Slips(r) == r \in sure /\ ~Verified(r) /\ Allowed(r) /\ at[r] # "release"

Step(r) ==
    /\ RunStep(r)
    /\ sure' = sure \ {r}
    /\ slipped' = (slipped \/ Slips(r))

(***************************************************************************)
(* The programs the item belongs to, kills, and time.                      *)
(***************************************************************************)

\* Run r has looked at the source and goes by what it saw: it removes what it
\* copied or decided to remove, puts a tombstone back where nothing was, or
\* copies a group whose missing members it has listed.
Guarded(r) ==
    \/ at[r] \in {"copy", "placed", "remove", "back", "uncopy"}
    \/ at[r] = "staged" /\ r \in sure
    \/ at[r] = "rename" /\ cur[r].left \cap Far # {}
    \/ at[r] = "clean" /\ cur[r].left # {}
    \/ \E i \in Planned(r) : plan[r][i].op = "clean" /\ plan[r][i].left # {}

Quiet == Racing \/ \A r \in Runs : ~Guarded(r)

Write(m) ==
    /\ Quiet
    /\ version <= MaxWrites
    /\ version' = version + 1
    /\ src' = [src EXCEPT ![m] = version']
    /\ live' = (live \ {<<m, src[m]>>}) \cup {<<m, version'>>}
    /\ UNCHANGED <<dest, tmp, journal, lock, mine, layout, bounds, sight>>

Delete(m) ==
    /\ Quiet
    /\ src[m] # 0
    /\ src' = [src EXCEPT ![m] = 0]
    /\ live' = live \ {<<m, src[m]>>}
    /\ UNCHANGED <<dest, tmp, journal, lock, mine, layout, version, bounds, sight>>

\* The process is killed; its lock stays.
Crash(r) ==
    /\ at[r] # "off"
    /\ crashes < MaxCrashes
    /\ crashes' = crashes + 1
    /\ at' = [at EXCEPT ![r] = "off"]
    /\ Quit(r)
    /\ lock' = IF lock.token = r THEN [lock EXCEPT !.token = Gone] ELSE lock
    /\ sure' = sure \ {r}
    /\ UNCHANGED <<disk, journal, kind, world, fails, slow, slipped>>

\* Longer than RUN_LOCK_STALE passes while no run is there, or while one is slow.
Pauses ==
    \/ (\A r \in Runs : at[r] = "off") /\ UNCHANGED slow
    \/ (\E r \in Runs : at[r] # "off") /\ slow < MaxSlow /\ slow' = slow + 1

Recorded == {i \in Ids : index[i] # NoRecord}

MinutesPass ==
    /\ Pauses
    /\ lock' = [lock EXCEPT !.stale = lock.dir]
    /\ old' = Recorded
    /\ <<lock', old'>> # <<lock, old>>
    /\ UNCHANGED <<disk, index, past, ripe, mine, world, crashes, fails, sight>>

DaysPass ==
    /\ Pauses
    /\ lock' = [lock EXCEPT !.stale = lock.dir]
    /\ old' = Recorded /\ past' = Recorded /\ ripe' = ripe \cup Recorded
    /\ <<past', ripe'>> # <<past, ripe>>
    /\ UNCHANGED <<disk, index, mine, world, crashes, fails, sight>>

Init ==
    /\ src = [m \in Members |-> 1]
    /\ dest = [i \in Ids |-> Nothing]
    /\ tmp = [i \in Ids |-> Nothing]
    /\ index = [i \in Ids |-> NoRecord]
    /\ old = {} /\ past = {} /\ ripe = {}
    /\ lock = [dir |-> FALSE, token |-> NoRun, stale |-> FALSE]
    /\ at = [r \in Runs |-> "off"]
    /\ kind \in UNION {[Runs -> {k}] : k \in Kinds}
    /\ plan = [r \in Runs |-> NoPlan]
    /\ cur = [r \in Runs |-> Idle]
    /\ layout \in Layouts
    /\ version = 1
    /\ live = {<<m, 1>> : m \in Members}
    /\ crashes = 0 /\ fails = 0 /\ slow = 0
    /\ sure = {} /\ slipped = FALSE

Next ==
    \/ \E r \in Runs : Verify(r) \/ Step(r) \/ Crash(r)
    \/ \E r \in Runs, k \in Kinds : Start(r, k)
    \/ \E m \in Members : Write(m) \/ Delete(m)
    \/ MinutesPass \/ DaysPass

Fairness ==
    /\ \A r \in Runs : WF_vars(Step(r)) /\ SF_vars(Start(r, "apply"))
    /\ SF_vars(MinutesPass)

Spec == Init /\ [][Next]_vars /\ Fairness

(***************************************************************************)
(* Properties.                                                             *)
(***************************************************************************)

\* Every part of the state has its type.
TypeOK ==
    /\ src \in [Members -> 0 .. MaxWrites + 1]
    /\ dest \in [Ids -> [Members -> 0 .. MaxWrites + 1]]
    /\ tmp \in [Ids -> [Members -> 0 .. MaxWrites + 1]]
    /\ \A i \in Ids :
          index[i].state \in Terminal \cup
              {"none", "pending", "copied", "done", "expiring", "restoring"}
    /\ old \cup past \subseteq Recorded /\ ripe \subseteq Ids
    /\ lock \in [dir : BOOLEAN, token : Runs \cup {NoRun, Gone}, stale : BOOLEAN]
    /\ lock.token # NoRun \/ lock.stale => lock.dir
    /\ kind \in [Runs -> Kinds]
    /\ layout \in Layouts
    /\ sure \subseteq Runs /\ slipped \in BOOLEAN

\* Data is never lost: what a program last wrote to a path of the item, and did
\* not itself replace or delete, is at that path or in a tombstone until the
\* grace period of that tombstone has passed, wherever a run was killed or failed
\* ("data is never deleted from the source until it is safe at the
\* destination").
NothingLost ==
    \A d \in live :
        src[d[1]] = d[2] \/ \E i \in Ids : dest[i][d[1]] = d[2]

\* With more than one run, data is lost only once a run was overtaken between
\* its look at the token and the call it guards, and acted without the lock
\* (verify() in guard.rs; "a lock that was stolen after a long sleep aborts the
\* run instead of racing the thief").
LostOnlyAfterSlip == slipped \/ NothingLost

\* Index and disk agree: a tombstone that holds data has a record, and not one
\* that compaction may drop.
HeldIsRecorded ==
    \A i \in Ids :
        Has(dest[i]) # {} => index[i].state \notin Terminal \cup {"none"}

\* A move that was cut short is settled by a later run.
PendingSettles ==
    \A i \in Ids : index[i].state = "pending" ~> index[i].state # "pending"
====
