------------------------- MODULE BinaryUpdateProofs -------------------------
(***************************************************************************)
(* The update of the binary, for any number of commands, updaters,         *)
(* releases and failures, and any of the releases broken.  Two facts carry *)
(* the proofs: a release is run before an updater may swap it in (JobInv),  *)
(* and a plan that was not outdated by another claim was made while no     *)
(* start counted as running (PlanInv).                                     *)
(***************************************************************************)
EXTENDS BinaryUpdate, SequenceTheorems, TLAPS

JobPlaces == {"off", "refresh", "store", "apply", "lock", "steal", "retake", "putback", "busy",
              "release", "claim", "notes", "resolve", "download", "backup", "swap", "again",
              "restore", "report", "warn"}

Jobs == [at : JobPlaces, kind : {"none", "auto", "manual"}, ver : Versions, want : Versions,
         tried : BOOLEAN, bak : SUBSET Versions]

Plans == [at : {"planned"}, refresh : BOOLEAN, apply : Versions, notice : Versions,
          report : BOOLEAN, same : BOOLEAN]

Caches == [latest : Versions, checked : {"old", "today", "fresh"}, tried : Versions,
           spawned : Versions, notified : Versions,
           held : [version : Versions, for : {"none", "hour", "day", "ever"}],
           report : SUBSET ({"updated", "warning"} \X Versions)]

\* The parts of the state the proofs speak of.
TypeOK ==
    /\ newest \in Versions
    /\ cache \in Caches
    /\ \A c \in Commands : cmd[c] = NoCommand \/ cmd[c] \in Plans
    /\ DOMAIN cmd = Commands
    /\ job \in [Updaters -> Jobs]
    /\ target \in Versions
    /\ baks \in Seq(Versions \X Versions)

-----------------------------------------------------------------------------
(* Types                                                                    *)

LEMMA TypeInit == Init => TypeOK
  BY UpdateAssumption
     DEF Init, TypeOK, NoCommand, NoJob, NoHold, Versions, Jobs, JobPlaces, Caches

LEMMA NoJobType == NoJob \in Jobs /\ 0 \in Versions /\ NoHold \in [version : Versions, for : {"none"}]
  BY UpdateAssumption DEF NoJob, NoHold, Jobs, JobPlaces, Versions

LEMMA JobType ==
  ASSUME TypeOK, NEW u \in Updaters, NEW j \in Jobs, job' = [job EXCEPT ![u] = j]
  PROVE  job' \in [Updaters -> Jobs]
  BY DEF TypeOK

\* An updater goes to another step, or ends.
LEMMA GoesType ==
  ASSUME TypeOK, NEW u \in Updaters, NEW from, NEW to \in JobPlaces,
         Goes(u, from, to) \/ Quits(u, from)
  PROVE  job' \in [Updaters -> Jobs]
  <1>1. [job[u] EXCEPT !.at = to] \in Jobs
    BY DEF TypeOK, Jobs
  <1> QED BY <1>1, JobType, NoJobType DEF Goes, Quits

LEMMA CommandType ==
  ASSUME TypeOK, NEW c \in Commands,
         StartCommand(c) \/ (\E acts \in BOOLEAN : Execute(c, acts))
  PROVE  TypeOK'
  <1> USE NoJobType DEF TypeOK
  <1>1. CASE StartCommand(c)
    <2> DEFINE plan == Plan(target, c \in Terminals)
    <2>1. plan \in Plans
      <3>1. cache.latest \in Versions
        BY DEF Caches
      <3> QED BY <3>1 DEF Plan, Plans
    <2> HIDE DEF plan
    <2>2. cmd' = [cmd EXCEPT ![c] = plan]
      BY <1>1 DEF StartCommand, plan
    <2> QED BY <1>1, <2>1, <2>2 DEF StartCommand, world, disk
  <1>2. ASSUME NEW acts \in BOOLEAN, Execute(c, acts) PROVE TypeOK'
    <2>1. cache' \in Caches /\ UNCHANGED <<newest, target, baks>>
      <3>1. cmd[c] \in Plans
        BY <1>2 DEF Execute, NoCommand
      <3>2. cmd[c].apply \in Versions /\ cmd[c].notice \in Versions
        BY <3>1 DEF Plans
      <3>3. PICK x \in {"old", "today", "fresh"}, s \in Versions, n \in Versions,
                 r \in SUBSET ({"updated", "warning"} \X Versions) :
               cache' = [cache EXCEPT !.checked = x, !.spawned = s, !.notified = n, !.report = r]
        <4> DEFINE x == IF MayClaim(cmd[c]) THEN "fresh" ELSE cache.checked
                   s == IF MayClaim(cmd[c]) /\ cmd[c].apply # 0 THEN cmd[c].apply ELSE cache.spawned
                   n == IF cmd[c].notice # 0 /\ cache.notified # cmd[c].notice
                        THEN cmd[c].notice ELSE cache.notified
                   r == IF cmd[c].report THEN {} ELSE cache.report
        <4>1. x \in {"old", "today", "fresh"} /\ s \in Versions /\ n \in Versions
              /\ r \in SUBSET ({"updated", "warning"} \X Versions)
          BY <3>2 DEF Caches
        <4>2. cache' = [cache EXCEPT !.checked = x, !.spawned = s, !.notified = n, !.report = r]
          BY <1>2 DEF Execute
        <4> HIDE DEF x, s, n, r
        <4> QED BY <4>1, <4>2
      <3> QED BY <1>2, <3>3 DEF Execute, world, disk, Caches
    <2>2. /\ \A d \in Commands : cmd'[d] = NoCommand \/ cmd'[d] \in Plans
          /\ DOMAIN cmd' = Commands
      <3>1. \A claim \in BOOLEAN : \A d \in Commands :
               Outdated(c, claim)[d] = NoCommand \/ Outdated(c, claim)[d] \in Plans
        <4> TAKE claim \in BOOLEAN
        <4> TAKE d \in Commands
        <4>1. Outdated(c, claim)[d] = cmd[d] \/ Outdated(c, claim)[d] = [cmd[d] EXCEPT !.same = FALSE]
          BY DEF Outdated
        <4>2. CASE cmd[d] = NoCommand
          BY <4>2 DEF Outdated, NoCommand
        <4>3. CASE cmd[d] \in Plans
          BY <4>1, <4>3 DEF Plans
        <4> QED BY <4>2, <4>3
      <3>2. PICK claim \in BOOLEAN : cmd' = [Outdated(c, claim) EXCEPT ![c] = NoCommand]
        BY <1>2 DEF Execute, MayClaim
      <3>3. DOMAIN Outdated(c, claim) = Commands
        BY DEF Outdated
      <3> QED BY <3>1, <3>2, <3>3
    <2>3. job' \in [Updaters -> Jobs]
      <3>1. job' = job \/ \E u \in Updaters :
              job' = [job EXCEPT ![u] = [NoJob EXCEPT !.at = "refresh", !.kind = "auto",
                                                      !.ver = target]]
        BY <1>2 DEF Execute
      <3>2. [NoJob EXCEPT !.at = "refresh", !.kind = "auto", !.ver = target] \in Jobs
        BY DEF Jobs, JobPlaces
      <3> QED BY <3>1, <3>2
    <2> QED BY <2>1, <2>2, <2>3
  <1> QED BY <1>1, <1>2

\* The steps that change only where an updater is, the cache and the lock.
LEMMA PlainType ==
  ASSUME TypeOK, NEW u \in Updaters,
         \/ FetchFails(u) \/ Store(u) \/ MakeLock(u) \/ Steal(u) \/ PutBack(u)
         \/ RetakeLock(u) \/ Busy(u) \/ Release(u) \/ Claim(u) \/ ReadNotes(u)
         \/ NotesFail(u) \/ Download(u) \/ DownloadFails(u) \/ AttestationGap(u)
         \/ BackupFails(u) \/ SwapFails(u) \/ SmokeAgain(u) \/ SmokeAgainFails(u)
         \/ Report(u) \/ Warn(u) \/ KillUpdater(u)
  PROVE  TypeOK'
  <1>1. UNCHANGED <<newest, cmd, target, baks>>
    BY DEF FetchFails, Store, MakeLock, Steal, PutBack, RetakeLock, Busy, Release, Claim,
           ReadNotes, NotesFail, Download, DownloadFails, AttestationGap, BackupFails, SwapFails,
           SmokeAgain, SmokeAgainFails, Report, Warn, LeaveLine, KillUpdater, world, disk
  <1>2. cache' \in Caches
    <2>1. job[u].want \in Versions /\ cache \in Caches
      BY DEF TypeOK, Jobs
    <2>2. CASE Store(u) \/ Claim(u)
      BY <2>1, <2>2 DEF Store, Claim, Caches
    <2>3. CASE cache' = cache
      BY <2>1, <2>3
    <2>4. ASSUME NEW for \in {"hour", "day", "ever"}, Hold(job[u].want, for) PROVE cache' \in Caches
      BY <2>1, <2>4 DEF Hold, Caches
    <2>5. CASE Busy(u) \/ ReadNotes(u) \/ NotesFail(u) \/ AttestationGap(u)
      BY <2>3, <2>4, <2>5 DEF Busy, ReadNotes, NotesFail, AttestationGap
    <2>6. CASE Report(u) \/ Warn(u)
      <3>1. PICK what \in {"updated", "warning"} :
               cache' = [cache EXCEPT !.report =
                    (@ \ {<<"warning", job[u].want>>}) \cup {<<what, job[u].want>>}]
        BY <2>6 DEF Report, Warn, LeaveLine
      <3> QED BY <2>1, <3>1 DEF Caches
    <2> QED BY <2>2, <2>3, <2>5, <2>6
            DEF FetchFails, MakeLock, Steal, PutBack, RetakeLock, Release, Download,
                DownloadFails, BackupFails, SwapFails, SmokeAgain, SmokeAgainFails, KillUpdater
  <1>3. job' \in [Updaters -> Jobs]
    <2> DEFINE Moved == \E from \in JobPlaces, to \in JobPlaces : Goes(u, from, to) \/ Quits(u, from)
    <2>1. CASE Store(u) \/ Steal(u) \/ PutBack(u) \/ Claim(u) \/ ReadNotes(u) \/ NotesFail(u)
               \/ AttestationGap(u) \/ BackupFails(u) \/ SmokeAgain(u) \/ SmokeAgainFails(u)
               \/ Report(u) \/ Warn(u)
      <3>1. Moved
        BY <2>1 DEF Store, Steal, PutBack, Claim, ReadNotes, NotesFail, AttestationGap,
                    BackupFails, SmokeAgain, SmokeAgainFails, Report, Warn, LeaveLine, JobPlaces
      <3> QED BY <3>1, GoesType
    <2>2. CASE MakeLock(u) \/ RetakeLock(u)
      <3>1. Moved
        BY <2>2 DEF MakeLock, RetakeLock, TakeLock, AfterLock, JobPlaces
      <3> QED BY <3>1, GoesType
    <2>3. CASE Download(u) \/ DownloadFails(u) \/ SwapFails(u)
      <3>1. Moved
        BY <2>3 DEF Download, DownloadFails, SwapFails, Failed, JobPlaces
      <3> QED BY <3>1, GoesType
    <2>4. CASE FetchFails(u) \/ Busy(u) \/ Release(u)
      <3>1. Moved
        BY <2>4 DEF FetchFails, Busy, Release, JobPlaces
      <3> QED BY <3>1, GoesType
    <2>5. CASE KillUpdater(u)
      BY <2>5, NoJobType DEF KillUpdater, TypeOK
    <2> QED BY <2>1, <2>2, <2>3, <2>4, <2>5
  <1> QED BY <1>1, <1>2, <1>3 DEF TypeOK

\* A backup is one of the binaries that were there.
LEMMA BackupsOf ==
  ASSUME NEW S, baks \in Seq(S), NEW b \in S
  PROVE  /\ Keep(<<b>> \o baks) \in Seq(S)
         /\ \A k \in DOMAIN Keep(<<b>> \o baks) :
               Keep(<<b>> \o baks)[k] = b \/ \E i \in DOMAIN baks : Keep(<<b>> \o baks)[k] = baks[i]
  <1> DEFINE all == <<b>> \o baks
             n == IF Len(all) < KeepBackups THEN Len(all) ELSE KeepBackups
  <1>1. /\ all \in Seq(S) /\ Len(all) = Len(baks) + 1 /\ Len(baks) \in Nat
        /\ DOMAIN baks = 1 .. Len(baks)
        /\ \A i \in 1 .. Len(all) : all[i] = IF i = 1 THEN b ELSE baks[i - 1]
    <2>1. <<b>> \in Seq(S) /\ Len(<<b>>) = 1 /\ <<b>>[1] = b
      OBVIOUS
    <2>2. Len(baks) \in Nat /\ DOMAIN baks = 1 .. Len(baks)
      BY LenProperties
    <2> QED BY <2>1, <2>2, ConcatProperties
  <1> HIDE DEF all
  <1>2. n \in Nat /\ n <= Len(all)
    BY <1>1, UpdateAssumption
  <1>3. \A i \in 1 .. n : all[i] \in S
    BY <1>1, <1>2, ElementOfSeq
  <1> HIDE DEF n
  <1>4. /\ SubSeq(all, 1, n) \in Seq(S)
        /\ Len(SubSeq(all, 1, n)) = n
        /\ \A i \in 1 .. n : SubSeq(all, 1, n)[i] = all[i]
    BY <1>2, <1>3, SubSeqProperties
  <1>5. DOMAIN SubSeq(all, 1, n) = 1 .. n
    BY <1>4, LenProperties
  <1>6. \A i \in 1 .. n : all[i] = b \/ \E k \in DOMAIN baks : all[i] = baks[k]
    BY <1>1, <1>2
  <1> QED BY <1>4, <1>5, <1>6 DEF Keep, all, n

\* Where a backup comes from.
LEMMA BackupStep ==
  ASSUME TypeOK, NEW u \in Updaters, Backup(u)
  PROVE  /\ baks' \in Seq(Versions \X Versions)
         /\ \A k \in DOMAIN baks' :
               baks'[k][2] = target \/ \E i \in DOMAIN baks : baks'[k] = baks[i]
  <1> DEFINE b == <<job[u].ver, target>>
  <1>1. b \in Versions \X Versions /\ b[2] = target
    BY DEF TypeOK, Jobs
  <1>2. baks' = baks \/ baks' = Keep(<<b>> \o baks)
    BY DEF Backup
  <1> HIDE DEF b
  <1> QED BY <1>1, <1>2, BackupsOf DEF TypeOK

\* A binary that is put back is a backup, or stays.
LEMMA RestoreStep ==
  ASSUME TypeOK, NEW u \in Updaters, Restore(u)
  PROVE  target' = target \/ \E k \in DOMAIN baks : target' = baks[k][2]
  BY DEF Restore

\* The steps that change the binary, its backups or what an updater knows.
LEMMA OtherType ==
  ASSUME TypeOK, NEW u \in Updaters,
         StartUpdate(u) \/ Fetch(u) \/ ReadRow(u) \/ Resolve(u) \/ Backup(u) \/ Swap(u) \/ Restore(u)
  PROVE  TypeOK'
  <1>1. CASE StartUpdate(u)
    <2>1. job' \in [Updaters -> Jobs]
      BY <1>1, NoJobType DEF StartUpdate, TypeOK, Jobs, JobPlaces
    <2> QED BY <1>1, <2>1 DEF StartUpdate, TypeOK, world, disk
  <1>2. CASE Fetch(u)
    <2>1. [job[u] EXCEPT !.at = "store", !.want = newest] \in Jobs
      BY DEF TypeOK, Jobs, JobPlaces
    <2>2. job' = [job EXCEPT ![u] = [job[u] EXCEPT !.at = "store", !.want = newest]]
      BY <1>2 DEF Fetch
    <2> QED BY <1>2, <2>1, <2>2, JobType DEF Fetch, TypeOK, world, disk
  <1>3. CASE ReadRow(u)
    <2>1. job' \in [Updaters -> Jobs]
      BY <1>3, NoJobType DEF ReadRow, Quits, TypeOK, Jobs, JobPlaces
    <2> QED BY <1>3, <2>1 DEF ReadRow, TypeOK, world, disk
  <1>4. CASE Resolve(u)
    <2>1. PICK to \in {"download", "release"} :
             job' = [job EXCEPT ![u] = [job[u] EXCEPT !.at = to, !.want = newest]]
      BY <1>4 DEF Resolve, JobPlaces
    <2>2. [job[u] EXCEPT !.at = to, !.want = newest] \in Jobs
      BY DEF TypeOK, Jobs, JobPlaces
    <2>3. job' \in [Updaters -> Jobs]
      BY <2>1, <2>2, JobType
    <2> QED BY <1>4, <2>3 DEF Resolve, TypeOK, world, disk
  <1>5. CASE Backup(u)
    <2>1. job' \in [Updaters -> Jobs]
      <3>1. PICK bak \in SUBSET Versions : job' = [job EXCEPT ![u].at = "swap", ![u].bak = bak]
        BY <1>5 DEF Backup, TypeOK, Jobs
      <3>2. [job[u] EXCEPT !.at = "swap", !.bak = bak] \in Jobs
        BY DEF TypeOK, Jobs, JobPlaces
      <3> QED BY <3>1, <3>2, JobType
    <2> QED BY <1>5, <2>1, BackupStep DEF Backup, TypeOK, world
  <1>6. CASE Swap(u)
    <2>1. job' \in [Updaters -> Jobs] /\ target' \in Versions
      BY <1>6 DEF Swap, Goes, TypeOK, Jobs, JobPlaces
    <2> QED BY <1>6, <2>1 DEF Swap, TypeOK, world
  <1>7. CASE Restore(u)
    <2>1. job' \in [Updaters -> Jobs]
      BY <1>7 DEF Restore, Goes, Failed, TypeOK, Jobs, JobPlaces
    <2>2. \A k \in DOMAIN baks : baks[k][2] \in Versions
      BY LenProperties, ElementOfSeq DEF TypeOK
    <2>3. target' \in Versions
      BY <1>7, <2>2, RestoreStep DEF TypeOK
    <2> QED BY <1>7, <2>1, <2>3 DEF Restore, TypeOK, world
  <1> QED BY <1>1, <1>2, <1>3, <1>4, <1>5, <1>6, <1>7

LEMMA WorldType ==
  ASSUME TypeOK, Publish \/ HourPasses \/ DayPasses
  PROVE  TypeOK'
  <1>1. newest' \in Versions
    BY UpdateAssumption DEF Publish, HourPasses, DayPasses, TypeOK, Versions
  <1>2. cache' \in Caches
    BY NoJobType DEF Publish, HourPasses, DayPasses, TypeOK, Caches
  <1> QED BY <1>1, <1>2 DEF Publish, HourPasses, DayPasses, TypeOK, world, disk

LEMMA TypeStep ==
  ASSUME TypeOK, [Next]_vars
  PROVE  TypeOK'
  <1>1. CASE UNCHANGED vars
    BY <1>1 DEF vars, TypeOK
  <1>2. CASE Next
    BY <1>2, CommandType, PlainType, OtherType, WorldType DEF Next, UpdaterStep, UpdaterFault
  <1> QED BY <1>1, <1>2

-----------------------------------------------------------------------------
(* What is installed runs                                                   *)

\* What an updater is about to swap in was run before.
JobInv == \A u \in Updaters : job[u].at \in {"backup", "swap"} => job[u].want \notin Bad

\* An updater reaches these two steps only by running what it downloaded.
LEMMA JobStep ==
  ASSUME TypeOK, JobInv, [Next]_vars
  PROVE  JobInv'
  <1> SUFFICES ASSUME NEW u \in Updaters, job'[u].at \in {"backup", "swap"}
               PROVE  job'[u].want \notin Bad
    BY DEF JobInv
  <1> USE DEF JobInv
  <1>1. job[u] \in Jobs /\ job \in [Updaters -> Jobs] /\ NoJob.at = "off"
    BY DEF TypeOK, NoJob
  <1>2. CASE job'[u] = job[u]
    BY <1>2
  <1>3. ASSUME NEW c \in Commands, NEW acts \in BOOLEAN, Execute(c, acts) PROVE job'[u] = job[u]
    <2>1. \/ job' = job
          \/ \E w \in Updaters :
                job' = [job EXCEPT ![w] = [NoJob EXCEPT !.at = "refresh", !.kind = "auto",
                                                        !.ver = target]]
      BY <1>3 DEF Execute
    <2>2. [NoJob EXCEPT !.at = "refresh", !.kind = "auto", !.ver = target].at = "refresh"
      BY DEF NoJob
    <2> QED BY <1>1, <2>1, <2>2
  <1>4. ASSUME NEW w \in Updaters, StartUpdate(w) \/ KillUpdater(w) PROVE job'[u] = job[u]
    <2>1. [NoJob EXCEPT !.at = "lock", !.kind = "manual", !.ver = target].at = "lock"
      BY DEF NoJob
    <2> QED BY <1>1, <1>4, <2>1 DEF StartUpdate, KillUpdater
  <1>5. ASSUME NEW w \in Updaters, UpdaterStep(w) \/ UpdaterFault(w) PROVE job'[u].want \notin Bad
    <2>1. ASSUME w # u PROVE job'[u] = job[u]
      BY <1>1, <1>5, <2>1
         DEF UpdaterStep, UpdaterFault, Fetch, Store, ReadRow, MakeLock, Steal, PutBack, RetakeLock,
             Busy, Release, Claim, ReadNotes, Resolve, Download, Backup, Swap, SmokeAgain, Restore,
             Report, Warn, FetchFails, NotesFail, DownloadFails, AttestationGap, BackupFails,
             SwapFails, SmokeAgainFails, TakeLock, LeaveLine, Goes, Quits
    <2>2. CASE Download(u)
      BY <1>1, <2>2 DEF Download, Goes, StageRuns, Failed, Jobs
    <2>3. CASE Backup(u) \/ BackupFails(u)
      BY <1>1, <2>3 DEF Backup, BackupFails, Goes, Jobs
    <2>4. CASE Fetch(u) \/ ReadRow(u) \/ Resolve(u)
      BY <1>1, <2>4 DEF Fetch, ReadRow, Resolve, Quits, Jobs
    <2>5. CASE MakeLock(u) \/ RetakeLock(u)
      BY <1>1, <2>5 DEF MakeLock, RetakeLock, TakeLock, AfterLock, Goes, Jobs
    <2>6. CASE Store(u) \/ Steal(u) \/ PutBack(u) \/ Busy(u) \/ Release(u) \/ FetchFails(u)
      BY <1>1, <2>6 DEF Store, Steal, PutBack, Busy, Release, FetchFails, Goes, Quits, Jobs
    <2>7. CASE Claim(u) \/ ReadNotes(u) \/ NotesFail(u) \/ AttestationGap(u)
      BY <1>1, <2>7 DEF Claim, ReadNotes, NotesFail, AttestationGap, Goes, Jobs
    <2>8. CASE Swap(u) \/ SwapFails(u) \/ SmokeAgain(u) \/ SmokeAgainFails(u)
      BY <1>1, <2>8 DEF Swap, SwapFails, SmokeAgain, SmokeAgainFails, Failed, Goes, Jobs
    <2>9. CASE Restore(u) \/ Report(u) \/ Warn(u) \/ DownloadFails(u)
      BY <1>1, <2>9 DEF Restore, Report, Warn, LeaveLine, DownloadFails, Failed, Goes, Jobs
    <2> QED BY <1>2, <1>5, <2>1, <2>2, <2>3, <2>4, <2>5, <2>6, <2>7, <2>8, <2>9
            DEF UpdaterStep, UpdaterFault
  <1>6. CASE Publish \/ HourPasses \/ DayPasses \/ UNCHANGED vars \/ \E c \in Commands : StartCommand(c)
    BY <1>2, <1>6 DEF Publish, HourPasses, DayPasses, StartCommand, vars
  <1> QED BY <1>2, <1>3, <1>4, <1>5, <1>6 DEF Next

\* The binary and its backups change only by a swap, a backup and a restore.
LEMMA DiskStep ==
  ASSUME [Next]_vars
  PROVE  UNCHANGED disk \/ \E u \in Updaters : Backup(u) \/ Swap(u) \/ Restore(u)
  <1>1. ASSUME NEW u \in Updaters, UpdaterStep(u) \/ UpdaterFault(u)
        PROVE  UNCHANGED disk \/ Backup(u) \/ Swap(u) \/ Restore(u)
    BY <1>1
       DEF UpdaterStep, UpdaterFault, Fetch, Store, ReadRow, MakeLock, Steal, PutBack, RetakeLock,
           Busy, Release, Claim, ReadNotes, Resolve, Download, SmokeAgain,
           Report, Warn, FetchFails, NotesFail, DownloadFails, AttestationGap, BackupFails,
           SwapFails, SmokeAgainFails, LeaveLine
  <1>2. ASSUME UNCHANGED vars \/ Publish \/ HourPasses \/ DayPasses
               \/ (\E c \in Commands : StartCommand(c) \/ \E acts \in BOOLEAN : Execute(c, acts))
               \/ (\E u \in Updaters : StartUpdate(u) \/ KillUpdater(u))
        PROVE  UNCHANGED disk
    BY <1>2 DEF vars, Publish, HourPasses, DayPasses, StartCommand, Execute, StartUpdate, KillUpdater,
                disk
  <1> QED BY <1>1, <1>2 DEF Next

LEMMA RunsStep ==
  ASSUME TypeOK, JobInv, AlwaysRuns, [Next]_vars
  PROVE  AlwaysRuns'
  <1>1. CASE UNCHANGED disk
    BY <1>1 DEF disk, AlwaysRuns
  <1>2. ASSUME NEW u \in Updaters, Backup(u) PROVE AlwaysRuns'
    BY <1>2, BackupStep DEF AlwaysRuns, Backup
  <1>3. ASSUME NEW u \in Updaters, Swap(u) PROVE AlwaysRuns'
    BY <1>3 DEF AlwaysRuns, Swap, Goes, JobInv
  <1>4. ASSUME NEW u \in Updaters, Restore(u) PROVE AlwaysRuns'
    BY <1>4, RestoreStep DEF AlwaysRuns, Restore
  <1> QED BY <1>1, <1>2, <1>3, <1>4, DiskStep

LEMMA RunsInit == Init => JobInv /\ AlwaysRuns
  BY UpdateAssumption DEF Init, JobInv, AlwaysRuns, NoJob

\* Every value the state holds is one the code can hold.
THEOREM TypeCorrect == Spec => []TypeOK
  <1> QED BY TypeInit, TypeStep, PTL DEF Spec

\* The installed binary and every backup of it run at every moment, wherever
\* updaters are killed, however many there are, and also while several of them
\* swap and roll back at once behind a lock that was taken over: `install` and
\* `restore` put nothing in place that was not run before.
THEOREM BinaryRuns == Spec => []AlwaysRuns
  <1>1. Init => TypeOK /\ JobInv /\ AlwaysRuns
    BY TypeInit, RunsInit
  <1>2. TypeOK /\ JobInv /\ AlwaysRuns /\ [Next]_vars => (TypeOK /\ JobInv /\ AlwaysRuns)'
    BY TypeStep, JobStep, RunsStep
  <1> QED BY <1>1, <1>2, PTL DEF Spec

-----------------------------------------------------------------------------
(* One start at a time                                                      *)

\* A plan that may still be claimed was made while no attempt counted as
\* running, and none was claimed since.
PlanInv ==
    \A c \in Commands :
        cmd[c].at = "planned" /\ MayClaim(cmd[c]) => cache.checked # "fresh"

\* A claim makes the row fresh and outdates every other plan; time does not pass
\* while there is a plan, and nothing else dates the row.
LEMMA PlanStep ==
  ASSUME TypeOK, PlanInv, [Next]_vars
  PROVE  PlanInv'
  <1> SUFFICES ASSUME NEW c \in Commands, cmd'[c].at = "planned", MayClaim(cmd'[c])
               PROVE  cache'.checked # "fresh"
    BY DEF PlanInv, MayClaim
  <1>1. cache \in Caches /\ DOMAIN cmd = Commands /\ NoCommand.at = "off"
    BY DEF TypeOK, NoCommand
  <1>2. CASE cmd'[c] = cmd[c] /\ cache'.checked = cache.checked
    BY <1>2 DEF PlanInv
  <1>3. ASSUME NEW d \in Commands, StartCommand(d) PROVE cache'.checked # "fresh"
    <2>1. CASE d = c
      <3>1. cmd'[c] = Plan(target, c \in Terminals) /\ cache' = cache
        BY <1>1, <1>3, <2>1 DEF StartCommand
      <3>2. ASSUME cmd'[c].refresh PROVE cache.checked = "old"
        <4>1. Plan(target, c \in Terminals).refresh = (cache.checked = "old")
          BY DEF Plan
        <4> QED BY <3>1, <3>2, <4>1
      <3>3. ASSUME cmd'[c].apply # 0 PROVE cache.checked # "fresh"
        BY <3>1, <3>3 DEF Plan
      <3> QED BY <3>1, <3>2, <3>3 DEF MayClaim
    <2>2. CASE d # c
      BY <1>1, <1>2, <1>3, <2>2 DEF StartCommand
    <2> QED BY <2>1, <2>2
  <1>4. ASSUME NEW d \in Commands, NEW acts \in BOOLEAN, Execute(d, acts)
        PROVE  cache'.checked # "fresh"
    <2>1. c # d
      BY <1>1, <1>4 DEF Execute, Outdated
    <2>2. cmd'[c] = Outdated(d, MayClaim(cmd[d]))[c]
      BY <1>4, <2>1 DEF Execute, Outdated
    <2>3. cmd[c] = NoCommand \/ cmd[c] \in Plans
      BY DEF TypeOK
    <2>4. CASE MayClaim(cmd[d])
      BY <1>1, <2>1, <2>2, <2>3, <2>4 DEF Outdated, MayClaim, Plans
    <2>5. CASE ~MayClaim(cmd[d])
      <3>1. cmd'[c] = cmd[c]
        BY <2>2, <2>5 DEF Outdated
      <3>2. cache'.checked = cache.checked
        BY <1>1, <1>4, <2>5 DEF Execute, Caches
      <3> QED BY <1>2, <3>1, <3>2
    <2> QED BY <2>4, <2>5
  <1>5. ASSUME NEW u \in Updaters, UpdaterStep(u) \/ UpdaterFault(u) \/ StartUpdate(u) \/ KillUpdater(u)
        PROVE  cmd' = cmd /\ cache'.checked = cache.checked
    <2>1. UNCHANGED cmd
      BY <1>5
         DEF UpdaterStep, UpdaterFault, Fetch, Store, ReadRow, MakeLock, Steal, PutBack, RetakeLock,
             Busy, Release, Claim, ReadNotes, Resolve, Download, Backup, Swap, SmokeAgain, Restore,
             Report, Warn, FetchFails, NotesFail, DownloadFails, AttestationGap, BackupFails,
             SwapFails, SmokeAgainFails, StartUpdate, KillUpdater, LeaveLine
    <2>2. CASE UNCHANGED cache
      BY <2>1, <2>2
    <2>3. CASE Store(u) \/ Claim(u)
      BY <1>1, <2>1, <2>3 DEF Store, Claim, Caches
    <2>4. CASE Busy(u) \/ ReadNotes(u) \/ NotesFail(u) \/ AttestationGap(u)
      BY <1>1, <2>1, <2>4 DEF Busy, ReadNotes, NotesFail, AttestationGap, Hold, Caches
    <2>5. CASE Report(u) \/ Warn(u)
      BY <1>1, <2>1, <2>5 DEF Report, Warn, LeaveLine, Caches
    <2> QED BY <1>5, <2>2, <2>3, <2>4, <2>5
            DEF UpdaterStep, UpdaterFault, Fetch, ReadRow, MakeLock, Steal, PutBack, RetakeLock,
                Release, Resolve, Download, Backup, Swap, SmokeAgain, Restore, FetchFails,
                DownloadFails, BackupFails, SwapFails, SmokeAgainFails, StartUpdate, KillUpdater
  <1>6. ASSUME HourPasses \/ DayPasses PROVE FALSE
    BY <1>1, <1>6 DEF HourPasses, DayPasses, Pauses
  <1>7. CASE Publish \/ UNCHANGED vars
    BY <1>2, <1>7 DEF Publish, vars
  <1> QED BY <1>2, <1>3, <1>4, <1>5, <1>6, <1>7 DEF Next

LEMMA OneStartStep ==
  ASSUME TypeOK, PlanInv, [Next]_vars,
         NEW u \in Updaters, job[u] = NoJob, job'[u].at = "refresh"
  PROVE  cache.checked # "fresh"
  <1>1. job \in [Updaters -> Jobs] /\ NoJob.at = "off"
    BY DEF TypeOK, NoJob
  <1>2. ASSUME NEW c \in Commands, NEW acts \in BOOLEAN, Execute(c, acts)
        PROVE  cache.checked # "fresh"
    <2>1. job' # job
      BY <1>1
    <2>2. MayClaim(cmd[c]) /\ cmd[c].at = "planned"
      BY <1>2, <2>1 DEF Execute
    <2> QED BY <2>2 DEF PlanInv
  <1>3. ASSUME NEW w \in Updaters, StartUpdate(w) \/ KillUpdater(w) PROVE FALSE
    <2>1. [NoJob EXCEPT !.at = "lock", !.kind = "manual", !.ver = target].at = "lock"
      BY DEF NoJob
    <2> QED BY <1>1, <1>3, <2>1 DEF StartUpdate, KillUpdater
  <1>4. ASSUME NEW w \in Updaters, UpdaterStep(w) \/ UpdaterFault(w) PROVE FALSE
    <2>1. job[w].at # "off" /\ \A v \in Updaters \ {w} : job'[v] = job[v]
      BY <1>1, <1>4
         DEF UpdaterStep, UpdaterFault, Fetch, Store, ReadRow, MakeLock, Steal, PutBack, RetakeLock,
             Busy, Release, Claim, ReadNotes, Resolve, Download, Backup, Swap, SmokeAgain, Restore,
             Report, Warn, FetchFails, NotesFail, DownloadFails, AttestationGap, BackupFails,
             SwapFails, SmokeAgainFails, TakeLock, LeaveLine, Goes, Quits
    <2> QED BY <1>1, <2>1
  <1>5. CASE Publish \/ HourPasses \/ DayPasses \/ UNCHANGED vars \/ \E c \in Commands : StartCommand(c)
    BY <1>1, <1>5 DEF Publish, HourPasses, DayPasses, StartCommand, vars
  <1> QED BY <1>2, <1>3, <1>4, <1>5 DEF Next

\* While an attempt counts as running no command starts another process, for
\* any number of commands that planned from the same row: the claim in
\* `execute` compares the row with the one the plan saw.
THEOREM NoSecondStart == Spec => OneStartAtATime
  <1>1. Init => PlanInv
    BY DEF Init, PlanInv, NoCommand
  <1>2. TypeOK /\ PlanInv /\ [Next]_vars => PlanInv'
    BY PlanStep
  <1>3. TypeOK /\ PlanInv /\ [Next]_vars
        => [\A u \in Updaters : job[u] = NoJob /\ job'[u].at = "refresh"
                                => cache.checked # "fresh"]_vars
    BY OneStartStep
  <1> QED BY <1>1, <1>2, <1>3, TypeInit, TypeStep, PTL DEF Spec, OneStartAtATime
=============================================================================
