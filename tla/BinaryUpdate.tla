---------------------------- MODULE BinaryUpdate ----------------------------
(***************************************************************************)
(* How playbook learns of a release and replaces its own binary.  Every    *)
(* command looks at a cached check result and may start a detached process *)
(* that refreshes it and, in mode `auto`, installs the release; a person   *)
(* may run `playbook update` at the same time.  Updaters share a lock      *)
(* folder without an owner, which is taken away once it is old, and all of *)
(* them rewrite the same binary and the same backups.                      *)
(*                                                                         *)
(* A step is one transaction on the cache, one file-system call or one     *)
(* call to the outside.  A process can be killed between any two steps,    *)
(* calls fail, and a process can be so slow that hours pass.  The bytes of *)
(* a binary are its version.  Time is what the code compares: whether a    *)
(* stamp is younger than the limits of an hour or less (the start of an    *)
(* attempt, the lock, the release, a short hold), or than a day.           *)
(***************************************************************************)
EXTENDS Integers, Sequences

CONSTANTS
    Commands,     \* processes that run a playbook command
    Terminals,    \* those of them that have a terminal
    Updaters,     \* processes that run `update` or `update --refresh-check`
    MaxVersion,   \* releases are 1 .. MaxVersion; 0 is installed first
    Bad,          \* releases whose binary does not run
    Breaking,     \* releases whose notes name a breaking change
    Modes,        \* values of update.mode
    KeepBackups,  \* KEEP_BACKUPS (3)
    MaxTrouble    \* bound on kills, failed calls, slow processes and updates
                  \* by hand

Versions == 0 .. MaxVersion

ASSUME UpdateAssumption ==
    /\ MaxVersion \in Nat \ {0}
    /\ Bad \cup Breaking \subseteq 1 .. MaxVersion
    /\ Modes \subseteq {"off", "notify", "auto"}
    /\ KeepBackups \in Nat \ {0}
    /\ Terminals \subseteq Commands
    /\ MaxTrouble \in Nat

VARIABLES
    newest,    \* the newest release
    young,     \* whether it is less than an hour old
    mode,      \* update.mode
    cache,     \* the row update-check/cache
    target,    \* the installed binary
    baks,      \* its backups, newest first: name and bytes
    lock,      \* update.lock: dir, old
    cmd,       \* every command: its plan
    job,       \* every updater
    told,      \* history: versions a person was told of
    trouble    \* counts kills, failed calls, slow processes and updates by hand

vars == <<newest, young, mode, cache, target, baks, lock, cmd, job, told,
          trouble>>

world == <<newest, young, mode>>
disk == <<target, baks>>

NoCommand == [at |-> "off"]
NoJob == [at |-> "off", kind |-> "none", ver |-> 0, want |-> 0, tried |-> FALSE,
          bak |-> {}]
NoHold == [version |-> 0, for |-> "none"]
NoLock == [dir |-> FALSE, old |-> FALSE]

Trouble == trouble < MaxTrouble /\ trouble' = trouble + 1

(***************************************************************************)
(* The check at the start of a command: on_start(), plan() and execute().  *)
(***************************************************************************)

\* hold_reason(), for an install that can update itself.
Held(v) == (v = newest /\ young) \/ cache.held.version = v

\* plan(): what a command of version v does, at a terminal or not.
Plan(v, tty) ==
    LET auto   == mode = "auto"
        latest == cache.latest
        newer  == latest > v
        free   == auto /\ newer /\ ~Held(latest)
        quiet  == free /\ (cache.checked = "fresh" \/ cache.tried = latest)
        apply  == free /\ ~quiet /\ cache.spawned # latest
        notice == newer /\ ~quiet /\ ~apply /\ tty /\ cache.notified # latest
    IN  [at      |-> "planned",
         refresh |-> cache.checked = "old",
         apply   |-> IF apply THEN latest ELSE 0,
         notice  |-> IF notice THEN latest ELSE 0,
         report  |-> tty /\ cache.report # {},
         same    |-> TRUE]

Empty(p) == ~p.refresh /\ p.apply = 0 /\ p.notice = 0 /\ ~p.report

\* Without a terminal only mode auto acts; a plan with nothing to do ends here.
StartCommand(c) ==
    LET plan == Plan(target, c \in Terminals)
    IN  /\ cmd[c] = NoCommand
        /\ mode # "off" /\ (c \in Terminals \/ mode = "auto")
        /\ ~Empty(plan)
        /\ cmd' = [cmd EXCEPT ![c] = plan]
        /\ UNCHANGED <<world, cache, disk, lock, job, told, trouble>>

\* Mutated form of MayClaim: the row is not compared with the one the plan saw.
MayClaimAnyway(p) == p.refresh \/ p.apply # 0

\* The start is claimed only if nobody claimed one since the plan was made.
MayClaim(p) == (p.refresh \/ p.apply # 0) /\ p.same

\* A claim dates the row, so plans made before it no longer match.
Outdated(c, claimed) ==
    [d \in Commands |->
        IF claimed /\ d # c /\ cmd[d].at = "planned"
        THEN [cmd[d] EXCEPT !.same = FALSE] ELSE cmd[d]]

\* execute(): every action is claimed in one transaction and then carried out:
\* the process is started and the lines are printed, unless the command is
\* killed in between.
Execute(c, acts) ==
    LET p     == cmd[c]
        claim == MayClaim(p)
        shows == p.notice # 0 /\ cache.notified # p.notice
        lines == (IF shows THEN {p.notice} ELSE {}) \cup
                 (IF p.report THEN {l[2] : l \in cache.report} ELSE {})
    IN  /\ p.at = "planned"
        /\ cache' = [cache EXCEPT
               !.checked  = IF claim THEN "fresh" ELSE @,
               !.spawned  = IF claim /\ p.apply # 0 THEN p.apply ELSE @,
               !.notified = IF shows THEN p.notice ELSE @,
               !.report   = IF p.report THEN {} ELSE @]
        /\ cmd' = [Outdated(c, claim) EXCEPT ![c] = NoCommand]
        /\ told' = IF acts THEN told \cup lines ELSE told
        /\ IF acts /\ claim
           THEN \E u \in Updaters :
                   /\ job[u] = NoJob
                   /\ job' = [job EXCEPT ![u] = [NoJob EXCEPT !.at = "refresh",
                                                   !.kind = "auto", !.ver = target]]
           ELSE UNCHANGED job
        /\ IF acts THEN UNCHANGED trouble ELSE Trouble
        /\ UNCHANGED <<world, disk, lock>>

(***************************************************************************)
(* The detached process up to the lock: refresh() and apply().             *)
(***************************************************************************)

Goes(u, from, to) ==
    /\ job[u].at = from
    /\ job' = [job EXCEPT ![u].at = to]

Quits(u, from) ==
    /\ job[u].at = from
    /\ job' = [job EXCEPT ![u] = NoJob]

\* The release list arrives; it is stored in a later transaction.
Fetch(u) ==
    /\ job[u].at = "refresh"
    /\ job' = [job EXCEPT ![u].at = "store", ![u].want = newest]
    /\ UNCHANGED <<world, cache, disk, lock, cmd, told, trouble>>

\* A failed refresh stops there, so an offline machine stays silent.
FetchFails(u) ==
    /\ Quits(u, "refresh")
    /\ Trouble
    /\ UNCHANGED <<world, cache, disk, lock, cmd, told>>

Store(u) ==
    /\ Goes(u, "store", "apply")
    /\ cache' = [cache EXCEPT !.latest = job[u].want]
    /\ UNCHANGED <<world, disk, lock, cmd, told, trouble>>

\* apply() reads the row once; what it saw decides until the claim.
ReadRow(u) ==
    /\ IF mode = "auto" /\ cache.latest > job[u].ver /\ ~Held(cache.latest)
       THEN /\ job[u].at = "apply"
            /\ job' = [job EXCEPT ![u].at = "lock", ![u].want = cache.latest,
                                   ![u].tried = (cache.tried = cache.latest)]
       ELSE Quits(u, "apply")
    /\ UNCHANGED <<world, cache, disk, lock, cmd, told, trouble>>

\* A person runs `playbook update`.
StartUpdate(u) ==
    /\ job[u] = NoJob
    /\ Trouble
    /\ job' = [job EXCEPT ![u] = [NoJob EXCEPT !.at = "lock", !.kind = "manual",
                                               !.ver = target]]
    /\ UNCHANGED <<world, cache, disk, lock, cmd, told>>

(***************************************************************************)
(* The lock: try_lock() and acquire_dir_lock_aged().                       *)
(***************************************************************************)

AfterLock(u) == IF job[u].kind = "auto" THEN "claim" ELSE "resolve"

TakeLock(u, from, otherwise) ==
    IF lock.dir
    THEN Goes(u, from, otherwise) /\ UNCHANGED lock
    ELSE Goes(u, from, AfterLock(u)) /\ lock' = [dir |-> TRUE, old |-> FALSE]

MakeLock(u) ==
    /\ TakeLock(u, "lock", IF lock.old THEN "steal" ELSE "retake")
    /\ UNCHANGED <<world, cache, disk, cmd, told, trouble>>

\* remove_stale_lock_dir(): whatever lock is there by now is renamed away; one
\* that turns out to be fresh is put back.
Steal(u) ==
    /\ Goes(u, "steal", IF lock.dir /\ ~lock.old THEN "putback" ELSE "retake")
    /\ lock' = NoLock
    /\ UNCHANGED <<world, cache, disk, cmd, told, trouble>>

\* The rename back replaces an empty folder that was made meanwhile.
PutBack(u) ==
    /\ Goes(u, "putback", "retake")
    /\ lock' = [dir |-> TRUE, old |-> FALSE]
    /\ UNCHANGED <<world, cache, disk, cmd, told, trouble>>

RetakeLock(u) ==
    /\ TakeLock(u, "retake", "busy")
    /\ UNCHANGED <<world, cache, disk, cmd, told, trouble>>

Hold(v, for) == cache' = [cache EXCEPT !.held = [version |-> v, for |-> for]]

\* A manual update gives up; auto holds the release for an hour, unless the row
\* it read says that another auto update is at this version.
Busy(u) ==
    /\ Quits(u, "busy")
    /\ IF job[u].kind = "auto" /\ ~job[u].tried
       THEN Hold(job[u].want, "hour") ELSE UNCHANGED cache
    /\ UNCHANGED <<world, disk, lock, cmd, told, trouble>>

\* The folder has no owner: whichever is there is removed.
Unlock == NoLock

Release(u) ==
    /\ Quits(u, "release")
    /\ lock' = Unlock
    /\ UNCHANGED <<world, cache, disk, cmd, told, trouble>>

(***************************************************************************)
(* The update itself: apply(), run() and install().                        *)
(***************************************************************************)

\* Mutated form of Claims: a version that was claimed is never free again.
ClaimsNewer(v) == v > cache.latest

\* One version is tried at most once a day.
Claims(v) == cache.tried # v

Claim(u) ==
    /\ IF Claims(job[u].want)
       THEN /\ Goes(u, "claim", "notes")
            /\ cache' = [cache EXCEPT !.tried = job[u].want]
       ELSE Goes(u, "claim", "release") /\ UNCHANGED cache
    /\ UNCHANGED <<world, disk, lock, cmd, told, trouble>>

\* The release's notes name the release before it.  A breaking change needs the
\* person, and so do releases in between whose notes nobody read.
NeedsPerson(v, from) == v \in Breaking \/ v - 1 > from

ReadNotes(u) ==
    /\ IF NeedsPerson(job[u].want, job[u].ver)
       THEN Goes(u, "notes", "release") /\ Hold(job[u].want, "ever")
       ELSE Goes(u, "notes", "download") /\ UNCHANGED cache
    /\ UNCHANGED <<world, disk, lock, cmd, told, trouble>>

NotesFail(u) ==
    /\ Goes(u, "notes", "release")
    /\ Trouble
    /\ Hold(job[u].want, "day")
    /\ UNCHANGED <<world, disk, lock, cmd, told>>

\* A manual update asks for the newest release itself.  (That it cannot has the
\* outcome of a download that fails.)
Resolve(u) ==
    /\ job[u].at = "resolve"
    /\ job' = [job EXCEPT ![u].at = IF newest > job[u].ver THEN "download" ELSE "release",
                           ![u].want = newest]
    /\ UNCHANGED <<world, cache, disk, lock, cmd, told, trouble>>

\* Where an update that failed goes on: auto leaves a warning in the cache.
Failed(u) == IF job[u].kind = "auto" THEN "warn" ELSE "release"

\* Mutated form of StageRuns: the staged binary is not tried.
StageUntried(v) == TRUE

StageRuns(v) == v \notin Bad

\* The binary is downloaded, checked and written to a file of its own, which is
\* run before anything is changed.
Download(u) ==
    /\ Goes(u, "download", IF StageRuns(job[u].want) THEN "backup" ELSE Failed(u))
    /\ UNCHANGED <<world, cache, disk, lock, cmd, told, trouble>>

DownloadFails(u) ==
    /\ Goes(u, "download", Failed(u))
    /\ Trouble
    /\ UNCHANGED <<world, cache, disk, lock, cmd, told>>

\* With nobody there, an attestation that cannot be checked holds the release.
AttestationGap(u) ==
    /\ job[u].kind = "auto"
    /\ Goes(u, "download", "release")
    /\ Trouble
    /\ Hold(job[u].want, "day")
    /\ UNCHANGED <<world, disk, lock, cmd, told>>

HasBackup(v) == \E k \in DOMAIN baks : baks[k][1] = v

Keep(s) == SubSeq(s, 1, IF Len(s) < KeepBackups THEN Len(s) ELSE KeepBackups)

\* backup(): named after the version of this process, unless the bytes are the
\* same or that name is taken; the newest are kept.
Backup(u) ==
    LET v == job[u].ver
    IN  /\ job[u].at = "backup"
        /\ job' = [job EXCEPT ![u].at = "swap",
                               ![u].bak = IF target = job[u].want THEN {} ELSE {v}]
        /\ baks' = IF target = job[u].want \/ HasBackup(v)
                   THEN baks ELSE Keep(<<<<v, target>>>> \o baks)
        /\ UNCHANGED <<world, cache, target, lock, cmd, told, trouble>>

\* Not fatal: the update goes on without a backup.
BackupFails(u) ==
    /\ target # job[u].want /\ ~HasBackup(job[u].ver)
    /\ Goes(u, "backup", "swap")
    /\ Trouble
    /\ UNCHANGED <<world, cache, disk, lock, cmd, told>>

Swap(u) ==
    /\ Goes(u, "swap", "again")
    /\ target' = job[u].want
    /\ UNCHANGED <<world, cache, baks, lock, cmd, told, trouble>>

SwapFails(u) ==
    /\ Goes(u, "swap", Failed(u))
    /\ Trouble
    /\ UNCHANGED <<world, cache, disk, lock, cmd, told>>

\* The installed binary is run again: it must report the version just swapped in.
SmokeAgain(u) ==
    /\ Goes(u, "again",
            IF target # job[u].want THEN "restore"
            ELSE IF job[u].kind = "auto" THEN "report" ELSE "release")
    /\ UNCHANGED <<world, cache, disk, lock, cmd, told, trouble>>

SmokeAgainFails(u) ==
    /\ Goes(u, "again", "restore")
    /\ Trouble
    /\ UNCHANGED <<world, cache, disk, lock, cmd, told>>

\* restore(): the backup, if there is one and it is still kept.
Restore(u) ==
    /\ Goes(u, "restore", Failed(u))
    /\ LET kept == {k \in DOMAIN baks : baks[k][1] \in job[u].bak}
       IN  IF kept = {} THEN UNCHANGED target ELSE \E k \in kept : target' = baks[k][2]
    /\ UNCHANGED <<world, cache, baks, lock, cmd, told, trouble>>

\* The report for the next command at a terminal.  An earlier warning about this
\* version is replaced.
LeaveLine(u, from, what) ==
    /\ Goes(u, from, "release")
    /\ cache' = [cache EXCEPT !.report =
                    (@ \ {<<"warning", job[u].want>>}) \cup {<<what, job[u].want>>}]
    /\ UNCHANGED <<world, disk, lock, cmd, told, trouble>>

Report(u) == LeaveLine(u, "report", "updated")

\* Mutated form of Warn: the failure is not reported.
WarnNot(u) ==
    /\ Goes(u, "warn", "release")
    /\ UNCHANGED <<world, cache, disk, lock, cmd, told, trouble>>

Warn(u) == LeaveLine(u, "warn", "warning")

UpdaterStep(u) ==
    \/ Fetch(u) \/ Store(u) \/ ReadRow(u)
    \/ MakeLock(u) \/ Steal(u) \/ PutBack(u) \/ RetakeLock(u) \/ Busy(u) \/ Release(u)
    \/ Claim(u) \/ ReadNotes(u) \/ Resolve(u) \/ Download(u)
    \/ Backup(u) \/ Swap(u) \/ SmokeAgain(u) \/ Restore(u) \/ Report(u) \/ Warn(u)

UpdaterFault(u) ==
    \/ FetchFails(u) \/ NotesFail(u) \/ DownloadFails(u) \/ AttestationGap(u)
    \/ BackupFails(u) \/ SwapFails(u) \/ SmokeAgainFails(u)

(***************************************************************************)
(* Releases, kills and time.                                               *)
(***************************************************************************)

Publish ==
    /\ newest < MaxVersion
    /\ newest' = newest + 1
    /\ young' = TRUE
    /\ UNCHANGED <<mode, cache, disk, lock, cmd, job, told, trouble>>

\* The lock folder stays.
KillUpdater(u) ==
    /\ job[u] # NoJob
    /\ Trouble
    /\ job' = [job EXCEPT ![u] = NoJob]
    /\ UNCHANGED <<world, cache, disk, lock, cmd, told>>

\* Time passes between processes, or during an updater that is slow; a command
\* goes from its plan to the transaction without delay.
Pauses ==
    /\ \A c \in Commands : cmd[c] = NoCommand
    /\ IF \A u \in Updaters : job[u] = NoJob THEN UNCHANGED trouble ELSE Trouble

\* An attempt no longer counts as running, the lock is old, the release is not
\* young any more, and a short hold is over.
HourPasses ==
    /\ Pauses
    /\ cache' = [cache EXCEPT
           !.checked = IF @ = "fresh" THEN "today" ELSE @,
           !.held    = IF @.for = "hour" THEN NoHold ELSE @]
    /\ lock' = [lock EXCEPT !.old = lock.dir]
    /\ young' = FALSE
    /\ <<cache', lock', young'>> # <<cache, lock, young>>
    /\ UNCHANGED <<newest, mode, disk, cmd, job, told>>

\* Every stamp and every hold of a day is over too; those of one day end together.
DayPasses ==
    /\ Pauses
    /\ cache' = [cache EXCEPT
           !.checked = "old", !.tried = 0, !.spawned = 0, !.notified = 0,
           !.held    = IF @.for \in {"hour", "day"} THEN NoHold ELSE @]
    /\ lock' = [lock EXCEPT !.old = lock.dir]
    /\ young' = FALSE
    /\ <<cache', lock', young'>> # <<cache, lock, young>>
    /\ UNCHANGED <<newest, mode, disk, cmd, job, told>>

\* A fresh check cache; an updater that was killed may have left its lock.
Init ==
    /\ newest = 0 /\ young = FALSE
    /\ mode \in Modes
    /\ cache = [latest |-> 0, checked |-> "old", tried |-> 0, spawned |-> 0,
                notified |-> 0, held |-> NoHold, report |-> {}]
    /\ target = 0
    /\ baks = <<>>
    /\ lock \in {NoLock, [dir |-> TRUE, old |-> TRUE]}
    /\ cmd = [c \in Commands |-> NoCommand]
    /\ job = [u \in Updaters |-> NoJob]
    /\ told = {}
    /\ trouble = 0

Next ==
    \/ \E c \in Commands : \/ StartCommand(c)
                           \/ \E acts \in BOOLEAN : Execute(c, acts)
    \/ \E u \in Updaters : \/ StartUpdate(u) \/ UpdaterStep(u) \/ UpdaterFault(u)
                           \/ KillUpdater(u)
    \/ Publish \/ HourPasses \/ DayPasses

\* Commands at a terminal keep being run, a process that has begun goes on
\* (every call has a time limit), and days pass.  Nobody owes a manual update.
Fairness ==
    /\ \A c \in Terminals : SF_vars(StartCommand(c))
    /\ \A c \in Commands : WF_vars(Execute(c, TRUE))
    /\ \A u \in Updaters : WF_vars(UpdaterStep(u))
    /\ SF_vars(DayPasses)

Spec == Init /\ [][Next]_vars /\ Fairness

(***************************************************************************)
(* Properties.                                                             *)
(***************************************************************************)

\* The installed binary and every backup of it run, at every moment: wherever
\* updaters are killed, however their swaps and roll-backs overlap when the
\* lock is taken over or removed by a process that no longer holds it (install
\* and restore; "a bad staged binary leaves `target` untouched").
AlwaysRuns ==
    /\ target \notin Bad
    /\ \A k \in DOMAIN baks : baks[k][2] \notin Bad

\* While an attempt counts as running no command starts another process, also
\* when both planned to from the same row ("of two commands that start together
\* only one spawns the detached process").
OneStartAtATime ==
    [][ \A u \in Updaters : job[u] = NoJob /\ job'[u].at = "refresh"
                           => cache.checked # "fresh" ]_vars

\* A release does not go unnoticed: in the end it is installed, or a person at
\* a terminal is told of it, or a newer one takes its place, whatever was
\* killed, failed or held back before.
NewsGetsOut ==
    mode # "off" =>
        \A v \in 1 .. MaxVersion :
            newest = v ~> (v \in told \/ target = v \/ newest > v)

\* Mode auto stays current: a release that runs is installed in the end, or held
\* because its notes ask for a person, also after attempts that failed, were
\* killed or left their lock behind.
StaysCurrent ==
    mode = "auto" =>
        \A v \in (1 .. MaxVersion) \ Bad :
            newest = v ~> \/ target = v \/ newest > v
                          \/ cache.held = [version |-> v, for |-> "ever"]
=============================================================================
