# A TLA+ model of playbook

playbook is a set of Rust programs that sit beside a coding agent: a command
line tool with hooks, reviews, worktrees, updates and clean-up; a usage
database with a collector daemon; a sync of that usage between machines; and a
*watch mode* that polls GitHub and carries out actions, some of them unattended
and some of them with a model that edits code.  This directory holds TLA+
modules for the parts whose correctness depends on the order of steps of
several processes, on kills, on lost answers and on clocks.

Five areas are modelled.  The watch queue (`crates/cli/src/watch`, decision
record `docs/adr/0055-watch-mode-for-github-events.md`) acts on the outside world
with nobody looking and spends money, and its poller feeds it.  The usage sync
(`crates/pbsync`, `docs/adr/0061-opt-in-usage-sync.md`) joins several machines
over one remote database, where a mistake loses usage silently or sends what a
person has withdrawn.  The collector (`crates/telemetry`), from its start beside
others to the threads inside it, records that usage.  Garbage collection
(`cli/src/gc`) deletes a person's files, and the updater (`cli/src/update`)
replaces the program that everything else runs in.

## 1. Inventory

| part | state | operations | who shares it | what is hard |
|---|---|---|---|---|
| watch queue and engine (`watch/engine.rs`, `store.rs`, `cycle.rs`, `lock.rs`) | `watch.db`: work rows, seen keys, journal, day counters, `acted`, `control.paused`; `watch.lock` | recover, ingest, redecide, run_approved, run, finish, fail | the loop or a timer's `watch once`, and any number of `approve`, `reject`, `retry`, `pause`, `status` | two processes on one item, kills, writes whose answer is lost |
| watch actions (`watch/address.rs`, `review.rs`, `merge.rs`, `action.rs`, `claude.rs`, `code.rs`, `gh.rs`) | GitHub, git worktrees and branches | the seven actions of a rule's `do` | the holder of `watch.lock` | doing each one once, charging what a model cost |
| watch limits (`watch/limits.rs`, `backoff.rs`, `rule.rs`) | none | level, caps, trust ladder, backoff | the engine | boundaries, a change of UTC day |
| watch pollers (`watch/github.rs`, `http.rs`, `source.rs`) | cursors, ETags, rate limit waits | poll, page, retry | the loop | inclusive `since`, moving pages |
| usage sync (`crates/pbsync`) | local rows, watermarks, cursors, salt, `sync.json`; a shared remote database | enable, disable, sync (push, pull), purge | several machines, and a timer beside a person's commands on one | stale settings, purge beside a push, rows that arrive behind a cursor |
| collector daemon (`telemetry/src/daemon.rs`, `collector.rs`) | `collector.lock` with its holder line, `collector.json`, the port, the stamp `collector.spawned` | ensure, spawn, stop, retire, start, end | every command and hook that looks for it | files read at different moments, hung and crashed collectors, a version that replaces another |
| telemetry receiver and writer (`telemetry/src/receiver.rs`, `writer.rs`) | stop flag, bounded channel, thread count, the usage database | accept, dispatch, commit, halt, close | main thread, connection threads, writer, watchdog, monitor | a wake-up that is lost, a writer that dies with jobs queued |
| garbage collection (`cli/src/gc`) | originals, tombstones, staging folders, the index, `gc.lock` with a token | move, reconcile, expire, compact, restore | a background run, a person, and the programs that write the items | kills between renames and records, a lock taken from a slow run |
| binary update (`cli/src/update`, `common/src/atomic.rs`) | the installed binary, its backups, the cached check, `update.lock` | plan, start, refresh, claim, stage, swap, roll back, report | commands, detached updaters, a person | kills in the swap, a lock folder without an owner |
| data migrations (`crates/data`, `cli/src/heal.rs`) | version stamp, migrated files | migrate, heal | every command | two at once, a kill between steps |
| code index (`crates/code`) | a SQLite index shared by worktrees | index, search | several worktrees | concurrent indexers |
| review gate (`cli/src/gate`) | records of reviewed trees | record, check | hooks and commands | a tree that changed after its record |
| hooks, memory, config, init, doctor, pr, deliver, worktree, sessions, handoff, pbdoc, plugin-checks | files | mostly one-shot text work | one process | little that is concurrent |

`PROJECT.json` lists every part with its status, and every hazard with its line.

### What makes the watch queue correct

* An action that can be recognised on GitHub is written at most once per item.
* A merge, a review or a code edit needs a person's approval, also after a
  retry, a recovery and a change of settings.
* A pause lets the action in flight finish and no other start.
* Caps, cooldown and trust ladder bound what a rule does on its own.
* What the model costs stays within the day's budget.
* A finished item stays finished.
* An approved or interrupted item does not wait for ever.

### What makes the other parts correct

* Poller: an object that matches is queued or knowingly passed over, whatever
  fails; old history is never taken in; GitHub is asked no more often than it says.
* Usage sync: no row comes to lie behind a cursor; what the watermark has passed
  is at the remote, for the accounts on the list; a purge leaves nothing; rows
  hashed with a replaced salt do not go unnoticed.
* Collector: a serving collector can be found through its files; nobody who
  holds the lock is killed as one that knows none; one of the installed version
  comes back.
* Receiver: what is answered 200 is stored; nothing the channel took is left
  undecided; a stop ends the process; nobody waits for ever.
* Garbage collection: no version of a file is lost before its grace period ends;
  everything held is in the index; no move stays `pending`.
* Update: the installed binary and its backups run at every moment; a release is
  installed or reported in the end.

## 2. Modules

| module | models |
|---|---|
| `WatchLimits` | `limits.rs`, `backoff.rs` and the levels of `rule.rs`: pure operators |
| `WatchQueue` | the queue, the pass, the actions, recovery, the commands, the environment; its properties and inductive invariants |
| `WatchItem` | the abstract specification: the life of one item as the decision record draws it |
| `WatchRefinement` | `WatchQueue` with the refinement mapping to `WatchItem` |
| `WatchPoll` | one GitHub source: pages, cursor, ETag, waits, and the ingest of what a poll found |
| `UsageSync` | `pbsync`: enable, disable, push, pull, sync and purge on several machines, the remote, and the collector as far as it records rows |
| `Collector` | the collector processes and the commands that find, start, replace and stop them |
| `Receiver` | the threads inside one serving collector |
| `Tombstones` | runs of gc on one item, its index and its lock, and the programs that write the item |
| `BinaryUpdate` | the check at the start of a command, the updaters, the binary and its backups |
| `WatchQueueProofs` | type correctness of the queue |
| `WatchSafetyProofs` | the inductive invariants of the queue, its safety theorems, and that it implements `WatchItem` |
| `ReceiverProofs` | the inductive invariants of the receiver, its safety theorems and its type correctness |
| `CollectorProofs` | type correctness of the collectors, their inductive invariant and the two safety theorems |
| `WatchPollProofs` | type correctness of the poller, its inductive invariants, and that no event is lost, no old history taken in, no wait cut short |
| `BinaryUpdateProofs` | type correctness of the updater, and that what is installed runs and one updater is started at a time |
| `UsageSyncProofs` | type correctness of the sync, and the inductive invariants of its four safety theorems |
| `TombstonesProofs` | type correctness of gc, and the inductive invariants behind its three safety theorems |
| `MC...` | values for the constants of the TLC runs |

Three pairs meet.  `WatchPoll` ends where its events are queued, which is where
`WatchQueue` begins (`Ingest`); `Collector` treats as one state, `serving`, what
`Receiver` opens up, and what `Receiver` stores is what `UsageSync` sends.  They are
not composed: each pair shares one fact (an event is queued, the process ended, a
row exists), and the product of their states would add nothing about it.

### State of WatchQueue

| variables | in the program |
|---|---|
| `work`, `journal`, `actions`, `usd`, `acted`, `paused` | the tables of `watch.db`; a row `unseen` has no key in `seen` yet |
| `enabled`, `setting` | `watch.enabled`, and the rules with their level already lowered to the ceiling of the config tiers |
| `lock` | the holder of `watch.lock`, freed by the operating system when a process ends |
| `pc`, `item`, `row`, `todo`, `cfg`, `out`, `bill` | local variables of one process: the item and the row it read, the ids a pass has listed, the rules it loaded, the result of the try, the cost |
| `posted`, `branch`, `worktree`, `now` | GitHub, the git remote, the disk, the clock |
| `spent`, `touched`, `late`, `crashes`, `lost` | observers: no guard of the program reads them, except that the last two bound the kills and lost answers |

One step is one database transaction or one call to the outside world.  Between
two steps any other process may run and the process may be killed.  A call may
fail; a write may also fail *after* its effect, which is how a timeout looks.

`StartPass` to `EndPass` are `cycle()`, `Begin` is the head of `run()`, the
`Perform...` actions are the arms of `perform()` up to their effect, `Write` is
that effect, `Checkout` to `Clear` the rest of `address()`, and `Settle` the one
transaction that ends a try (`finish`, `set` or `fail`).  Each command is a read
and a later write, because the code reads the row outside the transaction that
writes it.

What is abstracted: texts, prompts, label names and argument lists; which of
several reasons made an object unfit (closed, fork, edited, conflict) is one
nondeterministic `PerformStop`; one repository; events of a poll are ingested
one at a time, which includes every prefix a batch could commit and more;
money is whole cents.

### State of UsageSync

| variables | in the program |
|---|---|
| `size`, `stamp` | `usage_events` of each machine: output tokens, which only grow, and the timestamp |
| `conf` | `sync.json`: `enabled`, `accounts`, `reset_watermark` |
| `salt`, `mark`, `copy`, `cursor` | `sync_state.salt`, `sync_watermarks`, `usage_events_remote`, `sync_cursors` |
| `remote`, `rsalt` | `shared_usage_events` (tokens, `pushed_at`, and the salt its hashes were made with) and `shared_meta.salt` |
| `pc`, `what`, `load`, `hash`, `start`, `wm`, `pos`, `todo`, `from`, `at`, `page` | local variables of one command: its kind, the settings it read, the salt, the clock it read, and its place in the push or the pull |
| `purged`, `blind`, `unfinished` | observers: machines purged, machines that purged one account after their salt was replaced, machines whose rows a purge removed without clearing the watermark |

One step is one local statement or transaction, one access to `sync.json`, or one
pipeline to the remote.  Reading a batch and sending it are one step: a row that
grows in between is as if it grew afterwards.  A pipeline may fail, and it may
fail after its effect; the retries inside one call repeat statements that change
nothing the second time, so they are part of that call.

What is abstracted: a row is its rowid, its account, its tokens and its time; a
salted hash is the salt it was made with; a random salt is a number not used
before.  `last_error`, `failures` and `last_attempt` only decide whether an
unforced run ends at once, so a run that backs off is no step.  There is one
clock: a cursor compares times of one pushing machine only, so a constant
difference between machines changes nothing.  A disk error on `sync.json` or the
local database ends a command as a kill does.

Two assumptions on the surroundings are explicit.  `MaxPush + MaxPull < Window`:
one push and one pull together take less than the resend window (an hour).  It is
needed, not convenient: with no bound on the pull, TLC finds one that pauses
between two pages for as long as the window while a row arrives behind its
position, and then moves the cursor past that row.  And `Alone` names the commands a person starts only when nothing else of
`pbsync` runs on that machine.  The program does not check this, and section 3
says what happens without it.

### WatchItem and the refinement

`WatchItem` knows a status, a number of effects and a consent for each item, and
no process.  `WatchRefinement` maps a row to a status (`approved` and `running`
are `granted`), `posted` to the effects and the approval stamp to the consent, and
hides the lock, the journal, the counters, the clock and all local variables.
`KeepsItemPromise` is `WatchItem`'s specification under that mapping: every
transaction and every write of the queue is one step of the item's life or none.

### State of WatchPoll

| variables | in the program |
|---|---|
| `cursor`, `seen`, `audited` | the tables `cursor` and `seen`, the `stale` lines of the audit log |
| `pass` | local variables of `cycle()` and `poll()`: the page, what was found, the ETag |
| `created`, `updated`, `now` | GitHub's objects and the clock |
| `asked`, `staled`, `due`, `stops` | observers and a bound |

One step is one request or one transaction.  A list is ordered by the last update.  The
ETag a poll sends and keeps is that of its first page and stands for what that page
holds; a 304 to it ends the poll, whatever the later pages hold.  One source stands for each
of the three, because a failed one does not touch the others.  Parsing, the trust
filter and the text of an event are left out.

### State of Collector

| variables | in the program |
|---|---|
| `holder`, `line`, `json`, `port`, `stamp` | who holds `collector.lock`, the line in it, the pid in `collector.json`, who listens, and whether `collector.spawned` is young |
| `proc`, `version`, `hung`, `asked` | the collector processes, the version each runs, whether it still replies and whether it got the shutdown request |
| `at`, `kind`, `target` | a starter: its place in `ensure_with`, `stop_with` or `spawn`, what it is (a session start, a quick hook, `usage stop`) and the pid it read |

One step is one look at or write of a file, one request, one signal.  The holder
line is truncated and written in two steps.  The unit file of systemd and the
first set-up of port and token are left out.

### State of Receiver

| variables | in the program |
|---|---|
| `main`, `stream` | the main thread: `accept_loop`, `run`, `serve_with_writer`, the exit |
| `dog`, `monitor`, `writer` | the watchdog, the thread that joins the writer, the writer |
| `at` | each connection and the thread that serves it |
| `stop`, `live`, `jobs`, `queue`, `reply` | the fields of `Shared`, the channel and the reply channels |
| `batch`, `stored` | what the writer holds, and the database |
| `wakes` | connections made by `wake()`, in the backlog of the listener |
| `thanked`, `faults` | an observer and a bound |

One step is one access to something shared; a thread's own work is part of the
step before it.  The idle limit may pass at any moment.  HTTP parsing, tokens and
the rate limit only decide that a request is refused.  The tests' way to stop
`serve` from outside is left out: the collector passes a flag that nobody else sets.

### State of Tombstones

| variables | in the program |
|---|---|
| `src`, `dest`, `tmp` | the item's paths, its tombstone and its staging folder, a version number for each member |
| `index`, `old`, `past`, `ripe` | the last record of each id, and how old it is compared with the run lock's limit and the grace period |
| `lock` | the lock folder, its token, whether it is stale |
| `at`, `kind`, `plan`, `cur` | local variables of a run: `apply`, `restore` or `tombstone_now` |
| `layout` | which members lie on another filesystem, and where only `rename` says so |
| `sure` | runs that have seen their token in `verify()` and make the guarded call next |
| `live`, `version`, `slipped`, bounds | observers: the data that must not be lost, the last version written, and whether a run ever made a guarded call after it had lost the lock |

One step is one file-system call.  Where the code looks at the token and then makes the
call (`guard.rs:104-108`, `262-263`), the two are one step, or two: `Verify` puts the run
into `sure`, anything may happen, and the call is the run's next step, made without
another look.  What the code asks before `verify()`, such as whether the target exists
(`tombstone.rs:280`), is not asked again either (`Due`).  Only the removal of a run's own
staging folder (`Discard`) stays one step with its look, and reading the index and
rewriting it are one step.  A version number stands for the time of the last write; all
members have the same size.  Programs write and delete the item's paths at any moment
except in the windows `Guarded` names (`Racing = FALSE`), in which a run acts on what it
saw of the source some steps before: it removes a path it has measured, it puts a
tombstone back where nothing was, or it copies a group whose missing members it has
listed (a member created again after that, `tombstone.rs:310`, is copied and removed
although the record calls it missing).  A new item of the same id is only tombstoned when no run still
names that id.  The scan that finds what is due, log rotation and build
output are left out.

### State of BinaryUpdate

| variables | in the program |
|---|---|
| `cache` | the row `update-check/cache`: checked, latest, stamps, hold, report |
| `target`, `baks` | the installed binary and its backups, each with its name and what is in it |
| `lock` | the folder `update.lock` and whether it is old |
| `cmd`, `job` | the plan of a command, the local variables of an updater |
| `newest`, `young`, `mode` | GitHub's release, its age, `update.mode` |
| `told`, `trouble` | an observer and a bound |

One step is one transaction, one file-system call or one request.  Ages are what the
code compares: less than an hour, less than a day.  Left out are the helper
binaries, the heal after an update, pinned versions, a release without a time of
publication, Homebrew installs, and clocks that step back.

### Bounds

The clock stops at `MaxNow`; kills, lost answers, failed calls and slow processes
are bounded by `MaxCrashes`, `MaxLost`, `MaxFails`, `MaxSlow`, `MaxStops`,
`MaxFaults` and `MaxTrouble`; a failed try whose count passes `MAX_ATTEMPTS` keeps
`MAX_ATTEMPTS`, because the code only compares it.  The lengths of the code (a day,
3600 s of cooldown, ten approvals over 28 days, 500 items, pages of 100, a channel
of 256, three backups) are constants, set to 1, 2 or 3 in the runs so that each
boundary is met within a few steps.  The proofs do not depend on any of these values.

## 3. Runs

| run | instance | shows |
|---|---|---|
| `watch_core` | a comment rule and a merge rule that may be removed, two watchers, one person's command, a queue of one, a kill and a lost answer | `AtMostOnce`, `UnsafeNeedsPerson`, `PauseLetsOneFinish`, and that the queue implements `WatchItem` (`KeepsItemPromise`) |
| `watch_live` | one code edit, one watcher and one person, a kill and a lost answer | `TypeOK`, `ApprovedSettles`, `RunningSettles` |
| `watch_ladder` | two triage items of one rule on one object, a cap of one, a change of day, a kill, one command process | `LadderEarned`, `AutoWithinCap`, `CooldownHolds`, `DoneIsFinal` |
| `watch_money` | a review and a code edit with the day's money for one of them, a kill at any point | `SpendWithinCap` |
| `poll_cursor` | three objects of which one is edited, pages of two, failures, 304s, a kill, `--since`, a catch-up window | `NoEventLost`, `NoOldHistory`, `OncePerWait`, `EventuallyDealtWith` |
| `sync_pull` | two overlapping pushes on one machine, pulls on another, two rows in the opposite order of their event ids, one that grows, pages of one row | `TypeOK`, `NothingBehindCursor` |
| `sync_purge` | one machine with two accounts that enables with changing lists, syncs and purges itself or one account; another that disables and purges everything; a kill and a lost answer | `SentBehindMark`, `OldHashIsNoticed`, `PurgeLeavesNothing` |
| `collector` | three pids of two versions, one starter of the new version that is a session, a hook or a stop, two faults | `ServingIsRecorded`, `TermSparesHolders`, `ComesBack` |
| `receiver` | three requests (rows, rows or not OTLP, a shutdown or a refused one), two threads, a channel of one, batches of two, one fault | `OkIsStored`, `NothingLeftBehind`, `StopEnds`, `EveryoneAnswered` |
| `gc_crash` | an item of two paths, on one filesystem or two, one process after another that applies, restores or moves, a write, a kill and a failed call | `NothingLost`, `HeldIsRecorded`, `PendingSettles` |
| `gc_theft` | two runs that apply or restore one path, one of them slow, a mount that only `rename` notices, two writes | `TypeOK`, and `LostOnlyAfterSlip` while a lock is taken away |
| `update` | two commands, one with a terminal, two updaters, two releases of which the second does not run, one piece of trouble | `AlwaysRuns`, `OneStartAtATime`, `NewsGetsOut`, `StaysCurrent` |

Why these sizes are enough to be worth running: every hazard on the list needs
at most two processes on one item, or two items of one rule, or one kill at a
chosen point.  Two watchers and a command are the smallest set with a race for
the lock and a command beside it; a queue of one makes both the full and the
open queue happen; two tries make the retry and the dead list happen; a clock
of two or three units crosses a cooldown, a backoff and a day.

For the poller, three objects on pages of two are the smallest case in which a poll has
a second page, an object can be created between two polls, and the first page is not
full from the first object on.  For the sync,
two rows and pages and batches of one row are the smallest case in which a row
overtakes another; a window of two and a clock of two units reach the first moment
at which a pull no longer looks at everything.  The two rows of `sync_pull` are
there from the start (`InitialRows`), as on a machine that collected usage before
sync was enabled; `sync_purge` starts with none.  Two salts are enough to have a
replaced one.  Three pids are an old collector on its way out, its successor and one
started beside them; the one starter meets the collectors it left behind under its
earlier kinds, and `MaxFaults` includes a collector started by hand.  In the
receiver, three connections exceed both the two threads and the channel.  Two paths
are the smallest group that can be half moved, and two runs the smallest number for
a lock that is taken away; two updaters likewise.  One slow run is enough to lose a
lock, and two writes give data newer than what the other run put back; kills are in
`gc_crash`, since `gc_theft` with one would be too large.  Where processes are alike
(`Pushers`, the runs of `gc_theft`) TLC treats them as symmetric; no run with a
liveness property does.

Deadlock is checked in every run but `receiver`: a command can always be typed again,
a starter started again.  A serving collector really ends, and all that is left is
a finished process; that it does not stop anywhere else is what `StopEnds` and
`EveryoneAnswered` say.

### What the code does differently

Places met while modelling where the code does not do what its records say, or
where a property holds only under a condition.  No run expects a violation; each
place names the condition under which the runs pass.

Watch:

* `approve` and `reject` read the row, check that it is `proposed`, and write in a
  later transaction that does not check again (`engine.rs:300-308`, `397-405`): a
  rejected proposal can be carried out, although the decision record draws no arrow
  out of `done` (line 363).  `DoneIsFinal` and `KeepsItemPromise` hold with one
  process for commands.
* `address()` clears the journal before `finish()` records `done`.  After a kill in
  between, recovery finds a `running` item without a step and sends it to `dead`,
  although its marker is posted (`journal.rs:75`; the record, line 234, has it done).
* The classify calls of a label or triage rule are not held to a budget, and
  their cost is dropped unless the label is then written (`engine.rs:513-531`; the
  record, line 217).  `SpendWithinCap` is checked for reviews and code edits.
* A kill between the first journal step and the checkout leaves no worktree; the
  removal fails and the item goes to `dead`, not back to the queue (`journal.rs:64`).
* `watch.enabled` is read at the start of a pass; the pass still runs its remaining
  items after it is turned off (`cycle.rs:168`).

Poller:

* A backlog longer than `MAX_PAGES` pages moves the cursor to the newest object
  read, and what was created before that second on the pages not read is then old
  (`github.rs:189`, `280`).  In the run every list fits.
* A 304 to the ETag of page one ends the poll (`github.rs:282-296`).  When that page is
  full of objects updated in the very second the cursor stands at, everything newer is
  on later pages, the ETag does not change, and every poll is answered 304 until an
  object of the first page is edited.  With pages of 100 it takes 100 objects of one
  second.  `EventuallyDealtWith` excepts a first page that stays full (`FirstPageFull`).
* The pages of a list that changes between two requests shift.  The constant
  `EditsDuringPoll` lets that happen; `NoEventLost` then fails, and the code has no
  counter-measure.
* The time GitHub names in a rate-limit answer is not stored, so another process
  asks at once.  `OncePerWait` is about answers.

Usage sync, all kept out of the runs by `Alone`:

* A push with a pending watermark reset ends by writing back the settings it read
  at its start, with sync on: a `disable` in between is undone (`sync_cmd.rs:184-187`).
* Batches of a push under way arrive after a purge's delete (`purge.rs:131`).  The
  purge has cleared the salt and turned sync off, so the next plain purge finds
  nothing to do and the rows stay (`docs/guides/17-sync.md:92`).

Collector:

* A starter that looked before a replacement can ask the healthy new collector to
  stop (`daemon.rs:642-644`).  The next starter brings one back.
* The first set-up writes `collector.json` without the lock (`collector.rs:221`), and a
  start that finds another program's answer on the port reports success
  (`daemon.rs:694`).

Garbage collection:

* A group whose first member was renamed before the second turned out to be on
  another filesystem (`tombstone.rs:288`): the record becomes one of a copy, but the
  staging folder cannot be renamed onto a tombstone that is not empty, so the
  record is left `pending`; the repair then removes the tombstone with the only copy of
  the first (`tombstone.rs:461-466`, beside what lines 9-10 promise).  It takes no
  crash, no failed call and no second process: TLC finds it within 224 states for
  `N = 2`, one run that only applies, `MaxId = 1`, all other bounds 0 and a layout whose second
  path is `hidden`.  In the runs only the one path of `gc_theft` can be such a surprise.
* An interrupted copy whose source has changed stays `copied` for a person to look
  at (`tombstone.rs:507`).  If a program then deletes that source and a restore, in
  the run that made this check, puts an older version back at the path, the next run
  takes it for what was copied: it is not newer than the fingerprint (`index.rs:69`),
  and it is removed, the only copy, while its own tombstone is recorded `restored`.  The
  comment at `tombstone.rs:498-499` has the source kept when it holds data that was not
  in the copy.  TLC finds it for `N = 1`, one run that applies or restores, `MaxId = 2`,
  `MaxWrites = 2`, `MaxCrashes = 1` and a layout whose path is `far`.  It takes two
  tombstones of one path, and the runs have one.
* The token is read before a call, not with it (`guard.rs:104-108`, `262-263`), so a run
  that sleeps in between does race the thief, although the head of `lock.rs` (lines 8-13)
  says that such a run is aborted.  Data can be lost that way.  One path: a run
  has looked at its token to remove the source it copied; a second run takes the lock,
  finishes that move from its `copied` record, restores it, and the first then removes
  the only copy.  Two paths and no restore: a run has looked at its token to rename the
  second path, a second run finishes that rename, a program creates the path again, and
  the first run's rename puts the new version over the one in the tombstone.  TLC finds
  the first as a violation of `NothingLost` in the bounds of `gc_theft`, the second with
  `N = 2`, `apply` only and one filesystem.  `slipped` marks such a call, and
  `LostOnlyAfterSlip` says that nothing else loses data.
* A run that has lost its lock still appends to the index, and does so without a
  look at the token (`tombstone.rs:384`, `646`).  A repair of a rename that finds
  nothing left to move records `done` with the list of missing members it read before
  another run changed it; a restore by that record removes a tombstone that holds one
  more.  `HeldIsRecorded`, and `NothingLost` with restores, are about one run at a time.
* What a program writes between the last measurement and the removal is lost
  (`tombstone.rs:328`, `357`); see `Racing`.
* An interrupted restore of a group stays `restoring` for a person to look at
  (`tombstone.rs:484`); `PendingSettles` is about moves.
* Compaction reads and rewrites the index without a look at the lock
  (`apply.rs:187-194`), and the time of a write is compared in whole seconds
  (`index.rs:63-71`).

Update:

* A backup is named after the version of the running process, not of the file it
  copies (`swap.rs:138-151`), so after another updater's swap a name can lie.
  `AlwaysRuns` speaks of what is in a backup, not of its name.
* The version to install is read before the lock is taken (`auto.rs:181-215`), so a
  slow updater can put an older release over a newer one until the next day.
* A stale lock is renamed away and put back, and the lock's drop removes whatever
  folder is there (`auto.rs:108`, `atomic.rs:113`): two updaters can hold it.  The
  model has both, and `AlwaysRuns` still holds.

### Fairness

Every liveness property is checked under the fairness its module states, with
`MaxCrashes` (or its like) kills and failures: once they stop, things settle.

* **Watch** (`LiveSpec`).  Weak fairness of every step of a process that has begun:
  every call has a timeout.  Strong fairness of `StartWatch` and `EndPoll`: the unit
  that `watch install-service` writes starts `watch once` on a timer, so a lock that
  is free again and again is got in the end, and a token that GitHub refuses ends a
  pass but not every pass.  Weak fairness of the clock.  None on what people type, on
  settings or on failures.
* **Poller.**  Weak fairness of the clock, of the start of a pass and of a pass that
  runs; strong fairness of an answer to each page, since GitHub does not fail one
  request for ever.
* **Collector.**  Weak fairness of every step of a collector and of a starter; strong
  fairness of a session's start, since sessions keep being opened; weak fairness of the
  stamp's age and of a foreign program freeing the port.
* **Receiver.**  Weak fairness of each thread: reads and writes of a connection have
  `READ_DEADLINE`, a commit has SQLite's busy timeout.  None on new connections, on
  the idle limit or on faults.
* **Garbage collection.**  Weak fairness of a run that has begun, strong fairness of the
  daily `apply` and of the passing of minutes, which makes a dead run's lock stale.
* **Update.**  Strong fairness of commands at a terminal and of days; weak fairness of a
  planned start and of an updater's steps.  None on updates by hand.

## 4. Proofs

`LimitsAssumption` and `QueueAssumption` say what the watch proofs assume: loops and
commands are different processes, `*` is not a rule, the tables have the types
their columns have, a triage rule is decided by a model, and a rule that buys
model time has a dollar limit (the rule parser refuses one without).
`ReceiverAssumption` says that there are finitely many clients, each with a set of
known requests, and that the bounds are at least one.  `CollectorAssumption` says
that there are finitely many pids, that `None` and `Foreign` are not pids, and that
each starter has one of the versions and is of a known kind.  `PollAssumption` says
that a page holds at least one object, that there are finitely many objects, and that
one of the waits GitHub asks for is none.  `UpdateAssumption` says that at least one
backup is kept and that the terminals are among the commands.  `SyncAssumption` gives
the tables their types, says that no two rows of a machine have one key, and that the
longest push and the longest pull together are shorter than the window a pull reads
again: the code's window of an hour (`SYNC_RESEND_WINDOW_SECONDS`) against runs of minutes.
`TombstonesAssumption` says that an item has at least one path and there is at least
one id, that `NoRun` and `Gone` are not runs, and that a run is of a known kind.

Some theorems have a hypothesis more, stated in the theorem itself:

* `OneCommand`, for `DoneStaysDone`, `LadderIsClimbed` and `QueueKeepsPromise`: there
  is at most one command process, beside any number of watchers.  A command writes
  what it read some steps before (`engine.rs:300`, `397`), so of two commands at once
  one can undo the other: an `approve` after a `reject` takes a done item up again and
  renews an approval that the ladder counted.
* `NoClassify` (no rule decides by a model), for `BudgetHolds`.  What a classify call
  costs is dropped unless the label is then written (`engine.rs:517`, a hazard), so no
  bound holds of it.  With triage out, the bound is that of reviews and code edits.
* `ListStandsStill` (`~EditsDuringPoll`) and `ListFits` (no more objects than the
  pages of one poll hold), for `EventsAreKept`.  Without the first an object may be on
  no page of a poll, because GitHub moved it between two requests; without the second
  a backlog loses its oldest part.  Both are what the code does, and both are hazards.
* `PurgeRunsAlone`, for `NothingIsSkipped` and `PurgedIsGone`: on the machine that
  purges no other command runs.  A push beside a purge sends rows back after they were
  deleted, with old stamps.  Everything else may run together.
* `OneAtATime`, for `SentIsThere` and `OldHashIsFound`: at most one command at a time
  on a machine, any number of machines.  It is needed: with two first syncs on a
  machine between `adopt` and `store` and a `purge --all` elsewhere, rows are sent with
  a salt that the machine no longer has, and nothing notices.
* `~Racing`, for both theorems on lost data: no program writes to the item while a
  run goes by what it saw of the source before (`Guarded`, section 2).  The code has no
  lock against other programs: what is written between the measurement and the removal
  goes with the source (`tombstone.rs:328`, `357`), and a member that was missing when the
  move began, but is there when its group is copied, is not put back by a restore
  (`tombstone.rs:310`).
* `NoSurprise` (a group has no member on a mount that only its rename notices), for
  `NothingLostByMoves` and `HeldAlone`: the first bullet on gc above shows why.  One path
  may be such a surprise.
* `NoRestore`, for `NothingLostByMoves`, or else `Alone` (one process runs gc at a time,
  and may be killed and started again) and `OneDisk` (the paths are on the filesystem of the tombstones), for
  `NothingLostByRestores`: the second bullet on gc above shows why other filesystems are
  out, the third and fourth why other runs are.
* `Alone`, for `HeldAlone`, for the same reason.

| theorem | statement |
|---|---|
| `TypeCorrect` | `Spec => []TypeOK` |
| `OnceInvariant`, `WrittenAtMostOnce` | `Spec => []OnceInv`, hence `[]AtMostOnce` |
| `UnsafeOnlyWithPerson` | `Spec => []UnsafeNeedsPerson` |
| `PauseIsSoft` | `Spec => []PauseLetsOneFinish` |
| `BudgetHolds` | `NoClassify`: `Spec => []SpendWithinCap` |
| `ObjectsAreLeftAlone` | `Spec => CooldownHolds` |
| `CapsHold` | `Spec => AutoWithinCap` |
| `DoneStaysDone` | `OneCommand`: `Spec => DoneIsFinal` |
| `LadderIsClimbed` | `OneCommand`: `Spec => LadderEarned` |
| `QueueKeepsPromise` | `OneCommand`: `Spec => KeepsItemPromise` |
| `AnswersAreStored` | `Spec => []OkIsStored` |
| `ServeLeavesNothing` | `Spec => []NothingLeftBehind` |
| `TypeCorrect` (of `ReceiverProofs`) | `Spec => []TypeOK` |
| `TypeCorrect` (of `CollectorProofs`) | `Spec => []TypeOK` |
| `ServingIsFound` | `Spec => []ServingIsRecorded` |
| `HoldersAreSpared` | `Spec => TermSparesHolders` |
| `TypeCorrect` (of `WatchPollProofs`) | `Spec => []TypeOK` |
| `EventsAreKept` | `ListStandsStill /\ ListFits`: `Spec => []NoEventLost` |
| `OldHistoryStays` | `Spec => []NoOldHistory` |
| `WaitsAreKept` | `Spec => OncePerWait` |
| `TypeCorrect` (of `BinaryUpdateProofs`) | `Spec => []TypeOK` |
| `BinaryRuns` | `Spec => []AlwaysRuns` |
| `NoSecondStart` | `Spec => OneStartAtATime` |
| `TypeCorrect` (of `UsageSyncProofs`) | `Spec => []TypeOK` |
| `NothingIsSkipped` | `PurgeRunsAlone`: `Spec => []NothingBehindCursor` |
| `PurgedIsGone` | `PurgeRunsAlone`: `Spec => []PurgeLeavesNothing` |
| `SentIsThere` | `OneAtATime`: `Spec => []SentBehindMark` |
| `OldHashIsFound` | `OneAtATime`: `Spec => []OldHashIsNoticed` |
| `TypeCorrect` (of `TombstonesProofs`) | `Spec => []TypeOK` |
| `NothingLostByMoves` | `~Racing /\ NoSurprise /\ NoRestore`: `Spec => []LostOnlyAfterSlip` |
| `NothingLostByRestores` | `~Racing /\ Alone /\ OneDisk`: `Spec => []NothingLost` |
| `HeldAlone` | `Alone /\ NoSurprise`: `Spec => []HeldIsRecorded` |

Those of the queue hold for any number of items, rules, watchers and (but for
`OneCommand`) commands, any caps, and any number of kills and lost answers; the three of the receiver for any number
of connections, threads, faults and places in the channel; the three of the collector
for any number of processes, starters, versions and faults, where its run has a single
starter.  Those of the poller hold for any page size, number of pages, objects and
waits; those of the updater for any number of releases (broken ones among them),
commands, updaters and kills; those of the sync for any number of machines, processes,
rows and accounts, any batch size and any order of the keys at the remote; those of gc
for any number of paths, tombstones, writes, kills and failed calls and, but for
`Alone`, of runs that take each other's lock away; with several runs the claim on lost
data ends with the first call on an old look at the token (`LostOnlyAfterSlip`), because
the code's does.

The arguments:

* **At most once.**  `AtMostOnce` is not inductive: nothing in it says that what
  `perform()` saw is still so at the write.  `OnceInv` adds that whoever is in a
  pass or a try holds the lock (`LockInv`), and that between the look and the
  write the item's effect is absent.  A step of another process cannot disturb
  the second part, because it would have to hold the lock too.
* **A person for unsafe actions.**  `PersonInv` follows the approval stamp through
  every place an item can be: the table, the ids a pass has listed, the process
  that runs it.  An item may pass through `queued` after a kill or `watch retry`;
  from there `redecide()` can only propose it, since `LevelOf` caps its class at
  `propose`.  No step erases the stamp.
* **A soft pause.**  `PauseInv`: after the first late write no process is between
  the question `paused()` and a write.  It rests on `LockInv`: only one process
  can have asked before the pause.
* **The day's budget.**  `MoneyInv` follows a dollar: what a model call may cost is
  reserved in `bill` (`BillOK`, from `Remaining`), what it did cost is in `usd` or in the
  bill of the one process that owes it (`SpentInv`), and a kill hides at most one bill.
  The counter itself never passes the cap, since every charge fits what was left.
* **Caps and cooldown.**  `AloneInv`: between `demotion()` and the write, the counters and
  the object's time are those `demotion()` saw, because only the holder of the lock
  changes them (`LeaveOK`); every write of today is counted, or about to be counted by
  the holder, or hidden by a kill or a lost answer (`CountedInv`); and `acted` is at least
  as late as every such write (`StampedInv`).  At an unattended write nobody is about to
  count (`WriterIsActing`), which leaves the two properties.
* **What was read is still so.**  `TakenInv`: the ids a pass has listed, the item a try
  runs and the row a command has read are in the state in which they were taken.  The
  holder of the lock moves rows that no command reads, a command moves rows that no pass
  lists, and `OneCommand` keeps commands apart.  `done` is in neither set.
* **The ladder.**  `LadderInv`: from `Begin` to the write there are enough approvals of the
  class, and one old enough on an item that is done, dead or queued again, so that
  no approval can renew it.  `History` is the image of those items, hence not larger.
* **The life of an item.**  Each action of `WatchQueue` is an action of `WatchItem` under
  the mapping, or a stutter: `OneRowIsLife` for the transactions, by the row's state
  before (`TakenInv`) and after; `EffectIsAct` for a write, where `OnceInv` gives
  that the effect is absent and `PersonInv` the consent; `ActAndClose` for recovery's
  marker.
* **An answer 200.**  `OkIsStored` says nothing of answers on their way.
  `StoredInv` adds them: the writer that has decided `yes`, the reply channel, the
  thread that is about to respond.
* **Nothing left behind.**  `HeldInv` says that a thread that waits has an answer, or
  its job is in the channel or in the writer's hands, and that both are empty when
  the writer ends.  The monitor goes on only after the writer's end, and `serve()`
  returns only after the monitor.  Threads that still hold a sender when the channel
  is closed do no harm, because the writer waits for every sender.
* **Threads and wake-ups.**  `CountInv`: until the process ends `live` is the number of
  threads, because `Admit` counts one as it starts it and only the thread itself, at its
  end, takes it off again.  A thread, the watchdog and the monitor each wake `accept()`
  once at most, which bounds the backlog of wake-ups by the clients and two.
* **A serving collector is found.**  `FoundInv` follows a collector up and down: from
  the lock on it is the holder, from its holder line on that line names it, from the
  bind on it has the port.  Only the holder of the lock writes the files, and a process
  that ends releases the lock and port of nobody else.
* **Holders are spared.**  `SparedInv`: a pid in `collector.json` is past its start, so it
  will not take the lock any more, and is not used again while a file or a starter
  names it.  If the lock was free when the starter looked, `FoundInv` says the pid is
  not that of a collector with the lock: it knows none, or is gone.

* **No event is lost.**  The pages of a poll partition the listed objects by their
  rank, and the first incomplete page is the last (`Places`, `LastPage`).  `PagesInv`:
  every event on a page already read is held.  `CompleteInv`: a poll at its answer holds
  every event before its newest, because it reached the last page, or a page whose
  objects all precede `since`, or, by `ListFits`, the page limit with nothing left.  So
  the new cursor passes only events that `Ingest` has queued.  An object created later
  is at or after the clock, and no cursor passes the clock.
* **No old history.**  `StartInv`, `FoundInv`, `SinceInv`: a poll starts at a time that
  was asked for or at the cursor, finds nothing older than its start, and moves the
  cursor forward only.  It holds while the list moves, too.
* **One poll per wait.**  `DueInv`: the wait kept with the cursor is that of the last
  answer; a poll without `--since` asks that cursor first.
* **What is installed runs.**  `JobInv`: what an updater is about to back up or swap in
  was run before.  The rest is in the types: a backup is a copy of what was
  installed, and a rollback takes one.  No lock is needed.
* **One start at a time.**  `PlanInv`: a plan that may still be claimed was made while
  nothing counted as running and nothing was claimed since; a claim makes the cached
  row fresh, which outdates every other plan.
* **Nothing lies behind a cursor.**  `ReadInv`: what a machine lacks is after the place
  where its pull under way reads, or on the page in its hands, or was stamped so late
  that the next pull's window covers it (`CameLate`).  The three clocks of
  `SyncAssumption` meet here: a row is stamped with the start of its push, so it may
  arrive `MaxPush` late, while a pull may have started `MaxPull` ago.  `TimeInv` and
  `StampInv` bound the times under way; `PageInv` says that a page has a row once.
* **A purge leaves nothing.**  `PurgeInv`: a purge turns sync off first and a machine
  with sync off starts none, so once it deletes nobody pushes for its machine.
* **What the watermark passed is there.**  `PushInv`: a push has sent what is behind
  the mark, behind what it read of the mark, and behind its own place.  `HeldInv` says
  which of the registers of a command are what its machine stores, `SaltInv` that
  salts are numbered as they are made, `OrderInv` that rowids are given out in order.
  A mark is trusted only with the remote's present salt, and a new one resets it.
* **A replaced salt is noticed.**  `OldRowsInv`: rows with another salt than the
  remote's are those of a machine that still has the old salt, and so will see
  the difference at its next sync.  `PurgeHashInv` carries this through a purge, which
  replaces the salt after it has deleted the rows.
* **No data is lost.**  Three steps destroy data: a source that was copied is removed,
  a tombstone is removed, a restore puts a tombstone back.  Each is preceded by a look at
  the token, so until a call is made on an old one (`slipped`) a run without the token
  changes neither source nor tombstone (`SoundSteps`, `DiskStep`), and it never gets the
  token back (`TokenStep`).  `SureInv`: a run between its look and its call that still
  has the token still finds what it saw before the look, since nobody else could change
  it.  So what the run with the token
  knows of the disk is disturbed only by programs.  `CopyInv`: after the second
  measurement the staged copy, and later the tombstone, has all that is at the source
  up to the time of the fingerprint; a write is newer (`ClockInv`), so a source that
  has not grown is in the copy (`NotGrown`).  `TaskInv`: what reconcile has decided is
  still right when it is done, although another run may have appended meanwhile: a
  tombstone is removed only when its grace period has passed (`ExpiringInv`), when it is
  the copy of a move that never removed a source, or when it is empty.  That second kind
  is `Scrap`, and `SafeInv` is `NothingLost` without counting what is in it; a tombstone
  becomes scrap only while empty (`ScrapStep`).  `MoverInv`: an id is moved by one run,
  which alone writes its `pending` and `copied`.  All of it rests on `BackSafe`: a restore
  loses nothing and leaves what was copied alone.  That is trivial where nobody restores
  (`NoRestoreInv`).
* **Restores lose nothing.**  `KeptInv`: with renames only, a tombstone holds nothing its
  record calls missing, and a restore, which puts back all but those, meets no original and
  leaves nothing behind.  Hence `BackSafe`, and the argument above.
* **What is held is recorded.**  `HeldInv`: a move writes `pending` before it moves
  anything, and a repair, an expiry or a restore records an end only once the tombstone
  is empty, or has its removal before that record in the plan (`HeldPlan`).

Each step lemma has one case per action of `Next`, or per group of actions that
touch the same part of the state.

Only model-checked:

* all liveness: fairness and `ENABLED` are outside the prover;
* Restores with paths on another filesystem (`NothingLost` in `gc_crash`) and beside
  another run (`LostOnlyAfterSlip` in `gc_theft`).  The code keeps neither in general,
  but both with the single tombstone of those runs.  `HeldIsRecorded` beside another run
  is not checked.

tlapm knows that a `CHOOSE` is one value, but not what it satisfies: the proofs use a
chosen value only through a lemma that shows one exists, or where it is the only one.

The action `update_branch` appears in the proofs but in no run: its effect may
legitimately be repeated, and it shares the code path of a comment.

## 5. Plan

Done: `WatchQueue`, `UsageSync`, `WatchPoll`, `Collector`, `Receiver`, `BinaryUpdate`
and `Tombstones` with their proofs, `WatchItem` and the refinement.  Still to come:

* Moves of rows between accounts (`telemetry/src/account_move.rs`) in `UsageSync`.

### Not modelled

The modules cover a small share of the repository's lines, because most of those
lines keep no state that several steps or processes share.

* Review gate: one row per checked tree, written by its hash; there is no order of
  calls that could break it.
* Data migrations, setup, doctor, uninstall: sequences of file edits, driven by one
  person or guarded by one version stamp, whose content is the matter.
* Code index, memory, usage views and pricing, sessions, handoff, effort: parsing,
  ranking and reports; they compute an answer from what they read.
* Agent hooks: each is a text rule applied to one payload.
* Configuration tiers: the models take the effective value of a setting as a variable
  that a person changes.
* Pull request, deliver and worktree commands: wrappers whose state is git's and
  GitHub's.
* Configuration snapshots of `pbsync`: one row per machine that nothing else reads.
* Watch service, audit log, child processes, pbdoc, plugin-checks, code-bench: plumbing
  and tools.
