----------------------------- MODULE UsageSync -----------------------------
(***************************************************************************)
(* `pbsync` (crates/pbsync/src): the commands enable, disable, push, pull, *)
(* sync and purge of several machines over one remote database.            *)
(*                                                                         *)
(* A machine keeps its own usage rows, which only grow; a watermark, the    *)
(* last rowid it has sent; the shared salt; copies of the other machines'  *)
(* rows and a cursor into each of them; and sync.json, which every command *)
(* reads once and writes whole, without a lock.                            *)
(*                                                                         *)
(* One step is one local statement or transaction, one file access or one  *)
(* pipeline to the remote.  A process may be killed between any two; a     *)
(* pipeline may fail, and it may fail after its effect.                    *)
(*                                                                         *)
(* The bookkeeping of failures (last_error, failures, last_attempt) decides *)
(* only whether an unforced run ends at once, before it changes anything:  *)
(* a run that does so is no step here.                                     *)
(***************************************************************************)
EXTENDS Integers, FiniteSets

CONSTANTS
    Machines,
    Procs, MachineOf,  \* [Procs -> Machines], where a command runs
    LastRow,           \* [Machines -> Nat]: rowids of a machine are 1..LastRow[m]
    Accounts,
    AccountOf,         \* [RowIds -> Accounts]
    Key,               \* [Machines -> [RowIds -> Nat]], the order of the rows' event ids
    Lists,             \* account lists a person may consent to
    InitialConf,       \* [Machines -> Settings] when the model starts
    InitialRows,       \* rows every machine has by then, from 1 up
    Commands,          \* [Procs -> SUBSET CommandNames], what a process may be
    Alone,             \* commands a person types only when no other runs on that machine
    Window,            \* SYNC_RESEND_WINDOW_SECONDS (3600)
    BatchRows,         \* SYNC_BATCH_ROWS (500)
    MaxPush, MaxPull,  \* bounds on the time one push and one pull take
    MaxSize,           \* [RowIds -> Nat], how far a row grows
    MaxNow, MaxSalt, MaxCrashes, MaxLost

\* The kinds of a sync, and the purges with no flag, --account and --all.
Kinds == {"push", "pull", "both"}
Scopes == {"machine", "account", "all"}
CommandNames == {"enable", "disable"} \cup Kinds \cup Scopes

\* sync.json, as far as it matters here.
Settings == [enabled : BOOLEAN, accounts : SUBSET Accounts, reset : BOOLEAN]

Rows(m) == 1..LastRow[m]
RowIds == UNION {Rows(m) : m \in Machines}

ASSUME SyncAssumption ==
    /\ MachineOf \in [Procs -> Machines]
    /\ LastRow \in [Machines -> Nat]
    /\ AccountOf \in [RowIds -> Accounts]
    /\ Key \in [Machines -> [RowIds -> Nat \ {0}]]
    /\ \A m \in Machines : \A r, s \in RowIds : Key[m][r] = Key[m][s] => r = s
    /\ Lists \subseteq SUBSET Accounts
    /\ InitialConf \in [Machines -> Settings]
    /\ InitialRows \in Nat
    /\ Commands \in [Procs -> SUBSET CommandNames]
    /\ Alone \subseteq {"enable", "disable", "purge"}
    /\ Window \in Nat /\ BatchRows \in Nat \ {0}
    /\ MaxPush \in Nat /\ MaxPull \in Nat /\ MaxPush + MaxPull < Window
    /\ MaxSize \in [RowIds -> Nat]
    /\ {MaxNow, MaxSalt, MaxCrashes, MaxLost} \subseteq Nat

VARIABLES
    \* --- one machine: usage.db and sync.json
    size,     \* output tokens of each own row; 0: not recorded yet
    stamp,    \* timestamp of each own row
    conf,     \* sync.json: enabled, accounts, reset_watermark
    salt,     \* sync_state.salt; 0: none
    mark,     \* sync_watermarks
    copy,     \* usage_events_remote: the size of each copied row
    cursor,   \* sync_cursors
    \* --- the remote
    remote,   \* shared_usage_events: size, pushed_at, and the salt of its hashes
    rsalt,    \* shared_meta.salt; 0: none
    \* --- one process
    pc, what, load, hash, start, wm, pos, todo, from, at, page,
    \* --- the world
    now,
    salts,    \* how many salts were made: a random salt is a new number
    \* --- observation only
    purged,   \* machines whose rows a purge removed since they were last enabled
    blind,    \* machines that purged one account after their salt was replaced
    unfinished, \* machines whose rows a purge removed and whose watermark it kept
    crashes, lost

machineVars == <<size, stamp, conf, salt, mark, copy, cursor>>
remoteVars  == <<remote, rsalt>>
regVars     == <<what, load, hash, start, wm, pos, todo, from, at, page>>
worldVars   == <<now, salts>>
seenVars    == <<purged, blind, unfinished, crashes, lost>>
vars == <<machineVars, remoteVars, pc, regVars, worldVars, seenVars>>

(***************************************************************************)
(* Types                                                                   *)
(***************************************************************************)
Cursors == [at : Nat, key : Nat]
Positions == [at : Int, key : Nat]
RemoteRow == [size : Nat, at : Nat, salt : Nat]
Pulled == [row : RowIds, size : Nat, at : Nat]

SyncPcs == {"salt", "adopt", "store", "push", "mark", "batch", "raise", "pushed",
            "machines", "next", "page", "commit"}
\* A push whose rows may still reach the remote, and a pull that reads pages.
PushPcs == {"mark", "batch", "raise"}
PullPcs == {"next", "page", "commit"}
Pcs == SyncPcs \cup {"idle", "enable", "disable", "purge", "delete", "clear"}

Off == [enabled |-> FALSE, accounts |-> {}, reset |-> FALSE]
Start == [at |-> 0, key |-> 0]
NoRow == [size |-> 0, at |-> 0, salt |-> 0]

MachineOK ==
    /\ size \in [Machines -> [RowIds -> Nat]]
    /\ stamp \in [Machines -> [RowIds -> Nat]]
    /\ conf \in [Machines -> Settings]
    /\ salt \in [Machines -> Nat]
    /\ mark \in [Machines -> Nat]
    /\ copy \in [Machines -> [Machines -> [RowIds -> Nat]]]
    /\ cursor \in [Machines -> [Machines -> Cursors]]

RegOK ==
    /\ pc \in [Procs -> Pcs]
    /\ what \in [Procs -> {"none"} \cup Kinds \cup Scopes]
    /\ load \in [Procs -> Settings]
    /\ hash \in [Procs -> Nat]
    /\ start \in [Procs -> Nat]
    /\ wm \in [Procs -> Nat]
    /\ pos \in [Procs -> Nat]
    /\ todo \in [Procs -> SUBSET Machines]
    /\ from \in [Procs -> Machines]
    /\ at \in [Procs -> Positions]
    /\ page \in [Procs -> SUBSET Pulled]

TypeOK ==
    /\ MachineOK
    /\ RegOK
    /\ remote \in [Machines -> [RowIds -> RemoteRow]]
    /\ rsalt \in Nat /\ now \in Nat /\ salts \in Nat
    /\ {purged, blind, unfinished} \subseteq SUBSET Machines
    /\ crashes \in Nat /\ lost \in Nat

Init ==
    /\ size = [m \in Machines |-> [r \in RowIds |->
                  IF r \in Rows(m) /\ r <= InitialRows THEN 1 ELSE 0]]
    /\ stamp = [m \in Machines |-> [r \in RowIds |-> 0]]
    /\ conf = InitialConf
    /\ salt = [m \in Machines |-> 0]
    /\ mark = [m \in Machines |-> 0]
    /\ copy = [m \in Machines |-> [k \in Machines |-> [r \in RowIds |-> 0]]]
    /\ cursor = [m \in Machines |-> [k \in Machines |-> Start]]
    /\ remote = [m \in Machines |-> [r \in RowIds |-> NoRow]]
    /\ rsalt = 0
    /\ pc = [p \in Procs |-> "idle"]
    /\ what = [p \in Procs |-> "none"]
    /\ load = [p \in Procs |-> Off]
    /\ hash = [p \in Procs |-> 0]
    /\ start = [p \in Procs |-> 0]
    /\ wm = [p \in Procs |-> 0]
    /\ pos = [p \in Procs |-> 0]
    /\ todo = [p \in Procs |-> {}]
    /\ from = MachineOf
    /\ at = [p \in Procs |-> Start]
    /\ page = [p \in Procs |-> {}]
    /\ now = 0 /\ salts = 0
    /\ purged = {} /\ blind = {} /\ unfinished = {}
    /\ crashes = 0 /\ lost = 0

(***************************************************************************)
(* Helpers                                                                 *)
(***************************************************************************)
Here(p) == MachineOf[p]
Goto(p, l) == pc' = [pc EXCEPT ![p] = l]

\* The command ends or is killed: its local variables are gone.
Exit(p) ==
    /\ Goto(p, "idle")
    /\ what' = [what EXCEPT ![p] = "none"]
    /\ load' = [load EXCEPT ![p] = Off]
    /\ hash' = [hash EXCEPT ![p] = 0]
    /\ start' = [start EXCEPT ![p] = 0]
    /\ wm' = [wm EXCEPT ![p] = 0]
    /\ pos' = [pos EXCEPT ![p] = 0]
    /\ todo' = [todo EXCEPT ![p] = {}]
    /\ from' = [from EXCEPT ![p] = Here(p)]
    /\ at' = [at EXCEPT ![p] = Start]
    /\ page' = [page EXCEPT ![p] = {}]

\* (pushed_at, key) < (pushed_at, key)
Before(a, b) == a.at < b.at \/ (a.at = b.at /\ a.key < b.key)

CommandOf(l) == IF l \in {"purge", "delete", "clear"} THEN "purge" ELSE l

\* What a person keeps apart, and nothing the program checks.
MayType(p, command) ==
    /\ pc[p] = "idle"
    /\ \A q \in Procs : Here(q) = Here(p) /\ pc[q] # "idle" =>
          {command, CommandOf(pc[q])} \cap Alone = {}

\* Settings::load
Load(p, l) ==
    /\ load' = [load EXCEPT ![p] = conf[Here(p)]]
    /\ Goto(p, l)

\* Settings::save: the whole file, from what the command has in memory.
Save(p, settings) == conf' = [conf EXCEPT ![Here(p)] = settings]

\* A pipeline that fails ends the command, with no effect or, when the answer is
\* lost, after it.
Fails(p) == Exit(p) /\ lost' = lost
LosesAnswer(p) == Exit(p) /\ lost < MaxLost /\ lost' = lost + 1

(***************************************************************************)
(* enable and disable                                                      *)
(***************************************************************************)
EnableLoad(p) ==
    /\ "enable" \in Commands[p] /\ MayType(p, "enable")
    /\ Load(p, "enable")
    /\ UNCHANGED <<machineVars, remoteVars, what, hash, start, wm, pos, todo, from, at,
                   page, worldVars, seenVars>>

\* Mutated form of ResetAfter: a new account list does not ask for a reset.
ResetAfterNever(previous, accounts) == previous.reset

\* A changed account list sends every row again.
ResetAfter(previous, accounts) == previous.reset \/ previous.accounts # accounts

\* The person has answered yes.
EnableSave(p) ==
    /\ pc[p] = "enable"
    /\ \E accounts \in Lists :
         Save(p, [enabled |-> TRUE, accounts |-> accounts,
                  reset |-> ResetAfter(load[p], accounts)])
    /\ purged' = purged \ {Here(p)}
    /\ Exit(p)
    /\ UNCHANGED <<size, stamp, salt, mark, copy, cursor, remoteVars, worldVars,
                   blind, unfinished, crashes, lost>>

DisableLoad(p) ==
    /\ "disable" \in Commands[p] /\ MayType(p, "disable") /\ conf[Here(p)].enabled
    /\ Load(p, "disable")
    /\ UNCHANGED <<machineVars, remoteVars, what, hash, start, wm, pos, todo, from, at,
                   page, worldVars, seenVars>>

DisableSave(p) ==
    /\ pc[p] = "disable"
    /\ Save(p, [load[p] EXCEPT !.enabled = FALSE])
    /\ Exit(p)
    /\ UNCHANGED <<size, stamp, salt, mark, copy, cursor, remoteVars, worldVars,
                   purged, blind, unfinished, crashes, lost>>

(***************************************************************************)
(* push, pull and sync: the gate and the salt                              *)
(***************************************************************************)
\* execute(): load, require_enabled.
SyncStart(p) ==
    /\ MayType(p, "sync") /\ conf[Here(p)].enabled
    /\ Load(p, "salt")
    /\ \E k \in Kinds \cap Commands[p] : what' = [what EXCEPT ![p] = k]
    /\ UNCHANGED <<machineVars, remoteVars, hash, start, wm, pos, todo, from, at, page,
                   worldVars, seenVars>>

\* ensure_salt(): stores a new salt unless there is one, and reads it back.
EnsureSalt ==
    IF rsalt = 0
    THEN salts < MaxSalt /\ salts' = salts + 1 /\ rsalt' = salts + 1
    ELSE UNCHANGED <<rsalt, salts>>

SyncSalt(p) ==
    /\ pc[p] = "salt"
    /\ \/ /\ EnsureSalt
          /\ hash' = [hash EXCEPT ![p] = rsalt']
          /\ Goto(p, "adopt")
          /\ UNCHANGED <<what, load, start, wm, pos, todo, from, at, page, lost>>
       \/ Fails(p) /\ UNCHANGED <<rsalt, salts>>
       \/ LosesAnswer(p) /\ EnsureSalt
    /\ UNCHANGED <<machineVars, remote, now, purged, blind, unfinished, crashes>>

\* Mutated form of Adoptable: a changed salt replaces the stored one.
AdoptableAlways(p) == TRUE

\* shared_salt(): the stored salt must be the remote's.
Adoptable(p) == salt[Here(p)] \in {0, hash[p]}

\* What a run does once it has the salt.
FirstHalf(p) == IF what[p] = "pull" THEN "machines" ELSE "push"

SyncAdopt(p) ==
    /\ pc[p] = "adopt"
    /\ \/ /\ Adoptable(p)
          /\ Goto(p, IF salt[Here(p)] = hash[p] THEN FirstHalf(p) ELSE "store")
          /\ UNCHANGED regVars
       \/ ~Adoptable(p) /\ Exit(p)
    /\ UNCHANGED <<machineVars, remoteVars, worldVars, seenVars>>

\* A machine that has no salt stores the remote's.
SyncStore(p) ==
    /\ pc[p] = "store"
    /\ salt' = [salt EXCEPT ![Here(p)] = hash[p]]
    /\ Goto(p, FirstHalf(p))
    /\ UNCHANGED <<size, stamp, conf, mark, copy, cursor, remoteVars, regVars, worldVars,
                   seenVars>>

(***************************************************************************)
(* push_tables(), push() and send_all()                                    *)
(***************************************************************************)
\* The pending reset, then the clock of this push.  An empty list sends nothing.
PushStart(p) ==
    /\ pc[p] = "push"
    /\ mark' = IF load[p].reset THEN [mark EXCEPT ![Here(p)] = 0] ELSE mark
    /\ start' = [start EXCEPT ![p] = now]
    /\ Goto(p, IF load[p].accounts = {} THEN "pushed" ELSE "mark")
    /\ UNCHANGED <<size, stamp, conf, salt, copy, cursor, remoteVars, what, load, hash,
                   wm, pos, todo, from, at, page, worldVars, seenVars>>

\* read_watermark, after a call that may fail.
PushMark(p) ==
    /\ pc[p] = "mark"
    /\ \/ /\ wm' = [wm EXCEPT ![p] = mark[Here(p)]]
          /\ Goto(p, "batch")
          /\ UNCHANGED <<what, load, hash, start, pos, todo, from, at, page, lost>>
       \/ Fails(p)
    /\ UNCHANGED <<machineVars, remoteVars, worldVars, purged, blind, unfinished, crashes>>

\* select_sql: past the watermark or in the resend window, for allowed accounts.
ToSend(p) ==
    LET m == Here(p) IN
    {r \in Rows(m) : /\ size[m][r] > 0 /\ r > pos[p]
                     /\ r > wm[p] \/ stamp[m][r] >= start[p] - Window
                     /\ AccountOf[r] \in load[p].accounts}

\* The first BatchRows of them.
Batch(p) ==
    LET all == ToSend(p) IN {r \in all : Cardinality({s \in all : s < r}) < BatchRows}

\* upsert_sql: a row is inserted, or replaced by one that has grown.
Upsert(p, batch) ==
    LET m == Here(p) IN
    remote' = [remote EXCEPT ![m] =
        [r \in RowIds |->
            IF r \in batch /\ size[m][r] > @[r].size
            THEN [size |-> size[m][r], at |-> start[p],
                  salt |-> IF @[r].size = 0 THEN hash[p] ELSE @[r].salt]
            ELSE @[r]]]

\* read_batch and send_batch.  The batch is one transaction at the remote.
PushBatch(p) ==
    /\ pc[p] = "batch"
    /\ LET batch == Batch(p) IN
       \/ /\ batch = {} /\ Goto(p, "pushed")
          /\ UNCHANGED <<remote, regVars, lost>>
       \/ /\ batch # {} /\ Upsert(p, batch)
          /\ pos' = [pos EXCEPT ![p] = CHOOSE r \in batch : \A s \in batch : s <= r]
          /\ Goto(p, "raise")
          /\ UNCHANGED <<what, load, hash, start, wm, todo, from, at, page, lost>>
       \/ batch # {} /\ Fails(p) /\ UNCHANGED remote
       \/ batch # {} /\ LosesAnswer(p) /\ Upsert(p, batch)
    /\ UNCHANGED <<machineVars, rsalt, worldVars, purged, blind, unfinished, crashes>>

\* raise_watermark: never lowers it.
PushRaise(p) ==
    /\ pc[p] = "raise"
    /\ mark' = [mark EXCEPT ![Here(p)] = IF @ < pos[p] THEN pos[p] ELSE @]
    /\ Goto(p, "batch")
    /\ UNCHANGED <<size, stamp, conf, salt, copy, cursor, remoteVars, regVars, worldVars,
                   seenVars>>

\* The end of push_tables: the reset is done, and the settings are saved as they
\* were read at the start.
PushEnd(p) ==
    /\ pc[p] = "pushed"
    /\ IF load[p].reset THEN Save(p, [load[p] EXCEPT !.reset = FALSE]) ELSE conf' = conf
    /\ \/ what[p] = "push" /\ Exit(p)
       \/ what[p] = "both" /\ Goto(p, "machines") /\ UNCHANGED regVars
    /\ UNCHANGED <<size, stamp, salt, mark, copy, cursor, remoteVars, worldVars, seenVars>>

(***************************************************************************)
(* pull_all() and pull_machine()                                           *)
(***************************************************************************)
\* The clock of this pull, and other_machines(): who has rows at the remote.
PullMachines(p) ==
    /\ pc[p] = "machines"
    /\ \/ /\ todo' = [todo EXCEPT ![p] = {k \in Machines \ {Here(p)} :
                                            \E r \in Rows(k) : remote[k][r].size > 0}]
          /\ start' = [start EXCEPT ![p] = now]
          /\ Goto(p, "next")
          /\ UNCHANGED <<what, load, hash, wm, pos, from, at, page, lost>>
       \/ Fails(p)
    /\ UNCHANGED <<machineVars, remoteVars, worldVars, purged, blind, unfinished, crashes>>

\* Mutated form of Position: the window is one unit short.
PositionShort(c) == [c EXCEPT !.at = @ - Window + 1]

\* Where a pull begins to read: the stored cursor less the resend window.
Position(c) == [c EXCEPT !.at = @ - Window]

\* read_cursor() of the next machine, or the end of the command.
PullNext(p) ==
    /\ pc[p] = "next"
    /\ \/ todo[p] = {} /\ Exit(p)
       \/ \E k \in todo[p] :
            /\ todo' = [todo EXCEPT ![p] = @ \ {k}]
            /\ from' = [from EXCEPT ![p] = k]
            /\ at' = [at EXCEPT ![p] = Position(cursor[Here(p)][k])]
            /\ Goto(p, "page")
            /\ UNCHANGED <<what, load, hash, start, wm, pos, page>>
    /\ UNCHANGED <<machineVars, remoteVars, worldVars, seenVars>>

\* The place of a row of machine k in the order of its rows.
Place(k, r) == [at |-> remote[k][r].at, key |-> Key[k][r]]

\* page_sql: the first BatchRows rows after the position.
Page(p) ==
    LET k == from[p]
        after == {r \in Rows(k) : remote[k][r].size > 0 /\ Before(at[p], Place(k, r))}
    IN  {r \in after :
            Cardinality({s \in after : Before(Place(k, s), Place(k, r))}) < BatchRows}

\* read_page()
PullPage(p) ==
    LET k == from[p] IN
    /\ pc[p] = "page"
    /\ \/ /\ Page(p) = {} /\ Goto(p, "next")
          /\ UNCHANGED <<regVars, lost>>
       \/ /\ Page(p) # {}
          /\ page' = [page EXCEPT ![p] = {[row |-> r, size |-> remote[k][r].size,
                                           at |-> remote[k][r].at] : r \in Page(p)}]
          /\ at' = [at EXCEPT ![p] = CHOOSE c \in {Place(k, r) : r \in Page(p)} :
                                        \A r \in Page(p) : ~Before(c, Place(k, r))]
          /\ Goto(p, "commit")
          /\ UNCHANGED <<what, load, hash, start, wm, pos, todo, from, lost>>
       \/ Fails(p)
    /\ UNCHANGED <<machineVars, remoteVars, worldVars, purged, blind, unfinished, crashes>>

\* Mutated form of NewCursor: the place to read from is stored, not the last row.
NewCursorBack(old, last) == IF Before(old, last) THEN Position(last) ELSE old

\* WRITE_CURSOR_SQL: only moves forward.
NewCursor(old, last) == IF Before(old, last) THEN last ELSE old

\* What a page says of a row it has.
SizeOn(rows, r) == (CHOOSE row \in rows : row.row = r).size

\* commit_page(): the rows that are new or have grown, and the cursor, which
\* only moves forward, in one transaction.  A short page is the last one.
PullCommit(p) ==
    LET m == Here(p)
        k == from[p]
    IN  /\ pc[p] = "commit"
        /\ copy' = [copy EXCEPT ![m][k] =
              [r \in RowIds |->
                  IF \E row \in page[p] : row.row = r /\ row.size > @[r]
                  THEN SizeOn(page[p], r) ELSE @[r]]]
        /\ cursor' = [cursor EXCEPT ![m][k] = NewCursor(@, at[p])]
        /\ Goto(p, IF Cardinality(page[p]) < BatchRows THEN "next" ELSE "page")
        /\ page' = [page EXCEPT ![p] = {}]
        /\ UNCHANGED <<size, stamp, conf, salt, mark, remoteVars, what, load, hash, start,
                       wm, pos, todo, from, at, worldVars, seenVars>>

(***************************************************************************)
(* purge                                                                   *)
(***************************************************************************)
\* Settings are read; a machine that never synced has nothing to purge.  For
\* --all the person is asked before the next step.
PurgeLoad(p) ==
    /\ MayType(p, "purge")
    /\ \E scope \in Scopes \cap Commands[p] :
         /\ conf[Here(p)].enabled \/ salt[Here(p)] # 0 \/ scope # "machine"
         /\ what' = [what EXCEPT ![p] = scope]
    /\ Load(p, "purge")
    /\ UNCHANGED <<machineVars, remoteVars, hash, start, wm, pos, todo, from, at, page,
                   worldVars, seenVars>>

\* Mutated form of PurgeSave: sync is left on.
PurgeSaveLeavesOn(p) ==
    /\ pc[p] = "purge"
    /\ Goto(p, "delete")
    /\ UNCHANGED <<machineVars, remoteVars, regVars, worldVars, seenVars>>

\* Sync is turned off first.
PurgeSave(p) ==
    /\ pc[p] = "purge"
    /\ \/ load[p].enabled /\ Save(p, [load[p] EXCEPT !.enabled = FALSE])
       \/ ~load[p].enabled /\ conf' = conf
    /\ Goto(p, "delete")
    /\ UNCHANGED <<size, stamp, salt, mark, copy, cursor, remoteVars, regVars, worldVars,
                   purged, blind, unfinished, crashes, lost>>

\* The rows of an account, found by its hash.
DoomedOf(m, account, hashSalt) ==
    {<<m, r>> : r \in {s \in RowIds : AccountOf[s] = account /\ remote[m][s].salt = hashSalt}}

Delete(doomed) ==
    remote' = [k \in Machines |-> [r \in RowIds |->
                  IF <<k, r>> \in doomed THEN NoRow ELSE remote[k][r]]]

\* delete_remote() for --account: the salt, to hash the account's name.
PurgeSalt(p) ==
    /\ pc[p] = "delete" /\ what[p] = "account" /\ hash[p] = 0
    /\ EnsureSalt
    /\ hash' = [hash EXCEPT ![p] = rsalt']
    /\ UNCHANGED <<machineVars, remote, pc, what, load, start, wm, pos, todo, from, at,
                   page, now, seenVars>>

\* The deletes, one pipeline with no transaction around it: --all deletes the salt
\* after the rows.  The answer may be lost.
PurgeDelete(p) ==
    LET m == Here(p) IN
    /\ pc[p] = "delete"
    /\ \/ /\ what[p] = "account" /\ hash[p] # 0
          /\ \E a \in Accounts : Delete(DoomedOf(m, a, hash[p]))
          /\ UNCHANGED rsalt
       \/ what[p] = "machine" /\ Delete({<<m, r>> : r \in RowIds}) /\ UNCHANGED rsalt
       \/ what[p] = "all" /\ Delete(Machines \X RowIds) /\ rsalt' = 0
    /\ unfinished' = unfinished \cup {m}
    /\ \/ Goto(p, "clear") /\ UNCHANGED <<regVars, lost>>
       \/ LosesAnswer(p)
    /\ UNCHANGED <<machineVars, worldVars, purged, blind, crashes>>

\* The delete, or the question for the salt, fails: nothing happened, a salt was
\* made, or --all removed the rows and kept the salt.
PurgeFail(p) ==
    /\ pc[p] = "delete"
    /\ \/ Fails(p) /\ UNCHANGED <<remote, unfinished, rsalt, salts>>
       \/ /\ what[p] = "account" /\ hash[p] = 0 /\ LosesAnswer(p)
          /\ EnsureSalt
          /\ UNCHANGED <<remote, unfinished>>
       \/ /\ what[p] = "all" /\ LosesAnswer(p)
          /\ Delete(Machines \X RowIds)
          /\ unfinished' = Machines
          /\ UNCHANGED <<rsalt, salts>>
    /\ UNCHANGED <<machineVars, now, purged, blind, crashes>>

\* clear_local(): one transaction.
PurgeClear(p) ==
    LET m == Here(p) IN
    /\ pc[p] = "clear"
    /\ salt' = [salt EXCEPT ![m] = 0]
    /\ mark' = [mark EXCEPT ![m] = 0]
    /\ copy' = [copy EXCEPT ![m] = [k \in Machines |-> [r \in RowIds |-> 0]]]
    /\ cursor' = [cursor EXCEPT ![m] = [k \in Machines |-> Start]]
    /\ purged' = IF what[p] = "account" THEN purged ELSE purged \cup {m}
    /\ blind' = CASE what[p] # "account" -> blind \ {m}
                  [] what[p] = "account" /\ salt[m] \notin {0, hash[p]} -> blind \cup {m}
                  [] OTHER -> blind
    /\ unfinished' = unfinished \ {m}
    /\ Exit(p)
    /\ UNCHANGED <<size, stamp, conf, remoteVars, worldVars, crashes, lost>>

(***************************************************************************)
(* The environment                                                         *)
(***************************************************************************)
\* The collector records the next row, or a row grows while its answer streams.
Record(m, r) ==
    /\ \A s \in Rows(m) : s < r => size[m][s] > 0
    /\ size[m][r] < MaxSize[r]
    /\ size' = [size EXCEPT ![m][r] = @ + 1]
    /\ stamp' = IF size[m][r] = 0 THEN [stamp EXCEPT ![m][r] = now] ELSE stamp
    /\ UNCHANGED <<conf, salt, mark, copy, cursor, remoteVars, pc, regVars, worldVars, seenVars>>

\* Time passes.  A push and a pull last no longer than their bounds.
Tick ==
    /\ now < MaxNow /\ now' = now + 1
    /\ \A p \in Procs :
          /\ pc[p] \in PushPcs => now + 1 - start[p] <= MaxPush
          /\ pc[p] \in PullPcs => now + 1 - start[p] <= MaxPull
    /\ UNCHANGED <<machineVars, remoteVars, pc, regVars, salts, seenVars>>

Crash(p) ==
    /\ pc[p] # "idle" /\ crashes < MaxCrashes
    /\ crashes' = crashes + 1
    /\ Exit(p)
    /\ UNCHANGED <<machineVars, remoteVars, worldVars, purged, blind, unfinished, lost>>
-----------------------------------------------------------------------------
Push(p) == PushStart(p) \/ PushMark(p) \/ PushBatch(p) \/ PushRaise(p) \/ PushEnd(p)
Pull(p) == PullMachines(p) \/ PullNext(p) \/ PullPage(p) \/ PullCommit(p)
Purge(p) == PurgeLoad(p) \/ PurgeSave(p) \/ PurgeSalt(p) \/ PurgeDelete(p)
            \/ PurgeFail(p) \/ PurgeClear(p)

Next ==
    \/ \E p \in Procs : \/ EnableLoad(p) \/ EnableSave(p) \/ DisableLoad(p) \/ DisableSave(p)
                        \/ SyncStart(p) \/ SyncSalt(p) \/ SyncAdopt(p) \/ SyncStore(p)
                        \/ Push(p) \/ Pull(p) \/ Purge(p) \/ Crash(p)
    \/ \E m \in Machines : \E r \in Rows(m) : Record(m, r)
    \/ Tick

Spec == Init /\ [][Next]_vars

(***************************************************************************)
(* Properties                                                              *)
(***************************************************************************)
\* Whatever the remote has and a machine lacks, the machine's next pull reads: no
\* row, and no growth of a row, comes to lie behind the cursor.  A push stamps its
\* rows with the time it began and event ids are in no order, so rows do arrive
\* behind rows that were already read; the window that pull reads again makes up
\* for that.
NothingBehindCursor ==
    \A m \in Machines : \A k \in Machines \ {m} : \A r \in Rows(k) :
        remote[k][r].size > copy[m][k][r] => Before(Position(cursor[m][k]), Place(k, r))

\* A row behind the watermark is at the remote if its account is on the list:
\* also after a changed list, a killed push and a purge.  A purge that did not
\* end, and a salt that changed, tell the machine to purge again.
SentBehindMark ==
    \A m \in Machines : \A r \in Rows(m) :
        /\ m \notin unfinished /\ salt[m] # 0 /\ salt[m] = rsalt
        /\ ~conf[m].reset /\ AccountOf[r] \in conf[m].accounts
        /\ size[m][r] > 0 /\ r <= mark[m]
        => remote[m][r].size > 0

\* A machine that left rows under an old salt at the remote, because its push was
\* under way during a `purge --all`, finds that out: its stored salt is not the
\* remote's, and its next sync is refused.  Only a `purge --account`, which hashes
\* the name with the new salt, finds nothing, and still forgets the old salt, ends
\* that.
OldHashIsNoticed ==
    rsalt # 0 => \A m \in Machines \ blind : \A r \in Rows(m) :
        remote[m][r].size > 0 /\ remote[m][r].salt # rsalt => salt[m] # rsalt

\* After a purge a machine has no rows at the remote until it is enabled again.
PurgeLeavesNothing ==
    \A m \in purged : \A r \in Rows(m) : remote[m][r].size = 0
=============================================================================
