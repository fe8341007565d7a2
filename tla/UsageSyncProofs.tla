-------------------------- MODULE UsageSyncProofs --------------------------
(***************************************************************************)
(* The usage sync, for any number of machines, processes, rows, accounts,  *)
(* salts and failures.  Two separate arguments:                            *)
(*                                                                         *)
(* - Nothing comes to lie behind a cursor: whatever a pull has not got yet *)
(*   is ahead of where it reads, is on the page in its hands, or was stamped *)
(*   so late that the next pull reads it again (ReadInv).  This holds with *)
(*   any number of commands at once on a machine, but not if one is purged *)
(*   while another pulls.                                                  *)
(* - What a machine has sent, under which salt, and what a purge leaves:   *)
(*   here a machine runs one command at a time, so what the command holds  *)
(*   is what the machine stores (HeldInv).                                 *)
(***************************************************************************)
EXTENDS UsageSync, FiniteSetTheorems, TLAPS

\* The hypotheses of the theorems about purges and about what was sent.
PurgeRunsAlone == "purge" \in Alone
OneAtATime == \A p, q \in Procs : Here(p) = Here(q) => p = q

PurgePcs == {"purge", "delete", "clear"}

-----------------------------------------------------------------------------
(* The invariants                                                           *)

\* A push and a pull in progress began within their bounds.
TimeInv ==
    \A p \in Procs :
        /\ pc[p] \in PushPcs \cup PullPcs => start[p] <= now
        /\ pc[p] \in PushPcs => now - start[p] <= MaxPush
        /\ pc[p] \in PullPcs => now - start[p] <= MaxPull

\* No stamp is in the future.
StampInv ==
    /\ \A k \in Machines : \A r \in Rows(k) : remote[k][r].at <= now
    /\ \A m, k \in Machines : cursor[m][k].at <= now
    /\ \A p \in Procs : pc[p] \in {"page", "commit"} => at[p].at <= now

\* While a machine is purged it runs nothing else.
AloneInv ==
    \A p, q \in Procs :
        p # q /\ Here(p) = Here(q) /\ pc[p] \in PurgePcs => pc[q] = "idle"

\* A page has a row at most once.
PageInv ==
    \A p \in Procs : pc[p] = "commit" =>
        \A x, y \in page[p] : x.row = y.row => x = y

\* What machine m lacks of the row r of k.
Lacks(m, k, r) == remote[k][r].size > copy[m][k][r]

\* A row came while this pull was under way.
CameLate(p, r) == remote[from[p]][r].at >= start[p] - MaxPush

OnPage(p, r) ==
    pc[p] = "commit" /\ \E x \in page[p] : x.row = r /\ x.size = remote[from[p]][r].size

\* Whatever a machine lacks a pull under way will read, or the next one.
ReadInv ==
    \A p \in Procs : pc[p] \in {"page", "commit"} /\ from[p] # Here(p) =>
        \A r \in Rows(from[p]) : Lacks(Here(p), from[p], r) =>
            Before(at[p], Place(from[p], r)) \/ CameLate(p, r) \/ OnPage(p, r)

WindowInv == TimeInv /\ StampInv /\ AloneInv /\ PageInv /\ ReadInv /\ NothingBehindCursor

\* A purge turns sync off, and a machine with sync off does not start one.
PurgeInv ==
    /\ \A m \in purged :
          /\ ~conf[m].enabled
          /\ \A p \in Procs : Here(p) = m => pc[p] \notin SyncPcs
    /\ \A p \in Procs :
          /\ pc[p] \in PurgePcs => what[p] \in Scopes
          /\ pc[p] = "purge" => load[p] = conf[Here(p)]
          /\ pc[p] \in {"delete", "clear"} => ~conf[Here(p)].enabled
          /\ pc[p] = "clear" /\ what[p] # "account"
                => \A r \in RowIds : remote[Here(p)][r].size = 0

\* What a command has in memory of what its machine stores: sync.json, while it
\* will write it again; the salt, once it has adopted it; no place in the rows
\* before it sends some, and no salt before it asked for one.
WriterPcs == {"enable", "disable", "purge", "salt", "adopt", "store", "push", "mark", "batch",
              "raise", "pushed"}
SaltedPcs == {"push", "mark", "batch", "raise", "pushed", "machines", "next", "page", "commit"}
SendingPcs == {"batch", "raise", "pushed", "machines", "next", "page", "commit"}

HeldBy(p) ==
    /\ pc[p] \in WriterPcs => load[p] = conf[Here(p)]
    /\ pc[p] \in SaltedPcs => salt[Here(p)] = hash[p]
    /\ pc[p] \in SaltedPcs \cup {"adopt", "store"} => hash[p] # 0
    /\ pc[p] = "store" => salt[Here(p)] = 0
    /\ pc[p] \notin SendingPcs => pos[p] = 0
    /\ pc[p] \in {"idle", "purge"} => hash[p] = 0

HeldInv == \A p \in Procs : HeldBy(p)

\* Salts are numbered as they are made; 0 is none.
SaltInv ==
    /\ rsalt \in {0, salts}
    /\ \A m \in Machines : salt[m] <= salts
    /\ \A p \in Procs : hash[p] <= salts
    /\ \A m \in Machines : \A r \in RowIds : remote[m][r].size > 0 => remote[m][r].salt \in 1 .. salts

\* Rowids are given out in order, and only recorded rows were sent.
OrderInv ==
    /\ \A m \in Machines : \A r, s \in Rows(m) : s < r /\ size[m][r] > 0 => size[m][s] > 0
    /\ \A m \in Machines : \A r \in Rows(m) : r <= mark[m] => size[m][r] > 0
    /\ \A p \in Procs : \A r \in Rows(Here(p)) :
          pc[p] \in {"batch", "raise"} /\ (r <= wm[p] \/ r <= pos[p]) => size[Here(p)][r] > 0
    /\ \A m \in Machines : salt[m] = 0 => mark[m] = 0

\* The rows of m up to n that it may share are at the remote.
Sent(m, n, accounts) ==
    \A r \in Rows(m) :
        AccountOf[r] \in accounts /\ size[m][r] > 0 /\ r <= n => remote[m][r].size > 0

\* A machine whose rows at the remote are those it sent.
Whole(m) == m \notin unfinished /\ salt[m] # 0 /\ salt[m] = rsalt

\* A push in progress has sent what is behind the watermark, what it read of it,
\* and what is behind its own position.
PushInv ==
    \A p \in Procs : Whole(Here(p)) =>
        /\ pc[p] \in {"mark", "batch", "raise", "pushed"}
              => Sent(Here(p), mark[Here(p)], load[p].accounts)
        /\ pc[p] \in {"batch", "raise"}
              => Sent(Here(p), wm[p], load[p].accounts) /\ Sent(Here(p), pos[p], load[p].accounts)

\* Rows with another salt than the remote's are those of a machine that still
\* has that salt.
OldRowsInv ==
    \A m \in Machines \ blind : \A r \in RowIds :
        remote[m][r].size > 0 /\ remote[m][r].salt # rsalt => remote[m][r].salt = salt[m]

\* If the remote's salt was replaced while a purge holds it, the rows went too.
PurgeHashInv ==
    \A p \in Procs : pc[p] \in {"delete", "clear"} =>
        /\ hash[p] \notin {0, rsalt} => \A r \in RowIds : remote[Here(p)][r].size = 0
        /\ pc[p] = "clear" /\ what[p] = "account" => hash[p] # 0

SentInv == HeldInv /\ SaltInv /\ OrderInv /\ PushInv /\ SentBehindMark
HashInv == HeldInv /\ SaltInv /\ PurgeInv /\ OldRowsInv /\ PurgeHashInv

-----------------------------------------------------------------------------
(* Types, and what a step leaves alone                                      *)

\* The steps of one command.
CommandStep(p) ==
    \/ EnableLoad(p) \/ EnableSave(p) \/ DisableLoad(p) \/ DisableSave(p)
    \/ SyncStart(p) \/ SyncSalt(p) \/ SyncAdopt(p) \/ SyncStore(p)
    \/ Push(p) \/ Pull(p) \/ Purge(p) \/ Crash(p)

\* The registers of process q keep their values.
Kept(q) ==
    /\ pc'[q] = pc[q] /\ what'[q] = what[q] /\ load'[q] = load[q] /\ hash'[q] = hash[q]
    /\ start'[q] = start[q] /\ wm'[q] = wm[q] /\ pos'[q] = pos[q] /\ todo'[q] = todo[q]
    /\ from'[q] = from[q] /\ at'[q] = at[q] /\ page'[q] = page[q]

\* The files of machine m that commands write keep their contents.
FilesKept(m) ==
    /\ conf'[m] = conf[m] /\ salt'[m] = salt[m] /\ mark'[m] = mark[m]
    /\ copy'[m] = copy[m] /\ cursor'[m] = cursor[m]

LEMMA Ends ==
  ASSUME TypeOK, NEW p \in Procs, Exit(p)
  PROVE  /\ RegOK'
         /\ pc'[p] = "idle" /\ hash'[p] = 0 /\ pos'[p] = 0
         /\ \A q \in Procs \ {p} : Kept(q)
  <1>1. Off \in Settings /\ Start \in Positions /\ Here(p) \in Machines /\ "idle" \in Pcs
    BY SyncAssumption DEF Settings, Off, Start, Positions, Here, Pcs
  <1>2. RegOK'
    BY <1>1 DEF Exit, Goto, TypeOK, RegOK
  <1>3. \A q \in Procs \ {p} : Kept(q)
    BY DEF Exit, Goto, TypeOK, RegOK, Kept
  <1> QED BY <1>2, <1>3 DEF Exit, Goto, TypeOK, RegOK

LEMMA EnableType ==
  ASSUME TypeOK, NEW p \in Procs,
         EnableLoad(p) \/ EnableSave(p) \/ DisableLoad(p) \/ DisableSave(p)
  PROVE  /\ TypeOK'
         /\ \A q \in Procs \ {p} : Kept(q)
         /\ \A m \in Machines \ {Here(p)} : FilesKept(m)
         /\ UNCHANGED <<size, stamp, now, remote, rsalt, salts>>
  <1>1. Here(p) \in Machines
    BY SyncAssumption DEF Here
  <1>2. CASE EnableLoad(p) \/ DisableLoad(p)
    <2>1. UNCHANGED <<machineVars, remoteVars, worldVars, seenVars>>
      BY <1>2 DEF EnableLoad, DisableLoad
    <2>2. RegOK'
      BY <1>1, <1>2 DEF EnableLoad, DisableLoad, Load, Goto, TypeOK, RegOK, MachineOK, Pcs
    <2>3. \A q \in Procs \ {p} : Kept(q)
      BY <1>2 DEF EnableLoad, DisableLoad, Load, Goto, TypeOK, RegOK, Kept
    <2> QED BY <2>1, <2>2, <2>3
            DEF TypeOK, MachineOK, FilesKept, machineVars, remoteVars, worldVars, seenVars
  <1>3. CASE EnableSave(p)
    <2>1. PICK accounts \in Lists : conf' = [conf EXCEPT ![Here(p)] =
             [enabled |-> TRUE, accounts |-> accounts, reset |-> ResetAfter(load[p], accounts)]]
      BY <1>3 DEF EnableSave, Save
    <2>2. ResetAfter(load[p], accounts) \in BOOLEAN
      BY DEF ResetAfter, TypeOK, RegOK, Settings
    <2>3. conf' \in [Machines -> Settings]
      BY <1>1, <2>1, <2>2, SyncAssumption DEF TypeOK, MachineOK, Settings
    <2>4. MachineOK' /\ \A m \in Machines \ {Here(p)} : FilesKept(m)
      BY <1>3, <2>1, <2>3 DEF EnableSave, TypeOK, MachineOK, FilesKept
    <2> QED BY <1>3, <2>4, Ends DEF EnableSave, TypeOK, remoteVars, worldVars
  <1>4. CASE DisableSave(p)
    <2>1. conf' \in [Machines -> Settings]
      <3>1. [load[p] EXCEPT !.enabled = FALSE] \in Settings
        <4>1. load[p] \in Settings
          BY DEF TypeOK, RegOK
        <4> QED BY <4>1 DEF Settings
      <3> QED BY <1>1, <1>4, <3>1 DEF DisableSave, Save, TypeOK, MachineOK
    <2>2. MachineOK' /\ \A m \in Machines \ {Here(p)} : FilesKept(m)
      BY <1>4, <2>1 DEF DisableSave, Save, TypeOK, MachineOK, FilesKept
    <2> QED BY <1>4, <2>2, Ends DEF DisableSave, TypeOK, remoteVars, worldVars
  <1> QED BY <1>2, <1>3, <1>4

\* A salt is made only if there is none, and is a new number.
LEMMA SaltMade ==
  ASSUME TypeOK, EnsureSalt
  PROVE  /\ rsalt' \in Nat /\ salts' \in Nat
         /\ \/ UNCHANGED <<rsalt, salts>> /\ rsalt # 0
            \/ rsalt = 0 /\ salts' = salts + 1 /\ rsalt' = salts'
  BY DEF EnsureSalt, TypeOK

LEMMA SaltType ==
  ASSUME TypeOK, NEW p \in Procs,
         SyncStart(p) \/ SyncSalt(p) \/ SyncAdopt(p) \/ SyncStore(p)
  PROVE  /\ TypeOK'
         /\ \A q \in Procs \ {p} : Kept(q)
         /\ \A m \in Machines \ {Here(p)} : FilesKept(m)
         /\ UNCHANGED <<size, stamp, now, remote, conf, mark, copy, cursor, purged, blind, unfinished>>
  <1>1. Here(p) \in Machines
    BY SyncAssumption DEF Here
  <1>2. CASE SyncStart(p)
    BY <1>1, <1>2 DEF SyncStart, Load, Goto, TypeOK, RegOK, MachineOK, Kept, FilesKept,
       Pcs, SyncPcs, machineVars, remoteVars, worldVars, seenVars
  <1>3. CASE SyncSalt(p)
    <2>1. MachineOK' /\ \A m \in Machines \ {Here(p)} : FilesKept(m)
      BY <1>3 DEF SyncSalt, machineVars, TypeOK, MachineOK, FilesKept
    <2>2. (EnsureSalt \/ UNCHANGED <<rsalt, salts>>) /\ rsalt' \in Nat /\ salts' \in Nat
      BY <1>3, SaltMade DEF SyncSalt, TypeOK
    <2>3. CASE Exit(p)
      BY <1>3, <2>1, <2>2, <2>3, Ends DEF SyncSalt, Fails, LosesAnswer, TypeOK, machineVars
    <2>4. CASE ~Exit(p)
      <3>1. /\ hash' = [hash EXCEPT ![p] = rsalt'] /\ Goto(p, "adopt") /\ "adopt" \in Pcs
            /\ UNCHANGED <<what, load, start, wm, pos, todo, from, at, page, lost>>
        BY <1>3, <2>4 DEF SyncSalt, Fails, LosesAnswer, Pcs, SyncPcs
      <3>2. RegOK' /\ \A q \in Procs \ {p} : Kept(q)
        BY <2>2, <3>1 DEF Goto, TypeOK, RegOK, Kept
      <3> QED BY <1>3, <2>1, <2>2, <3>1, <3>2 DEF SyncSalt, TypeOK, machineVars
    <2> QED BY <2>3, <2>4
  <1>4. CASE SyncAdopt(p)
    <2>1. MachineOK' /\ \A m \in Machines \ {Here(p)} : FilesKept(m)
      BY <1>4 DEF SyncAdopt, machineVars, TypeOK, MachineOK, FilesKept
    <2>2. RegOK' /\ \A q \in Procs \ {p} : Kept(q)
      <3>1. CASE Exit(p)
        BY <3>1, Ends
      <3>2. CASE ~Exit(p)
        BY <1>4, <3>2 DEF SyncAdopt, FirstHalf, Goto, TypeOK, RegOK, Kept, Pcs, SyncPcs, regVars
      <3> QED BY <3>1, <3>2
    <2> QED BY <1>4, <2>1, <2>2 DEF SyncAdopt, TypeOK, machineVars, remoteVars, worldVars, seenVars
  <1>5. CASE SyncStore(p)
    <2>1. MachineOK' /\ \A m \in Machines \ {Here(p)} : FilesKept(m)
      BY <1>1, <1>5 DEF SyncStore, TypeOK, MachineOK, FilesKept, RegOK
    <2>2. RegOK' /\ \A q \in Procs \ {p} : Kept(q)
      BY <1>5 DEF SyncStore, FirstHalf, Goto, TypeOK, RegOK, Kept, Pcs, SyncPcs, regVars
    <2> QED BY <1>5, <2>1, <2>2 DEF SyncStore, TypeOK, remoteVars, worldVars, seenVars
  <1> QED BY <1>2, <1>3, <1>4, <1>5

\* A bounded set of numbers has a greatest one.
LEMMA GreatestNumber ==
  ASSUME NEW S \in SUBSET Nat, S # {}, NEW b \in Nat, \A n \in S : n <= b
  PROVE  \E m \in S : \A n \in S : n <= m
  <1> DEFINE Below == {d \in Nat : \E n \in S : d = b - n}
  <1>1. \A n \in S : n \in Nat /\ b - n \in Nat
    OBVIOUS
  <1>2. Below \in SUBSET Nat /\ Below # {}
    BY <1>1
  <1>3. PICK d \in Below : \A e \in Below : <<e, d>> \notin OpToRel(<, Nat)
    BY <1>2, NatLessThanWellFounded, WFMin
  <1>4. PICK m \in S : d = b - m
    BY <1>3
  <1>5. ASSUME NEW n \in S PROVE n <= m
    <2>1. b - n \in Below /\ b - n \in Nat /\ b - m \in Nat
      BY <1>1
    <2>2. ~(b - n < b - m)
      BY <1>3, <1>4, <2>1 DEF OpToRel
    <2> QED BY <1>1, <2>2
  <1> QED BY <1>5

\* A batch is the first rows of those to send.
LEMMA BatchIsFirst ==
  ASSUME TypeOK, NEW p \in Procs
  PROVE  /\ Batch(p) \subseteq ToSend(p) /\ ToSend(p) \subseteq Rows(Here(p))
         /\ Rows(Here(p)) \subseteq RowIds
         /\ Batch(p) # {} =>
               LET last == CHOOSE r \in Batch(p) : \A s \in Batch(p) : s <= r IN
               /\ last \in Batch(p)
               /\ \A r \in ToSend(p) : r <= last => r \in Batch(p)
  <1> DEFINE all == ToSend(p)
             batch == Batch(p)
             last == CHOOSE r \in batch : \A s \in batch : s <= r
             B(r) == {s \in all : s < r}
  <1>1. Here(p) \in Machines /\ LastRow[Here(p)] \in Nat
    BY SyncAssumption DEF Here
  <1>2. all \subseteq 1 .. LastRow[Here(p)] /\ batch = {r \in all : Cardinality(B(r)) < BatchRows}
    BY DEF ToSend, Batch, Rows
  <1>3. Rows(Here(p)) \subseteq RowIds
    BY <1>1 DEF RowIds
  <1> HIDE DEF all, batch
  <1>4. batch \subseteq all /\ batch \subseteq 1 .. LastRow[Here(p)]
    BY <1>2
  <1>5. 1 .. LastRow[Here(p)] \subseteq Nat /\ \A n \in 1 .. LastRow[Here(p)] : n <= LastRow[Here(p)]
    BY <1>1
  <1>6. ASSUME batch # {} PROVE last \in batch /\ \A s \in batch : s <= last
    <2>1. batch \in SUBSET Nat /\ \A n \in batch : n <= LastRow[Here(p)]
      BY <1>4, <1>5
    <2>2. \E r \in batch : \A s \in batch : s <= r
      BY <1>1, <1>6, <2>1, GreatestNumber
    <2> QED BY <2>2
  <1> HIDE DEF last
  <1>7. ASSUME batch # {}, NEW r \in all, r <= last PROVE r \in batch
    <2>1. B(r) \subseteq B(last) /\ B(last) \subseteq 1 .. LastRow[Here(p)]
      <3>1. last \in Nat /\ r \in Nat /\ all \subseteq Nat
        BY <1>2, <1>4, <1>5, <1>6, <1>7
      <3>2. B(r) \subseteq B(last)
        <4>1. ASSUME NEW s \in all, s < r PROVE s < last
          <5>1. s \in Nat
            BY <3>1
          <5> QED BY <1>7, <3>1, <4>1, <5>1
        <4> QED BY <4>1
      <3>3. B(last) \subseteq all
        OBVIOUS
      <3> QED BY <1>2, <3>2, <3>3
    <2> HIDE DEF B
    <2>2. IsFiniteSet(B(last))
      <3>1. IsFiniteSet(1 .. LastRow[Here(p)])
        BY <1>1, FS_Interval
      <3> QED BY <2>1, <3>1, FS_Subset
    <2>3. Cardinality(B(r)) <= Cardinality(B(last)) /\ IsFiniteSet(B(r))
      BY <2>1, <2>2, FS_Subset
    <2>4. Cardinality(B(last)) < BatchRows
      BY <1>2, <1>6, <1>7
    <2>5. Cardinality(B(r)) \in Nat /\ Cardinality(B(last)) \in Nat /\ BatchRows \in Nat
      BY <2>2, <2>3, FS_CardinalityType, SyncAssumption
    <2>6. Cardinality(B(r)) < BatchRows
      BY <2>3, <2>4, <2>5
    <2> QED BY <1>2, <1>7, <2>6
  <1> QED BY <1>2, <1>3, <1>6, <1>7 DEF all, batch, last, Rows

\* What an upsert does to one row.
LEMMA Upserted ==
  ASSUME TypeOK, NEW p \in Procs, NEW batch, Upsert(p, batch)
  PROVE  /\ remote' \in [Machines -> [RowIds -> RemoteRow]]
         /\ \A m \in Machines \ {Here(p)} : remote'[m] = remote[m]
         /\ \A r \in RowIds :
               \/ remote'[Here(p)][r] = remote[Here(p)][r]
               \/ /\ r \in batch /\ remote'[Here(p)][r].at = start[p]
                  /\ remote'[Here(p)][r].size > 0
                  /\ remote'[Here(p)][r].salt =
                        IF remote[Here(p)][r].size = 0 THEN hash[p] ELSE remote[Here(p)][r].salt
         /\ \A r \in RowIds : r \in batch /\ size[Here(p)][r] > 0 => remote'[Here(p)][r].size > 0
         /\ \A r \in RowIds : remote[Here(p)][r].size > 0 => remote'[Here(p)][r].size > 0
  <1> DEFINE m == Here(p)
             new(r) == IF r \in batch /\ size[m][r] > remote[m][r].size
                       THEN [size |-> size[m][r], at |-> start[p],
                             salt |-> IF remote[m][r].size = 0 THEN hash[p] ELSE remote[m][r].salt]
                       ELSE remote[m][r]
  <1>1. m \in Machines /\ start[p] \in Nat /\ hash[p] \in Nat
    BY SyncAssumption DEF Here, TypeOK, RegOK
  <1>2. \A r \in RowIds : size[m][r] \in Nat /\ remote[m][r] \in RemoteRow
    BY <1>1 DEF TypeOK, MachineOK
  <1>3. \A r \in RowIds : remote[m][r].size \in Nat /\ remote[m][r].salt \in Nat
    BY <1>2 DEF RemoteRow
  <1>4. \A r \in RowIds : new(r) \in RemoteRow
    BY <1>1, <1>2, <1>3 DEF RemoteRow
  <1>5. remote' = [remote EXCEPT ![m] = [r \in RowIds |-> new(r)]]
    BY DEF Upsert
  <1>6. \A r \in RowIds :
          \/ new(r) = remote[m][r] /\ ~(r \in batch /\ size[m][r] > remote[m][r].size)
          \/ /\ r \in batch /\ new(r).at = start[p] /\ new(r).size > 0
             /\ new(r).salt = IF remote[m][r].size = 0 THEN hash[p] ELSE remote[m][r].salt
    BY <1>2, <1>3
  <1>7. \A r \in RowIds : /\ r \in batch /\ size[m][r] > 0 => new(r).size > 0
                          /\ remote[m][r].size > 0 => new(r).size > 0
    BY <1>2, <1>3, <1>6
  <1>8. remote'[m] = [r \in RowIds |-> new(r)]
    BY <1>1, <1>5 DEF TypeOK
  <1>9. \A r \in RowIds : remote'[m][r] = new(r)
    BY <1>8
  <1> HIDE DEF new
  <1>10. remote' \in [Machines -> [RowIds -> RemoteRow]]
    BY <1>4, <1>5 DEF TypeOK
  <1>11. \A k \in Machines \ {m} : remote'[k] = remote[k]
    BY <1>5 DEF TypeOK
  <1> QED BY <1>6, <1>7, <1>9, <1>10, <1>11

LEMMA PushType ==
  ASSUME TypeOK, NEW p \in Procs, Push(p)
  PROVE  /\ TypeOK'
         /\ \A q \in Procs \ {p} : Kept(q)
         /\ \A m \in Machines \ {Here(p)} : FilesKept(m)
         /\ UNCHANGED <<size, stamp, now, rsalt, salts, salt, copy, cursor, purged, blind, unfinished>>
  <1>1. Here(p) \in Machines
    BY SyncAssumption DEF Here
  <1>2. CASE PushStart(p)
    <2>1. mark' \in [Machines -> Nat] /\ \A m \in Machines \ {Here(p)} : mark'[m] = mark[m]
      BY <1>1, <1>2 DEF PushStart, TypeOK, MachineOK
    <2>2. RegOK' /\ \A q \in Procs \ {p} : Kept(q)
      BY <1>2 DEF PushStart, Goto, TypeOK, RegOK, Kept, Pcs, SyncPcs
    <2> QED BY <1>2, <2>1, <2>2
            DEF PushStart, TypeOK, MachineOK, FilesKept, remoteVars, worldVars, seenVars
  <1>3. CASE PushMark(p)
    <2>1. RegOK' /\ \A q \in Procs \ {p} : Kept(q)
      <3>1. CASE Exit(p)
        BY <3>1, Ends
      <3>2. CASE ~Exit(p)
        <4>1. /\ wm' = [wm EXCEPT ![p] = mark[Here(p)]] /\ pc' = [pc EXCEPT ![p] = "batch"]
              /\ UNCHANGED <<what, load, hash, start, pos, todo, from, at, page>>
          BY <1>3, <3>2 DEF PushMark, Fails, Goto
        <4>2. mark[Here(p)] \in Nat /\ "batch" \in Pcs
          BY <1>1 DEF TypeOK, MachineOK, Pcs, SyncPcs
        <4> QED BY <4>1, <4>2 DEF TypeOK, RegOK, Kept
      <3> QED BY <3>1, <3>2
    <2> QED BY <1>3, <2>1
            DEF PushMark, Fails, TypeOK, MachineOK, FilesKept, machineVars, remoteVars, worldVars
  <1>4. CASE PushBatch(p)
    <2>1. UNCHANGED <<machineVars, rsalt, worldVars, purged, blind, unfinished, crashes>>
      BY <1>4 DEF PushBatch
    <2>2. remote' \in [Machines -> [RowIds -> RemoteRow]] /\ lost' \in Nat
      BY <1>4, Upserted DEF PushBatch, Fails, LosesAnswer, TypeOK
    <2>3. RegOK' /\ \A q \in Procs \ {p} : Kept(q)
      <3>1. CASE Exit(p)
        BY <3>1, Ends
      <3>2. CASE Goto(p, "pushed") /\ UNCHANGED regVars
        BY <3>2 DEF Goto, TypeOK, RegOK, Kept, Pcs, SyncPcs, regVars
      <3>3. CASE /\ Batch(p) # {}
                 /\ pos' = [pos EXCEPT ![p] = CHOOSE r \in Batch(p) : \A s \in Batch(p) : s <= r]
                 /\ Goto(p, "raise")
                 /\ UNCHANGED <<what, load, hash, start, wm, todo, from, at, page>>
        <4>1. PICK n \in Nat : pos' = [pos EXCEPT ![p] = n]
          <5> DEFINE n == CHOOSE r \in Batch(p) : \A s \in Batch(p) : s <= r
          <5>1. n \in Rows(Here(p))
            BY <3>3, BatchIsFirst
          <5>2. n \in Nat
            BY <1>1, <5>1, SyncAssumption DEF Rows
          <5> QED BY <3>3, <5>2
        <4>2. /\ pc' = [pc EXCEPT ![p] = "raise"] /\ "raise" \in Pcs
              /\ UNCHANGED <<what, load, hash, start, wm, todo, from, at, page>>
          BY <3>3 DEF Goto, Pcs, SyncPcs
        <4> QED BY <4>1, <4>2 DEF TypeOK, RegOK, Kept
      <3> QED BY <1>4, <3>1, <3>2, <3>3 DEF PushBatch, Fails, LosesAnswer
    <2> QED BY <2>1, <2>2, <2>3 DEF TypeOK, MachineOK, FilesKept, machineVars, worldVars
  <1>5. CASE PushRaise(p)
    <2>1. mark' \in [Machines -> Nat] /\ \A m \in Machines \ {Here(p)} : mark'[m] = mark[m]
      BY <1>1, <1>5 DEF PushRaise, TypeOK, MachineOK, RegOK
    <2>2. RegOK' /\ \A q \in Procs \ {p} : Kept(q)
      BY <1>5 DEF PushRaise, Goto, TypeOK, RegOK, Kept, Pcs, SyncPcs, regVars
    <2> QED BY <1>5, <2>1, <2>2
            DEF PushRaise, TypeOK, MachineOK, FilesKept, remoteVars, worldVars, seenVars
  <1>6. CASE PushEnd(p)
    <2>1. conf' \in [Machines -> Settings] /\ \A m \in Machines \ {Here(p)} : conf'[m] = conf[m]
      <3>1. [load[p] EXCEPT !.reset = FALSE] \in Settings
        <4>1. load[p] \in Settings
          BY DEF TypeOK, RegOK
        <4> QED BY <4>1 DEF Settings
      <3> QED BY <1>1, <1>6, <3>1 DEF PushEnd, Save, TypeOK, MachineOK
    <2>2. RegOK' /\ \A q \in Procs \ {p} : Kept(q)
      <3>1. CASE Exit(p)
        BY <3>1, Ends
      <3>2. CASE ~Exit(p)
        BY <1>6, <3>2 DEF PushEnd, Goto, TypeOK, RegOK, Kept, Pcs, SyncPcs, regVars
      <3> QED BY <3>1, <3>2
    <2> QED BY <1>6, <2>1, <2>2
            DEF PushEnd, TypeOK, MachineOK, FilesKept, remoteVars, worldVars, seenVars
  <1> QED BY <1>2, <1>3, <1>4, <1>5, <1>6 DEF Push

LEMMA PlaceOrder ==
  ASSUME TypeOK, NEW k \in Machines
  PROVE  /\ Rows(k) \subseteq RowIds /\ IsFiniteSet(Rows(k))
         /\ \A r \in Rows(k) : /\ Place(k, r).at \in Nat /\ Place(k, r).at = remote[k][r].at
                               /\ Place(k, r).key \in Nat
                               /\ ~Before(Place(k, r), Place(k, r))
         /\ \A r, s \in Rows(k) : r # s => Before(Place(k, r), Place(k, s)) \/ Before(Place(k, s), Place(k, r))
         /\ \A r, s, t \in Rows(k) : Before(Place(k, r), Place(k, s)) /\ Before(Place(k, s), Place(k, t))
                                    => Before(Place(k, r), Place(k, t))
         /\ \A r, s \in Rows(k) : ~(Before(Place(k, r), Place(k, s)) /\ Before(Place(k, s), Place(k, r)))
  <1>1. Rows(k) \subseteq RowIds
    BY DEF RowIds
  <1>2. IsFiniteSet(Rows(k))
    <2>1. LastRow[k] \in Nat
      BY SyncAssumption
    <2> QED BY <2>1, FS_Interval DEF Rows
  <1>3. \A r \in RowIds : remote[k][r].at \in Nat /\ Key[k][r] \in Nat
    BY SyncAssumption DEF TypeOK, RemoteRow
  <1>4. \A r, s \in RowIds : r # s => Key[k][r] # Key[k][s]
    BY SyncAssumption
  <1>5. \A r \in Rows(k) : /\ Place(k, r).at \in Nat /\ Place(k, r).at = remote[k][r].at
                           /\ Place(k, r).key \in Nat /\ Place(k, r).key = Key[k][r]
    BY <1>1, <1>3 DEF Place
  <1> QED BY <1>1, <1>2, <1>4, <1>5 DEF Before

\* A page is the first rows after the place where the pull reads, and the pull
\* goes on behind the last of them.
LEMMA PageIsFirst ==
  ASSUME TypeOK, NEW p \in Procs
  PROVE  LET k == from[p]
             last == CHOOSE c \in {Place(k, r) : r \in Page(p)} : \A r \in Page(p) : ~Before(c, Place(k, r))
         IN  /\ Page(p) \subseteq Rows(k)
             /\ Page(p) # {} => \E r \in Page(p) : last = Place(k, r)
             /\ \A r \in Rows(k) : /\ Page(p) # {} /\ remote[k][r].size > 0
                                   /\ Before(at[p], Place(k, r)) /\ r \notin Page(p)
                                   => Before(last, Place(k, r))
  <1> DEFINE k == from[p]
             last == CHOOSE c \in {Place(k, r) : r \in Page(p)} : \A r \in Page(p) : ~Before(c, Place(k, r))
             after == {r \in Rows(k) : remote[k][r].size > 0 /\ Before(at[p], Place(k, r))}
             Ahead(r) == {s \in after : Before(Place(k, s), Place(k, r))}
             rows == Page(p)
  <1>1. k \in Machines
    BY DEF TypeOK, RegOK
  <1>2. rows = {r \in after : Cardinality(Ahead(r)) < BatchRows}
    BY DEF Page
  <1>3. after \subseteq Rows(k)
    OBVIOUS
  <1>4. \A r, s \in after : r # s => Before(Place(k, r), Place(k, s)) \/ Before(Place(k, s), Place(k, r))
    BY <1>1, <1>3, PlaceOrder
  <1>5. \A r, s, t \in after : Before(Place(k, r), Place(k, s)) /\ Before(Place(k, s), Place(k, t))
                                    => Before(Place(k, r), Place(k, t))
    BY <1>1, <1>3, PlaceOrder
  <1>6. \A r \in after : ~Before(Place(k, r), Place(k, r))
    BY <1>1, <1>3, PlaceOrder
  <1>7. IsFiniteSet(after)
    BY <1>1, <1>3, PlaceOrder, FS_Subset
  <1> HIDE DEF after, rows, k
  <1>8. \A r \in after : Ahead(r) \subseteq after /\ IsFiniteSet(Ahead(r)) /\ Cardinality(Ahead(r)) \in Nat
    <2> TAKE r \in after
    <2>1. Ahead(r) \subseteq after
      OBVIOUS
    <2> QED BY <1>7, <2>1, FS_Subset, FS_CardinalityType
  <1>9. BatchRows \in Nat
    BY SyncAssumption
  <1>10. rows \subseteq after
    BY <1>2
  <1>11. ASSUME NEW g \in after, NEW r \in after, Before(Place(k, g), Place(k, r))
         PROVE  Cardinality(Ahead(g)) < Cardinality(Ahead(r))
    <2>1. Ahead(g) \subseteq Ahead(r) /\ g \in Ahead(r) /\ g \notin Ahead(g)
      BY <1>5, <1>6, <1>11
    <2> HIDE DEF Ahead
    <2>2. Cardinality(Ahead(g)) <= Cardinality(Ahead(r)) /\ Cardinality(Ahead(g)) # Cardinality(Ahead(r))
      BY <1>8, <2>1, FS_Subset
    <2> QED BY <1>8, <2>2
  <1>12. ASSUME rows # {} PROVE \E g \in rows : \A r \in rows : ~Before(Place(k, g), Place(k, r))
    <2> DEFINE Ranks == {Cardinality(Ahead(r)) : r \in rows}
    <2>1. Ranks \in SUBSET Nat /\ Ranks # {} /\ \A n \in Ranks : n <= BatchRows
      <3> HIDE DEF Ahead
      <3>1. \A r \in rows : Cardinality(Ahead(r)) \in Nat /\ Cardinality(Ahead(r)) < BatchRows
        BY <1>2, <1>8, <1>10
      <3> QED BY <1>9, <1>12, <3>1
    <2>2. PICK n \in Ranks : \A i \in Ranks : i <= n
      <3> HIDE DEF Ranks
      <3> QED BY <1>9, <2>1, GreatestNumber
    <2>3. PICK g \in rows : n = Cardinality(Ahead(g))
      BY <2>2
    <2>4. ASSUME NEW r \in rows, Before(Place(k, g), Place(k, r)) PROVE FALSE
      <3>1. Cardinality(Ahead(g)) < Cardinality(Ahead(r))
        BY <1>10, <1>11, <2>4
      <3>2. Cardinality(Ahead(r)) <= Cardinality(Ahead(g))
        BY <2>2, <2>3
      <3>3. Cardinality(Ahead(r)) \in Nat /\ Cardinality(Ahead(g)) \in Nat
        BY <1>8, <1>10
      <3> HIDE DEF Ahead
      <3> QED BY <3>1, <3>2, <3>3
    <2> QED BY <2>4
  <1>13. ASSUME rows # {}
         PROVE  /\ \A r \in rows : ~Before(last, Place(k, r))
                /\ \E r \in rows : last = Place(k, r)
    <2>1. \E c \in {Place(k, r) : r \in rows} : \A r \in rows : ~Before(c, Place(k, r))
      BY <1>12, <1>13
    <2>2. last = CHOOSE c \in {Place(k, r) : r \in rows} : \A r \in rows : ~Before(c, Place(k, r))
      BY DEF rows
    <2> HIDE DEF last
    <2> QED BY <2>1, <2>2
  <1>14. ASSUME rows # {}, NEW r \in after, r \notin rows PROVE Before(last, Place(k, r))
    <2>1. PICK g \in rows : last = Place(k, g)
      BY <1>13, <1>14
    <2>2. Cardinality(Ahead(g)) < BatchRows /\ ~(Cardinality(Ahead(r)) < BatchRows)
      BY <1>2, <1>14
    <2>3. ASSUME Before(Place(k, r), Place(k, g)) PROVE FALSE
      <3>1. Cardinality(Ahead(r)) < Cardinality(Ahead(g))
        BY <1>10, <1>11, <2>3
      <3>2. Cardinality(Ahead(r)) \in Nat /\ Cardinality(Ahead(g)) \in Nat
        BY <1>8, <1>10
      <3> HIDE DEF Ahead
      <3> QED BY <1>9, <2>2, <3>1, <3>2
    <2> QED BY <1>4, <1>10, <1>14, <2>1, <2>3
  <1>15. rows \subseteq Rows(k)
    BY <1>3, <1>10
  <1> QED
    <2>1. \A r \in Rows(k) : /\ rows # {} /\ remote[k][r].size > 0
                             /\ Before(at[p], Place(k, r)) /\ r \notin rows
                             => Before(last, Place(k, r))
      BY <1>14 DEF after
    <2> HIDE DEF last
    <2> QED BY <1>13, <1>15, <2>1 DEF k, last, rows

LEMMA OnAPage ==
  ASSUME NEW rows, NEW r, \E row \in rows : row.row = r
  PROVE  \E row \in rows : row.row = r /\ SizeOn(rows, r) = row.size
  <1> DEFINE chosen == CHOOSE row \in rows : row.row = r
  <1>1. chosen \in rows /\ chosen.row = r
    BY Zenon
  <1>2. SizeOn(rows, r) = chosen.size
    BY DEF SizeOn
  <1> HIDE DEF chosen
  <1> QED BY <1>1, <1>2

\* What a commit writes.
LEMMA Committed ==
  ASSUME TypeOK, NEW p \in Procs, PullCommit(p)
  PROVE  /\ copy' \in [Machines -> [Machines -> [RowIds -> Nat]]]
         /\ cursor' \in [Machines -> [Machines -> Cursors]]
         /\ \A m \in Machines \ {Here(p)} : copy'[m] = copy[m] /\ cursor'[m] = cursor[m]
         /\ \A k \in Machines \ {from[p]} :
               copy'[Here(p)][k] = copy[Here(p)][k] /\ cursor'[Here(p)][k] = cursor[Here(p)][k]
         /\ \A r \in RowIds : copy'[Here(p)][from[p]][r] =
               IF \E row \in page[p] : row.row = r /\ row.size > copy[Here(p)][from[p]][r]
               THEN SizeOn(page[p], r) ELSE copy[Here(p)][from[p]][r]
         /\ cursor'[Here(p)][from[p]] = NewCursor(cursor[Here(p)][from[p]], at[p])
  <1> DEFINE m == Here(p)
             k == from[p]
             f == [r \in RowIds |->
                    IF \E row \in page[p] : row.row = r /\ row.size > copy[m][k][r]
                    THEN SizeOn(page[p], r) ELSE copy[m][k][r]]
             c == NewCursor(cursor[m][k], at[p])
  <1>1. m \in Machines /\ k \in Machines
    BY SyncAssumption DEF Here, TypeOK, RegOK
  <1>2. f \in [RowIds -> Nat]
    <2>1. \A row \in page[p] : row.size \in Nat
      BY DEF TypeOK, RegOK, Pulled
    <2>2. \A r \in RowIds : (\E row \in page[p] : row.row = r) => SizeOn(page[p], r) \in Nat
      BY <2>1, OnAPage
    <2>3. copy[m][k] \in [RowIds -> Nat]
      BY <1>1 DEF TypeOK, MachineOK
    <2> QED BY <2>2, <2>3
  <1>3. c \in Cursors
    <2>1. cursor[m][k] \in Cursors /\ at[p] \in Positions
      BY <1>1 DEF TypeOK, MachineOK, RegOK
    <2> QED BY <2>1 DEF NewCursor, Before, Cursors, Positions
  <1>4. copy' = [copy EXCEPT ![m][k] = f] /\ cursor' = [cursor EXCEPT ![m][k] = c]
    BY DEF PullCommit
  <1>5. \A r \in RowIds : f[r] =
               IF \E row \in page[p] : row.row = r /\ row.size > copy[m][k][r]
               THEN SizeOn(page[p], r) ELSE copy[m][k][r]
    OBVIOUS
  <1>6. /\ copy \in [Machines -> [Machines -> [RowIds -> Nat]]]
        /\ cursor \in [Machines -> [Machines -> Cursors]]
    BY DEF TypeOK, MachineOK
  <1> HIDE DEF f, c, m, k
  <1>7. /\ copy' \in [Machines -> [Machines -> [RowIds -> Nat]]]
        /\ \A n \in Machines \ {m} : copy'[n] = copy[n]
        /\ \A j \in Machines \ {k} : copy'[m][j] = copy[m][j]
        /\ copy'[m][k] = f
    BY <1>1, <1>2, <1>4, <1>6
  <1>8. /\ cursor' \in [Machines -> [Machines -> Cursors]]
        /\ \A n \in Machines \ {m} : cursor'[n] = cursor[n]
        /\ \A j \in Machines \ {k} : cursor'[m][j] = cursor[m][j]
        /\ cursor'[m][k] = c
    BY <1>1, <1>3, <1>4, <1>6
  <1> QED BY <1>5, <1>7, <1>8 DEF c, m, k

LEMMA PullType ==
  ASSUME TypeOK, NEW p \in Procs, Pull(p)
  PROVE  /\ TypeOK'
         /\ \A q \in Procs \ {p} : Kept(q)
         /\ \A m \in Machines \ {Here(p)} : FilesKept(m)
         /\ UNCHANGED <<size, stamp, now, remote, rsalt, salts, conf, salt, mark, purged, blind, unfinished>>
  <1>1. Here(p) \in Machines /\ from[p] \in Machines
    BY SyncAssumption DEF Here, TypeOK, RegOK
  <1>2. CASE PullMachines(p)
    <2>1. RegOK' /\ \A q \in Procs \ {p} : Kept(q)
      <3>1. CASE Exit(p)
        BY <3>1, Ends
      <3>2. CASE ~Exit(p)
        <4>1. PICK others \in SUBSET Machines :
                /\ todo' = [todo EXCEPT ![p] = others]
                /\ start' = [start EXCEPT ![p] = now] /\ pc' = [pc EXCEPT ![p] = "next"]
                /\ UNCHANGED <<what, load, hash, wm, pos, from, at, page>>
          BY <1>2, <3>2 DEF PullMachines, Fails, Goto
        <4>2. "next" \in Pcs /\ now \in Nat
          BY DEF Pcs, SyncPcs, TypeOK
        <4> QED BY <4>1, <4>2 DEF TypeOK, RegOK, Kept
      <3> QED BY <3>1, <3>2
    <2> QED BY <1>2, <2>1
            DEF PullMachines, Fails, TypeOK, MachineOK, FilesKept, machineVars, remoteVars, worldVars
  <1>3. CASE PullNext(p)
    <2>1. RegOK' /\ \A q \in Procs \ {p} : Kept(q)
      <3>1. CASE Exit(p)
        BY <3>1, Ends
      <3>2. CASE ~Exit(p)
        <4>1. PICK k \in todo[p] :
                /\ todo' = [todo EXCEPT ![p] = @ \ {k}] /\ from' = [from EXCEPT ![p] = k]
                /\ at' = [at EXCEPT ![p] = Position(cursor[Here(p)][k])]
                /\ pc' = [pc EXCEPT ![p] = "page"]
                /\ UNCHANGED <<what, load, hash, start, wm, pos, page>>
          BY <1>3, <3>2 DEF PullNext, Goto
        <4>2. k \in Machines /\ todo[p] \subseteq Machines /\ "page" \in Pcs
          BY DEF TypeOK, RegOK, Pcs, SyncPcs
        <4>3. Position(cursor[Here(p)][k]) \in Positions
          <5>1. cursor[Here(p)][k] \in Cursors
            BY <1>1, <4>2 DEF TypeOK, MachineOK
          <5>2. cursor[Here(p)][k].at - Window \in Int
            BY <5>1, SyncAssumption DEF Cursors
          <5> QED BY <5>1, <5>2 DEF Position, Positions, Cursors
        <4> QED BY <4>1, <4>2, <4>3 DEF TypeOK, RegOK, Kept
      <3> QED BY <3>1, <3>2
    <2> QED BY <1>3, <2>1
            DEF PullNext, TypeOK, MachineOK, FilesKept, machineVars, remoteVars, worldVars, seenVars
  <1>4. CASE PullPage(p)
    <2> DEFINE k == from[p]
               rows == {[row |-> r, size |-> remote[k][r].size, at |-> remote[k][r].at] : r \in Page(p)}
               last == CHOOSE c \in {Place(k, r) : r \in Page(p)} :
                          \A r \in Page(p) : ~Before(c, Place(k, r))
    <2>1. RegOK' /\ \A q \in Procs \ {p} : Kept(q)
      <3>1. CASE Exit(p)
        BY <3>1, Ends
      <3>2. CASE Goto(p, "next") /\ UNCHANGED regVars
        BY <3>2 DEF Goto, TypeOK, RegOK, Kept, Pcs, SyncPcs, regVars
      <3>3. CASE /\ Page(p) # {} /\ page' = [page EXCEPT ![p] = rows]
                 /\ at' = [at EXCEPT ![p] = last] /\ Goto(p, "commit")
                 /\ UNCHANGED <<what, load, hash, start, wm, pos, todo, from, lost>>
        <4>1. last \in Positions
          <5>1. PICK r \in Page(p) : last = Place(k, r) /\ r \in Rows(k)
            BY <3>3, PageIsFirst
          <5>2. Place(k, r) \in [at : Nat, key : Nat]
            <6>1. Place(k, r).at \in Nat /\ Place(k, r).key \in Nat
              BY <1>1, <5>1, PlaceOrder
            <6>2. Place(k, r) = [at |-> Place(k, r).at, key |-> Place(k, r).key]
              BY DEF Place
            <6> QED BY <6>1, <6>2
          <5>3. [at : Nat, key : Nat] \subseteq Positions
            BY DEF Positions
          <5> QED BY <5>1, <5>2, <5>3
        <4>2. rows \subseteq Pulled
          <5>1. \A r \in Page(p) : r \in RowIds
            BY <1>1, PageIsFirst, PlaceOrder
          <5>2. \A r \in RowIds : remote[k][r].size \in Nat /\ remote[k][r].at \in Nat
            BY <1>1 DEF TypeOK, RemoteRow
          <5> QED BY <5>1, <5>2 DEF Pulled
        <4> HIDE DEF last, rows
        <4>3. "commit" \in Pcs
          BY DEF Pcs, SyncPcs
        <4> QED BY <3>3, <4>1, <4>2, <4>3 DEF Goto, TypeOK, RegOK, Kept
      <3> QED BY <1>4, <3>1, <3>2, <3>3 DEF PullPage, Fails
    <2> QED BY <1>4, <2>1
            DEF PullPage, Fails, TypeOK, MachineOK, FilesKept, machineVars, remoteVars, worldVars, seenVars
  <1>5. CASE PullCommit(p)
    <2>1. RegOK' /\ \A q \in Procs \ {p} : Kept(q)
      BY <1>5 DEF PullCommit, Goto, TypeOK, RegOK, Kept, Pcs, SyncPcs
    <2> QED BY <1>5, <2>1, Committed
            DEF PullCommit, TypeOK, MachineOK, FilesKept, remoteVars, worldVars, seenVars
  <1> QED BY <1>2, <1>3, <1>4, <1>5 DEF Pull

\* What a delete leaves.
LEMMA Deleted ==
  ASSUME TypeOK, NEW doomed, Delete(doomed)
  PROVE  /\ remote' \in [Machines -> [RowIds -> RemoteRow]]
         /\ \A m \in Machines : \A r \in RowIds :
               IF <<m, r>> \in doomed THEN remote'[m][r] = NoRow ELSE remote'[m][r] = remote[m][r]
         /\ NoRow.size = 0 /\ NoRow.at = 0
  <1>1. NoRow \in RemoteRow /\ NoRow.size = 0 /\ NoRow.at = 0
    BY DEF NoRow, RemoteRow
  <1>2. \A m \in Machines : \A r \in RowIds :
               remote'[m][r] = IF <<m, r>> \in doomed THEN NoRow ELSE remote[m][r]
    BY DEF Delete
  <1>3. remote' \in [Machines -> [RowIds -> RemoteRow]]
    BY <1>1 DEF Delete, TypeOK
  <1> QED BY <1>1, <1>2, <1>3

LEMMA PurgeType ==
  ASSUME TypeOK, NEW p \in Procs, Purge(p)
  PROVE  /\ TypeOK'
         /\ \A q \in Procs \ {p} : Kept(q)
         /\ \A m \in Machines \ {Here(p)} : FilesKept(m)
         /\ UNCHANGED <<size, stamp, now>>
  <1>1. Here(p) \in Machines
    BY SyncAssumption DEF Here
  <1>2. CASE PurgeLoad(p)
    <2>1. UNCHANGED <<machineVars, remoteVars, worldVars, seenVars>>
      BY <1>2 DEF PurgeLoad
    <2>2. PICK scope \in Scopes : what' = [what EXCEPT ![p] = scope]
      BY <1>2 DEF PurgeLoad
    <2>3. RegOK' /\ \A q \in Procs \ {p} : Kept(q)
      <3>1. /\ load' = [load EXCEPT ![p] = conf[Here(p)]] /\ pc' = [pc EXCEPT ![p] = "purge"]
            /\ UNCHANGED <<hash, start, wm, pos, todo, from, at, page>>
        BY <1>2 DEF PurgeLoad, Load, Goto
      <3>2. conf[Here(p)] \in Settings /\ "purge" \in Pcs
        BY <1>1 DEF TypeOK, MachineOK, Pcs
      <3> QED BY <2>2, <3>1, <3>2 DEF TypeOK, RegOK, Kept
    <2> QED BY <2>1, <2>3
            DEF TypeOK, MachineOK, FilesKept, machineVars, remoteVars, worldVars, seenVars
  <1>3. CASE PurgeSave(p)
    <2>1. conf' \in [Machines -> Settings] /\ \A m \in Machines \ {Here(p)} : conf'[m] = conf[m]
      <3>1. [load[p] EXCEPT !.enabled = FALSE] \in Settings
        <4>1. load[p] \in Settings
          BY DEF TypeOK, RegOK
        <4> QED BY <4>1 DEF Settings
      <3> QED BY <1>1, <1>3, <3>1 DEF PurgeSave, Save, TypeOK, MachineOK
    <2>2. RegOK' /\ \A q \in Procs \ {p} : Kept(q)
      BY <1>3 DEF PurgeSave, Goto, TypeOK, RegOK, Kept, Pcs, regVars
    <2> QED BY <1>3, <2>1, <2>2 DEF PurgeSave, TypeOK, MachineOK, FilesKept, remoteVars, worldVars
  <1>4. CASE PurgeSalt(p)
    <2>1. rsalt' \in Nat /\ salts' \in Nat
      BY <1>4, SaltMade DEF PurgeSalt
    <2>2. RegOK' /\ \A q \in Procs \ {p} : Kept(q)
      BY <1>4, <2>1 DEF PurgeSalt, TypeOK, RegOK, Kept
    <2> QED BY <1>4, <2>1, <2>2
            DEF PurgeSalt, TypeOK, MachineOK, FilesKept, machineVars, seenVars
  <1>5. CASE PurgeDelete(p)
    <2>1. UNCHANGED <<machineVars, worldVars, purged, blind, crashes>>
      BY <1>5 DEF PurgeDelete
    <2>2. /\ remote' \in [Machines -> [RowIds -> RemoteRow]]
          /\ rsalt' \in Nat /\ unfinished' \in SUBSET Machines
      BY <1>1, <1>5, Deleted DEF PurgeDelete, TypeOK
    <2>3. RegOK' /\ lost' \in Nat /\ \A q \in Procs \ {p} : Kept(q)
      <3>1. CASE Exit(p)
        BY <1>5, <3>1, Ends DEF PurgeDelete, LosesAnswer, TypeOK
      <3>2. CASE ~Exit(p)
        BY <1>5, <3>2 DEF PurgeDelete, LosesAnswer, Goto, TypeOK, RegOK, Kept, Pcs, regVars
      <3> QED BY <3>1, <3>2
    <2> QED BY <2>1, <2>2, <2>3 DEF TypeOK, MachineOK, FilesKept, machineVars, worldVars
  <1>6. CASE PurgeFail(p)
    <2>1. UNCHANGED <<machineVars, now, purged, blind, crashes>>
      BY <1>6 DEF PurgeFail
    <2>2. /\ remote' \in [Machines -> [RowIds -> RemoteRow]]
          /\ rsalt' \in Nat /\ salts' \in Nat /\ unfinished' \in SUBSET Machines /\ lost' \in Nat
      BY <1>6, Deleted, SaltMade DEF PurgeFail, Fails, LosesAnswer, TypeOK
    <2>3. RegOK' /\ \A q \in Procs \ {p} : Kept(q)
      BY <1>6, Ends DEF PurgeFail, Fails, LosesAnswer
    <2> QED BY <2>1, <2>2, <2>3 DEF TypeOK, MachineOK, FilesKept, machineVars
  <1>7. CASE PurgeClear(p)
    <2>1. /\ salt' \in [Machines -> Nat] /\ mark' \in [Machines -> Nat]
          /\ copy' \in [Machines -> [Machines -> [RowIds -> Nat]]]
          /\ cursor' \in [Machines -> [Machines -> Cursors]]
          /\ \A m \in Machines \ {Here(p)} : FilesKept(m)
      <3>1. Start \in Cursors /\ [k \in Machines |-> [r \in RowIds |-> 0]] \in [Machines -> [RowIds -> Nat]]
        BY DEF Start, Cursors
      <3>2. [k \in Machines |-> Start] \in [Machines -> Cursors]
        BY <3>1
      <3>3. /\ salt' = [salt EXCEPT ![Here(p)] = 0] /\ mark' = [mark EXCEPT ![Here(p)] = 0]
            /\ copy' = [copy EXCEPT ![Here(p)] = [k \in Machines |-> [r \in RowIds |-> 0]]]
            /\ cursor' = [cursor EXCEPT ![Here(p)] = [k \in Machines |-> Start]]
            /\ conf' = conf
        BY <1>7 DEF PurgeClear
      <3> QED BY <3>1, <3>2, <3>3 DEF TypeOK, MachineOK, FilesKept
    <2>2. purged' \subseteq Machines /\ blind' \subseteq Machines /\ unfinished' \subseteq Machines
      BY <1>1, <1>7 DEF PurgeClear, TypeOK
    <2> QED BY <1>7, <2>1, <2>2, Ends DEF PurgeClear, TypeOK, MachineOK, remoteVars, worldVars
  <1> QED BY <1>2, <1>3, <1>4, <1>5, <1>6, <1>7 DEF Purge

\* One command changes its own registers and the files of its own machine.
LEMMA CommandType ==
  ASSUME TypeOK, NEW p \in Procs, CommandStep(p)
  PROVE  /\ TypeOK'
         /\ \A q \in Procs \ {p} : Kept(q)
         /\ \A m \in Machines \ {Here(p)} : FilesKept(m)
         /\ UNCHANGED <<size, stamp, now>>
  <1>1. CASE Crash(p)
    BY <1>1, Ends DEF Crash, TypeOK, MachineOK, FilesKept, machineVars, remoteVars, worldVars
  <1> QED BY <1>1, EnableType, SaltType, PushType, PullType, PurgeType DEF CommandStep

LEMMA RecordType ==
  ASSUME TypeOK, NEW m \in Machines, NEW r \in Rows(m), Record(m, r)
  PROVE  /\ TypeOK'
         /\ UNCHANGED <<conf, salt, mark, copy, cursor, remoteVars, pc, regVars, worldVars, seenVars>>
         /\ size[m][r] \in Nat /\ r \in RowIds
         /\ \A k \in Machines : \A s \in RowIds :
               size'[k][s] = IF k = m /\ s = r THEN size[m][r] + 1 ELSE size[k][s]
  <1>1. r \in RowIds
    BY DEF RowIds
  <1>2. size[m][r] \in Nat /\ size \in [Machines -> [RowIds -> Nat]]
    BY <1>1 DEF TypeOK, MachineOK
  <1>3. size' = [size EXCEPT ![m][r] = size[m][r] + 1]
    BY DEF Record
  <1>4. \A k \in Machines : \A s \in RowIds :
               size'[k][s] = IF k = m /\ s = r THEN size[m][r] + 1 ELSE size[k][s]
    BY <1>1, <1>2, <1>3
  <1>5. size' \in [Machines -> [RowIds -> Nat]]
    BY <1>1, <1>2, <1>3
  <1>6. stamp' \in [Machines -> [RowIds -> Nat]]
    BY <1>1 DEF Record, TypeOK, MachineOK
  <1> QED BY <1>1, <1>2, <1>4, <1>5, <1>6
          DEF Record, TypeOK, MachineOK, RegOK, remoteVars, regVars, worldVars, seenVars

LEMMA TypeInit == Init => TypeOK
  <1> SUFFICES ASSUME Init PROVE TypeOK
    OBVIOUS
  <1>1. MachineOK
    <2>1. Start \in Cursors
      BY DEF Start, Cursors
    <2> QED BY <2>1, SyncAssumption DEF Init, MachineOK
  <1>2. RegOK
    BY SyncAssumption DEF Init, RegOK, Pcs, Off, Settings, Start, Positions
  <1> QED BY <1>1, <1>2 DEF Init, TypeOK, NoRow, RemoteRow

LEMMA TypeStep ==
  ASSUME TypeOK, [Next]_vars
  PROVE  TypeOK'
  <1>1. CASE UNCHANGED vars
    BY <1>1 DEF vars, machineVars, remoteVars, regVars, worldVars, seenVars, TypeOK, MachineOK, RegOK
  <1>2. CASE Tick
    BY <1>2 DEF Tick, machineVars, remoteVars, regVars, seenVars, TypeOK, MachineOK, RegOK
  <1> QED BY <1>1, <1>2, CommandType, RecordType DEF Next, CommandStep

\* Every value the state holds is one the code can hold.
THEOREM TypeCorrect == Spec => []TypeOK
  <1> QED BY TypeInit, TypeStep, PTL DEF Spec

-----------------------------------------------------------------------------
(* The window                                                               *)

LEMMA TimeStep ==
  ASSUME TypeOK, TimeInv, [Next]_vars
  PROVE  TimeInv'
  <1> DEFINE InTime(p) == /\ pc[p] \in PushPcs \cup PullPcs => start[p] <= now
                          /\ pc[p] \in PushPcs => now - start[p] <= MaxPush
                          /\ pc[p] \in PullPcs => now - start[p] <= MaxPull
  <1>1. \A p \in Procs : pc[p] \in Pcs /\ start[p] \in Nat /\ now \in Nat
    BY DEF TypeOK, RegOK
  <1>2. MaxPush \in Nat /\ MaxPull \in Nat
    BY SyncAssumption
  <1>3. ASSUME NEW p \in Procs, CommandStep(p) PROVE InTime(p)'
    <2> USE DEF TimeInv, PushPcs, PullPcs
    <2>1. pc \in [Procs -> Pcs] /\ start \in [Procs -> Nat] /\ now' = now
      BY <1>3, CommandType DEF TypeOK, RegOK
    <2>2. CASE Exit(p)
      BY <2>2, Ends
    <2>3. CASE EnableLoad(p) \/ DisableLoad(p) \/ SyncStart(p) \/ PurgeLoad(p) \/ PurgeSave(p) \/ PurgeSalt(p)
      BY <2>1, <2>3 DEF EnableLoad, DisableLoad, SyncStart, PurgeLoad, PurgeSave, PurgeSalt, Load, Goto
    <2>4. CASE ~Exit(p) /\ (SyncSalt(p) \/ SyncAdopt(p) \/ SyncStore(p) \/ PurgeDelete(p))
      BY <2>1, <2>4 DEF SyncSalt, SyncAdopt, SyncStore, PurgeDelete, FirstHalf, Fails, LosesAnswer, Goto
    <2>5. CASE ~Exit(p) /\ (PushStart(p) \/ PushEnd(p) \/ PullMachines(p))
      BY <1>1, <1>2, <2>1, <2>5 DEF PushStart, PushEnd, PullMachines, Fails, Goto
    <2>6. CASE ~Exit(p) /\ (PushMark(p) \/ PushBatch(p) \/ PushRaise(p))
      BY <2>1, <2>6 DEF PushMark, PushBatch, PushRaise, Fails, LosesAnswer, Goto, regVars
    <2>7. CASE ~Exit(p) /\ (PullNext(p) \/ PullPage(p) \/ PullCommit(p))
      BY <2>1, <2>7 DEF PullNext, PullPage, PullCommit, Fails, Goto, regVars
    <2> QED BY <1>3, <2>2, <2>3, <2>4, <2>5, <2>6, <2>7
            DEF CommandStep, Push, Pull, Purge, EnableSave, DisableSave, Crash, PurgeFail, PurgeClear,
                Fails, LosesAnswer
  <1>4. ASSUME NEW p \in Procs, CommandStep(p) PROVE TimeInv'
    <2>1. \A q \in Procs \ {p} : Kept(q) /\ now' = now
      BY <1>4, CommandType
    <2> QED BY <1>3, <1>4, <2>1 DEF TimeInv, Kept
  <1>5. CASE Tick
    <2>1. now' = now + 1 /\ UNCHANGED <<pc, start>>
      BY <1>5 DEF Tick, regVars
    <2> QED BY <1>1, <1>5, <2>1 DEF Tick, TimeInv
  <1>6. CASE UNCHANGED vars \/ \E m \in Machines : \E r \in Rows(m) : Record(m, r)
    BY <1>6 DEF vars, worldVars, regVars, Record, TimeInv
  <1> QED BY <1>4, <1>5, <1>6 DEF Next, CommandStep

\* A row at the remote is left alone, is removed, or is written by a push that
\* began at most MaxPush ago.
LEMMA RemoteStep ==
  ASSUME TypeOK, TimeInv, NEW p \in Procs, CommandStep(p), NEW k \in Machines, NEW r \in RowIds
  PROVE  \/ remote'[k][r] = remote[k][r]
         \/ remote'[k][r].size = 0 /\ remote'[k][r].at = 0
         \/ now - MaxPush <= remote'[k][r].at /\ remote'[k][r].at <= now
  <1>1. CASE UNCHANGED remote
    BY <1>1
  <1>2. ASSUME NEW batch, Upsert(p, batch), pc[p] \in PushPcs
        PROVE  \/ remote'[k][r] = remote[k][r]
               \/ now - MaxPush <= remote'[k][r].at /\ remote'[k][r].at <= now
    <2>1. CASE k # Here(p)
      BY <1>2, <2>1, Upserted
    <2>2. remote'[Here(p)][r] = remote[Here(p)][r] \/ remote'[Here(p)][r].at = start[p]
      BY <1>2, Upserted
    <2>3. start[p] <= now /\ now - start[p] <= MaxPush
      BY <1>2 DEF TimeInv
    <2>4. now - MaxPush <= start[p]
      BY <2>3, SyncAssumption DEF TypeOK, RegOK
    <2> QED BY <2>1, <2>2, <2>3, <2>4
  <1>3. CASE PushBatch(p)
    BY <1>1, <1>2, <1>3 DEF PushBatch, PushPcs
  <1>4. ASSUME NEW doomed, Delete(doomed) PROVE remote'[k][r] = remote[k][r] \/
             (remote'[k][r].size = 0 /\ remote'[k][r].at = 0)
    BY <1>4, Deleted
  <1>5. CASE PurgeDelete(p) \/ PurgeFail(p)
    BY <1>1, <1>4, <1>5 DEF PurgeDelete, PurgeFail
  <1>6. CASE Push(p) /\ ~PushBatch(p)
    BY <1>1, <1>6 DEF Push, PushStart, PushMark, PushRaise, PushEnd, remoteVars
  <1>7. CASE Purge(p) /\ ~PurgeDelete(p) /\ ~PurgeFail(p)
    BY <1>1, <1>7 DEF Purge, PurgeLoad, PurgeSave, PurgeSalt, PurgeClear, remoteVars
  <1>8. CASE EnableLoad(p) \/ EnableSave(p) \/ DisableLoad(p) \/ DisableSave(p) \/ Pull(p)
             \/ SyncStart(p) \/ SyncSalt(p) \/ SyncAdopt(p) \/ SyncStore(p) \/ Crash(p)
    BY <1>1, <1>8, EnableType, SaltType, PullType DEF Crash, remoteVars
  <1> QED BY <1>3, <1>5, <1>6, <1>7, <1>8 DEF CommandStep

\* Copies and cursors are written by a commit and a purge.
LEMMA CopyStep ==
  ASSUME TypeOK, NEW p \in Procs, CommandStep(p)
  PROVE  PullCommit(p) \/ PurgeClear(p) \/ UNCHANGED <<copy, cursor>>
  <1>1. CASE Push(p) \/ EnableLoad(p) \/ EnableSave(p) \/ DisableLoad(p) \/ DisableSave(p)
    BY <1>1, PushType DEF EnableLoad, EnableSave, DisableLoad, DisableSave, machineVars
  <1>2. CASE SyncStart(p) \/ SyncSalt(p) \/ SyncAdopt(p) \/ SyncStore(p) \/ Crash(p)
    BY <1>2, SaltType DEF Crash, machineVars
  <1>3. CASE Pull(p) /\ ~PullCommit(p)
    BY <1>3 DEF Pull, PullMachines, PullNext, PullPage, machineVars
  <1>4. CASE Purge(p) /\ ~PurgeClear(p)
    BY <1>4 DEF Purge, PurgeLoad, PurgeSave, PurgeSalt, PurgeDelete, PurgeFail, machineVars
  <1> QED BY <1>1, <1>2, <1>3, <1>4 DEF CommandStep

LEMMA Cleared ==
  ASSUME TypeOK, NEW p \in Procs, PurgeClear(p)
  PROVE  \A k \in Machines : /\ cursor'[Here(p)][k] = Start
                             /\ \A r \in RowIds : copy'[Here(p)][k][r] = 0
  BY SyncAssumption DEF PurgeClear, Here, TypeOK, MachineOK

\* A command starts only if it goes with what runs on its machine, and a purge
\* begins with its first step.
LEMMA AloneStep ==
  ASSUME TypeOK, AloneInv, PurgeRunsAlone, [Next]_vars
  PROVE  AloneInv'
  <1> USE DEF PurgePcs
  <1>1. ASSUME NEW p \in Procs, CommandStep(p) PROVE AloneInv'
    <2> DEFINE Alike(q) == Here(q) = Here(p)
    <2>1. pc \in [Procs -> Pcs]
      BY DEF TypeOK, RegOK
    <2>2. CASE pc[p] # "idle" /\ (pc'[p] \in PurgePcs => pc[p] \in PurgePcs)
      BY <1>1, <2>2, CommandType DEF AloneInv, Kept
    <2>3. ASSUME NEW command, MayType(p, command) PROVE \A q \in Procs : Alike(q) => pc[q] \notin PurgePcs
      BY <2>3 DEF MayType, CommandOf, PurgeRunsAlone
    <2>4. CASE EnableLoad(p) \/ DisableLoad(p) \/ SyncStart(p)
      <3>1. pc'[p] \notin PurgePcs /\ \A q \in Procs : Alike(q) => pc[q] \notin PurgePcs
        BY <2>1, <2>3, <2>4 DEF EnableLoad, DisableLoad, SyncStart, Load, Goto
      <3> QED BY <1>1, <3>1, CommandType DEF AloneInv, Kept
    <2>5. CASE PurgeLoad(p)
      <3>1. \A q \in Procs : Alike(q) => pc[q] = "idle"
        BY <2>5 DEF PurgeLoad, MayType, PurgeRunsAlone
      <3> QED BY <1>1, <3>1, CommandType DEF AloneInv, Kept
    <2>6. CASE EnableSave(p) \/ DisableSave(p) \/ PurgeFail(p) \/ PurgeClear(p) \/ Crash(p)
      BY <2>2, <2>6, Ends
         DEF EnableSave, DisableSave, PurgeFail, PurgeClear, Crash, Fails, LosesAnswer
    <2>7. CASE SyncSalt(p) \/ SyncAdopt(p) \/ SyncStore(p)
      BY <2>1, <2>2, <2>7, Ends
         DEF SyncSalt, SyncAdopt, SyncStore, FirstHalf, Goto, Fails, LosesAnswer
    <2>8. CASE Push(p)
      BY <2>1, <2>2, <2>8, Ends
         DEF Push, PushStart, PushMark, PushBatch, PushRaise, PushEnd, Goto, Fails, LosesAnswer
    <2>9. CASE Pull(p)
      BY <2>1, <2>2, <2>9, Ends
         DEF Pull, PullMachines, PullNext, PullPage, PullCommit, Goto, Fails
    <2>10. CASE PurgeSave(p) \/ PurgeSalt(p) \/ PurgeDelete(p)
      BY <2>1, <2>2, <2>10, Ends
         DEF PurgeSave, PurgeSalt, PurgeDelete, Goto, LosesAnswer
    <2> QED BY <1>1, <2>4, <2>5, <2>6, <2>7, <2>8, <2>9, <2>10 DEF CommandStep, Purge
  <1>2. CASE UNCHANGED vars \/ Tick \/ \E m \in Machines : \E r \in Rows(m) : Record(m, r)
    BY <1>2 DEF vars, Tick, Record, AloneInv
  <1> QED BY <1>1, <1>2 DEF Next, CommandStep

\* Where a process that reads pages came from.
LEMMA Reading ==
  ASSUME TypeOK, NEW p \in Procs, CommandStep(p), pc'[p] \in {"page", "commit"}
  PROVE  (PullNext(p) /\ ~Exit(p)) \/ (PullPage(p) /\ Page(p) # {} /\ pc'[p] = "commit") \/ PullCommit(p)
  <1>1. pc \in [Procs -> Pcs]
    BY DEF TypeOK, RegOK
  <1>2. ~Exit(p)
    BY Ends
  <1>3. CASE EnableLoad(p) \/ EnableSave(p) \/ DisableLoad(p) \/ DisableSave(p) \/ Crash(p)
    BY <1>1, <1>2, <1>3 DEF EnableLoad, EnableSave, DisableLoad, DisableSave, Crash, Load, Goto
  <1>4. CASE SyncStart(p) \/ SyncSalt(p) \/ SyncAdopt(p) \/ SyncStore(p)
    BY <1>1, <1>2, <1>4
       DEF SyncStart, SyncSalt, SyncAdopt, SyncStore, FirstHalf, Fails, LosesAnswer, Load, Goto
  <1>5. CASE Push(p)
    BY <1>1, <1>2, <1>5
       DEF Push, PushStart, PushMark, PushBatch, PushRaise, PushEnd, Goto, Fails, LosesAnswer
  <1>6. CASE Purge(p)
    <2>1. CASE PurgeSalt(p)
      BY <1>1, <2>1 DEF PurgeSalt
    <2> QED BY <1>1, <1>2, <1>6, <2>1
        DEF Purge, PurgeLoad, PurgeSave, PurgeDelete, PurgeFail, PurgeClear, Load, Goto, Fails, LosesAnswer
  <1>7. CASE PullMachines(p)
    BY <1>1, <1>2, <1>7 DEF PullMachines, Fails, Goto
  <1>8. CASE PullPage(p)
    BY <1>1, <1>2, <1>8 DEF PullPage, Fails, Goto
  <1> QED BY <1>2, <1>3, <1>4, <1>5, <1>6, <1>7, <1>8 DEF CommandStep, Pull

\* What the three steps of a pull do to the registers.
LEMMA ReadSteps ==
  ASSUME TypeOK, NEW p \in Procs
  PROVE  /\ PullNext(p) /\ ~Exit(p) =>
               \E k \in Machines : /\ pc'[p] = "page" /\ from'[p] = k /\ start'[p] = start[p]
                                   /\ at'[p] = Position(cursor[Here(p)][k])
                                   /\ UNCHANGED <<remote, copy, cursor, now>> /\ pc[p] = "next"
         /\ PullPage(p) /\ Page(p) # {} /\ pc'[p] = "commit" =>
               /\ from'[p] = from[p] /\ start'[p] = start[p] /\ pc[p] = "page"
               /\ page'[p] = {[row |-> r, size |-> remote[from[p]][r].size,
                               at |-> remote[from[p]][r].at] : r \in Page(p)}
               /\ at'[p] = CHOOSE c \in {Place(from[p], r) : r \in Page(p)} :
                               \A r \in Page(p) : ~Before(c, Place(from[p], r))
               /\ UNCHANGED <<remote, copy, cursor, now>>
         /\ PullCommit(p) =>
               /\ from'[p] = from[p] /\ start'[p] = start[p] /\ at'[p] = at[p] /\ pc[p] = "commit"
               /\ pc'[p] \in {"next", "page"} /\ UNCHANGED <<remote, now>>
  <1>1. pc \in [Procs -> Pcs] /\ todo \in [Procs -> SUBSET Machines] /\ from \in [Procs -> Machines]
        /\ at \in [Procs -> Positions] /\ page \in [Procs -> SUBSET Pulled] /\ start \in [Procs -> Nat]
    BY DEF TypeOK, RegOK
  <1>2. ASSUME PullNext(p), ~Exit(p)
        PROVE  \E k \in Machines : /\ pc'[p] = "page" /\ from'[p] = k /\ start'[p] = start[p]
                                   /\ at'[p] = Position(cursor[Here(p)][k])
                                   /\ UNCHANGED <<remote, copy, cursor, now>> /\ pc[p] = "next"
    BY <1>1, <1>2 DEF PullNext, Goto, machineVars, remoteVars, worldVars
  <1>3. ASSUME PullPage(p), Page(p) # {}, pc'[p] = "commit"
        PROVE  /\ from'[p] = from[p] /\ start'[p] = start[p] /\ pc[p] = "page"
               /\ page'[p] = {[row |-> r, size |-> remote[from[p]][r].size,
                               at |-> remote[from[p]][r].at] : r \in Page(p)}
               /\ at'[p] = CHOOSE c \in {Place(from[p], r) : r \in Page(p)} :
                               \A r \in Page(p) : ~Before(c, Place(from[p], r))
               /\ UNCHANGED <<remote, copy, cursor, now>>
    <2>1. ~Exit(p)
      BY <1>3, Ends
    <2> QED BY <1>1, <1>3, <2>1 DEF PullPage, Fails, machineVars, remoteVars, worldVars
  <1>4. ASSUME PullCommit(p)
        PROVE  /\ from'[p] = from[p] /\ start'[p] = start[p] /\ at'[p] = at[p] /\ pc[p] = "commit"
               /\ pc'[p] \in {"next", "page"} /\ UNCHANGED <<remote, now>>
    BY <1>1, <1>4 DEF PullCommit, Goto, remoteVars, worldVars
  <1> QED BY <1>2, <1>3, <1>4

LEMMA StampStep ==
  ASSUME TypeOK, TimeInv, StampInv, [Next]_vars
  PROVE  StampInv'
  <1>1. now \in Nat
    BY DEF TypeOK
  <1>2. ASSUME NEW p \in Procs, CommandStep(p) PROVE StampInv'
    <2>1. now' = now /\ \A q \in Procs \ {p} : Kept(q)
      BY <1>2, CommandType
    <2>2. \A k \in Machines : \A r \in Rows(k) : remote'[k][r].at <= now
      <3> TAKE k \in Machines
      <3> TAKE r \in Rows(k)
      <3>1. r \in RowIds
        BY PlaceOrder
      <3> QED BY <1>1, <1>2, <3>1, RemoteStep DEF StampInv
    <2>3. \A m, k \in Machines : cursor'[m][k].at <= now
      <3>1. CASE PullCommit(p)
        <4>1. at[p].at <= now
          BY <3>1, ReadSteps DEF StampInv
        <4>2. NewCursor(cursor[Here(p)][from[p]], at[p]).at <= now
          BY <4>1, SyncAssumption DEF NewCursor, StampInv, Here, TypeOK, RegOK
        <4>3. \A m, k \in Machines : \/ cursor'[m][k] = cursor[m][k]
                                     \/ cursor'[m][k] = NewCursor(cursor[Here(p)][from[p]], at[p])
          <5> TAKE m \in Machines
          <5> TAKE k \in Machines
          <5>1. CASE m # Here(p)
            BY <3>1, <5>1, Committed
          <5>2. CASE m = Here(p) /\ k # from[p]
            BY <3>1, <5>2, Committed
          <5>3. CASE m = Here(p) /\ k = from[p]
            BY <3>1, <5>3, Committed
          <5> QED BY <5>1, <5>2, <5>3
        <4> QED BY <4>2, <4>3 DEF StampInv
      <3>2. CASE PurgeClear(p)
        <4>1. \A m \in Machines \ {Here(p)} : cursor'[m] = cursor[m]
          BY <1>2, CommandType DEF FilesKept
        <4> QED BY <1>1, <3>2, <4>1, Cleared DEF StampInv, Start
      <3> QED BY <1>2, <3>1, <3>2, CopyStep DEF StampInv
    <2>4. \A q \in Procs : pc'[q] \in {"page", "commit"} => at'[q].at <= now
      <3> SUFFICES ASSUME pc'[p] \in {"page", "commit"} PROVE at'[p].at <= now
        BY <2>1 DEF StampInv, Kept
      <3>1. CASE PullNext(p) /\ ~Exit(p)
        <4>1. PICK k \in Machines : at'[p] = Position(cursor[Here(p)][k])
          BY <3>1, ReadSteps
        <4>2. Here(p) \in Machines /\ Window \in Nat
          BY SyncAssumption DEF Here
        <4>3. cursor[Here(p)][k] \in Cursors /\ cursor[Here(p)][k].at <= now
          BY <4>2 DEF TypeOK, MachineOK, StampInv
        <4>4. Position(cursor[Here(p)][k]).at = cursor[Here(p)][k].at - Window
              /\ cursor[Here(p)][k].at \in Nat
          BY <4>3 DEF Position, Cursors
        <4> QED BY <1>1, <4>1, <4>2, <4>3, <4>4
      <3>2. CASE PullPage(p) /\ Page(p) # {} /\ pc'[p] = "commit"
        <4>1. PICK r \in Page(p) : at'[p] = Place(from[p], r) /\ r \in Rows(from[p])
          BY <3>2, ReadSteps, PageIsFirst
        <4>2. from[p] \in Machines
          BY DEF TypeOK, RegOK
        <4>3. Place(from[p], r).at = remote[from[p]][r].at
          BY <4>1, <4>2, PlaceOrder
        <4> QED BY <4>1, <4>2, <4>3 DEF StampInv
      <3>3. CASE PullCommit(p)
        BY <3>3, ReadSteps DEF StampInv
      <3> QED BY <1>2, <3>1, <3>2, <3>3, Reading
    <2> QED BY <2>1, <2>2, <2>3, <2>4 DEF StampInv
  <1>3. CASE Tick
    <2>1. now' = now + 1 /\ UNCHANGED <<pc, at, cursor, remote>>
      BY <1>3 DEF Tick, regVars, machineVars, remoteVars
    <2>2. \A k \in Machines : \A r \in Rows(k) : remote[k][r].at \in Nat
      BY PlaceOrder
    <2>3. \A m, k \in Machines : cursor[m][k].at \in Nat
      BY DEF TypeOK, MachineOK, Cursors
    <2>4. \A p \in Procs : at[p].at \in Int
      BY DEF TypeOK, RegOK, Positions
    <2> QED BY <1>1, <2>1, <2>2, <2>3, <2>4 DEF StampInv
  <1>4. CASE UNCHANGED vars \/ \E m \in Machines : \E r \in Rows(m) : Record(m, r)
    BY <1>4 DEF vars, machineVars, remoteVars, worldVars, regVars, Record, StampInv
  <1> QED BY <1>2, <1>3, <1>4 DEF Next, CommandStep

LEMMA PageStep ==
  ASSUME TypeOK, PageInv, [Next]_vars
  PROVE  PageInv'
  <1>1. ASSUME NEW p \in Procs, CommandStep(p) PROVE PageInv'
    <2>1. \A q \in Procs \ {p} : Kept(q)
      BY <1>1, CommandType
    <2>2. ASSUME pc'[p] = "commit" PROVE \A x, y \in page'[p] : x.row = y.row => x = y
      <3>1. PullPage(p) /\ Page(p) # {}
        BY <1>1, <2>2, Reading, ReadSteps
      <3>2. page'[p] = {[row |-> r, size |-> remote[from[p]][r].size,
                         at |-> remote[from[p]][r].at] : r \in Page(p)}
        BY <2>2, <3>1, ReadSteps
      <3> QED BY <3>2
    <2> QED BY <2>1, <2>2 DEF PageInv, Kept
  <1>2. CASE UNCHANGED vars \/ Tick \/ \E m \in Machines : \E r \in Rows(m) : Record(m, r)
    BY <1>2 DEF vars, regVars, Tick, Record, PageInv
  <1> QED BY <1>1, <1>2 DEF Next, CommandStep

\* What was stamped within the window before a cursor is not behind the position.
LEMMA InWindow ==
  ASSUME NEW c \in Cursors, NEW place \in Cursors, NEW t \in Int, t <= place.at, c.at < t + Window
  PROVE  Before(Position(c), place)
  <1>1. place.at \in Nat /\ c.at \in Nat /\ Position(c).at = c.at - Window /\ Window \in Nat
    BY SyncAssumption DEF Cursors, Position
  <1> QED BY <1>1 DEF Before

\* A step on the row of k that m lacks afterwards: m lacked it before, or the row
\* came late.
LEMMA LacksStep ==
  ASSUME TypeOK, TimeInv, PageInv, NEW p \in Procs, CommandStep(p),
         NEW m \in Machines, NEW k \in Machines, NEW r \in Rows(k), Lacks(m, k, r)'
  PROVE  \/ /\ remote'[k][r] = remote[k][r]
            /\ Lacks(m, k, r) \/ (PurgeClear(p) /\ m = Here(p))
         \/ now - MaxPush <= remote'[k][r].at /\ remote'[k][r].at <= now
  <1>1. r \in RowIds
    BY PlaceOrder
  <1>2. TypeOK'
    BY CommandType
  <1>3. copy[m][k][r] \in Nat /\ copy'[m][k][r] \in Nat
    BY <1>1, <1>2 DEF TypeOK, MachineOK
  <1>4. remote[k][r].size \in Nat
    BY <1>1 DEF TypeOK, RemoteRow
  <1>5. copy'[m][k][r] >= copy[m][k][r] \/ (PurgeClear(p) /\ m = Here(p))
    <2>1. CASE PullCommit(p)
      <3>1. copy'[m][k] = copy[m][k] \/ (m = Here(p) /\ k = from[p])
        BY <2>1, Committed
      <3>2. ASSUME m = Here(p), k = from[p] PROVE copy'[m][k][r] >= copy[m][k][r]
        <4>1. CASE ~\E row \in page[p] : row.row = r /\ row.size > copy[m][k][r]
          BY <1>1, <1>3, <2>1, <3>2, <4>1, Committed
        <4>2. ASSUME NEW row \in page[p], row.row = r, row.size > copy[m][k][r]
              PROVE  copy'[m][k][r] >= copy[m][k][r]
          <5>1. copy'[m][k][r] = SizeOn(page[p], r)
            BY <1>1, <2>1, <3>2, <4>2, Committed
          <5>2. PICK other \in page[p] : other.row = r /\ SizeOn(page[p], r) = other.size
            BY <4>2, OnAPage
          <5>3. other = row
            BY <2>1, <4>2, <5>2, ReadSteps DEF PageInv
          <5> QED BY <1>3, <4>2, <5>1, <5>2, <5>3
        <4> QED BY <4>1, <4>2
      <3> QED BY <1>3, <3>1, <3>2
    <2>2. CASE PurgeClear(p) /\ m # Here(p)
      <3>1. copy'[m] = copy[m]
        BY <2>2, CommandType DEF FilesKept
      <3> QED BY <1>3, <3>1
    <2> QED BY <1>3, <2>1, <2>2, CopyStep
  <1> QED BY <1>1, <1>3, <1>4, <1>5, RemoteStep DEF Lacks

LEMMA SamePlace ==
  ASSUME TypeOK, NEW k \in Machines, NEW r \in Rows(k)
  PROVE  /\ Place(k, r) \in Cursors /\ Place(k, r).at = remote[k][r].at
         /\ TypeOK' => Place(k, r)' \in Cursors /\ Place(k, r)'.at = remote'[k][r].at
         /\ remote'[k][r] = remote[k][r] => Place(k, r)' = Place(k, r)
  <1>1. r \in RowIds
    BY PlaceOrder
  <1>2. remote[k][r].at \in Nat /\ Key[k][r] \in Nat /\ (TypeOK' => remote'[k][r].at \in Nat)
    BY <1>1, SyncAssumption DEF TypeOK, RemoteRow
  <1> QED BY <1>2 DEF Place, Cursors

\* The steps on which a cursor moves.
LEMMA CursorStep ==
  ASSUME TypeOK, NEW p \in Procs, CommandStep(p), NEW m \in Machines, NEW k \in Machines
  PROVE  \/ cursor'[m][k] = cursor[m][k]
         \/ PurgeClear(p) /\ m = Here(p) /\ cursor'[m][k] = Start
         \/ /\ PullCommit(p) /\ m = Here(p) /\ k = from[p]
            /\ cursor'[m][k] = at[p] /\ Before(cursor[m][k], at[p])
  <1>1. CASE PullCommit(p)
    <2>1. CASE m # Here(p) \/ k # from[p]
      <3>1. cursor'[m][k] = cursor[m][k]
        BY <1>1, <2>1, Committed
      <3> QED BY <3>1
    <2>2. CASE m = Here(p) /\ k = from[p]
      <3>1. cursor'[m][k] = NewCursor(cursor[m][k], at[p])
        BY <1>1, <2>2, Committed
      <3> QED BY <1>1, <2>2, <3>1 DEF NewCursor
    <2> QED BY <2>1, <2>2
  <1>2. CASE PurgeClear(p)
    <2>1. m # Here(p) => cursor'[m] = cursor[m]
      BY CommandType DEF FilesKept
    <2> QED BY <1>2, <2>1, Cleared
  <1> QED BY <1>1, <1>2, CopyStep

\* A commit gets what is on the page.
LEMMA CommitGets ==
  ASSUME TypeOK, PageInv, NEW p \in Procs, PullCommit(p), NEW r \in Rows(from[p]),
         Lacks(Here(p), from[p], r), OnPage(p, r)
  PROVE  ~Lacks(Here(p), from[p], r)'
  <1> DEFINE m == Here(p)
             k == from[p]
  <1>1. pc[p] = "commit" /\ k \in Machines /\ r \in RowIds /\ remote' = remote /\ from'[p] = k
    BY ReadSteps, PlaceOrder DEF TypeOK, RegOK
  <1>2. PICK x \in page[p] : x.row = r /\ x.size = remote[k][r].size
    BY DEF OnPage
  <1>3. x.size > copy[m][k][r]
    BY <1>2 DEF Lacks
  <1>4. copy'[m][k][r] = SizeOn(page[p], r)
    BY <1>1, <1>2, <1>3, Committed
  <1>5. PICK y \in page[p] : y.row = r /\ SizeOn(page[p], r) = y.size
    BY <1>2, OnAPage
  <1>6. x = y
    BY <1>1, <1>2, <1>5 DEF PageInv
  <1>7. copy'[m][k][r] = remote[k][r].size /\ remote[k][r].size \in Nat
    BY <1>1, <1>2, <1>4, <1>5, <1>6 DEF TypeOK, RemoteRow
  <1> QED BY <1>1, <1>7 DEF Lacks

LEMMA BehindStep ==
  ASSUME TypeOK, TimeInv, StampInv, StampInv', PageInv, ReadInv, NothingBehindCursor, [Next]_vars
  PROVE  NothingBehindCursor'
  <1>1. /\ now \in Nat /\ Window \in Nat /\ MaxPush \in Nat /\ MaxPull \in Nat /\ MaxPush + MaxPull < Window
    BY SyncAssumption DEF TypeOK
  <1>2. ASSUME NEW p \in Procs, CommandStep(p), NEW m \in Machines, NEW k \in Machines \ {m},
               NEW r \in Rows(k), Lacks(m, k, r)'
        PROVE  Before(Position(cursor'[m][k]), Place(k, r)')
    <2>1. TypeOK' /\ now' = now
      BY <1>2, CommandType
    <2>2. /\ cursor[m][k] \in Cursors /\ cursor'[m][k] \in Cursors /\ r \in RowIds
          /\ Place(k, r) \in Cursors /\ Place(k, r).at = remote[k][r].at
          /\ Place(k, r)' \in Cursors /\ Place(k, r)'.at = remote'[k][r].at
      <3>1. cursor[m][k] \in Cursors /\ cursor'[m][k] \in Cursors
        BY <2>1 DEF TypeOK, MachineOK
      <3> QED BY <2>1, <3>1, SamePlace, PlaceOrder
    <2>3. CASE now - MaxPush <= remote'[k][r].at
      <3>1. cursor'[m][k].at <= now /\ cursor'[m][k].at \in Nat
        BY <2>1, <2>2 DEF StampInv, Cursors
      <3>2. cursor'[m][k].at < now - MaxPush + Window /\ now - MaxPush \in Int
        BY <1>1, <3>1
      <3> QED BY <2>2, <2>3, <3>2, InWindow
    <2>4. CASE remote'[k][r] = remote[k][r] /\ Lacks(m, k, r)
      <3>1. Place(k, r)' = Place(k, r)
        BY <2>4, SamePlace
      <3>2. CASE cursor'[m][k] = cursor[m][k]
        BY <2>4, <3>1, <3>2 DEF NothingBehindCursor, Lacks
      <3>3. CASE cursor'[m][k] = Start
        <4>1. Start.at < 0 + Window /\ 0 <= Place(k, r)'.at
          BY <1>1, <2>2 DEF Start, Cursors
        <4> QED BY <2>2, <3>3, <4>1, InWindow
      <3>4. CASE /\ PullCommit(p) /\ m = Here(p) /\ k = from[p]
                 /\ cursor'[m][k] = at[p] /\ Before(cursor[m][k], at[p])
        <4>1. pc[p] = "commit"
          BY <3>4, ReadSteps
        <4>2. at[p] \in Cursors
          BY <2>2, <3>4
        <4>3. CASE Before(at[p], Place(k, r))
          <5>1. at[p].at <= Place(k, r).at /\ at[p].at < Place(k, r).at + Window /\ Place(k, r).at \in Int
            BY <1>1, <2>2, <4>2, <4>3 DEF Before, Cursors
          <5>2. at[p].at - Window < Place(k, r).at
            BY <1>1, <4>2, <5>1 DEF Cursors
          <5> QED BY <3>1, <3>4, <4>2, <5>2 DEF Before, Position, Cursors
        <4>4. CASE CameLate(p, r)
          <5>1. start[p] \in Nat /\ at[p].at <= now /\ now - start[p] <= MaxPull
            BY <4>1 DEF TypeOK, RegOK, StampInv, TimeInv, PullPcs
          <5>2. start[p] - MaxPush <= Place(k, r)'.at /\ start[p] - MaxPush \in Int
            BY <1>1, <2>2, <2>4, <3>4, <4>4, <5>1 DEF CameLate, Cursors
          <5>3. at[p].at < (start[p] - MaxPush) + Window
            BY <1>1, <4>2, <5>1 DEF Cursors
          <5> QED BY <2>2, <3>4, <4>2, <5>2, <5>3, InWindow
        <4>5. CASE OnPage(p, r)
          <5>1. from'[p] = from[p]
            BY <3>4, ReadSteps
          <5>2. Lacks(Here(p), from[p], r)'
            BY <1>2, <3>4, <5>1
          <5> QED BY <2>4, <3>4, <4>5, <5>2, CommitGets
        <4> QED BY <2>4, <3>4, <4>1, <4>3, <4>4, <4>5 DEF ReadInv
      <3> QED BY <1>2, <3>2, <3>3, <3>4, CursorStep
    <2>5. CASE remote'[k][r] = remote[k][r] /\ PurgeClear(p) /\ m = Here(p)
      <3>1. cursor'[m][k] = Start
        BY <2>5, Cleared
      <3>2. Start.at < 0 + Window /\ 0 <= Place(k, r)'.at
        BY <1>1, <2>2 DEF Start, Cursors
      <3> QED BY <2>2, <3>1, <3>2, InWindow
    <2> QED BY <1>2, <2>3, <2>4, <2>5, LacksStep
  <1>3. ASSUME NEW p \in Procs, CommandStep(p) PROVE NothingBehindCursor'
    BY <1>2, <1>3 DEF NothingBehindCursor, Lacks
  <1>4. CASE UNCHANGED vars \/ Tick \/ \E m \in Machines : \E r \in Rows(m) : Record(m, r)
    <2>1. UNCHANGED <<remote, copy, cursor>>
      BY <1>4 DEF vars, machineVars, remoteVars, Tick, Record
    <2> QED BY <2>1 DEF NothingBehindCursor, Place
  <1> QED BY <1>3, <1>4 DEF Next, CommandStep

LEMMA ReadStep ==
  ASSUME TypeOK, TimeInv, AloneInv, PageInv, ReadInv, NothingBehindCursor, [Next]_vars
  PROVE  ReadInv'
  <1>1. ASSUME NEW p \in Procs, CommandStep(p), NEW q \in Procs, pc'[q] \in {"page", "commit"},
               from'[q] # Here(q), NEW r \in Rows(from'[q]), Lacks(Here(q), from[q], r)'
        PROVE  (Before(at[q], Place(from[q], r)) \/ CameLate(q, r) \/ OnPage(q, r))'
    <2> DEFINE m == Here(q)
    <2>1. /\ TypeOK' /\ now' = now /\ now \in Nat /\ MaxPush \in Nat
      BY <1>1, CommandType, SyncAssumption DEF TypeOK
    <2>2. m \in Machines /\ from'[q] \in Machines /\ from[q] \in Machines /\ start[q] \in Nat
      BY <2>1, SyncAssumption DEF Here, TypeOK, RegOK
    <2>3. r \in RowIds
      BY <2>2, PlaceOrder
    <2>4. CASE q # p
      <3>1. Kept(q) /\ pc[q] \in {"page", "commit"} /\ from'[q] = from[q]
        BY <1>1, <2>4, CommandType DEF Kept
      <3>2. ~(PurgeClear(p) /\ m = Here(p))
        BY <2>4, <3>1 DEF AloneInv, PurgePcs, PurgeClear
      <3>3. CASE now - MaxPush <= remote'[from[q]][r].at
        <4>1. start[q] <= now
          BY <3>1 DEF TimeInv, PullPcs
        <4>2. remote'[from[q]][r].at \in Nat
          BY <2>1, <2>2, <2>3 DEF TypeOK, RemoteRow
        <4>3. remote'[from[q]][r].at >= start[q] - MaxPush
          BY <2>1, <2>2, <3>3, <4>1, <4>2
        <4> QED BY <3>1, <4>3 DEF CameLate, Kept
      <3>4. CASE remote'[from[q]][r] = remote[from[q]][r] /\ Lacks(m, from[q], r)
        <4>1. Before(at[q], Place(from[q], r)) \/ CameLate(q, r) \/ OnPage(q, r)
          BY <1>1, <3>1, <3>4 DEF ReadInv
        <4>2. from'[q] = from[q] /\ at'[q] = at[q] /\ start'[q] = start[q] /\ page'[q] = page[q]
              /\ pc'[q] = pc[q]
          BY <3>1 DEF Kept
        <4> QED BY <3>4, <4>1, <4>2 DEF CameLate, OnPage, Place
      <3>5. Lacks(m, from[q], r)'
        BY <1>1, <3>1
      <3> QED BY <1>1, <2>2, <3>1, <3>2, <3>3, <3>4, LacksStep DEF Lacks
    <2>5. CASE q = p /\ PullNext(p) /\ ~Exit(p)
      <3>1. PICK k \in Machines : /\ pc'[p] = "page" /\ from'[p] = k
                                  /\ at'[p] = Position(cursor[Here(p)][k])
                                  /\ UNCHANGED <<remote, copy, cursor, now>>
        BY <2>5, ReadSteps
      <3>2. Lacks(m, k, r)
        BY <1>1, <2>5, <3>1 DEF Lacks
      <3>3. Before(Position(cursor[m][k]), Place(k, r))
        BY <1>1, <2>2, <2>5, <3>1, <3>2 DEF NothingBehindCursor, Lacks
      <3> QED BY <2>5, <3>1, <3>3 DEF Place
    <2>6. CASE q = p /\ PullPage(p) /\ Page(p) # {} /\ pc'[p] = "commit"
      <3> DEFINE k == from[p]
                 last == CHOOSE c \in {Place(k, s) : s \in Page(p)} :
                            \A s \in Page(p) : ~Before(c, Place(k, s))
      <3>1. /\ from'[p] = k /\ start'[p] = start[p] /\ pc[p] = "page"
            /\ page'[p] = {[row |-> s, size |-> remote[k][s].size, at |-> remote[k][s].at] : s \in Page(p)}
            /\ at'[p] = last
            /\ UNCHANGED <<remote, copy, cursor, now>>
        BY <2>6, ReadSteps
      <3>2. \A s \in Rows(k) : /\ Page(p) # {} /\ remote[k][s].size > 0
                               /\ Before(at[p], Place(k, s)) /\ s \notin Page(p)
                               => Before(last, Place(k, s))
        BY PageIsFirst
      <3> HIDE DEF last
      <3>3. Lacks(m, k, r)
        BY <1>1, <2>6, <3>1 DEF Lacks
      <3>4. Before(at[p], Place(k, r)) \/ CameLate(p, r)
        BY <1>1, <2>6, <3>1, <3>3 DEF ReadInv, OnPage
      <3>5. CASE CameLate(p, r)
        BY <2>6, <3>1, <3>5 DEF CameLate
      <3>6. CASE Before(at[p], Place(k, r)) /\ r \in Page(p)
        <4>1. [row |-> r, size |-> remote[k][r].size, at |-> remote[k][r].at] \in page'[p]
          BY <3>1, <3>6
        <4> QED BY <2>6, <3>1, <4>1 DEF OnPage
      <3>7. CASE Before(at[p], Place(k, r)) /\ r \notin Page(p)
        <4>1. remote[k][r].size > 0
          <5>1. copy[m][k][r] \in Nat /\ remote[k][r].size \in Nat
            BY <2>2, <2>3, <2>6 DEF TypeOK, MachineOK, RemoteRow
          <5> QED BY <3>3, <5>1 DEF Lacks
        <4>2. Before(last, Place(k, r))
          BY <1>1, <2>6, <3>1, <3>2, <3>7, <4>1
        <4> QED BY <2>6, <3>1, <4>2 DEF Place
      <3> QED BY <3>4, <3>5, <3>6, <3>7
    <2>7. CASE q = p /\ PullCommit(p)
      <3> DEFINE k == from[p]
      <3>1. /\ from'[p] = k /\ start'[p] = start[p] /\ at'[p] = at[p] /\ pc[p] = "commit"
            /\ remote' = remote
        BY <2>7, ReadSteps
      <3>2. Lacks(m, k, r)'
        BY <1>1, <2>7, <3>1
      <3>3. ~PurgeClear(p)
        BY <3>1 DEF PurgeClear
      <3>4. CASE now - MaxPush <= remote'[k][r].at
        <4>1. start[p] <= now
          BY <3>1 DEF TimeInv, PullPcs
        <4>2. remote'[k][r].at \in Nat
          BY <2>1, <2>2, <2>3, <2>7 DEF TypeOK, RemoteRow
        <4>3. remote'[k][r].at >= start[p] - MaxPush
          BY <2>1, <2>2, <2>7, <3>4, <4>1, <4>2
        <4> QED BY <2>7, <3>1, <4>3 DEF CameLate
      <3>5. CASE Lacks(m, k, r)
        <4>1. ~OnPage(p, r)
          BY <1>1, <2>7, <3>1, <3>2, <3>5, CommitGets
        <4>2. Before(at[p], Place(k, r)) \/ CameLate(p, r)
          BY <1>1, <2>7, <3>1, <3>5, <4>1 DEF ReadInv
        <4> QED BY <2>7, <3>1, <4>2 DEF CameLate, Place
      <3> QED BY <1>1, <2>2, <2>7, <3>1, <3>2, <3>3, <3>4, <3>5, LacksStep DEF Lacks
    <2> QED BY <1>1, <2>4, <2>5, <2>6, <2>7, Reading
  <1>2. ASSUME NEW p \in Procs, CommandStep(p) PROVE ReadInv'
    BY <1>1, <1>2 DEF ReadInv
  <1>3. CASE UNCHANGED vars \/ Tick \/ \E m \in Machines : \E r \in Rows(m) : Record(m, r)
    <2>1. UNCHANGED <<remote, copy, pc, from, at, start, page>>
      BY <1>3 DEF vars, machineVars, remoteVars, regVars, Tick, Record
    <2> QED BY <2>1 DEF ReadInv, Lacks, CameLate, OnPage, Place
  <1> QED BY <1>2, <1>3 DEF Next, CommandStep

LEMMA WindowInit == Init => WindowInv
  <1> SUFFICES ASSUME Init PROVE WindowInv
    OBVIOUS
  <1>1. TimeInv /\ StampInv /\ AloneInv /\ PageInv /\ ReadInv
    BY DEF Init, TimeInv, StampInv, AloneInv, PageInv, ReadInv, PushPcs, PullPcs, PurgePcs, Start, NoRow,
           Rows, RowIds
  <1>2. NothingBehindCursor
    BY DEF Init, NothingBehindCursor, NoRow, Rows, RowIds
  <1> QED BY <1>1, <1>2 DEF WindowInv

\* However pushes and pulls of any number of machines overlap, no row and no
\* growth of a row comes to lie behind the cursor of a machine that lacks it,
\* as long as a push and a pull together end within the window that `pull_machine`
\* reads again (SyncAssumption) and nothing else runs on a machine that is purged.
THEOREM NothingIsSkipped ==
  ASSUME PurgeRunsAlone
  PROVE  Spec => []NothingBehindCursor
  <1>1. Init => TypeOK /\ WindowInv
    BY TypeInit, WindowInit
  <1>2. TypeOK /\ WindowInv /\ [Next]_vars => (TypeOK /\ WindowInv)'
    BY TypeStep, TimeStep, StampStep, AloneStep, PageStep, BehindStep, ReadStep DEF WindowInv
  <1>3. WindowInv => NothingBehindCursor
    BY DEF WindowInv
  <1> QED BY <1>1, <1>2, <1>3, PTL DEF Spec

-----------------------------------------------------------------------------
(* A purge leaves nothing                                                   *)

\* The steps that write sync.json.
LEMMA ConfStep ==
  ASSUME TypeOK, NEW p \in Procs, CommandStep(p)
  PROVE  \/ conf' = conf
         \/ EnableSave(p) /\ \E accounts \in Lists : conf'[Here(p)] =
               [enabled |-> TRUE, accounts |-> accounts, reset |-> ResetAfter(load[p], accounts)]
         \/ /\ DisableSave(p) \/ PurgeSave(p)
            /\ conf'[Here(p)] = [load[p] EXCEPT !.enabled = FALSE]
         \/ /\ PushEnd(p) /\ load[p].reset
            /\ conf'[Here(p)] = [load[p] EXCEPT !.reset = FALSE]
  <1>1. Here(p) \in Machines /\ DOMAIN conf = Machines
    BY SyncAssumption DEF Here, TypeOK, MachineOK
  <1>2. CASE EnableSave(p)
    BY <1>1, <1>2 DEF EnableSave, Save
  <1>3. CASE DisableSave(p) \/ PurgeSave(p)
    BY <1>1, <1>3 DEF DisableSave, PurgeSave, Save
  <1>4. CASE Push(p)
    <2>1. CASE PushEnd(p)
      BY <1>1, <2>1 DEF PushEnd, Save
    <2> QED BY <1>4, <2>1 DEF Push, PushStart, PushMark, PushBatch, PushRaise, machineVars
  <1>5. CASE EnableLoad(p) \/ DisableLoad(p) \/ Crash(p) \/ Pull(p)
             \/ SyncStart(p) \/ SyncSalt(p) \/ SyncAdopt(p) \/ SyncStore(p)
    BY <1>5, SaltType, PullType DEF EnableLoad, DisableLoad, Crash, machineVars
  <1>6. CASE Purge(p) /\ ~PurgeSave(p)
    BY <1>6 DEF Purge, PurgeLoad, PurgeSalt, PurgeDelete, PurgeFail, PurgeClear, machineVars
  <1> QED BY <1>2, <1>3, <1>4, <1>5, <1>6 DEF CommandStep

\* Only a push of a machine adds rows of it.
LEMMA RowsAppear ==
  ASSUME TypeOK, NEW p \in Procs, CommandStep(p), NEW k \in Machines, NEW r \in RowIds,
         remote[k][r].size = 0
  PROVE  remote'[k][r].size = 0 \/ (k = Here(p) /\ PushBatch(p) /\ pc[p] = "batch")
  <1>1. CASE UNCHANGED remote
    BY <1>1
  <1>2. CASE PushBatch(p)
    <2>1. pc[p] = "batch" /\ (UNCHANGED remote \/ \E batch : Upsert(p, batch))
      BY <1>2 DEF PushBatch
    <2> QED BY <1>1, <1>2, <2>1, Upserted
  <1>3. ASSUME NEW doomed, Delete(doomed) PROVE remote'[k][r].size = 0
    BY <1>3, Deleted
  <1>4. CASE PurgeDelete(p) \/ PurgeFail(p)
    BY <1>1, <1>3, <1>4 DEF PurgeDelete, PurgeFail
  <1>5. CASE Push(p) /\ ~PushBatch(p)
    BY <1>1, <1>5 DEF Push, PushStart, PushMark, PushRaise, PushEnd, remoteVars
  <1>6. CASE Purge(p) /\ ~PurgeDelete(p) /\ ~PurgeFail(p)
    BY <1>1, <1>6 DEF Purge, PurgeLoad, PurgeSave, PurgeSalt, PurgeClear, remoteVars
  <1>7. CASE EnableLoad(p) \/ EnableSave(p) \/ DisableLoad(p) \/ DisableSave(p) \/ Pull(p)
             \/ SyncStart(p) \/ SyncSalt(p) \/ SyncAdopt(p) \/ SyncStore(p) \/ Crash(p)
    BY <1>1, <1>7, EnableType, SaltType, PullType DEF Crash, remoteVars
  <1> QED BY <1>2, <1>4, <1>5, <1>6, <1>7 DEF CommandStep

\* A process comes to a step of a sync from a step of a sync, or by starting one.
LEMMA SyncSteps ==
  ASSUME TypeOK, NEW p \in Procs, CommandStep(p), pc'[p] \in SyncPcs
  PROVE  pc[p] \in SyncPcs \/ SyncStart(p)
  <1>1. pc \in [Procs -> Pcs] /\ ~Exit(p)
    BY Ends DEF TypeOK, RegOK, SyncPcs
  <1>2. CASE EnableLoad(p) \/ EnableSave(p) \/ DisableLoad(p) \/ DisableSave(p) \/ Crash(p)
    BY <1>1, <1>2 DEF EnableLoad, EnableSave, DisableLoad, DisableSave, Crash, Load, Goto, SyncPcs
  <1>3. CASE SyncSalt(p) \/ SyncAdopt(p) \/ SyncStore(p)
    BY <1>3 DEF SyncSalt, SyncAdopt, SyncStore, SyncPcs
  <1>4. CASE Push(p) \/ Pull(p)
    BY <1>4 DEF Push, PushStart, PushMark, PushBatch, PushRaise, PushEnd,
                Pull, PullMachines, PullNext, PullPage, PullCommit, SyncPcs
  <1>5. CASE Purge(p)
    <2>1. CASE PurgeSalt(p)
      BY <1>1, <2>1 DEF PurgeSalt, SyncPcs
    <2> QED BY <1>1, <1>5, <2>1
        DEF Purge, PurgeLoad, PurgeSave, PurgeDelete, PurgeFail, PurgeClear, Load, Goto, Fails,
            LosesAnswer, SyncPcs
  <1> QED BY <1>2, <1>3, <1>4, <1>5 DEF CommandStep

\* Where a process that purges came from, and what it holds.
LEMMA PurgeSteps ==
  ASSUME TypeOK, NEW p \in Procs, CommandStep(p), pc'[p] \in PurgePcs
  PROVE  \/ /\ PurgeLoad(p) /\ pc'[p] = "purge" /\ what'[p] \in Scopes /\ conf' = conf
            /\ load'[p] = conf[Here(p)] /\ hash'[p] = hash[p] /\ pc[p] = "idle"
         \/ /\ PurgeSave(p) /\ pc[p] = "purge" /\ pc'[p] = "delete"
            /\ what'[p] = what[p] /\ hash'[p] = hash[p] /\ UNCHANGED <<remote, rsalt>>
         \/ /\ PurgeSalt(p) /\ pc[p] = "delete" /\ pc'[p] = "delete" /\ conf' = conf
            /\ what'[p] = what[p] /\ hash'[p] = rsalt' /\ UNCHANGED remote
         \/ /\ PurgeDelete(p) /\ pc[p] = "delete" /\ pc'[p] = "clear" /\ conf' = conf
            /\ what'[p] = what[p] /\ hash'[p] = hash[p]
  <1>1. /\ pc \in [Procs -> Pcs] /\ what \in [Procs -> {"none"} \cup Kinds \cup Scopes] /\ ~Exit(p)
        /\ load \in [Procs -> Settings] /\ hash \in [Procs -> Nat]
    BY Ends DEF TypeOK, RegOK, PurgePcs
  <1>2. CASE EnableLoad(p) \/ EnableSave(p) \/ DisableLoad(p) \/ DisableSave(p) \/ Crash(p)
    BY <1>1, <1>2 DEF EnableLoad, EnableSave, DisableLoad, DisableSave, Crash, Load, Goto, PurgePcs
  <1>3. CASE SyncStart(p) \/ SyncSalt(p) \/ SyncAdopt(p) \/ SyncStore(p)
    BY <1>1, <1>3
       DEF SyncStart, SyncSalt, SyncAdopt, SyncStore, FirstHalf, Fails, LosesAnswer, Load, Goto, PurgePcs
  <1>4. CASE Push(p)
    BY <1>1, <1>4
       DEF Push, PushStart, PushMark, PushBatch, PushRaise, PushEnd, Fails, LosesAnswer, Goto, PurgePcs
  <1>5. CASE Pull(p)
    BY <1>1, <1>5 DEF Pull, PullMachines, PullNext, PullPage, PullCommit, Fails, Goto, PurgePcs
  <1>6. CASE PurgeLoad(p)
    BY <1>1, <1>6 DEF PurgeLoad, MayType, Load, Goto, machineVars
  <1>7. CASE PurgeSave(p)
    BY <1>1, <1>7 DEF PurgeSave, Goto, regVars, remoteVars
  <1>8. CASE PurgeSalt(p)
    BY <1>1, <1>8 DEF PurgeSalt, machineVars
  <1>9. CASE PurgeDelete(p)
    BY <1>1, <1>9 DEF PurgeDelete, LosesAnswer, Goto, regVars, machineVars
  <1>10. CASE PurgeFail(p) \/ PurgeClear(p)
    BY <1>1, <1>10 DEF PurgeFail, PurgeClear, Fails, LosesAnswer
  <1> QED BY <1>2, <1>3, <1>4, <1>5, <1>6, <1>7, <1>8, <1>9, <1>10 DEF CommandStep, Purge

LEMMA PurgedStep ==
  ASSUME TypeOK, NEW p \in Procs, CommandStep(p)
  PROVE  \/ purged' = purged
         \/ EnableSave(p) /\ purged' = purged \ {Here(p)}
         \/ PurgeClear(p) /\ what[p] # "account" /\ purged' = purged \cup {Here(p)}
  <1>1. CASE EnableSave(p) \/ PurgeClear(p)
    BY <1>1 DEF EnableSave, PurgeClear
  <1>2. CASE EnableLoad(p) \/ DisableLoad(p) \/ DisableSave(p) \/ Crash(p) \/ Push(p) \/ Pull(p)
             \/ SyncStart(p) \/ SyncSalt(p) \/ SyncAdopt(p) \/ SyncStore(p)
    BY <1>2, SaltType, PushType, PullType DEF EnableLoad, DisableLoad, DisableSave, Crash, seenVars
  <1>3. CASE Purge(p) /\ ~PurgeClear(p)
    BY <1>3 DEF Purge, PurgeLoad, PurgeSave, PurgeSalt, PurgeDelete, PurgeFail, seenVars
  <1> QED BY <1>1, <1>2, <1>3 DEF CommandStep

LEMMA PurgeStep ==
  ASSUME TypeOK, AloneInv, PurgeInv, PurgeLeavesNothing, [Next]_vars
  PROVE  PurgeInv' /\ PurgeLeavesNothing'
  <1>1. ASSUME NEW p \in Procs, CommandStep(p) PROVE PurgeInv' /\ PurgeLeavesNothing'
    <2> DEFINE m == Here(p)
    <2>1. m \in Machines /\ conf[m] \in Settings /\ load[p] \in Settings
      BY SyncAssumption DEF Here, TypeOK, MachineOK, RegOK
    <2>2. /\ \A q \in Procs \ {p} : Kept(q)
          /\ \A k \in Machines \ {m} : conf'[k] = conf[k]
      BY <1>1, CommandType DEF FilesKept
    <2>3. purged \subseteq Machines /\ \A k \in Machines : Rows(k) \subseteq RowIds
      BY PlaceOrder DEF TypeOK
    \* The rows of a machine that purges, or was purged, stay away.
    <2>4. ASSUME NEW k \in Machines, \A q \in Procs : Here(q) = k => pc[q] # "batch",
                 NEW r \in RowIds, remote[k][r].size = 0
          PROVE  remote'[k][r].size = 0
      BY <1>1, <2>4, RowsAppear
    <2>5. ASSUME NEW k \in purged \cap purged'
          PROVE  /\ ~conf'[k].enabled
                 /\ \A q \in Procs : Here(q) = k => pc'[q] \notin SyncPcs
                 /\ \A r \in Rows(k) : remote'[k][r].size = 0
      <3>1. /\ ~conf[k].enabled /\ k \in Machines
            /\ \A q \in Procs : Here(q) = k => pc[q] \notin SyncPcs
        BY <2>3 DEF PurgeInv
      <3>2. \A r \in Rows(k) : remote'[k][r].size = 0
        BY <2>3, <2>4, <3>1 DEF PurgeLeavesNothing, SyncPcs
      <3>3. CASE k # m
        BY <2>2, <3>1, <3>2, <3>3 DEF Kept
      <3>4. CASE k = m
        <4>1. pc'[p] \notin SyncPcs
          BY <1>1, <3>1, <3>4, SyncSteps DEF SyncStart
        <4>2. ~EnableSave(p) /\ ~PushEnd(p)
          BY <2>5, <3>1, <3>4 DEF EnableSave, PushEnd, SyncPcs
        <4>3. ~conf'[m].enabled
          <5>1. [load[p] EXCEPT !.enabled = FALSE].enabled = FALSE
            BY <2>1 DEF Settings
          <5> QED BY <1>1, <3>1, <3>4, <4>2, <5>1, ConfStep
        <4> QED BY <2>2, <3>1, <3>2, <3>4, <4>1, <4>3 DEF Kept
      <3> QED BY <3>3, <3>4
    <2>6. ASSUME PurgeClear(p), what[p] # "account"
          PROVE  /\ ~conf'[m].enabled
                 /\ \A q \in Procs : Here(q) = m => pc'[q] \notin SyncPcs
                 /\ \A r \in Rows(m) : remote'[m][r].size = 0
      <3>1. pc[p] = "clear" /\ UNCHANGED <<conf, remote>> /\ pc'[p] = "idle"
        BY <2>6, Ends DEF PurgeClear, remoteVars
      <3>2. \A q \in Procs \ {p} : Here(q) = m => pc'[q] = "idle"
        BY <2>2, <3>1 DEF AloneInv, PurgePcs, Kept
      <3> QED BY <2>1, <2>3, <2>6, <3>1, <3>2 DEF PurgeInv, SyncPcs
    <2>7. \A k \in purged' :
             /\ ~conf'[k].enabled
             /\ \A q \in Procs : Here(q) = k => pc'[q] \notin SyncPcs
             /\ \A r \in Rows(k) : remote'[k][r].size = 0
      BY <1>1, <2>5, <2>6, PurgedStep
    <2>8. ASSUME NEW q \in Procs, pc'[q] \in PurgePcs
          PROVE  /\ what'[q] \in Scopes
                 /\ pc'[q] = "purge" => load'[q] = conf'[Here(q)]
                 /\ pc'[q] \in {"delete", "clear"} => ~conf'[Here(q)].enabled
                 /\ pc'[q] = "clear" /\ what'[q] # "account"
                       => \A r \in RowIds : remote'[Here(q)][r].size = 0
      <3>1. CASE q # p
        <4>1. Kept(q) /\ pc[q] \in PurgePcs /\ Here(q) \in Machines
          BY <2>2, <2>8, <3>1, SyncAssumption DEF Kept, Here
        <4>2. Here(q) = m => pc[p] = "idle"
          BY <3>1, <4>1 DEF AloneInv
        <4>3. conf'[Here(q)] = conf[Here(q)]
          BY <1>1, <2>2, <4>1, <4>2, ConfStep DEF EnableSave, DisableSave, PurgeSave, PushEnd
        <4>4. \A r \in RowIds : remote[Here(q)][r].size = 0 => remote'[Here(q)][r].size = 0
          BY <1>1, <4>1, <4>2, RowsAppear
        <4> QED BY <4>1, <4>3, <4>4 DEF PurgeInv, Kept, PurgePcs
      <3>2. CASE q = p /\ PurgeLoad(p) /\ pc'[p] = "purge" /\ what'[p] \in Scopes /\ conf' = conf
                 /\ load'[p] = conf[Here(p)]
        BY <3>2
      <3>3. CASE q = p /\ PurgeSave(p) /\ pc[p] = "purge" /\ pc'[p] = "delete" /\ what'[p] = what[p]
        <4>1. what[p] \in Scopes /\ load[p] = conf[m]
          BY <3>3 DEF PurgeInv, PurgePcs
        <4>2. CASE load[p].enabled
          <5>1. conf'[m] = [load[p] EXCEPT !.enabled = FALSE]
            BY <2>1, <3>3, <4>2 DEF PurgeSave, Save, TypeOK, MachineOK
          <5> QED BY <2>1, <3>3, <4>1, <5>1 DEF Settings
        <4>3. CASE ~load[p].enabled
          BY <3>3, <4>1, <4>3 DEF PurgeSave
        <4> QED BY <4>2, <4>3
      <3>4. CASE q = p /\ pc[p] = "delete" /\ pc'[p] = "delete" /\ conf' = conf /\ what'[p] = what[p]
        BY <3>4 DEF PurgeInv, PurgePcs
      <3>5. CASE q = p /\ PurgeDelete(p) /\ pc[p] = "delete" /\ pc'[p] = "clear" /\ conf' = conf
                 /\ what'[p] = what[p]
        <4>1. what[p] \in Scopes /\ ~conf[m].enabled
          BY <3>5 DEF PurgeInv, PurgePcs
        <4>2. ASSUME what[p] # "account", NEW r \in RowIds PROVE remote'[m][r].size = 0
          <5>1. PICK doomed : Delete(doomed) /\ <<m, r>> \in doomed
            BY <2>1, <3>5, <4>2 DEF PurgeDelete
          <5> QED BY <2>1, <5>1, Deleted
        <4> QED BY <3>5, <4>1, <4>2
      <3> QED BY <1>1, <2>8, <3>1, <3>2, <3>3, <3>4, <3>5, PurgeSteps
    <2> QED BY <2>7, <2>8 DEF PurgeInv, PurgeLeavesNothing, PurgePcs
  <1>2. CASE UNCHANGED vars \/ Tick \/ \E m \in Machines : \E r \in Rows(m) : Record(m, r)
    <2>1. UNCHANGED <<conf, pc, what, load, remote, purged>>
      BY <1>2 DEF vars, machineVars, remoteVars, regVars, seenVars, Tick, Record
    <2> QED BY <2>1 DEF PurgeInv, PurgeLeavesNothing
  <1> QED BY <1>1, <1>2 DEF Next, CommandStep

\* After `purge` or `purge --all` a machine has no rows at the remote until it is
\* enabled again, whatever the other machines do and wherever commands are killed
\* or lose their answers, as long as nothing else runs on a machine that is purged.
THEOREM PurgedIsGone ==
  ASSUME PurgeRunsAlone
  PROVE  Spec => []PurgeLeavesNothing
  <1>1. Init => AloneInv /\ PurgeInv /\ PurgeLeavesNothing
    BY DEF Init, AloneInv, PurgeInv, PurgeLeavesNothing, PurgePcs
  <1>2. TypeOK /\ AloneInv /\ PurgeInv /\ PurgeLeavesNothing /\ [Next]_vars
        => (AloneInv /\ PurgeInv /\ PurgeLeavesNothing)'
    BY AloneStep, PurgeStep
  <1> QED BY <1>1, <1>2, TypeInit, TypeStep, PTL DEF Spec

-----------------------------------------------------------------------------
(* What a command holds, when a machine runs one at a time                  *)

\* The commands of other machines leave a machine's commands and files alone.
LEMMA Elsewhere ==
  ASSUME OneAtATime, TypeOK, NEW p \in Procs, CommandStep(p)
  PROVE  /\ TypeOK' /\ UNCHANGED <<size, stamp, now>>
         /\ \A q \in Procs \ {p} : Kept(q) /\ Here(q) # Here(p) /\ FilesKept(Here(q))
         /\ \A m \in Machines \ {Here(p)} : FilesKept(m)
         /\ \A q \in Procs : Here(q) = Here(p) => q = p
  <1>1. \A q \in Procs : Here(q) \in Machines
    BY SyncAssumption DEF Here
  <1> QED BY <1>1, CommandType DEF OneAtATime

LEMMA HeldEnable ==
  ASSUME TypeOK, NEW p \in Procs, HeldBy(p),
         EnableLoad(p) \/ EnableSave(p) \/ DisableLoad(p) \/ DisableSave(p) \/ Crash(p)
  PROVE  HeldBy(p)'
  <1>1. pc \in [Procs -> Pcs] /\ load \in [Procs -> Settings]
    BY DEF TypeOK, RegOK
  <1>2. CASE EnableLoad(p) \/ DisableLoad(p)
    BY <1>1, <1>2
       DEF EnableLoad, DisableLoad, MayType, Load, Goto, machineVars, HeldBy, WriterPcs, SaltedPcs,
           SendingPcs
  <1>3. CASE EnableSave(p) \/ DisableSave(p) \/ Crash(p)
    BY <1>3, Ends
       DEF EnableSave, DisableSave, Crash, HeldBy, WriterPcs, SaltedPcs, SendingPcs
  <1> QED BY <1>2, <1>3

LEMMA HeldSalt ==
  ASSUME TypeOK, NEW p \in Procs, HeldBy(p),
         SyncStart(p) \/ SyncSalt(p) \/ SyncAdopt(p) \/ SyncStore(p)
  PROVE  HeldBy(p)'
  <1>1. /\ pc \in [Procs -> Pcs] /\ load \in [Procs -> Settings] /\ hash \in [Procs -> Nat]
        /\ salt \in [Machines -> Nat] /\ Here(p) \in Machines
    BY SyncAssumption DEF TypeOK, RegOK, MachineOK, Here
  <1>2. CASE Exit(p)
    BY <1>2, Ends DEF HeldBy, WriterPcs, SaltedPcs, SendingPcs
  <1>3. CASE SyncStart(p)
    BY <1>1, <1>3
       DEF SyncStart, MayType, Load, Goto, machineVars, HeldBy, WriterPcs, SaltedPcs, SendingPcs
  <1>4. CASE SyncSalt(p) /\ ~Exit(p)
    <2>1. EnsureSalt /\ hash' = [hash EXCEPT ![p] = rsalt'] /\ pc[p] = "salt" /\ pc'[p] = "adopt"
          /\ UNCHANGED <<load, pos, machineVars>>
      BY <1>1, <1>4 DEF SyncSalt, Fails, LosesAnswer, Goto
    <2>2. rsalt' # 0
      BY <2>1, SaltMade DEF TypeOK
    <2> QED BY <1>1, <2>1, <2>2 DEF HeldBy, WriterPcs, SaltedPcs, SendingPcs, machineVars
  <1>5. CASE SyncAdopt(p) /\ ~Exit(p)
    BY <1>1, <1>5
       DEF SyncAdopt, Adoptable, FirstHalf, Goto, HeldBy, WriterPcs, SaltedPcs, SendingPcs,
           machineVars, regVars
  <1>6. CASE SyncStore(p)
    BY <1>1, <1>6
       DEF SyncStore, FirstHalf, Goto, HeldBy, WriterPcs, SaltedPcs, SendingPcs, regVars
  <1> QED BY <1>2, <1>3, <1>4, <1>5, <1>6 DEF SyncStart

LEMMA HeldPush ==
  ASSUME TypeOK, NEW p \in Procs, HeldBy(p), Push(p)
  PROVE  HeldBy(p)'
  <1>1. /\ pc \in [Procs -> Pcs] /\ load \in [Procs -> Settings] /\ hash \in [Procs -> Nat]
        /\ salt \in [Machines -> Nat] /\ Here(p) \in Machines
    BY SyncAssumption DEF TypeOK, RegOK, MachineOK, Here
  <1>2. CASE Exit(p)
    BY <1>2, Ends DEF HeldBy, WriterPcs, SaltedPcs, SendingPcs
  <1>3. CASE PushStart(p)
    BY <1>1, <1>3 DEF PushStart, Goto, HeldBy, WriterPcs, SaltedPcs, SendingPcs
  <1>4. CASE PushMark(p) /\ ~Exit(p)
    BY <1>1, <1>4
       DEF PushMark, Fails, Goto, HeldBy, WriterPcs, SaltedPcs, SendingPcs, machineVars
  <1>5. CASE PushBatch(p) /\ ~Exit(p)
    <2>1. pc[p] = "batch" /\ pc'[p] \in {"pushed", "raise"} /\ UNCHANGED <<load, hash, machineVars>>
      BY <1>1, <1>5 DEF PushBatch, Fails, LosesAnswer, Goto, regVars
    <2> QED BY <2>1 DEF HeldBy, WriterPcs, SaltedPcs, SendingPcs, machineVars
  <1>6. CASE PushRaise(p)
    BY <1>1, <1>6 DEF PushRaise, Goto, HeldBy, WriterPcs, SaltedPcs, SendingPcs, regVars
  <1>7. CASE PushEnd(p) /\ ~Exit(p)
    BY <1>1, <1>7 DEF PushEnd, Goto, HeldBy, WriterPcs, SaltedPcs, SendingPcs, regVars
  <1> QED BY <1>2, <1>3, <1>4, <1>5, <1>6, <1>7 DEF Push

LEMMA HeldPull ==
  ASSUME TypeOK, NEW p \in Procs, HeldBy(p), Pull(p)
  PROVE  HeldBy(p)'
  <1>1. pc \in [Procs -> Pcs] /\ UNCHANGED salt
    BY PullType DEF TypeOK, RegOK
  <1>2. CASE Exit(p)
    BY <1>2, Ends DEF HeldBy, WriterPcs, SaltedPcs, SendingPcs
  <1>3. CASE ~Exit(p)
    <2>1. pc[p] \in {"machines", "next", "page", "commit"} /\ pc'[p] \in {"next", "page", "commit"}
          /\ UNCHANGED hash
      BY <1>1, <1>3
         DEF Pull, PullMachines, PullNext, PullPage, PullCommit, Fails, Goto, regVars
    <2> QED BY <1>1, <2>1 DEF HeldBy, WriterPcs, SaltedPcs, SendingPcs
  <1> QED BY <1>2, <1>3

LEMMA HeldPurge ==
  ASSUME TypeOK, NEW p \in Procs, HeldBy(p), Purge(p)
  PROVE  HeldBy(p)'
  <1>1. pc \in [Procs -> Pcs] /\ CommandStep(p) /\ load \in [Procs -> Settings] /\ pos \in [Procs -> Nat]
    BY DEF TypeOK, RegOK, CommandStep
  <1>2. CASE Exit(p)
    BY <1>2, Ends DEF HeldBy, WriterPcs, SaltedPcs, SendingPcs
  <1>3. CASE ~Exit(p)
    <2>1. pc'[p] \in PurgePcs /\ pos'[p] = pos[p] /\ pc[p] \in PurgePcs \cup {"idle"}
      BY <1>1, <1>3
         DEF Purge, PurgeLoad, PurgeSave, PurgeSalt, PurgeDelete, PurgeFail, PurgeClear, MayType, Fails,
             LosesAnswer, Load, Goto, regVars, PurgePcs
    <2>2. pos[p] = 0
      BY <2>1 DEF HeldBy, PurgePcs, SendingPcs
    <2>3. pc'[p] = "purge" => load'[p] = conf'[Here(p)] /\ hash'[p] = 0
      <3>1. pc'[p] = "purge" => conf' = conf /\ load'[p] = conf[Here(p)] /\ hash'[p] = hash[p] /\ pc[p] = "idle"
        BY <1>1, <2>1, PurgeSteps
      <3> QED BY <3>1 DEF HeldBy
    <2> QED BY <2>1, <2>2, <2>3 DEF HeldBy, WriterPcs, SaltedPcs, SendingPcs, PurgePcs
  <1> QED BY <1>2, <1>3

LEMMA HeldStep ==
  ASSUME OneAtATime, TypeOK, HeldInv, [Next]_vars
  PROVE  HeldInv'
  <1>1. ASSUME NEW p \in Procs, CommandStep(p) PROVE HeldInv'
    <2>1. HeldBy(p)'
      BY <1>1, HeldEnable, HeldSalt, HeldPush, HeldPull, HeldPurge DEF CommandStep, HeldInv
    <2>2. ASSUME NEW q \in Procs \ {p} PROVE HeldBy(q)'
      BY <1>1, Elsewhere DEF Kept, FilesKept, HeldInv, HeldBy
    <2> QED BY <2>1, <2>2 DEF HeldInv
  <1>2. CASE UNCHANGED vars \/ Tick \/ \E m \in Machines : \E r \in Rows(m) : Record(m, r)
    <2>1. UNCHANGED <<conf, pc, load, salt, hash, pos>>
      BY <1>2 DEF vars, machineVars, regVars, Tick, Record
    <2> QED BY <2>1 DEF HeldInv, HeldBy
  <1> QED BY <1>1, <1>2 DEF Next, CommandStep

-----------------------------------------------------------------------------
(* Salts, and the rows under them                                           *)

\* The remote's salt is made when there is none, and `purge --all` removes it
\* with every row.
LEMMA RemoteSalt ==
  ASSUME TypeOK, NEW p \in Procs, CommandStep(p)
  PROVE  \/ UNCHANGED <<rsalt, salts>>
         \/ rsalt = 0 /\ salts' = salts + 1 /\ rsalt' = salts' /\ UNCHANGED remote
         \/ /\ PurgeDelete(p) /\ rsalt' = 0 /\ UNCHANGED salts
            /\ \A m \in Machines : \A r \in RowIds : remote'[m][r].size = 0
  <1>1. CASE SyncSalt(p) \/ PurgeSalt(p)
    BY <1>1, SaltMade DEF SyncSalt, PurgeSalt, Fails
  <1>2. CASE PurgeFail(p)
    BY <1>2, SaltMade DEF PurgeFail
  <1>3. CASE PurgeDelete(p)
    <2>1. UNCHANGED salts /\ (rsalt' = rsalt \/ (Delete(Machines \X RowIds) /\ rsalt' = 0))
      BY <1>3 DEF PurgeDelete, worldVars
    <2>2. ASSUME Delete(Machines \X RowIds), NEW m \in Machines, NEW r \in RowIds
          PROVE  remote'[m][r].size = 0
      <3>1. <<m, r>> \in Machines \X RowIds
        OBVIOUS
      <3>2. remote'[m][r] = NoRow
        BY <2>2, <3>1, Deleted
      <3> QED BY <2>2, <3>2, Deleted
    <2> QED BY <1>3, <2>1, <2>2
  <1>4. CASE EnableLoad(p) \/ EnableSave(p) \/ DisableLoad(p) \/ DisableSave(p)
             \/ Push(p) \/ Pull(p) \/ Crash(p)
    BY <1>4, EnableType, PushType, PullType DEF Crash, remoteVars, worldVars
  <1>5. CASE SyncStart(p) \/ SyncAdopt(p) \/ SyncStore(p)
    BY <1>5 DEF SyncStart, SyncAdopt, SyncStore, remoteVars, worldVars
  <1>6. CASE PurgeLoad(p) \/ PurgeSave(p) \/ PurgeClear(p)
    BY <1>6 DEF PurgeLoad, PurgeSave, PurgeClear, remoteVars, worldVars
  <1> QED BY <1>1, <1>2, <1>3, <1>4, <1>5, <1>6 DEF CommandStep, Purge

\* A command learns the remote's salt, keeps what it learnt, or forgets it.
LEMMA OwnHash ==
  ASSUME TypeOK, NEW p \in Procs, CommandStep(p)
  PROVE  hash'[p] \in {0, hash[p], rsalt'}
  <1>1. hash \in [Procs -> Nat]
    BY DEF TypeOK, RegOK
  <1>2. CASE Exit(p)
    BY <1>2, Ends
  <1>3. CASE (SyncSalt(p) /\ ~Exit(p)) \/ PurgeSalt(p)
    BY <1>1, <1>3 DEF SyncSalt, Fails, LosesAnswer, PurgeSalt
  <1>4. CASE Push(p) \/ Pull(p)
    BY <1>2, <1>4
       DEF Push, PushStart, PushMark, PushBatch, PushRaise, PushEnd, Fails, LosesAnswer, regVars,
           Pull, PullMachines, PullNext, PullPage, PullCommit
  <1>5. CASE EnableLoad(p) \/ EnableSave(p) \/ DisableLoad(p) \/ DisableSave(p) \/ Crash(p)
             \/ SyncStart(p) \/ SyncAdopt(p) \/ SyncStore(p)
    BY <1>2, <1>5
       DEF EnableLoad, EnableSave, DisableLoad, DisableSave, Crash, SyncStart, SyncAdopt, SyncStore, regVars
  <1>6. CASE Purge(p) /\ ~PurgeSalt(p)
    BY <1>2, <1>6
       DEF Purge, PurgeLoad, PurgeSave, PurgeDelete, PurgeFail, PurgeClear, Fails, LosesAnswer, regVars
  <1> QED BY <1>2, <1>3, <1>4, <1>5, <1>6 DEF CommandStep

\* A machine stores a salt that a command learnt, and a purge forgets it with the
\* watermark.
LEMMA OwnSalt ==
  ASSUME TypeOK, NEW p \in Procs, CommandStep(p)
  PROVE  \/ salt'[Here(p)] = salt[Here(p)] /\ ~PurgeClear(p)
         \/ SyncStore(p) /\ pc[p] = "store" /\ salt'[Here(p)] = hash[p] /\ mark' = mark
         \/ PurgeClear(p) /\ pc[p] = "clear" /\ salt'[Here(p)] = 0 /\ mark'[Here(p)] = 0
  <1>1. salt \in [Machines -> Nat] /\ mark \in [Machines -> Nat] /\ Here(p) \in Machines
    BY SyncAssumption DEF TypeOK, MachineOK, Here
  <1>2. CASE SyncStore(p)
    BY <1>1, <1>2 DEF SyncStore
  <1>3. CASE PurgeClear(p)
    BY <1>1, <1>3 DEF PurgeClear
  <1>4. CASE Push(p)
    BY <1>4, PushType DEF Push, PushStart, PushMark, PushBatch, PushRaise, PushEnd, PurgeClear
  <1>5. CASE Pull(p)
    BY <1>5, PullType DEF Pull, PullMachines, PullNext, PullPage, PullCommit, PurgeClear
  <1>6. CASE EnableLoad(p) \/ EnableSave(p) \/ DisableLoad(p) \/ DisableSave(p)
             \/ SyncStart(p) \/ SyncSalt(p) \/ SyncAdopt(p)
    BY <1>6 DEF EnableLoad, EnableSave, DisableLoad, DisableSave, SyncStart, SyncSalt, SyncAdopt,
            machineVars, PurgeClear, MayType
  <1>7. CASE Purge(p) /\ ~PurgeClear(p)
    BY <1>7 DEF Purge, PurgeLoad, PurgeSave, PurgeSalt, PurgeDelete, PurgeFail, machineVars
  <1>8. CASE Crash(p)
    BY <1>3, <1>8 DEF Crash, machineVars
  <1> QED BY <1>2, <1>3, <1>4, <1>5, <1>6, <1>7, <1>8 DEF CommandStep

\* A row at the remote keeps its salt, and a new one has that of the push.
LEMMA RowSalt ==
  ASSUME TypeOK, NEW p \in Procs, CommandStep(p), NEW k \in Machines, NEW r \in RowIds,
         remote'[k][r].size > 0
  PROVE  \/ remote[k][r].size > 0 /\ remote'[k][r].salt = remote[k][r].salt
         \/ /\ k = Here(p) /\ PushBatch(p) /\ pc[p] = "batch" /\ remote[k][r].size = 0
            /\ remote'[k][r].salt = hash[p]
  <1>1. remote[k][r].size \in Nat
    BY DEF TypeOK, RemoteRow
  <1>2. CASE UNCHANGED remote
    BY <1>2
  <1>3. CASE PushBatch(p)
    <2>1. pc[p] = "batch" /\ (UNCHANGED remote \/ \E batch : Upsert(p, batch))
      BY <1>3 DEF PushBatch
    <2>2. ASSUME NEW batch, Upsert(p, batch), k = Here(p)
          PROVE  \/ remote'[k][r] = remote[k][r]
                 \/ remote'[k][r].salt = IF remote[k][r].size = 0 THEN hash[p] ELSE remote[k][r].salt
      BY <2>2, Upserted
    <2>3. ASSUME NEW batch, Upsert(p, batch), k # Here(p) PROVE remote'[k] = remote[k]
      BY <2>3, Upserted
    <2> QED BY <1>1, <1>2, <1>3, <2>1, <2>2, <2>3
  <1>4. ASSUME NEW doomed, Delete(doomed) PROVE remote[k][r].size > 0 /\ remote'[k][r].salt = remote[k][r].salt
    <2>1. IF <<k, r>> \in doomed THEN remote'[k][r] = NoRow ELSE remote'[k][r] = remote[k][r]
      BY <1>4, Deleted
    <2>2. NoRow.size = 0
      BY DEF NoRow
    <2> QED BY <2>1, <2>2
  <1>5. CASE PurgeDelete(p) \/ PurgeFail(p)
    BY <1>2, <1>4, <1>5 DEF PurgeDelete, PurgeFail
  <1>6. CASE Push(p) /\ ~PushBatch(p)
    BY <1>2, <1>6 DEF Push, PushStart, PushMark, PushRaise, PushEnd, remoteVars
  <1>7. CASE Purge(p) /\ ~PurgeDelete(p) /\ ~PurgeFail(p)
    BY <1>2, <1>7 DEF Purge, PurgeLoad, PurgeSave, PurgeSalt, PurgeClear, remoteVars
  <1>8. CASE EnableLoad(p) \/ EnableSave(p) \/ DisableLoad(p) \/ DisableSave(p) \/ Pull(p)
             \/ SyncStart(p) \/ SyncSalt(p) \/ SyncAdopt(p) \/ SyncStore(p) \/ Crash(p)
    BY <1>2, <1>8, EnableType, SaltType, PullType DEF Crash, remoteVars
  <1> QED BY <1>3, <1>5, <1>6, <1>7, <1>8 DEF CommandStep

\* Only a purge of the machine or of all removes a row of it.
LEMMA RowKept ==
  ASSUME TypeOK, NEW p \in Procs, CommandStep(p), NEW k \in Machines, NEW r \in RowIds,
         remote[k][r].size > 0, remote'[k][r].size = 0
  PROVE  k \in unfinished' \/ rsalt' = 0
  <1>1. CASE PushBatch(p)
    <2>1. UNCHANGED remote \/ \E batch : Upsert(p, batch)
      BY <1>1 DEF PushBatch
    <2>2. UNCHANGED remote => FALSE
      OBVIOUS
    <2> QED BY <2>1, <2>2, Upserted
  <1>2. CASE PurgeDelete(p)
    <2>1. CASE what[p] = "account"
      <3>1. PICK a \in Accounts : Delete(DoomedOf(Here(p), a, hash[p]))
        BY <1>2, <2>1 DEF PurgeDelete
      <3>2. <<k, r>> \in DoomedOf(Here(p), a, hash[p])
        BY <3>1, Deleted
      <3>3. k = Here(p)
        BY <3>2 DEF DoomedOf
      <3> QED BY <1>2, <3>3 DEF PurgeDelete
    <2>2. CASE what[p] = "machine"
      <3>1. Delete({<<Here(p), s>> : s \in RowIds})
        BY <1>2, <2>2 DEF PurgeDelete
      <3>2. <<k, r>> \in {<<Here(p), s>> : s \in RowIds}
        <4>1. CASE <<k, r>> \notin {<<Here(p), s>> : s \in RowIds}
          <5> DEFINE doomed == {<<Here(p), s>> : s \in RowIds}
          <5>1. <<k, r>> \notin doomed /\ Delete(doomed)
            BY <3>1, <4>1
          <5> HIDE DEF doomed
          <5>2. remote'[k][r] = remote[k][r]
            BY <5>1, Deleted
          <5> QED BY <5>2
        <4> QED BY <4>1
      <3>3. k = Here(p)
        BY <3>2
      <3> QED BY <1>2, <3>3 DEF PurgeDelete
    <2> QED BY <1>2, <2>1, <2>2 DEF PurgeDelete
  <1>3. CASE PurgeFail(p)
    BY <1>3 DEF PurgeFail
  <1>4. CASE UNCHANGED remote
    BY <1>4
  <1>5. CASE Push(p) /\ ~PushBatch(p)
    BY <1>4, <1>5 DEF Push, PushStart, PushMark, PushRaise, PushEnd, remoteVars
  <1>6. CASE Purge(p) /\ ~PurgeDelete(p) /\ ~PurgeFail(p)
    BY <1>4, <1>6 DEF Purge, PurgeLoad, PurgeSave, PurgeSalt, PurgeClear, remoteVars
  <1>7. CASE EnableLoad(p) \/ EnableSave(p) \/ DisableLoad(p) \/ DisableSave(p) \/ Pull(p)
             \/ SyncStart(p) \/ SyncSalt(p) \/ SyncAdopt(p) \/ SyncStore(p) \/ Crash(p)
    BY <1>4, <1>7, EnableType, SaltType, PullType DEF Crash, remoteVars
  <1> QED BY <1>1, <1>2, <1>3, <1>5, <1>6, <1>7 DEF CommandStep

LEMMA SaltStep ==
  ASSUME OneAtATime, TypeOK, HeldInv, SaltInv, [Next]_vars
  PROVE  SaltInv'
  <1>1. ASSUME NEW p \in Procs, CommandStep(p) PROVE SaltInv'
    <2>1. /\ rsalt \in Nat /\ salts \in Nat /\ hash \in [Procs -> Nat] /\ salt \in [Machines -> Nat]
          /\ Here(p) \in Machines /\ TypeOK'
      BY <1>1, CommandType, SyncAssumption DEF TypeOK, RegOK, MachineOK, Here
    <2>2. /\ rsalt' \in Nat /\ salts' \in Nat /\ hash' \in [Procs -> Nat] /\ salt' \in [Machines -> Nat]
      BY <2>1 DEF TypeOK, RegOK, MachineOK
    <2>3. salts <= salts' /\ rsalt' \in {0, salts'}
      BY <1>1, <2>1, RemoteSalt DEF SaltInv
    <2>4. \A q \in Procs : hash'[q] <= salts'
      <3>1. \A q \in Procs \ {p} : hash'[q] = hash[q]
        BY <1>1, CommandType DEF Kept
      <3>2. hash'[p] \in {0, hash[p], rsalt'}
        BY <1>1, OwnHash
      <3> QED BY <2>1, <2>2, <2>3, <3>1, <3>2 DEF SaltInv
    <2>5. \A m \in Machines : salt'[m] <= salts'
      <3>1. \A m \in Machines \ {Here(p)} : salt'[m] = salt[m]
        BY <1>1, CommandType DEF FilesKept
      <3>2. salt'[Here(p)] \in {0, hash[p], salt[Here(p)]}
        BY <1>1, OwnSalt
      <3> QED BY <2>1, <2>2, <2>3, <3>1, <3>2 DEF SaltInv
    <2>6. ASSUME NEW m \in Machines, NEW r \in RowIds, remote'[m][r].size > 0
          PROVE  remote'[m][r].salt \in 1 .. salts'
      <3>1. CASE remote[m][r].size > 0 /\ remote'[m][r].salt = remote[m][r].salt
        BY <2>1, <2>2, <2>3, <3>1 DEF SaltInv
      <3>2. CASE pc[p] = "batch" /\ remote'[m][r].salt = hash[p]
        <4>1. hash[p] # 0
          BY <3>2 DEF HeldInv, HeldBy, SaltedPcs
        <4> QED BY <2>1, <2>2, <2>3, <3>2, <4>1 DEF SaltInv
      <3> QED BY <1>1, <2>6, <3>1, <3>2, RowSalt
    <2> QED BY <2>3, <2>4, <2>5, <2>6 DEF SaltInv
  <1>2. CASE UNCHANGED vars \/ Tick \/ \E m \in Machines : \E r \in Rows(m) : Record(m, r)
    <2>1. UNCHANGED <<rsalt, salts, salt, hash, remote>>
      BY <1>2 DEF vars, machineVars, remoteVars, regVars, worldVars, Tick, Record
    <2> QED BY <2>1 DEF SaltInv
  <1> QED BY <1>1, <1>2 DEF Next, CommandStep

-----------------------------------------------------------------------------
(* What was sent                                                            *)

\* The steps that write the watermark.
LEMMA MarkStep ==
  ASSUME TypeOK, NEW p \in Procs, CommandStep(p)
  PROVE  \/ mark'[Here(p)] = mark[Here(p)]
         \/ (PushStart(p) \/ PurgeClear(p)) /\ mark'[Here(p)] = 0
         \/ /\ PushRaise(p) /\ pc[p] = "raise"
            /\ mark'[Here(p)] = IF mark[Here(p)] < pos[p] THEN pos[p] ELSE mark[Here(p)]
  <1>1. Here(p) \in Machines /\ mark \in [Machines -> Nat]
    BY SyncAssumption DEF Here, TypeOK, MachineOK
  <1>2. CASE PushStart(p) \/ PurgeClear(p)
    BY <1>1, <1>2 DEF PushStart, PurgeClear
  <1>3. CASE PushRaise(p)
    BY <1>1, <1>3 DEF PushRaise
  <1>4. CASE Push(p) /\ ~PushStart(p) /\ ~PushRaise(p)
    BY <1>4 DEF Push, PushMark, PushBatch, PushEnd, machineVars
  <1>5. CASE Purge(p) /\ ~PurgeClear(p)
    BY <1>5 DEF Purge, PurgeLoad, PurgeSave, PurgeSalt, PurgeDelete, PurgeFail, machineVars
  <1>6. CASE EnableLoad(p) \/ EnableSave(p) \/ DisableLoad(p) \/ DisableSave(p) \/ Pull(p)
             \/ SyncStart(p) \/ SyncSalt(p) \/ SyncAdopt(p) \/ SyncStore(p) \/ Crash(p)
    BY <1>6, SaltType, PullType
       DEF EnableLoad, EnableSave, DisableLoad, DisableSave, Crash, machineVars
  <1> QED BY <1>2, <1>3, <1>4, <1>5, <1>6 DEF CommandStep

\* Where a push that goes on came from.
LEMMA PushSteps ==
  ASSUME TypeOK, NEW p \in Procs, CommandStep(p), pc'[p] \in {"mark", "batch", "raise", "pushed"}
  PROVE  /\ load'[p] = load[p]
         /\ \/ /\ PushStart(p) /\ pc[p] = "push" /\ pc'[p] \in {"mark", "pushed"} /\ UNCHANGED remote
               /\ mark'[Here(p)] = IF load[p].reset THEN 0 ELSE mark[Here(p)]
            \/ /\ PushMark(p) /\ pc[p] = "mark" /\ pc'[p] = "batch" /\ UNCHANGED <<mark, remote>>
               /\ wm'[p] = mark[Here(p)] /\ pos'[p] = pos[p]
            \/ /\ PushBatch(p) /\ pc[p] = "batch" /\ pc'[p] = "pushed" /\ UNCHANGED <<mark, remote>>
            \/ /\ PushBatch(p) /\ pc[p] = "batch" /\ pc'[p] = "raise" /\ Batch(p) # {}
               /\ Upsert(p, Batch(p)) /\ wm'[p] = wm[p] /\ UNCHANGED mark
               /\ pos'[p] = CHOOSE r \in Batch(p) : \A s \in Batch(p) : s <= r
            \/ /\ PushRaise(p) /\ pc[p] = "raise" /\ pc'[p] = "batch" /\ UNCHANGED remote
               /\ wm'[p] = wm[p] /\ pos'[p] = pos[p]
               /\ mark'[Here(p)] = IF mark[Here(p)] < pos[p] THEN pos[p] ELSE mark[Here(p)]
  <1>1. /\ pc \in [Procs -> Pcs] /\ ~Exit(p) /\ mark \in [Machines -> Nat] /\ Here(p) \in Machines
        /\ wm \in [Procs -> Nat] /\ pos \in [Procs -> Nat]
    BY Ends, SyncAssumption DEF TypeOK, RegOK, MachineOK, Here
  <1>2. CASE PushStart(p)
    BY <1>1, <1>2 DEF PushStart, Goto, remoteVars
  <1>3. CASE PushMark(p)
    BY <1>1, <1>3 DEF PushMark, Fails, Goto, machineVars, remoteVars
  <1>4. CASE PushBatch(p)
    <2> DEFINE last == CHOOSE r \in Batch(p) : \A s \in Batch(p) : s <= r
    <2>1. \/ UNCHANGED <<remote, regVars>> /\ Goto(p, "pushed")
          \/ /\ Batch(p) # {} /\ Upsert(p, Batch(p)) /\ pos' = [pos EXCEPT ![p] = last]
             /\ Goto(p, "raise") /\ UNCHANGED <<wm, load>>
      BY <1>1, <1>4 DEF PushBatch, Fails, LosesAnswer
    <2> HIDE DEF last
    <2>2. pc[p] = "batch" /\ mark' = mark
      BY <1>4 DEF PushBatch, machineVars
    <2>3. CASE UNCHANGED <<remote, regVars>> /\ Goto(p, "pushed")
      BY <1>1, <1>4, <2>2, <2>3 DEF Goto, regVars
    <2>4. CASE /\ Batch(p) # {} /\ Upsert(p, Batch(p)) /\ pos' = [pos EXCEPT ![p] = last]
               /\ Goto(p, "raise") /\ UNCHANGED <<wm, load>>
      <3>1. pc'[p] = "raise" /\ pos'[p] = last
        BY <1>1, <2>4 DEF Goto
      <3> QED BY <1>4, <2>2, <2>4, <3>1 DEF last
    <2> QED BY <2>1, <2>3, <2>4
  <1>5. CASE PushRaise(p)
    BY <1>1, <1>5 DEF PushRaise, Goto, regVars, remoteVars
  <1>6. CASE PushEnd(p) \/ EnableLoad(p) \/ EnableSave(p) \/ DisableLoad(p) \/ DisableSave(p) \/ Crash(p)
    BY <1>1, <1>6 DEF PushEnd, EnableLoad, EnableSave, DisableLoad, DisableSave, Crash, Load, Goto
  <1>7. CASE SyncStart(p) \/ SyncSalt(p) \/ SyncAdopt(p) \/ SyncStore(p)
    BY <1>1, <1>7 DEF SyncStart, SyncSalt, SyncAdopt, SyncStore, FirstHalf, Fails, LosesAnswer, Load, Goto
  <1>8. CASE Pull(p)
    BY <1>1, <1>8 DEF Pull, PullMachines, PullNext, PullPage, PullCommit, Fails, Goto
  <1>9. CASE Purge(p)
    <2>1. CASE PurgeSalt(p)
      BY <1>1, <2>1 DEF PurgeSalt
    <2> QED BY <1>1, <1>9, <2>1
        DEF Purge, PurgeLoad, PurgeSave, PurgeDelete, PurgeFail, PurgeClear, Load, Goto, Fails, LosesAnswer
  <1> QED BY <1>2, <1>3, <1>4, <1>5, <1>6, <1>7, <1>8, <1>9 DEF CommandStep, Push

LEMMA OrderStep ==
  ASSUME OneAtATime, TypeOK, HeldInv, OrderInv, [Next]_vars
  PROVE  OrderInv'
  <1>1. ASSUME NEW p \in Procs, CommandStep(p) PROVE OrderInv'
    <2> DEFINE m == Here(p)
    <2>1. /\ m \in Machines /\ size' = size /\ mark \in [Machines -> Nat] /\ pos \in [Procs -> Nat]
          /\ \A k \in Machines : Rows(k) \subseteq Nat /\ 0 \notin Rows(k)
      BY <1>1, CommandType, SyncAssumption DEF Here, TypeOK, RegOK, MachineOK, Rows
    <2>2. ASSUME NEW k \in Machines, NEW r \in Rows(k), r <= mark'[k] PROVE size[k][r] > 0
      <3>1. CASE mark'[k] = mark[k]
        BY <2>2, <3>1 DEF OrderInv
      <3>2. CASE k = m /\ mark'[k] = 0
        BY <2>1, <2>2, <3>2
      <3>3. CASE k = m /\ pc[p] = "raise" /\ mark'[k] = pos[p]
        BY <2>2, <3>3 DEF OrderInv
      <3> QED BY <1>1, <3>1, <3>2, <3>3, MarkStep, CommandType DEF FilesKept
    <2>3. ASSUME NEW q \in Procs, NEW r \in Rows(Here(q)), pc'[q] \in {"batch", "raise"},
                 r <= wm'[q] \/ r <= pos'[q]
          PROVE  size[Here(q)][r] > 0
      <3>1. CASE q # p
        BY <1>1, <2>3, <3>1, CommandType DEF Kept, OrderInv
      <3>2. CASE q = p /\ pc[p] = "mark" /\ wm'[p] = mark[m] /\ pos'[p] = pos[p]
        <4>1. pos[p] = 0
          BY <3>2 DEF HeldInv, HeldBy, SendingPcs
        <4> QED BY <2>1, <2>3, <3>2, <4>1 DEF OrderInv
      <3>3. CASE /\ q = p /\ pc[p] = "batch" /\ wm'[p] = wm[p] /\ Batch(p) # {}
                 /\ pos'[p] = CHOOSE n \in Batch(p) : \A s \in Batch(p) : s <= n
        <4>1. pos'[p] \in ToSend(p) /\ pos'[p] \in Rows(m)
          BY <3>3, BatchIsFirst
        <4>2. size[m][pos'[p]] > 0
          BY <4>1 DEF ToSend
        <4>3. r = pos'[p] \/ r < pos'[p] \/ r <= wm[p]
          BY <2>1, <2>3, <3>3, <4>1
        <4>4. r \in Rows(m) /\ (r <= wm[p] => size[m][r] > 0)
          BY <2>3, <3>3 DEF OrderInv
        <4>5. r < pos'[p] => size[m][r] > 0
          BY <2>1, <4>1, <4>2, <4>4 DEF OrderInv
        <4> QED BY <3>3, <4>2, <4>3, <4>4, <4>5
      <3>4. CASE q = p /\ pc[p] = "raise" /\ wm'[p] = wm[p] /\ pos'[p] = pos[p]
        BY <2>3, <3>4 DEF OrderInv
      <3> QED BY <1>1, <2>3, <3>1, <3>2, <3>3, <3>4, PushSteps
    <2>4. ASSUME NEW k \in Machines, salt'[k] = 0 PROVE mark'[k] = 0
      <3>1. CASE k # m
        BY <1>1, <2>4, <3>1, CommandType DEF FilesKept, OrderInv
      <3>2. CASE k = m
        <4>1. pc[p] = "store" => hash[p] # 0
          BY DEF HeldInv, HeldBy
        <4>2. CASE mark'[m] = 0
          BY <3>2, <4>2
        <4>3. CASE salt[m] = 0 /\ ~PushRaise(p)
          <5>1. mark[m] = 0
            BY <2>1, <4>3 DEF OrderInv
          <5> QED BY <1>1, <3>2, <4>3, <5>1, MarkStep
        <4>4. pc[p] = "raise" => salt[m] # 0
          BY DEF HeldInv, HeldBy, SaltedPcs
        <4>5. salt[m] = 0 \/ mark'[m] = 0
          BY <1>1, <2>4, <3>2, <4>1, OwnSalt
        <4> QED BY <4>2, <4>3, <4>4, <4>5 DEF PushRaise
      <3> QED BY <3>1, <3>2
    <2>5. \A k \in Machines : \A r, s \in Rows(k) : s < r /\ size[k][r] > 0 => size[k][s] > 0
      BY DEF OrderInv
    <2>6. \A k \in Machines : \A r \in Rows(k) : r <= mark'[k] => size'[k][r] > 0
      BY <2>1, <2>2
    <2>7. \A q \in Procs : \A r \in Rows(Here(q)) :
             pc'[q] \in {"batch", "raise"} /\ (r <= wm'[q] \/ r <= pos'[q]) => size'[Here(q)][r] > 0
      BY <2>1, <2>3
    <2> QED BY <2>1, <2>4, <2>5, <2>6, <2>7 DEF OrderInv
  <1>2. CASE UNCHANGED vars \/ Tick
    <2>1. UNCHANGED <<size, mark, salt, pc, wm, pos>>
      BY <1>2 DEF vars, machineVars, regVars, Tick
    <2> QED BY <2>1 DEF OrderInv
  <1>3. ASSUME NEW m \in Machines, NEW r \in Rows(m), Record(m, r) PROVE OrderInv'
    <2>1. /\ UNCHANGED <<mark, salt, pc, wm, pos>>
          /\ \A s \in Rows(m) : s < r => size[m][s] > 0
      BY <1>3 DEF Record, regVars
    <2>2. \A k \in Machines : \A s \in Rows(k) :
             size[k][s] \in Nat /\ size'[k][s] = IF k = m /\ s = r THEN size[m][r] + 1 ELSE size[k][s]
      BY <1>3, RecordType, PlaceOrder DEF TypeOK, MachineOK
    <2>3. \A k \in Machines : \A s \in Rows(k) : size[k][s] > 0 => size'[k][s] > 0
      BY <2>2
    <2>4. \A k \in Machines : \A t, s \in Rows(k) : s < t /\ size'[k][t] > 0 => size'[k][s] > 0
      <3> TAKE k \in Machines
      <3> TAKE t, s \in Rows(k)
      <3>1. CASE k = m /\ t = r
        BY <2>1, <2>3, <3>1
      <3>2. CASE ~(k = m /\ t = r)
        <4>1. size'[k][t] = size[k][t]
          BY <2>2, <3>2
        <4> QED BY <2>3, <4>1 DEF OrderInv
      <3> QED BY <3>1, <3>2
    <2>5. \A q \in Procs : Here(q) \in Machines
      BY SyncAssumption DEF Here
    <2>6. \A k \in Machines : \A s \in Rows(k) : s <= mark'[k] => size'[k][s] > 0
      BY <2>1, <2>3 DEF OrderInv
    <2>7. \A q \in Procs : \A s \in Rows(Here(q)) :
             pc'[q] \in {"batch", "raise"} /\ (s <= wm'[q] \/ s <= pos'[q]) => size'[Here(q)][s] > 0
      BY <2>1, <2>3, <2>5 DEF OrderInv
    <2> QED BY <2>1, <2>4, <2>6, <2>7 DEF OrderInv
  <1> QED BY <1>1, <1>2, <1>3 DEF Next, CommandStep

\* A machine is whole after a step only if it was before, or has just stored its
\* first salt, when it has sent nothing.
LEMMA WholeStep ==
  ASSUME OneAtATime, TypeOK, HeldInv, SaltInv, OrderInv, NEW p \in Procs, CommandStep(p),
         NEW k \in Machines, Whole(k)'
  PROVE  \/ Whole(k)
         \/ k = Here(p) /\ SyncStore(p) /\ mark'[k] = 0
  <1>1. /\ rsalt \in Nat /\ salts \in Nat /\ salt \in [Machines -> Nat] /\ Here(p) \in Machines
        /\ k \notin unfinished' /\ salt'[k] # 0 /\ salt'[k] = rsalt'
    BY SyncAssumption DEF TypeOK, MachineOK, Here, Whole
  <1>2. CASE SyncStore(p) /\ k = Here(p)
    BY <1>1, <1>2, OwnSalt DEF HeldInv, HeldBy, OrderInv, SyncStore, PurgeClear
  <1>3. CASE ~(SyncStore(p) /\ k = Here(p))
    <2>1. salt'[k] = salt[k] /\ ~(PurgeClear(p) /\ k = Here(p))
      BY <1>1, <1>3, OwnSalt, CommandType DEF FilesKept
    <2>2. rsalt' = rsalt
      BY <1>1, <2>1, RemoteSalt DEF SaltInv
    <2>3. k \notin unfinished
      <3>1. CASE PurgeClear(p)
        BY <1>1, <2>1, <3>1 DEF PurgeClear
      <3>2. CASE Purge(p) /\ ~PurgeClear(p)
        BY <1>1, <3>2
           DEF Purge, PurgeLoad, PurgeSave, PurgeSalt, PurgeDelete, PurgeFail, seenVars, TypeOK
      <3>3. CASE EnableLoad(p) \/ EnableSave(p) \/ DisableLoad(p) \/ DisableSave(p) \/ Crash(p)
        BY <1>1, <3>3 DEF EnableLoad, EnableSave, DisableLoad, DisableSave, Crash, seenVars
      <3> QED BY <1>1, <3>1, <3>2, <3>3, SaltType, PushType, PullType DEF CommandStep
    <2> QED BY <1>1, <2>1, <2>2, <2>3 DEF Whole
  <1> QED BY <1>2, <1>3

\* The same after a step, of a place and a list from before it.
StillSent(m, n, accounts) ==
    \A r \in Rows(m) :
        AccountOf[r] \in accounts /\ size'[m][r] > 0 /\ r <= n => remote'[m][r].size > 0

\* What is sent stays sent, while the machine is whole.
LEMMA SentStays ==
  ASSUME TypeOK, NEW p \in Procs, CommandStep(p), NEW k \in Machines, Whole(k)',
         NEW n \in Nat, NEW accounts, Sent(k, n, accounts)
  PROVE  StillSent(k, n, accounts)
  <1>1. /\ size' = size /\ TypeOK' /\ Rows(k) \subseteq RowIds
        /\ k \notin unfinished' /\ salt'[k] # 0 /\ salt'[k] = rsalt'
    BY CommandType, PlaceOrder DEF Whole
  <1>2. ASSUME NEW r \in Rows(k), remote[k][r].size > 0 PROVE remote'[k][r].size > 0
    <2>1. remote'[k][r].size \in Nat
      BY <1>1 DEF TypeOK, RemoteRow
    <2> QED BY <1>1, <1>2, <2>1, RowKept
  <1> QED BY <1>1, <1>2 DEF Sent, StillSent

LEMMA PushStep ==
  ASSUME OneAtATime, TypeOK, HeldInv, SaltInv, OrderInv, PushInv, SentBehindMark, [Next]_vars
  PROVE  PushInv'
  <1>1. ASSUME NEW p \in Procs, CommandStep(p), NEW q \in Procs, Whole(Here(q))',
               pc'[q] \in {"mark", "batch", "raise", "pushed"}
        PROVE  /\ Sent(Here(q), mark[Here(q)], load[q].accounts)'
               /\ pc'[q] \in {"batch", "raise"}
                     => /\ Sent(Here(q), wm[q], load[q].accounts)'
                        /\ Sent(Here(q), pos[q], load[q].accounts)'
    <2> DEFINE m == Here(q)
    <2>1. /\ m \in Machines /\ mark \in [Machines -> Nat] /\ pos \in [Procs -> Nat] /\ wm \in [Procs -> Nat]
          /\ Rows(m) \subseteq Nat \ {0} /\ Rows(m) \subseteq RowIds
      BY SyncAssumption DEF Here, TypeOK, RegOK, MachineOK, Rows, RowIds
    <2>2. Whole(m)
      <3>1. ~(m = Here(p) /\ SyncStore(p))
        <4>1. SyncStore(p) => pc'[p] \notin {"mark", "batch", "raise", "pushed"}
          BY DEF SyncStore, FirstHalf, Goto, TypeOK, RegOK
        <4> QED BY <1>1, <4>1, Elsewhere
      <3> QED BY <1>1, <2>1, <3>1, WholeStep
    <2>3. ASSUME NEW n \in Nat, NEW accounts, Sent(m, n, accounts) PROVE StillSent(m, n, accounts)
      BY <1>1, <2>1, <2>3, SentStays
    <2>4. CASE q # p
      <3>1. Kept(q) /\ FilesKept(m)
        BY <1>1, <2>4, Elsewhere
      <3>2. /\ Sent(m, mark[m], load[q].accounts)
            /\ pc[q] \in {"batch", "raise"}
                 => Sent(m, wm[q], load[q].accounts) /\ Sent(m, pos[q], load[q].accounts)
        BY <1>1, <2>2, <3>1 DEF PushInv, Kept
      <3>3. /\ pc'[q] = pc[q] /\ load'[q] = load[q] /\ wm'[q] = wm[q] /\ pos'[q] = pos[q]
            /\ mark'[m] = mark[m]
        BY <3>1 DEF Kept, FilesKept
      <3> QED BY <2>1, <2>3, <3>2, <3>3 DEF StillSent, Sent
    <2>5. CASE q = p
      <3> DEFINE list == load[p].accounts
      <3>1. load'[p] = load[p]
        BY <1>1, <2>5, PushSteps
      <3>2. \A n \in Nat : Sent(m, n, list) => StillSent(m, n, load'[p].accounts)
        BY <2>3, <3>1
      <3>3. Sent(m, 0, list)
        BY <2>1 DEF StillSent, Sent
      <3>4. CASE /\ pc[p] = "push" /\ pc'[p] \in {"mark", "pushed"}
                 /\ mark'[m] = IF load[p].reset THEN 0 ELSE mark[m]
        <4>1. load[p] = conf[m]
          BY <2>5, <3>4 DEF HeldInv, HeldBy, WriterPcs
        <4>2. ~load[p].reset => Sent(m, mark[m], list)
          BY <2>1, <2>2, <4>1 DEF SentBehindMark, Sent, Whole
        <4>3. Sent(m, mark'[m], list) /\ mark'[m] \in Nat
          BY <2>1, <3>3, <3>4, <4>2
        <4> QED BY <2>5, <3>2, <3>4, <4>3 DEF StillSent, Sent
      <3>5. CASE /\ pc[p] = "mark" /\ pc'[p] = "batch" /\ UNCHANGED mark
                 /\ wm'[p] = mark[m] /\ pos'[p] = pos[p]
        <4>1. Sent(m, mark[m], list)
          BY <2>2, <2>5, <3>5 DEF PushInv
        <4>2. pos[p] = 0
          BY <3>5 DEF HeldInv, HeldBy, SendingPcs
        <4> QED BY <2>1, <2>5, <3>2, <3>3, <3>5, <4>1, <4>2 DEF StillSent, Sent
      <3>6. CASE pc[p] = "batch" /\ pc'[p] = "pushed" /\ UNCHANGED mark
        <4>1. Sent(m, mark[m], list)
          BY <2>2, <2>5, <3>6 DEF PushInv
        <4> QED BY <2>1, <2>5, <3>2, <3>6, <4>1 DEF StillSent, Sent
      <3>7. CASE /\ pc[p] = "batch" /\ pc'[p] = "raise" /\ Batch(p) # {} /\ Upsert(p, Batch(p))
                 /\ wm'[p] = wm[p] /\ UNCHANGED mark
                 /\ pos'[p] = CHOOSE r \in Batch(p) : \A s \in Batch(p) : s <= r
        <4>1. Sent(m, mark[m], list) /\ Sent(m, wm[p], list) /\ Sent(m, pos[p], list)
          BY <2>2, <2>5, <3>7 DEF PushInv
        <4>2. \A r \in ToSend(p) : r <= pos'[p] => r \in Batch(p)
          BY <3>7, BatchIsFirst
        <4>3. ASSUME NEW r \in Rows(m), AccountOf[r] \in load'[p].accounts, size'[m][r] > 0, r <= pos'[p]
              PROVE  remote'[m][r].size > 0
          <5>1. size' = size /\ r \in RowIds /\ r \in Nat /\ AccountOf[r] \in list
            BY <1>1, <2>1, <3>1, <4>3, CommandType
          <5>2. CASE r <= pos[p] \/ r <= wm[p]
            <6>1. remote[m][r].size > 0
              BY <4>1, <4>3, <5>1, <5>2 DEF StillSent, Sent
            <6> QED BY <2>5, <3>7, <5>1, <6>1, Upserted
          <5>3. CASE ~(r <= pos[p] \/ r <= wm[p])
            <6>1. r > pos[p] /\ r > wm[p]
              BY <2>1, <5>1, <5>3
            <6>2. r \in ToSend(p)
              BY <2>5, <4>3, <5>1, <6>1 DEF ToSend
            <6> QED BY <2>5, <3>7, <4>2, <4>3, <5>1, <6>2, Upserted
          <5> QED BY <5>2, <5>3
        <4>4. StillSent(m, pos'[p], load'[p].accounts)
          BY <4>3 DEF StillSent
        <4> QED BY <2>1, <2>5, <3>2, <3>7, <4>1, <4>4 DEF StillSent, Sent
      <3>8. CASE /\ pc[p] = "raise" /\ pc'[p] = "batch" /\ wm'[p] = wm[p] /\ pos'[p] = pos[p]
                 /\ mark'[m] = IF mark[m] < pos[p] THEN pos[p] ELSE mark[m]
        <4>1. Sent(m, mark[m], list) /\ Sent(m, wm[p], list) /\ Sent(m, pos[p], list)
          BY <2>2, <2>5, <3>8 DEF PushInv
        <4>2. mark'[m] \in {mark[m], pos[p]}
          BY <3>8
        <4> QED BY <2>1, <2>5, <3>2, <3>8, <4>1, <4>2 DEF StillSent, Sent
      <3> QED BY <1>1, <2>5, <3>4, <3>5, <3>6, <3>7, <3>8, PushSteps
    <2> QED BY <2>4, <2>5
  <1>2. ASSUME NEW p \in Procs, CommandStep(p) PROVE PushInv'
    BY <1>1, <1>2 DEF PushInv
  <1>3. CASE UNCHANGED vars \/ Tick
    <2>1. UNCHANGED <<size, mark, remote, salt, rsalt, unfinished, pc, wm, pos, load>>
      BY <1>3 DEF vars, machineVars, remoteVars, regVars, seenVars, Tick
    <2> QED BY <2>1 DEF PushInv, Sent, Whole
  <1>4. ASSUME NEW m \in Machines, NEW r \in Rows(m), Record(m, r) PROVE PushInv'
    <2>1. UNCHANGED <<mark, remote, salt, rsalt, unfinished, pc, wm, pos, load>>
      BY <1>4 DEF Record, remoteVars, regVars, seenVars
    <2>2. \A k \in Machines : \A s \in Rows(k) :
             size[k][s] > 0 \/ size'[k][s] = size[k][s] \/ (k = m /\ s = r /\ size[m][r] = 0)
      BY <1>4, RecordType, PlaceOrder DEF TypeOK, MachineOK
    <2>3. ASSUME NEW q \in Procs, NEW n, pc[q] \in {"mark", "batch", "raise", "pushed"},
                 n = mark[Here(q)] \/ (pc[q] \in {"batch", "raise"} /\ n \in {wm[q], pos[q]}),
                 Sent(Here(q), n, load[q].accounts)
          PROVE  StillSent(Here(q), n, load[q].accounts)
      <3>1. Here(q) \in Machines
        BY SyncAssumption DEF Here
      <3>2. \A s \in Rows(Here(q)) : s <= n => size[Here(q)][s] > 0
        BY <2>3, <3>1 DEF OrderInv
      <3> QED BY <2>1, <2>3, <3>2 DEF StillSent, Sent
    <2>4. ASSUME NEW q \in Procs, Whole(Here(q))'
          PROVE  /\ pc'[q] \in {"mark", "batch", "raise", "pushed"}
                      => Sent(Here(q), mark[Here(q)], load[q].accounts)'
                 /\ pc'[q] \in {"batch", "raise"}
                      => Sent(Here(q), wm[q], load[q].accounts)' /\ Sent(Here(q), pos[q], load[q].accounts)'
      <3>1. Whole(Here(q))
        BY <2>1, <2>4 DEF Whole
      <3>2. CASE pc[q] \in {"mark", "batch", "raise", "pushed"}
        <4>1. Sent(Here(q), mark[Here(q)], load[q].accounts)
          BY <3>1, <3>2 DEF PushInv
        <4>2. Sent(Here(q), mark[Here(q)], load[q].accounts)'
          BY <2>1, <2>3, <3>2, <4>1 DEF StillSent, Sent
        <4>3. ASSUME pc[q] \in {"batch", "raise"}
              PROVE  Sent(Here(q), wm[q], load[q].accounts)' /\ Sent(Here(q), pos[q], load[q].accounts)'
          <5>1. Sent(Here(q), wm[q], load[q].accounts) /\ Sent(Here(q), pos[q], load[q].accounts)
            BY <3>1, <4>3 DEF PushInv
          <5> QED BY <2>1, <2>3, <4>3, <5>1 DEF StillSent, Sent
        <4> QED BY <2>1, <4>2, <4>3
      <3> QED BY <2>1, <3>2
    <2> QED BY <2>4 DEF PushInv
  <1> QED BY <1>2, <1>3, <1>4 DEF Next, CommandStep

LEMMA SentStep ==
  ASSUME OneAtATime, TypeOK, HeldInv, SaltInv, OrderInv, PushInv, SentBehindMark, [Next]_vars
  PROVE  SentBehindMark'
  <1>1. ASSUME NEW p \in Procs, CommandStep(p), NEW m \in Machines, Whole(m)', ~conf'[m].reset
        PROVE  StillSent(m, mark'[m], conf'[m].accounts)
    <2>1. /\ mark \in [Machines -> Nat] /\ pos \in [Procs -> Nat] /\ Rows(m) \subseteq Nat \ {0}
          /\ load[p] \in Settings /\ conf[m] \in Settings
      BY SyncAssumption DEF TypeOK, MachineOK, RegOK, Rows
    <2>2. CASE mark'[m] = 0
      BY <2>1, <2>2 DEF StillSent
    <2>3. CASE Whole(m) /\ mark'[m] # 0
      <3>1. ASSUME NEW n \in Nat, NEW accounts, Sent(m, n, accounts) PROVE StillSent(m, n, accounts)
        BY <1>1, <3>1, SentStays
      <3>2. ~conf[m].reset => Sent(m, mark[m], conf[m].accounts)
        BY <2>3 DEF SentBehindMark, Sent, Whole
      <3>3. CASE m # Here(p)
        BY <1>1, <2>1, <3>1, <3>2, <3>3, Elsewhere DEF FilesKept
      <3>4. CASE m = Here(p) /\ PushRaise(p) /\ pc[p] = "raise" /\ mark'[m] \in {mark[m], pos[p]}
        <4>1. Sent(m, mark[m], load[p].accounts) /\ Sent(m, pos[p], load[p].accounts)
          BY <2>3, <3>4 DEF PushInv
        <4>2. load[p] = conf[m] /\ conf' = conf
          BY <3>4 DEF HeldInv, HeldBy, WriterPcs, PushRaise
        <4> QED BY <2>1, <3>1, <3>4, <4>1, <4>2
      <3>5. CASE m = Here(p) /\ mark'[m] = mark[m]
        <4>1. CASE conf' = conf
          BY <1>1, <2>1, <3>1, <3>2, <3>5, <4>1
        <4>2. CASE EnableSave(p) /\ \E accounts \in Lists : conf'[m] =
                     [enabled |-> TRUE, accounts |-> accounts, reset |-> ResetAfter(load[p], accounts)]
          <5>1. load[p] = conf[m]
            BY <3>5, <4>2 DEF EnableSave, HeldInv, HeldBy, WriterPcs
          <5>2. ~conf[m].reset /\ conf'[m].accounts = conf[m].accounts
            <6>1. PICK accounts \in Lists : conf'[m] =
                     [enabled |-> TRUE, accounts |-> accounts, reset |-> ResetAfter(load[p], accounts)]
              BY <4>2
            <6>2. conf'[m].accounts = accounts /\ conf'[m].reset = ResetAfter(load[p], accounts)
              BY <6>1
            <6>3. ~ResetAfter(load[p], accounts)
              BY <1>1, <6>2
            <6> QED BY <5>1, <6>2, <6>3 DEF ResetAfter
          <5> QED BY <2>1, <3>1, <3>2, <3>5, <5>2
        <4>3. CASE /\ DisableSave(p) \/ PurgeSave(p)
                   /\ conf'[m] = [load[p] EXCEPT !.enabled = FALSE]
          <5>1. load[p] = conf[m]
            BY <3>5, <4>3 DEF DisableSave, PurgeSave, HeldInv, HeldBy, WriterPcs
          <5>2. ~conf[m].reset /\ conf'[m].accounts = conf[m].accounts
            BY <1>1, <2>1, <4>3, <5>1 DEF Settings
          <5> QED BY <2>1, <3>1, <3>2, <3>5, <5>2
        <4>4. CASE PushEnd(p) /\ conf'[m] = [load[p] EXCEPT !.reset = FALSE]
          <5>1. Sent(m, mark[m], load[p].accounts)
            BY <2>3, <3>5, <4>4 DEF PushEnd, PushInv
          <5>2. conf'[m].accounts = load[p].accounts
            BY <2>1, <4>4 DEF Settings
          <5> QED BY <2>1, <3>1, <3>5, <5>1, <5>2
        <4> QED BY <1>1, <3>5, <4>1, <4>2, <4>3, <4>4, ConfStep
      <3> QED BY <1>1, <2>3, <3>3, <3>4, <3>5, MarkStep
    <2> QED BY <1>1, <2>2, <2>3, WholeStep
  <1>2. ASSUME NEW p \in Procs, CommandStep(p) PROVE SentBehindMark'
    BY <1>1, <1>2 DEF SentBehindMark, StillSent, Whole
  <1>3. CASE UNCHANGED vars \/ Tick
    <2>1. UNCHANGED <<size, mark, remote, salt, rsalt, unfinished, conf>>
      BY <1>3 DEF vars, machineVars, remoteVars, seenVars, Tick
    <2> QED BY <2>1 DEF SentBehindMark
  <1>4. ASSUME NEW m \in Machines, NEW r \in Rows(m), Record(m, r) PROVE SentBehindMark'
    <2>1. UNCHANGED <<mark, remote, salt, rsalt, unfinished, conf>>
      BY <1>4 DEF Record, remoteVars, seenVars
    <2>2. \A k \in Machines : \A s \in Rows(k) : s <= mark[k] => size[k][s] > 0
      BY DEF OrderInv
    <2> QED BY <2>1, <2>2 DEF SentBehindMark
  <1> QED BY <1>2, <1>3, <1>4 DEF Next, CommandStep

LEMMA SentInit == Init => SentInv
  <1> SUFFICES ASSUME Init PROVE SentInv
    OBVIOUS
  <1>1. \A p \in Procs : Here(p) \in Machines
    BY SyncAssumption DEF Here
  <1>2. HeldInv
    BY DEF Init, HeldInv, HeldBy, WriterPcs, SaltedPcs, SendingPcs
  <1>3. SaltInv
    BY <1>1 DEF Init, SaltInv, NoRow
  <1>4. OrderInv
    <2>1. \A m \in Machines : Rows(m) \subseteq RowIds /\ Rows(m) \subseteq Nat \ {0}
      BY SyncAssumption DEF Rows, RowIds
    <2>2. ASSUME NEW m \in Machines, NEW r \in Rows(m), NEW s \in Rows(m), s < r, size[m][r] > 0
          PROVE  size[m][s] > 0
      <3>1. r <= InitialRows
        BY <2>1, <2>2 DEF Init
      <3>2. s <= InitialRows
        BY <2>1, <2>2, <3>1, SyncAssumption
      <3> QED BY <2>1, <2>2, <3>2 DEF Init
    <2>3. \A m \in Machines : \A r \in Rows(m) : ~(r <= mark[m])
      BY <2>1 DEF Init
    <2> QED BY <2>2, <2>3 DEF Init, OrderInv
  <1>5. PushInv /\ SentBehindMark
    BY <1>1 DEF Init, PushInv, SentBehindMark, Whole
  <1> QED BY <1>2, <1>3, <1>4, <1>5 DEF SentInv

\* With one command at a time on a machine: wherever a push is killed or loses an
\* answer, whatever the account list was before, and whatever other machines push
\* and purge, the rows behind a watermark are at the remote, unless a purge or a
\* new salt has told the machine otherwise.
THEOREM SentIsThere ==
  ASSUME OneAtATime
  PROVE  Spec => []SentBehindMark
  <1>1. TypeOK /\ SentInv /\ [Next]_vars => SentInv'
    BY HeldStep, SaltStep, OrderStep, PushStep, SentStep DEF SentInv
  <1>2. SentInv => SentBehindMark
    BY DEF SentInv
  <1> QED BY <1>1, <1>2, TypeInit, TypeStep, SentInit, PTL DEF Spec

-----------------------------------------------------------------------------
(* Rows under an old salt                                                   *)

LEMMA OldRowsStep ==
  ASSUME OneAtATime, TypeOK, HeldInv, SaltInv, PurgeInv, OldRowsInv, PurgeHashInv, [Next]_vars
  PROVE  OldRowsInv'
  <1>1. ASSUME NEW p \in Procs, CommandStep(p), NEW m \in Machines, m \notin blind', NEW r \in RowIds,
               remote'[m][r].size > 0, remote'[m][r].salt # rsalt'
        PROVE  remote'[m][r].salt = salt'[m]
    <2>1. rsalt \in Nat /\ salts \in Nat /\ salt \in [Machines -> Nat] /\ Here(p) \in Machines
      BY SyncAssumption DEF TypeOK, MachineOK, Here
    <2>2. CASE Here(p) = m /\ pc[p] = "batch" /\ PushBatch(p) /\ remote'[m][r].salt = hash[p]
      <3>1. salt[m] = hash[p]
        BY <2>2 DEF HeldInv, HeldBy, SaltedPcs
      <3> QED BY <2>2, <3>1 DEF PushBatch, machineVars
    <2>3. CASE remote[m][r].size > 0 /\ remote'[m][r].salt = remote[m][r].salt
      <3>1. remote[m][r].salt \in 1 .. salts /\ remote[m][r].salt # rsalt
        <4>1. remote[m][r].salt \in 1 .. salts
          BY <2>3 DEF SaltInv
        <4>2. rsalt' = rsalt \/ rsalt = 0
          <5>1. remote'[m][r].size # 0
            BY <1>1
          <5> QED BY <1>1, <5>1, RemoteSalt
        <4> QED BY <1>1, <2>1, <2>3, <4>1, <4>2
      <3>2. CASE PurgeClear(p) /\ m = Here(p)
        <4>1. pc[p] = "clear" /\ UNCHANGED <<remote, rsalt>>
          BY <3>2 DEF PurgeClear, remoteVars
        <4>2. CASE what[p] # "account"
          <5>1. remote[m][r].size = 0
            BY <3>2, <4>1, <4>2 DEF PurgeInv
          <5> QED BY <2>3, <5>1
        <4>3. CASE what[p] = "account"
          <5>1. m \notin blind /\ salt[m] \in {0, hash[p]}
            BY <1>1, <3>2, <4>3 DEF PurgeClear
          <5>2. remote[m][r].salt = salt[m]
            BY <2>3, <3>1, <5>1 DEF OldRowsInv
          <5>3. hash[p] # 0 /\ hash[p] # rsalt
            BY <2>1, <3>1, <4>1, <4>3, <5>1, <5>2 DEF PurgeHashInv
          <5>4. remote[m][r].size = 0
            BY <3>2, <4>1, <5>3 DEF PurgeHashInv
          <5> QED BY <2>3, <5>4
        <4> QED BY <4>2, <4>3
      <3>3. CASE ~(PurgeClear(p) /\ m = Here(p))
        <4>1. m \notin blind
          <5>1. CASE PurgeClear(p)
            BY <1>1, <3>3, <5>1 DEF PurgeClear
          <5>2. CASE Purge(p) /\ ~PurgeClear(p)
            BY <1>1, <5>2 DEF Purge, PurgeLoad, PurgeSave, PurgeSalt, PurgeDelete, PurgeFail, seenVars
          <5>3. CASE EnableLoad(p) \/ EnableSave(p) \/ DisableLoad(p) \/ DisableSave(p) \/ Crash(p)
            BY <1>1, <5>3 DEF EnableLoad, EnableSave, DisableLoad, DisableSave, Crash, seenVars
          <5> QED BY <1>1, <5>1, <5>2, <5>3, SaltType, PushType, PullType DEF CommandStep
        <4>2. remote[m][r].salt = salt[m]
          BY <2>3, <3>1, <4>1 DEF OldRowsInv
        <4>3. ~(m = Here(p) /\ SyncStore(p))
          <5>1. salt[m] # 0
            BY <2>1, <3>1, <4>2
          <5> QED BY <5>1 DEF SyncStore, HeldInv, HeldBy
        <4>4. salt'[m] = salt[m]
          BY <1>1, <3>3, <4>3, OwnSalt, CommandType DEF FilesKept
        <4> QED BY <2>3, <4>2, <4>4
      <3> QED BY <3>2, <3>3
    <2> QED BY <1>1, <2>2, <2>3, RowSalt
  <1>2. ASSUME NEW p \in Procs, CommandStep(p) PROVE OldRowsInv'
    BY <1>1, <1>2 DEF OldRowsInv
  <1>3. CASE UNCHANGED vars \/ Tick \/ \E m \in Machines : \E r \in Rows(m) : Record(m, r)
    <2>1. UNCHANGED <<remote, rsalt, salt, blind>>
      BY <1>3 DEF vars, machineVars, remoteVars, seenVars, Tick, Record
    <2> QED BY <2>1 DEF OldRowsInv
  <1> QED BY <1>2, <1>3 DEF Next, CommandStep

LEMMA PurgeHashStep ==
  ASSUME OneAtATime, TypeOK, HeldInv, PurgeHashInv, [Next]_vars
  PROVE  PurgeHashInv'
  <1>1. ASSUME NEW p \in Procs, CommandStep(p), NEW q \in Procs, pc'[q] \in {"delete", "clear"}
        PROVE  /\ hash'[q] \notin {0, rsalt'} => \A r \in RowIds : remote'[Here(q)][r].size = 0
               /\ pc'[q] = "clear" /\ what'[q] = "account" => hash'[q] # 0
    <2> DEFINE m == Here(q)
    <2>1. m \in Machines /\ \A k \in Procs : Here(k) = m => k = q
      BY SyncAssumption DEF Here, OneAtATime
    \* While the command purges its machine, no push of it is under way.
    <2>2. ASSUME pc[q] \in PurgePcs, NEW r \in RowIds, remote[m][r].size = 0 PROVE remote'[m][r].size = 0
      <3>1. ~(m = Here(p) /\ pc[p] = "batch")
        BY <2>1, <2>2 DEF PurgePcs
      <3> QED BY <1>1, <2>1, <2>2, <3>1, RowsAppear
    <2>3. CASE q # p
      <3>1. Kept(q)
        BY <1>1, <2>3, Elsewhere
      <3>2. /\ hash[q] \notin {0, rsalt} => \A r \in RowIds : remote[m][r].size = 0
            /\ pc[q] = "clear" /\ what[q] = "account" => hash[q] # 0
            /\ pc[q] \in PurgePcs
        BY <1>1, <3>1 DEF PurgeHashInv, Kept, PurgePcs
      <3>3. ASSUME hash[q] \notin {0, rsalt'}, NEW r \in RowIds PROVE remote'[m][r].size = 0
        <4>1. CASE hash[q] \notin {0, rsalt}
          BY <2>2, <3>2, <3>3, <4>1
        <4>2. CASE hash[q] = rsalt
          BY <1>1, <2>1, <3>3, <4>2, RemoteSalt
        <4> QED BY <3>3, <4>1, <4>2
      <3> QED BY <3>1, <3>2, <3>3 DEF Kept
    <2>4. CASE q = p /\ PurgeSave(p) /\ pc[p] = "purge" /\ pc'[p] = "delete" /\ hash'[p] = hash[p]
      BY <2>4 DEF HeldInv, HeldBy
    <2>5. CASE q = p /\ pc'[p] = "delete" /\ hash'[p] = rsalt'
      BY <2>5
    <2>6. CASE q = p /\ PurgeDelete(p) /\ pc[p] = "delete" /\ pc'[p] = "clear"
               /\ what'[p] = what[p] /\ hash'[p] = hash[p]
      <3>1. what[p] = "account" => hash[p] # 0
        BY <2>6 DEF PurgeDelete
      <3>2. ASSUME hash[p] \notin {0, rsalt'}, NEW r \in RowIds PROVE remote'[m][r].size = 0
        <4>1. CASE rsalt' = rsalt
          <5>1. remote[m][r].size = 0
            BY <2>6, <3>2, <4>1 DEF PurgeHashInv
          <5> QED BY <2>2, <2>6, <5>1 DEF PurgePcs
        <4>2. CASE rsalt' # rsalt
          BY <1>1, <2>1, <2>6, <4>2, RemoteSalt DEF PurgeDelete, worldVars, TypeOK
        <4> QED BY <4>1, <4>2
      <3> QED BY <2>6, <3>1, <3>2
    <2> QED BY <1>1, <2>3, <2>4, <2>5, <2>6, PurgeSteps DEF PurgePcs
  <1>2. ASSUME NEW p \in Procs, CommandStep(p) PROVE PurgeHashInv'
    BY <1>1, <1>2 DEF PurgeHashInv
  <1>3. CASE UNCHANGED vars \/ Tick \/ \E m \in Machines : \E r \in Rows(m) : Record(m, r)
    <2>1. UNCHANGED <<remote, rsalt, hash, pc, what>>
      BY <1>3 DEF vars, remoteVars, regVars, Tick, Record
    <2> QED BY <2>1 DEF PurgeHashInv
  <1> QED BY <1>2, <1>3 DEF Next, CommandStep

LEMMA HashInit == Init => HashInv
  <1>1. Init => PurgeInv /\ OldRowsInv /\ PurgeHashInv
    BY DEF Init, PurgeInv, PurgePcs, OldRowsInv, PurgeHashInv, NoRow
  <1> QED BY <1>1, SentInit DEF SentInv, HashInv

\* With one command at a time on a machine: however commands of other machines
\* purge everything, and make a new salt, between the steps of a push, a machine
\* whose rows at the remote are hashed with another salt than the remote's has
\* another salt itself, so that `shared_salt` refuses its next sync.
THEOREM OldHashIsFound ==
  ASSUME OneAtATime
  PROVE  Spec => []OldHashIsNoticed
  <1>1. AloneInv /\ AloneInv'
    BY DEF OneAtATime, AloneInv, Here
  <1>2. Init => PurgeLeavesNothing
    BY DEF Init, PurgeLeavesNothing
  <1>3. TypeOK /\ HashInv /\ PurgeLeavesNothing /\ [Next]_vars => HashInv' /\ PurgeLeavesNothing'
    BY <1>1, HeldStep, SaltStep, PurgeStep, OldRowsStep, PurgeHashStep DEF HashInv
  <1>4. HashInv => OldHashIsNoticed
    BY PlaceOrder DEF HashInv, OldRowsInv, OldHashIsNoticed, RowIds
  <1> QED BY <1>2, <1>3, <1>4, TypeInit, TypeStep, HashInit, PTL DEF Spec
=============================================================================
