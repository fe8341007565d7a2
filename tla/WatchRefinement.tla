-------------------------- MODULE WatchRefinement ---------------------------
(***************************************************************************)
(* WatchQueue implements WatchItem.  `approved` and `running` rows are     *)
(* granted items; everything a process keeps to itself, the lock, the      *)
(* journal, the counters and the clock are hidden.                         *)
(***************************************************************************)
EXTENDS WatchQueue

StatusOf(i) ==
    CASE work[i].state = "unseen"                 -> "new"
      [] work[i].state \in {"approved", "running"} -> "granted"
      [] work[i].state = "done"                   -> "closed"
      [] OTHER                                    -> work[i].state

Life == INSTANCE WatchItem WITH
    Unsafe  <- {i \in Items : Highest(Class(i)) = "propose"},
    Once    <- {i \in Items : Recognised(i)},
    status  <- [i \in Items |-> StatusOf(i)],
    effects <- posted,
    consent <- [i \in Items |-> work[i].approvedAt # Never]

\* The queue implements the life of an item: with any number of watchers and
\* kills, and commands that do not overlap, every transaction and every write
\* is one step of WatchItem or hidden from it.  In particular an effect falls
\* between a grant and its end, an unsafe item is granted by a person every
\* time, also after a retry or a recovery, and nothing leaves `done`
\* (engine.rs run, approve and redecide; journal.rs recover).
KeepsItemPromise == Life!Spec
=============================================================================
