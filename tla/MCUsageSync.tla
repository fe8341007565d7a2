---------------------------- MODULE MCUsageSync ----------------------------
(***************************************************************************)
(* Small instances of UsageSync: machine `a` records rows, machine `b` only *)
(* copies them.  Row 1 has the larger event id, so the order of the ids is  *)
(* not the order of the rowids.                                            *)
(***************************************************************************)
EXTENDS UsageSync, TLC

CONSTANT Pushers   \* processes on `a` that only push, all alike

Symmetry == Permutations(Pushers)

TwoMachines == {"a", "b"}
RowsOnA(n) == [m \in TwoMachines |-> IF m = "a" THEN n ELSE 0]
TwoRows == RowsOnA(2)

Backwards == [m \in TwoMachines |-> [r \in 1..2 |-> 3 - r]]

AllX == [r \in 1..2 |-> "x"]
OneEachRow == [r \in 1..2 |-> 1]
FirstGrows == [r \in 1..2 |-> IF r = 1 THEN 2 ELSE 1]
YThenX == <<"y", "x">>

OneEach == [p \in {"a1", "b1"} |-> IF p = "b1" THEN "b" ELSE "a"]
TwoOnA == [p \in Procs |-> IF p \in Pushers THEN "a" ELSE "b"]
PushersAndPuller == [p \in Procs |-> IF p \in Pushers THEN {"push"} ELSE {"pull"}]
PurgeAndSync == [p \in {"a1", "b1"} |-> IF p = "a1" THEN {"enable", "both", "machine", "account"}
                                           ELSE {"disable", "all"}]
AllOn == [m \in TwoMachines |-> [enabled |-> TRUE, accounts |-> {"x"}, reset |-> FALSE]]
AOff == [AllOn EXCEPT !["a"] = Off]
=============================================================================
