--------------------------- MODULE MCTombstones ----------------------------
(***************************************************************************)
(* Small instances of Tombstones: where the paths of an item can lie.      *)
(***************************************************************************)
EXTENDS Tombstones, TLC

Layout(far, hidden) == [far |-> far, hidden |-> hidden]

\* All on the tombstones' filesystem, or the first of them on another.
HereOrFar == {Layout({}, {}), Layout({1}, {})}

\* All here, or the first on a mount that only the rename notices.
HereOrHidden == {Layout({}, {}), Layout({}, {1})}

Symmetry == Permutations(Runs)
============================================================================
