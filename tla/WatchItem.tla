----------------------------- MODULE WatchItem ------------------------------
(***************************************************************************)
(* What watch mode promises about its items, with no processes, locks,     *)
(* journals, retries or kills: an item is offered once, acts only while it *)
(* is granted, needs a person for every grant when its action is unsafe,   *)
(* and never leaves `closed`.  WatchRefinement shows that the queue keeps  *)
(* this promise.                                                           *)
(***************************************************************************)
EXTENDS Naturals

CONSTANTS
    Items,    \* work items
    Unsafe,   \* those whose action needs a person
    Once      \* those whose effect must not be repeated

VARIABLES
    status,   \* new, queued, proposed, granted, dead or closed
    effects,  \* how often the item's action reached GitHub
    consent   \* whether a person approved the item

vars == <<status, effects, consent>>

Init ==
    /\ status = [i \in Items |-> "new"]
    /\ effects = [i \in Items |-> 0]
    /\ consent = [i \in Items |-> FALSE]

Moves(i, from, to) ==
    /\ status[i] \in from
    /\ status' = [status EXCEPT ![i] = to]

\* A rule looks at the item: it asks a person or, if that is safe, goes ahead.
Decide(i, from) ==
    /\ \/ Moves(i, from, "proposed")
       \/ i \notin Unsafe /\ Moves(i, from, "granted")
    /\ UNCHANGED <<effects, consent>>

\* A new item is decided, or there is no room for it.
Offer(i) ==
    \/ Decide(i, {"new"})
    \/ Moves(i, {"new"}, "dead") /\ UNCHANGED <<effects, consent>>

Approve(i) ==
    /\ Moves(i, {"proposed"}, "granted")
    /\ consent' = [consent EXCEPT ![i] = TRUE]
    /\ UNCHANGED effects

\* The action reaches GitHub; the item may be closed in the same step.
Act(i) ==
    /\ i \in Once => effects[i] = 0
    /\ i \in Unsafe => consent[i]
    /\ effects' = [effects EXCEPT ![i] = @ + 1]
    /\ Moves(i, {"granted"}, "granted") \/ Moves(i, {"granted"}, "closed")
    /\ UNCHANGED consent

\* Done, rejected, not wanted any more, or nothing to do.
Close(i) ==
    /\ Moves(i, {"queued", "proposed", "granted"}, "closed")
    /\ UNCHANGED <<effects, consent>>

\* An item that may not run now goes back to a person, one whose run was killed
\* goes back to be decided again, and one that keeps failing is given up.
Withdraw(i) ==
    /\ \E to \in {"proposed", "queued", "dead"} : Moves(i, {"granted"}, to)
    /\ UNCHANGED <<effects, consent>>

Retry(i) ==
    /\ Moves(i, {"dead"}, "queued")
    /\ UNCHANGED <<effects, consent>>

Next ==
    \E i \in Items :
        \/ Offer(i) \/ Decide(i, {"queued"}) \/ Approve(i) \/ Act(i)
        \/ Close(i) \/ Withdraw(i) \/ Retry(i)

Spec == Init /\ [][Next]_vars
=============================================================================
