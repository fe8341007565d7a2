---------------------------- MODULE MCWatchQueue ----------------------------
(***************************************************************************)
(* Small instances of WatchQueue: the values the configurations give to    *)
(* its constants.  Two items that belong to two rules, or several items of *)
(* one rule on one object.                                                 *)
(***************************************************************************)
EXTENDS WatchRefinement

TwoItems == {"m1", "m2"}
TwoRules == {"r1", "r2"}

\* One item per rule and object.
ByName == [i \in TwoItems |-> IF i = "m1" THEN "r1" ELSE "r2"]
OwnObject == [i \in TwoItems |-> IF i = "m1" THEN "o1" ELSE "o2"]

\* All items of one rule on one object.
OneRule(items) == [i \in items |-> "r1"]
OneObject(items) == [i \in items |-> "o1"]
OneRuleTwo == OneRule(TwoItems)
OneObjectTwo == OneObject(TwoItems)
OneRuleOne == OneRule({"m1"})
OneObjectOne == OneObject({"m1"})

CommentAndMerge == [r1 |-> "comment", r2 |-> "merge_when_green"]
ReviewAndAddress == [r1 |-> "review_pr", r2 |-> "address_comment"]
AddressOnly == [r1 |-> "address_comment"]
TriageOnly == [r1 |-> "triage_issue"]

AutoTwo == [r \in TwoRules |-> "auto"]
AutoOne == [r1 |-> "auto"]

\* The day has as much money as one of the two rules.
CapTwo == [r \in TwoRules |-> [actions |-> 2, usd |-> 1]]
CapOne == [r1 |-> [actions |-> 1, usd |-> 1]]
DayCap == [actions |-> 4, usd |-> 1]
=============================================================================
