---------------------------- MODULE MCCollector ----------------------------
(* Small instances of Collector: the starters are all of the new version.    *)
EXTENDS Collector

AllNew == [s \in Starters |-> "new"]
============================================================================
