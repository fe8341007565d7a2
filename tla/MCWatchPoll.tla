---------------------------- MODULE MCWatchPoll ----------------------------
(* Small instances of WatchPoll: every constant is given in the              *)
(* configurations.                                                           *)
EXTENDS WatchPoll
============================================================================
