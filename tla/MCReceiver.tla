----------------------------- MODULE MCReceiver -----------------------------
(* A small instance of Receiver: more connections than threads, and more     *)
(* threads than places in the channel.                                       *)
EXTENDS Receiver

ClientNames == {"c1", "c2", "c3"}
Mixed == [c1 |-> {"rows"}, c2 |-> {"rows", "invalid"}, c3 |-> {"shutdown", "refused"}]
=============================================================================
