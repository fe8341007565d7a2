--------------------------- MODULE MCBinaryUpdate ---------------------------
(* Small instances of BinaryUpdate: every constant is given in the           *)
(* configurations.                                                           *)
EXTENDS BinaryUpdate
=============================================================================
