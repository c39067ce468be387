---------------------------- MODULE MCBPlusTree -----------------------------
(* An instance of BPlusTree: nodes of at most three pairs, and a table that was   *)
(* filled in ascending order up to a root with two leaves.                         *)
EXTENDS BPlusTree

MCKeys == 1 .. 9
MCLoaded == <<2, 3, 5, 6, 8>>

=============================================================================
