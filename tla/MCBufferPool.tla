---------------------------- MODULE MCBufferPool ----------------------------
(* The buffer pool with few frames and pages. *)
EXTENDS BufferPool, TLC

\* Clients are only compared for equality.
ClientSymmetry == Permutations(Clients)

=============================================================================
