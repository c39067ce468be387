--------------------------- MODULE MCLockManager ---------------------------
(* The lock manager with arbitrary callers, for TLC. *)
EXTENDS LockCalls, TLC

\* Transactions are only compared for equality.
Symmetry == Permutations(Txns)

=============================================================================
