--------------------------- MODULE MCRecordPages ----------------------------
(* Two transactions on a file with two records per page. *)
EXTENDS RecordPages, PageLayout, TLC

CONSTANTS t1, t2
MCThreads == {t1, t2}
Symmetry == Permutations(MCThreads)

=============================================================================
