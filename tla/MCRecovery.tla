----------------------------- MODULE MCRecovery -----------------------------
(* Two transactions in each of two processes, on a file of two pages. *)
EXTENDS Recovery
=============================================================================
