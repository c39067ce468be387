---------------------------- MODULE MCLifecycle -----------------------------
(* Two clients, one table, and three requests in all processes together. *)
EXTENDS Lifecycle
=============================================================================
