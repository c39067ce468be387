----------------------------- MODULE LockCalls -----------------------------
(***************************************************************************)
(* The calls of the lock manager as its callers see them.  Many calls do   *)
(* not change the lock table: the lock is held already, or the request is  *)
(* refused.  They are no steps of LockManager; here every call is one.     *)
(***************************************************************************)
EXTENDS LockManager

VARIABLE calls   \* is the number of calls odd?

callVars == <<lockVars, calls>>

CallInit == LockInit /\ calls = FALSE

CallNext == LockNext /\ calls' = ~calls

CallSpec == CallInit /\ [][CallNext]_callVars

-----------------------------------------------------------------------------
(* Properties. *)

\* A call by t for a mode on o that returns res, as the caller sees it.
RequestReturns(t, o, mode, res) ==
  \/ o \in Records /\ mode = "SHARED" /\ lock_shared_on_record(t, o, res)
  \/ o \in Records /\ mode = "EXCLUSIVE" /\ lock_exclusive_on_record(t, o, res)
  \/ o \in Tables /\ mode = "SHARED" /\ lock_shared_on_table(t, o, res)
  \/ o \in Tables /\ mode = "EXCLUSIVE" /\ lock_exclusive_on_table(t, o, res)
  \/ o \in Tables /\ mode = "INTENTION_SHARED" /\ lock_IS_on_table(t, o, res)
  \/ o \in Tables /\ mode = "INTENTION_EXCLUSIVE" /\ lock_IX_on_table(t, o, res)

\* A lock call that returns true leaves its transaction with a mode that covers
\* both the requested mode and the mode it held, through all upgrade paths.
GrantCovers ==
  [][\A t \in Txns, o \in LockDataId, mode \in LockMode :
       RequestReturns(t, o, mode, "true") =>
         /\ Table!Covers(queue'[o][t], mode)
         /\ Table!Covers(queue'[o][t], queue[o][t])]_callVars

\* A lock call throws only if it must: its transaction is shrinking, or another
\* one holds a mode that excludes what the call asks for.  No transaction is
\* sacrificed to a group mode that is out of date.
NoSpuriousAbort ==
  [][\A t \in Txns, o \in LockDataId, mode \in LockMode :
       RequestReturns(t, o, mode, "abort") =>
         \/ state[t] = "SHRINKING"
         \/ ~Table!Grantable(t, o, Table!Supremum(queue[o][t], mode))]_callVars

=============================================================================
