------------------------- MODULE TransactionManager -------------------------
(***************************************************************************)
(* TransactionManager (src/src/transaction/transaction_manager.cpp).       *)
(*                                                                         *)
(* commit and abort hold latch_ from their first to their last statement,  *)
(* but the locks they release one by one are seen at once by the threads   *)
(* that execute statements, which do not take latch_.  So each of them is  *)
(* several actions: it takes the latch, undoes one write, releases one     *)
(* lock, and ends.  The lock set is an unordered_set: its locks are        *)
(* released in any order.                                                  *)
(***************************************************************************)
EXTENDS RecordFile

VARIABLES next_txn_id,  \* the next transaction that begin hands out
          txn_mode,     \* Transaction::txn_mode_: part of an explicit transaction
          write_set,    \* Transaction::write_set_
          latch,        \* the transaction whose commit or abort holds latch_
          phase,        \* how far that commit or abort has come
          todo,         \* the locks of its lock set that it has still to release
          log           \* the COMMIT and ABORT records of the log

tmVars == <<next_txn_id, txn_mode, write_set, latch, phase, todo, log>>

NoWait == latch = INVALID_TXN_ID

TMInit ==
  /\ next_txn_id = 0
  /\ txn_mode = [t \in Txns |-> FALSE]
  /\ write_set = [t \in Txns |-> <<>>]
  /\ latch = INVALID_TXN_ID
  /\ phase = "free"
  /\ todo = {}
  /\ log = <<>>

\* WriteRecord: the old record of a deleted or updated row, none for an insert.
WriteRecord(wtype, r, old) == [wtype |-> wtype, rid |-> r, record |-> old]

append_write_record(t, wr) == write_set' = [write_set EXCEPT ![t] = Append(@, wr)]

begin(t) ==
  /\ NoWait
  /\ t = next_txn_id
  /\ next_txn_id' = next_txn_id + 1
  /\ UNCHANGED <<txn_mode, write_set, latch, phase, todo, log>>

Enter(t, p) ==
  /\ NoWait
  /\ latch' = t
  /\ phase' = p

Leave(t) ==
  /\ todo = {}
  /\ latch' = INVALID_TXN_ID
  /\ phase' = "free"

-----------------------------------------------------------------------------
(* commit *)

\* Mistake: commit does not take latch_.
commit_unlatched(t) ==
  /\ latch' = t /\ phase' = "commit"
  /\ write_set' = [write_set EXCEPT ![t] = <<>>]
  /\ todo' = lock_set[t]
  /\ UNCHANGED <<next_txn_id, txn_mode, log, lockVars, fileVars>>

\* Mistake: commit forgets the lock on the table.
commit_records_only(t) ==
  /\ Enter(t, "commit")
  /\ write_set' = [write_set EXCEPT ![t] = <<>>]
  /\ todo' = lock_set[t] \ {fd}
  /\ UNCHANGED <<next_txn_id, txn_mode, log, lockVars, fileVars>>

commit(t) ==
  /\ Enter(t, "commit")
  /\ write_set' = [write_set EXCEPT ![t] = <<>>]
  /\ todo' = lock_set[t]
  /\ UNCHANGED <<next_txn_id, txn_mode, log, lockVars, fileVars>>

commit_end(t) ==
  /\ latch = t /\ phase = "commit"
  /\ Leave(t)
  /\ log' = Append(log, <<"COMMIT", t>>)
  /\ state' = [state EXCEPT ![t] = "COMMITTED"]
  /\ UNCHANGED <<next_txn_id, txn_mode, write_set, todo, lock_set, queue, group, fileVars>>

-----------------------------------------------------------------------------
(* abort *)

abort(t) ==
  /\ Enter(t, "undo")
  /\ UNCHANGED <<next_txn_id, txn_mode, write_set, todo, log, lockVars, fileVars>>

\* The last write that is not undone yet.
Back(t) == write_set[t][Len(write_set[t])]

PopBack(t) == write_set' = [write_set EXCEPT ![t] = SubSeq(@, 1, Len(@) - 1)]

Undoing(t, wtype) ==
  /\ latch = t /\ phase = "undo"
  /\ write_set[t] # <<>>
  /\ Back(t).wtype = wtype

\* The index entry goes first, then the record.
rollback_insert(t) ==
  LET r == Back(t).rid
  IN  /\ Undoing(t, "INSERT_TUPLE")
      /\ ~root_latch
      /\ ~delete_entry_throws(index, slots[r].key)
      /\ index' = delete_entry(index, slots[r].key)
      /\ delete_record_load(t, r)
      /\ phase' = "reset"
      /\ UNCHANGED <<root_latch, next_txn_id, txn_mode, write_set, latch, todo, log>>

\* delete_entry throws an RMDBError out of abort, which gives up latch_.
rollback_insert_throws(t) ==
  LET r == Back(t).rid
  IN  /\ Undoing(t, "INSERT_TUPLE")
      /\ ~root_latch
      /\ delete_entry_throws(index, slots[r].key)
      /\ root_latch' = TRUE
      /\ \E res \in Results \ {"abort"} : lock_shared_on_record(t, r, res)
      /\ latch' = INVALID_TXN_ID /\ phase' = "free"
      /\ UNCHANGED <<slots, bitmap, byte, index, next_txn_id, txn_mode, write_set, todo, log>>

rollback_insert_reset(t) ==
  /\ latch = t /\ phase = "reset"
  /\ delete_record_reset(t, Back(t).rid)
  /\ PopBack(t)
  /\ phase' = "undo"
  /\ UNCHANGED <<next_txn_id, txn_mode, latch, todo, log, lockVars>>

\* The row goes to the first free slot of the page, which need not be the one it had.
\* One is free: the slot of the deleted row was, and whatever filled it is undone.
rollback_delete(t) ==
  LET old == Back(t).record
      r   == next_bit(FreeSlots, NoRid)
  IN  /\ Undoing(t, "DELETE_TUPLE")
      /\ ~root_latch
      /\ r \in Records
      /\ insert_record(t, r, old)
      /\ index' = insert_entry(index, old.key, r)
      /\ PopBack(t)
      /\ UNCHANGED <<root_latch, next_txn_id, txn_mode, latch, phase, todo, log>>

\* The index is changed back when memcmp tells the keys apart.  It never does.
rollback_update(t) ==
  LET r    == Back(t).rid
      old  == Back(t).record
      key  == slots[r].key
      same == memcmp_equal(key, old.key, col_tot_len)
  IN  /\ Undoing(t, "UPDATE_TUPLE")
      /\ \E res \in Results \ {"abort"} : update_record(t, r, old, res)
      /\ index' = IF same THEN index ELSE insert_entry(delete_entry(index, key), old.key, r)
      /\ PopBack(t)
      /\ UNCHANGED <<root_latch, next_txn_id, txn_mode, latch, phase, todo, log>>

\* Mistake: abort releases the locks before it has undone the writes.
rollback_later(t) ==
  /\ latch = t /\ phase = "undo"
  /\ phase' = "abort"
  /\ todo' = lock_set[t]
  /\ UNCHANGED <<next_txn_id, txn_mode, write_set, latch, log, lockVars, fileVars>>

\* All writes are undone.
rollback_done(t) ==
  /\ latch = t /\ phase = "undo"
  /\ write_set[t] = <<>>
  /\ phase' = "abort"
  /\ todo' = lock_set[t]
  /\ UNCHANGED <<next_txn_id, txn_mode, write_set, latch, log, lockVars, fileVars>>

abort_end(t) ==
  /\ latch = t /\ phase = "abort"
  /\ Leave(t)
  /\ log' = Append(log, <<"ABORT", t>>)
  /\ state' = [state EXCEPT ![t] = "ABORTED"]
  /\ lock_set' = [lock_set EXCEPT ![t] = {}]
  /\ UNCHANGED <<next_txn_id, txn_mode, write_set, todo, queue, group, fileVars>>

-----------------------------------------------------------------------------
(* Both release the locks of the lock set one at a time. *)

release(t) ==
  /\ latch = t /\ phase \in {"commit", "abort"}
  /\ \E o \in todo :
       /\ \E res \in Results : unlock(t, o, res)
       /\ todo' = todo \ {o}
  /\ UNCHANGED <<next_txn_id, txn_mode, write_set, latch, phase, log, fileVars>>

\* One step of the abort that t has entered, but for its end.
abort_step(t) ==
  \/ rollback_insert(t) \/ rollback_insert_reset(t)
  \/ rollback_delete(t) \/ rollback_update(t) \/ rollback_done(t)
  \/ release(t)

=============================================================================
