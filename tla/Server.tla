------------------------------- MODULE Server -------------------------------
(***************************************************************************)
(* The server (src/src/rmdb.cpp): one thread per client session, which     *)
(* reads a request, finds or begins its transaction, executes the          *)
(* statement through the executors of src/src/execution, replies, and      *)
(* commits when the statement is not part of an explicit transaction.      *)
(*                                                                         *)
(* Between two actions of a thread any other thread may run.  Steps that   *)
(* touch only what the thread has locked are one action with the lock      *)
(* call before them.                                                       *)
(***************************************************************************)
EXTENDS TransactionManager

CONSTANTS Sessions,
          Statements,   \* the kinds of statements the clients send
          MaxRequests   \* bound: the requests of each session

ASSUME TxnIds == Txns \subseteq Nat /\ \A t \in Txns : 0 .. t \subseteq Txns
ASSUME StatementKinds ==
  Statements \subseteq {"begin", "commit", "abort", "bad",
                        "insert", "select", "update", "delete"}

VARIABLES thread,    \* what the thread of a session is doing
          txn_id,    \* the session's current transaction
          requests,  \* how many requests it has read
          reply,     \* what it answers: "ok", "abort" or "failure"
          deps       \* history: <<t, u>> when t has read a row written by u

serverVars == <<thread, txn_id, requests, reply, deps>>
vars == <<lockVars, fileVars, tmVars, serverVars>>

\* A thread that waits for a request: the statement and the executor's locals are
\* reset.  at is the cursor of a scan and the slot of an insert.
Waiting == [pc |-> "read", kind |-> "none", key |-> NoKey, at |-> NoRid, rids |-> <<>>]

Init ==
  /\ LockInit
  /\ FileInit
  /\ TMInit
  /\ thread = [s \in Sessions |-> Waiting]
  /\ txn_id = [s \in Sessions |-> INVALID_TXN_ID]
  /\ requests = [s \in Sessions |-> 0]
  /\ reply = [s \in Sessions |-> "ok"]
  /\ deps = {}

pc(s) == thread[s].pc
Goto(s, label) == thread' = [thread EXCEPT ![s].pc = label]

\* Back to CONTINUE with an answer for the client.
Answer(s, text) ==
  /\ thread' = [thread EXCEPT ![s] = [Waiting EXCEPT !.pc = "write"]]
  /\ reply' = [reply EXCEPT ![s] = text]

\* Mistake: a refused request is repeated until it is granted.
Throw_never(s) == UNCHANGED <<thread, reply>>

\* A TransactionAbortException: the handler calls abort and answers "abort".
Throw(s) ==
  /\ thread' = [thread EXCEPT ![s] = [Waiting EXCEPT !.pc = "abort"]]
  /\ reply' = [reply EXCEPT ![s] = "abort"]

\* What follows a lock call: on, or to the handler of the exception.
AfterLock(s, res, next) ==
  \/ res = "abort" /\ Throw(s)
  \/ res # "abort" /\ next /\ UNCHANGED reply

Ended(t) == t \notin {u \in Txns : state[u] \notin {"COMMITTED", "ABORTED"}}

-----------------------------------------------------------------------------
(* client_handler: the request. *)

\* The first label of a statement of this kind.
Entry(kind) ==
  CASE kind = "insert"                       -> "lock_IX"
    [] kind \in {"select", "update", "delete"} -> "lock_S"
    [] OTHER                                 -> kind

\* Mistake: the session takes the transaction id after it was incremented.
SetTransaction_late(s) ==
  LET t == txn_id[s]
  IN  \/ /\ Ended(t)
         /\ next_txn_id \in Txns
         /\ begin(next_txn_id)
         /\ txn_id' = [txn_id EXCEPT ![s] = next_txn_id + 1]
      \/ /\ ~Ended(t)
         /\ NoWait
         /\ UNCHANGED <<tmVars, txn_id>>

\* SetTransaction: a session without a running transaction begins a new one.
SetTransaction(s) ==
  LET t == txn_id[s]
  IN  \/ /\ Ended(t)
         /\ next_txn_id \in Txns
         /\ begin(next_txn_id)
         /\ txn_id' = [txn_id EXCEPT ![s] = next_txn_id]
      \/ /\ ~Ended(t)
         /\ NoWait
         /\ UNCHANGED <<tmVars, txn_id>>

Request(s) ==
  /\ pc(s) = "read"
  /\ requests[s] < MaxRequests[s]
  /\ requests' = [requests EXCEPT ![s] = @ + 1]
  /\ SetTransaction(s)
  /\ \E kind \in Statements :
     \E k \in IF kind \in {"insert", "update"} THEN Keys ELSE {NoKey} :
       thread' = [thread EXCEPT ![s] = [Waiting EXCEPT !.pc = Entry(kind), !.kind = kind, !.key = k]]
  /\ UNCHANGED <<reply, deps, lockVars, fileVars>>

\* A statement that does not parse, or that analysis refuses: its transaction has
\* begun all the same.
Refuse(s) ==
  /\ pc(s) = "bad"
  /\ Answer(s, "failure")
  /\ UNCHANGED <<txn_id, requests, deps, lockVars, fileVars, tmVars>>

\* BEGIN makes the session's transaction an explicit one.
Begin(s) ==
  /\ pc(s) = "begin"
  /\ txn_mode' = [txn_mode EXCEPT ![txn_id[s]] = TRUE]
  /\ Answer(s, "ok")
  /\ UNCHANGED <<next_txn_id, write_set, latch, phase, todo, log,
                 txn_id, requests, deps, lockVars, fileVars>>

\* The client has gone, between two requests: the thread ends, and with it nothing
\* else does.
Disconnect(s) ==
  /\ pc(s) = "read"
  /\ Goto(s, "closed")
  /\ UNCHANGED <<lockVars, fileVars, tmVars, txn_id, requests, reply, deps>>

\* Mistake: only a statement that succeeded is committed.
Write_ok(s) ==
  /\ pc(s) = "write"
  /\ Goto(s, IF txn_mode[txn_id[s]] \/ reply[s] # "ok" THEN "read" ELSE "autocommit")
  /\ UNCHANGED <<lockVars, fileVars, tmVars, txn_id, requests, reply, deps>>

\* The answer is written; a statement outside an explicit transaction is then
\* committed, whatever became of it.  A thread that cannot write ends at once.
Write(s) ==
  /\ pc(s) = "write"
  /\ \/ Goto(s, IF txn_mode[txn_id[s]] THEN "read" ELSE "autocommit")
     \/ Goto(s, "closed")
  /\ UNCHANGED <<lockVars, fileVars, tmVars, txn_id, requests, reply, deps>>

\* COMMIT, and the commit after a single statement.
Commit(s) ==
  LET t == txn_id[s]
  IN  /\ pc(s) \in {"commit", "autocommit"}
      /\ \/ commit(t) /\ UNCHANGED thread
         \/ release(t) /\ UNCHANGED thread
         \/ commit_end(t) /\ Goto(s, IF pc(s) = "commit" THEN "write" ELSE "read")
      /\ UNCHANGED <<txn_id, requests, reply, deps>>

\* ABORT and ROLLBACK, and the abort after an exception.
Abort(s) ==
  LET t == txn_id[s]
  IN  /\ pc(s) = "abort"
      /\ \/ abort(t) /\ UNCHANGED thread
         \/ abort_step(t) /\ UNCHANGED thread
         \/ abort_end(t) /\ Goto(s, "write")
      /\ UNCHANGED <<txn_id, requests, reply, deps>>

\* abort itself throws.  client_handler answers "failure" to an ABORT or ROLLBACK; in
\* the handler of a TransactionAbortException nobody catches it, and the server ends.
AbortThrows(s) ==
  /\ pc(s) = "abort"
  /\ rollback_insert_throws(txn_id[s])
  /\ \/ thread[s].kind = "abort" /\ Answer(s, "failure")
     \/ /\ thread[s].kind # "abort"
        /\ thread' = [u \in Sessions |-> [Waiting EXCEPT !.pc = "terminated"]]
        /\ UNCHANGED reply
  /\ UNCHANGED <<txn_id, requests, deps>>

-----------------------------------------------------------------------------
(* SeqScanExecutor: SELECT, and the rows of UPDATE and DELETE. *)

LockShared(s) ==
  /\ pc(s) = "lock_S"
  /\ \E res \in Results :
       /\ lock_shared_on_table(txn_id[s], fd, res)
       /\ AfterLock(s, res, Goto(s, "scan"))
  /\ UNCHANGED <<fileVars, tmVars, txn_id, requests, deps>>

\* The next record: get_record locks and reads it.  An UPDATE or a DELETE keeps its
\* rid if it satisfies the conditions, which are left open.
Scan(s) ==
  LET t == txn_id[s]
      r == next_bit(bitmap, thread[s].at)
      u == slots[r].by
  IN  /\ pc(s) = "scan"
      /\ HasNext(bitmap, thread[s].at)
      /\ \E res \in Results, match \in BOOLEAN :
           /\ thread[s].kind = "select" => match
           /\ get_record(t, r, res)
           /\ AfterLock(s, res,
                thread' = [thread EXCEPT ![s].at = r,
                                         ![s].rids = IF match /\ thread[s].kind # "select"
                                                     THEN Append(@, r) ELSE @])
           /\ deps' = IF res # "abort" /\ u \notin {t, INVALID_TXN_ID}
                      THEN deps \cup {<<t, u>>} ELSE deps
  /\ UNCHANGED <<tmVars, txn_id, requests>>

\* The end of the table: a SELECT is answered, the others go on to lock the table IX.
ScanEnd(s) ==
  /\ pc(s) = "scan"
  /\ ~HasNext(bitmap, thread[s].at)
  /\ \/ thread[s].kind = "select" /\ Answer(s, "ok")
     \/ thread[s].kind # "select" /\ Goto(s, "lock_IX") /\ UNCHANGED reply
  /\ UNCHANGED <<lockVars, fileVars, tmVars, txn_id, requests, deps>>

\* Mistake: the executors announce their writes with IS.
LockIX_IS(s) ==
  /\ pc(s) = "lock_IX"
  /\ \E res \in Results :
       /\ lock_IS_on_table(txn_id[s], fd, res)
       /\ AfterLock(s, res, Goto(s, IF thread[s].kind = "insert" THEN "unique" ELSE "row"))
  /\ UNCHANGED <<fileVars, tmVars, txn_id, requests, deps>>

\* The constructors of InsertExecutor, UpdateExecutor and DeleteExecutor.
LockIX(s) ==
  /\ pc(s) = "lock_IX"
  /\ \E res \in Results :
       /\ lock_IX_on_table(txn_id[s], fd, res)
       /\ AfterLock(s, res, Goto(s, IF thread[s].kind = "insert" THEN "unique" ELSE "row"))
  /\ UNCHANGED <<fileVars, tmVars, txn_id, requests, deps>>

-----------------------------------------------------------------------------
(* InsertExecutor::Next *)

\* The uniqueness check, before anything is written.
CheckUnique(s) ==
  /\ pc(s) = "unique" /\ ~root_latch
  /\ \/ is_key_exist(thread[s].key) /\ Answer(s, "failure")
     \/ ~is_key_exist(thread[s].key) /\ Goto(s, "slot") /\ UNCHANGED reply
  /\ UNCHANGED <<lockVars, fileVars, tmVars, txn_id, requests, deps>>

\* insert_record looks for a free slot; with none left, and no frame for a new page,
\* create_new_page_handle throws an InternalError.
ChooseSlot(s) ==
  /\ pc(s) = "slot"
  /\ \/ /\ FreeSlots # {}
        /\ thread' = [thread EXCEPT ![s].pc = "copy", ![s].at = next_bit(FreeSlots, NoRid)]
        /\ UNCHANGED reply
     \/ FreeSlots = {} /\ Answer(s, "failure")
  /\ UNCHANGED <<lockVars, fileVars, tmVars, txn_id, requests, deps>>

CopyRecord(s) ==
  LET t == txn_id[s]
  IN  /\ pc(s) = "copy"
      /\ \E res \in Results :
           /\ insert_record_copy(t, thread[s].at, Row(thread[s].key, t), res)
           /\ AfterLock(s, res, Goto(s, "set"))
      /\ UNCHANGED <<tmVars, txn_id, requests, deps>>

\* The bit is set, the index entry inserted and the write recorded.
SetBit(s) ==
  /\ pc(s) = "set"
  /\ insert_record_set(txn_id[s], thread[s].at)
  /\ Goto(s, "entry")
  /\ UNCHANGED <<slots, ixVars, lockVars, tmVars, txn_id, requests, reply, deps>>

\* Mistake: the insertion of the entry refuses a key that is there by now.
InsertEntry_checked(s) ==
  LET t == txn_id[s]
  IN  /\ pc(s) = "entry" /\ ~root_latch
      /\ \/ is_key_exist(thread[s].key) /\ Answer(s, "failure") /\ UNCHANGED <<index, write_set>>
         \/ /\ ~is_key_exist(thread[s].key)
            /\ index' = insert_entry(index, thread[s].key, thread[s].at)
            /\ append_write_record(t, WriteRecord("INSERT_TUPLE", thread[s].at, Row(NoKey, INVALID_TXN_ID)))
            /\ Answer(s, "ok")
      /\ UNCHANGED <<slots, bitmap, byte, root_latch, next_txn_id, txn_mode, latch, phase, todo, log,
                     lockVars, txn_id, requests, deps>>

InsertEntry(s) ==
  LET t == txn_id[s]
  IN  /\ pc(s) = "entry" /\ ~root_latch
      /\ index' = insert_entry(index, thread[s].key, thread[s].at)
      /\ append_write_record(t, WriteRecord("INSERT_TUPLE", thread[s].at, Row(NoKey, INVALID_TXN_ID)))
      /\ Answer(s, "ok")
      /\ UNCHANGED <<slots, bitmap, byte, root_latch, next_txn_id, txn_mode, latch, phase, todo, log,
                     lockVars, txn_id, requests, deps>>

-----------------------------------------------------------------------------
(* UpdateExecutor::Next and DeleteExecutor::Next: for each rid, first the index *)
(* and then the record, whose exclusive lock may still be refused.  get_record  *)
(* cannot throw here: the scan has left a lock on the record.                   *)

RowKey(s) == slots[Head(thread[s].rids)].key

\* delete_entry throws: the statement fails, and the index stays locked.
RowThrows(s) ==
  /\ delete_entry_throws(index, RowKey(s))
  /\ root_latch' = TRUE
  /\ Answer(s, "failure")
  /\ UNCHANGED index

\* The key is checked and its entry replaced, unless strncmp finds no difference.
UpdateIndex(s) ==
  LET new  == thread[s].key
      same == strncmp_equal(new, RowKey(s))
  IN  /\ pc(s) = "row" /\ thread[s].kind = "update" /\ thread[s].rids # <<>>
      /\ same \/ ~root_latch
      /\ \E res \in Results \ {"abort"} : lock_shared_on_record(txn_id[s], Head(thread[s].rids), res)
      /\ \/ same /\ Goto(s, "change") /\ UNCHANGED <<ixVars, reply>>
         \/ ~same /\ is_key_exist(new) /\ Answer(s, "failure") /\ UNCHANGED ixVars
         \/ ~same /\ ~is_key_exist(new) /\ RowThrows(s)
         \/ /\ ~same /\ ~is_key_exist(new) /\ ~delete_entry_throws(index, RowKey(s))
            /\ index' = insert_entry(delete_entry(index, RowKey(s)), new, Head(thread[s].rids))
            /\ Goto(s, "change")
            /\ UNCHANGED <<root_latch, reply>>
      /\ UNCHANGED <<slots, bitmap, byte, tmVars, txn_id, requests, deps>>

DeleteFromIndex(s) ==
  /\ pc(s) = "row" /\ thread[s].kind = "delete" /\ thread[s].rids # <<>>
  /\ ~root_latch
  /\ \E res \in Results \ {"abort"} : lock_shared_on_record(txn_id[s], Head(thread[s].rids), res)
  /\ \/ RowThrows(s)
     \/ /\ ~delete_entry_throws(index, RowKey(s))
        /\ index' = delete_entry(index, RowKey(s))
        /\ Goto(s, "change")
        /\ UNCHANGED <<root_latch, reply>>
  /\ UNCHANGED <<slots, bitmap, byte, tmVars, txn_id, requests, deps>>

\* After the record of this rid, the next rid.
NextRow(s) == thread' = [thread EXCEPT ![s].pc = "row", ![s].rids = Tail(@)]

UpdateRecord(s) ==
  LET t == txn_id[s]
      r == Head(thread[s].rids)
  IN  /\ pc(s) = "change" /\ thread[s].kind = "update"
      /\ \E res \in Results :
           /\ update_record(t, r, Row(thread[s].key, t), res)
           /\ AfterLock(s, res, NextRow(s))
           /\ IF res = "abort" THEN UNCHANGED write_set
              ELSE append_write_record(t, WriteRecord("UPDATE_TUPLE", r, slots[r]))
      /\ UNCHANGED <<ixVars, next_txn_id, txn_mode, latch, phase, todo, log, txn_id, requests, deps>>

DeleteRecord(s) ==
  LET t == txn_id[s]
      r == Head(thread[s].rids)
  IN  /\ pc(s) = "change" /\ thread[s].kind = "delete"
      /\ \E res \in Results :
           /\ delete_record(t, r, res)
           /\ AfterLock(s, res, NextRow(s))
           /\ IF res = "abort" THEN UNCHANGED write_set
              ELSE append_write_record(t, WriteRecord("DELETE_TUPLE", r, slots[r]))
      /\ UNCHANGED <<next_txn_id, txn_mode, latch, phase, todo, log, txn_id, requests, deps>>

RowsDone(s) ==
  /\ pc(s) = "row" /\ thread[s].rids = <<>>
  /\ Answer(s, "ok")
  /\ UNCHANGED <<lockVars, fileVars, tmVars, txn_id, requests, deps>>

-----------------------------------------------------------------------------

\* The steps of a thread that has a request to answer.
Step(s) ==
  \/ Refuse(s) \/ Begin(s) \/ Commit(s) \/ Abort(s) \/ AbortThrows(s) \/ Write(s)
  \/ LockShared(s) \/ Scan(s) \/ ScanEnd(s) \/ LockIX(s)
  \/ CheckUnique(s) \/ ChooseSlot(s) \/ CopyRecord(s) \/ SetBit(s) \/ InsertEntry(s)
  \/ UpdateIndex(s) \/ UpdateRecord(s) \/ DeleteFromIndex(s) \/ DeleteRecord(s) \/ RowsDone(s)

Next == \E s \in Sessions : Request(s) \/ Disconnect(s) \/ Step(s)

\* A thread that is not blocked on latch_ goes on; clients need not send anything.
Fairness == \A s \in Sessions : WF_vars(Step(s))

SafeSpec == Init /\ [][Next]_vars

Spec == SafeSpec /\ Fairness

-----------------------------------------------------------------------------
(* Properties. *)

Rows == [key : Keys \cup {NoKey}, by : Txns \cup {INVALID_TXN_ID}]

\* Type invariant.
TypeOK ==
  /\ LockTypeOK
  /\ slots \in [Records -> Rows]
  /\ bitmap \subseteq Records
  /\ byte \in [Txns -> SUBSET Records]
  /\ index \in [keys : [0 .. Cardinality(Keys) -> Keys \cup {NoKey}],
                rids : [0 .. Cardinality(Keys) -> Records \cup {0}],
                num_key : 0 .. Cardinality(Keys)]
  /\ root_latch \in BOOLEAN
  /\ txn_mode \in [Txns -> BOOLEAN]
  /\ \A t \in Txns : write_set[t] \in Seq([wtype : {"INSERT_TUPLE", "DELETE_TUPLE", "UPDATE_TUPLE"},
                                          rid : Records, record : Rows])
  /\ latch \in Txns \cup {INVALID_TXN_ID}
  /\ phase \in {"free", "commit", "undo", "reset", "abort"}
  /\ todo \subseteq LockDataId
  /\ log \in Seq({"COMMIT", "ABORT"} \X Txns)
  /\ \A s \in Sessions : thread[s].rids \in Seq(Records)
  /\ txn_id \in [Sessions -> Txns \cup {INVALID_TXN_ID}]
  /\ reply \in [Sessions -> {"ok", "abort", "failure"}]
  /\ deps \subseteq Txns \X Txns

\* The statements, commits and aborts of all sessions use the lock manager only in
\* ways its own specification allows: a transaction never ends while it holds a lock.
UsesLockManager == LockSpec

\* Where a record of a transaction's end stands in the log.
EndsBefore(u, i) == \E j \in 1 .. i - 1 : log[j][2] = u

\* Transactions commit in an order that respects what they have read: the locks of a
\* transaction are gone before its COMMIT record is written, so another one can read
\* its rows earlier, and is kept from committing first only by latch_.
CommitOrder ==
  \A i \in 1 .. Len(log) :
    log[i][1] = "COMMIT" => \A d \in deps : d[1] = log[i][2] => EndsBefore(d[2], i)

\* A scan never returns a row of a transaction that is still running, or that has
\* writes left to undo: whoever wrote it has ended, or is releasing its locks in
\* commit or after its rollback.
NoDirtyRead ==
  [][\A d \in deps' \ deps :
       Ended(d[2]) \/ (state[d[2]] = "SHRINKING" /\ write_set[d[2]] = <<>>)]_vars

\* While a transaction has scanned a table, nobody else adds, changes or removes rows
\* of it: whoever does so has the table locked for writing, and nobody else for reading.
ScansAreStable ==
  [][<<slots, bitmap>>' # <<slots, bitmap>> =>
       \E t \in Txns :
         /\ queue'[fd][t] \in {"INTENTION_EXCLUSIVE", "S_IX"}
         /\ \A u \in Txns \ {t} : queue'[fd][u] \notin {"SHARED", "S_IX"}]_vars

\* abort calls lock operations while it undoes writes, and does not expect them to be
\* refused.  They are not: no other transaction has a lock on the slot that the next
\* undo step locks, which for a DELETE may be any free slot.
RollbackIsNeverRefused ==
  \A t \in Txns :
    latch = t /\ phase = "undo" /\ write_set[t] # <<>> =>
      \A r \in IF Back(t).wtype = "DELETE_TUPLE" THEN FreeSlots ELSE {Back(t).rid} :
        \A u \in Txns \ {t} : ~Holds(u, r)

\* A session that waits for a request outside an explicit transaction holds no locks
\* and has no writes left to undo, however its last statement ended.
AutocommitLeavesNothing ==
  \A s \in Sessions :
    pc(s) = "read" /\ txn_id[s] # INVALID_TXN_ID /\ ~txn_mode[txn_id[s]] =>
      /\ \A o \in LockDataId : ~Holds(txn_id[s], o)
      /\ write_set[txn_id[s]] = <<>>

\* Every row in the table that a running transaction has written is named in its write
\* set, so that an abort reaches it, however the statement that wrote it has ended: but
\* for the row of an INSERT that is not done yet, while the abort itself takes the
\* records off, and after one that threw and left the index latched.  The handler answers
\* a statement that fails at a later row with "failure" and calls no abort: what it wrote
\* stays until the transaction ends, and outside an explicit transaction the commit that
\* follows makes it last (rmdb.cpp:218).
WritesAreRecorded ==
  \A r \in bitmap :
    LET t == slots[r].by
    IN  ~Ended(t) /\ latch # t /\ ~root_latch =>
          \/ \E i \in 1 .. Len(write_set[t]) : write_set[t][i].rid = r
          \/ \E s \in Sessions : txn_id[s] = t /\ pc(s) \in {"set", "entry"} /\ thread[s].at = r

\* Every request is answered, or its session ends, unless an exception has left the
\* index latched: threads wait only for latch_ and root_latch_, and never for a lock.
RequestsAreAnswered ==
  \A s \in Sessions : pc(s) \notin {"read", "closed"} ~> pc(s) \in {"read", "closed"} \/ root_latch

-----------------------------------------------------------------------------
(* What comments of the code promise and does not hold: no run has these, and    *)
(* each comment says what breaks the property.                                  *)

\* insert_record copies the record into a free slot (rm_file_handle.cpp:51-52).  The
\* slot is chosen before it is locked, and may be filled, committed and unlocked by
\* another insert in between: the committed row is overwritten.
InsertsIntoFreeSlot ==
  [][\A s \in Sessions :
       pc(s) = "copy" /\ thread'[s].pc = "set" => thread[s].at \notin bitmap]_vars

\* abort rolls back all writes (transaction_manager.cpp:90): no row of an aborted
\* transaction is left.  The undo of a DELETE moves the row to the first free slot,
\* and the undo of an earlier UPDATE of that row then goes to the slot it had.  And an
\* insert beside the rollback may write back a byte of the bitmap in which the bit of the
\* row that was just removed is still set.
AbortedWritesAreUndone ==
  \A i \in 1 .. Len(log) : log[i][1] = "ABORT" => \A r \in bitmap : slots[r].by # log[i][2]

\* An insert checks that its key is unique in the index (executor_insert.h:57): no
\* two rows have the same key.  Two inserts may both check before either inserts.
UniqueKeys ==
  \A r, q \in bitmap : slots[r].key = slots[q].key => r = q

\* abort also rolls back the index (transaction_manager.cpp:111, 132 and 153): when no
\* transaction runs, the index has exactly the rows of the table.  A DELETE removes the
\* index entry first and records the write last: if its lock on the record is refused
\* in between, because another transaction that is committing has given up the table
\* but not yet the record, the abort does not know that the entry is gone.  And the
\* undo of an UPDATE compares the two keys over col_tot_len bytes, of which there are
\* none, and leaves the index as it is.  An insert finds its key in the bytes behind the
\* last pair, where a deleted pair remains; an UPDATE's strncmp stops at a zero byte.
IndexMatchesTable ==
  (\A s \in Sessions : pc(s) \in {"read", "closed"} /\ Ended(txn_id[s])) =>
    /\ keys_of(index) = {slots[r].key : r \in bitmap}
    /\ \A r \in bitmap : rid_of(index, slots[r].key) = r

\* Whoever uses find_leaf_page unlatches the leaf afterwards (ix_index_handle.cpp:298).
\* delete_entry does not when erase_pair throws, for a key that is not in the index: in a
\* statement, or in a rollback, where the exception may end the server.
IndexIsUnlatched == ~root_latch

=============================================================================
