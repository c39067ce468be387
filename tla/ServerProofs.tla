---------------------------- MODULE ServerProofs ----------------------------
(***************************************************************************)
(* What the server keeps, for every number of sessions, transactions,      *)
(* records and requests.                                                   *)
(***************************************************************************)
EXTENDS ServerEnds, WellFoundedInduction

-----------------------------------------------------------------------------
(* The invariant is inductive. *)

\* The rows at the start: those of Loaded, which no transaction wrote.
LEMMA InitialRows ==
  ASSUME FileInit
  PROVE  slots \in [Records -> Rows] /\ bitmap \subseteq Records
         /\ \A r \in Records : slots[r].by = INVALID_TXN_ID
<1>1. \A i \in 1 .. Len(Loaded) : Loaded[i].rid \in Records /\ Loaded[i].key \in Keys
  <2>. DEFINE R == [rid : Records, key : Keys]
  <2>1. Loaded \in Seq(R)
    BY LoadedRows, Zenon
  <2>. HIDE DEF R
  <2>2. \A i \in 1 .. Len(Loaded) : Loaded[i] \in R
    BY <2>1
  <2>. QED
    BY <2>2, Zenon DEF R
<1>2. bitmap \subseteq Records
  BY <1>1, Zenon DEF FileInit
<1>3. ASSUME NEW r \in Records PROVE slots[r] \in Rows /\ slots[r].by = INVALID_TXN_ID
  <2>1. CASE \E i \in 1 .. Len(Loaded) : Loaded[i].rid = r
    <3>. PICK j : j = CHOOSE i \in 1 .. Len(Loaded) : Loaded[i].rid = r
      BY Zenon
    <3>1. j \in 1 .. Len(Loaded)
      BY <2>1, Zenon
    <3>2. slots[r] = Row(Loaded[j].key, INVALID_TXN_ID)
      BY <2>1, Zenon DEF FileInit
    <3>. QED
      BY <1>1, <3>1, <3>2, SMTT(30) DEF Row, Rows
  <2>2. CASE ~\E i \in 1 .. Len(Loaded) : Loaded[i].rid = r
    <3>1. slots[r] = Row(NoKey, INVALID_TXN_ID)
      BY <2>2, Zenon DEF FileInit
    <3>. QED
      BY <3>1, SMTT(30) DEF Row, Rows
  <2>. QED
    BY <2>1, <2>2, Zenon
<1>4. slots = [r \in Records |-> slots[r]]
  BY Zenon DEF FileInit
<1>. QED
  BY <1>2, <1>3, <1>4, Zenon

\* The invariant holds at the start.
LEMMA ServerInit == ASSUME Init PROVE Inv
<1>1. LockInit /\ FileInit /\ TMInit /\ INVALID_TXN_ID \notin Txns /\ INVALID_TXN_ID < 0
  BY TransactionIds, Zenon DEF Init
<1>2. LockInv
  BY <1>1, InitInv, Zenon
<1>3. \A t \in Txns : state[t] = "DEFAULT" /\ \A o \in LockDataId : queue[o][t] = NoRequest
  BY <1>1, Zenon DEF LockInit
<1>4. \A s \in Sessions : thread[s] = Waiting /\ txn_id[s] = INVALID_TXN_ID
  BY Zenon DEF Init
<1>5. Waiting \in Threads
  <2>1. <<>> \in Seq(Records) /\ "read" \in Labels /\ "none" \in Kinds
    BY DEF Labels, Idle, Kinds
  <2>. QED
    BY <2>1, Zenon DEF Waiting, Threads
<1>6. Types
  <2>1. <<>> \in Seq(WriteRecords) /\ <<>> \in Seq({"COMMIT", "ABORT"} \X Txns)
    OBVIOUS
  <2>2. thread \in [Sessions -> Threads] /\ txn_id \in [Sessions -> Txns \cup {INVALID_TXN_ID}]
        /\ reply \in [Sessions -> {"ok", "abort", "failure"}] /\ deps \subseteq Txns \X Txns
    BY <1>5, Zenon DEF Init
  <2>3. byte \in [Txns -> SUBSET Records] /\ root_latch \in BOOLEAN
    BY <1>1, Zenon DEF FileInit
  <2>4. /\ next_txn_id \in Nat /\ txn_mode \in [Txns -> BOOLEAN] /\ write_set \in [Txns -> Seq(WriteRecords)]
        /\ latch \in Txns \cup {INVALID_TXN_ID} /\ phase \in {"free", "commit", "undo", "reset", "abort"}
        /\ todo \subseteq LockDataId /\ log \in Seq({"COMMIT", "ABORT"} \X Txns)
    BY <1>1, <2>1, Zenon DEF TMInit
  <2>. QED
    BY <1>1, <2>2, <2>3, <2>4, InitialRows, Zenon DEF Types
<1>7. Ownership
  BY <1>1, <1>3, <1>4, Zenon DEF Ownership, TMInit
<1>8. Latching
  BY <1>1, <1>3, Zenon DEF Latching, TMInit
<1>9. \A s \in Sessions : SessionInv(s)
  BY <1>4, SMTT(30) DEF SessionInv, Statement, Executor, Locked, Waiting, pc, Running, Idle
<1>10. TableFirst /\ Release
  BY <1>3, TableObject, Zenon DEF TableFirst, Release, Holds
<1>11. Undo
  BY <1>1, <1>3, SMTT(30) DEF Undo, TMInit, Releasing, HasEnded
<1>12. Writers
  BY <1>1, InitialRows, SMTT(30) DEF Writers, Settled, TMInit
<1>13. Logging
  BY <1>1, <1>3, SMTT(30) DEF Logging, CommitOrder, HasEnded, TMInit, Init
<1>. QED
  BY <1>2, <1>6, <1>7, <1>8, <1>9, <1>10, <1>11, <1>12, <1>13, ZenonT(30) DEF Inv

\* Every step of every session keeps the invariant, and is to the lock manager one of its
\* own steps or none.
LEMMA ServerStep ==
  ASSUME NextBitFinds, Inv, [Next]_vars
  PROVE  Inv' /\ [LockNext]_lockVars
<1>1. ASSUME NEW s \in Sessions, Request(s) \/ Disconnect(s) \/ Step(s)
      PROVE  Inv' /\ [LockNext]_lockVars
  BY <1>1, RequestInv, DisconnectInv, RefuseInv, BeginInv, CommitInv, AbortInv, AbortThrowsInv, WriteInv,
     LockSharedInv, ScanInv, ScanEndInv, LockIXInv, CheckUniqueInv, ChooseSlotInv, CopyRecordInv, SetBitInv,
     InsertEntryInv, UpdateIndexInv, UpdateRecordInv, DeleteFromIndexInv, DeleteRecordInv, RowsDoneInv, Zenon DEF Step
<1>2. CASE UNCHANGED vars
  <2>1. UNCHANGED <<lockVars, fileVars, tmVars, thread, txn_id, requests, reply, deps>>
    BY <1>2, Zenon DEF vars, serverVars
  <2>2. LockInv' /\ TableFirst' /\ Release' /\ Undo' /\ Writers' /\ Logging'
    BY <2>1, LocksAndLogKept, Zenon DEF fileVars, tmVars
  <2>3. Types'
    BY <2>1, Zenon DEF Inv, Types, fileVars, ixVars, tmVars
  <2>4. Ownership' /\ Latching'
    BY <2>1, Zenon DEF Inv, Ownership, Latching, Releasing, pc, lockVars, tmVars
  <2>5. \A s \in Sessions : SessionInv(s)'
    BY <2>1, SessionsKept, Zenon DEF tmVars
  <2>. QED
    BY <2>1, <2>2, <2>3, <2>4, <2>5, Zenon DEF Inv
<1>. QED
  BY <1>1, <1>2, Zenon DEF Next

-----------------------------------------------------------------------------
(* The first slot of a set. *)

\* A set of numbers that has an element has a least one.
LEMMA LeastNumber ==
  ASSUME NEW S \in SUBSET Nat, S # {}
  PROVE  \E q \in S : \A p \in S : q <= p
<1>1. PICK q \in S : \A p \in S : ~(<<p, q>> \in OpToRel(<, Nat))
  BY NatLessThanWellFounded, WFMin, Zenon
<1>2. ASSUME NEW p \in S PROVE q <= p
  <2>1. p \in Nat /\ q \in Nat
    BY Zenon
  <2>2. ~(p < q)
    BY <1>1, <2>1, Zenon DEF OpToRel
  <2>. QED
    BY <2>1, <2>2, SMTT(30)
<1>. QED
  BY <1>2, Zenon

\* next_bit returns a slot of the set it searches, when there is one behind the cursor.
LEMMA NextBitIsFound == NextBitFinds
<1>. SUFFICES ASSUME NEW set \in SUBSET Records, NEW r \in Records \cup {NoRid}, HasNext(set, r)
              PROVE  next_bit(set, r) \in set
  BY Zenon DEF NextBitFinds
<1>. DEFINE S == {q \in set : q > r}
<1>1. S \in SUBSET Nat /\ S # {}
  BY SlotsAreNumbers, Zenon DEF HasNext
<1>2. PICK q \in S : \A p \in S : q <= p
  BY <1>1, LeastNumber, Zenon
<1>3. q \in set /\ q > r /\ \A p \in set : p > r => q <= p
  BY <1>2, Zenon
<1>. QED
  BY <1>3, Zenon DEF next_bit

-----------------------------------------------------------------------------
(* Invariants. *)

\* The server keeps its invariant: whatever the sessions do, the locks are compatible and
\* cover the rows that are read and written, and latch_ has one holder.
THEOREM ServerInvariant == SafeSpec => []Inv
<1>1. Init => Inv
  BY ServerInit, Zenon
<1>2. Inv /\ [Next]_vars => Inv'
  BY NextBitIsFound, ServerStep, Zenon
<1>. QED
  BY <1>1, <1>2, PTL DEF SafeSpec

\* The statements, commits and aborts of all sessions use the lock manager only in ways its
\* own specification allows: no transaction ends while it holds a lock, and so everything
\* that is proved of the lock manager holds in the server.
THEOREM UsesLockManagerThm == SafeSpec => UsesLockManager
<1>1. Init => LockInit
  BY Zenon DEF Init
<1>2. Inv /\ [Next]_vars => [LockNext]_lockVars
  BY NextBitIsFound, ServerStep, Zenon
<1>. QED
  BY <1>1, <1>2, ServerInvariant, PTL DEF SafeSpec, UsesLockManager, LockSpec

\* Transactions commit in an order that respects what they have read, although a commit
\* gives its locks up before its record is in the log.
THEOREM CommitOrderThm == SafeSpec => []CommitOrder
<1>1. Inv => CommitOrder
  BY Zenon DEF Inv, Logging
<1>. QED
  BY <1>1, ServerInvariant, PTL

\* A session that waits for a request outside an explicit transaction holds no lock and has
\* nothing to undo: the autocommit, or the abort of a statement that was refused, has run.
THEOREM AutocommitLeavesNothingThm == SafeSpec => []AutocommitLeavesNothing
<1>1. ASSUME Inv PROVE AutocommitLeavesNothing
  <2>. SUFFICES ASSUME NEW s \in Sessions, pc(s) = "read", txn_id[s] # INVALID_TXN_ID, ~txn_mode[txn_id[s]]
                PROVE  /\ \A o \in LockDataId : ~Holds(txn_id[s], o)
                       /\ write_set[txn_id[s]] = <<>>
    BY Zenon DEF AutocommitLeavesNothing
  <2>1. txn_id[s] \in Txns
    BY <1>1, Zenon DEF Inv, Types
  <2>2. HasEnded(txn_id[s])
    BY <1>1, Zenon DEF Inv, SessionInv, Statement
  <2>. QED
    BY <1>1, <2>1, <2>2, Zenon DEF Inv, Release, Undo
<1>. QED
  BY <1>1, ServerInvariant, PTL

\* S_IX is compatible with none of the locks that the server asks for on the table, IX with
\* none that reads all of it.
LEMMA WriterModes ==
  /\ \A n \in {"SHARED", "INTENTION_EXCLUSIVE", "S_IX"} : ~Table!Compatible("S_IX", n)
  /\ \A n \in {"SHARED", "S_IX"} : ~Table!Compatible("INTENTION_EXCLUSIVE", n)
<1>1. ~Table!Compatible("S_IX", "SHARED") /\ ~Table!Compatible("INTENTION_EXCLUSIVE", "SHARED")
  BY DEF Table!Compatible, Table!None
<1>2. ~Table!Compatible("S_IX", "INTENTION_EXCLUSIVE")
  BY DEF Table!Compatible, Table!None
<1>3. ~Table!Compatible("S_IX", "S_IX") /\ ~Table!Compatible("INTENTION_EXCLUSIVE", "S_IX")
  BY DEF Table!Compatible, Table!None
<1>. QED
  BY <1>1, <1>2, <1>3, Zenon

\* Whoever has the table locked for writing excludes readers.
LEMMA TableExcludes ==
  ASSUME NEW m, NEW n \in {NoRequest, "SHARED", "INTENTION_EXCLUSIVE", "S_IX"}, Table!Compatible(m, n)
  PROVE  /\ m = "S_IX" => n = NoRequest
         /\ m = "INTENTION_EXCLUSIVE" => n \notin {"SHARED", "S_IX"}
  BY WriterModes, Zenon

\* The undo steps of an abort lock slots on which no other transaction has a lock, so the
\* lock calls that abort makes without a handler are not refused.
THEOREM RollbackIsNeverRefusedThm == SafeSpec => []RollbackIsNeverRefused
<1>1. ASSUME Inv PROVE RollbackIsNeverRefused
  <2>. SUFFICES ASSUME NEW t \in Txns, latch = t, phase = "undo", write_set[t] # <<>>,
                       NEW r \in IF Back(t).wtype = "DELETE_TUPLE" THEN FreeSlots ELSE {Back(t).rid},
                       NEW u \in Txns \ {t}
                PROVE  ~Holds(u, r)
    BY Zenon DEF RollbackIsNeverRefused
  <2>1. Back(t) \in WriteRecords /\ Protected(t, Back(t)) /\ ~Releasing(u) /\ LockInv /\ TableFirst
    BY <1>1, UndoLocks, Zenon DEF Releasing, Inv
  <2>2. CASE Back(t).wtype = "DELETE_TUPLE"
    <3>1. r \in Records /\ queue[fd][t] = "S_IX"
      BY <2>1, <2>2, Zenon DEF FreeSlots, Protected
    <3>2. Table!Compatible(queue[fd][t], queue[fd][u])
      BY <2>1, TableObject, Zenon DEF LockInv, CompatibleLocks
    <3>3. queue[fd][u] \in {NoRequest, "SHARED", "INTENTION_EXCLUSIVE", "S_IX"}
      BY <2>1, Zenon DEF TableFirst
    <3>4. queue[fd][u] = NoRequest
      BY <3>1, <3>2, <3>3, TableExcludes, Zenon
    <3>. QED
      BY <2>1, <3>1, <3>4, Zenon DEF TableFirst, Holds
  <2>3. CASE Back(t).wtype # "DELETE_TUPLE"
    <3>1. r \in Records /\ queue[r][t] = "EXCLUSIVE"
      BY <2>1, <2>3, Zenon DEF Protected, WriteRecords
    <3>2. Table!Compatible(queue[r][t], queue[r][u])
      BY <2>1, <3>1, TableObject, Zenon DEF LockInv, CompatibleLocks
    <3>. QED
      BY <3>1, <3>2, Zenon DEF Table!Compatible, Table!None, Holds, NoRequest
  <2>. QED
    BY <2>2, <2>3, Zenon
<1>. QED
  BY <1>1, ServerInvariant, PTL

-----------------------------------------------------------------------------
(* What a step never does. *)

\* A step that is not a scan reads no row, as far as the history tells.
LEMMA OnlyScansRead ==
  ASSUME NEW s \in Sessions, Request(s) \/ Disconnect(s) \/ Step(s), ~Scan(s)
  PROVE  deps' = deps
<1>1. CASE Request(s) \/ Disconnect(s) \/ Refuse(s) \/ Begin(s) \/ Write(s) \/ ScanEnd(s) \/ RowsDone(s)
  BY <1>1, Zenon DEF Request, Disconnect, Refuse, Begin, Write, ScanEnd, RowsDone
<1>2. CASE Commit(s) \/ Abort(s) \/ AbortThrows(s)
  BY <1>2, Zenon DEF Commit, Abort, AbortThrows
<1>3. CASE LockShared(s) \/ LockIX(s) \/ CheckUnique(s) \/ ChooseSlot(s) \/ CopyRecord(s) \/ SetBit(s) \/ InsertEntry(s)
  BY <1>3, Zenon DEF LockShared, LockIX, CheckUnique, ChooseSlot, CopyRecord, SetBit, InsertEntry
<1>4. CASE UpdateIndex(s) \/ UpdateRecord(s) \/ DeleteFromIndex(s) \/ DeleteRecord(s)
  BY <1>4, Zenon DEF UpdateIndex, UpdateRecord, DeleteFromIndex, DeleteRecord
<1>. QED
  BY <1>1, <1>2, <1>3, <1>4, Zenon DEF Step

\* A scan never returns a row of a transaction that may still undo it: whoever wrote it has
\* ended, or gives up its locks with nothing left to undo.
THEOREM NoDirtyReadThm == SafeSpec => NoDirtyRead
<1>. DEFINE Clean(u) == Ended(u) \/ (state[u] = "SHRINKING" /\ write_set[u] = <<>>)
<1>1. ASSUME Inv, NEW s \in Sessions, Scan(s), NEW d \in deps' \ deps PROVE Clean(d[2])
  <2>. PICK t : t = txn_id[s]
    BY Zenon
  <2>. PICK r : r = next_bit(bitmap, thread[s].at)
    BY Zenon
  <2>. PICK u : u = slots[r].by
    BY Zenon
  <2>1. d = <<t, u>> /\ u # t /\ u # INVALID_TXN_ID /\ pc(s) = "scan" /\ HasNext(bitmap, thread[s].at)
    BY <1>1, Zenon DEF Scan
  <2>2. t \in Txns
    BY <1>1, <2>1, NotLatched, Zenon DEF Ending, Idle
  <2>3. bitmap \in SUBSET Records /\ thread[s].at \in Records \cup {NoRid}
    BY <1>1, Zenon DEF Inv, Types, Threads
  <2>4. r \in Records
    BY <2>1, <2>3, NextBitIsFound, Zenon DEF NextBitFinds
  <2>5. u \in Txns /\ Settled(u)
    BY <1>1, <2>1, <2>4, Zenon DEF Inv, Types, Rows, Writers
  <2>6. queue[fd][t] \in {"SHARED", "S_IX"}
    BY <1>1, <2>1, Zenon DEF Inv, SessionInv, Locked
  <2>7. HasEnded(u) \/ state[u] = "SHRINKING"
    BY <1>1, <2>1, <2>2, <2>5, <2>6, ReadIsSettled, Zenon
  <2>8. CASE HasEnded(u)
    BY <2>1, <2>8, Zenon DEF HasEnded, Ended
  <2>9. CASE state[u] = "SHRINKING"
    <3>1. write_set[u] = <<>>
      BY <1>1, <2>5, <2>9, Zenon DEF Inv, Latching, Undo
    <3>. QED
      BY <2>1, <2>9, <3>1, Zenon
  <2>. QED
    BY <2>7, <2>8, <2>9, Zenon
<1>2. ASSUME Inv, Next PROVE \A d \in deps' \ deps : Clean(d[2])
  BY <1>1, <1>2, OnlyScansRead, Zenon DEF Next
<1>. QED
  BY <1>2, ServerInvariant, PTL DEF SafeSpec, NoDirtyRead

\* A transaction that writes has the table locked for writing after each of its steps.
LEMMA WritersHoldTheTable ==
  ASSUME Inv, NEW s \in Sessions, Request(s) \/ Disconnect(s) \/ Step(s), <<slots, bitmap>>' # <<slots, bitmap>>
  PROVE  \E t \in Txns : queue'[fd][t] \in {"INTENTION_EXCLUSIVE", "S_IX"}
<1>. PICK t : t = txn_id[s]
  BY Zenon
<1>1. Types /\ LockInv /\ TableFirst /\ SessionInv(s) /\ thread[s] \in Threads
  BY Zenon DEF Inv, Types
<1>2. ASSUME t \in Txns, Strengthens(t), queue[fd][t] \in {"INTENTION_EXCLUSIVE", "S_IX"}
      PROVE  \E u \in Txns : queue'[fd][u] \in {"INTENTION_EXCLUSIVE", "S_IX"}
  BY <1>2, Zenon DEF Strengthens
<1>3. ASSUME t \in Txns, queue[fd][t] \in {"INTENTION_EXCLUSIVE", "S_IX"}, NEW r \in Records,
             NEW res \in Results, lock_exclusive_on_record(t, r, res)
      PROVE  \E u \in Txns : queue'[fd][u] \in {"INTENTION_EXCLUSIVE", "S_IX"}
  <2>1. RequestReturns(t, r, "EXCLUSIVE", res) /\ Holds(t, fd)
    BY <1>3, Zenon DEF RequestReturns, Holds, NoRequest
  <2>. QED
    BY <1>1, <1>2, <1>3, <2>1, RecordCall, Zenon
<1>4. CASE CopyRecord(s) \/ SetBit(s)
  <2>1. pc(s) \in {"copy", "set"} /\ t \in Txns /\ queue[fd][t] \in {"INTENTION_EXCLUSIVE", "S_IX"}
    BY <1>1, <1>4, Zenon DEF CopyRecord, SetBit, SessionInv, Statement, Locked, Idle
  <2>2. CASE CopyRecord(s)
    <3>1. thread[s].at \in Records
      BY <1>1, <2>2, Zenon DEF CopyRecord, SessionInv, Executor
    <3>. QED
      BY <1>3, <2>1, <2>2, <3>1, Zenon DEF CopyRecord, insert_record_copy
  <2>3. CASE SetBit(s)
    BY <2>1, <2>3, Zenon DEF SetBit, lockVars
  <2>. QED
    BY <1>4, <2>2, <2>3, Zenon
<1>5. CASE UpdateRecord(s) \/ DeleteRecord(s)
  <2>1. pc(s) = "change"
    BY <1>5, Zenon DEF UpdateRecord, DeleteRecord
  <2>2. t \in Txns /\ queue[fd][t] = "S_IX" /\ thread[s].rids # <<>>
    BY <1>1, <2>1, Zenon DEF SessionInv, Statement, Locked, Executor, Idle
  <2>3. Head(thread[s].rids) \in Records
    BY <1>1, <2>2, HeadAndTail, Zenon DEF Threads
  <2>4. \E res \in Results : lock_exclusive_on_record(t, Head(thread[s].rids), res)
    BY <1>5, Zenon DEF UpdateRecord, DeleteRecord, update_record, delete_record
  <2>. QED
    BY <1>3, <2>2, <2>3, <2>4, Zenon
<1>6. CASE Abort(s)
  <2>1. \/ rollback_insert_reset(t) \/ rollback_delete(t) \/ rollback_update(t)
    BY <1>6, Zenon DEF Abort, abort, abort_step, abort_end, rollback_insert, delete_record_load, rollback_done, release, fileVars
  <2>2. t \in Txns
    BY <1>1, <1>6, Zenon DEF Abort, SessionInv, Statement, Idle
  <2>3. latch = t /\ phase \in {"undo", "reset"} /\ write_set[t] # <<>>
    BY <2>1, Zenon DEF Inv, Undo, rollback_insert_reset, rollback_delete, rollback_update, Undoing
  <2>4. queue[fd][t] \in {"INTENTION_EXCLUSIVE", "S_IX"} /\ Back(t).rid \in Records
    BY <2>2, <2>3, UndoLocks, Zenon DEF Protected, WriteRecords
  <2>5. CASE rollback_insert_reset(t)
    BY <2>2, <2>4, <2>5, Zenon DEF rollback_insert_reset, lockVars
  <2>6. CASE rollback_delete(t)
    BY <1>3, <2>2, <2>4, <2>6, Zenon DEF rollback_delete, insert_record
  <2>7. CASE rollback_update(t)
    BY <1>3, <2>2, <2>4, <2>7, Zenon DEF rollback_update, update_record
  <2>. QED
    BY <2>1, <2>5, <2>6, <2>7, Zenon
<1>7. Step(s)
  BY Zenon DEF Request, Disconnect, fileVars
<1>8. ~(Refuse(s) \/ Begin(s) \/ Commit(s) \/ Write(s) \/ ScanEnd(s) \/ LockShared(s) \/ LockIX(s) \/ CheckUnique(s))
  BY Zenon DEF Refuse, Begin, Commit, commit, release, commit_end, Write, ScanEnd, LockShared, LockIX, CheckUnique, fileVars
<1>9. ~(AbortThrows(s) \/ Scan(s) \/ ChooseSlot(s) \/ InsertEntry(s) \/ UpdateIndex(s) \/ DeleteFromIndex(s) \/ RowsDone(s))
  BY Zenon DEF AbortThrows, rollback_insert_throws, Scan, get_record, ChooseSlot, InsertEntry, UpdateIndex, DeleteFromIndex,
         RowsDone, fileVars
<1>. QED
  BY <1>4, <1>5, <1>6, <1>7, <1>8, <1>9, Zenon DEF Step

\* While a transaction has scanned a table, nobody else adds, changes or removes rows of it,
\* neither in a statement nor in the undo of one.
THEOREM ScansAreStableThm == SafeSpec => ScansAreStable
<1>. DEFINE Stable == <<slots, bitmap>>' # <<slots, bitmap>> =>
              \E t \in Txns :
                /\ queue'[fd][t] \in {"INTENTION_EXCLUSIVE", "S_IX"}
                /\ \A u \in Txns \ {t} : queue'[fd][u] \notin {"SHARED", "S_IX"}
<1>1. ASSUME Inv, Inv', Next, <<slots, bitmap>>' # <<slots, bitmap>> PROVE Stable
  <2>1. PICK t \in Txns : queue'[fd][t] \in {"INTENTION_EXCLUSIVE", "S_IX"}
    BY <1>1, WritersHoldTheTable, Zenon DEF Next
  <2>2. ASSUME NEW u \in Txns \ {t} PROVE queue'[fd][u] \notin {"SHARED", "S_IX"}
    <3>1. Table!Compatible(queue'[fd][t], queue'[fd][u])
      BY <1>1, TableObject, Zenon DEF Inv, LockInv, CompatibleLocks
    <3>2. queue'[fd][u] \in {NoRequest, "SHARED", "INTENTION_EXCLUSIVE", "S_IX"}
      BY <1>1, Zenon DEF Inv, TableFirst
    <3>3. queue'[fd][t] = "S_IX" => queue'[fd][u] = NoRequest
      BY <3>1, <3>2, TableExcludes, Zenon
    <3>4. queue'[fd][t] = "INTENTION_EXCLUSIVE" => queue'[fd][u] \notin {"SHARED", "S_IX"}
      BY <3>1, <3>2, TableExcludes, Zenon
    <3>. QED
      BY <2>1, <3>3, <3>4, ZenonT(30) DEF NoRequest
  <2>. QED
    BY <2>1, <2>2, Zenon
<1>2. ASSUME Inv, Inv', [Next]_vars PROVE [Stable]_vars
  BY <1>1, <1>2, Zenon
<1>. QED
  BY <1>2, ServerInvariant, PTL DEF SafeSpec, ScansAreStable

-----------------------------------------------------------------------------
(* What an abort can undo. *)

Named(t, r) == \E i \in 1 .. Len(write_set[t]) : write_set[t][i].rid = r

Inserting(s, t, r) == txn_id[s] = t /\ pc(s) \in {"set", "entry"} /\ thread[s].at = r

\* A row that a running transaction has written, its bit set or not, is in its write set
\* or is being inserted.
Recorded ==
  ~root_latch =>
    \A t \in Txns, r \in Records :
      slots[r].by = t /\ ~HasEnded(t) /\ latch # t =>
        Named(t, r) \/ \E s \in Sessions : Inserting(s, t, r)

\* What an exception leaves latched stays so.
LEMMA LatchStays ==
  ASSUME Inv, NEW s \in Sessions, Request(s) \/ Disconnect(s) \/ Step(s), ~root_latch'
  PROVE  ~root_latch /\ ~AbortThrows(s)
<1>1. ~AbortThrows(s)
  BY Zenon DEF AbortThrows, rollback_insert_throws
<1>2. root_latch' = root_latch \/ root_latch' = TRUE
  <2>1. CASE Request(s) \/ Disconnect(s) \/ Refuse(s) \/ Begin(s) \/ Write(s) \/ ScanEnd(s) \/ RowsDone(s)
    BY <2>1, Zenon DEF Request, Disconnect, Refuse, Begin, Write, ScanEnd, RowsDone, fileVars, ixVars
  <2>2. CASE Commit(s)
    BY <2>2, Zenon DEF Commit, commit, release, commit_end, fileVars, ixVars
  <2>3. CASE Abort(s)
    BY <2>3, Zenon DEF Abort, abort, abort_step, abort_end, release, rollback_insert, rollback_insert_reset,
       delete_record_reset, rollback_delete, rollback_update, rollback_done, fileVars, ixVars
  <2>4. CASE LockShared(s) \/ LockIX(s) \/ CheckUnique(s) \/ ChooseSlot(s) \/ CopyRecord(s) \/ SetBit(s) \/ InsertEntry(s)
    BY <2>4, Zenon DEF LockShared, LockIX, CheckUnique, ChooseSlot, CopyRecord, insert_record_copy, SetBit, InsertEntry,
       fileVars, ixVars
  <2>5. CASE Scan(s) \/ UpdateRecord(s) \/ DeleteRecord(s)
    BY <2>5, Zenon DEF Scan, get_record, UpdateRecord, DeleteRecord, delete_record, fileVars, ixVars
  <2>6. CASE UpdateIndex(s) \/ DeleteFromIndex(s)
    BY <2>6, Zenon DEF UpdateIndex, DeleteFromIndex, RowThrows, ixVars
  <2>. QED
    BY <1>1, <2>1, <2>2, <2>3, <2>4, <2>5, <2>6, Zenon DEF Step
<1>3. root_latch \in BOOLEAN
  BY Zenon DEF Inv, Types
<1>4. ASSUME root_latch PROVE FALSE
  <2>1. root_latch = TRUE
    BY <1>3, <1>4, Zenon
  <2>2. root_latch' = TRUE
    BY <1>2, <2>1, Zenon
  <2>. QED
    BY <2>2, Zenon
<1>. QED
  BY <1>1, <1>4, Zenon

\* Whoever gives latch_ up has ended, unless its rollback throws.
LEMMA LatchGivenUp ==
  ASSUME Inv, NEW s \in Sessions, Request(s) \/ Disconnect(s) \/ Step(s), ~AbortThrows(s),
         NEW t \in Txns, latch = t, latch' # t
  PROVE  HasEnded(t)'
<1>1. state \in [Txns -> TransactionState] /\ latch # INVALID_TXN_ID
  BY TransactionIds, Zenon DEF Inv, LockInv, LockTypeOK
<1>2. CASE Commit(s)
  <2>1. commit_end(txn_id[s]) /\ txn_id[s] = t
    BY <1>1, <1>2, Zenon DEF Commit, commit, Enter, NoWait, release, commit_end
  <2>. QED
    BY <1>1, <2>1, Zenon DEF commit_end, HasEnded
<1>3. CASE Abort(s)
  <2>1. abort_end(txn_id[s]) /\ txn_id[s] = t
    BY <1>1, <1>3, Zenon DEF Abort, abort, Enter, NoWait, abort_step, release, rollback_insert, rollback_insert_reset,
       rollback_delete, rollback_update, rollback_done, abort_end
  <2>. QED
    BY <1>1, <2>1, Zenon DEF abort_end, HasEnded
<1>4. ~(Request(s) \/ Disconnect(s) \/ Refuse(s) \/ Begin(s) \/ Write(s) \/ ScanEnd(s) \/ RowsDone(s))
  BY Zenon DEF Request, SetTransaction, begin, Disconnect, Refuse, Begin, Write, ScanEnd, RowsDone, tmVars
<1>5. ~(LockShared(s) \/ LockIX(s) \/ CheckUnique(s) \/ ChooseSlot(s) \/ CopyRecord(s) \/ SetBit(s) \/ InsertEntry(s))
  BY Zenon DEF LockShared, LockIX, CheckUnique, ChooseSlot, CopyRecord, SetBit, InsertEntry, tmVars
<1>6. ~(Scan(s) \/ UpdateIndex(s) \/ UpdateRecord(s) \/ DeleteFromIndex(s) \/ DeleteRecord(s))
  BY Zenon DEF Scan, UpdateIndex, UpdateRecord, DeleteFromIndex, DeleteRecord, tmVars
<1>. QED
  BY <1>2, <1>3, <1>4, <1>5, <1>6, Zenon DEF Step

\* The log only grows, so that a transaction that has ended has ended for good.
LEMMA EndIsFinal ==
  ASSUME Inv, Inv', NEW s \in Sessions, Request(s) \/ Disconnect(s) \/ Step(s), NEW t \in Txns, HasEnded(t)
  PROVE  HasEnded(t)'
<1>1. log' = log \/ \E e : log' = Append(log, e)
  <2>1. CASE Request(s) \/ Disconnect(s) \/ Refuse(s) \/ Begin(s) \/ Write(s) \/ ScanEnd(s) \/ RowsDone(s)
    BY <2>1, Zenon DEF Request, SetTransaction, begin, Disconnect, Refuse, Begin, Write, ScanEnd, RowsDone, tmVars
  <2>2. CASE Commit(s)
    BY <2>2, Zenon DEF Commit, commit, release, commit_end
  <2>3. CASE Abort(s) \/ AbortThrows(s)
    BY <2>3, Zenon DEF Abort, abort, abort_step, abort_end, release, rollback_insert, rollback_insert_reset,
       rollback_delete, rollback_update, rollback_done, AbortThrows, rollback_insert_throws
  <2>4. CASE LockShared(s) \/ LockIX(s) \/ CheckUnique(s) \/ ChooseSlot(s) \/ CopyRecord(s) \/ SetBit(s) \/ InsertEntry(s)
    BY <2>4, Zenon DEF LockShared, LockIX, CheckUnique, ChooseSlot, CopyRecord, SetBit, InsertEntry, tmVars
  <2>5. CASE Scan(s) \/ UpdateIndex(s) \/ UpdateRecord(s) \/ DeleteFromIndex(s) \/ DeleteRecord(s)
    BY <2>5, Zenon DEF Scan, UpdateIndex, UpdateRecord, DeleteFromIndex, DeleteRecord, tmVars
  <2>. QED
    BY <2>1, <2>2, <2>3, <2>4, <2>5, Zenon DEF Step
<1>2. PICK i \in 1 .. Len(log) : log[i][2] = t
  BY Zenon DEF Inv, Logging
<1>3. log \in Seq({"COMMIT", "ABORT"} \X Txns)
  BY Zenon DEF Inv, Types
<1>4. ASSUME NEW e, log' = Append(log, e) PROVE i \in 1 .. Len(log') /\ log'[i] = log[i]
  BY <1>3, <1>4, SMTT(30)
<1>5. i \in 1 .. Len(log') /\ log'[i] = log[i]
  BY <1>1, <1>4, Zenon
<1>. QED
  BY <1>2, <1>5, Zenon DEF Inv, Logging

\* The write set of a transaction that does not end grows.
LEMMA NamedStays ==
  ASSUME Inv, NEW s \in Sessions, Request(s) \/ Disconnect(s) \/ Step(s), ~AbortThrows(s),
         NEW t \in Txns, latch' # t, NEW r, Named(t, r)
  PROVE  Named(t, r)'
<1>. PICK x : x = txn_id[s]
  BY Zenon
<1>1. write_set \in [Txns -> Seq(WriteRecords)]
  BY Zenon DEF Inv, Types
<1>2. CASE write_set'[t] = write_set[t]
  BY <1>2, Zenon DEF Named
<1>3. ASSUME NEW w, append_write_record(x, w), x = t PROVE Named(t, r)'
  <2>1. write_set'[t] = Append(write_set[t], w) /\ write_set[t] \in Seq(WriteRecords)
    BY <1>1, <1>3, Zenon DEF append_write_record
  <2>2. ASSUME NEW i \in 1 .. Len(write_set[t])
        PROVE  i \in 1 .. Len(write_set'[t]) /\ write_set'[t][i] = write_set[t][i]
    BY <2>1, <2>2, SMTT(30)
  <2>. QED
    BY <2>2, Zenon DEF Named
<1>4. ASSUME NEW w, append_write_record(x, w) PROVE Named(t, r)'
  <2>1. CASE x # t
    BY <1>1, <1>2, <1>4, <2>1, Zenon DEF append_write_record
  <2>. QED
    BY <1>3, <1>4, <2>1, Zenon
<1>5. CASE Request(s) \/ Disconnect(s) \/ Refuse(s) \/ Begin(s) \/ Write(s) \/ ScanEnd(s) \/ RowsDone(s)
  BY <1>2, <1>5, Zenon DEF Request, SetTransaction, begin, Disconnect, Refuse, Begin, Write, ScanEnd, RowsDone, tmVars
<1>6. CASE Commit(s)
  <2>1. write_set' = write_set \/ (write_set' = [write_set EXCEPT ![x] = <<>>] /\ latch' = x)
    BY <1>6, Zenon DEF Commit, commit, Enter, release, commit_end
  <2>. QED
    BY <1>1, <1>2, <2>1, Zenon
<1>7. CASE Abort(s)
  <2>1. write_set' = write_set \/ (PopBack(x) /\ latch' = x)
    BY <1>7, Zenon DEF Abort, abort, abort_step, abort_end, release, rollback_insert, rollback_insert_reset,
       rollback_delete, rollback_update, rollback_done, Undoing
  <2>. QED
    BY <1>1, <1>2, <2>1, Zenon DEF PopBack
<1>8. CASE LockShared(s) \/ LockIX(s) \/ CheckUnique(s) \/ ChooseSlot(s) \/ CopyRecord(s) \/ SetBit(s)
  BY <1>2, <1>8, Zenon DEF LockShared, LockIX, CheckUnique, ChooseSlot, CopyRecord, SetBit, tmVars
<1>9. CASE Scan(s) \/ UpdateIndex(s) \/ DeleteFromIndex(s)
  BY <1>2, <1>9, Zenon DEF Scan, UpdateIndex, DeleteFromIndex, tmVars
<1>10. CASE InsertEntry(s) \/ UpdateRecord(s) \/ DeleteRecord(s)
  <2>1. write_set' = write_set \/ \E w : append_write_record(x, w)
    BY <1>10, Zenon DEF InsertEntry, UpdateRecord, DeleteRecord
  <2>. QED
    BY <1>2, <1>4, <2>1, Zenon
<1>. QED
  BY <1>5, <1>6, <1>7, <1>8, <1>9, <1>10, Zenon DEF Step

\* A step of s leaves the threads of the other sessions and their transactions alone.
LEMMA OthersStay ==
  ASSUME Inv, NEW s \in Sessions, Request(s) \/ Disconnect(s) \/ Step(s), ~AbortThrows(s),
         NEW u \in Sessions \ {s}
  PROVE  thread'[u] = thread[u] /\ txn_id'[u] = txn_id[u]
<1>1. Types
  BY Zenon DEF Inv
<1>2. /\ \A text : Answer(s, text) => thread'[u] = thread[u]
      /\ \A label : Goto(s, label) => thread'[u] = thread[u]
      /\ Throw(s) => thread'[u] = thread[u]
      /\ NextRow(s) => thread'[u] = thread[u]
  BY <1>1, Zenon DEF Types, Answer, Goto, Throw, NextRow
<1>3. CASE Request(s)
  BY <1>1, <1>3, Zenon DEF Request, SetTransaction, Types
<1>4. CASE Disconnect(s) \/ Begin(s) \/ Refuse(s) \/ Write(s) \/ ScanEnd(s) \/ CheckUnique(s) \/ RowsDone(s) \/ SetBit(s)
  BY <1>2, <1>4, Zenon DEF Disconnect, Begin, Refuse, Write, ScanEnd, CheckUnique, RowsDone, SetBit
<1>5. CASE LockShared(s) \/ LockIX(s) \/ CopyRecord(s) \/ UpdateRecord(s) \/ DeleteRecord(s) \/ InsertEntry(s)
  BY <1>2, <1>5, Zenon DEF LockShared, LockIX, CopyRecord, UpdateRecord, DeleteRecord, InsertEntry, AfterLock
<1>6. CASE Commit(s) \/ Abort(s) \/ UpdateIndex(s) \/ DeleteFromIndex(s)
  BY <1>2, <1>6, Zenon DEF Commit, Abort, UpdateIndex, DeleteFromIndex, RowThrows
<1>7. CASE Scan(s)
  <2>. DEFINE r == next_bit(bitmap, thread[s].at)
              on(match) == thread' = [thread EXCEPT ![s].at = r,
                                        ![s].rids = IF match /\ thread[s].kind # "select" THEN Append(@, r) ELSE @]
  <2>1. PICK res \in Results, match \in BOOLEAN : AfterLock(s, res, on(match))
    BY <1>7, ZenonT(30) DEF Scan
  <2>2. CASE Throw(s)
    BY <1>2, <1>7, <2>2, Zenon DEF Scan
  <2>3. CASE on(match)
    BY <1>1, <1>7, <2>3, Zenon DEF Types, Scan
  <2>. QED
    BY <2>1, <2>2, <2>3, Zenon DEF AfterLock
<1>8. CASE ChooseSlot(s)
  <2>1. CASE Answer(s, "failure")
    BY <1>2, <1>8, <2>1, Zenon DEF ChooseSlot
  <2>2. CASE thread' = [thread EXCEPT ![s].pc = "copy", ![s].at = next_bit(FreeSlots, NoRid)]
    BY <1>1, <1>8, <2>2, Zenon DEF Types, ChooseSlot
  <2>. QED
    BY <1>8, <2>1, <2>2, Zenon DEF ChooseSlot
<1>. QED
  BY <1>3, <1>4, <1>5, <1>6, <1>7, <1>8, Zenon DEF Step

\* The record that is appended is there.
LEMMA AppendedNames ==
  ASSUME Inv, NEW t \in Txns, NEW w, append_write_record(t, w)
  PROVE  Named(t, w.rid)'
<1>1. write_set[t] \in Seq(WriteRecords) /\ write_set'[t] = Append(write_set[t], w)
  BY Zenon DEF Inv, Types, append_write_record
<1>2. Len(write_set'[t]) \in 1 .. Len(write_set'[t]) /\ write_set'[t][Len(write_set'[t])] = w
  BY <1>1, SMTT(30)
<1>. QED
  BY <1>2, Zenon DEF Named

\* The row of an INSERT is recorded in the end.
LEMMA InsertingStays ==
  ASSUME Inv, NEW s \in Sessions, Request(s) \/ Disconnect(s) \/ Step(s), ~AbortThrows(s),
         NEW u \in Sessions, NEW t \in Txns, NEW r, Inserting(u, t, r)
  PROVE  Inserting(u, t, r)' \/ Named(t, r)'
<1>1. CASE u # s
  BY <1>1, OthersStay, Zenon DEF Inserting, pc
<1>2. CASE u = s /\ pc(s) = "set"
  <2>1. SetBit(s)
    <3>1. ~(Request(s) \/ Disconnect(s) \/ Refuse(s) \/ Begin(s) \/ Write(s) \/ ScanEnd(s) \/ RowsDone(s) \/ Commit(s) \/ Abort(s))
      BY <1>2, Zenon DEF Request, Disconnect, Refuse, Begin, Write, ScanEnd, RowsDone, Commit, Abort
    <3>2. ~(LockShared(s) \/ LockIX(s) \/ CheckUnique(s) \/ ChooseSlot(s) \/ CopyRecord(s) \/ InsertEntry(s) \/ Scan(s))
      BY <1>2, Zenon DEF LockShared, LockIX, CheckUnique, ChooseSlot, CopyRecord, InsertEntry, Scan
    <3>3. ~(UpdateIndex(s) \/ UpdateRecord(s) \/ DeleteFromIndex(s) \/ DeleteRecord(s))
      BY <1>2, Zenon DEF UpdateIndex, UpdateRecord, DeleteFromIndex, DeleteRecord
    <3>. QED
      BY <3>1, <3>2, <3>3, Zenon DEF Step
  <2>2. "entry" \in Labels /\ Types /\ Goto(s, "entry") /\ txn_id' = txn_id
    BY <2>1, Zenon DEF SetBit, Labels, Running, Inv
  <2>. QED
    BY <1>2, <2>2, AfterGoto, Zenon DEF Inserting
<1>3. CASE u = s /\ pc(s) = "entry"
  <2>1. InsertEntry(s)
    <3>1. ~(Request(s) \/ Disconnect(s) \/ Refuse(s) \/ Begin(s) \/ Write(s) \/ ScanEnd(s) \/ RowsDone(s) \/ Commit(s) \/ Abort(s))
      BY <1>3, Zenon DEF Request, Disconnect, Refuse, Begin, Write, ScanEnd, RowsDone, Commit, Abort
    <3>2. ~(LockShared(s) \/ LockIX(s) \/ CheckUnique(s) \/ ChooseSlot(s) \/ CopyRecord(s) \/ SetBit(s) \/ Scan(s))
      BY <1>3, Zenon DEF LockShared, LockIX, CheckUnique, ChooseSlot, CopyRecord, SetBit, Scan
    <3>3. ~(UpdateIndex(s) \/ UpdateRecord(s) \/ DeleteFromIndex(s) \/ DeleteRecord(s))
      BY <1>3, Zenon DEF UpdateIndex, UpdateRecord, DeleteFromIndex, DeleteRecord
    <3>. QED
      BY <3>1, <3>2, <3>3, Zenon DEF Step
  <2>2. \E w : w.rid = r /\ append_write_record(t, w)
    BY <1>3, <2>1, Zenon DEF InsertEntry, Inserting, WriteRecord
  <2>. QED
    BY <2>2, AppendedNames, Zenon
<1>. QED
  BY <1>1, <1>2, <1>3, Zenon DEF Inserting

\* The writer of a row.
LEMMA RowBy ==
  ASSUME NEW k, NEW t PROVE Row(k, t).by = t
BY Zenon DEF Row

\* A row that is new in its slot is recorded or being inserted, or was put back by the
\* rollback of a transaction that has the table alone.
LEMMA NewRowIsRecorded ==
  ASSUME Inv, NEW s \in Sessions, Request(s) \/ Disconnect(s) \/ Step(s), ~AbortThrows(s),
         NEW t \in Txns, NEW r \in Records, slots'[r] # slots[r], slots'[r].by = t, ~HasEnded(t), latch # t
  PROVE  Named(t, r)' \/ \E u \in Sessions : Inserting(u, t, r)'
<1>. PICK x : x = txn_id[s]
  BY Zenon
<1>0. Types /\ SessionInv(s) /\ thread[s] \in Threads /\ slots \in [Records -> Rows]
  BY Zenon DEF Inv, Types
<1>1. ~(Request(s) \/ Disconnect(s) \/ Refuse(s) \/ Begin(s) \/ Write(s) \/ ScanEnd(s) \/ RowsDone(s))
  BY Zenon DEF Request, Disconnect, Refuse, Begin, Write, ScanEnd, RowsDone, fileVars
<1>2. ~(LockShared(s) \/ LockIX(s) \/ CheckUnique(s) \/ ChooseSlot(s) \/ SetBit(s) \/ InsertEntry(s))
  BY Zenon DEF LockShared, LockIX, CheckUnique, ChooseSlot, SetBit, InsertEntry, fileVars
<1>3. ~(Commit(s) \/ Scan(s) \/ UpdateIndex(s) \/ DeleteFromIndex(s) \/ DeleteRecord(s))
  BY Zenon DEF Commit, commit, release, commit_end, Scan, get_record, UpdateIndex, DeleteFromIndex, DeleteRecord,
     delete_record, fileVars
<1>4. CASE CopyRecord(s)
  <2>1. slots' = slots \/ (slots' = [slots EXCEPT ![thread[s].at] = Row(thread[s].key, x)] /\ Goto(s, "set"))
    BY <1>4, Zenon DEF CopyRecord, insert_record_copy, AfterLock
  <2>2. slots' = [slots EXCEPT ![thread[s].at] = Row(thread[s].key, x)] /\ Goto(s, "set")
    BY <2>1, Zenon
  <2>4. r = thread[s].at
    BY <1>0, <2>2, Zenon
  <2>5. slots'[r] = Row(thread[s].key, x)
    BY <1>0, <2>2, <2>4, Zenon
  <2>8. Row(thread[s].key, x).by = x
    BY RowBy, Zenon
  <2>6. t = x
    BY <2>5, <2>8, Zenon
  <2>7. txn_id' = txn_id
    BY <1>4, Zenon DEF CopyRecord
  <2>3. "set" \in Labels
    BY Zenon DEF Labels, Running
  <2>. QED
    BY <1>0, <2>2, <2>3, <2>4, <2>6, <2>7, AfterGoto, Zenon DEF Inserting
<1>5. CASE UpdateRecord(s)
  <2>. PICK q : q = Head(thread[s].rids)
    BY Zenon
  <2>. PICK w : w = WriteRecord("UPDATE_TUPLE", q, slots[q])
    BY Zenon
  <2>1. slots' = slots \/ (slots' = [slots EXCEPT ![q] = Row(thread[s].key, x)] /\ append_write_record(x, w))
    BY <1>5, Zenon DEF UpdateRecord, update_record
  <2>2. slots' = [slots EXCEPT ![q] = Row(thread[s].key, x)] /\ append_write_record(x, w)
    BY <2>1, Zenon
  <2>3. r = q
    BY <1>0, <2>2, Zenon
  <2>4. slots'[r] = Row(thread[s].key, x)
    BY <1>0, <2>2, <2>3, Zenon
  <2>5. t = x /\ w.rid = q
    BY <2>4, RowBy, Zenon DEF WriteRecord
  <2>. QED
    BY <2>2, <2>3, <2>5, AppendedNames, Zenon
<1>6. CASE Abort(s)
  <2>1. \/ rollback_delete(x) \/ rollback_update(x)
    BY <1>6, Zenon DEF Abort, abort, abort_step, abort_end, rollback_insert, rollback_insert_reset, delete_record_load,
       delete_record_reset, rollback_done, release, fileVars
  <2>2. x \in Txns
    BY <1>0, <1>6, Zenon DEF Abort, SessionInv, Statement, Idle
  <2>3. latch = x /\ phase = "undo" /\ write_set[x] # <<>> /\ Back(x).wtype # "INSERT_TUPLE"
    BY <2>1, Zenon DEF rollback_delete, rollback_update, Undoing
  <2>4. queue[fd][x] = "S_IX" /\ Settled(Back(x).record.by)
    BY <2>2, <2>3, UndoLocks, Zenon DEF Protected
  <2>5. \E q : slots' = [slots EXCEPT ![q] = Back(x).record]
    BY <2>1, Zenon DEF rollback_delete, insert_record, rollback_update, update_record
  <2>6. Back(x).record.by = t
    BY <1>0, <2>5, Zenon
  <2>7. state[t] = "SHRINKING"
    BY <2>2, <2>3, <2>4, <2>6, ReadIsSettled, Zenon
  <2>8. latch = t
    BY <2>7, Zenon DEF Inv, Latching, Releasing
  <2>. QED
    BY <2>8, Zenon
<1>. QED
  BY <1>1, <1>2, <1>3, <1>4, <1>5, <1>6, Zenon DEF Step

\* A step keeps what the writes of the running transactions are recorded in.
LEMMA RecordedStep ==
  ASSUME Inv, Inv', Recorded, NEW s \in Sessions, Request(s) \/ Disconnect(s) \/ Step(s)
  PROVE  Recorded'
<1>. SUFFICES ASSUME ~root_latch', NEW t \in Txns, NEW r \in Records,
                     slots'[r].by = t, ~HasEnded(t)', latch' # t
              PROVE  Named(t, r)' \/ \E u \in Sessions : Inserting(u, t, r)'
  BY Zenon DEF Recorded
<1>1. ~root_latch /\ ~AbortThrows(s)
  BY LatchStays, Zenon
<1>2. latch # t /\ ~HasEnded(t)
  BY <1>1, LatchGivenUp, EndIsFinal, Zenon
<1>3. CASE slots'[r] # slots[r]
  BY <1>1, <1>2, <1>3, NewRowIsRecorded, Zenon
<1>4. CASE slots'[r] = slots[r]
  <2>1. Named(t, r) \/ \E u \in Sessions : Inserting(u, t, r)
    BY <1>1, <1>2, <1>4, Zenon DEF Recorded
  <2>2. ASSUME Named(t, r) PROVE Named(t, r)'
    BY <1>1, <2>2, NamedStays, Zenon
  <2>3. ASSUME NEW u \in Sessions, Inserting(u, t, r) PROVE Inserting(u, t, r)' \/ Named(t, r)'
    BY <1>1, <2>3, InsertingStays, Zenon
  <2>. QED
    BY <2>1, <2>2, <2>3, Zenon
<1>. QED
  BY <1>3, <1>4, Zenon

\* Every row that a running transaction has written is in its write set, or its INSERT is
\* not done: an abort reaches all that the statements have written, those that failed
\* half way included.
THEOREM WritesAreRecordedThm == SafeSpec => []WritesAreRecorded
<1>1. Init => Recorded
  <2>1. ASSUME Init PROVE \A r \in Records : slots[r].by = INVALID_TXN_ID
    BY <2>1, Zenon DEF Init, FileInit, Row
  <2>. QED
    BY <2>1, TransactionIds, Zenon DEF Recorded
<1>2. Inv /\ Inv' /\ Recorded /\ [Next]_vars => Recorded'
  <2>1. ASSUME Inv, Inv', Recorded, Next PROVE Recorded'
    BY <2>1, RecordedStep, Zenon DEF Next
  <2>2. ASSUME Recorded, UNCHANGED vars PROVE Recorded'
    <3>1. UNCHANGED <<root_latch, slots, state, latch, write_set, txn_id, thread>>
      BY <2>2, Zenon DEF vars, serverVars, fileVars, ixVars, tmVars, lockVars
    <3>. QED
      BY <2>2, <3>1, SMTT(30) DEF Recorded, Named, Inserting, HasEnded, pc
  <2>. QED
    BY <2>1, <2>2, Zenon
<1>3. Inv /\ Recorded => WritesAreRecorded
  <2>. SUFFICES ASSUME Inv, Recorded, NEW r \in bitmap, NEW t, t = slots[r].by,
                       ~Ended(t), latch # t, ~root_latch
                PROVE  Named(t, r) \/ \E s \in Sessions : Inserting(s, t, r)
    BY Zenon DEF WritesAreRecorded, Named, Inserting
  <2>1. r \in Records
    BY Zenon DEF Inv, Types
  <2>2. t \in Txns /\ ~HasEnded(t)
    BY Zenon DEF Ended, HasEnded
  <2>. QED
    BY <2>1, <2>2, Zenon DEF Recorded
<1>. QED
  BY <1>1, <1>2, <1>3, ServerInvariant, PTL DEF SafeSpec

=============================================================================
