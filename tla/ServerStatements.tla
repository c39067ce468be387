-------------------------- MODULE ServerStatements --------------------------
(***************************************************************************)
(* The steps of the executors, and of a session between two statements,    *)
(* preserve the server's invariant.  A transaction only acquires locks in  *)
(* them, and each call of the lock manager is one of its own steps.        *)
(***************************************************************************)
EXTENDS ServerInv

-----------------------------------------------------------------------------
(* Steps of a transaction that acquires locks, or leaves the locks alone. *)

\* The table is an object of the lock manager, and no record.
LEMMA TableObject ==
  /\ fd \in LockDataId /\ fd \notin Records /\ Records \subseteq LockDataId /\ fd \in Tables
  /\ \A o \in LockDataId : o = fd \/ o \in Records
  BY OneTable, TablesAreNotRecords, Zenon DEF LockDataId

\* Transactions have numbers, and INVALID_TXN_ID is none of them.
LEMMA TransactionIds ==
  Txns \subseteq Nat /\ INVALID_TXN_ID \notin Txns /\ INVALID_TXN_ID \in Int /\ INVALID_TXN_ID < 0
  BY TxnIds DEF INVALID_TXN_ID

\* The first element of a list and the others.
LEMMA HeadAndTail ==
  ASSUME NEW Elem, NEW list \in Seq(Elem), list # <<>>
  PROVE  Head(list) \in Elem /\ Tail(list) \in Seq(Elem)
  OBVIOUS

\* The list with one more element.
LEMMA Appended ==
  ASSUME NEW Elem, NEW list \in Seq(Elem), NEW e \in Elem
  PROVE  Append(list, e) \in Seq(Elem)
  OBVIOUS

\* No other transaction is concerned, and what t has locked remains locked, in a mode that
\* covers the one before.  A transaction that may not acquire locks acquires none.
Strengthens(t) ==
  /\ \A u \in Txns \ {t} : state'[u] = state[u] /\ \A o \in LockDataId : queue'[o][u] = queue[o][u]
  /\ ~Active(t) => state'[t] = state[t] /\ \A o \in LockDataId : queue'[o][t] = queue[o][t]
  /\ Active(t) => Active(t)'
  /\ \A r \in Records :
       /\ Holds(t, r) => Holds(t, r)'
       /\ queue[r][t] = "EXCLUSIVE" => queue'[r][t] = "EXCLUSIVE"
       /\ Holds(t, r)' => Holds(t, r) \/ Holds(t, fd)'
  /\ queue'[fd][t] \in {NoRequest, "SHARED", "INTENTION_EXCLUSIVE", "S_IX"}
  /\ \A modes \in {{"SHARED", "S_IX"}, {"INTENTION_EXCLUSIVE", "S_IX"}, {"S_IX"}} :
       queue[fd][t] \in modes => queue'[fd][t] \in modes

\* What a request does to the queues.
LEMMA RequestEffect ==
  ASSUME LockInv, NEW t \in Txns, NEW o \in LockDataId, NEW mode \in LockMode, NEW res,
         LockRequest(t, o, mode, res)
  PROVE  /\ \A u \in Txns, p \in LockDataId : u # t \/ p # o => queue'[p][u] = queue[p][u]
         /\ \A u \in Txns \ {t} : state'[u] = state[u]
         /\ ~Active(t) => state'[t] = state[t] /\ queue'[o][t] = queue[o][t]
         /\ Active(t) => state'[t] = "GROWING"
         /\ queue'[o][t] \in {queue[o][t], Table!Supremum(queue[o][t], mode)}
         /\ res = "abort" => queue'[o][t] = queue[o][t]
         /\ Active(t) /\ res # "abort" => queue'[o][t] = Table!Supremum(queue[o][t], mode)
<1>1. state \in [Txns -> TransactionState] /\ queue \in [LockDataId -> [Txns -> Requests]]
  BY Zenon DEF LockInv, LockTypeOK, Requests
<1>. QED
  BY <1>1 DEF LockRequest, check_lock, check_lock_fails, lockVars, Active, TransactionState

\* A step that leaves the locks alone.
LEMMA NoLockCall ==
  ASSUME LockInv, TableFirst, NEW t \in Txns, UNCHANGED <<state, queue>>
  PROVE  Strengthens(t)
<1>1. queue[fd][t] \in {NoRequest, "SHARED", "INTENTION_EXCLUSIVE", "S_IX"}
  BY Zenon DEF TableFirst
<1>. QED
  BY <1>1, Zenon DEF Strengthens, Active, Holds

\* A request for a lock on a record by a transaction that has the table locked.
LEMMA RecordCall ==
  ASSUME LockInv, TableFirst, NEW t \in Txns, NEW r \in Records, NEW res, Holds(t, fd),
         NEW mode \in {"SHARED", "EXCLUSIVE"}, RequestReturns(t, r, mode, res)
  PROVE  /\ Strengthens(t)
         /\ Active(t) /\ res # "abort" /\ mode = "EXCLUSIVE" => queue'[r][t] = "EXCLUSIVE"
<1>. USE TableObject
<1>1. r \in LockDataId /\ mode \in LockMode /\ queue[r][t] \in {NoRequest, "SHARED", "EXCLUSIVE"}
  BY QueueModes, Zenon DEF LockMode
<1>2. LockRequest(t, r, mode, res)
  BY <1>1, CallIsRequest, Zenon
<1>3. Table!Supremum(queue[r][t], mode) = IF "EXCLUSIVE" \in {queue[r][t], mode} THEN "EXCLUSIVE" ELSE "SHARED"
  BY <1>1, Zenon DEF Table!Supremum, Table!Covers, Table!None, NoRequest
<1>4. queue[fd][t] \in {NoRequest, "SHARED", "INTENTION_EXCLUSIVE", "S_IX"}
  BY Zenon DEF TableFirst
<1>5. queue'[fd][t] = queue[fd][t] /\ \A q \in Records : q # r => queue'[q][t] = queue[q][t]
  BY <1>1, <1>2, RequestEffect, SMTT(30)
<1>6. queue'[r][t] \in {queue[r][t], IF "EXCLUSIVE" \in {queue[r][t], mode} THEN "EXCLUSIVE" ELSE "SHARED"}
  BY <1>1, <1>2, <1>3, RequestEffect, SMTT(30)
<1>7. \A u \in Txns \ {t} : state'[u] = state[u] /\ \A o \in LockDataId : queue'[o][u] = queue[o][u]
  BY <1>1, <1>2, RequestEffect, SMTT(30)
<1>8. /\ ~Active(t) => state'[t] = state[t] /\ \A o \in LockDataId : queue'[o][t] = queue[o][t]
      /\ Active(t) => state'[t] = "GROWING"
      /\ Active(t) /\ res # "abort" => queue'[r][t] = Table!Supremum(queue[r][t], mode)
  BY <1>1, <1>2, RequestEffect
<1>9. \A q \in Records :
        /\ Holds(t, q) => Holds(t, q)'
        /\ queue[q][t] = "EXCLUSIVE" => queue'[q][t] = "EXCLUSIVE"
        /\ Holds(t, q)' => Holds(t, q) \/ Holds(t, fd)'
  BY <1>5, <1>6, Zenon DEF Holds, NoRequest
<1>10. Active(t) => Active(t)'
  BY <1>8, Zenon DEF Active
<1>. QED
  BY <1>3, <1>4, <1>5, <1>7, <1>8, <1>9, <1>10, Zenon DEF Strengthens

\* An exclusive lock that is granted.
LEMMA ExclusiveCall ==
  ASSUME LockInv, TableFirst, NEW t \in Txns, NEW r \in Records, NEW res, Holds(t, fd), Active(t),
         RequestReturns(t, r, "EXCLUSIVE", res), res # "abort"
  PROVE  queue'[r][t] = "EXCLUSIVE"
<1>. QED
  BY RecordCall, Zenon

\* A request for S or IX on the table.
LEMMA TableCall ==
  ASSUME LockInv, TableFirst, NEW t \in Txns, NEW res,
         NEW mode \in {"SHARED", "INTENTION_EXCLUSIVE"}, RequestReturns(t, fd, mode, res)
  PROVE  /\ Strengthens(t)
         /\ Active(t) /\ res # "abort" => queue'[fd][t] \in {mode, "S_IX"}
         /\ Active(t) /\ res # "abort" /\ queue[fd][t] \in {"SHARED", "S_IX"} /\ mode = "INTENTION_EXCLUSIVE"
              => queue'[fd][t] = "S_IX"
<1>. USE TableObject
<1>1. mode \in LockMode /\ queue[fd][t] \in {NoRequest, "SHARED", "INTENTION_EXCLUSIVE", "S_IX"}
  BY Zenon DEF LockMode, TableFirst
<1>2. LockRequest(t, fd, mode, res)
  BY <1>1, CallIsRequest, Zenon
<1>3. Table!Supremum(queue[fd][t], mode) = IF queue[fd][t] \in {NoRequest, mode} THEN mode ELSE "S_IX"
  BY <1>1, Zenon DEF Table!Supremum, Table!Covers, Table!None, NoRequest
<1>4. \A q \in Records : queue'[q][t] = queue[q][t]
  BY <1>1, <1>2, RequestEffect, SMTT(30)
<1>5. /\ queue'[fd][t] \in {queue[fd][t], IF queue[fd][t] \in {NoRequest, mode} THEN mode ELSE "S_IX"}
      /\ Active(t) /\ res # "abort" => queue'[fd][t] = IF queue[fd][t] \in {NoRequest, mode} THEN mode ELSE "S_IX"
  BY <1>1, <1>2, <1>3, RequestEffect, SMTT(30)
<1>6. \A u \in Txns \ {t} : state'[u] = state[u] /\ \A o \in LockDataId : queue'[o][u] = queue[o][u]
  BY <1>1, <1>2, RequestEffect, SMTT(30)
<1>7. /\ ~Active(t) => state'[t] = state[t] /\ \A o \in LockDataId : queue'[o][t] = queue[o][t]
      /\ Active(t) => state'[t] = "GROWING"
  BY <1>1, <1>2, RequestEffect
<1>8. Active(t) => Active(t)'
  BY <1>7, Zenon DEF Active
<1>9. \A modes \in {{"SHARED", "S_IX"}, {"INTENTION_EXCLUSIVE", "S_IX"}, {"S_IX"}} :
        queue[fd][t] \in modes => queue'[fd][t] \in modes
  BY <1>1, <1>5, Zenon DEF NoRequest
<1>10. queue'[fd][t] \in {NoRequest, "SHARED", "INTENTION_EXCLUSIVE", "S_IX"}
  BY <1>1, <1>5, Zenon DEF NoRequest
<1>11. Strengthens(t)
  BY <1>4, <1>6, <1>7, <1>8, <1>9, <1>10, Zenon DEF Strengthens, Holds
<1>. QED
  BY <1>1, <1>5, <1>11, Zenon DEF NoRequest

-----------------------------------------------------------------------------
(* What such a step keeps. *)

\* The locks of a transaction that gives none up remain in order.
LEMMA LocksKept ==
  ASSUME Inv, NEW t \in Txns, Strengthens(t), ~Releasing(t),
         \A u \in Txns : Releasing(u)' <=> Releasing(u), todo' = todo
  PROVE  TableFirst' /\ Release'
<1>. USE TableObject
<1>1. TableFirst /\ Release
  BY Zenon DEF Inv
<1>2. TableFirst'
  <2>. SUFFICES ASSUME NEW u \in Txns
                PROVE  /\ queue'[fd][u] \in {NoRequest, "SHARED", "INTENTION_EXCLUSIVE", "S_IX"}
                       /\ ~Releasing(u)' => \A r \in Records : Holds(u, r)' => Holds(u, fd)'
    BY Zenon DEF TableFirst
  <2>1. CASE u # t
    BY <1>1, <2>1 DEF TableFirst, Strengthens, Holds
  <2>2. CASE u = t
    <3>1. Holds(t, fd) => Holds(t, fd)'
      BY <1>1, Zenon DEF TableFirst, Strengthens, Holds, NoRequest
    <3>. QED
      BY <1>1, <2>2, <3>1, Zenon DEF TableFirst, Strengthens
  <2>. QED
    BY <2>1, <2>2, Zenon
<1>3. Release'
  <2>. SUFFICES ASSUME NEW u \in Txns, NEW o \in LockDataId, Holds(u, o)'
                PROVE  ~HasEnded(u)' /\ (Releasing(u)' => o \in todo')
    BY Zenon DEF Release
  <2>1. CASE u # t
    BY <1>1, <2>1, Zenon DEF Release, Strengthens, Holds, HasEnded
  <2>2. CASE u = t /\ ~Active(t)
    BY <1>1, <2>2, Zenon DEF Release, Strengthens, Holds, HasEnded
  <2>3. CASE u = t /\ Active(t)
    BY <1>1, <2>3, Zenon DEF Strengthens, Active, HasEnded
  <2>. QED
    BY <2>1, <2>2, <2>3, Zenon
<1>. QED
  BY <1>2, <1>3, Zenon

\* A row remains settled.
LEMMA SettledKept ==
  ASSUME LockInv, NEW t \in Txns, Strengthens(t), NEW u, Settled(u)
  PROVE  Settled(u)'
<1>1. CASE u \notin Txns
  BY <1>1, Zenon DEF Settled
<1>2. CASE u \in Txns \ {t}
  BY <1>2, TableObject, Zenon DEF Settled, Strengthens, HasEnded
<1>3. CASE u = t /\ ~Active(t)
  BY <1>3, TableObject, Zenon DEF Settled, Strengthens, HasEnded
<1>4. CASE u = t /\ Active(t)
  <2>1. queue[fd][t] \in {"INTENTION_EXCLUSIVE", "S_IX"}
    BY <1>4, Zenon DEF Settled, HasEnded, Active
  <2>2. queue'[fd][t] \in {"INTENTION_EXCLUSIVE", "S_IX"}
    BY <2>1, Zenon DEF Strengthens
  <2>. QED
    BY <1>4, <2>2, Zenon DEF Settled
<1>. QED
  BY <1>1, <1>2, <1>3, <1>4, Zenon

\* A write remains protected.
LEMMA ProtectedKept ==
  ASSUME LockInv, NEW t \in Txns, Strengthens(t), NEW u \in Txns, NEW w \in WriteRecords, Protected(u, w)
  PROVE  Protected(u, w)'
<1>1. w.rid \in Records
  BY Zenon DEF WriteRecords
<1>2. CASE u # t
  BY <1>1, <1>2, TableObject, Zenon DEF Protected, Strengthens
<1>3. CASE u = t
  BY <1>1, <1>3, Zenon DEF Protected, Strengthens
<1>. QED
  BY <1>2, <1>3, Zenon

\* The write sets, when t has added protected writes to its own or dropped some.
LEMMA WritesKept ==
  ASSUME Inv, NEW t \in Txns, Strengthens(t),
         \A u \in Txns : Releasing(u)' <=> Releasing(u),
         \A u \in Txns \ {t} : write_set'[u] = write_set[u],
         HasEnded(t) \/ Releasing(t) => write_set'[t] = <<>>,
         \A i \in 1 .. Len(write_set'[t]) :
           \/ i \in 1 .. Len(write_set[t]) /\ write_set'[t][i] = write_set[t][i]
           \/ Protected(t, write_set[t][i])'
  PROVE  /\ \A u \in Txns : HasEnded(u)' \/ Releasing(u)' => write_set'[u] = <<>>
         /\ \A u \in Txns : \A i \in 1 .. Len(write_set'[u]) : Protected(u, write_set[u][i])'
<1>1. /\ \A u \in Txns : HasEnded(u) \/ Releasing(u) => write_set[u] = <<>>
      /\ \A u \in Txns : \A i \in 1 .. Len(write_set[u]) : Protected(u, write_set[u][i])
      /\ \A u \in Txns : write_set[u] \in Seq(WriteRecords)
  BY Zenon DEF Inv, Undo, Types
<1>2. \A u \in Txns : \A i \in 1 .. Len(write_set[u]) : write_set[u][i] \in WriteRecords
  BY <1>1
<1>3. ASSUME NEW u \in Txns PROVE HasEnded(u)' => HasEnded(u)
  BY Zenon DEF Strengthens, HasEnded, Active
<1>4. \A u \in Txns : HasEnded(u)' \/ Releasing(u)' => write_set'[u] = <<>>
  BY <1>1, <1>3, Zenon
<1>5. ASSUME NEW u \in Txns, NEW i \in 1 .. Len(write_set'[u]),
             i \in 1 .. Len(write_set[u]), write_set'[u][i] = write_set[u][i]
      PROVE  Protected(u, write_set[u][i])'
  <2>. DEFINE w == write_set[u][i]
  <2>1. Protected(u, w) /\ w \in WriteRecords
    BY <1>1, <1>2, <1>5, Zenon
  <2>2. LockInv
    BY Zenon DEF Inv
  <2>3. \A v \in WriteRecords : Protected(u, v) => Protected(u, v)'
    BY <2>2, ProtectedKept, Zenon
  <2>. QED
    BY <1>5, <2>1, <2>3, Zenon DEF Protected
<1>. QED
  BY <1>4, <1>5, Zenon

-----------------------------------------------------------------------------
(* A step of one session and the others. *)

\* Another session notices nothing of a step of the transaction t.
LEMMA OthersKept ==
  ASSUME Inv, NEW t \in Txns, NEW r \in Sessions, txn_id[r] # t,
         thread'[r] = thread[r], txn_id'[r] = txn_id[r],
         \A u \in Txns \ {t} : /\ state'[u] = state[u] /\ txn_mode'[u] = txn_mode[u]
                               /\ \A o \in LockDataId : queue'[o][u] = queue[o][u]
  PROVE  SessionInv(r)'
<1>1. SessionInv(r) /\ thread[r] \in Threads /\ txn_id[r] \in Txns \cup {INVALID_TXN_ID}
  BY Zenon DEF Inv, Types
<1>2. Statement(r)'
  BY <1>1, Zenon DEF SessionInv, Statement, pc, HasEnded, Active, Running, Idle
<1>3. Executor(r)'
  BY <1>1, Zenon DEF SessionInv, Executor, pc
<1>4. Locked(r)'
  <2>1. CASE txn_id[r] \in Txns
    BY <1>1, <2>1, TableObject DEF SessionInv, Locked, Executor, pc
  <2>2. CASE txn_id[r] \notin Txns
    <3>1. pc(r) \in Idle
      BY <1>1, <2>2, Zenon DEF SessionInv, Statement
    <3>. QED
      BY <3>1, Zenon DEF Locked, Idle, pc
  <2>. QED
    BY <2>1, <2>2, Zenon
<1>. QED
  BY <1>2, <1>3, <1>4, Zenon DEF SessionInv

\* The transaction of a thread that is not committing or aborting does not hold latch_.
LEMMA NotLatched ==
  ASSUME Inv, NEW s \in Sessions, pc(s) \notin Ending \cup Idle
  PROVE  txn_id[s] \in Txns /\ latch # txn_id[s] /\ ~Releasing(txn_id[s])
<1>1. txn_id[s] \in Txns
  BY Zenon DEF Inv, SessionInv, Statement
<1>2. txn_id[s] # INVALID_TXN_ID
  BY <1>1, TransactionIds, Zenon
<1>3. latch # txn_id[s]
  BY <1>2, Zenon DEF Inv, Latching, Ownership, Ending
<1>. QED
  BY <1>1, <1>3, Zenon DEF Releasing

\* The transactions of two sessions differ.
LEMMA OwnTransaction ==
  ASSUME Inv, NEW s \in Sessions, NEW r \in Sessions, r # s, txn_id[s] \in Txns
  PROVE  txn_id[r] # txn_id[s] /\ txn_id[s] < next_txn_id /\ txn_id[s] # INVALID_TXN_ID
  BY TransactionIds, Zenon DEF Inv, Ownership

\* What every step of a statement leaves alone.
StatementStep(s, t) ==
  /\ t = txn_id[s]
  /\ [LockNext]_lockVars
  /\ pc(s) \notin Ending \cup Idle
  /\ Strengthens(t)
  /\ UNCHANGED <<txn_id, next_txn_id, latch, phase, todo, log>>
  /\ \A r \in Sessions \ {s} : thread'[r] = thread[r] /\ reply'[r] = reply[r]
  /\ \A u \in Txns \ {t} : txn_mode'[u] = txn_mode[u] /\ write_set'[u] = write_set[u]

\* The control part of the invariant and the locks after such a step.
LEMMA StatementControl ==
  ASSUME Inv, NEW s \in Sessions, NEW t, StatementStep(s, t), Types', SessionInv(s)'
  PROVE  /\ Ownership' /\ Latching' /\ TableFirst' /\ Release'
         /\ \A r \in Sessions : SessionInv(r)'
<1>1. t \in Txns /\ latch # t /\ ~Releasing(t) /\ t = txn_id[s]
  BY NotLatched, Zenon DEF StatementStep
<1>2. Strengthens(t) /\ UNCHANGED <<txn_id, next_txn_id, latch, phase, todo, log>>
  BY Zenon DEF StatementStep
<1>3. t < next_txn_id /\ t # INVALID_TXN_ID /\ \A r \in Sessions \ {s} : txn_id[r] # t
  BY <1>1, TransactionIds, Zenon DEF Inv, Ownership
<1>4. Ownership'
  <2>1. \A u \in Txns : next_txn_id <= u => u # t
    BY <1>1, <1>3, TransactionIds DEF Inv, Types
  <2>2. \A u \in Txns : next_txn_id' <= u => state'[u] = "DEFAULT" /\ ~txn_mode'[u] /\ write_set'[u] = <<>>
    <3>1. \A u \in Txns : next_txn_id <= u => state[u] = "DEFAULT" /\ ~txn_mode[u] /\ write_set[u] = <<>>
      BY Zenon DEF Inv, Ownership
    <3>2. \A u \in Txns \ {t} : state'[u] = state[u] /\ txn_mode'[u] = txn_mode[u] /\ write_set'[u] = write_set[u]
      BY <1>2, Zenon DEF StatementStep, Strengthens
    <3>. QED
      BY <1>2, <2>1, <3>1, <3>2, Zenon
  <2>. QED
    BY <1>2, <2>2, Zenon DEF Inv, Ownership
<1>5. Latching'
  <2>1. \A u \in Txns : Releasing(u)' <=> Releasing(u)
    BY <1>2, Zenon DEF Releasing
  <2>2. \A u \in Txns : state'[u] = "SHRINKING" => state[u] = "SHRINKING"
    BY <1>2, Zenon DEF Strengthens, Active
  <2>3. ASSUME latch # INVALID_TXN_ID
        PROVE  \E r \in Sessions : txn_id'[r] = latch'
                 /\ pc(r)' \in IF phase' = "commit" THEN {"commit", "autocommit"} ELSE {"abort"}
    <3>1. PICK r \in Sessions : txn_id[r] = latch
                 /\ pc(r) \in IF phase = "commit" THEN {"commit", "autocommit"} ELSE {"abort"}
      BY <2>3, Zenon DEF Inv, Latching
    <3>2. r # s
      BY <1>1, <3>1, Zenon
    <3>. QED
      BY <1>2, <3>1, <3>2, Zenon DEF StatementStep, pc
  <2>. QED
    BY <1>2, <2>1, <2>2, <2>3, Zenon DEF Inv, Latching
<1>6. TableFirst' /\ Release'
  BY <1>1, <1>2, LocksKept, Zenon DEF Releasing
<1>7. ASSUME NEW r \in Sessions PROVE SessionInv(r)'
  <2>1. CASE r = s
    BY <2>1, Zenon
  <2>2. CASE r # s
    <3>1. thread'[r] = thread[r] /\ txn_id'[r] = txn_id[r] /\ txn_id[r] # t
      BY <1>2, <1>3, <2>2, Zenon DEF StatementStep
    <3>2. \A u \in Txns \ {t} : /\ state'[u] = state[u] /\ txn_mode'[u] = txn_mode[u]
                                /\ \A o \in LockDataId : queue'[o][u] = queue[o][u]
      BY <1>2, Zenon DEF StatementStep, Strengthens
    <3>. QED
      BY <1>1, <3>1, <3>2, OthersKept, Zenon
  <2>. QED
    BY <2>1, <2>2, Zenon
<1>. QED
  BY <1>4, <1>5, <1>6, <1>7, Zenon

\* The rows and the write sets after such a step.
LEMMA StatementWrites ==
  ASSUME Inv, NEW s \in Sessions, NEW t, StatementStep(s, t), Types',
         \/ slots' = slots
         \/ \E r \in Records, row \in Rows : slots' = [slots EXCEPT ![r] = row] /\ Settled(row.by)',
         \/ write_set' = write_set
         \/ \E w \in WriteRecords : /\ write_set' = [write_set EXCEPT ![t] = Append(@, w)]
                                    /\ Active(t) /\ Protected(t, w)' /\ Settled(w.record.by)
  PROVE  Undo' /\ Writers'
<1>1. t \in Txns /\ latch # t /\ ~Releasing(t) /\ LockInv
  BY NotLatched, Zenon DEF StatementStep, Inv
<1>2. Strengthens(t) /\ UNCHANGED <<latch, phase>>
  BY Zenon DEF StatementStep
<1>3. \A u \in Txns : Releasing(u)' <=> Releasing(u)
  BY <1>2, Zenon DEF Releasing
<1>4. write_set \in [Txns -> Seq(WriteRecords)]
  BY Zenon DEF Inv, Types
<1>. DEFINE Old(i) == i \in 1 .. Len(write_set[t]) /\ write_set'[t][i] = write_set[t][i]
            New(i) == Protected(t, write_set[t][i])' /\ Settled(write_set'[t][i].record.by)
<1>5. /\ \A i \in 1 .. Len(write_set'[t]) : Old(i) \/ New(i)
      /\ HasEnded(t) \/ Releasing(t) => write_set'[t] = <<>>
  <2>1. CASE write_set' = write_set
    BY <1>1, <2>1, Zenon DEF Inv, Undo
  <2>2. ASSUME NEW w \in WriteRecords, write_set' = [write_set EXCEPT ![t] = Append(@, w)],
               Active(t), Protected(t, w)', Settled(w.record.by)
        PROVE  <1>5
    <3>1. write_set'[t] = Append(write_set[t], w) /\ write_set[t] \in Seq(WriteRecords)
      BY <1>1, <1>4, <2>2, Zenon
    <3>2. \A i \in 1 .. Len(write_set'[t]) : Old(i) \/ write_set'[t][i] = w
      BY <3>1
    <3>3. \A i \in 1 .. Len(write_set'[t]) : write_set'[t][i] = w => New(i)
      BY <2>2, Zenon DEF Protected
    <3>4. ~HasEnded(t)
      BY <2>2, Zenon DEF HasEnded, Active
    <3>. QED
      BY <1>1, <3>2, <3>3, <3>4, Zenon
  <2>. QED
    BY <2>1, <2>2, Zenon
<1>6. \A u \in Txns \ {t} : write_set'[u] = write_set[u]
  BY Zenon DEF StatementStep
<1>7. Undo'
  <2>1. /\ \A u \in Txns : HasEnded(u)' \/ Releasing(u)' => write_set'[u] = <<>>
        /\ \A u \in Txns : \A i \in 1 .. Len(write_set'[u]) : Protected(u, write_set[u][i])'
    <3>1. \A i \in 1 .. Len(write_set'[t]) :
            \/ i \in 1 .. Len(write_set[t]) /\ write_set'[t][i] = write_set[t][i]
            \/ Protected(t, write_set[t][i])'
      BY <1>5, Zenon
    <3>. QED
      BY <1>1, <1>2, <1>3, <1>5, <1>6, <3>1, WritesKept, Zenon
  <2>2. phase' = "reset" => write_set'[latch'] # <<>>
    BY <1>1, <1>2, <1>6, Zenon DEF Inv, Undo, Types, Latching
  <2>. QED
    BY <2>1, <2>2, Zenon DEF Undo
<1>8. \A u : Settled(u) => Settled(u)'
  BY <1>1, <1>2, SettledKept, Zenon
<1>9. \A r \in Records : Settled(slots[r].by)'
  BY <1>8, Zenon DEF Inv, Writers, Types
<1>10. \A u \in Txns : \A i \in 1 .. Len(write_set'[u]) : Settled(write_set[u][i].record.by)'
  BY <1>5, <1>6, <1>8, ZenonT(30) DEF Inv, Writers
<1>. QED
  BY <1>7, <1>9, <1>10, Zenon DEF Writers

\* The log and what was read, after such a step.
LEMMA StatementLog ==
  ASSUME Inv, NEW s \in Sessions, NEW t, StatementStep(s, t),
         \/ deps' = deps
         \/ \E u \in Txns : /\ deps' = deps \cup {<<t, u>>} /\ Active(t)
                            /\ HasEnded(u) \/ state[u] = "SHRINKING"
  PROVE  Logging'
<1>1. t \in Txns
  BY NotLatched, Zenon DEF StatementStep
<1>2. Strengthens(t) /\ log' = log
  BY Zenon DEF StatementStep
<1>3. \A u \in Txns : (HasEnded(u)' <=> HasEnded(u)) /\ (state'[u] = "SHRINKING" <=> state[u] = "SHRINKING")
  <2>1. \A u \in Txns : state'[u] = state[u] \/ (u = t /\ Active(t) /\ Active(t)')
    BY <1>2, Zenon DEF Strengthens
  <2>. QED
    BY <2>1, Zenon DEF HasEnded, Active
<1>4. \A d \in deps' : d[1] # d[2] /\ (HasEnded(d[2])' \/ state'[d[2]] = "SHRINKING")
  <2>1. \A d \in deps' : d[2] \in Txns /\ d[1] # d[2] /\ (HasEnded(d[2]) \/ state[d[2]] = "SHRINKING")
    BY DEF Inv, Logging, Types, HasEnded, Active
  <2>. QED
    BY <1>3, <2>1, Zenon DEF HasEnded
<1>5. CommitOrder'
  <2>1. CASE deps' = deps
    BY <1>2, <2>1, ZenonT(30) DEF Inv, Logging, CommitOrder, EndsBefore
  <2>2. ASSUME NEW u \in Txns, deps' = deps \cup {<<t, u>>}, Active(t) PROVE CommitOrder'
    <3>1. \A i \in 1 .. Len(log) : log[i][2] # t
      BY <1>1, <2>2, Zenon DEF Inv, Logging, HasEnded, Active
    <3>. QED
      BY <1>2, <2>2, <3>1 DEF Inv, Logging, CommitOrder, EndsBefore
  <2>. QED
    BY <2>1, <2>2, Zenon
<1>. QED
  BY <1>2, <1>3, <1>4, <1>5, Zenon DEF Inv, Logging

\* A step of a statement that writes no row.
LEMMA QuietStep ==
  ASSUME Inv, NEW s \in Sessions, NEW t, StatementStep(s, t), Types', SessionInv(s)',
         UNCHANGED <<slots, write_set, deps>>
  PROVE  Inv' /\ [LockNext]_lockVars
<1>1. LockInv' /\ [LockNext]_lockVars
  BY NextPreservesInv, Zenon DEF StatementStep, Inv
<1>2. Undo' /\ Writers'
  BY StatementWrites, Zenon
<1>3. Logging'
  BY StatementLog, Zenon
<1>. QED
  BY <1>1, <1>2, <1>3, StatementControl, Zenon DEF Inv

-----------------------------------------------------------------------------
(* Threads and sessions. *)

\* A call of the lock manager is one of its steps.
LEMMA CallIsStep ==
  ASSUME NEW t \in Txns, NEW o \in LockDataId, NEW mode, NEW res \in Results, RequestReturns(t, o, mode, res)
  PROVE  LockNext
  BY Zenon DEF RequestReturns, LockNext

\* A thread whose statement and locals are reset.
LEMMA WaitingThread ==
  ASSUME NEW label \in Labels
  PROVE  [Waiting EXCEPT !.pc = label] \in Threads
<1>1. <<>> \in Seq(Records)
  OBVIOUS
<1>. QED
  BY <1>1, Zenon DEF Waiting, Threads, Kinds

\* The thread after Answer, Throw and Goto.
LEMMA AfterAnswer ==
  ASSUME Types, NEW s \in Sessions, NEW text \in {"ok", "abort", "failure"}, Answer(s, text)
  PROVE  /\ thread' \in [Sessions -> Threads] /\ reply' \in [Sessions -> {"ok", "abort", "failure"}]
         /\ \A r \in Sessions \ {s} : thread'[r] = thread[r] /\ reply'[r] = reply[r]
         /\ pc(s)' = "write" /\ thread'[s].kind = "none"
<1>1. [Waiting EXCEPT !.pc = "write"] \in Threads
  BY WaitingThread, Zenon DEF Labels
<1>. QED
  BY <1>1, Zenon DEF Types, Answer, Waiting, pc

\* A lock call throws: the thread goes on to abort, and leaves the statement.
LEMMA AfterThrow ==
  ASSUME Types, NEW s \in Sessions, Throw(s)
  PROVE  /\ thread' \in [Sessions -> Threads] /\ reply' \in [Sessions -> {"ok", "abort", "failure"}]
         /\ \A r \in Sessions \ {s} : thread'[r] = thread[r] /\ reply'[r] = reply[r]
         /\ pc(s)' = "abort" /\ thread'[s].kind = "none"
<1>1. [Waiting EXCEPT !.pc = "abort"] \in Threads
  BY WaitingThread, Zenon DEF Labels, Ending
<1>. QED
  BY <1>1, Zenon DEF Types, Throw, Waiting, pc

\* The thread goes to another label, with the same statement, key, slot and rows.
LEMMA AfterGoto ==
  ASSUME Types, NEW s \in Sessions, NEW label \in Labels, Goto(s, label)
  PROVE  /\ thread' \in [Sessions -> Threads]
         /\ \A r \in Sessions \ {s} : thread'[r] = thread[r]
         /\ thread'[s] = [thread[s] EXCEPT !.pc = label]
         /\ pc(s)' = label /\ thread'[s].kind = thread[s].kind /\ thread'[s].key = thread[s].key
         /\ thread'[s].at = thread[s].at /\ thread'[s].rids = thread[s].rids
  BY ZenonT(30) DEF Types, Goto, Threads, pc

\* A thread that answers, or that is to abort, has nothing to be said of.
LEMMA NoStatement ==
  ASSUME NEW s, txn_id'[s] \in Txns, pc(s)' \in {"write", "abort"}, thread'[s].kind = "none"
  PROVE  SessionInv(s)'
  BY Zenon DEF SessionInv, Statement, Executor, Locked, pc, Running, Idle

\* What is said of writes and of the log, when none of what it speaks of changes.
LEMMA UndoKept ==
  ASSUME Undo, UNCHANGED <<state, queue, write_set, latch, phase>>
  PROVE  Undo'
  BY ZenonT(30) DEF Undo, Releasing, Protected, HasEnded

\* The writers of rows stay settled when neither rows nor locks change.
LEMMA WritersKept ==
  ASSUME Writers, UNCHANGED <<state, queue, write_set, slots>>
  PROVE  Writers'
  BY Zenon DEF Writers, Settled, HasEnded

\* The same for the log, when no transaction ends and no row is read.
LEMMA LogKept ==
  ASSUME Logging, UNCHANGED <<state, log, deps>>
  PROVE  Logging'
  BY DEF Logging, HasEnded, CommitOrder, EndsBefore

\* A step that leaves the locks, the writes and the log alone keeps what is said of them.
LEMMA LocksAndLogKept ==
  ASSUME Inv, UNCHANGED <<lockVars, slots, write_set, latch, phase, todo, log, deps>>
  PROVE  LockInv' /\ TableFirst' /\ Release' /\ Undo' /\ Writers' /\ Logging'
<1>1. LockInv'
  BY UnchangedPreservesInv, Zenon DEF Inv
<1>2. TableFirst' /\ Release'
  BY Zenon DEF Inv, TableFirst, Release, Releasing, Holds, HasEnded, lockVars
<1>3. Undo' /\ Writers'
  BY UndoKept, WritersKept, Zenon DEF Inv, lockVars
<1>4. Logging'
  BY LogKept, Zenon DEF Inv, lockVars
<1>. QED
  BY <1>1, <1>2, <1>3, <1>4, Zenon

\* The sessions, when neither their threads nor the locks change.
LEMMA SessionsKept ==
  ASSUME Inv, UNCHANGED <<lockVars, txn_mode, thread, txn_id>>, NEW r \in Sessions
  PROVE  SessionInv(r)'
<1>1. SessionInv(r)
  BY Zenon DEF Inv
<1>2. Statement(r)'
  BY <1>1, Zenon DEF SessionInv, Statement, pc, Active, HasEnded, lockVars
<1>3. Executor(r)' /\ Locked(r)'
  BY <1>1, Zenon DEF SessionInv, Executor, Locked, pc, lockVars
<1>. QED
  BY <1>2, <1>3, Zenon DEF SessionInv

\* A step without a lock call.
LEMMA PlainStep ==
  ASSUME Inv, NEW s \in Sessions, NEW t, t = txn_id[s], pc(s) \notin Ending \cup Idle,
         UNCHANGED <<lockVars, txn_id, next_txn_id, latch, phase, todo, log>>,
         \A r \in Sessions \ {s} : thread'[r] = thread[r] /\ reply'[r] = reply[r],
         \A u \in Txns \ {t} : txn_mode'[u] = txn_mode[u] /\ write_set'[u] = write_set[u]
  PROVE  t \in Txns /\ StatementStep(s, t)
<1>1. t \in Txns /\ LockInv /\ TableFirst
  BY NotLatched, Zenon DEF Inv
<1>2. Strengthens(t)
  BY <1>1, NoLockCall, Zenon DEF lockVars
<1>. QED
  BY <1>1, <1>2, Zenon DEF StatementStep

\* An answer, and nothing else.
LEMMA AnswerStep ==
  ASSUME Inv, NEW s \in Sessions, pc(s) \notin Ending \cup Idle,
         NEW text \in {"ok", "abort", "failure"}, Answer(s, text),
         UNCHANGED <<lockVars, fileVars, tmVars, txn_id, deps>>
  PROVE  Inv' /\ [LockNext]_lockVars
<1>. PICK t : t = txn_id[s]
  BY Zenon
<1>1. Types
  BY Zenon DEF Inv
<1>2. StatementStep(s, t) /\ t \in Txns
  BY <1>1, AfterAnswer, PlainStep, Zenon DEF tmVars
<1>3. SessionInv(s)'
  BY <1>1, <1>2, AfterAnswer, NoStatement, Zenon
<1>4. Types'
  BY <1>1, AfterAnswer, Zenon DEF Types, tmVars, fileVars, ixVars
<1>. QED
  BY <1>2, <1>3, <1>4, QuietStep, Zenon DEF tmVars, fileVars

\* A statement that is refused.
LEMMA RefuseInv == ASSUME Inv, NEW s \in Sessions, Refuse(s) PROVE Inv' /\ [LockNext]_lockVars
  BY AnswerStep, Zenon DEF Refuse, Ending, Idle

\* BEGIN.
LEMMA BeginInv == ASSUME Inv, NEW s \in Sessions, Begin(s) PROVE Inv' /\ [LockNext]_lockVars
<1>. PICK t : t = txn_id[s]
  BY Zenon
<1>1. Types /\ pc(s) = "begin" /\ Answer(s, "ok") /\ txn_mode' = [txn_mode EXCEPT ![t] = TRUE]
      /\ UNCHANGED <<next_txn_id, write_set, latch, phase, todo, log, txn_id, requests, deps, lockVars, fileVars>>
  BY Zenon DEF Inv, Begin
<1>2. StatementStep(s, t) /\ t \in Txns
  <2>1. \A u \in Txns \ {t} : txn_mode'[u] = txn_mode[u] /\ write_set'[u] = write_set[u]
    BY <1>1, Zenon DEF Types
  <2>. QED
    BY <1>1, <2>1, AfterAnswer, PlainStep, Zenon DEF Ending, Idle
<1>3. SessionInv(s)'
  BY <1>1, <1>2, AfterAnswer, NoStatement, Zenon
<1>4. Types'
  BY <1>1, <1>2, AfterAnswer, Zenon DEF Types, fileVars, ixVars
<1>. QED
  BY <1>1, <1>2, <1>3, <1>4, QuietStep, Zenon DEF fileVars

\* The answer is written.
LEMMA WriteInv == ASSUME Inv, NEW s \in Sessions, Write(s) PROVE Inv' /\ [LockNext]_lockVars
<1>. PICK t : t = txn_id[s]
  BY Zenon
<1>. DEFINE label == IF txn_mode[t] THEN "read" ELSE "autocommit"
<1>1. Types /\ pc(s) = "write" /\ (Goto(s, label) \/ Goto(s, "closed"))
      /\ UNCHANGED <<lockVars, fileVars, tmVars, txn_id, requests, reply, deps>>
  BY Zenon DEF Inv, Write
<1>2. {label, "closed"} \subseteq Labels
  BY Zenon DEF Labels, Ending, Idle
<1>3. /\ thread' \in [Sessions -> Threads]
      /\ \A r \in Sessions \ {s} : thread'[r] = thread[r]
      /\ pc(s)' \in {label, "closed"} /\ thread'[s].kind = thread[s].kind /\ thread'[s].key = thread[s].key
  BY <1>1, <1>2, AfterGoto, Zenon
<1>4. StatementStep(s, t) /\ t \in Txns
  BY <1>1, <1>3, PlainStep, Zenon DEF tmVars, Ending, Idle
<1>5. SessionInv(s)'
  <2>1. Statement(s)'
    BY <1>1, <1>3, <1>4, Zenon DEF Statement, Running, Idle, tmVars, pc
  <2>2. Executor(s)' /\ Locked(s)'
    BY <1>3, Zenon DEF Inv, SessionInv, Executor, Locked, pc
  <2>. QED
    BY <2>1, <2>2, Zenon DEF SessionInv
<1>6. Types'
  BY <1>1, <1>3, Zenon DEF Types, tmVars, fileVars, ixVars
<1>. QED
  BY <1>1, <1>4, <1>5, <1>6, QuietStep, Zenon DEF tmVars, fileVars

\* The end of a scan.
LEMMA ScanEndInv == ASSUME Inv, NEW s \in Sessions, ScanEnd(s) PROVE Inv' /\ [LockNext]_lockVars
<1>. PICK t : t = txn_id[s]
  BY Zenon
<1>1. Types /\ pc(s) = "scan" /\ UNCHANGED <<lockVars, fileVars, tmVars, txn_id, requests, deps>>
      /\ SessionInv(s) /\ "lock_IX" \in Labels
  BY Zenon DEF Inv, ScanEnd, Labels, Running
<1>2. CASE Answer(s, "ok")
  BY <1>1, <1>2, AnswerStep, Zenon DEF Ending, Idle
<1>3. CASE thread[s].kind # "select" /\ Goto(s, "lock_IX") /\ UNCHANGED reply
  <2>1. StatementStep(s, t) /\ t \in Txns
    BY <1>1, <1>3, AfterGoto, PlainStep, ZenonT(30) DEF tmVars, Ending, Idle
  <2>2. SessionInv(s)'
    BY <1>1, <1>3, <2>1, AfterGoto, Zenon DEF SessionInv, Statement, Executor, Locked, pc, Active, Running, Idle, lockVars
  <2>3. Types'
    BY <1>1, <1>3, AfterGoto, Zenon DEF Types, tmVars, fileVars, ixVars
  <2>. QED
    BY <1>1, <2>1, <2>2, <2>3, QuietStep, Zenon DEF tmVars, fileVars
<1>. QED
  BY <1>2, <1>3, Zenon DEF ScanEnd

\* The uniqueness check of an INSERT.
LEMMA CheckUniqueInv == ASSUME Inv, NEW s \in Sessions, CheckUnique(s) PROVE Inv' /\ [LockNext]_lockVars
<1>. PICK t : t = txn_id[s]
  BY Zenon
<1>1. Types /\ pc(s) = "unique" /\ UNCHANGED <<lockVars, fileVars, tmVars, txn_id, requests, deps>>
      /\ SessionInv(s) /\ "slot" \in Labels
  BY Zenon DEF Inv, CheckUnique, Labels, Running
<1>2. CASE Answer(s, "failure")
  BY <1>1, <1>2, AnswerStep, Zenon DEF Ending, Idle
<1>3. CASE Goto(s, "slot") /\ UNCHANGED reply
  <2>1. StatementStep(s, t) /\ t \in Txns
    BY <1>1, <1>3, AfterGoto, PlainStep, Zenon DEF tmVars, Ending, Idle
  <2>2. SessionInv(s)'
    BY <1>1, <1>3, <2>1, AfterGoto, Zenon DEF SessionInv, Statement, Executor, Locked, pc, Active, Running, Idle, lockVars
  <2>3. Types'
    BY <1>1, <1>3, AfterGoto, Zenon DEF Types, tmVars, fileVars, ixVars
  <2>. QED
    BY <1>1, <2>1, <2>2, <2>3, QuietStep, Zenon DEF tmVars, fileVars
<1>. QED
  BY <1>2, <1>3, Zenon DEF CheckUnique

\* The slot of an INSERT.
LEMMA ChooseSlotInv == ASSUME NextBitFinds, Inv, NEW s \in Sessions, ChooseSlot(s) PROVE Inv' /\ [LockNext]_lockVars
<1>. PICK t : t = txn_id[s]
  BY Zenon
<1>1. Types /\ pc(s) = "slot" /\ UNCHANGED <<lockVars, fileVars, tmVars, txn_id, requests, deps>>
      /\ SessionInv(s) /\ "copy" \in Labels
  BY Zenon DEF Inv, ChooseSlot, Labels, Running
<1>2. CASE Answer(s, "failure")
  BY <1>1, <1>2, AnswerStep, Zenon DEF Ending, Idle
<1>3. CASE /\ FreeSlots # {} /\ UNCHANGED reply
           /\ thread' = [thread EXCEPT ![s].pc = "copy", ![s].at = next_bit(FreeSlots, NoRid)]
  <2>1. next_bit(FreeSlots, NoRid) \in Records
    <3>1. FreeSlots \in SUBSET Records
      BY Zenon DEF FreeSlots
    <3>2. PICK q \in FreeSlots : TRUE
      BY <1>3, Zenon
    <3>3. q \in Nat
      BY <3>1, SlotsAreNumbers, Zenon
    <3>4. HasNext(FreeSlots, NoRid)
      BY <3>3 DEF HasNext, NoRid
    <3>. QED
      BY <3>1, <3>4, Zenon DEF NextBitFinds
  <2>2. /\ thread' \in [Sessions -> Threads] /\ \A r \in Sessions \ {s} : thread'[r] = thread[r]
        /\ pc(s)' = "copy" /\ thread'[s].at \in Records
        /\ thread'[s].kind = thread[s].kind /\ thread'[s].key = thread[s].key
    BY <1>1, <1>3, <2>1, ZenonT(30) DEF Types, Threads, pc
  <2>3. StatementStep(s, t) /\ t \in Txns
    BY <1>1, <1>3, <2>2, PlainStep, Zenon DEF tmVars, Ending, Idle
  <2>4. SessionInv(s)'
    BY <1>1, <2>2, <2>3, Zenon DEF SessionInv, Statement, Executor, Locked, pc, Active, Running, Idle, lockVars
  <2>5. Types'
    BY <1>1, <1>3, <2>2, Zenon DEF Types, tmVars, fileVars, ixVars
  <2>. QED
    BY <1>1, <2>3, <2>4, <2>5, QuietStep, Zenon DEF tmVars, fileVars
<1>. QED
  BY <1>2, <1>3, Zenon DEF ChooseSlot

\* The last row of an UPDATE or a DELETE.
LEMMA RowsDoneInv == ASSUME Inv, NEW s \in Sessions, RowsDone(s) PROVE Inv' /\ [LockNext]_lockVars
  BY AnswerStep, Zenon DEF RowsDone, Ending, Idle

\* The bit of an inserted record.
LEMMA SetBitInv == ASSUME Inv, NEW s \in Sessions, SetBit(s) PROVE Inv' /\ [LockNext]_lockVars
<1>. PICK t : t = txn_id[s]
  BY Zenon
<1>1. Types /\ pc(s) = "set" /\ Goto(s, "entry") /\ SessionInv(s) /\ "entry" \in Labels
      /\ bitmap' = byte[t] \cup {thread[s].at} /\ byte' = [byte EXCEPT ![t] = {}]
      /\ UNCHANGED <<slots, ixVars, lockVars, tmVars, txn_id, requests, reply, deps>>
  BY Zenon DEF Inv, SetBit, insert_record_set, Labels, Running
<1>2. StatementStep(s, t) /\ t \in Txns
  BY <1>1, AfterGoto, PlainStep, Zenon DEF tmVars, Ending, Idle
<1>3. SessionInv(s)'
  BY <1>1, <1>2, AfterGoto, Zenon DEF SessionInv, Statement, Executor, Locked, pc, Active, Running, Idle, lockVars
<1>4. bitmap' \subseteq Records /\ byte' \in [Txns -> SUBSET Records]
  BY <1>1, <1>2, Zenon DEF SessionInv, Executor, Types
<1>5. Types'
  BY <1>1, <1>4, AfterGoto, Zenon DEF Types, tmVars, ixVars
<1>. QED
  BY <1>1, <1>2, <1>3, <1>5, QuietStep, Zenon DEF tmVars

\* A step with a lock call.
LEMMA CallStep ==
  ASSUME Inv, NEW s \in Sessions, NEW t, t = txn_id[s], pc(s) \notin Ending \cup Idle,
         NEW o, NEW mode, NEW res \in Results, RequestReturns(t, o, mode, res),
         \/ o = fd /\ mode \in {"SHARED", "INTENTION_EXCLUSIVE"}
         \/ o \in Records /\ mode \in {"SHARED", "EXCLUSIVE"} /\ Holds(t, fd),
         UNCHANGED <<txn_id, next_txn_id, latch, phase, todo, log>>,
         \A r \in Sessions \ {s} : thread'[r] = thread[r] /\ reply'[r] = reply[r],
         \A u \in Txns \ {t} : txn_mode'[u] = txn_mode[u] /\ write_set'[u] = write_set[u]
  PROVE  t \in Txns /\ StatementStep(s, t)
<1>1. t \in Txns /\ LockInv /\ TableFirst
  BY NotLatched, Zenon DEF Inv
<1>2. Strengthens(t)
  BY <1>1, TableCall, RecordCall, SMTT(30)
<1>3. LockNext
  BY <1>1, CallIsStep, TableObject, Zenon
<1>. QED
  BY <1>1, <1>2, <1>3, Zenon DEF StatementStep

\* The lock of a scan on its table.
LEMMA LockSharedInv == ASSUME Inv, NEW s \in Sessions, LockShared(s) PROVE Inv' /\ [LockNext]_lockVars
<1>. PICK t : t = txn_id[s]
  BY Zenon
<1>1. PICK res \in Results : lock_shared_on_table(t, fd, res) /\ AfterLock(s, res, Goto(s, "scan"))
  BY Zenon DEF LockShared
<1>2. Types /\ SessionInv(s) /\ pc(s) = "lock_S" /\ "scan" \in Labels /\ LockInv /\ TableFirst
      /\ UNCHANGED <<fileVars, tmVars, txn_id, requests, deps>>
  BY Zenon DEF Inv, LockShared, Labels, Running
<1>3. RequestReturns(t, fd, "SHARED", res)
  BY <1>1, TableObject, Zenon DEF RequestReturns
<1>4. /\ thread' \in [Sessions -> Threads] /\ reply' \in [Sessions -> {"ok", "abort", "failure"}]
      /\ \A r \in Sessions \ {s} : thread'[r] = thread[r] /\ reply'[r] = reply[r]
      /\ \/ res = "abort" /\ pc(s)' = "abort" /\ thread'[s].kind = "none"
         \/ /\ res # "abort" /\ pc(s)' = "scan"
            /\ thread'[s].kind = thread[s].kind /\ thread'[s].key = thread[s].key
  BY <1>1, <1>2, AfterThrow, AfterGoto, ZenonT(30) DEF AfterLock, Types
<1>5. t \in Txns /\ StatementStep(s, t)
  BY <1>2, <1>3, <1>4, CallStep, Zenon DEF tmVars, Ending, Idle
<1>6. SessionInv(s)'
  <2>1. CASE res = "abort"
    BY <1>2, <1>4, <1>5, <2>1, NoStatement, Zenon
  <2>2. CASE res # "abort"
    <3>1. Active(t)
      BY <1>2, Zenon DEF SessionInv, Statement, Running
    <3>2. queue'[fd][t] \in {"SHARED", "S_IX"} /\ Active(t)'
      BY <1>2, <1>3, <1>5, <2>2, <3>1, TableCall, ZenonT(30) DEF Strengthens
    <3>. QED
      BY <1>2, <1>4, <1>5, <2>2, <3>2, ZenonT(30) DEF SessionInv, Statement, Executor, Locked, pc, Active, Running, Idle
  <2>. QED
    BY <2>1, <2>2, Zenon
<1>7. Types'
  BY <1>2, <1>4, Zenon DEF Types, tmVars, fileVars, ixVars
<1>. QED
  BY <1>2, <1>5, <1>6, <1>7, QuietStep, Zenon DEF tmVars, fileVars

\* The lock of a writing statement on its table.
LEMMA LockIXInv == ASSUME Inv, NEW s \in Sessions, LockIX(s) PROVE Inv' /\ [LockNext]_lockVars
<1>. PICK t : t = txn_id[s]
  BY Zenon
<1>. PICK label : label = IF thread[s].kind = "insert" THEN "unique" ELSE "row"
  BY Zenon
<1>1. PICK res \in Results : lock_IX_on_table(t, fd, res) /\ AfterLock(s, res, Goto(s, label))
  BY Zenon DEF LockIX
<1>2. Types /\ SessionInv(s) /\ pc(s) = "lock_IX" /\ label \in Labels /\ LockInv /\ TableFirst
      /\ UNCHANGED <<fileVars, tmVars, txn_id, requests, deps>>
  BY Zenon DEF Inv, LockIX, Labels, Running
<1>3. RequestReturns(t, fd, "INTENTION_EXCLUSIVE", res)
  BY <1>1, TableObject, Zenon DEF RequestReturns
<1>4. /\ thread' \in [Sessions -> Threads] /\ reply' \in [Sessions -> {"ok", "abort", "failure"}]
      /\ \A r \in Sessions \ {s} : thread'[r] = thread[r] /\ reply'[r] = reply[r]
      /\ \/ res = "abort" /\ pc(s)' = "abort" /\ thread'[s].kind = "none"
         \/ /\ res # "abort" /\ pc(s)' = label
            /\ thread'[s].kind = thread[s].kind /\ thread'[s].key = thread[s].key
  BY <1>1, <1>2, AfterThrow, AfterGoto, ZenonT(30) DEF AfterLock, Types
<1>5. t \in Txns /\ StatementStep(s, t)
  BY <1>2, <1>3, <1>4, CallStep, Zenon DEF tmVars, Ending, Idle
<1>6. SessionInv(s)'
  <2>1. CASE res = "abort"
    BY <1>2, <1>4, <1>5, <2>1, NoStatement, Zenon
  <2>2. CASE res # "abort"
    <3>1. Active(t)
      BY <1>2, Zenon DEF SessionInv, Statement, Running
    <3>2. /\ queue'[fd][t] \in {"INTENTION_EXCLUSIVE", "S_IX"} /\ Active(t)'
          /\ queue[fd][t] \in {"SHARED", "S_IX"} => queue'[fd][t] = "S_IX"
      BY <1>2, <1>3, <1>5, <2>2, <3>1, TableCall, ZenonT(30) DEF Strengthens
    <3>. QED
      BY <1>2, <1>4, <1>5, <2>2, <3>2, Zenon DEF SessionInv, Statement, Executor, Locked, pc, Active, Running, Idle
  <2>. QED
    BY <2>1, <2>2, Zenon
<1>7. Types'
  BY <1>2, <1>4, Zenon DEF Types, tmVars, fileVars, ixVars
<1>. QED
  BY <1>2, <1>5, <1>6, <1>7, QuietStep, Zenon DEF tmVars, fileVars

\* A row that another transaction with the table locked for reading sees was written by
\* one that has ended, or is past its rollback.
LEMMA ReadIsSettled ==
  ASSUME Inv, NEW t \in Txns, queue[fd][t] \in {"SHARED", "S_IX"},
         NEW u \in Txns, u # t, Settled(u)
  PROVE  HasEnded(u) \/ state[u] = "SHRINKING"
<1>1. Table!Compatible(queue[fd][t], queue[fd][u])
  BY TableObject, Zenon DEF Inv, LockInv, CompatibleLocks
<1>2. queue[fd][u] \notin {"INTENTION_EXCLUSIVE", "S_IX"}
  <2>1. CASE queue[fd][t] = "SHARED"
    <3>1. LockInv /\ fd \in LockDataId /\ u \in Txns \ {t}
      BY TableObject, Zenon DEF Inv
    <3>2. queue[fd][u] \in {NoRequest, "INTENTION_SHARED", "SHARED"}
      BY <2>1, <3>1, HolderBounds, Zenon
    <3>. QED
      BY <3>2, Zenon DEF NoRequest
  <2>2. CASE queue[fd][t] = "S_IX"
    <3>1. {"S_IX", queue[fd][u]} = {"INTENTION_SHARED", "S_IX"} => "INTENTION_SHARED" \in {"S_IX", queue[fd][u]}
      BY Zenon
    <3>2. queue[fd][u] \in {NoRequest, "INTENTION_SHARED"}
      BY <1>1, <2>2, <3>1, Zenon DEF Table!Compatible, Table!None, NoRequest
    <3>. QED
      BY <3>2, Zenon DEF NoRequest
  <2>. QED
    BY <2>1, <2>2, Zenon
<1>. QED
  BY <1>2, Zenon DEF Settled

\* The next record of a scan.
LEMMA ScanInv == ASSUME NextBitFinds, Inv, NEW s \in Sessions, Scan(s) PROVE Inv' /\ [LockNext]_lockVars
<1>. PICK t : t = txn_id[s]
  BY Zenon
<1>. PICK r : r = next_bit(bitmap, thread[s].at)
  BY Zenon
<1>. PICK u : u = slots[r].by
  BY Zenon
<1>. DEFINE on(match) == thread' = [thread EXCEPT ![s].at = r,
                                      ![s].rids = IF match /\ thread[s].kind # "select" THEN Append(@, r) ELSE @]
<1>1. PICK res \in Results, match \in BOOLEAN :
        /\ lock_shared_on_record(t, r, res) /\ UNCHANGED fileVars
        /\ AfterLock(s, res, on(match))
        /\ deps' = IF res # "abort" /\ u \notin {t, INVALID_TXN_ID} THEN deps \cup {<<t, u>>} ELSE deps
  BY Zenon DEF Scan, get_record
<1>2. Types /\ SessionInv(s) /\ pc(s) = "scan" /\ LockInv /\ TableFirst /\ thread[s] \in Threads
      /\ UNCHANGED <<fileVars, tmVars, txn_id, requests>> /\ HasNext(bitmap, thread[s].at)
  BY <1>1, Zenon DEF Inv, Scan, Types
<1>3. r \in Records
  <2>1. bitmap \in SUBSET Records /\ thread[s].at \in Records \cup {NoRid}
    BY <1>2, Zenon DEF Types, Threads
  <2>. QED
    BY <1>2, <2>1, Zenon DEF NextBitFinds
<1>4. Active(t) /\ queue[fd][t] \in {"SHARED", "S_IX"}
  BY <1>2, Zenon DEF SessionInv, Statement, Locked, Running
<1>5. RequestReturns(t, r, "SHARED", res) /\ Holds(t, fd)
  BY <1>1, <1>3, <1>4, Zenon DEF RequestReturns, Holds, NoRequest
<1>6. /\ thread' \in [Sessions -> Threads] /\ reply' \in [Sessions -> {"ok", "abort", "failure"}]
      /\ \A q \in Sessions \ {s} : thread'[q] = thread[q] /\ reply'[q] = reply[q]
      /\ \/ res = "abort" /\ pc(s)' = "abort" /\ thread'[s].kind = "none"
         \/ /\ res # "abort" /\ pc(s)' = "scan"
            /\ thread'[s].kind = thread[s].kind /\ thread'[s].key = thread[s].key
  <2>1. CASE res = "abort" /\ Throw(s)
    BY <1>2, <2>1, AfterThrow, Zenon
  <2>2. CASE res # "abort" /\ on(match) /\ UNCHANGED reply
    <3>1. thread[s].rids \in Seq(Records) /\ Append(thread[s].rids, r) \in Seq(Records)
      BY <1>2, <1>3, SMTT(30) DEF Threads
    <3>. DEFINE new == IF match /\ thread[s].kind # "select" THEN Append(thread[s].rids, r) ELSE thread[s].rids
    <3>2. new \in Seq(Records)
      BY <3>1, Zenon
    <3>3. thread' = [thread EXCEPT ![s].at = r, ![s].rids = new]
      BY <1>2, <2>2, Zenon DEF Types, Threads
    <3>. HIDE DEF new
    <3>4. thread'[s] = [thread[s] EXCEPT !.at = r, !.rids = new]
      BY <1>2, <3>3, Zenon DEF Types
    <3>5. thread'[s] \in Threads /\ thread'[s].pc = thread[s].pc
          /\ thread'[s].kind = thread[s].kind /\ thread'[s].key = thread[s].key
      BY <1>2, <1>3, <3>2, <3>4, Zenon DEF Threads
    <3>6. thread' \in [Sessions -> Threads] /\ \A q \in Sessions \ {s} : thread'[q] = thread[q]
      BY <1>2, <3>3, <3>5, Zenon DEF Types
    <3>. QED
      BY <1>2, <2>2, <3>5, <3>6, Zenon DEF Types, pc
  <2>. QED
    BY <1>1, <2>1, <2>2, Zenon DEF AfterLock
<1>7. t \in Txns /\ StatementStep(s, t)
  BY <1>2, <1>3, <1>5, <1>6, CallStep, Zenon DEF tmVars, Ending, Idle
<1>8. SessionInv(s)'
  <2>1. CASE res = "abort"
    BY <1>2, <1>6, <1>7, <2>1, NoStatement, Zenon
  <2>2. CASE res # "abort"
    <3>1. queue'[fd][t] \in {"SHARED", "S_IX"} /\ Active(t)'
      BY <1>4, <1>7, Zenon DEF StatementStep, Strengthens
    <3>. QED
      BY <1>2, <1>6, <1>7, <2>2, <3>1, Zenon DEF SessionInv, Statement, Executor, Locked, pc, Active, Running, Idle
  <2>. QED
    BY <2>1, <2>2, Zenon
<1>9. u \in Txns \cup {INVALID_TXN_ID} /\ Settled(u)
  BY <1>2, <1>3, ZenonT(30) DEF Inv, Types, Rows, Writers
<1>10. Types'
  BY <1>1, <1>2, <1>6, <1>7, <1>9, SMTT(30) DEF Types, tmVars, fileVars, ixVars
<1>11. Undo' /\ Writers'
  BY <1>2, <1>7, <1>10, StatementWrites, Zenon DEF tmVars, fileVars
<1>12. Logging'
  <2>1. CASE deps' = deps
    BY <1>7, <2>1, StatementLog, Zenon
  <2>2. CASE deps' = deps \cup {<<t, u>>} /\ u \notin {t, INVALID_TXN_ID}
    BY <1>4, <1>7, <1>9, <2>2, ReadIsSettled, StatementLog, Zenon
  <2>. QED
    BY <1>1, <2>1, <2>2, Zenon
<1>. QED
  BY <1>7, <1>8, <1>10, <1>11, <1>12, StatementControl, NextPreservesInv, Zenon DEF StatementStep, Inv

\* A step of a statement that writes a row, or records a write.
LEMMA WritingStep ==
  ASSUME Inv, NEW s \in Sessions, NEW t, StatementStep(s, t), Types', SessionInv(s)', deps' = deps,
         \/ slots' = slots
         \/ \E r \in Records, row \in Rows : slots' = [slots EXCEPT ![r] = row] /\ Settled(row.by)',
         \/ write_set' = write_set
         \/ \E w \in WriteRecords : /\ write_set' = [write_set EXCEPT ![t] = Append(@, w)]
                                    /\ Active(t) /\ Protected(t, w)' /\ Settled(w.record.by)
  PROVE  Inv' /\ [LockNext]_lockVars
<1>1. LockInv' /\ [LockNext]_lockVars
  BY NextPreservesInv, Zenon DEF StatementStep, Inv
<1>2. Undo' /\ Writers'
  BY StatementWrites, Zenon
<1>3. Logging'
  BY StatementLog, Zenon
<1>. QED
  BY <1>1, <1>2, <1>3, StatementControl, Zenon DEF Inv

\* The record of an INSERT is locked and written.
LEMMA CopyRecordInv == ASSUME Inv, NEW s \in Sessions, CopyRecord(s) PROVE Inv' /\ [LockNext]_lockVars
<1>. PICK t : t = txn_id[s]
  BY Zenon
<1>. PICK r : r = thread[s].at
  BY Zenon
<1>. PICK row : row = Row(thread[s].key, t)
  BY Zenon
<1>1. PICK res \in Results : insert_record_copy(t, r, row, res) /\ AfterLock(s, res, Goto(s, "set"))
  BY Zenon DEF CopyRecord
<1>2. Types /\ SessionInv(s) /\ pc(s) = "copy" /\ LockInv /\ TableFirst /\ "set" \in Labels
      /\ UNCHANGED <<tmVars, txn_id, requests, deps, bitmap, ixVars>>
  BY <1>1, Zenon DEF Inv, CopyRecord, insert_record_copy, Labels, Running
<1>3. Active(t) /\ queue[fd][t] \in {"INTENTION_EXCLUSIVE", "S_IX"} /\ r \in Records /\ thread[s].key \in Keys
  BY <1>2, Zenon DEF SessionInv, Statement, Locked, Executor, Running
<1>4. RequestReturns(t, r, "EXCLUSIVE", res) /\ Holds(t, fd)
  BY <1>1, <1>3, Zenon DEF RequestReturns, Holds, NoRequest, insert_record_copy
<1>5. /\ thread' \in [Sessions -> Threads] /\ reply' \in [Sessions -> {"ok", "abort", "failure"}]
      /\ \A q \in Sessions \ {s} : thread'[q] = thread[q] /\ reply'[q] = reply[q]
      /\ \/ res = "abort" /\ pc(s)' = "abort" /\ thread'[s].kind = "none"
         \/ /\ res # "abort" /\ pc(s)' = "set" /\ thread'[s].at = r
            /\ thread'[s].kind = thread[s].kind /\ thread'[s].key = thread[s].key
  BY <1>1, <1>2, AfterThrow, AfterGoto, ZenonT(30) DEF AfterLock, Types
<1>6. t \in Txns /\ StatementStep(s, t)
  BY <1>2, <1>3, <1>4, <1>5, CallStep, Zenon DEF tmVars, Ending, Idle
<1>7. queue'[fd][t] \in {"INTENTION_EXCLUSIVE", "S_IX"} /\ Active(t)'
  BY <1>3, <1>6, Zenon DEF StatementStep, Strengthens
<1>8. SessionInv(s)'
  <2>1. CASE res = "abort"
    BY <1>2, <1>5, <1>6, <2>1, NoStatement, Zenon
  <2>2. CASE res # "abort"
    <3>1. queue'[r][t] = "EXCLUSIVE"
      BY <1>2, <1>3, <1>4, <1>6, <2>2, RecordCall, Zenon
    <3>. QED
      BY <1>2, <1>3, <1>5, <1>6, <1>7, <2>2, <3>1, Zenon
         DEF SessionInv, Statement, Executor, Locked, pc, Active, Running, Idle
  <2>. QED
    BY <2>1, <2>2, Zenon
<1>9. row \in Rows /\ row.by = t
  BY <1>3, <1>6, Zenon DEF Row, Rows
<1>10. slots' \in [Records -> Rows] /\ byte' \in [Txns -> SUBSET Records]
  BY <1>1, <1>2, <1>3, <1>6, <1>9, ZenonT(30) DEF Types, insert_record_copy
<1>11. Types'
  BY <1>2, <1>5, <1>10, Zenon DEF Types, tmVars, ixVars
<1>12. slots' = slots \/ (slots' = [slots EXCEPT ![r] = row] /\ Settled(row.by)')
  BY <1>1, <1>7, <1>9, Zenon DEF insert_record_copy, Settled
<1>. QED
  BY <1>2, <1>3, <1>6, <1>8, <1>9, <1>11, <1>12, WritingStep, Zenon DEF tmVars

\* The index entry of an INSERT, and its write record.
LEMMA InsertEntryInv == ASSUME Inv, NEW s \in Sessions, InsertEntry(s) PROVE Inv' /\ [LockNext]_lockVars
<1>. PICK t : t = txn_id[s]
  BY Zenon
<1>. PICK w : w = WriteRecord("INSERT_TUPLE", thread[s].at, Row(NoKey, INVALID_TXN_ID))
  BY Zenon
<1>1. /\ Types /\ SessionInv(s) /\ pc(s) = "entry" /\ Answer(s, "ok")
      /\ write_set' = [write_set EXCEPT ![t] = Append(@, w)]
      /\ UNCHANGED <<slots, bitmap, byte, root_latch, next_txn_id, txn_mode, latch, phase, todo, log,
                     lockVars, txn_id, requests, deps>>
  BY Zenon DEF Inv, InsertEntry, append_write_record
<1>2. Active(t) /\ queue[fd][t] \in {"INTENTION_EXCLUSIVE", "S_IX"} /\ thread[s].at \in Records
      /\ queue[thread[s].at][t] = "EXCLUSIVE"
  BY <1>1, Zenon DEF SessionInv, Statement, Locked, Executor, Running
<1>3. w \in WriteRecords /\ w.rid = thread[s].at /\ w.wtype = "INSERT_TUPLE" /\ w.record.by = INVALID_TXN_ID
  BY <1>2, Zenon DEF WriteRecord, Row, WriteRecords, Rows
<1>4. t \in Txns
  BY <1>1, NotLatched, Zenon DEF Ending, Idle
<1>5. \A u \in Txns \ {t} : txn_mode'[u] = txn_mode[u] /\ write_set'[u] = write_set[u]
  BY <1>1, Zenon DEF Types
<1>6. StatementStep(s, t)
  BY <1>1, <1>5, AfterAnswer, PlainStep, Zenon DEF Ending, Idle
<1>7. SessionInv(s)'
  BY <1>1, <1>4, AfterAnswer, NoStatement, ZenonT(30)
<1>8. write_set' \in [Txns -> Seq(WriteRecords)]
  BY <1>1, <1>3, <1>4, SMTT(30) DEF Types
<1>9. Types'
  BY <1>1, <1>8, AfterAnswer, Zenon DEF Types
<1>10. Protected(t, w)'
  BY <1>1, <1>2, <1>3, Zenon DEF Protected, lockVars
<1>11. Settled(w.record.by)
  BY <1>3, TransactionIds, Zenon DEF Settled
<1>. QED
  BY <1>1, <1>2, <1>3, <1>6, <1>7, <1>9, <1>10, <1>11, WritingStep, Zenon

\* The index part of an UPDATE or a DELETE of a row: the rid is locked, and the thread goes
\* on to the record or answers.
LEMMA RowStep ==
  ASSUME Inv, NEW s \in Sessions, pc(s) = "row", thread[s].rids # <<>>,
         NEW res \in Results, lock_shared_on_record(txn_id[s], Head(thread[s].rids), res),
         (Goto(s, "change") /\ UNCHANGED reply) \/ Answer(s, "failure"), root_latch' \in BOOLEAN,
         UNCHANGED <<slots, bitmap, byte, tmVars, txn_id, requests, deps>>
  PROVE  Inv' /\ [LockNext]_lockVars
<1>. PICK t : t = txn_id[s]
  BY Zenon
<1>. PICK r : r = Head(thread[s].rids)
  BY Zenon
<1>1. Types /\ SessionInv(s) /\ "change" \in Labels /\ thread[s] \in Threads
  BY Zenon DEF Inv, Types, Labels, Running
<1>2. r \in Records
  <2>1. thread[s].rids \in Seq(Records)
    BY <1>1, Zenon DEF Threads
  <2>. QED
    BY <2>1, HeadAndTail, Zenon
<1>3. Active(t) /\ queue[fd][t] = "S_IX"
  BY <1>1, Zenon DEF SessionInv, Statement, Locked, Running
<1>4. RequestReturns(t, r, "SHARED", res) /\ Holds(t, fd)
  BY <1>2, <1>3, Zenon DEF RequestReturns, Holds, NoRequest
<1>5. /\ thread' \in [Sessions -> Threads] /\ reply' \in [Sessions -> {"ok", "abort", "failure"}]
      /\ \A q \in Sessions \ {s} : thread'[q] = thread[q] /\ reply'[q] = reply[q]
      /\ \/ pc(s)' = "write" /\ thread'[s].kind = "none"
         \/ /\ pc(s)' = "change" /\ thread'[s].rids = thread[s].rids
            /\ thread'[s].kind = thread[s].kind /\ thread'[s].key = thread[s].key
  BY <1>1, AfterAnswer, AfterGoto, ZenonT(30) DEF Types
<1>6. t \in Txns /\ StatementStep(s, t)
  BY <1>2, <1>4, <1>5, CallStep, Zenon DEF tmVars, Ending, Idle
<1>7. queue'[fd][t] = "S_IX" /\ Active(t)'
  <2>1. queue[fd][t] \in {"S_IX"} => queue'[fd][t] \in {"S_IX"}
    BY <1>6, Zenon DEF StatementStep, Strengthens
  <2>. QED
    BY <1>3, <1>6, <2>1, Zenon DEF StatementStep, Strengthens
<1>8. SessionInv(s)'
  <2>1. CASE pc(s)' = "write" /\ thread'[s].kind = "none"
    BY <1>6, <2>1, NoStatement, Zenon
  <2>2. CASE /\ pc(s)' = "change" /\ thread'[s].rids = thread[s].rids
             /\ thread'[s].kind = thread[s].kind /\ thread'[s].key = thread[s].key
    BY <1>1, <1>6, <1>7, <2>2, Zenon DEF SessionInv, Statement, Executor, Locked, pc, Active, Running, Idle
  <2>. QED
    BY <1>5, <2>1, <2>2, Zenon
<1>9. Types'
  BY <1>1, <1>5, Zenon DEF Types, tmVars
<1>. QED
  BY <1>6, <1>8, <1>9, QuietStep, Zenon DEF tmVars

\* The index part of an UPDATE.
LEMMA UpdateIndexInv == ASSUME Inv, NEW s \in Sessions, UpdateIndex(s) PROVE Inv' /\ [LockNext]_lockVars
<1>1. /\ pc(s) = "row" /\ thread[s].rids # <<>>
      /\ \E res \in Results \ {"abort"} : lock_shared_on_record(txn_id[s], Head(thread[s].rids), res)
      /\ (Goto(s, "change") /\ UNCHANGED reply) \/ Answer(s, "failure")
      /\ UNCHANGED <<slots, bitmap, byte, tmVars, txn_id, requests, deps>>
  BY Zenon DEF UpdateIndex, RowThrows
<1>2. root_latch' \in BOOLEAN
  BY Zenon DEF UpdateIndex, RowThrows, ixVars, Inv, Types
<1>. QED
  BY <1>1, <1>2, RowStep, Zenon

\* The index part of a DELETE.
LEMMA DeleteFromIndexInv == ASSUME Inv, NEW s \in Sessions, DeleteFromIndex(s) PROVE Inv' /\ [LockNext]_lockVars
<1>1. /\ pc(s) = "row" /\ thread[s].rids # <<>>
      /\ \E res \in Results \ {"abort"} : lock_shared_on_record(txn_id[s], Head(thread[s].rids), res)
      /\ (Goto(s, "change") /\ UNCHANGED reply) \/ Answer(s, "failure")
      /\ UNCHANGED <<slots, bitmap, byte, tmVars, txn_id, requests, deps>>
  BY Zenon DEF DeleteFromIndex, RowThrows
<1>2. root_latch' \in BOOLEAN
  BY Zenon DEF DeleteFromIndex, RowThrows, Inv, Types
<1>. QED
  BY <1>1, <1>2, RowStep, Zenon

\* The record part of an UPDATE or a DELETE of a row: the record is locked X and changed, and
\* the write recorded, or the thread is to abort.
LEMMA ChangeStep ==
  ASSUME Inv, NEW s \in Sessions, NEW t, t = txn_id[s], pc(s) = "change",
         NEW r, r = Head(thread[s].rids), NEW res \in Results, lock_exclusive_on_record(t, r, res),
         AfterLock(s, res, NextRow(s)), NEW wtype \in {"UPDATE_TUPLE", "DELETE_TUPLE"},
         IF res = "abort" THEN UNCHANGED write_set
         ELSE append_write_record(t, WriteRecord(wtype, r, slots[r])),
         \/ slots' = slots
         \/ thread[s].kind = "update" /\ slots' = [slots EXCEPT ![r] = Row(thread[s].key, t)],
         bitmap' \subseteq bitmap,
         UNCHANGED <<byte, root_latch, next_txn_id, txn_mode, latch, phase, todo, log, txn_id, requests, deps>>
  PROVE  Inv' /\ [LockNext]_lockVars
<1>. PICK w : w = WriteRecord(wtype, r, slots[r])
  BY Zenon
<1>. PICK row : row = Row(thread[s].key, t)
  BY Zenon
<1>1. Types /\ SessionInv(s) /\ "row" \in Labels /\ thread[s] \in Threads /\ LockInv /\ TableFirst
  BY Zenon DEF Inv, Types, Labels, Running
<1>2. Active(t) /\ queue[fd][t] = "S_IX" /\ thread[s].rids # <<>>
  BY <1>1, Zenon DEF SessionInv, Statement, Locked, Executor, Running
<1>3. r \in Records /\ Tail(thread[s].rids) \in Seq(Records)
  <2>1. thread[s].rids \in Seq(Records) /\ thread[s].rids # <<>>
    BY <1>1, <1>2, Zenon DEF Threads
  <2>. QED
    BY <2>1, HeadAndTail, Zenon
<1>4. RequestReturns(t, r, "EXCLUSIVE", res) /\ Holds(t, fd)
  BY <1>2, <1>3, Zenon DEF RequestReturns, Holds, NoRequest
<1>5. /\ thread' \in [Sessions -> Threads] /\ reply' \in [Sessions -> {"ok", "abort", "failure"}]
      /\ \A q \in Sessions \ {s} : thread'[q] = thread[q] /\ reply'[q] = reply[q]
      /\ \/ res = "abort" /\ pc(s)' = "abort" /\ thread'[s].kind = "none"
         \/ /\ res # "abort" /\ pc(s)' = "row"
            /\ thread'[s].kind = thread[s].kind /\ thread'[s].key = thread[s].key
  <2>1. CASE res = "abort" /\ Throw(s)
    BY <1>1, <2>1, AfterThrow, Zenon
  <2>2. CASE res # "abort" /\ NextRow(s) /\ UNCHANGED reply
    <3>1. thread'[s] = [thread[s] EXCEPT !.pc = "row", !.rids = Tail(thread[s].rids)]
          /\ \A q \in Sessions \ {s} : thread'[q] = thread[q]
      BY <1>1, <2>2, ZenonT(30) DEF Types, Threads, NextRow
    <3>2. thread'[s] \in Threads /\ thread'[s].pc = "row"
          /\ thread'[s].kind = thread[s].kind /\ thread'[s].key = thread[s].key
      BY <1>1, <1>3, <3>1, ZenonT(30) DEF Threads
    <3>3. thread' \in [Sessions -> Threads]
      BY <1>1, <2>2, <3>1, <3>2, Zenon DEF Types, NextRow
    <3>. QED
      BY <1>1, <2>2, <3>1, <3>2, <3>3, Zenon DEF Types, pc
  <2>. QED
    BY <2>1, <2>2, Zenon DEF AfterLock
<1>6. t \in Txns
  BY NotLatched, Zenon DEF Ending, Idle
<1>7. \A u \in Txns \ {t} : txn_mode'[u] = txn_mode[u] /\ write_set'[u] = write_set[u]
  BY <1>1, <1>6, Zenon DEF Types, append_write_record
<1>8. StatementStep(s, t)
  BY <1>3, <1>4, <1>5, <1>7, CallStep, Zenon DEF Ending, Idle
<1>9. queue'[fd][t] = "S_IX" /\ Active(t)'
  <2>1. queue[fd][t] \in {"S_IX"} => queue'[fd][t] \in {"S_IX"}
    BY <1>8, Zenon DEF StatementStep, Strengthens
  <2>. QED
    BY <1>2, <1>8, <2>1, Zenon DEF StatementStep, Strengthens
<1>10. SessionInv(s)'
  <2>1. CASE res = "abort"
    BY <1>5, <1>6, <2>1, NoStatement, Zenon
  <2>2. CASE res # "abort"
    BY <1>1, <1>5, <1>6, <1>9, <2>2, Zenon DEF SessionInv, Statement, Executor, Locked, pc, Active, Running, Idle
  <2>. QED
    BY <2>1, <2>2, Zenon
<1>11. /\ w \in WriteRecords /\ w.rid = r /\ w.wtype = wtype /\ w.record = slots[r]
       /\ thread[s].kind = "update" => row \in Rows /\ row.by = t
  BY <1>1, <1>3, <1>6, Zenon DEF WriteRecord, WriteRecords, Types, Row, Rows, SessionInv, Executor
<1>12. slots' \in [Records -> Rows]
  BY <1>1, <1>3, <1>11, Zenon DEF Types
<1>13. write_set' = write_set \/ write_set' = [write_set EXCEPT ![t] = Append(@, w)]
  BY Zenon DEF append_write_record
<1>14. write_set' \in [Txns -> Seq(WriteRecords)]
  <2>1. write_set[t] \in Seq(WriteRecords)
    BY <1>1, <1>6, ZenonT(30) DEF Types
  <2>2. Append(write_set[t], w) \in Seq(WriteRecords)
    <3>1. w \in WriteRecords
      BY <1>11, Zenon
    <3>. QED
      BY <2>1, <3>1, Appended, Zenon
  <2>. QED
    BY <1>1, <1>13, <2>2, ZenonT(30) DEF Types
<1>15. Types'
  BY <1>1, <1>5, <1>12, <1>14, Zenon DEF Types
<1>16. slots' = slots \/ (row \in Rows /\ slots' = [slots EXCEPT ![r] = row] /\ Settled(row.by)')
  BY <1>9, <1>11, Zenon DEF Settled
<1>17. CASE res = "abort"
  BY <1>3, <1>8, <1>10, <1>15, <1>16, <1>17, WritingStep, Zenon
<1>18. CASE res # "abort"
  <2>1. queue'[r][t] = "EXCLUSIVE"
    BY <1>1, <1>2, <1>3, <1>4, <1>6, <1>18, ExclusiveCall, Zenon
  <2>2. Protected(t, w)'
    BY <1>9, <1>11, <2>1, Zenon DEF Protected
  <2>3. Settled(w.record.by)
    BY <1>3, <1>11, Zenon DEF Inv, Writers
  <2>4. write_set' = [write_set EXCEPT ![t] = Append(@, w)]
    BY <1>18, Zenon DEF append_write_record
  <2>. QED
    BY <1>2, <1>3, <1>8, <1>10, <1>11, <1>15, <1>16, <2>2, <2>3, <2>4, WritingStep, Zenon
<1>. QED
  BY <1>17, <1>18, Zenon

\* The record part of an UPDATE.
LEMMA UpdateRecordInv == ASSUME Inv, NEW s \in Sessions, UpdateRecord(s) PROVE Inv' /\ [LockNext]_lockVars
  BY ChangeStep, Zenon DEF UpdateRecord, update_record, ixVars

\* The record part of a DELETE.
LEMMA DeleteRecordInv == ASSUME Inv, NEW s \in Sessions, DeleteRecord(s) PROVE Inv' /\ [LockNext]_lockVars
  BY ChangeStep, Zenon DEF DeleteRecord, delete_record, ixVars

-----------------------------------------------------------------------------
(* The steps of a session between statements. *)

\* The thread that has read a request.
LEMMA RequestThread ==
  ASSUME NEW kind \in Statements, NEW k \in IF kind \in {"insert", "update"} THEN Keys ELSE {NoKey}
  PROVE  /\ [Waiting EXCEPT !.pc = Entry(kind), !.kind = kind, !.key = k] \in Threads
         /\ Entry(kind) \in {"begin", "commit", "abort", "bad", "lock_S", "lock_IX"}
         /\ Entry(kind) = "lock_S" => kind \in {"select", "update", "delete"}
         /\ Entry(kind) = "lock_IX" => kind = "insert"
<1>1. kind \in {"begin", "commit", "abort", "bad", "insert", "select", "update", "delete"} /\ <<>> \in Seq(Records)
  BY StatementKinds, SMTT(30)
<1>2. /\ Entry(kind) \in {"begin", "commit", "abort", "bad", "lock_S", "lock_IX"}
      /\ Entry(kind) = "lock_S" => kind \in {"select", "update", "delete"}
      /\ Entry(kind) = "lock_IX" => kind = "insert"
  BY <1>1, Zenon DEF Entry
<1>3. Entry(kind) \in Labels /\ kind \in Kinds /\ k \in Keys \cup {NoKey}
  BY <1>1, <1>2, Zenon DEF Labels, Kinds, Running, Ending
<1>. QED
  BY <1>1, <1>2, <1>3, Zenon DEF Waiting, Threads

\* A request gives its session a transaction that has not ended and that holds no latch.
LEMMA SetTransactionEffect ==
  ASSUME Inv, NEW s \in Sessions, SetTransaction(s), UNCHANGED lockVars
  PROVE  /\ txn_id'[s] \in Txns /\ Active(txn_id[s])' /\ latch = INVALID_TXN_ID
         /\ txn_id' \in [Sessions -> Txns \cup {INVALID_TXN_ID}]
         /\ \A r \in Sessions \ {s} : txn_id'[r] = txn_id[r] /\ txn_id[r] # txn_id'[s]
         /\ next_txn_id' \in Nat /\ Ownership'
         /\ UNCHANGED <<txn_mode, write_set, latch, phase, todo, log>>
<1>1. Types /\ Ownership /\ Latching /\ state \in [Txns -> TransactionState]
  BY Zenon DEF Inv, LockInv, LockTypeOK
<1>2. CASE /\ next_txn_id \in Txns /\ begin(next_txn_id)
           /\ txn_id' = [txn_id EXCEPT ![s] = next_txn_id]
  <2>1. next_txn_id \in Nat /\ txn_id'[s] = next_txn_id /\ next_txn_id' = next_txn_id + 1
        /\ \A r \in Sessions \ {s} : txn_id'[r] = txn_id[r]
    BY <1>1, <1>2, Zenon DEF Types, begin
  <2>2. state[next_txn_id] = "DEFAULT"
    BY <1>2, <2>1, <1>1, SMTT(30) DEF Ownership
  <2>3. \A r \in Sessions : txn_id[r] \in Int /\ txn_id[r] < next_txn_id
    <3>1. \A r \in Sessions : txn_id[r] \in Txns \/ txn_id[r] = -1
      BY <1>1, Zenon DEF Types, INVALID_TXN_ID
    <3>2. \A t \in Txns : t \in Int
      BY TransactionIds, SMTT(30)
    <3>. QED
      BY <1>1, <3>1, <3>2, SMTT(30) DEF Ownership
  <2>4. Ownership'
    <3>1. \A r \in Sessions : txn_id'[r] < next_txn_id'
      BY <2>1, <2>3, SMTT(30)
    <3>2. \A q, r \in Sessions : q # r /\ txn_id'[q] = txn_id'[r] => txn_id'[q] = INVALID_TXN_ID
      BY <1>1, <2>1, <2>3, SMTT(30) DEF Ownership
    <3>3. \A t \in Txns : next_txn_id' <= t => next_txn_id <= t
      BY <2>1, TransactionIds, SMTT(30)
    <3>. QED
      BY <1>1, <1>2, <3>1, <3>2, <3>3, Zenon DEF Ownership, lockVars, begin
  <2>. QED
    BY <1>1, <1>2, <2>1, <2>2, <2>3, <2>4, SMTT(30) DEF Types, begin, NoWait, Active, lockVars
<1>3. CASE ~Ended(txn_id[s]) /\ NoWait /\ UNCHANGED <<tmVars, txn_id>>
  <2>1. txn_id[s] \in Txns /\ ~HasEnded(txn_id[s])
    BY <1>3, Zenon DEF Ended, HasEnded
  <2>2. state[txn_id[s]] # "SHRINKING"
    BY <1>1, <1>3, <2>1, TransactionIds, Zenon DEF Latching, Releasing, NoWait
  <2>3. Ownership'
    BY <1>1, <1>3, Zenon DEF Ownership, lockVars, tmVars
  <2>. QED
    BY <1>1, <1>3, <2>1, <2>2, <2>3, OwnTransaction, Zenon
       DEF Types, NoWait, Active, HasEnded, TransactionState, lockVars, tmVars
<1>. QED
  BY <1>2, <1>3, Zenon DEF SetTransaction

\* A request, which begins a transaction if the session has none.
LEMMA RequestInv == ASSUME Inv, NEW s \in Sessions, Request(s) PROVE Inv' /\ [LockNext]_lockVars
<1>. PICK t : t = txn_id'[s]
  BY Zenon
<1>1. SetTransaction(s) /\ UNCHANGED <<reply, deps, lockVars, fileVars>>
  BY Zenon DEF Request
<1>. PICK kind \in Statements : \E k \in IF kind \in {"insert", "update"} THEN Keys ELSE {NoKey} :
       thread' = [thread EXCEPT ![s] = [Waiting EXCEPT !.pc = Entry(kind), !.kind = kind, !.key = k]]
  BY Zenon DEF Request
<1>2. PICK k \in IF kind \in {"insert", "update"} THEN Keys ELSE {NoKey} :
        thread' = [thread EXCEPT ![s] = [Waiting EXCEPT !.pc = Entry(kind), !.kind = kind, !.key = k]]
  BY Zenon
<1>3. /\ t \in Txns /\ Active(t)' /\ latch = INVALID_TXN_ID
      /\ txn_id' \in [Sessions -> Txns \cup {INVALID_TXN_ID}]
      /\ \A r \in Sessions \ {s} : txn_id'[r] = txn_id[r] /\ txn_id[r] # t
      /\ next_txn_id' \in Nat /\ Ownership'
      /\ UNCHANGED <<txn_mode, write_set, latch, phase, todo, log>>
  BY <1>1, SetTransactionEffect, Zenon DEF Active
<1>4. Types
  BY Zenon DEF Inv
<1>5. /\ thread' \in [Sessions -> Threads]
      /\ \A r \in Sessions \ {s} : thread'[r] = thread[r]
      /\ pc(s)' = Entry(kind) /\ thread'[s].kind = kind /\ thread'[s].key = k
  <2>. DEFINE th == [Waiting EXCEPT !.pc = Entry(kind), !.kind = kind, !.key = k]
  <2>1. th \in Threads /\ th.pc = Entry(kind) /\ th.kind = kind /\ th.key = k
    BY RequestThread, Zenon DEF Waiting
  <2>. HIDE DEF th
  <2>2. thread' = [thread EXCEPT ![s] = th]
    BY <1>2, Zenon DEF th
  <2>. QED
    BY <1>4, <2>1, <2>2, Zenon DEF Types, pc
<1>6. Types'
  BY <1>1, <1>3, <1>4, <1>5, Zenon DEF Types, fileVars, ixVars
<1>7. Latching'
  BY <1>1, <1>3, ZenonT(30) DEF Inv, Latching, Releasing, lockVars
<1>8. SessionInv(s)'
  <2>1. Statement(s)'
    BY <1>3, <1>5, RequestThread, Zenon DEF Statement, Idle, Active
  <2>2. Executor(s)' /\ Locked(s)'
    <3>1. /\ pc(s)' \in {"begin", "commit", "abort", "bad", "lock_S", "lock_IX"}
          /\ pc(s)' = "lock_S" => thread'[s].kind \in {"select", "update", "delete"}
          /\ pc(s)' = "lock_IX" => thread'[s].kind = "insert"
          /\ thread'[s].kind \in {"insert", "update"} => thread'[s].key \in Keys
      BY <1>5, RequestThread, ZenonT(30)
    <3>. QED
      BY <3>1, Zenon DEF Executor, Locked
  <2>. QED
    BY <2>1, <2>2, Zenon DEF SessionInv
<1>9. \A r \in Sessions : SessionInv(r)'
  BY <1>1, <1>3, <1>5, <1>8, OthersKept, Zenon DEF lockVars
<1>10. LockInv' /\ TableFirst' /\ Release' /\ Undo' /\ Writers' /\ Logging'
  BY <1>1, <1>3, LocksAndLogKept, Zenon DEF fileVars
<1>. QED
  BY <1>1, <1>3, <1>6, <1>7, <1>9, <1>10, Zenon DEF Inv

\* A client that has gone.
LEMMA DisconnectInv == ASSUME Inv, NEW s \in Sessions, Disconnect(s) PROVE Inv' /\ [LockNext]_lockVars
<1>1. Types /\ pc(s) = "read" /\ Goto(s, "closed") /\ "closed" \in Labels
      /\ UNCHANGED <<lockVars, fileVars, tmVars, txn_id, requests, reply, deps>>
  BY Zenon DEF Inv, Disconnect, Labels, Idle
<1>2. Types'
  BY <1>1, AfterGoto, Zenon DEF Types, fileVars, tmVars, ixVars
<1>3. Ownership'
  BY <1>1, Zenon DEF Inv, Ownership, lockVars, tmVars
<1>4. Latching'
  <2>1. \A r \in Sessions : pc(r) \in {"commit", "autocommit", "abort"} => pc(r)' = pc(r)
    BY <1>1, AfterGoto, ZenonT(30) DEF pc
  <2>. QED
    BY <1>1, <2>1, Zenon DEF Inv, Latching, Releasing, lockVars, tmVars
<1>5. ASSUME NEW r \in Sessions PROVE SessionInv(r)'
  <2>1. SessionInv(r)
    BY Zenon DEF Inv
  <2>2. CASE r = s
    BY <1>1, <2>1, <2>2, AfterGoto, ZenonT(30) DEF SessionInv, Statement, Executor, Locked, pc, Running, Idle
  <2>3. CASE r # s
    <3>1. thread'[r] = thread[r]
      BY <1>1, <2>3, AfterGoto, Zenon
    <3>2. Statement(r)'
      BY <1>1, <2>1, <3>1, Zenon DEF SessionInv, Statement, pc, Active, HasEnded, lockVars, tmVars
    <3>3. Executor(r)' /\ Locked(r)'
      BY <1>1, <2>1, <3>1, Zenon DEF SessionInv, Executor, Locked, pc, lockVars
    <3>. QED
      BY <3>2, <3>3, Zenon DEF SessionInv
  <2>. QED
    BY <2>2, <2>3, Zenon
<1>6. LockInv' /\ TableFirst' /\ Release' /\ Undo' /\ Writers' /\ Logging'
  BY <1>1, LocksAndLogKept, Zenon DEF fileVars, tmVars
<1>. QED
  BY <1>1, <1>2, <1>3, <1>4, <1>5, <1>6, Zenon DEF Inv

=============================================================================
