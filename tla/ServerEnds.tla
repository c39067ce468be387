----------------------------- MODULE ServerEnds -----------------------------
(***************************************************************************)
(* The steps of commit and abort preserve the server's invariant: an abort *)
(* undoes the writes of its transaction under the locks that protect them, *)
(* and both then release every lock that the transaction has.              *)
(***************************************************************************)
EXTENDS ServerStatements

\* A commit begins, or an abort has undone all writes: from now on it releases the locks of
\* its lock set, which are all that it has.
LEMMA ReleaseBegins ==
  ASSUME Inv, NEW s \in Sessions, NEW t \in Txns, t = txn_id[s],
         UNCHANGED <<lockVars, fileVars, next_txn_id, txn_mode, log, txn_id, thread, reply, deps>>,
         phase \in {"free", "undo"}, latch \in {INVALID_TXN_ID, t}, latch' = t,
         \/ phase' = "commit" /\ pc(s) \in {"commit", "autocommit"}
         \/ phase' = "abort" /\ pc(s) = "abort",
         write_set' = [write_set EXCEPT ![t] = <<>>], todo' = lock_set[t]
  PROVE  Inv'
<1>1. Types /\ LockInv /\ Ownership /\ Latching
  BY Zenon DEF Inv
<1>2. \A u \in Txns : ~Releasing(u) /\ state[u] # "SHRINKING" /\ (Releasing(u)' <=> u = t)
  BY <1>1, Zenon DEF Latching, Releasing
<1>3. t # INVALID_TXN_ID /\ <<>> \in Seq(WriteRecords)
  BY TransactionIds, SMTT(30)
<1>4. write_set' \in [Txns -> Seq(WriteRecords)] /\ write_set'[t] = <<>>
      /\ \A u \in Txns \ {t} : write_set'[u] = write_set[u]
  BY <1>1, <1>3, Zenon DEF Types
<1>5. todo' \subseteq LockDataId /\ \A o \in LockDataId : Holds(t, o) => o \in todo'
  BY <1>1, Zenon DEF LockInv, LockTypeOK, HeldLocksAreRecorded
<1>6. Types'
  BY <1>1, <1>4, <1>5, Zenon DEF Types, fileVars, ixVars
<1>7. Ownership'
  BY <1>1, <1>4, ZenonT(30) DEF Ownership, lockVars
<1>8. Latching'
  BY <1>2, <1>3, Zenon DEF Latching, lockVars, pc
<1>9. TableFirst'
  BY <1>2, Zenon DEF Inv, TableFirst, Holds, lockVars
<1>10. Release'
  BY <1>2, <1>5, Zenon DEF Inv, Release, Holds, HasEnded, lockVars
<1>11. Undo'
  <2>1. \A u \in Txns : \A i \in 1 .. Len(write_set'[u]) : Protected(u, write_set[u][i])'
    BY <1>4, SMTT(30) DEF Inv, Undo, Protected, lockVars
  <2>. QED
    BY <1>2, <1>4, <2>1, ZenonT(30) DEF Inv, Undo, HasEnded, lockVars
<1>12. Writers'
  <2>1. \A u : Settled(u)' <=> Settled(u)
    BY Zenon DEF Settled, HasEnded, lockVars
  <2>2. \A r \in Records : Settled(slots[r].by)'
    BY <2>1, Zenon DEF Inv, Writers, fileVars
  <2>3. \A u \in Txns : \A i \in 1 .. Len(write_set'[u]) : Settled(write_set[u][i].record.by)'
    BY <1>4, <2>1, SMTT(30) DEF Inv, Writers
  <2>. QED
    BY <2>2, <2>3, Zenon DEF Writers
<1>13. Logging'
  BY DEF Inv, Logging, HasEnded, CommitOrder, EndsBefore, lockVars
<1>14. LockInv'
  BY <1>1, UnchangedPreservesInv, Zenon
<1>. QED
  BY <1>6, <1>7, <1>8, <1>9, <1>10, <1>11, <1>12, <1>13, <1>14, SessionsKept, ZenonT(30) DEF Inv

\* The effect of unlock on the transaction that calls it, and on nobody else.
LEMMA UnlockEffect ==
  ASSUME LockInv, NEW t \in Txns, NEW o \in LockDataId, NEW res, unlock(t, o, res)
  PROVE  /\ \A u \in Txns \ {t} : state'[u] = state[u] /\ \A p \in LockDataId : queue'[p][u] = queue[p][u]
         /\ \A p \in LockDataId : queue'[p][t] \in {queue[p][t], NoRequest}
         /\ HasEnded(t) => state'[t] = state[t] /\ \A p \in LockDataId : queue'[p][t] = queue[p][t]
         /\ ~HasEnded(t) => queue'[o][t] = NoRequest /\ state'[t] = IF state[t] = "GROWING" THEN "SHRINKING" ELSE state[t]
<1>1. state \in [Txns -> TransactionState] /\ queue \in [LockDataId -> [Txns -> Requests]]
  BY Zenon DEF LockInv, LockTypeOK, Requests
<1>. QED
  BY <1>1, SMTT(30) DEF unlock, HasEnded, lockVars

\* One lock is released.
LEMMA ReleaseInv ==
  ASSUME Inv, NEW s \in Sessions, NEW t, t = txn_id[s], pc(s) \in Ending, release(t),
         UNCHANGED <<txn_id, thread, reply, deps>>
  PROVE  Inv' /\ [LockNext]_lockVars
<1>1. Types /\ LockInv /\ Ownership /\ Latching
  BY Zenon DEF Inv
<1>2. PICK o \in todo : (\E res \in Results : unlock(t, o, res)) /\ todo' = todo \ {o}
  BY Zenon DEF release
<1>3. Releasing(t) /\ UNCHANGED <<next_txn_id, txn_mode, write_set, latch, phase, log, fileVars>>
  BY Zenon DEF release, Releasing
<1>4. t \in Txns /\ t # INVALID_TXN_ID /\ o \in LockDataId
  <2>1. t \in Txns
    BY Zenon DEF Inv, SessionInv, Statement, Ending, Idle
  <2>. QED
    BY <1>1, <1>2, <2>1, TransactionIds, Zenon DEF Types
<1>5. LockInv' /\ LockNext
  BY <1>1, <1>2, <1>4, UnlockPreservesInv, Zenon DEF LockNext
<1>6. /\ \A u \in Txns \ {t} : state'[u] = state[u] /\ \A p \in LockDataId : queue'[p][u] = queue[p][u]
      /\ \A p \in LockDataId : queue'[p][t] \in {queue[p][t], NoRequest}
      /\ HasEnded(t) => state'[t] = state[t] /\ \A p \in LockDataId : queue'[p][t] = queue[p][t]
      /\ ~HasEnded(t) => queue'[o][t] = NoRequest /\ state'[t] = IF state[t] = "GROWING" THEN "SHRINKING" ELSE state[t]
  BY <1>1, <1>2, <1>4, UnlockEffect, Zenon
<1>7. \A u \in Txns : Releasing(u)' <=> u = t
  BY <1>3, Zenon DEF Releasing
<1>8. Types'
  BY <1>1, <1>2, <1>3, Zenon DEF Types, fileVars, ixVars
<1>9. Ownership'
  BY <1>1, <1>3, <1>4, <1>6, Zenon DEF Ownership
<1>10. Latching'
  <2>1. \A u \in Txns : state'[u] = "SHRINKING" => u = t
    BY <1>1, <1>3, <1>6, Zenon DEF Latching, Releasing
  <2>. QED
    BY <1>1, <1>3, <1>7, <2>1, Zenon DEF Latching, pc
<1>11. TableFirst' /\ Release'
  <2>1. TableFirst'
    <3>1. \A u \in Txns : queue'[fd][u] \in {queue[fd][u], NoRequest}
      BY <1>6, TableObject, Zenon
    <3>2. \A u \in Txns : queue'[fd][u] \in {NoRequest, "SHARED", "INTENTION_EXCLUSIVE", "S_IX"}
      BY <3>1, Zenon DEF Inv, TableFirst
    <3>3. \A u \in Txns \ {t}, p \in LockDataId : Holds(u, p)' <=> Holds(u, p)
      BY <1>6, Zenon DEF Holds
    <3>4. \A u \in Txns \ {t} : ~Releasing(u)
      BY <1>3, Zenon DEF Releasing
    <3>5. \A u \in Txns : ~Releasing(u)' => \A r \in Records : Holds(u, r)' => Holds(u, fd)'
      BY <1>7, <3>3, <3>4, TableObject, Zenon DEF Inv, TableFirst
    <3>. QED
      BY <3>2, <3>5, Zenon DEF TableFirst
  <2>2. Release'
    BY <1>2, <1>3, <1>6, <1>7, SMTT(30) DEF Inv, Release, Releasing, Holds, HasEnded
  <2>. QED
    BY <2>1, <2>2, Zenon
<1>12. Undo'
  <2>1. write_set[t] = <<>>
    BY <1>3, <1>4, Zenon DEF Inv, Undo
  <2>2. \A u \in Txns : HasEnded(u)' \/ Releasing(u)' => write_set'[u] = <<>>
    BY <1>3, <1>6, <1>7, <2>1, Zenon DEF Inv, Undo, HasEnded
  <2>3. ASSUME NEW u \in Txns, NEW i \in 1 .. Len(write_set'[u]) PROVE Protected(u, write_set[u][i])'
    <3>1. u # t
      BY <1>3, <2>1, SMTT(30)
    <3>2. write_set[u][i] \in WriteRecords /\ Protected(u, write_set[u][i])
      BY <1>1, <1>3, SMTT(30) DEF Types, Inv, Undo
    <3>. QED
      BY <1>3, <1>6, <3>1, <3>2, TableObject, Zenon DEF Protected, WriteRecords
  <2>. QED
    BY <1>3, <2>2, <2>3, Zenon DEF Undo, Releasing
<1>13. Writers'
  <2>1. ASSUME NEW u, Settled(u) PROVE Settled(u)'
    <3>1. CASE u # t
      BY <1>6, <2>1, <3>1, TableObject, Zenon DEF Settled, HasEnded
    <3>2. CASE u = t
      <4>1. state[t] # "DEFAULT"
        BY <1>1, <1>4, <2>1, <3>2, TableObject, Zenon DEF Settled, HasEnded, LockInv, DefaultHoldsNothing, NoRequest
      <4>2. state[t] \in {"GROWING", "SHRINKING", "COMMITTED", "ABORTED"}
        BY <1>1, <1>4, <4>1, Zenon DEF LockInv, LockTypeOK, TransactionState
      <4>. QED
        BY <1>6, <3>2, <4>2, Zenon DEF Settled, HasEnded
    <3>. QED
      BY <3>1, <3>2, Zenon
  <2>. QED
    BY <1>3, <2>1, Zenon DEF Inv, Writers, fileVars
<1>14. Logging'
  <2>1. \A u \in Txns : (HasEnded(u)' <=> HasEnded(u)) /\ (state[u] = "SHRINKING" => state'[u] = "SHRINKING")
    BY <1>6, Zenon DEF HasEnded
  <2>2. \A d \in deps : d[2] \in Txns
    BY <1>1, Zenon DEF Types
  <2>3. \A d \in deps' : d[1] # d[2] /\ (HasEnded(d[2])' \/ state'[d[2]] = "SHRINKING")
    BY <2>1, <2>2, Zenon DEF Inv, Logging, HasEnded
  <2>4. CommitOrder'
    BY <1>3, SMTT(30) DEF Inv, Logging, CommitOrder, EndsBefore
  <2>. QED
    BY <1>3, <2>1, <2>3, <2>4, Zenon DEF Inv, Logging
<1>15. ASSUME NEW r \in Sessions PROVE SessionInv(r)'
  <2>1. CASE r = s
    <3>1. SessionInv(s)
      BY Zenon DEF Inv
    <3>. QED
      BY <2>1, <3>1, Zenon DEF SessionInv, Statement, Executor, Locked, pc, Ending, Running, Idle
  <2>2. CASE r # s
    BY <1>3, <1>4, <1>6, <2>2, OwnTransaction, OthersKept, ZenonT(30)
  <2>. QED
    BY <2>1, <2>2, Zenon
<1>. QED
  BY <1>5, <1>8, <1>9, <1>10, <1>11, <1>12, <1>13, <1>14, <1>15, Zenon DEF Inv

\* A commit or abort that has called unlock on all locks holds none.
LEMMA NothingLeft ==
  ASSUME Inv, NEW t \in Txns, Releasing(t), todo = {}, NEW o \in LockDataId
  PROVE  ~Holds(t, o)
  BY Zenon DEF Inv, Release

\* The transactions with a record in a log, when it gets one more.
LEMMA LogExtended ==
  ASSUME NEW old, NEW new, Len(old) \in Nat, Len(new) = Len(old) + 1,
         \A i \in 1 .. Len(old) : new[i] = old[i],
         NEW t, new[Len(old) + 1][2] = t, NEW u
  PROVE  (\E i \in 1 .. Len(new) : new[i][2] = u) <=> (u = t \/ \E i \in 1 .. Len(old) : old[i][2] = u)
<1>1. ASSUME NEW i \in 1 .. Len(new), new[i][2] = u PROVE u = t \/ \E j \in 1 .. Len(old) : old[j][2] = u
  BY <1>1, SMTT(30)
<1>2. ASSUME u = t PROVE \E i \in 1 .. Len(new) : new[i][2] = u
  BY <1>2, SMTT(30)
<1>3. ASSUME NEW j \in 1 .. Len(old), old[j][2] = u PROVE \E i \in 1 .. Len(new) : new[i][2] = u
  BY <1>3, SMTT(30)
<1>. QED
  BY <1>1, <1>2, <1>3, Zenon

\* The log gets the record of t when t has ended, and every other transaction that has
\* been read from has ended before.
LEMMA LogStep ==
  ASSUME Logging, Types, NEW t \in Txns, NEW type \in {"COMMIT", "ABORT"},
         log' = Append(log, <<type, t>>), deps' = deps, HasEnded(t)',
         \A u \in Txns \ {t} : state'[u] = state[u] /\ state[u] # "SHRINKING"
  PROVE  Logging'
<1>1. /\ Len(log') = Len(log) + 1 /\ Len(log) \in Nat /\ log'[Len(log) + 1] = <<type, t>>
      /\ \A i \in 1 .. Len(log) : log'[i] = log[i]
  BY DEF Types
<1>2. \A u \in Txns : HasEnded(u)' <=> (u = t \/ HasEnded(u))
  BY Zenon DEF HasEnded
<1>3. \A u \in Txns : HasEnded(u)' <=> \E i \in 1 .. Len(log') : log'[i][2] = u
  <2>1. \A u \in Txns : (\E i \in 1 .. Len(log') : log'[i][2] = u) <=> (u = t \/ \E i \in 1 .. Len(log) : log[i][2] = u)
    <3>1. log'[Len(log) + 1][2] = t
      BY <1>1, SMTT(30)
    <3>. QED
      BY <1>1, <3>1, LogExtended, SMTT(30)
  <2>. QED
    BY <1>2, <2>1, Zenon DEF Logging
<1>4. \A d \in deps : d[2] \in Txns /\ d[1] # d[2] /\ (d[2] # t => HasEnded(d[2]))
  <2>1. \A d \in deps : d[2] \in Txns /\ d[1] # d[2] /\ (HasEnded(d[2]) \/ state[d[2]] = "SHRINKING")
    BY Zenon DEF Logging, Types
  <2>. QED
    BY <2>1, Zenon
<1>5. \A d \in deps' : d[1] # d[2] /\ (HasEnded(d[2])' \/ state'[d[2]] = "SHRINKING")
  BY <1>2, <1>4, Zenon
<1>6. CommitOrder'
  <2>. SUFFICES ASSUME NEW i \in 1 .. Len(log'), log'[i][1] = "COMMIT", NEW d \in deps, d[1] = log'[i][2]
                PROVE  \E j \in 1 .. i - 1 : log'[j][2] = d[2]
    BY Zenon DEF CommitOrder, EndsBefore
  <2>1. CASE i \in 1 .. Len(log)
    <3>1. EndsBefore(d[2], i)
      BY <1>1, <2>1, Zenon DEF Logging, CommitOrder
    <3>. QED
      BY <1>1, <2>1, <3>1, SMTT(30) DEF EndsBefore
  <2>2. CASE i = Len(log) + 1
    <3>1. d[2] # t /\ HasEnded(d[2])
      BY <1>1, <1>4, <2>2, SMTT(30)
    <3>2. PICK j \in 1 .. Len(log) : log[j][2] = d[2]
      BY <1>4, <3>1, Zenon DEF Logging
    <3>. QED
      BY <1>1, <2>2, <3>2, SMTT(30)
  <2>. QED
    BY <1>1, <2>1, <2>2, SMTT(30)
<1>. QED
  BY <1>3, <1>5, <1>6, Zenon DEF Logging

\* The transaction ends: its record is appended to the log, and latch_ is given up.
LEMMA EndStep ==
  ASSUME Inv, NEW s \in Sessions, NEW t, t = txn_id[s], pc(s) \in Ending, Releasing(t), Leave(t),
         NEW type \in {"COMMIT", "ABORT"}, log' = Append(log, <<type, t>>),
         NEW end \in {"COMMITTED", "ABORTED"}, state' = [state EXCEPT ![t] = end],
         set_committed(t) \/ set_aborted(t), UNCHANGED <<queue, group>>,
         NEW label \in {"write", "read"}, Goto(s, label),
         UNCHANGED <<next_txn_id, txn_mode, write_set, todo, fileVars, txn_id, reply, deps>>
  PROVE  Inv' /\ [LockNext]_lockVars
<1>1. Types /\ LockInv /\ Ownership /\ Latching /\ SessionInv(s) /\ state \in [Txns -> TransactionState]
  BY Zenon DEF Inv, LockInv, LockTypeOK
<1>2. t \in Txns /\ t # INVALID_TXN_ID /\ t < next_txn_id /\ label \in Labels
  <2>1. t \in Txns
    BY <1>1, Zenon DEF SessionInv, Statement, Ending, Idle
  <2>2. label \in Labels
    BY Zenon DEF Labels, Idle
  <2>. QED
    BY <1>1, <2>1, <2>2, TransactionIds, Zenon DEF Ownership
<1>3. todo = {} /\ latch' = INVALID_TXN_ID /\ phase' = "free" /\ latch = t
      /\ \A u \in Txns : ~Releasing(u)' /\ (Releasing(u) => u = t)
  BY Zenon DEF Leave, Releasing
<1>4. LockInv' /\ LockNext
  BY <1>1, <1>2, EndPreservesInv, Zenon DEF LockNext
<1>5. /\ \A u \in Txns \ {t} : state'[u] = state[u]
      /\ HasEnded(t)' /\ \A o \in LockDataId : ~Holds(t, o)
  BY <1>1, <1>2, <1>3, NothingLeft, Zenon DEF HasEnded
<1>6. /\ thread' \in [Sessions -> Threads]
      /\ \A r \in Sessions \ {s} : thread'[r] = thread[r]
      /\ pc(s)' = label /\ thread'[s].kind = thread[s].kind /\ thread'[s].key = thread[s].key
  BY <1>1, <1>2, AfterGoto, Zenon
<1>7. log' \in Seq({"COMMIT", "ABORT"} \X Txns)
  BY <1>1, <1>2, SMTT(30) DEF Types
<1>8. Types'
  BY <1>1, <1>3, <1>6, <1>7, Zenon DEF Types, fileVars, ixVars
<1>9. Ownership'
  <2>1. \A u \in Txns : next_txn_id <= u => u # t
    BY <1>1, <1>2, TransactionIds, SMTT(30) DEF Types
  <2>. QED
    BY <1>1, <1>5, <2>1, ZenonT(30) DEF Ownership
<1>10. \A u \in Txns : state'[u] # "SHRINKING"
  BY <1>1, <1>2, <1>3, <1>5, Zenon DEF Latching, HasEnded
<1>11. Latching'
  BY <1>3, <1>10, Zenon DEF Latching
<1>12. TableFirst' /\ Release'
  <2>1. \A u \in Txns, o \in LockDataId : (Holds(u, o)' <=> Holds(u, o)) /\ (Holds(u, o) => u # t)
    BY <1>5, Zenon DEF Holds
  <2>2. \A u \in Txns \ {t} : ~Releasing(u) /\ (HasEnded(u)' <=> HasEnded(u))
    BY <1>3, <1>5, Zenon DEF HasEnded
  <2>3. TableFirst'
    <3>1. \A u \in Txns : queue'[fd][u] \in {NoRequest, "SHARED", "INTENTION_EXCLUSIVE", "S_IX"}
      BY Zenon DEF Inv, TableFirst
    <3>2. \A u \in Txns, r \in Records : Holds(u, r)' => Holds(u, fd)'
      BY <2>1, <2>2, TableObject, Zenon DEF Inv, TableFirst
    <3>. QED
      BY <3>1, <3>2, Zenon DEF TableFirst
  <2>4. Release'
    BY <1>3, <2>1, <2>2, Zenon DEF Inv, Release
  <2>. QED
    BY <2>3, <2>4, Zenon
<1>13. Undo'
  <2>1. \A u \in Txns : HasEnded(u)' \/ Releasing(u)' => write_set'[u] = <<>>
    BY <1>2, <1>3, <1>5, ZenonT(30) DEF Inv, Undo, HasEnded
  <2>2. \A u \in Txns : \A i \in 1 .. Len(write_set'[u]) : Protected(u, write_set[u][i])'
    BY ZenonT(30) DEF Inv, Undo, Protected
  <2>. QED
    BY <1>3, <2>1, <2>2, Zenon DEF Undo
<1>14. Writers'
  <2>1. ASSUME NEW u, Settled(u) PROVE Settled(u)'
    BY <1>5, <2>1, Zenon DEF Settled, HasEnded
  <2>. QED
    BY <2>1, Zenon DEF Inv, Writers, fileVars
<1>15. Logging'
  <2>1. \A u \in Txns \ {t} : state[u] # "SHRINKING"
    BY <1>5, <1>10, Zenon
  <2>. QED
    BY <1>1, <1>2, <1>5, <2>1, LogStep, Zenon DEF Inv
<1>16. ASSUME NEW r \in Sessions PROVE SessionInv(r)'
  <2>1. CASE r = s
    <3>1. Statement(s)'
      BY <1>2, <1>5, <1>6, Zenon DEF Statement, Running, Idle, HasEnded
    <3>2. Executor(s)' /\ Locked(s)'
      BY <1>1, <1>6, Zenon DEF SessionInv, Executor, Locked
    <3>. QED
      BY <2>1, <3>1, <3>2, Zenon DEF SessionInv
  <2>2. CASE r # s
    <3>1. txn_id[r] # t
      BY <1>2, <2>2, OwnTransaction, Zenon
    <3>. QED
      BY <1>2, <1>5, <1>6, <2>2, <3>1, OthersKept, Zenon
  <2>. QED
    BY <2>1, <2>2, Zenon
<1>. QED
  BY <1>4, <1>8, <1>9, <1>11, <1>12, <1>13, <1>14, <1>15, <1>16, Zenon DEF Inv

\* A commit, from its first to its last step.
LEMMA CommitInv == ASSUME Inv, NEW s \in Sessions, Commit(s) PROVE Inv' /\ [LockNext]_lockVars
<1>. PICK t : t = txn_id[s]
  BY Zenon
<1>1. pc(s) \in {"commit", "autocommit"} /\ UNCHANGED <<txn_id, requests, reply, deps>>
  BY Zenon DEF Commit
<1>2. t \in Txns /\ pc(s) \in Ending /\ Latching
  BY <1>1, Zenon DEF Inv, SessionInv, Statement, Ending, Idle
<1>3. CASE commit(t) /\ UNCHANGED thread
  BY <1>1, <1>2, <1>3, ReleaseBegins, Zenon DEF commit, Enter, NoWait, Latching
<1>4. CASE release(t) /\ UNCHANGED thread
  BY <1>1, <1>2, <1>4, ReleaseInv, Zenon
<1>5. CASE commit_end(t) /\ Goto(s, IF pc(s) = "commit" THEN "write" ELSE "read")
  <2>1. Releasing(t) /\ Leave(t) /\ todo = {} /\ log' = Append(log, <<"COMMIT", t>>)
        /\ state' = [state EXCEPT ![t] = "COMMITTED"]
        /\ UNCHANGED <<queue, group, lock_set, next_txn_id, txn_mode, write_set, todo, fileVars>>
    BY <1>5, Zenon DEF commit_end, Releasing, Leave
  <2>2. set_committed(t)
    BY <1>2, <2>1, NothingLeft, Zenon DEF set_committed
  <2>3. PICK label \in {"write", "read"} : Goto(s, label)
    BY <1>5, Zenon
  <2>. QED
    BY <1>1, <1>2, <2>1, <2>2, <2>3, EndStep, Zenon
<1>. QED
  BY <1>3, <1>4, <1>5, Zenon DEF Commit

\* A transaction that has a write to undo may still acquire locks, and has the record of the
\* write and the table locked.
LEMMA UndoLocks ==
  ASSUME Inv, NEW t \in Txns, latch = t, phase \in {"undo", "reset"}, write_set[t] # <<>>
  PROVE  /\ Active(t) /\ Holds(t, fd) /\ ~Releasing(t) /\ Back(t) \in WriteRecords
         /\ Protected(t, Back(t)) /\ Settled(Back(t).record.by)
<1>1. Types /\ state \in [Txns -> TransactionState]
  BY Zenon DEF Inv, LockInv, LockTypeOK
<1>2. ~Releasing(t)
  BY Zenon DEF Releasing
<1>3. Active(t)
  BY <1>1, <1>2, Zenon DEF Inv, Undo, Latching, Active, HasEnded, TransactionState
<1>4. Len(write_set[t]) \in 1 .. Len(write_set[t]) /\ write_set[t] \in Seq(WriteRecords)
  BY <1>1, SMTT(30) DEF Types
<1>5. Back(t) \in WriteRecords /\ Protected(t, Back(t)) /\ Settled(Back(t).record.by)
  BY <1>4, SMTT(30) DEF Inv, Undo, Writers, Back
<1>. QED
  BY <1>2, <1>3, <1>5, Zenon DEF Protected, Holds, NoRequest

\* A step of a rollback: it may acquire a lock, write back an old row, and drop its last write.
LEMMA UndoKeeps ==
  ASSUME Inv, NEW t \in Txns, latch = t, phase \in {"undo", "reset"}, write_set[t] # <<>>,
         [LockNext]_lockVars, Strengthens(t), \A u \in Txns : ~Releasing(u)', phase' = "reset" => latch' = t,
         UNCHANGED <<next_txn_id, txn_mode, todo, log, txn_id, deps>>,
         \/ slots' = slots
         \/ \E r \in Records, row \in Rows : slots' = [slots EXCEPT ![r] = row] /\ Settled(row.by),
         \/ write_set' = write_set
         \/ PopBack(t) /\ phase' = "undo"
  PROVE  /\ LockInv' /\ Ownership' /\ TableFirst' /\ Release' /\ Undo' /\ Writers' /\ Logging'
         /\ write_set' \in [Txns -> Seq(WriteRecords)] /\ \A u \in Txns : state'[u] # "SHRINKING"
<1>1. Types /\ LockInv /\ Ownership /\ Latching
  BY Zenon DEF Inv
<1>2. Active(t) /\ \A u \in Txns : ~Releasing(u)
  BY UndoLocks, Zenon DEF Releasing
<1>3. LockInv'
  BY <1>1, NextPreservesInv, Zenon
<1>4. \A u \in Txns : Releasing(u)' <=> Releasing(u)
  BY <1>2, Zenon
<1>5. \A u : Settled(u) => Settled(u)'
  BY <1>1, SettledKept, Zenon
<1>6. /\ write_set' \in [Txns -> Seq(WriteRecords)]
      /\ \A u \in Txns \ {t} : write_set'[u] = write_set[u]
      /\ \A i \in 1 .. Len(write_set'[t]) : i \in 1 .. Len(write_set[t]) /\ write_set'[t][i] = write_set[t][i]
  <2>1. CASE write_set' = write_set
    BY <1>1, <2>1, Zenon DEF Types
  <2>2. CASE PopBack(t)
    <3>. PICK w : w = write_set[t]
      BY Zenon
    <3>1. w \in Seq(WriteRecords) /\ Len(w) \in Nat /\ Len(w) > 0
      BY <1>1, SMTT(30) DEF Types
    <3>2. SubSeq(w, 1, Len(w) - 1) \in Seq(WriteRecords) /\ Len(SubSeq(w, 1, Len(w) - 1)) = Len(w) - 1
          /\ \A i \in 1 .. Len(w) - 1 : SubSeq(w, 1, Len(w) - 1)[i] = w[i]
      BY <3>1, SMTT(30)
    <3>3. write_set'[t] = SubSeq(w, 1, Len(w) - 1) /\ \A u \in Txns \ {t} : write_set'[u] = write_set[u]
      BY <1>1, <2>2, Zenon DEF Types, PopBack
    <3>4. write_set' \in [Txns -> Seq(WriteRecords)]
      BY <1>1, <2>2, <3>2, Zenon DEF Types, PopBack
    <3>. QED
      BY <3>1, <3>2, <3>3, <3>4, SMTT(30)
  <2>. QED
    BY <2>1, <2>2, Zenon
<1>7. Ownership'
  <2>1. \A u \in Txns : next_txn_id <= u => u # t
    BY <1>1, TransactionIds, Zenon DEF Types, Ownership
  <2>. QED
    <3>1. \A u \in Txns : next_txn_id' <= u => state'[u] = "DEFAULT" /\ ~txn_mode'[u] /\ write_set'[u] = <<>>
      BY <1>1, <1>6, <2>1, ZenonT(30) DEF Ownership, Strengthens
    <3>. QED
      BY <1>1, <3>1, Zenon DEF Ownership
<1>8. \A u \in Txns : state'[u] # "SHRINKING"
  <2>1. \A u \in Txns : state'[u] = "SHRINKING" => state[u] = "SHRINKING"
    BY Zenon DEF Strengthens, Active
  <2>. QED
    BY <1>1, <1>2, <2>1, Zenon DEF Latching
<1>9. TableFirst' /\ Release'
  BY <1>2, <1>4, LocksKept, Zenon
<1>10. Undo'
  <2>1. ~HasEnded(t)
    BY <1>2, Zenon DEF HasEnded, Active
  <2>2. /\ \A u \in Txns : HasEnded(u)' \/ Releasing(u)' => write_set'[u] = <<>>
        /\ \A u \in Txns : \A i \in 1 .. Len(write_set'[u]) : Protected(u, write_set[u][i])'
    BY <1>2, <1>4, <1>6, <2>1, WritesKept, Zenon
  <2>. QED
    BY <2>2, Zenon DEF Undo
<1>11. Writers'
  <2>1. \A r \in Records : Settled(slots[r].by)'
    <3>1. \A r \in Records : Settled(slots[r].by)
      BY Zenon DEF Inv, Writers
    <3>2. CASE slots' = slots
      BY <1>5, <3>1, <3>2, Zenon
    <3>3. ASSUME NEW q \in Records, NEW row \in Rows, slots' = [slots EXCEPT ![q] = row], Settled(row.by)
          PROVE  \A r \in Records : Settled(slots'[r].by)
      BY <1>1, <3>1, <3>3, ZenonT(30) DEF Types
    <3>. QED
      BY <1>5, <3>2, <3>3, Zenon
  <2>2. ASSUME NEW u \in Txns, NEW i \in 1 .. Len(write_set'[u])
        PROVE  Settled(write_set[u][i].record.by)'
    <3>1. i \in 1 .. Len(write_set[u]) /\ write_set'[u][i] = write_set[u][i]
      BY <1>6, Zenon
    <3>2. Settled(write_set[u][i].record.by)
      BY <3>1, Zenon DEF Inv, Writers
    <3>. QED
      BY <1>5, <3>1, <3>2, ZenonT(30)
  <2>. QED
    BY <2>1, <2>2, Zenon DEF Writers
<1>12. Logging'
  <2>1. \A u \in Txns : (HasEnded(u)' <=> HasEnded(u)) /\ (state'[u] = "SHRINKING" <=> state[u] = "SHRINKING")
    BY <1>2, Zenon DEF Strengthens, HasEnded, Active
  <2>2. \A d \in deps : d[2] \in Txns
    BY <1>1, Zenon DEF Types
  <2>3. \A d \in deps' : d[1] # d[2] /\ (HasEnded(d[2])' \/ state'[d[2]] = "SHRINKING")
    BY <2>1, <2>2, Zenon DEF Inv, Logging, HasEnded
  <2>4. CommitOrder'
    BY ZenonT(30) DEF Inv, Logging, CommitOrder, EndsBefore
  <2>. QED
    BY <2>1, <2>3, <2>4, Zenon DEF Inv, Logging
<1>. QED
  BY <1>3, <1>6, <1>7, <1>8, <1>9, <1>10, <1>11, <1>12, Zenon

\* Such a step that does not leave the abort.
LEMMA UndoStep ==
  ASSUME Inv, NEW s \in Sessions, NEW t \in Txns, t = txn_id[s], pc(s) = "abort",
         latch = t, phase \in {"undo", "reset"}, write_set[t] # <<>>,
         [LockNext]_lockVars, Strengthens(t),
         UNCHANGED <<next_txn_id, txn_mode, latch, todo, log, txn_id, thread, reply, deps>>,
         slots' \in [Records -> Rows], bitmap' \subseteq Records, byte' \in [Txns -> SUBSET Records], root_latch' = root_latch,
         \/ slots' = slots
         \/ \E r \in Records, row \in Rows : slots' = [slots EXCEPT ![r] = row] /\ Settled(row.by),
         \/ write_set' = write_set /\ phase' = "reset"
         \/ PopBack(t) /\ phase' = "undo"
  PROVE  Inv' /\ [LockNext]_lockVars
<1>1. Types /\ Latching /\ t # INVALID_TXN_ID /\ phase' \in {"undo", "reset"}
  BY TransactionIds, Zenon DEF Inv
<1>2. \A u \in Txns : ~Releasing(u)'
  BY <1>1, Zenon DEF Releasing
<1>3. /\ LockInv' /\ Ownership' /\ TableFirst' /\ Release' /\ Undo' /\ Writers' /\ Logging'
      /\ write_set' \in [Txns -> Seq(WriteRecords)] /\ \A u \in Txns : state'[u] # "SHRINKING"
  BY <1>2, UndoKeeps, Zenon
<1>4. Types'
  BY <1>1, <1>3, Zenon DEF Types
<1>5. Latching'
  BY <1>1, <1>3, Zenon DEF Latching, pc
<1>6. ASSUME NEW r \in Sessions PROVE SessionInv(r)'
  <2>1. CASE r = s
    <3>1. SessionInv(s)
      BY Zenon DEF Inv
    <3>. QED
      BY <2>1, <3>1, Zenon DEF SessionInv, Statement, Executor, Locked, pc, Running, Idle
  <2>2. CASE r # s
    BY <2>2, OwnTransaction, OthersKept, ZenonT(30) DEF Strengthens
  <2>. QED
    BY <2>1, <2>2, Zenon
<1>. QED
  BY <1>3, <1>4, <1>5, <1>6, Zenon DEF Inv

\* The lock call of a rollback.
LEMMA UndoCall ==
  ASSUME Inv, NEW t \in Txns, latch = t, phase \in {"undo", "reset"}, write_set[t] # <<>>, NEW r \in Records,
         NEW mode \in {"SHARED", "EXCLUSIVE"}, NEW res \in Results, RequestReturns(t, r, mode, res)
  PROVE  LockNext /\ Strengthens(t)
<1>1. LockInv /\ TableFirst /\ Holds(t, fd)
  BY UndoLocks, Zenon DEF Inv
<1>. QED
  BY <1>1, RecordCall, CallIsStep, TableObject, Zenon

\* An abort takes latch_.
LEMMA EnterAbort ==
  ASSUME Inv, NEW s \in Sessions, NEW t \in Txns, t = txn_id[s], pc(s) = "abort", abort(t),
         UNCHANGED <<thread, txn_id, reply, deps>>
  PROVE  Inv' /\ [LockNext]_lockVars
<1>1. latch = INVALID_TXN_ID /\ latch' = t /\ phase' = "undo" /\ phase = "free" /\ t # INVALID_TXN_ID
      /\ UNCHANGED <<next_txn_id, txn_mode, write_set, todo, log, lockVars, fileVars>>
  BY TransactionIds, Zenon DEF abort, Enter, NoWait, Inv, Latching
<1>2. \A u \in Txns : ~Releasing(u) /\ ~Releasing(u)' /\ state[u] # "SHRINKING"
  BY <1>1, Zenon DEF Inv, Latching, Releasing
<1>3. LockInv'
  BY <1>1, UnchangedPreservesInv, Zenon DEF Inv
<1>4. Types'
  BY <1>1, Zenon DEF Inv, Types, fileVars, ixVars
<1>5. Ownership'
  BY <1>1, Zenon DEF Inv, Ownership, lockVars
<1>6. Latching'
  BY <1>1, <1>2, Zenon DEF Latching, pc, lockVars
<1>7. TableFirst' /\ Release'
  <2>1. TableFirst'
    BY <1>1, <1>2, Zenon DEF Inv, TableFirst, Holds, lockVars
  <2>2. Release'
    BY <1>1, <1>2, Zenon DEF Inv, Release, Holds, HasEnded, lockVars
  <2>. QED
    BY <2>1, <2>2, Zenon
<1>8. Undo' /\ Writers'
  <2>1. \A u \in Txns : HasEnded(u)' \/ Releasing(u)' => write_set'[u] = <<>>
    BY <1>1, <1>2, Zenon DEF Inv, Undo, HasEnded, lockVars
  <2>2. \A u \in Txns : \A i \in 1 .. Len(write_set'[u]) : Protected(u, write_set[u][i])'
    BY <1>1, ZenonT(30) DEF Inv, Undo, Protected, lockVars
  <2>3. Writers'
    BY <1>1, WritersKept, Zenon DEF Inv, lockVars, fileVars
  <2>. QED
    BY <1>1, <2>1, <2>2, <2>3, Zenon DEF Undo
<1>9. Logging'
  BY <1>1, LogKept, Zenon DEF Inv, lockVars
<1>. QED
  BY <1>1, <1>3, <1>4, <1>5, <1>6, <1>7, <1>8, <1>9, SessionsKept, Zenon DEF Inv

\* The undo of one write.
LEMMA RollbackInv ==
  ASSUME Inv, NEW s \in Sessions, NEW t \in Txns, t = txn_id[s], pc(s) = "abort",
         \/ rollback_insert(t) \/ rollback_insert_reset(t) \/ rollback_delete(t) \/ rollback_update(t),
         UNCHANGED <<thread, txn_id, reply, deps>>
  PROVE  Inv' /\ [LockNext]_lockVars
<1>. PICK w : w = Back(t)
  BY Zenon
<1>1. latch = t /\ phase \in {"undo", "reset"} /\ write_set[t] # <<>> /\ Types /\ LockInv /\ TableFirst
  BY Zenon DEF rollback_insert, rollback_insert_reset, rollback_delete, rollback_update, Undoing, Inv, Undo
<1>2. w \in WriteRecords /\ w.rid \in Records /\ w.record \in Rows /\ Settled(w.record.by)
  BY <1>1, UndoLocks, Zenon DEF WriteRecords
<1>3. CASE rollback_insert(t)
  <2>1. PICK res \in Results \ {"abort"} : lock_exclusive_on_record(t, w.rid, res)
    BY <1>3, Zenon DEF rollback_insert, delete_record_load
  <2>2. RequestReturns(t, w.rid, "EXCLUSIVE", res)
    BY <1>2, <2>1, Zenon DEF RequestReturns
  <2>3. LockNext /\ Strengthens(t)
    BY <1>1, <1>2, <2>2, UndoCall, Zenon
  <2>4. /\ slots' = slots /\ bitmap' = bitmap /\ byte' = [byte EXCEPT ![t] = bitmap] /\ phase' = "reset"
        /\ UNCHANGED <<root_latch, next_txn_id, txn_mode, write_set, latch, todo, log>>
    BY <1>3, Zenon DEF rollback_insert, delete_record_load
  <2>5. slots' \in [Records -> Rows] /\ bitmap' \subseteq Records /\ byte' \in [Txns -> SUBSET Records]
    BY <1>1, <2>4, Zenon DEF Types
  <2>. QED
    BY <1>1, <2>3, <2>4, <2>5, UndoStep, Zenon
<1>4. CASE rollback_insert_reset(t)
  <2>1. /\ slots' = slots /\ bitmap' = byte[t] \ {w.rid} /\ byte' = [byte EXCEPT ![t] = {}] /\ phase' = "undo" /\ PopBack(t)
        /\ UNCHANGED <<root_latch, next_txn_id, txn_mode, latch, todo, log, lockVars>>
    BY <1>4, Zenon DEF rollback_insert_reset, delete_record_reset, ixVars
  <2>2. slots' \in [Records -> Rows] /\ bitmap' \subseteq Records /\ byte' \in [Txns -> SUBSET Records]
    BY <1>1, <2>1, Zenon DEF Types
  <2>3. Strengthens(t)
    BY <1>1, <2>1, NoLockCall, Zenon DEF lockVars
  <2>. QED
    BY <1>1, <2>1, <2>2, <2>3, UndoStep, Zenon
<1>5. CASE rollback_delete(t)
  <2>. PICK r : r = next_bit(FreeSlots, NoRid)
    BY Zenon
  <2>1. r \in Records /\ \E res \in Results \ {"abort"} : lock_exclusive_on_record(t, r, res)
    BY <1>5, Zenon DEF rollback_delete, insert_record
  <2>2. LockNext /\ Strengthens(t)
    BY <1>1, <2>1, UndoCall, Zenon DEF RequestReturns
  <2>3. /\ slots' = [slots EXCEPT ![r] = w.record] /\ bitmap' = bitmap \cup {r} /\ byte' = byte /\ phase' = phase /\ PopBack(t)
        /\ UNCHANGED <<root_latch, next_txn_id, txn_mode, latch, todo, log>> /\ phase = "undo"
    BY <1>5, Zenon DEF rollback_delete, insert_record, Undoing
  <2>4. slots' \in [Records -> Rows] /\ bitmap' \subseteq Records /\ byte' \in [Txns -> SUBSET Records]
    BY <1>1, <1>2, <2>1, <2>3, Zenon DEF Types
  <2>5. \E q \in Records, row \in Rows : slots' = [slots EXCEPT ![q] = row] /\ Settled(row.by)
    BY <1>2, <2>1, <2>3, Zenon
  <2>. QED
    BY <1>1, <2>2, <2>3, <2>4, <2>5, UndoStep, Zenon
<1>6. CASE rollback_update(t)
  <2>1. PICK res \in Results \ {"abort"} : update_record(t, w.rid, w.record, res)
    BY <1>6, Zenon DEF rollback_update
  <2>2. LockNext /\ Strengthens(t)
    BY <1>1, <1>2, <2>1, UndoCall, Zenon DEF RequestReturns, update_record
  <2>3. /\ slots' = [slots EXCEPT ![w.rid] = w.record] /\ bitmap' = bitmap /\ byte' = byte /\ phase' = phase /\ PopBack(t)
        /\ UNCHANGED <<root_latch, next_txn_id, txn_mode, latch, todo, log>> /\ phase = "undo"
    BY <1>6, <2>1, Zenon DEF rollback_update, update_record, Undoing
  <2>4. slots' \in [Records -> Rows] /\ bitmap' \subseteq Records /\ byte' \in [Txns -> SUBSET Records]
    BY <1>1, <1>2, <2>3, Zenon DEF Types
  <2>5. \E q \in Records, row \in Rows : slots' = [slots EXCEPT ![q] = row] /\ Settled(row.by)
    BY <1>2, <2>3, Zenon
  <2>. QED
    BY <1>1, <2>2, <2>3, <2>4, <2>5, UndoStep, Zenon
<1>. QED
  BY <1>3, <1>4, <1>5, <1>6, Zenon

\* An abort, from its first to its last step.
LEMMA AbortInv == ASSUME Inv, NEW s \in Sessions, Abort(s) PROVE Inv' /\ [LockNext]_lockVars
<1>. PICK t : t = txn_id[s]
  BY Zenon
<1>1. pc(s) = "abort" /\ UNCHANGED <<txn_id, requests, reply, deps>>
  BY Zenon DEF Abort
<1>2. t \in Txns /\ pc(s) \in Ending /\ Types
  BY <1>1, Zenon DEF Inv, SessionInv, Statement, Ending, Idle
<1>3. CASE abort(t) /\ UNCHANGED thread
  BY <1>1, <1>2, <1>3, EnterAbort, Zenon
<1>4. CASE (rollback_insert(t) \/ rollback_insert_reset(t) \/ rollback_delete(t) \/ rollback_update(t)) /\ UNCHANGED thread
  BY <1>1, <1>2, <1>4, RollbackInv, Zenon
<1>5. CASE rollback_done(t) /\ UNCHANGED thread
  <2>1. write_set' = [write_set EXCEPT ![t] = <<>>]
    BY <1>2, <1>5, Zenon DEF rollback_done, Types
  <2>. QED
    BY <1>1, <1>2, <1>5, <2>1, ReleaseBegins, Zenon DEF rollback_done
<1>6. CASE release(t) /\ UNCHANGED thread
  BY <1>1, <1>2, <1>6, ReleaseInv, Zenon
<1>7. CASE abort_end(t) /\ Goto(s, "write")
  <2>1. Releasing(t) /\ Leave(t) /\ todo = {} /\ log' = Append(log, <<"ABORT", t>>)
        /\ state' = [state EXCEPT ![t] = "ABORTED"] /\ lock_set' = [lock_set EXCEPT ![t] = {}]
        /\ UNCHANGED <<queue, group, next_txn_id, txn_mode, write_set, todo, fileVars>>
    BY <1>7, Zenon DEF abort_end, Releasing, Leave
  <2>2. set_aborted(t)
    BY <1>2, <2>1, NothingLeft, Zenon DEF set_aborted
  <2>. QED
    BY <1>1, <1>2, <1>7, <2>1, <2>2, EndStep, Zenon
<1>. QED
  BY <1>3, <1>4, <1>5, <1>6, <1>7, Zenon DEF Abort, abort_step

\* An abort that throws.
LEMMA AbortThrowsInv == ASSUME Inv, NEW s \in Sessions, AbortThrows(s) PROVE Inv' /\ [LockNext]_lockVars
<1>. PICK t : t = txn_id[s]
  BY Zenon
<1>1. pc(s) = "abort" /\ rollback_insert_throws(t) /\ UNCHANGED <<txn_id, requests, deps>> /\ Types
  BY Zenon DEF AbortThrows, Inv
<1>2. t \in Txns /\ latch = t /\ phase = "undo" /\ write_set[t] # <<>>
  BY <1>1, Zenon DEF Inv, SessionInv, Statement, Idle, rollback_insert_throws, Undoing
<1>3. /\ latch' = INVALID_TXN_ID /\ phase' = "free" /\ root_latch' = TRUE
      /\ UNCHANGED <<slots, bitmap, byte, index, next_txn_id, txn_mode, write_set, todo, log>>
  BY <1>1, Zenon DEF rollback_insert_throws
<1>4. PICK res \in Results \ {"abort"} : lock_shared_on_record(t, Back(t).rid, res)
  BY <1>1, Zenon DEF rollback_insert_throws
<1>5. Back(t).rid \in Records
  BY <1>2, UndoLocks, Zenon DEF WriteRecords
<1>6. LockNext /\ Strengthens(t)
  BY <1>2, <1>4, <1>5, UndoCall, Zenon DEF RequestReturns
<1>7. \A u \in Txns : ~Releasing(u)'
  BY <1>3, Zenon DEF Releasing
<1>8. /\ LockInv' /\ Ownership' /\ TableFirst' /\ Release' /\ Undo' /\ Writers' /\ Logging'
      /\ \A u \in Txns : state'[u] # "SHRINKING"
  BY <1>1, <1>2, <1>3, <1>6, <1>7, UndoKeeps, Zenon
<1>9. /\ thread' \in [Sessions -> Threads] /\ reply' \in [Sessions -> {"ok", "abort", "failure"}]
      /\ \/ pc(s)' = "write" /\ thread'[s].kind = "none" /\ \A r \in Sessions \ {s} : thread'[r] = thread[r]
         \/ \A r \in Sessions : pc(r)' = "terminated" /\ thread'[r].kind = "none"
  <2>1. CASE Answer(s, "failure")
    BY <1>1, <2>1, AfterAnswer, Zenon
  <2>2. CASE thread' = [u \in Sessions |-> [Waiting EXCEPT !.pc = "terminated"]] /\ UNCHANGED reply
    <3>1. [Waiting EXCEPT !.pc = "terminated"] \in Threads
      BY WaitingThread, Zenon DEF Labels, Idle
    <3>. QED
      BY <1>1, <2>2, <3>1, Zenon DEF Types, pc, Waiting
  <2>. QED
    BY <2>1, <2>2, Zenon DEF AbortThrows
<1>10. Types'
  BY <1>1, <1>3, <1>9, Zenon DEF Types
<1>11. Latching'
  BY <1>3, <1>8, Zenon DEF Latching
<1>12. ASSUME NEW r \in Sessions PROVE SessionInv(r)'
  <2>1. CASE pc(r)' = "terminated" /\ thread'[r].kind = "none"
    BY <2>1, Zenon DEF SessionInv, Statement, Executor, Locked, Running, Idle
  <2>2. CASE r = s /\ pc(s)' = "write" /\ thread'[s].kind = "none"
    BY <1>1, <1>2, <2>2, NoStatement, Zenon
  <2>3. CASE r # s /\ thread'[r] = thread[r]
    BY <1>1, <1>2, <1>3, <1>6, <2>3, OwnTransaction, OthersKept, Zenon DEF Strengthens
  <2>. QED
    BY <1>9, <2>1, <2>2, <2>3, Zenon
<1>. QED
  BY <1>6, <1>8, <1>10, <1>11, <1>12, Zenon DEF Inv

=============================================================================
