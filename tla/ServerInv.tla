----------------------------- MODULE ServerInv -----------------------------
(***************************************************************************)
(* The server's inductive invariant.  ServerStatements and ServerEnds      *)
(* prove that its steps preserve it, ServerProofs what follows from it.    *)
(*                                                                         *)
(* What keeps transactions apart is spread over three components: the lock *)
(* manager makes the locks of two transactions compatible, the executors   *)
(* take a lock on the table before they lock its records, and latch_ lets  *)
(* one transaction at a time give its locks up.  The invariant says what   *)
(* each of them contributes.                                               *)
(***************************************************************************)
EXTENDS Server, LockManagerProofs

\* The labels of a thread: a statement is being executed, a transaction is being
\* ended, or there is no request to answer.
Running == {"lock_S", "scan", "lock_IX", "unique", "slot", "copy", "set", "entry", "row", "change"}
Ending == {"commit", "autocommit", "abort"}
Idle == {"read", "closed", "terminated"}
Labels == Running \cup Ending \cup Idle \cup {"write", "begin", "bad"}

Kinds == {"begin", "commit", "abort", "bad", "insert", "select", "update", "delete", "none"}

Threads == [pc : Labels, kind : Kinds, key : Keys \cup {NoKey},
            at : Records \cup {NoRid}, rids : Seq(Records)]

WriteRecords == [wtype : {"INSERT_TUPLE", "DELETE_TUPLE", "UPDATE_TUPLE"},
                 rid : Records, record : Rows]

\* The types of all variables but the lock manager's and the index.
Types ==
  /\ slots \in [Records -> Rows]
  /\ bitmap \subseteq Records
  /\ byte \in [Txns -> SUBSET Records]
  /\ root_latch \in BOOLEAN
  /\ next_txn_id \in Nat
  /\ txn_mode \in [Txns -> BOOLEAN]
  /\ write_set \in [Txns -> Seq(WriteRecords)]
  /\ latch \in Txns \cup {INVALID_TXN_ID}
  /\ phase \in {"free", "commit", "undo", "reset", "abort"}
  /\ todo \subseteq LockDataId
  /\ log \in Seq({"COMMIT", "ABORT"} \X Txns)
  /\ thread \in [Sessions -> Threads]
  /\ txn_id \in [Sessions -> Txns \cup {INVALID_TXN_ID}]
  /\ reply \in [Sessions -> {"ok", "abort", "failure"}]
  /\ deps \subseteq Txns \X Txns

HasEnded(t) == state[t] \in {"COMMITTED", "ABORTED"}
Active(t) == state[t] \in {"DEFAULT", "GROWING"}

\* The commit or abort of t is past its writes, and gives the locks of t up.
Releasing(t) == latch = t /\ phase \in {"commit", "abort"}

\* Every session has a transaction of its own, which no other session ever had.
Ownership ==
  /\ \A s \in Sessions : txn_id[s] < next_txn_id
  /\ \A s, r \in Sessions : s # r /\ txn_id[s] = txn_id[r] => txn_id[s] = INVALID_TXN_ID
  /\ \A t \in Txns : next_txn_id <= t => state[t] = "DEFAULT" /\ ~txn_mode[t] /\ write_set[t] = <<>>

\* latch_ is held by the thread of the transaction that commits or aborts.
Latching ==
  /\ latch = INVALID_TXN_ID <=> phase = "free"
  /\ latch # INVALID_TXN_ID =>
       \E s \in Sessions : txn_id[s] = latch
                           /\ pc(s) \in IF phase = "commit" THEN {"commit", "autocommit"} ELSE {"abort"}
  /\ \A t \in Txns : state[t] = "SHRINKING" => Releasing(t)

\* A statement is executed by a transaction that may still acquire locks, and after a
\* statement outside an explicit transaction its transaction has ended.
Statement(s) ==
  /\ pc(s) \notin Idle => txn_id[s] \in Txns
  /\ pc(s) \in Running => Active(txn_id[s])
  /\ pc(s) = "read" /\ txn_id[s] # INVALID_TXN_ID /\ ~txn_mode[txn_id[s]] => HasEnded(txn_id[s])

\* What an executor works on.
Executor(s) ==
  /\ pc(s) \in {"unique", "slot", "copy", "set", "entry"} => thread[s].kind = "insert"
  /\ pc(s) \in {"lock_S", "scan", "row", "change"} => thread[s].kind \in {"select", "update", "delete"}
  /\ pc(s) = "lock_IX" => thread[s].kind \in {"insert", "update", "delete"}
  /\ thread[s].kind \in {"insert", "update"} => thread[s].key \in Keys
  /\ pc(s) \in {"copy", "set", "entry"} => thread[s].at \in Records
  /\ pc(s) = "change" => thread[s].rids # <<>>

\* What it has locked.
Locked(s) ==
  LET mode == queue[fd][txn_id[s]]
  IN  /\ pc(s) \in {"unique", "slot", "copy", "set", "entry"} => mode \in {"INTENTION_EXCLUSIVE", "S_IX"}
      /\ pc(s) = "scan" => mode \in {"SHARED", "S_IX"}
      /\ pc(s) = "lock_IX" /\ thread[s].kind # "insert" => mode \in {"SHARED", "S_IX"}
      /\ pc(s) \in {"row", "change"} => mode = "S_IX"
      /\ pc(s) \in {"set", "entry"} => queue[thread[s].at][txn_id[s]] = "EXCLUSIVE"

SessionInv(s) == Statement(s) /\ Executor(s) /\ Locked(s)

\* The server asks for S and IX on the table only, and for a lock on a record only when
\* it has one on the table, which it gives up only in a commit or abort.
TableFirst ==
  \A t \in Txns :
    /\ queue[fd][t] \in {NoRequest, "SHARED", "INTENTION_EXCLUSIVE", "S_IX"}
    /\ ~Releasing(t) => \A r \in Records : Holds(t, r) => Holds(t, fd)

\* A commit or abort still has to release every lock that is left, and a transaction
\* that has ended has none.
Release ==
  \A t \in Txns, o \in LockDataId :
    Holds(t, o) => ~HasEnded(t) /\ (Releasing(t) => o \in todo)

\* A write that may have to be undone is protected by the locks of its transaction: the
\* record is locked X, and the table SIX by whoever has scanned it before.
Protected(t, w) ==
  /\ queue[w.rid][t] = "EXCLUSIVE"
  /\ queue[fd][t] = "S_IX" \/ (w.wtype = "INSERT_TUPLE" /\ queue[fd][t] = "INTENTION_EXCLUSIVE")

Undo ==
  /\ \A t \in Txns : HasEnded(t) \/ Releasing(t) => write_set[t] = <<>>
  /\ \A t \in Txns : \A i \in 1 .. Len(write_set[t]) : Protected(t, write_set[t][i])
  /\ phase = "reset" => write_set[latch] # <<>>

\* Whoever wrote a row has ended, is past its rollback, or has the table locked for writing.
Settled(u) ==
  u \in Txns => HasEnded(u) \/ state[u] = "SHRINKING" \/ queue[fd][u] \in {"INTENTION_EXCLUSIVE", "S_IX"}

\* So it is with the rows of the table and with the old rows that an undo writes back.
Writers ==
  /\ \A r \in Records : Settled(slots[r].by)
  /\ \A t \in Txns : \A i \in 1 .. Len(write_set[t]) : Settled(write_set[t][i].record.by)

\* The log has a record of every transaction that has ended and of no other, and a
\* transaction from which another has read has ended or holds latch_.
Logging ==
  /\ \A t \in Txns : HasEnded(t) <=> \E i \in 1 .. Len(log) : log[i][2] = t
  /\ \A d \in deps : d[1] # d[2] /\ (HasEnded(d[2]) \/ state[d[2]] = "SHRINKING")
  /\ CommitOrder

Inv ==
  /\ LockInv /\ Types /\ Ownership /\ Latching
  /\ \A s \in Sessions : SessionInv(s)
  /\ TableFirst /\ Release /\ Undo /\ Writers /\ Logging

\* next_bit finds a slot when there is one: a fact about sets of numbers, which
\* ServerProofs proves.
NextBitFinds ==
  \A set \in SUBSET Records, r \in Records \cup {NoRid} : HasNext(set, r) => next_bit(set, r) \in set
=============================================================================
