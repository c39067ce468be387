---------------------------- MODULE LockManager ----------------------------
(***************************************************************************)
(* The lock manager of src/src/transaction/concurrency: multigranularity   *)
(* locks (IS, IX, S, SIX, X) on tables and S, X locks on records, under    *)
(* the no-wait policy: a request that cannot be granted throws a           *)
(* TransactionAbortException instead of waiting.                           *)
(*                                                                         *)
(* Every public operation holds LockManager::latch_ from its first to its  *)
(* last statement, so an operation is one action.  Its last parameter is   *)
(* what the call returns: "true", "false", or "abort" when it throws.      *)
(* The request list of a lock is read only by find_if on the transaction,  *)
(* by counts of modes and by its size, never by position, and a request is *)
(* appended only when the transaction has none: it is a function from      *)
(* transactions to the mode of their request.                              *)
(***************************************************************************)
CONSTANTS Txns,     \* transactions
          Tables,   \* LockDataIds of type TABLE
          Records   \* LockDataIds of type RECORD

ASSUME TablesAreNotRecords == Tables \cap Records = {}

VARIABLES state,     \* Transaction::state_
          lock_set,  \* Transaction::lock_set_
          queue,     \* LockRequestQueue::request_queue_: mode requested by each transaction
          group      \* LockRequestQueue::group_lock_mode_

lockVars == <<state, lock_set, queue, group>>

LockDataId == Tables \cup Records

TransactionState == {"DEFAULT", "GROWING", "SHRINKING", "COMMITTED", "ABORTED"}

LockMode == {"SHARED", "EXCLUSIVE", "INTENTION_SHARED", "INTENTION_EXCLUSIVE", "S_IX"}

NoRequest == "no request"

GroupLockMode == {"NON_LOCK", "IS", "IX", "S", "X", "SIX"}

Results == {"true", "false", "abort"}

LockInit ==
  /\ state = [t \in Txns |-> "DEFAULT"]
  /\ lock_set = [t \in Txns |-> {}]
  /\ queue = [o \in LockDataId |-> [t \in Txns |-> NoRequest]]
  /\ group = [o \in LockDataId |-> "NON_LOCK"]

-----------------------------------------------------------------------------
(* The pieces the operations are made of. *)

\* The find_if that looks for the request of t on o.
Holds(t, o) == queue[o][t] # NoRequest

\* The only request in the queue with one of these modes is the one of t.
OnlyRequestOf(t, o, modes) == \A u \in Txns \ {t} : queue[o][u] \notin modes

\* A state in which check_lock lets a request through.
check_lock(t) ==
  /\ state[t] \in {"DEFAULT", "GROWING"}
  /\ state' = [state EXCEPT ![t] = "GROWING"]

\* The other states: false for a transaction that has ended, and an exception
\* for one that has released a lock.
check_lock_fails(t, res) ==
  /\ \/ state[t] \in {"ABORTED", "COMMITTED"} /\ res = "false"
     \/ state[t] = "SHRINKING" /\ res = "abort"
  /\ UNCHANGED lockVars

\* The held lock already suffices.
AlreadyHeld(res) == res = "true" /\ UNCHANGED <<lock_set, queue, group>>

\* Change the mode of the request that t has on o.
Upgrade(t, o, mode, gmode, res) ==
  /\ res = "true"
  /\ queue' = [queue EXCEPT ![o][t] = mode]
  /\ group' = [group EXCEPT ![o] = gmode]
  /\ UNCHANGED lock_set

\* Append a request of t on o and enter o in t's lock set.
Grant(t, o, mode, gmode, res) ==
  /\ res = "true"
  /\ lock_set' = [lock_set EXCEPT ![t] = @ \cup {o}]
  /\ queue' = [queue EXCEPT ![o][t] = mode]
  /\ group' = [group EXCEPT ![o] = gmode]

\* throw TransactionAbortException(DEADLOCK_PREVENTION)
Conflict(res) == res = "abort" /\ UNCHANGED <<lock_set, queue, group>>

\* The mode unlock recomputes from the requests left in a queue.
StrongestMode(q) ==
  LET Has(mode) == \E t \in Txns : q[t] = mode
  IN  IF Has("EXCLUSIVE") THEN "X"
      ELSE IF Has("S_IX") THEN "SIX"
      ELSE IF Has("INTENTION_EXCLUSIVE") THEN "IX"
      ELSE IF Has("SHARED") THEN "S"
      ELSE IF Has("INTENTION_SHARED") THEN "IS"
      ELSE "NON_LOCK"

-----------------------------------------------------------------------------
(* The operations. *)

lock_shared_on_record(t, o, res) ==
  \/ check_lock_fails(t, res)
  \/ /\ check_lock(t)
     /\ \/ Holds(t, o) /\ AlreadyHeld(res)
        \/ /\ ~Holds(t, o)
           /\ \/ group[o] \in {"NON_LOCK", "S"} /\ Grant(t, o, "SHARED", "S", res)
              \/ group[o] \notin {"NON_LOCK", "S"} /\ Conflict(res)

lock_exclusive_on_record(t, o, res) ==
  \/ check_lock_fails(t, res)
  \/ /\ check_lock(t)
     /\ \/ queue[o][t] = "EXCLUSIVE" /\ AlreadyHeld(res)
        \/ /\ Holds(t, o) /\ queue[o][t] # "EXCLUSIVE"
           /\ LET alone == group[o] = "S" /\ OnlyRequestOf(t, o, LockMode)
              IN  \/ alone /\ Upgrade(t, o, "EXCLUSIVE", "X", res)
                  \/ ~alone /\ Conflict(res)
        \/ /\ ~Holds(t, o)
           /\ \/ group[o] = "NON_LOCK" /\ Grant(t, o, "EXCLUSIVE", "X", res)
              \/ group[o] # "NON_LOCK" /\ Conflict(res)

\* Mistake: S replaces IX instead of being added to it.
lock_shared_on_table_replacing(t, o, res) ==
  /\ check_lock(t)
  /\ \/ /\ queue[o][t] \in {"INTENTION_SHARED", "INTENTION_EXCLUSIVE"}
        /\ OnlyRequestOf(t, o, LockMode) /\ Upgrade(t, o, "SHARED", "S", res)
     \/ /\ ~Holds(t, o)
        /\ group[o] \in {"NON_LOCK", "S", "IS"} /\ Grant(t, o, "SHARED", "S", res)

lock_shared_on_table(t, o, res) ==
  \/ check_lock_fails(t, res)
  \/ /\ check_lock(t)
     /\ \/ queue[o][t] \in {"SHARED", "S_IX", "EXCLUSIVE"} /\ AlreadyHeld(res)
        \/ /\ queue[o][t] = "INTENTION_SHARED"
           /\ \/ group[o] \in {"IS", "S"} /\ Upgrade(t, o, "SHARED", "S", res)
              \/ group[o] \notin {"IS", "S"} /\ Conflict(res)
        \/ /\ queue[o][t] = "INTENTION_EXCLUSIVE"
           /\ LET onlyIX == OnlyRequestOf(t, o, {"INTENTION_EXCLUSIVE"})
              IN  \/ onlyIX /\ Upgrade(t, o, "S_IX", "SIX", res)
                  \/ ~onlyIX /\ Conflict(res)
        \/ /\ ~Holds(t, o)
           /\ \/ group[o] \in {"NON_LOCK", "S", "IS"} /\ Grant(t, o, "SHARED", "S", res)
              \/ group[o] \notin {"NON_LOCK", "S", "IS"} /\ Conflict(res)

lock_exclusive_on_table(t, o, res) ==
  \/ check_lock_fails(t, res)
  \/ /\ check_lock(t)
     /\ \/ queue[o][t] = "EXCLUSIVE" /\ AlreadyHeld(res)
        \/ /\ Holds(t, o) /\ queue[o][t] # "EXCLUSIVE"
           /\ LET alone == OnlyRequestOf(t, o, LockMode)
              IN  \/ alone /\ Upgrade(t, o, "EXCLUSIVE", "X", res)
                  \/ ~alone /\ Conflict(res)
        \/ /\ ~Holds(t, o)
           /\ \/ group[o] = "NON_LOCK" /\ Grant(t, o, "EXCLUSIVE", "X", res)
              \/ group[o] # "NON_LOCK" /\ Conflict(res)

\* Mistake: the group mode always becomes IS.
lock_IS_on_table_weakening(t, o, res) ==
  /\ check_lock(t)
  /\ ~Holds(t, o)
  /\ group[o] # "X" /\ Grant(t, o, "INTENTION_SHARED", "IS", res)

\* Mistake: IS is refused beside SIX.
lock_IS_on_table_strict(t, o, res) ==
  /\ check_lock(t) /\ ~Holds(t, o)
  /\ \/ /\ group[o] \in {"NON_LOCK", "IS"}
        /\ Grant(t, o, "INTENTION_SHARED", "IS", res)
     \/ group[o] \in {"SIX", "X"} /\ Conflict(res)

lock_IS_on_table(t, o, res) ==
  \/ check_lock_fails(t, res)
  \/ /\ check_lock(t)
     /\ \/ Holds(t, o) /\ AlreadyHeld(res)
        \/ /\ ~Holds(t, o)
           /\ \/ /\ group[o] # "X"
                 /\ Grant(t, o, "INTENTION_SHARED",
                          IF group[o] = "NON_LOCK" THEN "IS" ELSE group[o], res)
              \/ group[o] = "X" /\ Conflict(res)

\* Mistake: other shared locks are not looked for when S becomes SIX.
lock_IX_on_table_unchecked(t, o, res) ==
  /\ check_lock(t)
  /\ \/ queue[o][t] = "SHARED" /\ Upgrade(t, o, "S_IX", "SIX", res)
     \/ /\ ~Holds(t, o) /\ group[o] \in {"NON_LOCK", "IS", "IX"}
        /\ Grant(t, o, "INTENTION_EXCLUSIVE", "IX", res)

lock_IX_on_table(t, o, res) ==
  \/ check_lock_fails(t, res)
  \/ /\ check_lock(t)
     /\ \/ queue[o][t] \in {"INTENTION_EXCLUSIVE", "S_IX", "EXCLUSIVE"} /\ AlreadyHeld(res)
        \/ /\ queue[o][t] = "SHARED"
           /\ LET onlyS == OnlyRequestOf(t, o, {"SHARED"})
              IN  \/ onlyS /\ Upgrade(t, o, "S_IX", "SIX", res)
                  \/ ~onlyS /\ Conflict(res)
        \/ /\ queue[o][t] = "INTENTION_SHARED"
           /\ \/ group[o] \in {"IS", "IX"} /\ Upgrade(t, o, "INTENTION_EXCLUSIVE", "IX", res)
              \/ group[o] \notin {"IS", "IX"} /\ Conflict(res)
        \/ /\ ~Holds(t, o)
           /\ \/ group[o] \in {"NON_LOCK", "IS", "IX"}
                 /\ Grant(t, o, "INTENTION_EXCLUSIVE", "IX", res)
              \/ group[o] \notin {"NON_LOCK", "IS", "IX"} /\ Conflict(res)

\* Mistake: the transaction does not enter its shrinking phase.
unlock_growing(t, o, res) ==
  /\ state[t] \notin {"ABORTED", "COMMITTED"} /\ res = "true"
  /\ queue' = [queue EXCEPT ![o][t] = NoRequest]
  /\ group' = [group EXCEPT ![o] = StrongestMode([queue[o] EXCEPT ![t] = NoRequest])]
  /\ UNCHANGED <<state, lock_set>>

\* unlock leaves lock_set alone: commit and abort iterate over it meanwhile.
unlock(t, o, res) ==
  \/ /\ state[t] \in {"ABORTED", "COMMITTED"} /\ res = "false"
     /\ UNCHANGED lockVars
  \/ /\ state[t] \notin {"ABORTED", "COMMITTED"} /\ res = "true"
     /\ state' = [state EXCEPT ![t] = IF @ = "GROWING" THEN "SHRINKING" ELSE @]
     /\ queue' = [queue EXCEPT ![o][t] = NoRequest]
     /\ group' = [group EXCEPT ![o] = StrongestMode([queue[o] EXCEPT ![t] = NoRequest])]
     /\ UNCHANGED lock_set

\* What TransactionManager does to a transaction at the end of commit and of
\* abort.  The first conjunct is what the lock manager relies on: the transaction
\* has called unlock on every lock of its lock set.
set_committed(t) ==
  /\ \A o \in LockDataId : ~Holds(t, o)
  /\ state' = [state EXCEPT ![t] = "COMMITTED"]
  /\ UNCHANGED <<lock_set, queue, group>>

set_aborted(t) ==
  /\ \A o \in LockDataId : ~Holds(t, o)
  /\ state' = [state EXCEPT ![t] = "ABORTED"]
  /\ lock_set' = [lock_set EXCEPT ![t] = {}]
  /\ UNCHANGED <<queue, group>>

\* Any transaction may call any operation at any time.
LockNext ==
  \E t \in Txns :
    \/ \E o \in Records, res \in Results : lock_shared_on_record(t, o, res)
    \/ \E o \in Records, res \in Results : lock_exclusive_on_record(t, o, res)
    \/ \E o \in Tables, res \in Results : lock_shared_on_table(t, o, res)
    \/ \E o \in Tables, res \in Results : lock_exclusive_on_table(t, o, res)
    \/ \E o \in Tables, res \in Results : lock_IS_on_table(t, o, res)
    \/ \E o \in Tables, res \in Results : lock_IX_on_table(t, o, res)
    \/ \E o \in LockDataId, res \in Results : unlock(t, o, res)
    \/ set_committed(t)
    \/ set_aborted(t)

LockSpec == LockInit /\ [][LockNext]_lockVars

-----------------------------------------------------------------------------
(* Properties. *)

\* The abstract lock table that the queues implement.
Table == INSTANCE LockTable
           WITH Objects <- LockDataId,
                held    <- queue,
                phase   <- [t \in Txns |->
                              IF state[t] \in {"DEFAULT", "GROWING"} THEN "growing"
                              ELSE IF state[t] = "SHRINKING" THEN "shrinking"
                              ELSE "ended"]

\* Type invariant of the lock manager's state (lock_manager.h, transaction.h).
LockTypeOK ==
  /\ state \in [Txns -> TransactionState]
  /\ lock_set \in [Txns -> SUBSET LockDataId]
  /\ queue \in [LockDataId -> [Txns -> LockMode \cup {NoRequest}]]
  /\ group \in [LockDataId -> GroupLockMode]

\* Whatever grants, upgrades and releases came before, the modes that two
\* transactions hold on one table or record are compatible: the operations
\* look only at the group mode, and at their own request, before they grant.
CompatibleLocks ==
  \A o \in LockDataId : \A t, u \in Txns :
    t # u => Table!Compatible(queue[o][t], queue[o][u])

\* group_lock_mode_ is the strongest mode in its queue (lock_manager.h:23),
\* although grants and upgrades assign it without looking at the queue and
\* only unlock recomputes it.
GroupModeIsStrongest ==
  \A o \in LockDataId : group[o] = StrongestMode(queue[o])

\* Every request in a queue is in the lock set of its transaction, which is all
\* that commit and abort release: a lock outside it would be held for ever.
HeldLocksAreRecorded ==
  \A t \in Txns, o \in LockDataId : Holds(t, o) => o \in lock_set[t]

\* Two-phase rule of check_lock: a transaction that has released a lock, or has
\* ended, acquires and strengthens nothing any more.
TwoPhase ==
  [][\A t \in Txns, o \in LockDataId :
       state[t] \notin {"DEFAULT", "GROWING"} => queue'[o][t] \in {queue[o][t], NoRequest}]_lockVars

\* The lock manager implements the abstract lock table.
ImplementsLockTable == Table!Spec

=============================================================================
