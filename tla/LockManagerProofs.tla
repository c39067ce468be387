------------------------- MODULE LockManagerProofs -------------------------
(***************************************************************************)
(* The lock manager's invariants and its refinement of the abstract lock   *)
(* table, for every set of transactions, tables and records.               *)
(*                                                                         *)
(* CompatibleLocks is not inductive by itself: every operation decides on  *)
(* the group mode, so a step preserves compatibility only from a state in  *)
(* which the group mode tells the truth about the queue.  LockInv adds     *)
(* that, and that records carry only S and X requests.                     *)
(***************************************************************************)
EXTENDS LockCalls, TLAPS

\* Only lock_shared_on_record and lock_exclusive_on_record are ever called on a
\* record, so no intention mode is ever requested on one.
RecordModes ==
  \A o \in Records, t \in Txns : queue[o][t] \in {NoRequest, "SHARED", "EXCLUSIVE"}

\* A transaction leaves DEFAULT with its first lock call (check_lock).
DefaultHoldsNothing ==
  \A t \in Txns, o \in LockDataId : state[t] = "DEFAULT" => queue[o][t] = NoRequest

LockInv ==
  /\ LockTypeOK
  /\ CompatibleLocks
  /\ GroupModeIsStrongest
  /\ HeldLocksAreRecorded
  /\ RecordModes
  /\ DefaultHoldsNothing

Requests == LockMode \cup {NoRequest}

-----------------------------------------------------------------------------
(* What a group mode says about the queue it belongs to. *)

\* StrongestMode names a mode that is in the queue and bounds all the others.
LEMMA StrongestModeBounds ==
  ASSUME NEW q \in [Txns -> Requests]
  PROVE  /\ StrongestMode(q) \in GroupLockMode
         /\ StrongestMode(q) = "NON_LOCK" <=> \A u \in Txns : q[u] = NoRequest
         /\ StrongestMode(q) = "IS" => \A u \in Txns : q[u] \in {NoRequest, "INTENTION_SHARED"}
         /\ StrongestMode(q) = "S" =>
              /\ \A u \in Txns : q[u] \in {NoRequest, "INTENTION_SHARED", "SHARED"}
              /\ \E u \in Txns : q[u] = "SHARED"
         /\ StrongestMode(q) = "IX" =>
              /\ \A u \in Txns : q[u] \notin {"S_IX", "EXCLUSIVE"}
              /\ \E u \in Txns : q[u] = "INTENTION_EXCLUSIVE"
         /\ StrongestMode(q) = "SIX" =>
              /\ \A u \in Txns : q[u] # "EXCLUSIVE"
              /\ \E u \in Txns : q[u] = "S_IX"
         /\ StrongestMode(q) = "X" <=> \E u \in Txns : q[u] = "EXCLUSIVE"
  BY DEF StrongestMode, GroupLockMode, Requests, LockMode, NoRequest

\* In a state of LockInv the other requests on an object can be read off the
\* group mode: this is what every operation's test of the group mode relies on.
LEMMA GroupModeTells ==
  ASSUME LockInv, NEW o \in LockDataId, NEW t \in Txns
  PROVE  /\ group[o] = "NON_LOCK" <=> \A u \in Txns : queue[o][u] = NoRequest
         /\ group[o] = "IS" => \A u \in Txns : queue[o][u] \in {NoRequest, "INTENTION_SHARED"}
         /\ group[o] = "S" =>
              /\ \A u \in Txns : queue[o][u] \in {NoRequest, "INTENTION_SHARED", "SHARED"}
              /\ \E u \in Txns : queue[o][u] = "SHARED"
         /\ group[o] = "IX" =>
              /\ \A u \in Txns : queue[o][u] \in {NoRequest, "INTENTION_SHARED", "INTENTION_EXCLUSIVE"}
              /\ \E u \in Txns : queue[o][u] = "INTENTION_EXCLUSIVE"
         /\ group[o] = "SIX" =>
              \E u \in Txns : /\ queue[o][u] = "S_IX"
                              /\ \A v \in Txns \ {u} : queue[o][v] \in {NoRequest, "INTENTION_SHARED"}
         /\ group[o] = "X" =>
              \E u \in Txns : /\ queue[o][u] = "EXCLUSIVE"
                              /\ \A v \in Txns \ {u} : queue[o][v] = NoRequest
         /\ group[o] \in GroupLockMode
<1>. DEFINE q == queue[o]
<1>1. q \in [Txns -> Requests]
  BY DEF LockInv, LockTypeOK, Requests
<1>2. group[o] = StrongestMode(q)
  BY DEF LockInv, GroupModeIsStrongest
<1>3. \A u, v \in Txns : u # v => Table!Compatible(q[u], q[v])
  BY DEF LockInv, CompatibleLocks
<1>. HIDE DEF q
<1>4. \A u, v \in Txns : u # v /\ q[v] = "INTENTION_EXCLUSIVE" => q[u] # "SHARED"
  BY <1>3 DEF Table!Compatible, Table!None
<1>5. \A u, v \in Txns : u # v /\ q[v] = "S_IX" => q[u] \in {NoRequest, "INTENTION_SHARED"}
  BY <1>3 DEF Table!Compatible, Table!None, NoRequest
<1>6. \A u, v \in Txns : u # v /\ q[v] = "EXCLUSIVE" => q[u] = NoRequest
  BY <1>3 DEF Table!Compatible, Table!None, NoRequest
<1>7. group[o] = "IX" => \A u \in Txns : q[u] \in {NoRequest, "INTENTION_SHARED", "INTENTION_EXCLUSIVE"}
  BY <1>1, <1>2, <1>4, StrongestModeBounds DEF Requests, LockMode, NoRequest
<1>. QED
  BY <1>1, <1>2, <1>5, <1>6, <1>7, StrongestModeBounds DEF q

\* Compatibility of two modes does not depend on their order.
LEMMA CompatibleIsSymmetric ==
  ASSUME NEW m, NEW n, Table!Compatible(m, n)
  PROVE  Table!Compatible(n, m)
<1>1. {m, n} = {n, m}
  OBVIOUS
<1>. QED
  BY <1>1 DEF Table!Compatible

\* Giving t a mode on o that is compatible with all other requests there, and
\* setting the group mode to the strongest mode of the new queue, keeps the two
\* invariants about queues.
LEMMA SetMode ==
  ASSUME LockInv, NEW t \in Txns, NEW o \in LockDataId, NEW mode \in Requests,
         queue' = [queue EXCEPT ![o][t] = mode],
         group' = [group EXCEPT ![o] = StrongestMode([queue[o] EXCEPT ![t] = mode])],
         \A u \in Txns \ {t} : Table!Compatible(queue[o][u], mode)
  PROVE  /\ queue' \in [LockDataId -> [Txns -> Requests]]
         /\ group' \in [LockDataId -> GroupLockMode]
         /\ CompatibleLocks'
         /\ GroupModeIsStrongest'
<1>1. queue \in [LockDataId -> [Txns -> Requests]] /\ group \in [LockDataId -> GroupLockMode]
  BY DEF LockInv, LockTypeOK, Requests
<1>2. queue' \in [LockDataId -> [Txns -> Requests]]
  BY <1>1
<1>3. [queue[o] EXCEPT ![t] = mode] \in [Txns -> Requests]
  BY <1>1
<1>4. group' \in [LockDataId -> GroupLockMode]
  BY <1>1, <1>3, StrongestModeBounds
<1>5. CompatibleLocks'
  <2>. SUFFICES ASSUME NEW p \in LockDataId, NEW u \in Txns, NEW v \in Txns, u # v
                PROVE  Table!Compatible(queue'[p][u], queue'[p][v])
    BY DEF CompatibleLocks, Table!Compatible, Table!None
  <2>1. CASE p = o /\ u = t
    BY <1>1, <2>1, CompatibleIsSymmetric
  <2>2. CASE p = o /\ v = t
    BY <1>1, <2>2
  <2>3. CASE p # o \/ t \notin {u, v}
    BY <1>1, <2>3 DEF LockInv, CompatibleLocks
  <2>. QED
    BY <2>1, <2>2, <2>3
<1>6. GroupModeIsStrongest'
  <2>1. ASSUME NEW p \in LockDataId PROVE group'[p] = StrongestMode(queue'[p])
    BY <1>1 DEF LockInv, GroupModeIsStrongest
  <2>. QED
    BY <2>1 DEF GroupModeIsStrongest, StrongestMode
<1>. QED
  BY <1>2, <1>4, <1>5, <1>6

-----------------------------------------------------------------------------
(* Every lock operation is the textbook request for its mode. *)

\* The group modes the operations assign are the ones unlock would compute.
LEMMA NewStrongestMode ==
  ASSUME NEW q \in [Txns -> Requests], NEW t \in Txns
  PROVE  /\ StrongestMode([q EXCEPT ![t] = "EXCLUSIVE"]) = "X"
         /\ (\A u \in Txns \ {t} : q[u] \in {NoRequest, "INTENTION_SHARED"})
              => StrongestMode([q EXCEPT ![t] = "S_IX"]) = "SIX"
         /\ (\A u \in Txns \ {t} : q[u] \in {NoRequest, "INTENTION_SHARED", "INTENTION_EXCLUSIVE"})
              => StrongestMode([q EXCEPT ![t] = "INTENTION_EXCLUSIVE"]) = "IX"
         /\ (\A u \in Txns \ {t} : q[u] \in {NoRequest, "INTENTION_SHARED", "SHARED"})
              => StrongestMode([q EXCEPT ![t] = "SHARED"]) = "S"
<1>. USE DEF Requests, LockMode, NoRequest
<1>1. StrongestMode([q EXCEPT ![t] = "EXCLUSIVE"]) = "X"
  BY DEF StrongestMode
<1>2. ASSUME \A u \in Txns \ {t} : q[u] \in {NoRequest, "INTENTION_SHARED"}
      PROVE  StrongestMode([q EXCEPT ![t] = "S_IX"]) = "SIX"
  BY <1>2 DEF StrongestMode
<1>3. ASSUME \A u \in Txns \ {t} : q[u] \in {NoRequest, "INTENTION_SHARED", "INTENTION_EXCLUSIVE"}
      PROVE  StrongestMode([q EXCEPT ![t] = "INTENTION_EXCLUSIVE"]) = "IX"
  BY <1>3 DEF StrongestMode
<1>4. ASSUME \A u \in Txns \ {t} : q[u] \in {NoRequest, "INTENTION_SHARED", "SHARED"}
      PROVE  StrongestMode([q EXCEPT ![t] = "SHARED"]) = "S"
  BY <1>4 DEF StrongestMode
<1>. QED
  BY <1>1, <1>2, <1>3, <1>4

\* A first IS request changes the group mode only of an empty queue.
LEMMA NewIntentionShared ==
  ASSUME NEW q \in [Txns -> Requests], NEW t \in Txns, q[t] = NoRequest
  PROVE  StrongestMode([q EXCEPT ![t] = "INTENTION_SHARED"])
           = IF StrongestMode(q) = "NON_LOCK" THEN "IS" ELSE StrongestMode(q)
  BY DEF StrongestMode, Requests, LockMode, NoRequest

\* A request for a mode as the abstract lock table decides it, together with the
\* bookkeeping that the lock manager adds.
LockRequest(t, o, mode, res) ==
  LET target == Table!Supremum(queue[o][t], mode)
  IN  \/ check_lock_fails(t, res)
      \/ /\ check_lock(t)
         /\ Table!Grantable(t, o, target)
         /\ res = "true"
         /\ queue' = [queue EXCEPT ![o][t] = target]
         /\ group' = [group EXCEPT ![o] = StrongestMode([queue[o] EXCEPT ![t] = target])]
         /\ lock_set' = [lock_set EXCEPT ![t] = @ \cup {o}]
      \/ /\ check_lock(t)
         /\ ~Table!Grantable(t, o, target)
         /\ res = "abort"
         /\ UNCHANGED <<lock_set, queue, group>>

\* A lock that suffices already is a grant of the mode that is held.
LEMMA AlreadyHeldIsRequest ==
  ASSUME LockInv, NEW t \in Txns, NEW o \in LockDataId, NEW mode \in LockMode, NEW res,
         check_lock(t), AlreadyHeld(res), Holds(t, o), Table!Covers(queue[o][t], mode)
  PROVE  LockRequest(t, o, mode, res)
<1>1. queue \in [LockDataId -> [Txns -> Requests]] /\ group \in [LockDataId -> GroupLockMode]
      /\ lock_set \in [Txns -> SUBSET LockDataId]
  BY DEF LockInv, LockTypeOK, Requests
<1>2. Table!Supremum(queue[o][t], mode) = queue[o][t]
  BY DEF Table!Supremum
<1>3. Table!Grantable(t, o, queue[o][t])
  BY DEF Table!Grantable, LockInv, CompatibleLocks
<1>4. queue = [queue EXCEPT ![o][t] = queue[o][t]]
  BY <1>1
<1>5. group = [group EXCEPT ![o] = StrongestMode([queue[o] EXCEPT ![t] = queue[o][t]])]
  <2>1. [queue[o] EXCEPT ![t] = queue[o][t]] = queue[o]
    BY <1>1
  <2>2. StrongestMode([queue[o] EXCEPT ![t] = queue[o][t]]) = group[o]
    BY <2>1 DEF LockInv, GroupModeIsStrongest
  <2>. QED
    BY <1>1, <2>2
<1>6. lock_set = [lock_set EXCEPT ![t] = @ \cup {o}]
  BY <1>1 DEF LockInv, HeldLocksAreRecorded
<1>. QED
  BY <1>2, <1>3, <1>4, <1>5, <1>6 DEF LockRequest, AlreadyHeld

\* A new request or an upgrade, when its mode is the supremum and its group mode
\* the strongest one.
LEMMA GrantIsRequest ==
  ASSUME LockInv, NEW t \in Txns, NEW o \in LockDataId, NEW mode \in LockMode, NEW res,
         NEW target, NEW gmode, check_lock(t),
         \/ Grant(t, o, target, gmode, res)
         \/ Holds(t, o) /\ Upgrade(t, o, target, gmode, res),
         target = Table!Supremum(queue[o][t], mode),
         gmode = StrongestMode([queue[o] EXCEPT ![t] = target]),
         Table!Grantable(t, o, target)
  PROVE  LockRequest(t, o, mode, res)
<1>1. Holds(t, o) => lock_set = [lock_set EXCEPT ![t] = @ \cup {o}]
  BY DEF LockInv, LockTypeOK, HeldLocksAreRecorded
<1>. QED
  BY <1>1 DEF LockRequest, Grant, Upgrade

\* The suprema the operations need, spelled out.
LEMMA Suprema ==
  /\ \A m \in LockMode : Table!Supremum(NoRequest, m) = m
  /\ \A h \in Requests : Table!Supremum(h, "EXCLUSIVE") = "EXCLUSIVE"
  /\ Table!Supremum("INTENTION_SHARED", "SHARED") = "SHARED"
  /\ Table!Supremum("INTENTION_EXCLUSIVE", "SHARED") = "S_IX"
  /\ Table!Supremum("SHARED", "INTENTION_EXCLUSIVE") = "S_IX"
  /\ Table!Supremum("INTENTION_SHARED", "INTENTION_EXCLUSIVE") = "INTENTION_EXCLUSIVE"
  BY DEF Table!Supremum, Table!Covers, Table!None, Requests, LockMode, NoRequest

\* Which of the other requests a mode tolerates.
LEMMA GrantableModes ==
  ASSUME LockInv, NEW t \in Txns, NEW o \in LockDataId
  PROVE  LET Others(modes) == \A u \in Txns \ {t} : queue[o][u] \in modes
         IN  /\ Table!Grantable(t, o, "INTENTION_SHARED") <=> Others(Requests \ {"EXCLUSIVE"})
             /\ Table!Grantable(t, o, "INTENTION_EXCLUSIVE")
                  <=> Others({NoRequest, "INTENTION_SHARED", "INTENTION_EXCLUSIVE"})
             /\ Table!Grantable(t, o, "SHARED") <=> Others({NoRequest, "INTENTION_SHARED", "SHARED"})
             /\ Table!Grantable(t, o, "S_IX") <=> Others({NoRequest, "INTENTION_SHARED"})
             /\ Table!Grantable(t, o, "EXCLUSIVE") <=> Others({NoRequest})
<1>1. \A u \in Txns : queue[o][u] \in Requests
  BY DEF LockInv, LockTypeOK, Requests
<1>. QED
  BY <1>1 DEF Table!Grantable, Table!Compatible, Table!None, Requests, LockMode, NoRequest

\* A conflict is a request that is not grantable.
LEMMA ConflictIsRequest ==
  ASSUME NEW t \in Txns, NEW o \in LockDataId, NEW mode \in LockMode, NEW res,
         check_lock(t), Conflict(res),
         ~Table!Grantable(t, o, Table!Supremum(queue[o][t], mode))
  PROVE  LockRequest(t, o, mode, res)
  BY DEF LockRequest, Conflict

\* The modes a transaction can have requested on an object.
LEMMA QueueModes ==
  ASSUME LockInv, NEW o \in LockDataId
  PROVE  /\ queue[o] \in [Txns -> Requests]
         /\ \A u \in Txns : queue[o][u] \in {NoRequest, "SHARED", "EXCLUSIVE",
                                "INTENTION_SHARED", "INTENTION_EXCLUSIVE", "S_IX"}
         /\ o \in Records => \A u \in Txns : queue[o][u] \in {NoRequest, "SHARED", "EXCLUSIVE"}
  BY DEF LockInv, LockTypeOK, RecordModes, Requests, LockMode

\* On a record the group mode is NON_LOCK, S or X.
LEMMA RecordGroupModes ==
  ASSUME LockInv, NEW o \in Records
  PROVE  /\ group[o] \in {"NON_LOCK", "S", "X"}
         /\ group[o] = "X" <=> \E u \in Txns : queue[o][u] = "EXCLUSIVE"
<1>1. /\ queue[o] \in [Txns -> Requests]
      /\ \A u \in Txns : queue[o][u] \in {NoRequest, "SHARED", "EXCLUSIVE"}
  BY QueueModes DEF LockDataId
<1>2. group[o] = StrongestMode(queue[o])
  BY DEF LockInv, GroupModeIsStrongest, LockDataId
<1>. QED
  BY <1>1, <1>2 DEF StrongestMode, NoRequest

\* lock_shared_on_record is a request for S.
LEMMA SharedOnRecordIsRequest ==
  ASSUME LockInv, NEW t \in Txns, NEW o \in Records, NEW res, lock_shared_on_record(t, o, res)
  PROVE  LockRequest(t, o, "SHARED", res)
<1>. o \in LockDataId /\ "SHARED" \in LockMode
  BY DEF LockDataId, LockMode
<1>1. CASE check_lock_fails(t, res)
  BY <1>1 DEF LockRequest
<1>2. CASE check_lock(t) /\ Holds(t, o) /\ AlreadyHeld(res)
  <2>1. Table!Covers(queue[o][t], "SHARED")
    BY <1>2, QueueModes DEF Table!Covers, Holds
  <2>. QED
    BY <1>2, <2>1, AlreadyHeldIsRequest
<1>3. CASE /\ check_lock(t) /\ ~Holds(t, o) /\ group[o] \in {"NON_LOCK", "S"}
           /\ Grant(t, o, "SHARED", "S", res)
  <2>1. \A u \in Txns : queue[o][u] \in {NoRequest, "INTENTION_SHARED", "SHARED"}
    BY <1>3, GroupModeTells
  <2>2. StrongestMode([queue[o] EXCEPT ![t] = "SHARED"]) = "S"
    BY <2>1, QueueModes, NewStrongestMode
  <2>3. Table!Grantable(t, o, "SHARED")
    BY <2>1, GrantableModes
  <2>. QED
    BY <1>3, <2>2, <2>3, Suprema, GrantIsRequest DEF Holds
<1>4. CASE /\ check_lock(t) /\ ~Holds(t, o) /\ group[o] \notin {"NON_LOCK", "S"}
           /\ Conflict(res)
  <2>1. PICK u \in Txns : queue[o][u] = "EXCLUSIVE"
    BY <1>4, RecordGroupModes
  <2>2. u # t
    BY <1>4, <2>1 DEF Holds, NoRequest
  <2>3. queue[o][u] \notin {NoRequest, "INTENTION_SHARED", "SHARED"}
    BY <2>1 DEF NoRequest
  <2>4. ~Table!Grantable(t, o, "SHARED")
    BY <2>2, <2>3, GrantableModes, SMTT(30)
  <2>. QED
    BY <1>4, <2>4, Suprema, ConflictIsRequest DEF Holds
<1>. QED
  BY <1>1, <1>2, <1>3, <1>4 DEF lock_shared_on_record

\* lock_exclusive_on_record is a request for X.
LEMMA ExclusiveOnRecordIsRequest ==
  ASSUME LockInv, NEW t \in Txns, NEW o \in Records, NEW res, lock_exclusive_on_record(t, o, res)
  PROVE  LockRequest(t, o, "EXCLUSIVE", res)
<1>. o \in LockDataId /\ "EXCLUSIVE" \in LockMode
  BY DEF LockDataId, LockMode
<1>0. Table!Supremum(queue[o][t], "EXCLUSIVE") = "EXCLUSIVE"
  BY QueueModes, Suprema
<1>1. CASE check_lock_fails(t, res)
  BY <1>1 DEF LockRequest
<1>2. CASE check_lock(t) /\ queue[o][t] = "EXCLUSIVE" /\ AlreadyHeld(res)
  BY <1>2, AlreadyHeldIsRequest DEF Table!Covers, Holds, NoRequest
<1>3. CASE /\ check_lock(t) /\ Holds(t, o) /\ OnlyRequestOf(t, o, LockMode)
           /\ Upgrade(t, o, "EXCLUSIVE", "X", res)
  <2>1. \A u \in Txns \ {t} : queue[o][u] = NoRequest
    BY <1>3, QueueModes DEF OnlyRequestOf, LockMode
  <2>2. StrongestMode([queue[o] EXCEPT ![t] = "EXCLUSIVE"]) = "X"
    BY QueueModes, NewStrongestMode
  <2>3. Table!Grantable(t, o, "EXCLUSIVE")
    BY <2>1, GrantableModes
  <2>. QED
    BY <1>0, <1>3, <2>2, <2>3, GrantIsRequest
<1>4. CASE /\ check_lock(t) /\ Holds(t, o) /\ queue[o][t] # "EXCLUSIVE"
           /\ ~(group[o] = "S" /\ OnlyRequestOf(t, o, LockMode))
           /\ Conflict(res)
  <2>1. queue[o][t] = "SHARED"
    BY <1>4, QueueModes DEF Holds
  <2>2. group[o] = "S"
    BY <2>1, QueueModes, GroupModeTells DEF GroupLockMode, NoRequest
  <2>3. PICK u \in Txns \ {t} : queue[o][u] \in LockMode
    BY <1>4, <2>2 DEF OnlyRequestOf
  <2>4. queue[o][u] # NoRequest
    BY <2>3 DEF LockMode, NoRequest
  <2>5. ~Table!Grantable(t, o, "EXCLUSIVE")
    BY <2>3, <2>4, GrantableModes
  <2>. QED
    BY <1>0, <1>4, <2>5, ConflictIsRequest
<1>5. CASE /\ check_lock(t) /\ ~Holds(t, o) /\ group[o] = "NON_LOCK"
           /\ Grant(t, o, "EXCLUSIVE", "X", res)
  <2>1. Table!Grantable(t, o, "EXCLUSIVE")
    BY <1>5, GroupModeTells, GrantableModes
  <2>2. StrongestMode([queue[o] EXCEPT ![t] = "EXCLUSIVE"]) = "X"
    BY QueueModes, NewStrongestMode
  <2>. QED
    BY <1>0, <1>5, <2>1, <2>2, GrantIsRequest
<1>6. CASE /\ check_lock(t) /\ ~Holds(t, o) /\ group[o] # "NON_LOCK"
           /\ Conflict(res)
  <2>1. ~Table!Grantable(t, o, "EXCLUSIVE")
    BY <1>6, GroupModeTells, GrantableModes DEF Holds
  <2>. QED
    BY <1>0, <1>6, <2>1, ConflictIsRequest
<1>. QED
  BY <1>1, <1>2, <1>3, <1>4, <1>5, <1>6 DEF lock_exclusive_on_record

\* The group mode that stands for a mode which excludes everything stronger.
GroupOf(mode) ==
  IF mode = "EXCLUSIVE" THEN "X"
  ELSE IF mode = "S_IX" THEN "SIX"
  ELSE IF mode = "INTENTION_EXCLUSIVE" THEN "IX"
  ELSE "S"

\* A grant or an upgrade to a mode other than IS sets the group mode to that mode,
\* which is right exactly because the mode was grantable.
LEMMA GrantOnTableIsRequest ==
  ASSUME LockInv, NEW t \in Txns, NEW o \in LockDataId, NEW mode \in LockMode, NEW res,
         NEW target \in LockMode \ {"INTENTION_SHARED"}, check_lock(t),
         \/ Grant(t, o, target, GroupOf(target), res)
         \/ Holds(t, o) /\ Upgrade(t, o, target, GroupOf(target), res),
         target = Table!Supremum(queue[o][t], mode),
         Table!Grantable(t, o, target)
  PROVE  LockRequest(t, o, mode, res)
<1>. DEFINE q == queue[o]
            Others(modes) == \A u \in Txns \ {t} : q[u] \in modes
<1>1. q \in [Txns -> Requests]
  BY QueueModes
<1>2. /\ target = "SHARED" => Others({NoRequest, "INTENTION_SHARED", "SHARED"})
      /\ target = "INTENTION_EXCLUSIVE" => Others({NoRequest, "INTENTION_SHARED", "INTENTION_EXCLUSIVE"})
      /\ target = "S_IX" => Others({NoRequest, "INTENTION_SHARED"})
  BY GrantableModes
<1>3. GroupOf(target) = StrongestMode([q EXCEPT ![t] = target])
  <2>. HIDE DEF q
  <2>1. CASE target = "EXCLUSIVE"
    <3>1. StrongestMode([q EXCEPT ![t] = "EXCLUSIVE"]) = "X"
      BY <1>1, NewStrongestMode
    <3>. QED
      BY <2>1, <3>1 DEF GroupOf
  <2>2. CASE target = "S_IX"
    <3>1. StrongestMode([q EXCEPT ![t] = "S_IX"]) = "SIX"
      BY <1>1, <1>2, <2>2, NewStrongestMode
    <3>. QED
      BY <2>2, <3>1 DEF GroupOf
  <2>3. CASE target = "INTENTION_EXCLUSIVE"
    <3>1. StrongestMode([q EXCEPT ![t] = "INTENTION_EXCLUSIVE"]) = "IX"
      BY <1>1, <1>2, <2>3, NewStrongestMode
    <3>. QED
      BY <2>3, <3>1 DEF GroupOf
  <2>4. CASE target = "SHARED"
    <3>1. StrongestMode([q EXCEPT ![t] = "SHARED"]) = "S"
      BY <1>1, <1>2, <2>4, NewStrongestMode
    <3>. QED
      BY <2>4, <3>1 DEF GroupOf
  <2>. QED
    BY <2>1, <2>2, <2>3, <2>4 DEF LockMode
<1>. QED
  BY <1>3, GrantIsRequest

\* What a transaction can tell about the others from the mode it holds itself.
LEMMA HolderBounds ==
  ASSUME LockInv, NEW t \in Txns, NEW o \in LockDataId, NEW u \in Txns \ {t}
  PROVE  /\ queue[o][t] = "INTENTION_EXCLUSIVE"
              => queue[o][u] \in {NoRequest, "INTENTION_SHARED", "INTENTION_EXCLUSIVE"}
         /\ queue[o][t] = "SHARED"
              => queue[o][u] \in {NoRequest, "INTENTION_SHARED", "SHARED"}
<1>1. Table!Compatible(queue[o][t], queue[o][u])
  BY DEF LockInv, CompatibleLocks
<1>. QED
  BY <1>1, QueueModes DEF Table!Compatible, Table!None, NoRequest

\* A transaction with at most IS on a table whose group mode is IX, SIX or X finds
\* another transaction there that excludes S.
LEMMA ExcludesShared ==
  ASSUME LockInv, NEW t \in Txns, NEW o \in LockDataId,
         queue[o][t] \in {NoRequest, "INTENTION_SHARED"},
         group[o] \notin {"NON_LOCK", "IS", "S"}
  PROVE  ~Table!Grantable(t, o, "SHARED")
<1>1. group[o] \in {"IX", "SIX", "X"}
  BY GroupModeTells DEF GroupLockMode
<1>2. PICK u \in Txns : queue[o][u] \in {"INTENTION_EXCLUSIVE", "S_IX", "EXCLUSIVE"}
  BY <1>1, GroupModeTells
<1>3. u # t
  BY <1>2 DEF NoRequest
<1>4. ~Table!Compatible(queue[o][u], "SHARED")
  BY <1>2 DEF Table!Compatible, Table!None
<1>. QED
  BY <1>3, <1>4 DEF Table!Grantable

\* The same for IX, under a group mode S, SIX or X.
LEMMA ExcludesIX ==
  ASSUME LockInv, NEW t \in Txns, NEW o \in LockDataId,
         queue[o][t] \in {NoRequest, "INTENTION_SHARED"},
         group[o] \notin {"NON_LOCK", "IS", "IX"}
  PROVE  ~Table!Grantable(t, o, "INTENTION_EXCLUSIVE")
<1>1. group[o] \in {"S", "SIX", "X"}
  BY GroupModeTells DEF GroupLockMode
<1>2. PICK u \in Txns : queue[o][u] \in {"SHARED", "S_IX", "EXCLUSIVE"}
  BY <1>1, GroupModeTells
<1>3. u # t
  BY <1>2 DEF NoRequest
<1>4. ~Table!Compatible(queue[o][u], "INTENTION_EXCLUSIVE")
  BY <1>2 DEF Table!Compatible, Table!None
<1>. QED
  BY <1>3, <1>4 DEF Table!Grantable

\* lock_shared_on_table is a request for S: IX becomes SIX.
LEMMA SharedOnTableIsRequest ==
  ASSUME LockInv, NEW t \in Txns, NEW o \in Tables, NEW res, lock_shared_on_table(t, o, res)
  PROVE  LockRequest(t, o, "SHARED", res)
<1>. o \in LockDataId /\ {"SHARED", "S_IX"} \subseteq LockMode \ {"INTENTION_SHARED"}
  BY DEF LockDataId, LockMode
<1>. "S" = GroupOf("SHARED") /\ "SIX" = GroupOf("S_IX")
  BY DEF GroupOf
<1>1. CASE check_lock_fails(t, res)
  BY <1>1 DEF LockRequest
<1>2. CASE check_lock(t) /\ queue[o][t] \in {"SHARED", "S_IX", "EXCLUSIVE"} /\ AlreadyHeld(res)
  BY <1>2, AlreadyHeldIsRequest DEF Table!Covers, Holds, NoRequest
<1>3. CASE /\ check_lock(t) /\ queue[o][t] = "INTENTION_SHARED" /\ group[o] \in {"IS", "S"}
           /\ Upgrade(t, o, "SHARED", "S", res)
  <2>1. Table!Grantable(t, o, "SHARED")
    BY <1>3, GroupModeTells, GrantableModes
  <2>. QED
    BY <1>3, <2>1, Suprema, GrantOnTableIsRequest DEF Holds, NoRequest
<1>4. CASE /\ check_lock(t) /\ queue[o][t] = "INTENTION_SHARED" /\ group[o] \notin {"IS", "S"}
           /\ Conflict(res)
  <2>1. group[o] # "NON_LOCK"
    BY <1>4, GroupModeTells DEF NoRequest
  <2>2. ~Table!Grantable(t, o, "SHARED")
    BY <1>4, <2>1, ExcludesShared
  <2>. QED
    BY <1>4, <2>2, Suprema, ConflictIsRequest
<1>5. CASE /\ check_lock(t) /\ queue[o][t] = "INTENTION_EXCLUSIVE"
           /\ OnlyRequestOf(t, o, {"INTENTION_EXCLUSIVE"})
           /\ Upgrade(t, o, "S_IX", "SIX", res)
  <2>1. Table!Grantable(t, o, "S_IX")
    BY <1>5, HolderBounds, GrantableModes DEF OnlyRequestOf
  <2>. QED
    BY <1>5, <2>1, Suprema, GrantOnTableIsRequest DEF Holds, NoRequest
<1>6. CASE /\ check_lock(t) /\ queue[o][t] = "INTENTION_EXCLUSIVE"
           /\ ~OnlyRequestOf(t, o, {"INTENTION_EXCLUSIVE"})
           /\ Conflict(res)
  <2>1. ~Table!Grantable(t, o, "S_IX")
    BY <1>6, GrantableModes DEF OnlyRequestOf, NoRequest
  <2>. QED
    BY <1>6, <2>1, Suprema, ConflictIsRequest
<1>7. CASE /\ check_lock(t) /\ ~Holds(t, o) /\ group[o] \in {"NON_LOCK", "S", "IS"}
           /\ Grant(t, o, "SHARED", "S", res)
  <2>1. Table!Grantable(t, o, "SHARED")
    BY <1>7, GroupModeTells, GrantableModes
  <2>. QED
    BY <1>7, <2>1, Suprema, GrantOnTableIsRequest DEF Holds
<1>8. CASE /\ check_lock(t) /\ ~Holds(t, o) /\ group[o] \notin {"NON_LOCK", "S", "IS"}
           /\ Conflict(res)
  <2>1. ~Table!Grantable(t, o, "SHARED")
    BY <1>8, ExcludesShared DEF Holds
  <2>. QED
    BY <1>8, <2>1, Suprema, ConflictIsRequest DEF Holds
<1>. QED
  BY <1>1, <1>2, <1>3, <1>4, <1>5, <1>6, <1>7, <1>8 DEF lock_shared_on_table

\* lock_exclusive_on_table is a request for X.
LEMMA ExclusiveOnTableIsRequest ==
  ASSUME LockInv, NEW t \in Txns, NEW o \in Tables, NEW res, lock_exclusive_on_table(t, o, res)
  PROVE  LockRequest(t, o, "EXCLUSIVE", res)
<1>. o \in LockDataId /\ "EXCLUSIVE" \in LockMode \ {"INTENTION_SHARED"}
  BY DEF LockDataId, LockMode
<1>. "X" = GroupOf("EXCLUSIVE")
  BY DEF GroupOf
<1>0. Table!Supremum(queue[o][t], "EXCLUSIVE") = "EXCLUSIVE"
  BY QueueModes, Suprema
<1>1. CASE check_lock_fails(t, res)
  BY <1>1 DEF LockRequest
<1>2. CASE check_lock(t) /\ queue[o][t] = "EXCLUSIVE" /\ AlreadyHeld(res)
  BY <1>2, AlreadyHeldIsRequest DEF Table!Covers, Holds, NoRequest
<1>3. CASE /\ check_lock(t) /\ Holds(t, o) /\ OnlyRequestOf(t, o, LockMode)
           /\ Upgrade(t, o, "EXCLUSIVE", "X", res)
  <2>1. Table!Grantable(t, o, "EXCLUSIVE")
    BY <1>3, QueueModes, GrantableModes DEF OnlyRequestOf, LockMode
  <2>. QED
    BY <1>0, <1>3, <2>1, GrantOnTableIsRequest
<1>4. CASE /\ check_lock(t) /\ ~OnlyRequestOf(t, o, LockMode) /\ Conflict(res)
  <2>1. ~Table!Grantable(t, o, "EXCLUSIVE")
    BY <1>4, GrantableModes DEF OnlyRequestOf, LockMode, NoRequest
  <2>. QED
    BY <1>0, <1>4, <2>1, ConflictIsRequest
<1>5. CASE /\ check_lock(t) /\ ~Holds(t, o) /\ group[o] = "NON_LOCK"
           /\ Grant(t, o, "EXCLUSIVE", "X", res)
  <2>1. Table!Grantable(t, o, "EXCLUSIVE")
    BY <1>5, GroupModeTells, GrantableModes
  <2>. QED
    BY <1>0, <1>5, <2>1, GrantOnTableIsRequest
<1>6. CASE /\ check_lock(t) /\ ~Holds(t, o) /\ group[o] # "NON_LOCK"
           /\ Conflict(res)
  <2>1. ~Table!Grantable(t, o, "EXCLUSIVE")
    BY <1>6, GroupModeTells, GrantableModes DEF Holds
  <2>. QED
    BY <1>0, <1>6, <2>1, ConflictIsRequest
<1>. QED
  BY <1>1, <1>2, <1>3, <1>4, <1>5, <1>6 DEF lock_exclusive_on_table

\* lock_IS_on_table is a request for IS, refused only by X.
LEMMA ISOnTableIsRequest ==
  ASSUME LockInv, NEW t \in Txns, NEW o \in Tables, NEW res, lock_IS_on_table(t, o, res)
  PROVE  LockRequest(t, o, "INTENTION_SHARED", res)
<1>. o \in LockDataId /\ "INTENTION_SHARED" \in LockMode
  BY DEF LockDataId, LockMode
<1>1. CASE check_lock_fails(t, res)
  BY <1>1 DEF LockRequest
<1>2. CASE check_lock(t) /\ Holds(t, o) /\ AlreadyHeld(res)
  BY <1>2, AlreadyHeldIsRequest DEF Table!Covers, Table!None, Holds, NoRequest
<1>3. CASE /\ check_lock(t) /\ ~Holds(t, o) /\ group[o] # "X"
           /\ Grant(t, o, "INTENTION_SHARED", IF group[o] = "NON_LOCK" THEN "IS" ELSE group[o], res)
  <2>. DEFINE q == queue[o]
  <2>1. q \in [Txns -> Requests] /\ group[o] = StrongestMode(q) /\ q[t] = NoRequest
    BY <1>3, QueueModes DEF LockInv, GroupModeIsStrongest, Holds
  <2>. HIDE DEF q
  <2>2. StrongestMode([q EXCEPT ![t] = "INTENTION_SHARED"])
          = IF group[o] = "NON_LOCK" THEN "IS" ELSE group[o]
    BY <2>1, NewIntentionShared
  <2>3. \A u \in Txns : q[u] # "EXCLUSIVE"
    BY <1>3, <2>1, StrongestModeBounds
  <2>4. Table!Grantable(t, o, "INTENTION_SHARED")
    BY <2>1, <2>3, GrantableModes DEF q
  <2>5. Table!Supremum(queue[o][t], "INTENTION_SHARED") = "INTENTION_SHARED"
    BY <2>1, Suprema DEF q
  <2>. QED
    BY <1>3, <2>2, <2>4, <2>5, GrantIsRequest DEF q
<1>4. CASE check_lock(t) /\ ~Holds(t, o) /\ group[o] = "X" /\ Conflict(res)
  <2>1. PICK u \in Txns : queue[o][u] = "EXCLUSIVE"
    BY <1>4, GroupModeTells
  <2>2. u # t
    BY <1>4, <2>1 DEF Holds, NoRequest
  <2>3. ~Table!Grantable(t, o, "INTENTION_SHARED")
    BY <2>1, <2>2, GrantableModes
  <2>. QED
    BY <1>4, <2>3, Suprema, ConflictIsRequest DEF Holds
<1>. QED
  BY <1>1, <1>2, <1>3, <1>4 DEF lock_IS_on_table

\* lock_IX_on_table is a request for IX: S becomes SIX.
LEMMA IXOnTableIsRequest ==
  ASSUME LockInv, NEW t \in Txns, NEW o \in Tables, NEW res, lock_IX_on_table(t, o, res)
  PROVE  LockRequest(t, o, "INTENTION_EXCLUSIVE", res)
<1>. o \in LockDataId /\ {"INTENTION_EXCLUSIVE", "S_IX"} \subseteq LockMode \ {"INTENTION_SHARED"}
  BY DEF LockDataId, LockMode
<1>. "IX" = GroupOf("INTENTION_EXCLUSIVE") /\ "SIX" = GroupOf("S_IX")
  BY DEF GroupOf
<1>1. CASE check_lock_fails(t, res)
  BY <1>1 DEF LockRequest
<1>2. CASE /\ check_lock(t) /\ queue[o][t] \in {"INTENTION_EXCLUSIVE", "S_IX", "EXCLUSIVE"}
           /\ AlreadyHeld(res)
  BY <1>2, AlreadyHeldIsRequest DEF Table!Covers, Holds, NoRequest
<1>3. CASE /\ check_lock(t) /\ queue[o][t] = "SHARED" /\ OnlyRequestOf(t, o, {"SHARED"})
           /\ Upgrade(t, o, "S_IX", "SIX", res)
  <2>1. Table!Grantable(t, o, "S_IX")
    BY <1>3, HolderBounds, GrantableModes DEF OnlyRequestOf
  <2>. QED
    BY <1>3, <2>1, Suprema, GrantOnTableIsRequest DEF Holds, NoRequest
<1>4. CASE /\ check_lock(t) /\ queue[o][t] = "SHARED" /\ ~OnlyRequestOf(t, o, {"SHARED"})
           /\ Conflict(res)
  <2>1. ~Table!Grantable(t, o, "S_IX")
    BY <1>4, GrantableModes DEF OnlyRequestOf, NoRequest
  <2>. QED
    BY <1>4, <2>1, Suprema, ConflictIsRequest
<1>5. CASE /\ check_lock(t) /\ queue[o][t] = "INTENTION_SHARED" /\ group[o] \in {"IS", "IX"}
           /\ Upgrade(t, o, "INTENTION_EXCLUSIVE", "IX", res)
  <2>1. Table!Grantable(t, o, "INTENTION_EXCLUSIVE")
    BY <1>5, GroupModeTells, GrantableModes
  <2>. QED
    BY <1>5, <2>1, Suprema, GrantOnTableIsRequest DEF Holds, NoRequest
<1>6. CASE /\ check_lock(t) /\ queue[o][t] = "INTENTION_SHARED" /\ group[o] \notin {"IS", "IX"}
           /\ Conflict(res)
  <2>1. group[o] # "NON_LOCK"
    BY <1>6, GroupModeTells DEF NoRequest
  <2>2. ~Table!Grantable(t, o, "INTENTION_EXCLUSIVE")
    BY <1>6, <2>1, ExcludesIX
  <2>. QED
    BY <1>6, <2>2, Suprema, ConflictIsRequest
<1>7. CASE /\ check_lock(t) /\ ~Holds(t, o) /\ group[o] \in {"NON_LOCK", "IS", "IX"}
           /\ Grant(t, o, "INTENTION_EXCLUSIVE", "IX", res)
  <2>1. Table!Grantable(t, o, "INTENTION_EXCLUSIVE")
    BY <1>7, GroupModeTells, GrantableModes
  <2>. QED
    BY <1>7, <2>1, Suprema, GrantOnTableIsRequest DEF Holds
<1>8. CASE /\ check_lock(t) /\ ~Holds(t, o) /\ group[o] \notin {"NON_LOCK", "IS", "IX"}
           /\ Conflict(res)
  <2>1. ~Table!Grantable(t, o, "INTENTION_EXCLUSIVE")
    BY <1>8, ExcludesIX DEF Holds
  <2>. QED
    BY <1>8, <2>1, Suprema, ConflictIsRequest DEF Holds
<1>. QED
  BY <1>1, <1>2, <1>3, <1>4, <1>5, <1>6, <1>7, <1>8 DEF lock_IX_on_table

-----------------------------------------------------------------------------
(* The invariant. *)

\* The operations keep a record's requests at S and X.
LEMMA RecordRequest ==
  ASSUME NEW h \in {NoRequest, "SHARED", "EXCLUSIVE"}, NEW mode \in {"SHARED", "EXCLUSIVE"}
  PROVE  Table!Supremum(h, mode) \in {NoRequest, "SHARED", "EXCLUSIVE"}
  BY DEF Table!Supremum, Table!Covers, Table!None, NoRequest

\* The supremum of a held and a requested mode is a mode.
LEMMA SupremumType ==
  ASSUME NEW h \in Requests, NEW mode \in LockMode
  PROVE  Table!Supremum(h, mode) \in LockMode
  BY DEF Table!Supremum, Table!Covers, Table!None, Requests, LockMode, NoRequest

\* A step that leaves the queues and the lock sets alone keeps what is said of them.
LEMMA SameQueues ==
  ASSUME LockInv, UNCHANGED <<lock_set, queue, group>>
  PROVE  CompatibleLocks' /\ GroupModeIsStrongest' /\ HeldLocksAreRecorded' /\ RecordModes'
<1>1. CompatibleLocks'
  BY DEF LockInv, CompatibleLocks, Table!Compatible, Table!None
<1>2. GroupModeIsStrongest'
  BY DEF LockInv, GroupModeIsStrongest, StrongestMode
<1>3. HeldLocksAreRecorded'
  BY DEF LockInv, HeldLocksAreRecorded, Holds
<1>4. RecordModes'
  BY DEF LockInv, RecordModes
<1>. QED
  BY <1>1, <1>2, <1>3, <1>4

\* A step that changes nothing preserves the invariant.
LEMMA UnchangedPreservesInv ==
  ASSUME LockInv, UNCHANGED lockVars
  PROVE  LockInv'
<1>1. LockTypeOK' /\ DefaultHoldsNothing'
  BY DEF lockVars, LockInv, LockTypeOK, DefaultHoldsNothing
<1>. QED
  BY <1>1, SameQueues DEF lockVars, LockInv

\* A request that conflicts disturbs nothing but the state, which becomes GROWING.
LEMMA RefusalPreservesInv ==
  ASSUME LockInv, NEW t \in Txns, check_lock(t), UNCHANGED <<lock_set, queue, group>>
  PROVE  LockInv'
<1>1. LockTypeOK'
  BY DEF LockInv, LockTypeOK, check_lock, TransactionState
<1>2. DefaultHoldsNothing'
  BY DEF LockInv, LockTypeOK, DefaultHoldsNothing, check_lock
<1>. QED
  BY <1>1, <1>2, SameQueues DEF LockInv

\* A request for a mode preserves the invariant, whatever it returns.
LEMMA RequestPreservesInv ==
  ASSUME LockInv, NEW t \in Txns, NEW o \in LockDataId, NEW mode \in LockMode, NEW res,
         o \in Records => mode \in {"SHARED", "EXCLUSIVE"},
         LockRequest(t, o, mode, res)
  PROVE  LockInv'
<1>. DEFINE target == Table!Supremum(queue[o][t], mode)
<1>1. CASE check_lock_fails(t, res)
  BY <1>1, UnchangedPreservesInv DEF check_lock_fails
<1>2. CASE check_lock(t) /\ UNCHANGED <<lock_set, queue, group>>
  BY <1>2, RefusalPreservesInv
<1>3. CASE /\ check_lock(t)
           /\ Table!Grantable(t, o, target)
           /\ queue' = [queue EXCEPT ![o][t] = target]
           /\ group' = [group EXCEPT ![o] = StrongestMode([queue[o] EXCEPT ![t] = target])]
           /\ lock_set' = [lock_set EXCEPT ![t] = @ \cup {o}]
  <2>1. queue \in [LockDataId -> [Txns -> Requests]] /\ lock_set \in [Txns -> SUBSET LockDataId]
        /\ state \in [Txns -> TransactionState]
    BY DEF LockInv, LockTypeOK, Requests
  <2>2. target \in LockMode /\ target \in Requests
    BY <2>1, SupremumType DEF Requests
  <2>3. o \in Records => target \in {NoRequest, "SHARED", "EXCLUSIVE"}
    BY QueueModes, RecordRequest
  <2>4. /\ queue' \in [LockDataId -> [Txns -> Requests]]
        /\ group' \in [LockDataId -> GroupLockMode]
        /\ CompatibleLocks' /\ GroupModeIsStrongest'
    <3>1. \A u \in Txns \ {t} : Table!Compatible(queue[o][u], target)
      BY <1>3 DEF Table!Grantable
    <3>. HIDE DEF target
    <3>. QED
      BY <1>3, <2>2, <3>1, SetMode
  <2>. HIDE DEF target
  <2>5. LockTypeOK'
    BY <1>3, <2>1, <2>4 DEF LockTypeOK, Requests, check_lock, TransactionState
  <2>6. HeldLocksAreRecorded'
    BY <1>3, <2>1 DEF LockInv, HeldLocksAreRecorded, Holds
  <2>7. RecordModes'
    BY <1>3, <2>1, <2>3 DEF LockInv, RecordModes, LockDataId
  <2>8. DefaultHoldsNothing'
    BY <1>3, <2>1 DEF LockInv, DefaultHoldsNothing, check_lock
  <2>. QED
    BY <2>4, <2>5, <2>6, <2>7, <2>8 DEF LockInv
<1>. QED
  BY <1>1, <1>2, <1>3 DEF LockRequest

\* unlock preserves the invariant: removing a request leaves compatible modes, and
\* the group mode is recomputed.
LEMMA UnlockPreservesInv ==
  ASSUME LockInv, NEW t \in Txns, NEW o \in LockDataId, NEW res, unlock(t, o, res)
  PROVE  LockInv'
<1>1. CASE UNCHANGED lockVars
  BY <1>1, UnchangedPreservesInv
<1>2. CASE /\ state[t] \notin {"ABORTED", "COMMITTED"}
           /\ state' = [state EXCEPT ![t] = IF @ = "GROWING" THEN "SHRINKING" ELSE @]
           /\ queue' = [queue EXCEPT ![o][t] = NoRequest]
           /\ group' = [group EXCEPT ![o] = StrongestMode([queue[o] EXCEPT ![t] = NoRequest])]
           /\ UNCHANGED lock_set
  <2>1. queue \in [LockDataId -> [Txns -> Requests]] /\ lock_set \in [Txns -> SUBSET LockDataId]
        /\ state \in [Txns -> TransactionState]
    BY DEF LockInv, LockTypeOK, Requests
  <2>2. \A u \in Txns : Table!Compatible(queue[o][u], NoRequest)
    BY DEF Table!Compatible, Table!None, NoRequest
  <2>3. /\ queue' \in [LockDataId -> [Txns -> Requests]]
        /\ group' \in [LockDataId -> GroupLockMode]
        /\ CompatibleLocks' /\ GroupModeIsStrongest'
    BY <1>2, <2>2, SetMode DEF Requests
  <2>4. LockTypeOK'
    BY <1>2, <2>1, <2>3 DEF LockTypeOK, Requests, TransactionState
  <2>5. HeldLocksAreRecorded'
    BY <1>2, <2>1 DEF LockInv, HeldLocksAreRecorded, Holds
  <2>6. RecordModes'
    BY <1>2, <2>1 DEF LockInv, RecordModes, LockDataId
  <2>7. DefaultHoldsNothing'
    BY <1>2, <2>1 DEF LockInv, DefaultHoldsNothing
  <2>. QED
    BY <2>3, <2>4, <2>5, <2>6, <2>7 DEF LockInv
<1>. QED
  BY <1>1, <1>2 DEF unlock

\* The end of a transaction preserves the invariant, since it holds no lock then.
LEMMA EndPreservesInv ==
  ASSUME LockInv, NEW t \in Txns, set_committed(t) \/ set_aborted(t)
  PROVE  LockInv'
<1>1. LockTypeOK'
  BY DEF LockInv, LockTypeOK, set_committed, set_aborted, TransactionState
<1>0. UNCHANGED <<queue, group>>
  BY DEF set_committed, set_aborted
<1>2. CompatibleLocks'
  BY <1>0 DEF LockInv, CompatibleLocks, Table!Compatible, Table!None
<1>3. GroupModeIsStrongest'
  BY <1>0 DEF LockInv, GroupModeIsStrongest, StrongestMode
<1>4. HeldLocksAreRecorded'
  BY DEF LockInv, LockTypeOK, HeldLocksAreRecorded, Holds, set_committed, set_aborted
<1>5. RecordModes' /\ DefaultHoldsNothing'
  BY DEF LockInv, LockTypeOK, RecordModes, DefaultHoldsNothing, set_committed, set_aborted
<1>. QED
  BY <1>1, <1>2, <1>3, <1>4, <1>5 DEF LockInv

\* Every step is a request for a mode, an unlock or the end of a transaction.
LEMMA StepKinds ==
  ASSUME LockInv, LockNext
  PROVE  \E t \in Txns :
           \/ \E o \in LockDataId, mode \in LockMode, res \in Results :
                (o \in Records => mode \in {"SHARED", "EXCLUSIVE"}) /\ LockRequest(t, o, mode, res)
           \/ \E o \in LockDataId, res \in Results : unlock(t, o, res)
           \/ set_committed(t) \/ set_aborted(t)
<1>. DEFINE IsRequest == \E t \in Txns, o \in LockDataId, mode \in LockMode, res \in Results :
                           (o \in Records => mode \in {"SHARED", "EXCLUSIVE"}) /\ LockRequest(t, o, mode, res)
<1>. USE DEF LockDataId, LockMode
<1>1. ASSUME NEW t \in Txns, NEW o \in Records, NEW res \in Results, lock_shared_on_record(t, o, res)
      PROVE  IsRequest
  BY <1>1, SharedOnRecordIsRequest
<1>2. ASSUME NEW t \in Txns, NEW o \in Records, NEW res \in Results, lock_exclusive_on_record(t, o, res)
      PROVE  IsRequest
  BY <1>2, ExclusiveOnRecordIsRequest
<1>3. ASSUME NEW t \in Txns, NEW o \in Tables, NEW res \in Results, lock_shared_on_table(t, o, res)
      PROVE  IsRequest
  BY <1>3, SharedOnTableIsRequest
<1>4. ASSUME NEW t \in Txns, NEW o \in Tables, NEW res \in Results, lock_exclusive_on_table(t, o, res)
      PROVE  IsRequest
  BY <1>4, ExclusiveOnTableIsRequest
<1>5. ASSUME NEW t \in Txns, NEW o \in Tables, NEW res \in Results, lock_IS_on_table(t, o, res)
      PROVE  IsRequest
  BY <1>5, TablesAreNotRecords, ISOnTableIsRequest
<1>6. ASSUME NEW t \in Txns, NEW o \in Tables, NEW res \in Results, lock_IX_on_table(t, o, res)
      PROVE  IsRequest
  BY <1>6, TablesAreNotRecords, IXOnTableIsRequest
<1>. QED
  BY <1>1, <1>2, <1>3, <1>4, <1>5, <1>6 DEF LockNext

\* Every operation preserves the invariant.
LEMMA NextPreservesInv == LockInv /\ [LockNext]_lockVars => LockInv'
<1>. SUFFICES ASSUME LockInv, [LockNext]_lockVars PROVE LockInv'
  OBVIOUS
<1>1. CASE LockNext
  BY <1>1, StepKinds, RequestPreservesInv, UnlockPreservesInv, EndPreservesInv
<1>2. CASE UNCHANGED lockVars
  BY <1>2, UnchangedPreservesInv
<1>. QED
  BY <1>1, <1>2

\* The initial state, in which nothing is locked, satisfies the invariant.
LEMMA InitInv == LockInit => LockInv
<1>. SUFFICES ASSUME LockInit PROVE LockInv
  OBVIOUS
<1>1. LockTypeOK
  BY DEF LockInit, LockTypeOK, TransactionState, GroupLockMode
<1>2. CompatibleLocks
  BY DEF LockInit, CompatibleLocks, Table!Compatible, Table!None, NoRequest
<1>3. GroupModeIsStrongest
  BY DEF LockInit, GroupModeIsStrongest, StrongestMode, NoRequest
<1>4. HeldLocksAreRecorded /\ RecordModes /\ DefaultHoldsNothing
  BY DEF LockInit, HeldLocksAreRecorded, Holds, RecordModes, DefaultHoldsNothing, LockDataId
<1>. QED
  BY <1>1, <1>2, <1>3, <1>4 DEF LockInv

\* The inductive invariant of the lock manager.
THEOREM LockInvariant == LockSpec => []LockInv
  BY InitInv, NextPreservesInv, PTL DEF LockSpec

\* The lock manager's state has its types.
THEOREM LockTypes == LockSpec => []LockTypeOK
  BY LockInvariant, PTL DEF LockInv

\* For every number of transactions, tables and records, no two transactions hold
\* incompatible locks on one object.
THEOREM MutualCompatibility == LockSpec => []CompatibleLocks
  BY LockInvariant, PTL DEF LockInv

\* group_lock_mode_ always is the strongest mode of its queue.
THEOREM GroupModeCorrect == LockSpec => []GroupModeIsStrongest
  BY LockInvariant, PTL DEF LockInv

\* commit and abort find every lock of a transaction in its lock set.
THEOREM NoLockEscapes == LockSpec => []HeldLocksAreRecorded
  BY LockInvariant, PTL DEF LockInv

-----------------------------------------------------------------------------
(* What a step may never do. *)

\* A transaction past its growing phase acquires and strengthens nothing.
THEOREM TwoPhaseLocking == LockSpec => TwoPhase
<1>1. ASSUME LockInv, LockNext, NEW u \in Txns, NEW p \in LockDataId,
             state[u] \notin {"DEFAULT", "GROWING"}
      PROVE  queue'[p][u] \in {queue[p][u], NoRequest}
  <2>1. queue \in [LockDataId -> [Txns -> Requests]]
    BY <1>1 DEF LockInv, LockTypeOK, Requests
  <2>2. ASSUME NEW t \in Txns, NEW o \in LockDataId, NEW mode, NEW res, LockRequest(t, o, mode, res)
        PROVE  queue'[p][u] = queue[p][u]
    BY <1>1, <2>1, <2>2 DEF LockRequest, check_lock, check_lock_fails, lockVars
  <2>3. ASSUME NEW t \in Txns, NEW o \in LockDataId, NEW res, unlock(t, o, res)
        PROVE  queue'[p][u] \in {queue[p][u], NoRequest}
    BY <2>1, <2>3 DEF unlock, lockVars
  <2>4. ASSUME NEW t \in Txns, set_committed(t) \/ set_aborted(t)
        PROVE  queue'[p][u] = queue[p][u]
    BY <2>4 DEF set_committed, set_aborted
  <2>. QED
    BY <1>1, <2>2, <2>3, <2>4, StepKinds
<1>2. LockInv /\ [LockNext]_lockVars =>
        [\A t \in Txns, o \in LockDataId :
           state[t] \notin {"DEFAULT", "GROWING"} => queue'[o][t] \in {queue[o][t], NoRequest}]_lockVars
  BY <1>1
<1>. QED
  BY <1>2, LockInvariant, PTL DEF LockSpec, TwoPhase

\* A call that returns is a request for the mode it names.
LEMMA CallIsRequest ==
  ASSUME LockInv, NEW t \in Txns, NEW o \in LockDataId, NEW mode \in LockMode, NEW res,
         RequestReturns(t, o, mode, res)
  PROVE  LockRequest(t, o, mode, res)
  BY SharedOnRecordIsRequest, ExclusiveOnRecordIsRequest, SharedOnTableIsRequest,
     ExclusiveOnTableIsRequest, ISOnTableIsRequest, IXOnTableIsRequest DEF RequestReturns

\* The supremum covers both of its arguments.
LEMMA SupremumCovers ==
  ASSUME NEW h \in Requests, NEW mode \in LockMode
  PROVE  /\ Table!Covers(Table!Supremum(h, mode), mode)
         /\ Table!Covers(Table!Supremum(h, mode), h)
  BY DEF Table!Supremum, Table!Covers, Table!None, Requests, LockMode, NoRequest

\* Every call, whether or not it changes the lock table, starts from a state in which
\* the inductive invariant holds.
LEMMA CallInvariant == CallSpec => []LockInv
<1>1. CallInit => LockInv
  BY InitInv DEF CallInit
<1>2. LockInv /\ [CallNext]_callVars => LockInv'
  BY NextPreservesInv DEF CallNext, callVars
<1>. QED
  BY <1>1, <1>2, PTL DEF CallSpec

\* A lock call that returns true leaves a mode that covers the requested mode and
\* the one that was held.
THEOREM GrantsSuffice == CallSpec => GrantCovers
<1>1. ASSUME LockInv, NEW t \in Txns, NEW o \in LockDataId, NEW mode \in LockMode,
             RequestReturns(t, o, mode, "true")
      PROVE  /\ Table!Covers(queue'[o][t], mode)
             /\ Table!Covers(queue'[o][t], queue[o][t])
  <2>1. queue \in [LockDataId -> [Txns -> Requests]]
    BY <1>1 DEF LockInv, LockTypeOK, Requests
  <2>2. LockRequest(t, o, mode, "true")
    BY <1>1, CallIsRequest
  <2>3. queue'[o][t] = Table!Supremum(queue[o][t], mode)
    BY <2>1, <2>2 DEF LockRequest, check_lock_fails
  <2>. QED
    BY <2>1, <2>3, SupremumCovers
<1>2. LockInv /\ [CallNext]_callVars =>
        [\A t \in Txns, o \in LockDataId, mode \in LockMode :
           RequestReturns(t, o, mode, "true") =>
             /\ Table!Covers(queue'[o][t], mode)
             /\ Table!Covers(queue'[o][t], queue[o][t])]_callVars
  BY <1>1
<1>. QED
  BY <1>2, CallInvariant, PTL DEF CallSpec, GrantCovers

\* A lock call throws only in the shrinking phase or on a real conflict.
THEOREM AbortsAreJustified == CallSpec => NoSpuriousAbort
<1>1. ASSUME LockInv, NEW t \in Txns, NEW o \in LockDataId, NEW mode \in LockMode,
             RequestReturns(t, o, mode, "abort")
      PROVE  \/ state[t] = "SHRINKING"
             \/ ~Table!Grantable(t, o, Table!Supremum(queue[o][t], mode))
  <2>1. LockRequest(t, o, mode, "abort")
    BY <1>1, CallIsRequest
  <2>. QED
    BY <2>1 DEF LockRequest, check_lock_fails
<1>2. LockInv /\ [CallNext]_callVars =>
        [\A t \in Txns, o \in LockDataId, mode \in LockMode :
           RequestReturns(t, o, mode, "abort") =>
             \/ state[t] = "SHRINKING"
             \/ ~Table!Grantable(t, o, Table!Supremum(queue[o][t], mode))]_callVars
  BY <1>1
<1>. QED
  BY <1>2, CallInvariant, PTL DEF CallSpec, NoSpuriousAbort

-----------------------------------------------------------------------------
(* The lock manager implements the abstract lock table. *)

\* The phase that the refinement mapping gives to a transaction.
Phase == [t \in Txns |-> IF state[t] \in {"DEFAULT", "GROWING"} THEN "growing"
                         ELSE IF state[t] = "SHRINKING" THEN "shrinking"
                         ELSE "ended"]

\* A request acquires the abstract lock if it is granted and stutters if it is not.
LEMMA RequestRefines ==
  ASSUME LockInv, NEW t \in Txns, NEW o \in LockDataId, NEW mode \in LockMode, NEW res,
         LockRequest(t, o, mode, res)
  PROVE  [Table!Next]_(Table!tableVars)
<1>1. CASE UNCHANGED lockVars
  BY <1>1 DEF lockVars, Table!tableVars
<1>2. ASSUME check_lock(t) PROVE UNCHANGED Phase /\ Phase[t] = "growing"
  BY <1>2 DEF LockInv, LockTypeOK, check_lock, Phase
<1>3. CASE check_lock(t) /\ UNCHANGED queue
  BY <1>2, <1>3 DEF Table!tableVars, Phase
<1>4. CASE /\ check_lock(t)
           /\ Table!Grantable(t, o, Table!Supremum(queue[o][t], mode))
           /\ queue' = [queue EXCEPT ![o][t] = Table!Supremum(queue[o][t], mode)]
  <2>1. Table!Acquire(t, o, mode)
    BY <1>2, <1>4 DEF Table!Acquire, Phase
  <2>. QED
    BY <2>1 DEF Table!Next, Table!Mode, LockMode
<1>. QED
  BY <1>1, <1>3, <1>4 DEF LockRequest, check_lock_fails

\* unlock releases the abstract lock; before the first lock call, and after the end
\* of the transaction, it stutters.
LEMMA UnlockRefines ==
  ASSUME LockInv, NEW t \in Txns, NEW o \in LockDataId, NEW res, unlock(t, o, res)
  PROVE  [Table!Next]_(Table!tableVars)
<1>1. CASE UNCHANGED lockVars
  BY <1>1 DEF lockVars, Table!tableVars
<1>2. CASE /\ state[t] = "DEFAULT"
           /\ state' = [state EXCEPT ![t] = IF @ = "GROWING" THEN "SHRINKING" ELSE @]
           /\ queue' = [queue EXCEPT ![o][t] = NoRequest]
  <2>1. state' = state
    BY <1>2 DEF LockInv, LockTypeOK
  <2>2. queue' = queue
    BY <1>2 DEF LockInv, LockTypeOK, DefaultHoldsNothing
  <2>. QED
    BY <2>1, <2>2 DEF Table!tableVars
<1>3. CASE /\ state[t] \in {"GROWING", "SHRINKING"}
           /\ state' = [state EXCEPT ![t] = IF @ = "GROWING" THEN "SHRINKING" ELSE @]
           /\ queue' = [queue EXCEPT ![o][t] = NoRequest]
  <2>1. Phase[t] # "ended" /\ Phase' = [Phase EXCEPT ![t] = "shrinking"]
    BY <1>3 DEF LockInv, LockTypeOK, Phase
  <2>2. Table!Release(t, o)
    BY <1>3, <2>1 DEF Table!Release, Table!None, NoRequest, Phase
  <2>. QED
    BY <2>2 DEF Table!Next
<1>. QED
  BY <1>1, <1>2, <1>3 DEF unlock, LockInv, LockTypeOK, TransactionState

\* The end of a transaction is its abstract end.
LEMMA EndRefines ==
  ASSUME LockInv, NEW t \in Txns, set_committed(t) \/ set_aborted(t)
  PROVE  [Table!Next]_(Table!tableVars)
<1>1. Phase' = [Phase EXCEPT ![t] = "ended"] /\ UNCHANGED queue
  BY DEF LockInv, LockTypeOK, set_committed, set_aborted, Phase
<1>2. Table!End(t)
  BY <1>1 DEF Table!End, Table!None, NoRequest, Phase, set_committed, set_aborted, Holds
<1>. QED
  BY <1>2 DEF Table!Next

\* Through its group modes and upgrade paths, the lock manager does what the
\* abstract two-phase lock table allows.
THEOREM RefinesLockTable == LockSpec => ImplementsLockTable
<1>1. LockInit => Table!Init
  BY DEF LockInit, Table!Init, Table!None, NoRequest
<1>2. LockInv /\ [LockNext]_lockVars => [Table!Next]_(Table!tableVars)
  <2>. SUFFICES ASSUME LockInv, [LockNext]_lockVars PROVE [Table!Next]_(Table!tableVars)
    OBVIOUS
  <2>1. CASE LockNext
    BY <2>1, StepKinds, RequestRefines, UnlockRefines, EndRefines
  <2>2. CASE UNCHANGED lockVars
    BY <2>2 DEF lockVars, Table!tableVars
  <2>. QED
    BY <2>1, <2>2
<1>. QED
  BY <1>1, <1>2, LockInvariant, PTL DEF LockSpec, ImplementsLockTable, Table!Spec

=============================================================================
