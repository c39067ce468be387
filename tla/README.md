# A TLA+ model of RMDB

RMDB is a small relational database server in C++. Its clients send SQL over TCP;
every session has a thread; transactions are isolated by multigranularity two-phase
locking under the *no-wait* policy (a lock that is not free aborts the requester).
This directory models its transactions, storage, index, log and recovery, catalogue,
threads, and the planning and execution of queries. Paths below are relative to `src/src`.

## 1. The system

| Part | Source | State | Operations |
|---|---|---|---|
| Server | `rmdb.cpp` | per session: current transaction; mutexes for the parser and the socket | accept, request, reply, autocommit, exception handlers |
| Dispatch | `portal.h`, `execution/execution_manager.cpp` | none | choose executors; BEGIN, COMMIT, ABORT, ROLLBACK |
| Executors | `execution/` | cursors, rids | INSERT, UPDATE, DELETE, sequential and index scan, joins, sort |
| Transaction manager | `transaction/` | `txn_map`, `latch_`; per transaction: state, mode, write set, lock set | begin, commit, abort |
| Lock manager | `transaction/concurrency/` | a queue of requests and a group mode per table and record | six lock operations, unlock |
| Record file | `record/` | pages of records, bitmap, list of free pages | get, insert, delete, update, scan |
| B+ tree | `index/` | nodes, `root_latch_`, latches on pages | insert, delete, look up, split, merge |
| Buffer pool | `storage/`, `replacer/` | frames, page table, free list, LRU list | fetch, new, unpin, flush, delete |
| Disk manager | `storage/disk_manager.cpp` | files, next page numbers | read, write, allocate |
| Log, recovery | `recovery/` | log file, lsn | append; analyze, redo, undo |
| System manager | `system/` | metadata, open files | create and drop tables and indexes |
| Optimizer | `optimizer/` | none | choice of indexes and of the join tree |
| Parser, analyzer | `parser/`, `analyze/` | a global parse tree | SQL to a checked query |

A statement goes through parser, analyzer and optimizer to executors. These lock the
table, then records, change index and record file, and append to the write set of the
transaction. `commit` releases the locks and logs; `abort` first undoes the write set
backwards. Both hold `TransactionManager::latch_` throughout, and `begin` and
`get_transaction` take it for every request; the executors do not. All pages go through
the buffer pool.

What makes the code hard: threads interleave between any two lock calls; locks are
released one by one, and before the COMMIT record is written; slots are chosen and
bitmap bytes changed without a latch; exceptions leave statements, index operations and
even `abort` half done; sessions end inside transactions; frames and file descriptors
are used again; the process may end between any two writes to disk; and the mutexes of
the accept loop and of the parser are locked by one thread and unlocked by another.
`PROJECT.json` lists each of these hazards with its line.

## 2. The modules

| Module | Models |
|---|---|
| `LockTable` | abstract: a two-phase multigranularity lock table |
| `LockManager` | `lock_manager.cpp`; refines `LockTable` |
| `LockCalls` | the same with every call a step, also one that changes nothing |
| `LockManagerProofs` | theorems about the lock manager |
| `IxNode` | operators on a B+ tree node |
| `RecordFile` | the record file of a table and its index; extends `LockManager`, `IxNode` |
| `TransactionManager` | begin, commit, abort; extends `RecordFile` |
| `Server` | sessions and executors; extends `TransactionManager` |
| `ServerInv` | the server's inductive invariant |
| `ServerStatements`, `ServerEnds` | lemmas about it: each step of a statement, and of a commit or abort, keeps it |
| `ServerProofs` | theorems about the server |
| `PageStore` | abstract: pages that keep what was written to them |
| `BufferPool` | buffer pool, replacer and disk pages; refines `PageStore` |
| `BufferPoolProofs` | theorems about the buffer pool |
| `BPlusTree` | an index of several levels; extends `IxNode` |
| `RecordPages` | a record file of several pages and its list of free pages |
| `PageLayout` | what fits a page |
| `RecordPagesProofs` | theorems about `RecordPages` and `PageLayout` |
| `Recovery` | log, page writes, crash, restart |
| `RecoveryProofs` | theorems about `Recovery` |
| `Catalog` | `SmManager`: tables and indexes, their files, `db.meta` |
| `Listener` | `start_server` and `client_handler`: threads and mutexes |
| `Lifecycle` | the process from start to end and again; extends `Listener`, `Catalog` |
| `LifecycleProofs` | theorems about `Lifecycle` |
| `Planner` | `planner.cpp` for SELECT |
| `Executors` | scans, joins and sort; extends `Planner` |
| `MC...` | values for model checking |

Operators named `..._unchecked`, `..._never` and the like, marked *Mistake*, are plausible
errors. No specification uses them; they show that the properties can fail.

**LockManager.** `queue[o][t]` is the mode of `t`'s request in the queue of `o`, `group[o]`
the `group_lock_mode_`, `state` and `lock_set` fields of `Transaction`. The request list
is a function because the code searches it by transaction, counts modes and asks for its
size, never for a position. Each operation holds the manager's mutex throughout and is one
action; its last parameter is the result: `"true"`, `"false"`, or `"abort"` for an
exception. `set_committed` and `set_aborted` stand for the end of `commit` and `abort`;
the guard that no lock is held is what the lock manager relies on, and run `server`
checks that the server honours it (`UsesLockManager`).

**RecordFile.** One page of slots. A record is its key and, as history, its writer.
`insert_record` chooses a slot, then locks and copies, then sets the bit; the bit is a load
and a store of a byte (`byte`). Where the caller has the table in S or SIX the operation is
one step, since nobody else changes the page. The index is one leaf with room for all keys.
Its arrays keep stale bytes behind the last pair, as the code's do. `root_latch` says
whether an exception has left `root_latch_` and the leaf locked; then every index operation
blocks. `col_tot_len` is 0, as `create_index` leaves it in the metadata. Keys are integers
of four bytes, lowest first, so that `strncmp` and `memcmp` mean what they do.

**TransactionManager.** `commit` and `abort` are: take `latch_`; undo one write at a time;
release one lock at a time in any order (`lock_set_` is an unordered set); log, set the
state, give up `latch_`. The undo of an INSERT is two steps, for its bitmap byte. Only
COMMIT and ABORT records are in `log`. `commit` resets a copy of the pointer to the lock
set, so `lock_set` stays; `abort` clears it.

**Server.** `thread[s].pc` is where the thread of session `s` is. A client may send any
statement of `Statements`, or disconnect; a reply may fail. `"bad"` is a statement that the
parser or analyzer refuses. Which rows satisfy the condition of an UPDATE or DELETE is left
open. After every statement outside an explicit transaction the thread commits, also after
a failure or an abort. A step that touches only what the thread has locked is joined to the
lock call before it. `deps` is history: who has read whose rows.

**BufferPool.** `pages[f]` is a frame, `lru` the LRU list with the frame used last in
front; a frame may be in the free list and in `lru`, as after `delete_page`. Each operation
holds the pool's mutex and is one action. Between operations clients write through the
`Page*` they were given (`held`). Clients unpin what they have fetched once, and mark dirty
what they have written. `fetch_page_throws` is the fetch of a page that was never written:
`read_page` throws after `update_page`, and the entry of the page stays. `drop_table` is DROP
TABLE and CREATE TABLE with the same file descriptor. A page that was deleted may be fetched
again: after a merge `delete_entry` deletes the leaf it was called for, and when that was the
first child, `coalesce` has swapped only its own pointers and the leaf is the one that
survives. `stale` is history: a page was loaded while another frame still had its `id_`, in
this way or through the reuse of a descriptor. From then on `update_page` of that other frame
may erase the entry of a pinned page, and nothing below is promised any more.

**BPlusTree.** `tree.node[p]` is the node on page `p`, with the arrays of keys and rids,
stale bytes included; `tree.status` is how the last operation ended: `"thrown"` an
exception, `"died"` the end of the process. An insertion or deletion is one step, with its
splits, redistributions and merges, and writers come one after the other. The latches alone
do not see to that: `find_leaf_page` gives up `root_latch_` and the ancestors of a node that
is not full (or not at its minimum), and `maintain_parent` writes first keys into ancestors
without latching them again, so two writers may meet there. A search is one step per level, since it gives up a node before it latches the child.
`events` is history and names what the code does not survive: `"merge"`, two nodes were
merged; `"misplaced"`, a pair was moved to where it does not belong, because a node takes
the first child of its parent for its neighbour; `"reinsert"`, a deleted key came back. *Calm*
excludes the first two, *Clean* all three; each property says which of them it needs.

**RecordPages.** Here a file has several pages with their record counts, linked to a list of
those with room. Every `+= 1` on shared memory is a load and a store, so that threads meet
between them. `write_page` is `lseek` and `write` on a descriptor that all threads share, and
the header is written without a latch: `write_hdr` may put it elsewhere (`lost`). `disturbed`
is history: `"overlap"`, two operations were under way on the file at once; `"moved"`, a
rollback put a deleted record into another slot.

**Recovery.** Pages in the pool, pages on disk, the log; a row is the change that made it.
The pool may write a page at any time (`Evict`), the process may crash at any time, or stop
through the signal handler, which writes all pages. `Start` and `StartDies` are
`analyze`, `redo` and `undo` together, as functions of log and disk: no other thread runs
yet. `read_log` reads the log in chunks as `analyze` does. lsns and transaction ids begin
at 0 in each process, and the log goes on. `create_new_page_handle` flushes the empty page
before the header counts it, and a crash may come between the two; `update_record` unpins the
page before `set_page_lsn` stamps it, in statements and in their undo; `abort` releases the
locks before it writes its record.

**Catalog, Listener, Lifecycle.** A statement of data definition is a step per change of the
disk. `hurt` is history: which moments a crash has hit, whether a process ended while an
index existed, and which CREATE INDEX failed half way: `"long"`, `IxManager::create_index`
threw after it had created the file; `"half"`, `get_record` threw while the index was filled. A thread of `Listener` goes from `accept` over the reading of its descriptor
to reading, parsing, analysing, executing and replying; mutexes may be unlocked by whoever
does not hold them. `Lifecycle` lets these threads execute the statements of `Catalog`, and
adds start, shutdown, crash, and the exceptions that end the process.

**Planner, Executors.** A query is a choice of tables, conditions, orders, limit, and the
rows and indexes of the tables. `make_one_rel` computes the tree of joins; executors have their state in a record and `beginTuple`, `nextTuple`, `is_end`, as in the
code. `pc` ends as `"done"`, `"failed"` (an exception), `"died"` or `"undefined"` (the plan
reads bytes that are not its own).

## 3. The runs that pass

| Run | Instance | Distinct states | Shows |
|---|---|---|---|
| `lock_manager` | 3 transactions, 1 table, 1 record | 11 080 | `CompatibleLocks`, `GroupModeIsStrongest`, `GrantCovers`, `NoSpuriousAbort`, `ImplementsLockTable` |
| `server` | 2 sessions, 2 requests each, 3 transactions, 2 slots, 2 keys, all statements | 925 777 | `CommitOrder`, `AutocommitLeavesNothing`, `ScansAreStable`, `UsesLockManager` |
| `rollback` | the same with 3 requests each, explicit transactions that abort | 2 241 230 | `RollbackIsNeverRefused`, `WritesAreRecorded`, `NoDirtyRead` |
| `answers` | 4 and 3 requests, an empty table with 2 slots, 1 key; BEGIN, ABORT, INSERT | 373 923 | `RequestsAreAnswered` |
| `buffer_pool` | 2 clients, 2 frames, 3 pages, 2 contents | 684 045 | `PinnedPagesStay`, `VictimsAreUnused`, `ImplementsPageStore` |
| `b_plus_tree` | 9 keys, `btree_order` 3, 5 keys loaded in 2 leaves, 5 changes, 1 search | 208 238 | `WellFormed`, `FailuresHaveACause`, `KeysAreFound`, `ScansAreExact`, `SearchesAreRight` |
| `record_pages` | 2 transactions, 2 records a page, 3 pages, 4 insertions | 4 312 876 | `FreeListIsExact`, `ScanVisitsEveryRecord` |
| `recovery` | 2 processes of 2 transactions, 2 pages, 3 changes, 6 log records | 278 846 | `UndoChainIsComplete`, `WriteAhead`, `PageLsnCoversThePage`, `AnalysisIsExact`, `LoggedPagesAreOnDisk` |
| `lifecycle` | 2 clients, 1 table with 2 kinds of index, 3 requests, any number of restarts | 221 688 | `TablesAreSaved`, `HandlesMatchTables`, `NoFileIsLeft`, `OpensAgain`, `OwnConnection`, `OwnParseTree`, `ConnectionsAreServed`, `RequestsGetThrough` |
| `query` | queries on 1, 2 and 4 tables, up to 3 conditions, 9 choices of indexes, ORDER BY and LIMIT | 31 400 | `AnswerIsExact`, `PlanIsComplete`, `QueriesAreAnswered` |

The type invariant of each module is checked as a property of its own (`server`) or as the
first conjunct of a structural one (`VictimsAreUnused`, `WellFormed`, `FreeListIsExact`,
`UndoChainIsComplete`, `HandlesMatchTables`, `AnswerIsExact`); that of the lock manager is
part of the server's, and proved.

- *Locks.* Two transactions never hold incompatible modes, although grants look only at the
  group mode. A granted call covers the request and what was held before; a call is refused
  only if another transaction excludes it or the caller is shrinking.
- *Isolation.* While a transaction has scanned the table nobody else changes it
  (`ScansAreStable`); no scan reads a row that is still to be undone (`NoDirtyRead`). Locks
  are given up before the COMMIT record is written, so a reader can see rows of a
  transaction that has not logged its end; `latch_` keeps the order of COMMIT records right
  (`CommitOrder`).
- *Rollback.* `abort` does not handle refused locks, and none are refused. It can undo all
  that a transaction has written: every row of a running transaction is in its write set, or
  its INSERT is not done (`WritesAreRecorded`), also after a statement that failed at a later
  row. It says nothing of the statement that fails in a transaction of its own: `rmdb.cpp`
  commits after the failure, and what an UPDATE or DELETE did to its first rows lasts.
- *Single statements* leave neither locks nor writes (`AutocommitLeavesNothing`).
- *Pages* are what was last written, through eviction, flush, deletion and dropped files,
  until a page is loaded while another frame has kept its id.
- *Index.* Until one of the three events, the tree is a B+ tree, finds what the table has,
  and returns ranges exactly; and no operation fails or ends the process without one of
  them. A search misses a key only when a split or a redistribution moves it under way.
- *Record pages.* While operations do not overlap and no rollback has moved a record, the
  list, the counters and the scan are right. Both conditions are needed: with a record that
  was moved, the undo of its insertion clears another slot than it counts. When operations do
  overlap, the header on disk is still the one in memory, unless its last write went astray.
- *Recovery.* Log records are chained without gaps; deletions and updates are logged before
  the page is written (insertions are not); a page on disk has what its `page_lsn` says; the
  analysis knows the unfinished transactions, and the pages that the header counts or the log
  names are on disk, so that `analyze` can read their lsns. What a restart makes of the rows
  is not stated: it dies at almost every log that has a change in it (`redo_dies` below).
- *Catalogue.* A table that was created or dropped stays so through any crash outside its
  statement. No file is left behind unless a crash hit a statement, an index existed at an
  end of the process, or a CREATE INDEX was refused for the length of its columns, after
  which the file is there and the next CREATE INDEX of that name fails. The database opens again unless a crash fell between the removal of a table's
  file and the writing of `db.meta`, or while `db.meta` was empty, or an index existed.
- *Threads* keep their connection and, unless a parser's exception has unlocked the mutex
  twice, their parse tree; unless `accept` has failed, connections are served.
- *Queries* that are answered are answered exactly, in order, and cut by LIMIT only behind a
  sort; `QueriesAreAnswered` lists all the cases in which they are not answered.

**Bounds.** Three transactions give every pair of modes with a third party; an operation
reads only the group mode, its own request and counts, and the theorems of section 5 hold
for any number anyway. In the server runs two sessions and two slots suffice for a
conflict, an upgrade, a full page, and a row to be undone beside another's insert;
`MaxRequests` bounds the requests, `Txns` the transactions handed out. `answers` has an empty
table with two free slots: two transactions insert the same key and abort, the second abort
throws with the index latched, and there is a request left to meet that. A full page stands
for a pool without a frame for a new page, where the code throws an `InternalError`. Two
frames for three pages force eviction; `MaxPages` and `MaxPins` bound pages and pins. The
tree starts with two leaves under a root: five changes split leaves and the root,
redistribute from both sides, merge, and bring deleted keys back. Two records a page make
pages fill up and empty with four insertions. A log buffer of four units makes records
straddle two chunks; two processes make ids come again. Three requests create a table, give
it an index and drop it, with a crash and a restart at every step. Two
records fill the buffer of a join, so blocks end before, at and behind the end of the left
input.
Deadlock is checked for the lock manager and the buffer pool only: elsewhere clients may
stop, bounds run out and processes end.

**Symmetry** of transactions, sessions, clients and threads is used for safety only, and not
where transaction ids are numbers; `answers` and `lifecycle` have none.

**Fairness.** In `Server` it is weak fairness of each session's own steps: a runnable thread
is scheduled. Clients owe nothing. A mutex is not fair, but a thread waits for `latch_` only
while others pass through it, and their requests are bounded in the instance. An exception can
leave the index latched (`IndexIsUnlatched`, section 4); then a request may wait forever, and
`RequestsAreAnswered` excuses it from that moment on. In
`Lifecycle` it is weak fairness of the accept loop, of each thread, and of the steps of a
statement and of a shutdown that have begun; nothing is assumed of clients, crashes,
shutdowns or restarts.

## 4. What does not hold

Two runs state what a comment of the code says and find an execution that breaks it. The
comments are quoted in `PROJECT.json`.

| Run | Execution |
|---|---|
| `redo_dies` | A transaction changes a row and the process crashes: `redo` calls the record file with a null context, which it dereferences for the lock manager. The server ends at this start and at every later one. |
| `stale_frame_id` | A page is deleted and its frame keeps its id. The page is fetched again into another frame, as the leaf that survives a merge is, or a new file with the same descriptor has such a page. The next use of the old frame takes the pinned page out of the page table. |

The following are stated in the modules and fail too. To see the execution, add the name to
the configuration.

| Property | Add to | Execution |
|---|---|---|
| `InsertsIntoFreeSlot` (PROPERTY) | `MCServerRollback.cfg` | Two inserts choose the same free slot; one commits and unlocks before the other locks, and its row is overwritten. |
| `UniqueKeys` | `MCServerRollback.cfg` | Two inserts both check the key before either inserts it. |
| `IndexMatchesTable` | `MCServerRollback.cfg` | Among others: a DELETE is refused the record after it took the index entry out, which the abort does not know. |
| `IndexIsUnlatched` | `MCServerRollback.cfg` | Deleting a key that the index does not have throws with the latches held. |
| `AbortedWritesAreUndone` | `MCServerRollback.cfg` | An insertion stores a bitmap byte it loaded before a rollback cleared a bit in it: the aborted row is back. Also UPDATE, DELETE, ABORT: the undo of DELETE moves the row, the undo of UPDATE writes the old slot. |
| `MergesComplete` | `MCBPlusTree.cfg` | A deletion merges two nodes and goes on to the parent without `root_is_latched`, which it dereferences. |

`IndexMatchesTable` fails in three more ways, each on an instance with one session: UPDATE
and ABORT, since the undo compares the keys over 0 bytes and the index keeps the new key;
DELETE and INSERT of the last key of a leaf, since the stale bytes behind the last pair pass
for the key; and UPDATE of key 256 to 512, since `strncmp` stops at the zero byte both begin
with. `IndexIsUnlatched` also fails inside the rollback of a refused statement, where no
handler is left for the exception and the server ends (`AbortThrows`).

## 5. The proofs

`LockManagerProofs` proves, for all sets of transactions, tables and records, assuming only
that tables are not records (`TablesAreNotRecords`):

| Theorem | Statement |
|---|---|
| `LockInvariant` | `LockSpec => []LockInv` |
| `LockTypes`, `MutualCompatibility`, `GroupModeCorrect`, `NoLockEscapes` | `LockTypeOK`, `CompatibleLocks`, `GroupModeIsStrongest`, `HeldLocksAreRecorded` are invariants |
| `TwoPhaseLocking` | `LockSpec => TwoPhase` |
| `GrantsSuffice`, `AbortsAreJustified` | `CallSpec => GrantCovers`, `CallSpec => NoSpuriousAbort` |
| `RefinesLockTable` | `LockSpec => ImplementsLockTable` |

`CompatibleLocks` is not inductive: an operation grants on the strength of the group mode,
so one has to know that it is the strongest mode of the queue (`GroupModeIsStrongest`).
That in turn needs that records carry only S and X (`RecordModes`), since the operations on
records overwrite the group mode without regard to intention modes. `DefaultHoldsNothing`,
that a transaction in state DEFAULT holds nothing, makes the first `unlock` of a
transaction, which leaves the state DEFAULT alone, a stutter of the lock table. `LockInv`
is the conjunction of these, the types and `HeldLocksAreRecorded`. The proof has a lemma per
operation; the refinement maps a call to an `Acquire` of the least mode covering request
and holding, an `unlock` to a `Release`, an end to an `End`, and the rest to stutters.

`LifecycleProofs` proves, for all sets of clients and tables and any number of requests,
assuming only that the values that stand for "free" and for an empty `db.meta` are no client
and no table (`FreeIsNoClient`, `TruncatedIsNoTable`):

| Theorem | Statement |
|---|---|
| `OwnConnectionThm`, `OwnParseTreeThm` | `OwnConnection`, `OwnParseTree` are invariants |
| `TablesAreSavedThm`, `OpensAgainThm` | `TablesAreSaved`, `OpensAgain` are invariants |
| `HandlesMatchTablesThm`, `NoFileIsLeftThm` | `HandlesMatchTables`, `NoFileIsLeft` are invariants |

`OwnConnection` needs to know that while a thread is between its creation and the reading of
its descriptor, `sockfd_mutex` is locked for it alone and the accept loop is not at its
assignment (`ConnInv`). `OwnParseTree` needs the link from the places inside the parser to
the mutex, and the event that breaks it (`ParseInv`). The two properties of the catalogue
hold between statements only, so their invariant says what holds at each step inside one:
`db.meta` is empty exactly while `flush_meta` writes it and differs from `db_` only from a
change up to that (`SavedInv`); a table in `db.meta` has its file except between its removal
and `flush_meta` in `drop_table` (`OpenInv`). `CatInv` is both. `HandlesMatchTables` and
`NoFileIsLeft` need what holds of handles and files while the process is not running and at
each step of a statement, above all that a table whose file is about to be removed has no
index left (`FileInv`).

`ServerProofs` proves, for any number of sessions, transactions, slots, keys and requests and
all sets of statements, assuming only that transaction ids are numbers handed out from 0, slots
and keys are numbers, and the loaded rows are sorted and on different slots (`TxnIds`,
`SlotsAreNumbers`, `KeysAreNumbers`, `LoadedRows`, `StatementKinds`, and `OneTable`):

| Theorem | Statement |
|---|---|
| `ServerInvariant` | `SafeSpec => []Inv` |
| `UsesLockManagerThm` | `SafeSpec => UsesLockManager`: the server implements `LockSpec`, so that the theorems on the lock manager hold in it |
| `CommitOrderThm`, `AutocommitLeavesNothingThm`, `RollbackIsNeverRefusedThm` | `CommitOrder`, `AutocommitLeavesNothing`, `RollbackIsNeverRefused` are invariants |
| `NoDirtyReadThm`, `ScansAreStableThm` | `SafeSpec => NoDirtyRead`, `SafeSpec => ScansAreStable` |
| `WritesAreRecordedThm` | `WritesAreRecorded` is an invariant |

`SafeSpec` is `Spec` without fairness. None of these properties is inductive, since what keeps
transactions apart is spread over three components. `Inv` collects what each contributes:
`LockInv`, the lock manager's own invariant; `Ownership`, no transaction has two sessions;
`Latching`, whoever holds `latch_` is at a commit or abort of its own, and only such a
transaction shrinks; `SessionInv`, which locks an executor has at each of its steps;
`TableFirst`, a lock on a record goes with one on the table until commit or abort; `Release`,
whatever is locked still is in the list of locks to release; `Undo`, every write to be undone
is locked X and its table SIX, or IX for an insertion; `Writers`, whoever wrote a row, or a row
that an undo will write back, has ended, is past its rollback, or has the table locked; and
`Logging`, ended transactions and only they are in the log, and whoever was read from has
ended or shrinks. From there:

- `RollbackIsNeverRefused`: the record of an undo is locked X by the transaction itself, and
  the slot of a re-insertion by nobody, as the transaction has the table SIX and others can
  lock records only with a lock on the table that is incompatible with it.
- `NoDirtyRead`: a scanner has the table S or SIX, which excludes writers with IX or SIX; by
  `Writers` the others have ended or shrink, and a transaction shrinks only after its undo.
- `CommitOrder`: a transaction that was read from while it shrinks holds `latch_` up to its
  record in the log, and the reader needs `latch_` to commit.
- `WritesAreRecorded`: `Recorded` says it of every slot, its bit set or not, since a row is in
  its slot before its bit is set. A row gets there by an INSERT, which names it in the end, by an
  UPDATE, which names it in the same step, or by a rollback, which puts back a row whose writer
  has ended, as the transaction has the table SIX. Write sets only grow until commit or abort.

`ServerStatements` has a lemma for each step of a statement and `ServerEnds` for each step of a
commit or abort. That a free slot is found when there is one (`NextBitIsFound`) follows from
the least number principle (`LeastNumber`, by `WellFoundedInduction`).

`BufferPoolProofs` proves, for every `pool_size` (0 included), every finite set of clients
and any files, pages, contents and pins, assuming that a page has no content that stands for
the end of a file (`PoolAssumption`, `ContentAssumption`):

| Theorem | Statement |
|---|---|
| `PoolInvariant` | `Spec => []PoolInv` |
| `PinnedPagesStayThm`, `VictimsAreUnusedThm` | `PinnedPagesStay`, `VictimsAreUnused` are invariants |
| `RefinesPageStore` | `Spec => ImplementsPageStore` |

`PinnedPagesStay` is not inductive: `update_page` takes the id that the victim has kept out
of the page table, and after `delete_page` a frame keeps the id of a page it no longer has.
`IdInv` says that a frame with the id of a page in the table is the frame of that page, which
is all that has to be known of the kept ids, and what a load keeps until `stale`; `TableInv`,
that the page table and the ids agree; `ListInv` and `PinInv`, that the victims are the frames with
`pin_count_` 0 and that this counts the users; and `CleanInv`, for the refinement, that a frame
which is evicted without being written is as on disk, since clients mark dirty what they have
written. `PoolInv` is their conjunction with the types. There is a lemma per operation;
`fetch_page` and `new_page` share `LoadInv`, what holds when a victim is given to a page. The
lemmas assume the laws of counting a finite set (`CountLaws`), proved once (`Counting`). All
this is about the time before `stale`; what follows it is in the run `stale_frame_id`.

`RecordPagesProofs` proves, for all sets of threads, any number of pages and of insertions
and every positive number of records a page (`PageHasSlots`, `PagesAreBounded`):

| Theorem | Statement |
|---|---|
| `RecordPagesInvariant` | `Spec => []Inv` |
| `FreeListIsExactThm`, `ScanVisitsEveryRecordThm` | `FreeListIsExact`, `ScanVisitsEveryRecord` are invariants |
| `RecordPageFitsThm` | a page holds header, bitmap and all its records, for every record size that `create_file` accepts |
| `IndexNodeFitsThm` | an index node holds one pair more than `btree_order`, for every key length that `create_index` accepts |

Both properties speak of moments without an operation under way, and are not inductive.
`Undisturbed` says what holds inside one. `FileOK` is the file as a thread leaves it at each
of its steps: which pages are on the list (`Listed`: a new page not yet, a page that is
filled up or about to lose a record still), which page counts one record too few, where
the thread's slot is. That the list has no page twice and no page that the head does not
lead to (`IsList`) is what pushing and popping at the head preserve (`PushList`, `PopList`);
the reachable pages are a least closed set, which spares an induction along the list. A
rollback relies on more: of two successive writes of a record one is an insertion and one a
deletion (`Alternate`), and the last one agrees with what is in the file (`Match`), so that
the undo of an INSERT meets a set bit and the undo of a DELETE, where it does not move the
record, a free slot. `LockInv`, that written records stay locked by their one writer, keeps
other threads from changing that. `HeaderSaved` holds even when operations overlap: a header
that differs from the one on disk belongs to a thread which is about to write it, or its last
write went astray (`lost`). The layout
theorems rest on `d * (a \div d) <= a` (`DivBound`).

`RecoveryProofs` proves, for any number of transactions, pages, changes, log records and
processes, every positive number of rows a page and every log buffer that holds a record
(`BoundsAreNumbers`, `PageHasSlots`, `RecordsFitTheLogBuffer`):

| Theorem | Statement |
|---|---|
| `RecoveryInvariant` | `Spec => []Inv` |
| `UndoChainIsCompleteThm`, `WriteAheadThm`, `PageLsnCoversThePageThm` | `UndoChainIsComplete`, `WriteAhead`, `PageLsnCoversThePage` are invariants |
| `LoggedPagesAreOnDiskThm` | `LoggedPagesAreOnDisk` is an invariant |

- `UndoChainIsComplete` needs the other end of the chain: a transaction's `prev_lsn` is the
  lsn of the last record it has written in this process (`Linked`, in `ChainInv`).
- `WriteAhead` follows from `LoggedFirst`: a deletion or update enters the write set in the
  step that logs it.
- `LoggedPagesAreOnDisk`: the header counts a page only after it was flushed (`PageTypes`), and
  the log and the write sets name only pages that it counts (`Bounds`, `LogCounted`).
- `PageLsnCoversThePage` is the hard one: `update_record` stamps a page after it has unpinned
  it, `insert_record` stamps it with the lsn *before* the insertion is logged, and the pool
  may write the page at any of these moments. `CoverInv` says, of pool and disk, that a page
  has what the log has up to its stamp, and that every change in the log is in the pool or
  still to be made by a transaction that has logged it (`LogMade`); such a transaction has
  the table SIX, so nobody else stamps a page meanwhile (`LockInv`). A change that is about
  to be logged is made already (`MadeFirst`), and no stamp is as great as the next lsn. All
  this is about the first process; in the next one lsns start again at 0 and it is false.

A restart enters these proofs only through what it leaves: a process without transactions,
the log and the pages on disk, and at most one page more in the header of the file.

Only model-checked:

- liveness, which is beyond the prover: `RequestsAreAnswered`, `ConnectionsAreServed`,
  `RequestsGetThrough`;
- the index (`BPlusTree`) and the queries (`Planner`, `Executors`): tree, plans and executors
  are recursive over data, and so would be the induction;
- of recovery, `AnalysisIsExact`: it compares the whole log, read in chunks and folded into a
  table, with history, which is an induction along the log;
- of the server, `TypeOK`: its types are part of `Inv` but for the arrays of the index leaf,
  whose length is bounded by a count of different keys.

The modules that are proved about keep clear of `RECURSIVE` and of modules that bring in
bags; therefore `Recovery` has its own `Last` and `Front`.

## 6. What is not modelled

- *Parser and analyzer.* Sequential, without shared state but the lexer and the parse tree,
  which `Listener` has; the parser is generated. A statement they refuse is `"bad"`.
- *Queries:* aggregates, LOAD, projection and output; types other than integers and the
  conversions between them; a table twice in FROM. The plain nested loop join is used by no
  plan. The plans of statements other than SELECT repeat their arguments.
- *Tree:* two writers at once, which may meet in the ancestors that `maintain_parent` writes
  unlatched, and the pins of its pages. Of the frames, `BufferPool` has the deletion of the leaf
  that survives a merge. `find_leaf_page`
  unpins inner nodes twice, so a faithful composition with the buffer pool would leave
  nothing to state. The reads and writes past the zero-length key buffers that
  `col_tot_len` causes are left out as well.
- *Data definition beside other statements.* It takes no locks; two threads in one
  `std::map`, or a file handle freed under a scan, have no defined outcome.
- *Signals.* A shutdown is a thread of its own; what the handler does to the thread it
  interrupts is undefined. `close_db` waits in the model for a statement of data definition to
  finish. In the code it does not: the handler and that statement's thread then write `db.meta`
  through two streams at once, and change `db_`, `fhs_` and `ihs_` without a latch, which has no
  defined outcome.
- *Unlatched I/O beside the pool's.* The pool reads and writes a page in one step, as it holds
  its latch; but the headers of record files go through `lseek` and `write` on the same
  descriptor without that latch. `RecordPages` has what this does to a header, no module what it
  does to a page.
- *Disks that fail* in ways other than a page that cannot be read after a crash.
- *Columns without an index* in the write executors: their values decide nothing.

Vendored headers and the generated parser are by far the most of the lines under `src/`;
they are libraries to this system and are not modelled.
