------------------------------ MODULE Recovery ------------------------------
(***************************************************************************)
(* The log and the restart (src/src/recovery, and main in src/src/rmdb.cpp).*)
(*                                                                         *)
(* Transactions change the pages of one table in the buffer pool and write *)
(* log records; the pool writes a page to disk whenever it needs the frame.*)
(* The process may be interrupted (SIGINT, which writes every page) or may *)
(* crash anywhere.  A restart reads the log and repairs the pages, in      *)
(* analyze, redo and undo; or it dies on the way.                          *)
(*                                                                         *)
(* add_log_to_buffer holds the log's latch_ and writes each record to disk *)
(* at once: it is one step.  The lock manager is reduced to the locks on   *)
(* the table (LockManager), the choice of the slot and of the page to the  *)
(* rule that an insertion finds a page with room (RecordPages).            *)
(***************************************************************************)
EXTENDS Integers, Sequences, FiniteSets, FiniteSetsExt

CONSTANTS num_records_per_page,
          LOG_BUFFER_SIZE,  \* in units of the size of a record without data
          MaxTxns,          \* bound: transactions of one process
          MaxPages,         \* bound: pages of the file
          MaxChanges,       \* bound: changes of rows in a behaviour
          MaxRecords,       \* bound: records of the log
          MaxRuns           \* bound: processes that start

ASSUME BoundsAreNumbers ==
  {MaxTxns, MaxPages, MaxChanges, MaxRecords, MaxRuns} \subseteq Nat
ASSUME PageHasSlots == num_records_per_page \in Nat \ {0}
ASSUME RecordsFitTheLogBuffer == LOG_BUFFER_SIZE \in Nat /\ LOG_BUFFER_SIZE > 2

VARIABLES log, disk, num_pages,                 \* on disk: num_pages of the file header
          server, global_lsn, next_txn_id, pages, txn, latch, locks,  \* in the process
          died,                                 \* where the last restart died
          run, changes, unfinished, user        \* history

diskVars == <<log, disk, num_pages>>
history == <<died, run, changes, unfinished, user>>
vars == <<diskVars, server, global_lsn, next_txn_id, pages, txn, latch, locks, history>>

INVALID_LSN == -1
INVALID_TXN_ID == -1
Tids == 0 .. MaxTxns - 1
Free == INVALID_TXN_ID

\* A page: its page_lsn, the change that each used slot has its row from, and (history)
\* the changes that were ever made to the page.
NewPage == [lsn |-> 0, rows |-> <<>>, made |-> {}]
NoTxn == [state |-> "none", prev_lsn |-> INVALID_LSN, writes |-> <<>>, stale |-> FALSE]
NoPages == [p \in {} |-> NewPage]

Slots == 1 .. num_records_per_page
HasRoom(page) == DOMAIN page.rows # Slots
Last(s) == s[Len(s)]
Front(s) == SubSeq(s, 1, Len(s) - 1)
With(f, x, e) == [y \in DOMAIN f \cup {x} |-> IF y = x THEN e ELSE f[y]]
Without(f, x) == [y \in DOMAIN f \ {x} |-> f[y]]

\* fetch_page: from the pool or from disk.
Readable == DOMAIN pages \cup DOMAIN disk
fetch_page(p) == IF p \in DOMAIN pages THEN pages[p] ELSE disk[p]

Booted ==
  /\ server' = "up"
  /\ global_lsn' = 0 /\ next_txn_id' = 0
  /\ pages' = NoPages
  /\ txn' = [t \in Tids |-> NoTxn]
  /\ latch' = Free
  /\ locks' = [t \in Tids |-> "none"]
  /\ run' = run + 1
  /\ died' = "no"

Init ==
  /\ log = <<>> /\ disk = NoPages /\ num_pages = 0
  /\ server = "down"
  /\ global_lsn = 0 /\ next_txn_id = 0
  /\ pages = NoPages
  /\ txn = [t \in Tids |-> NoTxn]
  /\ latch = Free
  /\ locks = [t \in Tids |-> "none"]
  /\ died = "no" /\ run = 0 /\ changes = 0
  /\ unfinished = {} /\ user = [t \in Tids |-> 0]

-----------------------------------------------------------------------------
(* The log. *)

DataTypes == {"INSERT", "DELETE", "UPDATE"}
NoPage == 0
NoChange == 0

\* LogManager::add_log_to_buffer, and set_prev_lsn by the caller.  `change` and `run`
\* identify the change and the process.
add_log_to_buffer(t, type, p, change) ==
  /\ Len(log) < MaxRecords
  /\ log' = Append(log, [type |-> type, lsn |-> global_lsn, tid |-> t,
                         prev_lsn |-> txn[t].prev_lsn, page_no |-> p,
                         change |-> change, run |-> run])
  /\ global_lsn' = global_lsn + 1

Size(rec) == IF rec.type \in DataTypes THEN 2 ELSE 1
SizeOf(recs) == FoldFunction(LAMBDA r, n : Size(r) + n, 0, recs)

\* Mistake: a chunk is read from where the last one ended, not from the first record
\* that did not fit.
read_log_chunks(recs) ==
  LET chunk(i, n) == SizeOf(SubSeq(recs, i, n))
      read[i \in 1 .. Len(recs) + 1] ==
        LET n == Max({k \in i - 1 .. Len(recs) : chunk(i, k) < LOG_BUFFER_SIZE})
            m == Max({k \in i - 1 .. Len(recs) : chunk(i, k) <= LOG_BUFFER_SIZE})
        IN  SubSeq(recs, i, n) \o
            (IF chunk(i, Len(recs)) < LOG_BUFFER_SIZE THEN <<>> ELSE read[m + 1])
  IN  read[1]

\* analyze reads the file in chunks of LOG_BUFFER_SIZE.  It stops in a chunk at a record
\* that reaches the end of the buffer and reads the next chunk from that record on;
\* a chunk that is not full is the last.
read_log(recs) ==
  LET chunk(i, n) == SizeOf(SubSeq(recs, i, n))
      read[i \in 1 .. Len(recs) + 1] ==
        LET n == Max({k \in i - 1 .. Len(recs) : chunk(i, k) < LOG_BUFFER_SIZE})
        IN  SubSeq(recs, i, n) \o
            (IF chunk(i, Len(recs)) < LOG_BUFFER_SIZE THEN <<>> ELSE read[n + 1])
  IN  read[1]

-----------------------------------------------------------------------------
(* Transactions. *)

Up == server = "up"
Idle(t) == txn[t].state = "active"

begin(t) ==
  /\ Up /\ latch = Free /\ t = next_txn_id
  /\ next_txn_id' = next_txn_id + 1
  /\ add_log_to_buffer(t, "BEGIN", NoPage, NoChange)
  /\ txn' = [txn EXCEPT ![t].state = "active", ![t].prev_lsn = global_lsn]
  /\ unfinished' = unfinished \cup {<<run, t>>}
  /\ user' = [user EXCEPT ![t] = run]
  /\ UNCHANGED <<disk, num_pages, server, pages, latch, locks, died, run, changes>>

\* Mistake: the lock on the table is not asked for.
MayInsert_always(t) == TRUE

\* The lock manager: IX on the table for an insertion, S and IX for what scans it first.
MayInsert(t) == \A u \in Tids \ {t} : locks[u] # "SIX"
MayScan(t) == \A u \in Tids \ {t} : locks[u] = "none"

\* create_page_handle finds no page with room.
NoRoom == \A q \in 1 .. num_pages : ~HasRoom(fetch_page(q))

\* Mistake: the new page is not flushed, it goes to disk when the pool needs the frame.
create_new_page_handle_unflushed ==
  /\ num_pages < MaxPages
  /\ num_pages' = num_pages + 1
  /\ UNCHANGED disk

\* create_new_page_handle: the empty page is flushed, then the file header counts it.
create_new_page_handle ==
  /\ num_pages < MaxPages
  /\ disk' = With(disk, num_pages + 1, NewPage)
  /\ num_pages' = num_pages + 1

\* insert_record on page p, which may be a new one.  The page gets the lsn of the
\* transaction's last record: the record for this change is not written yet.
insert_record(t, p, change) ==
  /\ \/ p \in 1 .. num_pages /\ HasRoom(fetch_page(p)) /\ UNCHANGED <<disk, num_pages>>
     \/ p = num_pages + 1 /\ NoRoom /\ create_new_page_handle
  /\ LET old  == IF p > num_pages THEN NewPage ELSE fetch_page(p)
         slot == Min(Slots \ DOMAIN old.rows)
     IN  pages' = With(pages, p, [lsn  |-> txn[t].prev_lsn,
                                  rows |-> With(old.rows, slot, change),
                                  made |-> old.made \cup {change}])

\* delete_record on the row that `change` made: the page gets the lsn of the
\* transaction's last record.
delete_record(t, p, slot, change) ==
  pages' = With(pages, p, [lsn  |-> txn[t].prev_lsn,
                           rows |-> Without(fetch_page(p).rows, slot),
                           made |-> fetch_page(p).made \cup {change}])

\* InsertExecutor::Next up to the log record ...
Insert(t, p) ==
  /\ Up /\ Idle(t) /\ MayInsert(t)
  /\ changes < MaxChanges /\ changes' = changes + 1
  /\ insert_record(t, p, changes')
  /\ locks' = [locks EXCEPT ![t] = IF @ = "none" THEN "IX" ELSE @]
  /\ txn' = [txn EXCEPT ![t].state = "log",
                        ![t].writes = Append(@, [type |-> "INSERT", page_no |-> p,
                            slot |-> CHOOSE s \in DOMAIN pages'[p].rows : pages'[p].rows[s] = changes',
                            change |-> changes', old |-> NoChange])]
  /\ UNCHANGED <<log, server, global_lsn, next_txn_id, latch, run, unfinished, user, died>>

\* Mistake: set_prev_lsn is forgotten.
InsertLog_unlinked(t) ==
  /\ Up /\ txn[t].state = "log"
  /\ add_log_to_buffer(t, "INSERT", Last(txn[t].writes).page_no, Last(txn[t].writes).change)
  /\ txn' = [txn EXCEPT ![t].state = "active"]
  /\ UNCHANGED <<disk, num_pages, server, next_txn_id, pages, latch, locks, history>>

\* ... and from there on.
InsertLog(t) ==
  /\ Up /\ txn[t].state = "log"
  /\ add_log_to_buffer(t, "INSERT", Last(txn[t].writes).page_no, Last(txn[t].writes).change)
  /\ txn' = [txn EXCEPT ![t].state = "active", ![t].prev_lsn = global_lsn]
  /\ UNCHANGED <<disk, num_pages, server, next_txn_id, pages, latch, locks, history>>

\* Mistake: the page is changed before the record is written.
DeleteLog_late(t, type, p, slot) ==
  /\ Up /\ Idle(t) /\ MayScan(t)
  /\ p \in 1 .. num_pages /\ slot \in DOMAIN fetch_page(p).rows
  /\ changes < MaxChanges /\ changes' = changes + 1
  /\ locks' = [locks EXCEPT ![t] = "SIX"]
  /\ delete_record(t, p, slot, changes')
  /\ txn' = [txn EXCEPT ![t].state = "log",
                        ![t].writes = Append(@, [type |-> type, page_no |-> p, slot |-> slot,
                            change |-> changes', old |-> fetch_page(p).rows[slot]])]
  /\ UNCHANGED <<log, disk, num_pages, server, global_lsn, next_txn_id, latch, run, unfinished,
                 user, died>>

\* DeleteExecutor::Next and UpdateExecutor::Next write the record first ...
DeleteLog(t, type, p, slot) ==
  /\ Up /\ Idle(t) /\ MayScan(t)
  /\ p \in 1 .. num_pages /\ slot \in DOMAIN fetch_page(p).rows
  /\ changes < MaxChanges /\ changes' = changes + 1
  /\ locks' = [locks EXCEPT ![t] = "SIX"]
  /\ add_log_to_buffer(t, type, p, changes')
  /\ txn' = [txn EXCEPT ![t].state = "change", ![t].prev_lsn = global_lsn,
                        ![t].writes = Append(@, [type |-> type, page_no |-> p, slot |-> slot,
                            change |-> changes', old |-> fetch_page(p).rows[slot]])]
  /\ UNCHANGED <<disk, num_pages, server, next_txn_id, pages, latch, run, unfinished, user, died>>

\* ... then change the page.
DeletePage(t) ==
  LET w == Last(txn[t].writes)
  IN  /\ Up /\ txn[t].state = "change" /\ w.type = "DELETE"
      /\ delete_record(t, w.page_no, w.slot, w.change)
      /\ txn' = [txn EXCEPT ![t].state = "active"]
      /\ UNCHANGED <<diskVars, server, global_lsn, next_txn_id, latch, locks, history>>

\* update_record gives the page back to the pool before it writes the page_lsn.
UpdatePage(t) ==
  LET w == Last(txn[t].writes)
  IN  /\ Up /\ txn[t].state = "change" /\ w.type = "UPDATE"
      /\ pages' = With(pages, w.page_no,
                       [fetch_page(w.page_no) EXCEPT !.rows[w.slot] = w.change,
                                                     !.made = @ \cup {w.change}])
      /\ txn' = [txn EXCEPT ![t].state = "stamp", ![t].stale = FALSE]
      /\ UNCHANGED <<diskVars, server, global_lsn, next_txn_id, latch, locks, history>>

\* The frame may hold another page by then, of this file or of another one.
set_page_lsn(t) ==
  LET w == Last(txn[t].writes)
  IN  \/ \E q \in IF txn[t].stale THEN DOMAIN pages ELSE {w.page_no} :
           pages' = [pages EXCEPT ![q].lsn = txn[t].prev_lsn]
      \/ txn[t].stale /\ UNCHANGED pages

UpdateLsn(t) ==
  /\ Up /\ txn[t].state = "stamp"
  /\ set_page_lsn(t)
  /\ txn' = [txn EXCEPT ![t].state = "active", ![t].stale = FALSE]
  /\ UNCHANGED <<diskVars, server, global_lsn, next_txn_id, latch, locks, history>>

-----------------------------------------------------------------------------
(* commit and abort: the locks go before the record is written. *)

Commit(t) ==
  /\ Up /\ Idle(t) /\ latch = Free
  /\ latch' = t
  /\ locks' = [locks EXCEPT ![t] = "none"]
  /\ txn' = [txn EXCEPT ![t].state = "commit"]
  /\ UNCHANGED <<diskVars, server, global_lsn, next_txn_id, pages, history>>

Ended(t, type, state) ==
  /\ add_log_to_buffer(t, type, NoPage, NoChange)
  /\ latch' = Free
  /\ txn' = [txn EXCEPT ![t] = [NoTxn EXCEPT !.state = state, !.prev_lsn = global_lsn]]
  /\ unfinished' = unfinished \ {<<run, t>>}

CommitLog(t) ==
  /\ Up /\ txn[t].state = "commit"
  /\ Ended(t, "COMMIT", "ended")
  /\ UNCHANGED <<disk, num_pages, server, next_txn_id, pages, locks, run, changes, user, died>>

Abort(t) ==
  /\ Up /\ Idle(t) /\ latch = Free
  /\ latch' = t
  /\ txn' = [txn EXCEPT ![t].state = "undo"]
  /\ UNCHANGED <<diskVars, server, global_lsn, next_txn_id, pages, locks, history>>

\* The last write is undone on the page.  The log has no record of it.  update_record is
\* in two steps here too.
Undo(t) ==
  LET w == Last(txn[t].writes)
  IN  /\ Up /\ txn[t].state = "undo" /\ txn[t].writes # <<>>
      /\ \/ /\ w.type = "INSERT"
            /\ delete_record(t, w.page_no, w.slot, w.change)
            /\ UNCHANGED <<disk, num_pages>>
         \/ w.type = "DELETE" /\ \E p \in 1 .. MaxPages : insert_record(t, p, w.old)
      /\ txn' = [txn EXCEPT ![t].writes = Front(@)]
      /\ UNCHANGED <<log, server, global_lsn, next_txn_id, latch, locks, history>>

UndoUpdate(t) ==
  LET w == Last(txn[t].writes)
  IN  /\ Up /\ txn[t].state = "undo" /\ txn[t].writes # <<>> /\ w.type = "UPDATE"
      /\ pages' = With(pages, w.page_no, [fetch_page(w.page_no) EXCEPT !.rows[w.slot] = w.old])
      /\ txn' = [txn EXCEPT ![t].state = "restamp", ![t].stale = FALSE]
      /\ UNCHANGED <<diskVars, server, global_lsn, next_txn_id, latch, locks, history>>

UndoLsn(t) ==
  /\ Up /\ txn[t].state = "restamp"
  /\ set_page_lsn(t)
  /\ txn' = [txn EXCEPT ![t].state = "undo", ![t].stale = FALSE, ![t].writes = Front(@)]
  /\ UNCHANGED <<diskVars, server, global_lsn, next_txn_id, latch, locks, history>>

AbortUnlock(t) ==
  /\ Up /\ txn[t].state = "undo" /\ txn[t].writes = <<>>
  /\ locks' = [locks EXCEPT ![t] = "none"]
  /\ txn' = [txn EXCEPT ![t].state = "abort"]
  /\ UNCHANGED <<diskVars, server, global_lsn, next_txn_id, pages, latch, history>>

AbortLog(t) ==
  /\ Up /\ txn[t].state = "abort"
  /\ Ended(t, "ABORT", "aborted")
  /\ UNCHANGED <<disk, num_pages, server, next_txn_id, pages, locks, run, changes, user, died>>

\* client_handler commits the transaction of a single statement even when it has just
\* been rolled back.
Autocommit(t) ==
  /\ Up /\ txn[t].state = "aborted" /\ latch = Free
  /\ Ended(t, "COMMIT", "ended")
  /\ UNCHANGED <<disk, num_pages, server, next_txn_id, pages, locks, run, changes, user, died>>

-----------------------------------------------------------------------------
(* The pool and the process. *)

\* The pool writes a dirty page whose frame it needs.
Evict(p) ==
  /\ Up /\ p \in DOMAIN pages
  /\ p \in DOMAIN disk => disk[p] # pages[p]
  /\ disk' = With(disk, p, pages[p])
  /\ txn' = [t \in Tids |-> IF txn[t].state \in {"stamp", "restamp"} /\ Last(txn[t].writes).page_no = p
                            THEN [txn[t] EXCEPT !.stale = TRUE] ELSE txn[t]]
  /\ UNCHANGED <<log, num_pages, server, global_lsn, next_txn_id, pages, latch, locks, run,
                 changes, unfinished, user, died>>

Stopped ==
  /\ server' = "down"
  /\ pages' = NoPages
  /\ txn' = [t \in Tids |-> NoTxn]
  /\ latch' = Free
  /\ locks' = [t \in Tids |-> "none"]
  /\ UNCHANGED <<log, num_pages, global_lsn, next_txn_id, run, changes, unfinished, user, died>>

\* A crash in create_new_page_handle leaves a page that the header does not count.
Crash ==
  /\ Up
  /\ Stopped
  /\ \/ UNCHANGED disk
     \/ /\ \E t \in Tids : Idle(t) /\ MayInsert(t)
        /\ NoRoom /\ num_pages < MaxPages
        /\ disk' = With(disk, num_pages + 1, NewPage)

\* SIGINT: close_db writes every page.
sigint_handler ==
  /\ Up
  /\ Stopped
  /\ disk' = [p \in Readable |-> fetch_page(p)]

-----------------------------------------------------------------------------
(* The restart: open_db, analyze, redo, undo (main). *)

\* lsn2log: the last record read with this lsn.
lsn2log(recs, lsn) == SelectSeq(recs, LAMBDA r : r.lsn = lsn)
IsData(recs, lsn) ==
  LET rs == lsn2log(recs, lsn) IN rs # <<>> /\ Last(rs).type \in DataTypes

\* active_transaction_table: BEGIN gives a transaction that has no entry a list of lsn
\* zeros, a change adds its lsn, COMMIT and ABORT remove the entry.
active_transaction_table(recs) ==
  MapThenFoldSet(
    LAMBDA r, att :
      CASE r.type = "BEGIN" /\ r.tid \notin DOMAIN att -> With(att, r.tid, [i \in 1 .. r.lsn |-> 0])
        [] r.type = "BEGIN" /\ r.tid \in DOMAIN att -> att
        [] r.type \in {"COMMIT", "ABORT"} -> Without(att, r.tid)
        [] r.type \in DataTypes ->
             With(att, r.tid, Append(IF r.tid \in DOMAIN att THEN att[r.tid] ELSE <<>>, r.lsn)),
    [t \in {} |-> <<>>], LAMBDA i : recs[i], Max, DOMAIN recs)

\* dirty_page_table: the pages that the records name, each with its page_lsn on disk
\* and behind it the lsns that are greater.
ChangedPages(recs) == {recs[i].page_no : i \in {j \in DOMAIN recs : recs[j].type \in DataTypes}}

redo_logs(recs, p) ==
  {disk[p].lsn} \cup
  {recs[i].lsn : i \in {j \in DOMAIN recs : recs[j].page_no = p /\ recs[j].lsn > disk[p].lsn}}

\* get_page_lsn of a page that is not on disk throws.
AnalyzeDies(recs) == ~ChangedPages(recs) \subseteq DOMAIN disk

\* redo and undo call the record file with a null context, whose lock manager it asks
\* for a lock.
RedoDies(recs) ==
  \E p \in ChangedPages(recs) : \E lsn \in redo_logs(recs, p) : IsData(recs, lsn)

UndoDies(recs) ==
  LET att == active_transaction_table(recs)
  IN  \E t \in DOMAIN att : \E i \in DOMAIN att[t] : IsData(recs, att[t][i])

Starting == server = "down" /\ died = "no" /\ run < MaxRuns

Start ==
  LET recs == read_log(log)
  IN  /\ Starting
      /\ ~AnalyzeDies(recs) /\ ~RedoDies(recs) /\ ~UndoDies(recs)
      /\ Booted
      /\ UNCHANGED <<diskVars, changes, unfinished, user>>

\* The restart dies.  A redo or undo that inserts may have added a page to the file.
StartDies ==
  LET recs == read_log(log)
  IN  /\ Starting
      /\ AnalyzeDies(recs) \/ RedoDies(recs) \/ UndoDies(recs)
      /\ died' = IF AnalyzeDies(recs) THEN "analyze" ELSE IF RedoDies(recs) THEN "redo" ELSE "undo"
      /\ UNCHANGED <<disk, num_pages>> \/ create_new_page_handle
      /\ UNCHANGED <<log, server, global_lsn, next_txn_id, pages, txn, latch, locks,
                     run, changes, unfinished, user>>

Next ==
  \/ Start \/ StartDies \/ Crash \/ sigint_handler
  \/ \E p \in DOMAIN pages : Evict(p)
  \/ \E t \in Tids :
       \/ begin(t) \/ InsertLog(t) \/ DeletePage(t) \/ UpdatePage(t) \/ UpdateLsn(t)
       \/ Commit(t) \/ CommitLog(t) \/ Abort(t) \/ Undo(t) \/ UndoUpdate(t) \/ UndoLsn(t)
       \/ AbortUnlock(t) \/ AbortLog(t) \/ Autocommit(t)
       \/ \E p \in 1 .. MaxPages :
            \/ Insert(t, p)
            \/ \E type \in {"DELETE", "UPDATE"}, slot \in Slots : DeleteLog(t, type, p, slot)

Spec == Init /\ [][Next]_vars

-----------------------------------------------------------------------------
(* Properties. *)

States == {"none", "active", "log", "change", "stamp", "commit", "undo", "restamp",
           "abort", "aborted", "ended"}

\* Type invariant.
TypeOK ==
  /\ server \in {"up", "down"}
  /\ died \in {"no", "analyze", "redo", "undo"}
  /\ latch \in Tids \cup {Free}
  /\ num_pages \in 0 .. MaxPages
  /\ DOMAIN disk \subseteq 1 .. MaxPages /\ DOMAIN pages \subseteq 1 .. MaxPages
  /\ \A p \in DOMAIN pages : DOMAIN pages[p].rows \subseteq Slots
  /\ \A t \in Tids :
       /\ txn[t].state \in States
       /\ txn[t].prev_lsn \in INVALID_LSN .. global_lsn - 1

Logged == {i \in DOMAIN log : log[i].type \in DataTypes}

\* The records of a transaction, from its last one back by prev_lsn, are all its records
\* down to BEGIN, in the order they were written, also when transactions interleave and
\* when an autocommit follows an abort (log_record.prev_lsn_ = txn->get_prev_lsn()).
\* The state has its type.
UndoChainIsComplete ==
  /\ TypeOK
  /\ \A i \in DOMAIN log :
       LET before == {j \in 1 .. i - 1 : log[j].tid = log[i].tid /\ log[j].run = log[i].run}
       IN  IF log[i].type = "BEGIN" THEN before = {} /\ log[i].prev_lsn = INVALID_LSN
           ELSE before # {} /\ log[i].prev_lsn = log[Max(before)].lsn

\* Write-ahead: no page on disk has a deletion or an update that the log has not, at
\* whatever moment the pool writes the page.
WriteAhead ==
  \A p \in DOMAIN disk : \A t \in Tids : \A i \in DOMAIN txn[t].writes :
    LET w == txn[t].writes[i]
    IN  w.type # "INSERT" /\ w.change \in disk[p].made =>
          \E k \in DOMAIN log : log[k].change = w.change

\* What analyze takes from page_lsn: a change that the log has with an lsn up to the
\* page_lsn on disk is on the page on disk, so redo may leave it out.  (For what one
\* process wrote: the next one starts again at lsn 0.)
PageLsnCoversThePage ==
  run = 1 =>
    \A p \in DOMAIN disk : \A i \in Logged :
      log[i].page_no = p /\ log[i].lsn <= disk[p].lsn => log[i].change \in disk[p].made

\* Whenever the process stops, analyze finds the transactions that have begun and have
\* not ended, in the chunks it reads; of two processes that used the same transaction
\* id it knows the later one only.
AnalysisIsExact ==
  LET att == active_transaction_table(read_log(log))
  IN  /\ DOMAIN att = {t \in Tids : <<user[t], t>> \in unfinished}
      /\ run = 1 => \A t \in DOMAIN att :
           {i \in Logged : log[i].tid = t} = {i \in Logged : log[i].lsn \in Range(att[t])}

\* At whatever moment the process stops, the pages that the next one reads are on disk:
\* those that the file header counts and those that the log names, also when their frames
\* were never written.  So get_page_lsn does not throw in analyze.
LoggedPagesAreOnDisk == 1 .. num_pages \cup ChangedPages(log) \subseteq DOMAIN disk

\* "Redo all operations that are not on disk" (log_recovery.cpp:217): redo gets through.
RedoCompletes == died # "redo"

=============================================================================
