------------------------------- MODULE Catalog ------------------------------
(***************************************************************************)
(* SmManager (src/src/system/sm_manager.cpp): the tables and indexes in    *)
(* memory, their files, and db.meta, the description of both on disk.      *)
(*                                                                         *)
(* A DDL statement is several steps, with a crash possible between any two.*)
(* flush_meta empties db.meta before it writes it.  DDL statements take no *)
(* lock; two of them at once would race on the maps of SmManager, and the  *)
(* model leaves that out: one runs at a time.                              *)
(***************************************************************************)
EXTENDS Integers

CONSTANTS Tables

\* What an index is on: all columns of its table in their order, or other columns.
Kinds == {"all", "part"}

VARIABLES files, meta,            \* on disk; the files, and what db.meta says
          db, fhs, ihs, path2fd,  \* in memory: db_, the keys of fhs_ and ihs_, the open files
          ddl,                    \* the statement that runs, and its next step
          opened,                 \* how the last start ended: "no", "yes" or "died"
          hurt                    \* history: what crashes, shutdowns and failed statements left

memVars == <<db, fhs, ihs, path2fd>>
catVars == <<files, meta, memVars, ddl, opened, hurt>>

File(tab) == <<tab, "rows">>
Index(tab, kind) == <<tab, kind>>

Truncated == [tab \in {"truncated"} |-> {}]   \* the empty file; no table has that name
ASSUME TruncatedIsNoTable == "truncated" \notin Tables

NoTables == [tab \in {} |-> {}]
Running(op) == [op |-> op[1], tab |-> op[2], step |-> op[3]]
NoDdl == Running(<<"none", "none", "none">>)
Quiet == ddl = NoDdl

Indexed(m) == \E tab \in DOMAIN m : m[tab] # {}
MoreThanOne(indexes) == \E j, k \in indexes : j # k

\* create_db, and a process that has not opened it yet.
CatInit ==
  /\ files = {} /\ meta = NoTables
  /\ db = NoTables /\ fhs = {} /\ ihs = {} /\ path2fd = {}
  /\ ddl = NoDdl /\ opened = "no" /\ hurt = {}

-----------------------------------------------------------------------------
(* open_db *)

\* The record files, and for each index the file of an index on all columns, whose
\* handle is stored under the table's name.
open_db ==
  /\ opened = "no"
  /\ meta # Truncated
  /\ LET tabs    == DOMAIN meta
         indexed == {tab \in tabs : meta[tab] # {}}
         fails   == \/ \E tab \in tabs : File(tab) \notin files
                    \/ \E tab \in indexed : Index(tab, "all") \notin files \/ MoreThanOne(meta[tab])
     IN  IF fails
         THEN opened' = "died" /\ UNCHANGED memVars
         ELSE /\ opened' = "yes"
              /\ db' = meta
              /\ fhs' = tabs
              /\ ihs' = {File(tab) : tab \in indexed}
              /\ path2fd' = {File(tab) : tab \in tabs} \cup {Index(tab, "all") : tab \in indexed}
  /\ UNCHANGED <<files, meta, ddl, hurt>>

\* From the empty file >> reads nothing: the number of tables stays uninitialized.  Zero
\* gives a database without tables; otherwise a table without a name is opened.
open_db_empty ==
  /\ opened = "no"
  /\ meta = Truncated
  /\ \/ opened' = "yes" /\ db' = NoTables /\ UNCHANGED <<fhs, ihs, path2fd>>
     \/ opened' = "died" /\ UNCHANGED memVars
  /\ UNCHANGED <<files, meta, ddl, hurt>>

-----------------------------------------------------------------------------
(* flush_meta: std::ofstream empties the file, then it is written. *)

At(op, step) == opened = "yes" /\ ddl.op = op /\ ddl.step = step

flush_meta_open ==
  /\ opened = "yes" /\ ddl.step = "flush"
  /\ meta' = Truncated
  /\ ddl' = [ddl EXCEPT !.step = "write"]
  /\ UNCHANGED <<files, memVars, opened, hurt>>

flush_meta_write ==
  /\ opened = "yes" /\ ddl.step = "write"
  /\ meta' = db
  /\ ddl' = IF ddl.op = "close_db" THEN [ddl EXCEPT !.step = "clear"] ELSE NoDdl
  /\ UNCHANGED <<files, memVars, opened, hurt>>

-----------------------------------------------------------------------------
(* The statements.  One that throws an RMDBError leaves what it has done so far. *)

Accepts == opened = "yes" /\ Quiet

\* Mistake: db.meta is not written.
create_table_unsaved(tab) ==
  /\ Accepts /\ tab \notin DOMAIN db
  /\ File(tab) \notin files
  /\ files' = files \cup {File(tab)}
  /\ db' = [t \in DOMAIN db \cup {tab} |-> IF t = tab THEN {} ELSE db[t]]
  /\ fhs' = fhs \cup {tab}
  /\ path2fd' = path2fd \cup {File(tab)}
  /\ UNCHANGED <<meta, ihs, ddl, opened, hurt>>

\* TableExistsError, FileExistsError: nothing happens.
create_table(tab) ==
  /\ Accepts /\ tab \notin DOMAIN db
  /\ File(tab) \notin files
  /\ files' = files \cup {File(tab)}
  /\ db' = [t \in DOMAIN db \cup {tab} |-> IF t = tab THEN {} ELSE db[t]]
  /\ fhs' = fhs \cup {tab}
  /\ path2fd' = path2fd \cup {File(tab)}
  /\ ddl' = Running(<<"create_table", tab, "flush">>)
  /\ UNCHANGED <<meta, ihs, opened, hurt>>

\* IndexExistsError for a file of that name, whatever db_ says.
CreatesFile(tab, list) ==
  /\ Accepts /\ tab \in DOMAIN db
  /\ Index(tab, list) \notin files
  /\ files' = files \cup {Index(tab, list)}
  /\ path2fd' = path2fd \cup {Index(tab, list)}
  /\ UNCHANGED <<meta, fhs, ddl, opened>>

\* The index is registered, and then filled with the rows of the table.  get_record may throw
\* at a row that another transaction has locked: the index stays, with the rows so far.
create_index(tab, kind) ==
  /\ CreatesFile(tab, kind)
  /\ db' = [db EXCEPT ![tab] = @ \cup {kind}]
  /\ ihs' = ihs \cup {Index(tab, kind)}
  /\ \/ UNCHANGED hurt
     \/ hurt' = hurt \cup {"half"}

\* Columns of more than IX_MAX_COL_LEN bytes together, one of them named twice:
\* IxManager::create_index throws after it has created and opened the file.
create_index_too_long(tab) ==
  /\ CreatesFile(tab, "long")
  /\ hurt' = hurt \cup {"long"}
  /\ UNCHANGED <<db, ihs>>

\* What drop_index does to an index that has a handle under its own name.
RemoveIndex(tab, kind) ==
  /\ Index(tab, kind) \in ihs
  /\ db' = [db EXCEPT ![tab] = @ \ {kind}]
  /\ ihs' = ihs \ {Index(tab, kind)}
  /\ path2fd' = path2fd \ {Index(tab, kind)}
  /\ files' = files \ {Index(tab, kind)}

drop_index(tab, kind) ==
  /\ Accepts /\ tab \in DOMAIN db /\ kind \in db[tab]
  /\ RemoveIndex(tab, kind)
  /\ UNCHANGED <<meta, fhs, ddl, opened, hurt>>

\* drop_table drops the indexes first, in a loop over the vector that drop_index erases
\* from.  With a second index the loop goes on behind the end of the vector, to an
\* index without columns: RMDBError.
drop_table_indexes(tab) ==
  /\ Accepts /\ tab \in DOMAIN db
  /\ IF db[tab] = {} THEN UNCHANGED <<files, db, ihs, path2fd>>
     ELSE \E kind \in Kinds : kind \in db[tab] /\ RemoveIndex(tab, kind)
  /\ ddl' = IF MoreThanOne(db[tab]) THEN ddl ELSE Running(<<"drop_table", tab, "destroy">>)
  /\ UNCHANGED <<meta, fhs, opened, hurt>>

\* Mistake: the handle stays in fhs_.
drop_table_keeps(tab) ==
  /\ At("drop_table", "destroy") /\ ddl.tab = tab
  /\ path2fd' = path2fd \ {File(tab)}
  /\ files' = files \ {File(tab)}
  /\ db' = [t \in DOMAIN db \ {tab} |-> db[t]]
  /\ ddl' = [ddl EXCEPT !.step = "flush"]
  /\ UNCHANGED <<meta, fhs, ihs, opened, hurt>>

\* Mistake: the file is not removed.
drop_table_forgets(tab) ==
  /\ At("drop_table", "destroy") /\ ddl.tab = tab
  /\ path2fd' = path2fd \ {File(tab)}
  /\ fhs' = fhs \ {tab}
  /\ db' = [t \in DOMAIN db \ {tab} |-> db[t]]
  /\ ddl' = [ddl EXCEPT !.step = "flush"]
  /\ UNCHANGED <<files, meta, ihs, opened, hurt>>

\* Mistake: db.meta is not written.
drop_table_unsaved(tab) ==
  /\ At("drop_table", "destroy") /\ ddl.tab = tab
  /\ path2fd' = path2fd \ {File(tab)}
  /\ files' = files \ {File(tab)}
  /\ fhs' = fhs \ {tab}
  /\ db' = [t \in DOMAIN db \ {tab} |-> db[t]]
  /\ ddl' = NoDdl
  /\ UNCHANGED <<meta, ihs, opened, hurt>>

drop_table(tab) ==
  /\ At("drop_table", "destroy") /\ ddl.tab = tab
  /\ path2fd' = path2fd \ {File(tab)}
  /\ files' = files \ {File(tab)}
  /\ fhs' = fhs \ {tab}
  /\ db' = [t \in DOMAIN db \ {tab} |-> db[t]]
  /\ ddl' = [ddl EXCEPT !.step = "flush"]
  /\ UNCHANGED <<meta, ihs, opened, hurt>>

\* A statement that uses an index (ihs_.at): without a handle under the index's name
\* std::out_of_range ends the process.
Unhandled(tab) == \E kind \in db[tab] : Index(tab, kind) \notin ihs

-----------------------------------------------------------------------------
(* The end of the process. *)

\* SIGINT: close_db.
close_db ==
  /\ Accepts
  /\ ddl' = Running(<<"close_db", "none", "flush">>)
  /\ UNCHANGED <<files, meta, memVars, opened, hurt>>

Stopped ==
  /\ db' = NoTables /\ fhs' = {} /\ ihs' = {} /\ path2fd' = {}
  /\ ddl' = NoDdl /\ opened' = "no"
  /\ UNCHANGED <<files, meta>>

\* What the end of the process leaves behind for the next one.
Interrupted ==
  (CASE ddl.step = "write" -> {"truncated"}
     [] ddl.step = "flush" -> {ddl.op} \ {"close_db"}
     [] OTHER -> {})
  \cup (IF Indexed(db) \/ (meta # Truncated /\ Indexed(meta)) THEN {"indexed"} ELSE {})

close_db_clear ==
  /\ At("close_db", "clear")
  /\ hurt' = hurt \cup Interrupted
  /\ Stopped

CatCrash ==
  /\ opened = "yes"
  /\ hurt' = hurt \cup Interrupted
  /\ Stopped

-----------------------------------------------------------------------------
(* Properties. *)

\* Type invariant: only files that exist are open.
CatTypeOK ==
  /\ files \subseteq Tables \X (Kinds \cup {"rows", "long"})
  /\ meta = Truncated \/ (DOMAIN meta \subseteq Tables /\ \A tab \in DOMAIN meta : meta[tab] \subseteq Kinds)
  /\ DOMAIN db \subseteq Tables /\ \A tab \in DOMAIN db : db[tab] \subseteq Kinds
  /\ fhs \subseteq Tables
  /\ path2fd \subseteq files
  /\ opened \in {"no", "yes", "died"}

\* Between statements db.meta has the tables that db_ has: a CREATE TABLE or DROP TABLE
\* that has been answered survives any crash after it, and so does every other table.
TablesAreSaved == opened = "yes" /\ Quiet /\ "truncated" \notin hurt => DOMAIN meta = DOMAIN db

\* Between statements there is an open handle for exactly the tables of db_, and unless
\* the process was started on a database with an index, one for each index.  The state
\* has its type at all times, and only files that exist are open.
HandlesMatchTables ==
  /\ CatTypeOK
  /\ opened = "yes" /\ Quiet =>
       /\ fhs = DOMAIN db
       /\ {File(tab) : tab \in fhs} \subseteq path2fd
       /\ "indexed" \notin hurt => \A tab \in DOMAIN db : ~Unhandled(tab)

\* The files of the tables and indexes that m describes.
FilesOf(m) ==
  {File(tab) : tab \in DOMAIN m} \cup UNION {{Index(tab, kind) : kind \in m[tab]} : tab \in DOMAIN m}

\* As long as no crash has interrupted a statement, no process has ended with an index and
\* no CREATE INDEX was refused for the length of its columns, the files are exactly those of
\* the tables and indexes: none is left behind that would make the next CREATE fail with
\* FileExistsError or IndexExistsError.  A CREATE INDEX that is aborted while it reads the
\* rows leaves no such file either: its index is there, and can be dropped.
NoFileIsLeft ==
  opened = "yes" /\ Quiet /\ hurt \subseteq {"half"} => files = FilesOf(db)

\* The database opens again after every crash and shutdown, except after a crash between
\* the removal of a table's file and the writing of db.meta, while db.meta was empty,
\* or when there was an index.  (A crash that interrupts CREATE TABLE does no harm here.)
OpensAgain == opened = "died" => hurt \cap {"drop_table", "truncated", "indexed"} # {}

=============================================================================
