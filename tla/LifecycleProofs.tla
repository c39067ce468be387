---------------------------- MODULE LifecycleProofs --------------------------
(* Proofs about Lifecycle for any number of clients, tables and requests. *)
EXTENDS Lifecycle, TLAPS

Starting(c) == pc[c] \in {"start", "started"}

\* While a thread starts, sockfd_mutex is locked for it alone, and start_server is
\* neither in accept nor at its assignment to sockfd.
ConnInv ==
  /\ pc = [c \in Clients |-> pc[c]]
  /\ fd = [c \in Clients |-> fd[c]]
  /\ pending \subseteq Clients
  /\ \A c \in Clients : pc[c] \notin {"none", "start"} => fd[c] = c
  /\ \A c \in Clients : pc[c] = "start" => sockfd = c
  /\ \A c \in Clients : Starting(c) =>
       sockfd_mutex # Free /\ main # "accept" /\ \A d \in Clients \ {c} : ~Starting(d)
  /\ main = "accept" => sockfd_mutex # Free

\* Without a stolen lock, a thread that parses or analyses has buffer_mutex.
ParseInv ==
  /\ pc = [c \in Clients |-> pc[c]]
  /\ "stolen" \notin events =>
       \A c \in Clients :
         /\ Parsing(c) => buffer_mutex = c /\ lexer = c
         /\ pc[c] = "analyze" => parse_tree = c

\* The steps of a thread other than those of its start.
LEMMA ConnHandler ==
  ASSUME ConnInv, NEW c \in Clients,
         \/ handler_lock(c) \/ handler_parse(c) \/ handler_analyze(c) \/ handler_continue(c)
         \/ handler_reply(c) \/ handler_read(c) \/ handler_end(c) \/ Execute(c) \/ Executed(c)
  PROVE  ConnInv'
<1>1. pc[c] \notin {"none", "start", "started"}
  BY DEF handler_lock, handler_parse, handler_analyze, handler_continue, handler_reply, handler_read,
         handler_end, Execute, Executed
<1>3. PICK to : to \notin {"none", "start", "started"} /\ pc' = [pc EXCEPT ![c] = to]
  BY DEF handler_lock, handler_parse, handler_analyze, handler_continue, handler_reply, handler_read,
         handler_end, Execute, Executed, Goto
<1>2. UNCHANGED <<pending, main, sockfd, sockfd_mutex, fd>>
  BY DEF handler_lock, handler_parse, handler_analyze, handler_continue, handler_reply, handler_read,
         handler_end, Execute, Executed
<1> QED BY <1>1, <1>2, <1>3 DEF ConnInv, Starting, Free, Nobody

\* The end of the process leaves no threads.
LEMMA ConnStopped == ASSUME LisStopped PROVE ConnInv'
<1>1. (pc = [c \in Clients |-> pc[c]])' /\ (fd = [c \in Clients |-> fd[c]])'
  BY DEF LisStopped, Nobody
<1>2. \A c \in Clients : pc'[c] = "none"
  BY DEF LisStopped, Nobody
<1>3. main' = "loop" /\ sockfd' = Nobody /\ pending' = {}
  BY DEF LisStopped, Nobody
<1> QED BY <1>1, <1>2, <1>3 DEF ConnInv, Starting, Free, Nobody

\* Every step preserves ConnInv.
LEMMA ConnNext == ASSUME ConnInv, [Next]_vars PROVE ConnInv'
<1>1. CASE UNCHANGED lisVars
  BY <1>1 DEF lisVars, ConnInv, Starting, Free, Nobody
<1>2. CASE main_lock
  BY <1>2 DEF main_lock, ConnInv, Starting, Free, Nobody
<1>3. CASE main_accept
  <2>1. PICK c \in pending : sockfd' = c /\ Goto(c, "start")
    BY <1>3 DEF main_accept
  <2>2. c \in Clients
    BY DEF ConnInv
  <2> QED BY <1>3, <2>1, <2>2 DEF main_accept, ConnInv, Starting, Free, Nobody, Goto
<1>4. CASE main_accept_fails
  BY <1>4 DEF main_accept_fails, ConnInv, Starting, Free, Nobody
<1>5. ASSUME NEW c \in Clients, handler_start(c) PROVE ConnInv'
  <2>1. CASE pc[c] = "start"
    BY <1>5, <2>1 DEF handler_start, ConnInv, Starting, Free, Nobody, Goto
  <2>2. CASE pc[c] = "started"
    BY <1>5, <2>2 DEF handler_start, ConnInv, Starting, Free, Nobody, Goto
  <2> QED BY <1>5, <2>1, <2>2 DEF handler_start
<1>6. ASSUME NEW c \in Clients, Connect(c) PROVE ConnInv'
  BY <1>6 DEF Connect, ConnInv, Starting, Free, Nobody
<1>7. CASE Shutdown
  BY <1>7 DEF Shutdown, ConnInv, Starting, Free, Nobody
<1>8. CASE LisStopped
  BY <1>8, ConnStopped
<1> QED
  BY <1>1, <1>2, <1>3, <1>4, <1>5, <1>6, <1>7, <1>8, ConnHandler
  DEF Next, vars, Start, Main, DdlStep, ProcessCrash, ShutdownEnd, Handler, Client, ExecuteDies,
      main_step, handler_step

\* Every thread serves the connection it was started for (start_server and
\* client_handler, through sockfd and sockfd_mutex), for any number of clients and
\* whatever crashes, shutdowns and failures of accept happen.
THEOREM OwnConnectionThm == Spec => []OwnConnection
<1>1. Init => ConnInv
  BY DEF Init, LisInit, ConnInv, Starting, Free, Nobody
<1>2. ConnInv /\ [Next]_vars => ConnInv'
  BY ConnNext
<1>3. ConnInv => OwnConnection
  BY DEF ConnInv, OwnConnection
<1> QED BY <1>1, <1>2, <1>3, PTL DEF Spec

-----------------------------------------------------------------------------
\* A step of a thread outside the parser, into it or out of it preserves ParseInv.
LEMMA ParseHandler ==
  ASSUME ParseInv, NEW c \in Clients,
         \/ handler_start(c) \/ handler_continue(c) \/ handler_reply(c) \/ handler_read(c)
         \/ handler_end(c) \/ Execute(c) \/ Executed(c)
  PROVE  ParseInv'
<1>1. PICK to : to \notin {"parse", "analyze"} /\ pc' = [pc EXCEPT ![c] = to]
  BY DEF handler_start, handler_continue, handler_reply, handler_read, handler_end, Execute, Executed, Goto
<1>2. ~Parsing(c)
  BY DEF handler_start, handler_continue, handler_reply, handler_read, handler_end, Execute, Executed, Parsing
<1>3. parse_tree' = parse_tree /\ (lexer' = lexer \/ lexer = c)
  BY DEF handler_start, handler_continue, handler_reply, handler_read, handler_end, Execute, Executed, yy_delete_buffer
<1>4. CASE handler_continue(c)
  \* If another thread has the mutex, this step steals it.
  BY <1>1, <1>2, <1>3, <1>4, FreeIsNoClient DEF handler_continue, Stolen, ParseInv, Parsing, Free
<1>5. CASE ~handler_continue(c)
  <2>1. UNCHANGED <<buffer_mutex, events>>
    BY <1>5 DEF handler_start, handler_reply, handler_read, handler_end, Execute, Executed
  <2> QED BY <1>1, <1>2, <1>3, <2>1 DEF ParseInv, Parsing
<1> QED BY <1>4, <1>5

\* Every step preserves ParseInv.
LEMMA ParseNext == ASSUME ParseInv, [Next]_vars PROVE ParseInv'
<1>1. CASE UNCHANGED <<pc, buffer_mutex, lexer, parse_tree, events>>
  BY <1>1 DEF ParseInv, Parsing
<1>2. CASE main_accept
  <2>1. PICK c : Goto(c, "start")
    BY <1>2 DEF main_accept
  <2> QED BY <1>2, <2>1 DEF main_accept, ParseInv, Parsing, Goto
<1>3. CASE main_accept_fails
  BY <1>3 DEF main_accept_fails, ParseInv, Parsing
<1>4. ASSUME NEW c \in Clients, handler_lock(c) PROVE ParseInv'
  BY <1>4, FreeIsNoClient DEF handler_lock, ParseInv, Parsing, Goto, Free
<1>5. ASSUME NEW c \in Clients, handler_parse(c) PROVE ParseInv'
  BY <1>5, FreeIsNoClient DEF handler_parse, ParseInv, Parsing, Goto, Stolen, Free
<1>6. ASSUME NEW c \in Clients, handler_analyze(c) PROVE ParseInv'
  BY <1>6, FreeIsNoClient DEF handler_analyze, ParseInv, Parsing, Goto, Stolen, Free
<1>7. CASE LisStopped
  BY <1>7 DEF LisStopped, ParseInv, Parsing
<1>8. main_lock \/ Shutdown \/ (\E c \in Clients : Connect(c)) \/ UNCHANGED lisVars
      => UNCHANGED <<pc, buffer_mutex, lexer, parse_tree, events>>
  BY DEF main_lock, Shutdown, Connect, lisVars
<1> QED
  BY <1>1, <1>2, <1>3, <1>4, <1>5, <1>6, <1>7, <1>8, ParseHandler
  DEF Next, vars, Start, Main, DdlStep, ProcessCrash, ShutdownEnd, Handler, Client, ExecuteDies,
      main_step, handler_step

\* Unless a thread whose parser threw has unlocked buffer_mutex under another one
\* (rmdb.cpp, the two unlocks of that path), every thread parses and analyses its own
\* request in the global lexer and parse tree, alone.
THEOREM OwnParseTreeThm == Spec => []OwnParseTree
<1>1. Init => ParseInv
  BY DEF Init, LisInit, ParseInv, Parsing
<1>2. ParseInv /\ [Next]_vars => ParseInv'
  BY ParseNext
<1>3. ParseInv => OwnParseTree
  BY DEF ParseInv, OwnParseTree
<1> QED BY <1>1, <1>2, <1>3, PTL DEF Spec

-----------------------------------------------------------------------------
DdlType == [op : {"none", "create_table", "drop_table", "close_db"}, tab : Tables \cup {"none"},
            step : {"none", "destroy", "flush", "write", "clear"}]

\* Where a statement has not yet made db_ and db.meta differ.
InStep == ddl.step \in {"none", "destroy", "clear"} \/ (ddl.op = "close_db" /\ ddl.step = "flush")

\* Unless a crash has left an empty db.meta: db.meta is empty exactly while flush_meta
\* writes it, and names the tables of db_ except while a statement is under way.
SavedInv ==
  /\ ddl \in DdlType
  /\ ddl.step = "none" <=> Quiet
  /\ opened # "yes" => Quiet
  /\ DOMAIN db \subseteq Tables
  /\ meta # Truncated => DOMAIN meta \subseteq Tables
  /\ "truncated" \notin hurt =>
       /\ meta = Truncated <=> ddl.step = "write"
       /\ opened = "yes" /\ InStep => DOMAIN meta = DOMAIN db

\* What a statement of data definition under way is recorded as.
LEMMA RunningType ==
  /\ NoDdl \in DdlType /\ NoDdl.step = "none" /\ NoDdl.op = "none"
  /\ \A tab \in Tables :
       /\ LET d == Running(<<"create_table", tab, "flush">>)
          IN  d \in DdlType /\ d.step = "flush" /\ d.op = "create_table" /\ d.tab = tab
       /\ LET d == Running(<<"drop_table", tab, "destroy">>)
          IN  d \in DdlType /\ d.step = "destroy" /\ d.op = "drop_table" /\ d.tab = tab
  /\ LET d == Running(<<"close_db", "none", "flush">>)
     IN  d \in DdlType /\ d.step = "flush" /\ d.op = "close_db"
BY DEF NoDdl, Running, DdlType

\* db.meta with tables in it is not the empty file.
LEMMA TablesAreNotTruncated ==
  ASSUME NEW m, DOMAIN m \subseteq Tables
  PROVE  m # Truncated
BY TruncatedIsNoTable DEF Truncated

Clean == hurt \cap {"drop_table", "truncated", "indexed"} = {}

\* As long as no crash has come between the removal of a table's file and the writing of
\* db.meta, and no process has ended with an index, every table that db.meta names has
\* its file, and so has every table of db_.
OpenInv ==
  Clean =>
    /\ opened # "died"
    /\ opened = "yes" => \A tab \in DOMAIN db : File(tab) \in files
    /\ meta # Truncated /\ ~(ddl.op = "drop_table" /\ ddl.step = "flush") =>
         \A tab \in DOMAIN meta : File(tab) \in files
    /\ opened = "no" => ~Indexed(meta)

CatInv == SavedInv /\ OpenInv

\* open_db, of a database that is whole or of an empty db.meta, preserves CatInv.
LEMMA CatOpen == ASSUME CatInv, open_db \/ open_db_empty PROVE CatInv'
<1>1. CASE open_db
  <2>1. Clean => opened' = "yes"
    BY <1>1 DEF open_db, CatInv, SavedInv, OpenInv, Clean, Indexed, Quiet
  <2>2. opened' = "yes" => db' = meta
    BY <1>1 DEF open_db
  <2>3. opened' = "yes" \/ (opened' = "died" /\ db' = db)
    BY <1>1 DEF open_db, memVars
  <2>4. UNCHANGED <<files, meta, ddl, hurt>> /\ meta # Truncated /\ opened = "no"
    BY <1>1 DEF open_db
  <2> QED BY <2>1, <2>2, <2>3, <2>4 DEF CatInv, SavedInv, OpenInv, Clean, Quiet, InStep
<1>2. CASE open_db_empty
  <2>1. "truncated" \in hurt
    BY <1>2 DEF open_db_empty, CatInv, SavedInv, Quiet
  <2>2. db' = db \/ db' = NoTables
    BY <1>2 DEF open_db_empty, memVars
  <2>3. DOMAIN NoTables = {}
    BY DEF NoTables
  <2>4. UNCHANGED <<files, meta, ddl, hurt>> /\ opened = "no"
    BY <1>2 DEF open_db_empty
  <2> QED BY <2>1, <2>2, <2>3, <2>4 DEF CatInv, SavedInv, OpenInv, Clean, Quiet
<1> QED BY <1>1, <1>2

\* flush_meta truncates db.meta: from here to its end "truncated" would be recorded.
LEMMA CatFlushOpen == ASSUME CatInv, flush_meta_open PROVE CatInv'
<1>1. ddl' \in DdlType /\ ddl'.step = "write" /\ ddl'.op = ddl.op /\ ddl.step = "flush"
  BY DEF flush_meta_open, CatInv, SavedInv, DdlType
<1>2. meta' = Truncated /\ UNCHANGED <<files, db, opened, hurt>> /\ opened = "yes"
  BY DEF flush_meta_open, memVars
<1>3. ~Quiet'
  BY <1>1, RunningType DEF Quiet
<1> QED BY <1>1, <1>2, <1>3 DEF CatInv, SavedInv, OpenInv, Clean, InStep

\* flush_meta writes what db_ has.
LEMMA CatFlushWrite == ASSUME CatInv, flush_meta_write PROVE CatInv'
<1>1. meta' = db /\ UNCHANGED <<files, db, opened, hurt>> /\ opened = "yes"
  BY DEF flush_meta_write, memVars
<1>2. ddl' = NoDdl \/ (ddl' \in DdlType /\ ddl'.step = "clear" /\ ddl'.op = "close_db")
  BY DEF flush_meta_write, CatInv, SavedInv, DdlType
<1>3. meta' # Truncated
  BY <1>1, TablesAreNotTruncated DEF CatInv, SavedInv
<1> QED BY <1>1, <1>2, <1>3, RunningType DEF CatInv, SavedInv, OpenInv, Clean, InStep, Quiet

\* create_table preserves CatInv: db.meta is one table behind until flush_meta.
LEMMA CatCreateTable == ASSUME CatInv, NEW tab \in Tables, create_table(tab) PROVE CatInv'
<1>1. /\ ddl' \in DdlType /\ ddl'.step = "flush" /\ ddl'.op = "create_table" /\ ~Quiet'
  BY RunningType DEF create_table, Quiet
<1>2. /\ DOMAIN db' = DOMAIN db \cup {tab} /\ files' = files \cup {File(tab)}
      /\ UNCHANGED <<meta, opened, hurt>> /\ opened = "yes" /\ Quiet
  BY DEF create_table, Accepts
<1> QED BY <1>1, <1>2, RunningType DEF CatInv, SavedInv, OpenInv, Clean, InStep, Quiet

\* What the steps on an index leave alone.
LEMMA CatIndex ==
  ASSUME CatInv, opened = "yes", Quiet, DOMAIN db' = DOMAIN db, UNCHANGED <<meta, opened>>,
         hurt' \subseteq hurt \cup {"half", "long"}, hurt \subseteq hurt',
         \A tab \in Tables : File(tab) \in files => File(tab) \in files',
         ddl' = ddl \/ \E tab \in Tables : ddl' = Running(<<"drop_table", tab, "destroy">>)
  PROVE  CatInv'
<1>1. ddl' \in DdlType /\ ddl'.step \in {"none", "destroy"} /\ (ddl'.step = "none" <=> Quiet')
  <2>1. CASE ddl' = ddl
    BY <2>1, RunningType DEF Quiet
  <2>2. ASSUME NEW tab \in Tables, ddl' = Running(<<"drop_table", tab, "destroy">>)
        PROVE  ddl' \in DdlType /\ ddl'.step = "destroy" /\ ~Quiet'
    <3>1. ddl' \in DdlType /\ ddl'.step = "destroy"
      BY <2>2, RunningType
    <3> QED BY <3>1, RunningType DEF Quiet
  <2> QED BY <2>1, <2>2
<1> QED BY <1>1, RunningType DEF CatInv, SavedInv, OpenInv, Clean, InStep, Quiet

\* An index file is not the file of a table.
LEMMA IndexIsNoTable ==
  ASSUME NEW tab, NEW kind \in Kinds, NEW t
  PROVE  File(t) # Index(tab, kind)
BY DEF File, Index, Kinds

\* The removal of an index leaves the tables alone.
LEMMA CatRemoveIndex ==
  ASSUME NEW tab, NEW kind \in Kinds, RemoveIndex(tab, kind)
  PROVE  DOMAIN db' = DOMAIN db /\ \A t \in Tables : File(t) \in files => File(t) \in files'
BY IndexIsNoTable DEF RemoveIndex

\* drop_table preserves CatInv: db.meta has the table until flush_meta.
LEMMA CatDropTable == ASSUME CatInv, NEW tab \in Tables, drop_table(tab) PROVE CatInv'
<1>1. /\ ddl' \in DdlType /\ ddl'.step = "flush" /\ ddl'.op = "drop_table"
  BY DEF drop_table, At, CatInv, SavedInv, DdlType
<1>2. ~Quiet'
  BY <1>1, RunningType DEF Quiet
<1>3. /\ DOMAIN db' = DOMAIN db \ {tab} /\ files' = files \ {File(tab)}
      /\ UNCHANGED <<meta, opened, hurt>> /\ opened = "yes" /\ ddl.step = "destroy"
  BY DEF drop_table, At
<1>4. \A t \in Tables \ {tab} : File(t) # File(tab)
  BY DEF File
<1> QED BY <1>1, <1>2, <1>3, <1>4 DEF CatInv, SavedInv, OpenInv, Clean, InStep

\* close_db begins by writing db.meta.
LEMMA CatClose == ASSUME CatInv, close_db PROVE CatInv'
<1>1. /\ ddl' \in DdlType /\ ddl'.step = "flush" /\ ddl'.op = "close_db" /\ ~Quiet'
  BY RunningType DEF close_db, Quiet
<1>2. UNCHANGED <<files, meta, db, opened, hurt>> /\ opened = "yes" /\ Quiet
  BY DEF close_db, Accepts, memVars
<1> QED BY <1>1, <1>2, RunningType DEF CatInv, SavedInv, OpenInv, Clean, InStep, Quiet

\* The end of a process, by a shutdown or by a crash.
LEMMA CatEnd == ASSUME CatInv, close_db_clear \/ CatCrash PROVE CatInv'
<1>1. /\ opened = "yes" /\ hurt' = hurt \cup Interrupted /\ Stopped
  BY DEF close_db_clear, CatCrash, At
<1>2. DOMAIN db' = {} /\ UNCHANGED <<files, meta>> /\ opened' = "no" /\ ddl' = NoDdl
  BY <1>1 DEF Stopped, NoTables
<1>3. ddl.step = "write" => "truncated" \in hurt'
  BY <1>1 DEF Interrupted
<1>4. ddl.op = "drop_table" /\ ddl.step = "flush" => "drop_table" \in hurt'
  BY <1>1 DEF Interrupted
<1>5. meta # Truncated /\ Indexed(meta) => "indexed" \in hurt'
  BY <1>1 DEF Interrupted
<1>6. hurt \subseteq hurt'
  BY <1>1
<1> QED BY <1>1, <1>2, <1>3, <1>4, <1>5, <1>6, RunningType
        DEF CatInv, SavedInv, OpenInv, Clean, InStep, Quiet, Indexed

\* Every step preserves CatInv.
LEMMA CatNext == ASSUME CatInv, [Next]_vars PROVE CatInv'
<1>1. CASE UNCHANGED catVars
  BY <1>1 DEF catVars, memVars, CatInv, SavedInv, OpenInv, Clean, InStep, Quiet, Indexed
<1>2. ASSUME NEW tab \in Tables, NEW kind \in Kinds, create_index(tab, kind) PROVE CatInv'
  BY <1>2, CatIndex DEF create_index, CreatesFile, Accepts
<1>3. ASSUME NEW tab \in Tables, NEW kind \in Kinds, drop_index(tab, kind) PROVE CatInv'
  BY <1>3, CatIndex, CatRemoveIndex DEF drop_index, Accepts
<1>4. ASSUME NEW tab \in Tables, drop_table_indexes(tab) PROVE CatInv'
  BY <1>4, CatIndex, CatRemoveIndex DEF drop_table_indexes, Accepts
<1>5. ASSUME NEW tab \in Tables, create_index_too_long(tab) PROVE CatInv'
  BY <1>5, CatIndex DEF create_index_too_long, CreatesFile, Accepts
<1> QED
  BY <1>1, <1>2, <1>3, <1>4, <1>5, CatOpen, CatFlushOpen, CatFlushWrite, CatCreateTable, CatDropTable, CatClose, CatEnd
  DEF Next, vars, Start, Main, DdlStep, ProcessCrash, Shutdown, ShutdownEnd, Handler, Client, Execute,
      Executed, ExecuteDies

\* CatInv is an invariant.
LEMMA CatCorrect == Spec => []CatInv
<1>1. Init => CatInv
  <2>1. NoTables # Truncated /\ DOMAIN NoTables = {}
    BY TablesAreNotTruncated DEF NoTables
  <2> QED BY <2>1, RunningType DEF Init, CatInit, CatInv, SavedInv, OpenInv, Clean, InStep, Quiet, Indexed
<1>2. CatInv /\ [Next]_vars => CatInv'
  BY CatNext
<1> QED BY <1>1, <1>2, PTL DEF Spec

\* Between statements db.meta names exactly the tables of db_ (create_table, drop_table
\* and flush_meta), whatever crashes came before, unless one of them left db.meta empty:
\* no CREATE TABLE or DROP TABLE that was answered is lost.
THEOREM TablesAreSavedThm == Spec => []TablesAreSaved
<1>1. CatInv => TablesAreSaved
  BY RunningType DEF CatInv, SavedInv, InStep, TablesAreSaved, Quiet
<1> QED BY <1>1, CatCorrect, PTL

\* open_db succeeds after every crash and shutdown, except after a crash inside
\* flush_meta or between the removal of a file and flush_meta in drop_table, or when
\* there was an index: a crash anywhere else in a DDL statement does no harm.
THEOREM OpensAgainThm == Spec => []OpensAgain
<1>1. CatInv => OpensAgain
  BY DEF CatInv, OpenInv, Clean, OpensAgain
<1> QED BY <1>1, CatCorrect, PTL

-----------------------------------------------------------------------------
\* The handles and the files at every step of a statement.  At the removal of a table its
\* indexes are gone, so that no file of theirs stays behind.
FileInv ==
  /\ CatTypeOK
  /\ opened # "yes" => DOMAIN db = {} /\ fhs = {} /\ ihs = {} /\ path2fd = {}
  /\ opened = "yes" => fhs = DOMAIN db /\ \A tab \in fhs : File(tab) \in path2fd
  /\ "indexed" \notin hurt =>
       /\ opened = "yes" => \A tab \in DOMAIN db : ~Unhandled(tab)
       /\ opened # "yes" => meta = Truncated \/ ~Indexed(meta)
  /\ hurt \subseteq {"half"} =>
       /\ opened = "yes" => files = FilesOf(db)
       /\ opened = "no" => meta # Truncated /\ files = FilesOf(meta)
  /\ ddl.op = "drop_table" /\ ddl.step = "destroy" => ddl.tab \in DOMAIN db /\ db[ddl.tab] = {}

\* What is a file of a table or an index.
LEMMA FileOf ==
  ASSUME NEW m, NEW x
  PROVE  x \in FilesOf(m) <=>
           \E tab \in DOMAIN m : x = File(tab) \/ \E kind \in m[tab] : x = Index(tab, kind)
BY DEF FilesOf

\* Files of different tables and indexes are different.
LEMMA FilesDiffer ==
  ASSUME NEW tab, NEW t, NEW kind, NEW k
  PROVE  /\ File(tab) = File(t) <=> tab = t
         /\ Index(tab, kind) = Index(t, k) <=> tab = t /\ kind = k
BY DEF File, Index

\* open_db opens the files that db.meta names.
LEMMA FileOpen == ASSUME CatInv, FileInv, open_db \/ open_db_empty PROVE FileInv'
<1>1. UNCHANGED <<files, meta, ddl, hurt>> /\ opened = "no"
  BY DEF open_db, open_db_empty
<1>2. ddl.op = "none"
  BY <1>1, RunningType DEF CatInv, SavedInv, Quiet
<1>3. CASE opened' = "died" /\ UNCHANGED memVars
  BY <1>1, <1>2, <1>3 DEF FileInv, CatTypeOK, memVars, Unhandled, Indexed
<1>4. CASE open_db /\ opened' = "yes"
  <2> DEFINE tabs    == DOMAIN meta
             indexed == {tab \in tabs : meta[tab] # {}}
  <2>1. /\ meta # Truncated /\ db' = meta /\ fhs' = tabs
        /\ path2fd' = {File(tab) : tab \in tabs} \cup {Index(tab, "all") : tab \in indexed}
        /\ \A tab \in tabs : File(tab) \in files
        /\ \A tab \in indexed : Index(tab, "all") \in files
    BY <1>4 DEF open_db
  <2>2. CatTypeOK'
    BY <1>1, <1>4, <2>1 DEF FileInv, CatTypeOK
  <2>3. "indexed" \notin hurt => \A tab \in DOMAIN db' : db'[tab] = {}
    BY <1>1, <2>1 DEF FileInv, Indexed
  <2>4. hurt \subseteq {"half"} => files' = FilesOf(db')
    BY <1>1, <2>1 DEF FileInv
  <2> QED BY <1>1, <1>2, <1>4, <2>1, <2>2, <2>3, <2>4 DEF FileInv, Unhandled
<1>5. CASE open_db_empty /\ opened' = "yes"
  <2>1. DOMAIN db' = {} /\ UNCHANGED <<fhs, ihs, path2fd>>
    BY <1>5 DEF open_db_empty, NoTables
  <2>2. ~(hurt \subseteq {"half"})
    BY <1>1, <1>5 DEF FileInv, open_db_empty
  <2> QED BY <1>1, <1>2, <1>5, <2>1, <2>2 DEF FileInv, CatTypeOK, Unhandled
<1> QED BY <1>3, <1>4, <1>5 DEF open_db, open_db_empty

\* flush_meta and close_db leave the files and the handles alone.
LEMMA FileFlush ==
  ASSUME CatInv, FileInv, flush_meta_open \/ flush_meta_write \/ close_db
  PROVE  FileInv'
<1>1. UNCHANGED <<files, memVars, opened, hurt>> /\ opened = "yes"
  BY DEF flush_meta_open, flush_meta_write, close_db, Accepts
<1>2. meta' \in {meta, db, Truncated}
  BY DEF flush_meta_open, flush_meta_write, close_db
<1>3. ddl' \in DdlType /\ ddl'.step # "destroy"
  <2>1. CASE flush_meta_open
    BY <2>1 DEF flush_meta_open, CatInv, SavedInv, DdlType
  <2>2. CASE flush_meta_write
    BY <2>2, RunningType DEF flush_meta_write, CatInv, SavedInv, DdlType
  <2>3. CASE close_db
    BY <2>3, RunningType DEF close_db
  <2> QED BY <2>1, <2>2, <2>3
<1>4. CatTypeOK'
  BY <1>1, <1>2 DEF FileInv, CatTypeOK, memVars
<1> QED BY <1>1, <1>3, <1>4 DEF FileInv, memVars, Unhandled

\* create_table adds a file, a handle and a table without indexes.
LEMMA FileCreateTable == ASSUME FileInv, NEW tab \in Tables, create_table(tab) PROVE FileInv'
<1>1. /\ opened = "yes" /\ files' = files \cup {File(tab)} /\ tab \notin DOMAIN db
      /\ DOMAIN db' = DOMAIN db \cup {tab} /\ db'[tab] = {} /\ \A t \in DOMAIN db : db'[t] = db[t]
      /\ fhs' = fhs \cup {tab} /\ path2fd' = path2fd \cup {File(tab)}
      /\ UNCHANGED <<meta, ihs, opened, hurt>>
  BY DEF create_table, Accepts
<1>2. ddl'.op = "create_table"
  BY RunningType DEF create_table
<1>3. CatTypeOK'
  BY <1>1 DEF FileInv, CatTypeOK, File
<1>4. hurt \subseteq {"half"} => files' = FilesOf(db')
  <2> SUFFICES ASSUME hurt \subseteq {"half"}, NEW x PROVE x \in files' <=> x \in FilesOf(db')
    OBVIOUS
  <2> QED BY <1>1, FileOf DEF FileInv
<1> QED BY <1>1, <1>2, <1>3, <1>4 DEF FileInv, Unhandled

\* create_index adds a file and a handle under the name of the index.
LEMMA FileCreateIndex ==
  ASSUME CatInv, FileInv, NEW tab \in Tables, NEW kind \in Kinds, create_index(tab, kind)
  PROVE  FileInv'
<1>1. /\ opened = "yes" /\ tab \in DOMAIN db /\ files' = files \cup {Index(tab, kind)}
      /\ DOMAIN db' = DOMAIN db /\ db'[tab] = db[tab] \cup {kind}
      /\ \A t \in DOMAIN db \ {tab} : db'[t] = db[t]
      /\ ihs' = ihs \cup {Index(tab, kind)} /\ path2fd' = path2fd \cup {Index(tab, kind)}
      /\ UNCHANGED <<meta, fhs, ddl, opened>> /\ (hurt' = hurt \/ hurt' = hurt \cup {"half"})
  BY DEF create_index, CreatesFile, Accepts
<1>2. ddl.op = "none"
  BY RunningType DEF create_index, CreatesFile, Accepts, Quiet
<1>3. CatTypeOK'
  <2>1. Index(tab, kind) \in Tables \X (Kinds \cup {"rows", "long"})
    BY DEF Index
  <2> QED BY <1>1, <2>1 DEF FileInv, CatTypeOK
<1>4. hurt \subseteq {"half"} => files' = FilesOf(db')
  <2> SUFFICES ASSUME hurt \subseteq {"half"}, NEW x PROVE x \in files' <=> x \in FilesOf(db')
    OBVIOUS
  <2> QED BY <1>1, FileOf DEF FileInv
<1>5. \A t \in DOMAIN db : ~Unhandled(t) => ~Unhandled(t)'
  BY <1>1 DEF Unhandled
<1> QED BY <1>1, <1>2, <1>3, <1>4, <1>5 DEF FileInv

\* A CREATE INDEX whose columns are too long leaves a file, and says so.
LEMMA FileTooLong ==
  ASSUME CatInv, FileInv, NEW tab \in Tables, create_index_too_long(tab)
  PROVE  FileInv'
<1>1. /\ opened = "yes" /\ files' = files \cup {Index(tab, "long")}
      /\ path2fd' = path2fd \cup {Index(tab, "long")}
      /\ UNCHANGED <<meta, db, fhs, ihs, ddl, opened>> /\ hurt' = hurt \cup {"long"}
  BY DEF create_index_too_long, CreatesFile, Accepts
<1>2. CatTypeOK'
  <2>1. Index(tab, "long") \in Tables \X (Kinds \cup {"rows", "long"})
    BY DEF Index
  <2> QED BY <1>1, <2>1 DEF FileInv, CatTypeOK
<1>3. \A t \in DOMAIN db : ~Unhandled(t) => ~Unhandled(t)'
  BY <1>1 DEF Unhandled
<1>4. ~(hurt' \subseteq {"half"})
  BY <1>1
<1> QED BY <1>1, <1>2, <1>3, <1>4 DEF FileInv

\* drop_index, by itself or in drop_table, removes what create_index has added.
LEMMA FileRemoveIndex ==
  ASSUME FileInv, opened = "yes", NEW tab \in DOMAIN db, NEW kind \in Kinds, kind \in db[tab],
         RemoveIndex(tab, kind), UNCHANGED <<meta, fhs, opened, hurt>>,
         ddl'.op = "drop_table" /\ ddl'.step = "destroy" => ddl'.tab = tab /\ db[tab] = {kind}
  PROVE  FileInv'
<1>1. /\ DOMAIN db' = DOMAIN db /\ db'[tab] = db[tab] \ {kind}
      /\ \A t \in DOMAIN db \ {tab} : db'[t] = db[t]
      /\ files' = files \ {Index(tab, kind)} /\ path2fd' = path2fd \ {Index(tab, kind)}
      /\ ihs' = ihs \ {Index(tab, kind)}
  BY DEF RemoveIndex
<1>2. CatTypeOK'
  BY <1>1 DEF FileInv, CatTypeOK
<1>3. \A t : File(t) # Index(tab, kind)
  BY IndexIsNoTable
<1>4. hurt \subseteq {"half"} => files' = FilesOf(db')
  <2> SUFFICES ASSUME hurt \subseteq {"half"}, NEW x PROVE x \in files' <=> x \in FilesOf(db')
    OBVIOUS
  <2>1. x \in files' <=> x \in FilesOf(db) /\ x # Index(tab, kind)
    BY <1>1 DEF FileInv
  <2>2. \A t \in DOMAIN db : \A k : Index(t, k) = Index(tab, kind) <=> t = tab /\ k = kind
    BY FilesDiffer
  <2> QED BY <1>1, <1>3, <2>1, <2>2, FileOf
<1>5. \A t \in DOMAIN db : ~Unhandled(t) => ~Unhandled(t)'
  BY <1>1, FilesDiffer DEF Unhandled
<1> QED BY <1>1, <1>2, <1>3, <1>4, <1>5 DEF FileInv

\* The first step of drop_table.
LEMMA FileDropIndexes ==
  ASSUME CatInv, FileInv, NEW tab \in Tables, drop_table_indexes(tab)
  PROVE  FileInv'
<1>1. opened = "yes" /\ tab \in DOMAIN db /\ UNCHANGED <<meta, fhs, opened, hurt>> /\ ddl.op = "none"
  BY RunningType DEF drop_table_indexes, Accepts, Quiet
<1>2. \/ ddl' = ddl /\ MoreThanOne(db[tab])
      \/ ddl'.tab = tab /\ ~MoreThanOne(db[tab])
  BY RunningType DEF drop_table_indexes
<1>3. CASE db[tab] = {}
  <2>1. UNCHANGED <<files, db, ihs, path2fd>>
    BY <1>3 DEF drop_table_indexes
  <2>2. ddl'.tab = tab
    BY <1>2, <1>3 DEF MoreThanOne
  <2> QED BY <1>1, <1>3, <2>1, <2>2 DEF FileInv, CatTypeOK, Unhandled
<1>4. CASE db[tab] # {}
  <2>1. PICK kind \in Kinds : kind \in db[tab] /\ RemoveIndex(tab, kind)
    BY <1>4 DEF drop_table_indexes
  <2>2. ddl'.op = "drop_table" /\ ddl'.step = "destroy" => ddl'.tab = tab /\ db[tab] = {kind}
    BY <1>1, <1>2, <2>1 DEF MoreThanOne
  <2> QED BY <1>1, <2>1, <2>2, FileRemoveIndex
<1> QED BY <1>3, <1>4

\* The last step of drop_table but for flush_meta: the table has no index any more.
LEMMA FileDropTable == ASSUME CatInv, FileInv, NEW tab \in Tables, drop_table(tab) PROVE FileInv'
<1>1. /\ opened = "yes" /\ files' = files \ {File(tab)} /\ path2fd' = path2fd \ {File(tab)}
      /\ DOMAIN db' = DOMAIN db \ {tab} /\ (\A t \in DOMAIN db' : db'[t] = db[t])
      /\ fhs' = fhs \ {tab} /\ UNCHANGED <<meta, ihs, opened, hurt>>
      /\ ddl.op = "drop_table" /\ ddl.step = "destroy" /\ ddl.tab = tab
  BY DEF drop_table, At
<1>2. ddl'.step = "flush"
  BY DEF drop_table, At, CatInv, SavedInv, DdlType
<1>3. tab \in DOMAIN db /\ db[tab] = {}
  BY <1>1 DEF FileInv
<1>4. CatTypeOK'
  BY <1>1 DEF FileInv, CatTypeOK
<1>5. hurt \subseteq {"half"} => files' = FilesOf(db')
  <2> SUFFICES ASSUME hurt \subseteq {"half"}, NEW x PROVE x \in files' <=> x \in FilesOf(db')
    OBVIOUS
  <2>1. x \in files' <=> x \in FilesOf(db) /\ x # File(tab)
    BY <1>1 DEF FileInv
  <2>2. \A t \in DOMAIN db : \A k \in db[t] : k \in Kinds
    BY DEF FileInv, CatTypeOK
  <2>3. \A t \in DOMAIN db : (File(t) = File(tab) <=> t = tab) /\ \A k \in db[t] : Index(t, k) # File(tab)
    BY <2>2, FilesDiffer, IndexIsNoTable
  <2> QED BY <1>1, <1>3, <2>1, <2>3, FileOf
<1>6. \A t \in fhs' : File(t) \in path2fd'
  BY <1>1, FilesDiffer DEF FileInv
<1> QED BY <1>1, <1>2, <1>4, <1>5, <1>6 DEF FileInv, Unhandled

\* The end of a process: what it leaves is what the next one will find in db.meta.
LEMMA FileEnd == ASSUME CatInv, FileInv, close_db_clear \/ CatCrash PROVE FileInv'
<1>1. /\ opened = "yes" /\ hurt' = hurt \cup Interrupted /\ Stopped
  BY DEF close_db_clear, CatCrash, At
<1>2. /\ DOMAIN db' = {} /\ fhs' = {} /\ ihs' = {} /\ path2fd' = {}
      /\ UNCHANGED <<files, meta>> /\ opened' = "no" /\ ddl' = NoDdl
  BY <1>1 DEF Stopped, NoTables
<1>3. CatTypeOK'
  BY <1>2 DEF FileInv, CatTypeOK
<1>4. "indexed" \notin hurt' => meta = Truncated \/ ~Indexed(meta)
  BY <1>1 DEF Interrupted
<1>5. ASSUME hurt' \subseteq {"half"} PROVE meta # Truncated /\ files = FilesOf(meta)
  <2>1. hurt \subseteq {"half"} /\ Interrupted \subseteq {"half"}
    BY <1>1, <1>5
  <2>2. ddl.step # "write" /\ InStep /\ ~Indexed(db)
    BY <2>1 DEF Interrupted, CatInv, SavedInv, DdlType, InStep
  <2>3. meta # Truncated /\ DOMAIN meta = DOMAIN db
    BY <1>1, <2>1, <2>2 DEF CatInv, SavedInv
  <2>4. ~Indexed(meta)
    BY <2>1, <2>3 DEF Interrupted
  <2>5. FilesOf(meta) = FilesOf(db)
    BY <2>2, <2>3, <2>4 DEF FilesOf, Indexed
  <2> QED BY <1>1, <2>1, <2>3, <2>5 DEF FileInv
<1> QED BY <1>2, <1>3, <1>4, <1>5, RunningType DEF FileInv, Indexed

\* Every step preserves FileInv.
LEMMA FileNext == ASSUME CatInv, FileInv, [Next]_vars PROVE FileInv'
<1>1. CASE UNCHANGED catVars
  BY <1>1 DEF catVars, memVars, FileInv, CatTypeOK, Unhandled, Indexed
<1>2. ASSUME NEW tab \in Tables, NEW kind \in Kinds, drop_index(tab, kind) PROVE FileInv'
  <2>1. ddl'.op = "none" /\ opened = "yes"
    BY <1>2, RunningType DEF drop_index, Accepts, Quiet
  <2> QED BY <1>2, <2>1, FileRemoveIndex DEF drop_index
<1> QED
  BY <1>1, <1>2, FileOpen, FileFlush, FileCreateTable, FileCreateIndex, FileTooLong, FileDropIndexes, FileDropTable, FileEnd
  DEF Next, vars, Start, Main, DdlStep, ProcessCrash, Shutdown, ShutdownEnd, Handler, Client, Execute,
      Executed, ExecuteDies

\* FileInv is an invariant.
LEMMA FileCorrect == Spec => []FileInv
<1>1. Init => FileInv
  <2>1. NoTables # Truncated /\ DOMAIN NoTables = {}
    BY TablesAreNotTruncated DEF NoTables
  <2>2. FilesOf(NoTables) = {}
    BY <2>1 DEF FilesOf
  <2> QED BY <2>1, <2>2, RunningType DEF Init, CatInit, FileInv, CatTypeOK, Indexed
<1>2. CatInv /\ FileInv /\ [Next]_vars => FileInv'
  BY FileNext
<1> QED BY <1>1, <1>2, CatCorrect, PTL DEF Spec

\* Between statements fhs_ and ihs_ have the handles of db_'s tables and indexes, for any
\* number of tables and whatever crashed before; only a start on a database with an index
\* leaves indexes without one (open_db stores them under the table's name).
THEOREM HandlesMatchTablesThm == Spec => []HandlesMatchTables
<1>1. FileInv => HandlesMatchTables
  BY DEF FileInv, HandlesMatchTables
<1> QED BY <1>1, FileCorrect, PTL

\* As long as no statement was interrupted, no process ended with an index and no CREATE INDEX
\* was refused for the length of its columns, the files are those of the tables and indexes:
\* drop_table, drop_index, the restarts and an aborted CREATE INDEX leave none behind.
THEOREM NoFileIsLeftThm == Spec => []NoFileIsLeft
<1>1. FileInv => NoFileIsLeft
  BY DEF FileInv, NoFileIsLeft
<1> QED BY <1>1, FileCorrect, PTL

=============================================================================
