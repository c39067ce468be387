------------------------------ MODULE Lifecycle -----------------------------
(***************************************************************************)
(* The server process from its start to its end, and its restarts: the     *)
(* threads of Listener execute statements on the tables of Catalog.  The   *)
(* process ends by SIGINT, by a crash at any point, or by an exception     *)
(* that no handler catches.  (What a restart does with the rows and the    *)
(* log is Recovery's matter.)                                              *)
(***************************************************************************)
EXTENDS Listener, Catalog

vars == <<lisVars, catVars>>

Init == LisInit /\ CatInit

Up == opened = "yes"

\* The threads and the mutexes go with the process.
LisStopped ==
  /\ pending' = {} /\ main' = "loop" /\ sockfd' = Nobody
  /\ sockfd_mutex' = Free /\ buffer_mutex' = Free
  /\ pc' = [c \in Clients |-> "none"] /\ fd' = [c \in Clients |-> Nobody]
  /\ lexer' = Nobody /\ parse_tree' = Nobody
  /\ events' = {}
  /\ UNCHANGED requests

Start == (open_db \/ open_db_empty) /\ UNCHANGED lisVars

\* A thread's statement.  One that only reads, or fails without a trace, changes nothing here.
Execute(c) ==
  /\ Up /\ pc[c] = "execute"
  /\ \/ \E tab \in Tables :
          /\ \A d \in Clients : pc[d] # "ddl"
          /\ \/ create_table(tab) \/ drop_table_indexes(tab) \/ create_index_too_long(tab)
             \/ \E kind \in Kinds : create_index(tab, kind) \/ drop_index(tab, kind)
          /\ Goto(c, "ddl")
     \/ UNCHANGED catVars /\ Goto(c, "reply")
  /\ UNCHANGED <<pending, main, sockfd, sockfd_mutex, buffer_mutex, fd, lexer, parse_tree, requests, events>>

DdlStep == (flush_meta_open \/ flush_meta_write \/ \E tab \in Tables : drop_table(tab)) /\ UNCHANGED lisVars

Executed(c) ==
  /\ Up /\ pc[c] = "ddl" /\ ddl.op \in {"none", "close_db"}
  /\ Goto(c, "reply")
  /\ UNCHANGED <<pending, main, sockfd, sockfd_mutex, buffer_mutex, fd, lexer, parse_tree, requests,
                 events, catVars>>

\* The std::out_of_range of a statement on a table whose index has no handle.
ExecuteDies(c) ==
  /\ Up /\ pc[c] = "execute"
  /\ \E tab \in DOMAIN db : Unhandled(tab)
  /\ CatCrash /\ LisStopped

ProcessCrash == Up /\ CatCrash /\ LisStopped

\* start_server leaves its loop: SIGINT, or pthread_create fails.  The other threads go
\* on until the process has ended.
Shutdown ==
  /\ Up /\ main # "stopped" /\ close_db
  /\ main' = "stopped"
  /\ UNCHANGED <<pending, sockfd, sockfd_mutex, buffer_mutex, pc, fd, lexer, parse_tree, requests, events>>

ShutdownEnd == close_db_clear /\ LisStopped

Main == Up /\ main_step /\ UNCHANGED catVars
Handler(c) == \/ Up /\ handler_step(c) /\ UNCHANGED catVars
              \/ Execute(c) \/ Executed(c)
Client(c) == Up /\ (Connect(c) \/ handler_read(c) \/ handler_end(c)) /\ UNCHANGED catVars

Next ==
  \/ Start \/ Main \/ DdlStep \/ ProcessCrash \/ Shutdown \/ ShutdownEnd
  \/ \E c \in Clients : Handler(c) \/ Client(c) \/ ExecuteDies(c)

\* Threads that can go on do so; nothing is assumed of clients, crashes and shutdowns.
Spec == Init /\ [][Next]_vars /\ WF_vars(Main) /\ WF_vars(DdlStep) /\ WF_vars(ShutdownEnd)
             /\ \A c \in Clients : WF_vars(Handler(c))

-----------------------------------------------------------------------------
(* Properties. *)

\* A connection that waits is taken by a thread or ends with the process, unless accept
\* has failed: start_server then waits for a mutex that it has itself.
ConnectionsAreServed ==
  \A c \in Clients :
    c \in pending ~> c \notin pending \/ "accept" \in events \/ main = "stopped"

\* A request that has been read is answered or ends with the process: every path through
\* the parser, the analysis and the DDL statements gives buffer_mutex back.
RequestsGetThrough ==
  \A c \in Clients : pc[c] = "lock" ~> pc[c] \in {"reply", "none"}

=============================================================================
