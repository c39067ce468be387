------------------------------ MODULE Listener ------------------------------
(***************************************************************************)
(* The threads of the server (src/src/rmdb.cpp): start_server accepts      *)
(* connections and starts a thread for each; client_handler reads a        *)
(* request, parses and analyses it, executes it and answers.               *)
(*                                                                         *)
(* Two mutexes that one thread locks and another may unlock: sockfd_mutex  *)
(* guards the variable through which a thread learns its connection,       *)
(* buffer_mutex the lexer and the parse tree, which are global.  Unlocking *)
(* a mutex of this type makes it free, whoever has locked it.              *)
(***************************************************************************)
EXTENDS Integers

CONSTANTS Clients,
          MaxRequests   \* bound: requests of all clients

VARIABLES pending,       \* connections that wait to be accepted
          main,          \* where start_server is
          sockfd,        \* its variable of that name
          sockfd_mutex, buffer_mutex,
          pc, fd,        \* of the thread started for each client
          lexer, parse_tree,   \* whose request they hold
          requests,
          events         \* history: "accept": accept failed; "stolen": a thread has
                         \* unlocked buffer_mutex while another one had it

lisVars == <<pending, main, sockfd, sockfd_mutex, buffer_mutex, pc, fd, lexer, parse_tree,
             requests, events>>

Free == "free"
Nobody == "nobody"

\* A mutex is free or locked by somebody.
ASSUME FreeIsNoClient == Free \notin Clients

LisInit ==
  /\ pending = {} /\ main = "loop" /\ sockfd = Nobody
  /\ sockfd_mutex = Free /\ buffer_mutex = Free
  /\ pc = [c \in Clients |-> "none"] /\ fd = [c \in Clients |-> Nobody]
  /\ lexer = Nobody /\ parse_tree = Nobody
  /\ requests = 0 /\ events = {}

Goto(c, label) == pc' = [pc EXCEPT ![c] = label]

\* A client connects, once.
Connect(c) ==
  /\ c \notin pending /\ pc[c] = "none"
  /\ pending' = pending \cup {c}
  /\ UNCHANGED <<main, sockfd, sockfd_mutex, buffer_mutex, pc, fd, lexer, parse_tree, requests, events>>

-----------------------------------------------------------------------------
(* start_server *)

main_lock ==
  /\ main = "loop" /\ sockfd_mutex = Free
  /\ sockfd_mutex' = "main"
  /\ main' = "accept"
  /\ UNCHANGED <<pending, sockfd, buffer_mutex, pc, fd, lexer, parse_tree, requests, events>>

\* accept succeeds: pthread_create with the address of sockfd, and round the loop.
main_accept ==
  /\ main = "accept"
  /\ \E c \in pending :
       /\ pending' = pending \ {c}
       /\ sockfd' = c
       /\ Goto(c, "start")
  /\ main' = "loop"
  /\ UNCHANGED <<sockfd_mutex, buffer_mutex, fd, lexer, parse_tree, requests, events>>

\* accept fails: round the loop with the mutex locked.
main_accept_fails ==
  /\ main = "accept" /\ pending # {}
  /\ main' = "loop"
  /\ events' = events \cup {"accept"}
  /\ UNCHANGED <<pending, sockfd, sockfd_mutex, buffer_mutex, pc, fd, lexer, parse_tree, requests>>

-----------------------------------------------------------------------------
(* client_handler *)

\* Mistake: the mutex is unlocked before the variable is read.
handler_start_late(c) ==
  /\ pc[c] \in {"start", "started"}
  /\ IF pc[c] = "start"
     THEN sockfd_mutex' = Free /\ Goto(c, "started") /\ UNCHANGED fd
     ELSE fd' = [fd EXCEPT ![c] = sockfd] /\ Goto(c, "read") /\ UNCHANGED sockfd_mutex
  /\ UNCHANGED <<pending, main, sockfd, buffer_mutex, lexer, parse_tree, requests, events>>

\* Mistake: the mutex is not unlocked.
handler_start_keeps(c) ==
  /\ pc[c] \in {"start", "started"}
  /\ IF pc[c] = "start"
     THEN fd' = [fd EXCEPT ![c] = sockfd] /\ Goto(c, "started")
     ELSE Goto(c, "read") /\ UNCHANGED fd
  /\ UNCHANGED <<pending, main, sockfd, sockfd_mutex, buffer_mutex, lexer, parse_tree, requests, events>>

\* fd = *sock_fd, then the unlock.
handler_start(c) ==
  /\ pc[c] \in {"start", "started"}
  /\ IF pc[c] = "start"
     THEN fd' = [fd EXCEPT ![c] = sockfd] /\ Goto(c, "started") /\ UNCHANGED sockfd_mutex
     ELSE sockfd_mutex' = Free /\ Goto(c, "read") /\ UNCHANGED fd
  /\ UNCHANGED <<pending, main, sockfd, buffer_mutex, lexer, parse_tree, requests, events>>

\* A request has been read.
handler_read(c) ==
  /\ pc[c] = "read" /\ requests < MaxRequests
  /\ requests' = requests + 1
  /\ Goto(c, "lock")
  /\ UNCHANGED <<pending, main, sockfd, sockfd_mutex, buffer_mutex, fd, lexer, parse_tree, events>>

\* The client has closed the connection or said "exit", or read failed.
handler_end(c) ==
  /\ pc[c] = "read"
  /\ Goto(c, "end")
  /\ UNCHANGED <<pending, main, sockfd, sockfd_mutex, buffer_mutex, fd, lexer, parse_tree, requests, events>>

\* Mistake: the mutex is not waited for.
handler_lock_free(c) ==
  /\ pc[c] = "lock"
  /\ buffer_mutex' = c
  /\ lexer' = c
  /\ Goto(c, "parse")
  /\ UNCHANGED <<pending, main, sockfd, sockfd_mutex, fd, parse_tree, requests, events>>

\* buffer_mutex, then yy_scan_string.
handler_lock(c) ==
  /\ pc[c] = "lock" /\ buffer_mutex = Free
  /\ buffer_mutex' = c
  /\ lexer' = c
  /\ Goto(c, "parse")
  /\ UNCHANGED <<pending, main, sockfd, sockfd_mutex, fd, parse_tree, requests, events>>

Stolen(c) == IF buffer_mutex \notin {c, Free} THEN {"stolen"} ELSE {}

\* yy_delete_buffer of the thread's own buffer.
yy_delete_buffer(c) == lexer' = IF lexer = c THEN Nobody ELSE lexer

\* yyparse, with what the lexer holds.  It succeeds, fails, or throws (std::stoll in the
\* lexer), in which case the mutex is unlocked here and once more at CONTINUE.
handler_parse(c) ==
  /\ pc[c] = "parse"
  /\ \/ parse_tree' = lexer /\ Goto(c, "analyze") /\ UNCHANGED <<buffer_mutex, events>>
     \/ Goto(c, "continue") /\ UNCHANGED <<parse_tree, buffer_mutex, events>>
     \/ /\ buffer_mutex' = Free /\ events' = events \cup Stolen(c)
        /\ Goto(c, "continue") /\ UNCHANGED parse_tree
  /\ UNCHANGED <<pending, main, sockfd, sockfd_mutex, fd, lexer, requests>>

\* Mistake: the mutex stays locked when the analysis fails.
handler_analyze_keeps(c) ==
  /\ pc[c] = "analyze"
  /\ \/ buffer_mutex' = Free /\ events' = events \cup Stolen(c) /\ yy_delete_buffer(c) /\ Goto(c, "execute")
     \/ Goto(c, "reply") /\ UNCHANGED <<buffer_mutex, lexer, events>>
  /\ UNCHANGED <<pending, main, sockfd, sockfd_mutex, fd, parse_tree, requests>>

\* do_analyze reads the parse tree; an RMDBError leads to CONTINUE.
handler_analyze(c) ==
  /\ pc[c] = "analyze"
  /\ \/ buffer_mutex' = Free /\ events' = events \cup Stolen(c) /\ yy_delete_buffer(c) /\ Goto(c, "execute")
     \/ Goto(c, "continue") /\ UNCHANGED <<buffer_mutex, lexer, events>>
  /\ UNCHANGED <<pending, main, sockfd, sockfd_mutex, fd, parse_tree, requests>>

\* CONTINUE with finish_analyze = false.
handler_continue(c) ==
  /\ pc[c] = "continue"
  /\ yy_delete_buffer(c)
  /\ buffer_mutex' = Free /\ events' = events \cup Stolen(c)
  /\ Goto(c, "reply")
  /\ UNCHANGED <<pending, main, sockfd, sockfd_mutex, fd, parse_tree, requests>>

\* The answer; the thread ends if it cannot be sent.
handler_reply(c) ==
  /\ pc[c] = "reply"
  /\ Goto(c, "read") \/ Goto(c, "end")
  /\ UNCHANGED <<pending, main, sockfd, sockfd_mutex, buffer_mutex, fd, lexer, parse_tree, requests, events>>

main_step == main_lock \/ main_accept \/ main_accept_fails
handler_step(c) ==
  \/ handler_start(c) \/ handler_lock(c) \/ handler_parse(c) \/ handler_analyze(c)
  \/ handler_continue(c) \/ handler_reply(c)

-----------------------------------------------------------------------------
(* Properties. *)

Parsing(c) == pc[c] \in {"parse", "analyze"}

\* Each thread serves the connection it was started for: start_server does not change
\* sockfd before the thread has read it, though it goes on to accept the next client.
OwnConnection == \A c \in Clients : pc[c] \notin {"none", "start", "started"} => fd[c] = c

\* Unless a thread whose parser threw has unlocked the mutex under another one, a thread
\* parses and analyses its own request, and no other thread is in the parser.
OwnParseTree ==
  "stolen" \notin events =>
    \A c \in Clients :
      /\ Parsing(c) => lexer = c /\ \A d \in Clients \ {c} : ~Parsing(d)
      /\ pc[c] = "analyze" => parse_tree = c

=============================================================================
