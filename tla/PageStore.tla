----------------------------- MODULE PageStore -----------------------------
(***************************************************************************)
(* What the buffer pool promises its callers: pages that keep what was     *)
(* last written to them, as if there were no frames, no eviction and no    *)
(* disk.  A page that does not exist has no content.                       *)
(***************************************************************************)
CONSTANTS Clients, PageId, Values, Zero, NoPage

VARIABLES content,  \* the content of every page
          users     \* the pages that each client has fetched and not unpinned

storeVars == <<content, users>>

Init ==
  /\ content \in [PageId -> {Zero, NoPage}]
  /\ users = [c \in Clients |-> {}]

Fetch(c, p) ==
  /\ content[p] # NoPage
  /\ users' = [users EXCEPT ![c] = @ \cup {p}]
  /\ UNCHANGED content

Write(c, p, v) ==
  /\ p \in users[c]
  /\ content' = [content EXCEPT ![p] = v]
  /\ UNCHANGED users

Unpin(c, p) ==
  /\ p \in users[c]
  /\ users' = [users EXCEPT ![c] = @ \ {p}]
  /\ UNCHANGED content

Create(c, p) ==
  /\ content[p] = NoPage
  /\ content' = [content EXCEPT ![p] = Zero]
  /\ users' = [users EXCEPT ![c] = @ \cup {p}]

\* Pages that nobody uses go with their file, or are replaced by empty ones.
Reset(set) ==
  /\ \A c \in Clients : users[c] \cap set = {}
  /\ content' \in [PageId -> Values \cup {NoPage}]
  /\ \A p \in PageId : content'[p] \in IF p \in set THEN {Zero, NoPage} ELSE {content[p]}
  /\ UNCHANGED users

Next ==
  \/ \E c \in Clients, p \in PageId :
       Fetch(c, p) \/ Unpin(c, p) \/ Create(c, p) \/ \E v \in Values : Write(c, p, v)
  \/ \E set \in SUBSET PageId : Reset(set)

Spec == Init /\ [][Next]_storeVars

=============================================================================
