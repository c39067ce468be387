----------------------------- MODULE BPlusTree ------------------------------
(***************************************************************************)
(* One index as IxIndexHandle keeps it (src/src/index): a B+ tree of nodes *)
(* on pages, with parent pointers, a chain of leaves and a file header.    *)
(*                                                                         *)
(* Writers come one after the other and are one step each.  Splits and     *)
(* merges stay below the lowest safe node, which they keep latched, but    *)
(* maintain_parent writes the first keys of ancestors above it, which      *)
(* find_leaf_page has already unlatched: two writers at once are outside   *)
(* this model.  A search is one step per level, because it unlatches a     *)
(* node before it latches the child it has read there.                     *)
(*                                                                         *)
(* A leaf's rid is the rid of the one row with that key, so the key stands *)
(* for it; an inner node's rid is the page number of the child.            *)
(***************************************************************************)
EXTENDS IxNode, Integers, Sequences, FiniteSets, FiniteSetsExt, SequencesExt

CONSTANTS Keys,        \* the keys that statements insert, delete and search
          btree_order, \* the number of pairs that fit a node, less the reserve
          Loaded,      \* the keys inserted before the modelled statements, in order
          MaxChanges   \* bound: insertions and deletions in a behaviour

ASSUME KeysAreNumbers == Keys \subseteq Nat \ {0} /\ Range(Loaded) \subseteq Keys
ASSUME OrderIsAsserted == btree_order \in Nat /\ btree_order > 2
ASSUME ChangesAreCounted == MaxChanges \in Nat

VARIABLES tree,     \* the pages, the file header, and how the last operation ended
          rows,     \* the keys of the table's rows
          changes,  \* the number of insertions and deletions so far
          gone,     \* history: keys that have been deleted
          events,   \* history: "merge", "misplaced", "reinsert"
          search    \* the search under way

vars == <<tree, rows, changes, gone, events, search>>

IX_NO_PAGE == -1
IX_LEAF_HEADER_PAGE == 1
IX_INIT_ROOT_PAGE == 2

max_size == btree_order + 1
min_size == max_size \div 2

ZeroPage ==
  [keys |-> [i \in 0 .. btree_order |-> 0], rids |-> [i \in 0 .. btree_order |-> 0],
   num_key |-> 0, is_leaf |-> FALSE, parent |-> 0, prev |-> 0, next |-> 0]

EmptyLeaf(prev, next) ==
  [ZeroPage EXCEPT !.is_leaf = TRUE, !.parent = IX_NO_PAGE, !.prev = prev, !.next = next]

\* The file that create_index writes: the head of the leaf chain and an empty root leaf.
create_index ==
  [node |-> [p \in {IX_LEAF_HEADER_PAGE, IX_INIT_ROOT_PAGE} |->
               IF p = IX_INIT_ROOT_PAGE
               THEN EmptyLeaf(IX_LEAF_HEADER_PAGE, IX_LEAF_HEADER_PAGE)
               ELSE EmptyLeaf(IX_INIT_ROOT_PAGE, IX_INIT_ROOT_PAGE)],
   root_page |-> IX_INIT_ROOT_PAGE,
   last_leaf |-> IX_INIT_ROOT_PAGE,
   status |-> "ok"]

-----------------------------------------------------------------------------
(* Pages.  A page number is never handed out twice while the file is open. *)

Put(t, p, n) ==
  [t EXCEPT !.node = [q \in DOMAIN t.node \cup {p} |-> IF q = p THEN n ELSE t.node[q]]]

create_node(t) == Max(DOMAIN t.node) + 1

\* A failed assertion or a null pointer ends the process; an exception leaves the
\* latches of the path locked.
Dies(t)   == [t EXCEPT !.status = "died"]
Throws(t) == [t EXCEPT !.status = "thrown"]

find_child(parent, c) ==
  Min({i \in 0 .. parent.num_key : i = parent.num_key \/ parent.rids[i] = c})

\* The children at these positions of an inner node get it as their parent.
maintain_child(t, p, positions) ==
  IF t.node[p].is_leaf THEN t
  ELSE LET moved == {t.node[p].rids[i] : i \in positions}
       IN  [t EXCEPT !.node =
              [q \in DOMAIN @ |-> IF q \in moved THEN [@[q] EXCEPT !.parent = p] ELSE @[q]]]

\* Write a node's first key into its parent, and so on upwards while a key changes.
RECURSIVE maintain_parent(_, _)
maintain_parent(t, c) ==
  LET p     == t.node[c].parent
      rank  == find_child(t.node[p], c)
      first == t.node[c].keys[0]
  IN  CASE p = IX_NO_PAGE -> t
        [] p # IX_NO_PAGE /\ rank = t.node[p].num_key -> Dies(t)
        [] OTHER ->
             IF t.node[p].keys[rank] = first THEN t
             ELSE maintain_parent([t EXCEPT !.node[p].keys[rank] = first], p)

RECURSIVE descend(_, _, _)
descend(t, p, key) ==
  IF t.node[p].is_leaf THEN p ELSE descend(t, internal_lookup(t.node[p], key), key)

find_leaf_page(t, key) == descend(t, t.root_page, key)

is_key_exist(t, key) == key \in keys_of(t.node[find_leaf_page(t, key)])

-----------------------------------------------------------------------------
(* Insertion. *)

\* Mistake: the moved children keep the old parent.
split_orphans(t, p) ==
  LET n     == t.node[p]
      left  == n.num_key \div 2
      q     == create_node(t)
      right == [append_pairs([ZeroPage EXCEPT !.parent = n.parent, !.is_leaf = n.is_leaf],
                             n, left, n.num_key - left)
                  EXCEPT !.prev = IF n.is_leaf THEN p ELSE @,
                         !.next = IF n.is_leaf THEN n.next ELSE @]
  IN  [Put(Put(t, p, [n EXCEPT !.num_key = left, !.next = IF n.is_leaf THEN q ELSE @]), q, right)
         EXCEPT !.last_leaf = IF n.is_leaf /\ @ = p THEN q ELSE @]

\* The right half of the pairs moves to a new page.  The leaf after the new one
\* keeps its prev_leaf.
split(t, p) ==
  LET n     == t.node[p]
      left  == n.num_key \div 2
      q     == create_node(t)
      right == [append_pairs([ZeroPage EXCEPT !.parent = n.parent, !.is_leaf = n.is_leaf],
                             n, left, n.num_key - left)
                  EXCEPT !.prev = IF n.is_leaf THEN p ELSE @,
                         !.next = IF n.is_leaf THEN n.next ELSE @]
      t1    == Put(Put(t, p, [n EXCEPT !.num_key = left,
                                       !.next = IF n.is_leaf THEN q ELSE @]), q, right)
      t2    == [t1 EXCEPT !.last_leaf = IF n.is_leaf /\ @ = p THEN q ELSE @]
  IN  maintain_child(t2, q, 0 .. right.num_key - 1)

RECURSIVE insert_into_parent(_, _, _)
insert_into_parent(t, old, new) ==
  LET first(p) == t.node[p].keys[0]
      root     == create_node(t)
      parent   == t.node[new].parent
      full     == insert(t.node[parent], first(new), new)
  IN  IF t.node[old].parent = IX_NO_PAGE
      THEN LET pair == insert_pair(insert_pair([ZeroPage EXCEPT !.parent = IX_NO_PAGE],
                                               0, first(old), old), 1, first(new), new)
           IN  [Put(t, root, pair) EXCEPT !.node[old].parent = root,
                                          !.node[new].parent = root,
                                          !.root_page = root]
      ELSE IF full.num_key = max_size
           THEN LET t1 == Put(t, parent, full)
                IN  insert_into_parent(split(t1, parent), parent, create_node(t1))
           ELSE Put(t, parent, full)

insert_entry(t, key) ==
  LET leaf == find_leaf_page(t, key)
      t1   == maintain_parent(Put(t, leaf, insert(t.node[leaf], key, key)), leaf)
  IN  IF t1.node[leaf].num_key = max_size
      THEN insert_into_parent(split(t1, leaf), leaf, create_node(t1))
      ELSE t1

-----------------------------------------------------------------------------
(* Deletion. *)

\* Mistake: the parent keeps the neighbour's old first key.
redistribute_silent(t, neighbour, node, index) ==
  LET n    == t.node[node]
      from == t.node[neighbour]
      last == from.num_key - 1
  IN  IF index = 0
      THEN maintain_child(Put(Put(t, node, insert_pair(n, n.num_key, from.keys[0], from.rids[0])),
                              neighbour, erase_pair(from, 0)),
                          node, {n.num_key})
      ELSE maintain_child(Put(Put(t, node, insert_pair(n, 0, from.keys[last], from.rids[last])),
                              neighbour, erase_pair(from, last)),
                          node, {0})

\* One pair moves from the neighbour: its first one when node is taken for the
\* leftmost child, else its last one.
redistribute(t, neighbour, node, index) ==
  LET n    == t.node[node]
      from == t.node[neighbour]
      last == from.num_key - 1
  IN  IF index = 0
      THEN maintain_parent(
             maintain_child(Put(Put(t, node, insert_pair(n, n.num_key, from.keys[0], from.rids[0])),
                                neighbour, erase_pair(from, 0)),
                            node, {n.num_key}),
             neighbour)
      ELSE maintain_child(
             maintain_parent(Put(Put(t, node, insert_pair(n, 0, from.keys[last], from.rids[last])),
                                 neighbour, erase_pair(from, last)),
                             node),
             node, {0})

\* Unlink a leaf from the chain.
erase_leaf(t, leaf) ==
  LET n  == t.node[leaf]
      t1 == [t EXCEPT !.node[n.prev].next = n.next]
  IN  [t1 EXCEPT !.node[n.next].prev = n.prev]

\* A root that has one child left is replaced by it.
adjust_root(t, root) ==
  LET n == t.node[root]
  IN  IF ~n.is_leaf /\ n.num_key = 1
      THEN [t EXCEPT !.node[n.rids[0]].parent = IX_NO_PAGE, !.root_page = n.rids[0]]
      ELSE t

RECURSIVE coalesce_or_redistribute(_, _, _)

\* The pairs of the right node move to the left one, and the parent loses the pair
\* that it has for the right node's first key.  The call for the parent passes no
\* transaction and no root_is_latched.
coalesce(t, neighbour, node, parent, index) ==
  LET left  == IF index = 0 THEN node ELSE neighbour
      right == IF index = 0 THEN neighbour ELSE node
      l     == t.node[left]
      r     == t.node[right]
      t1    == maintain_child(Put(t, left, append_pairs(l, r, 0, r.num_key)), left,
                              {i + l.num_key : i \in l.num_key .. r.num_key - 1})
      t2    == IF ~r.is_leaf THEN t1
               ELSE [erase_leaf(t1, right) EXCEPT !.last_leaf = IF @ = right THEN left ELSE @]
      pos   == lower_bound(t2.node[parent], r.keys[0])
  IN  IF erase_pair_throws(t2.node[parent], pos) THEN Throws(t2)
      ELSE coalesce_or_redistribute(Put(t2, parent, erase_pair(t2.node[parent], pos)),
                                    parent, FALSE)

\* has_latch: is root_is_latched a pointer to the caller's flag?  Every branch but
\* the one for a node that is still large enough reads the flag.
coalesce_or_redistribute(t, node, has_latch) ==
  LET n       == t.node[node]
      f       == t.node[n.parent]
      rank    == find_child(f, node)
      brother == f.rids[IF rank = 0 THEN 1 ELSE 0]
      index   == lower_bound(f, n.keys[0])
      read(u) == IF has_latch \/ u.status # "ok" THEN u ELSE Dies(u)
  IN  CASE n.parent = IX_NO_PAGE -> read(adjust_root(t, node))
        [] n.parent # IX_NO_PAGE /\ n.num_key >= min_size -> maintain_parent(t, node)
        [] OTHER ->
             IF rank = f.num_key THEN Dies(t)
             ELSE IF n.num_key + t.node[brother].num_key >= 2 * min_size
             THEN read(redistribute(t, brother, node, index))
             ELSE read(coalesce(t, brother, node, n.parent, index))

\* The pair at the lower bound of the key is erased, whatever its key.  After a merge
\* the leaf's page is given to delete_page, also when it is the first child and coalesce
\* has moved the pairs of the other leaf into it.  delete_page writes a dirty page back,
\* so the node keeps its content; what becomes of the frames is in BufferPool.
delete_entry(t, key) ==
  LET leaf == find_leaf_page(t, key)
      n    == t.node[leaf]
      pos  == lower_bound(n, key)
  IN  IF erase_pair_throws(n, pos) THEN Throws(t)
      ELSE coalesce_or_redistribute(Put(t, leaf, erase_pair(n, pos)), leaf, TRUE)

-----------------------------------------------------------------------------
(* Range scans: an Iid is a leaf and a slot. *)

lower_iid(t, key) ==
  LET leaf == find_leaf_page(t, key) IN <<leaf, lower_bound(t.node[leaf], key)>>

leaf_end(t) == <<t.last_leaf, t.node[t.last_leaf].num_key>>

\* Behind the last pair of any leaf the bound is the end of the last leaf.
upper_iid(t, key) ==
  LET leaf == find_leaf_page(t, key)
      slot == upper_bound(t.node[leaf], key)
  IN  IF slot = t.node[leaf].num_key THEN leaf_end(t) ELSE <<leaf, slot>>

\* Mistake: the scan goes on in the next leaf one slot too far.
next_iid_far(t, iid) ==
  LET n == t.node[iid[1]]
  IN  IF iid[1] # t.last_leaf /\ iid[2] + 1 = n.num_key
      THEN <<n.next, 1>> ELSE <<iid[1], iid[2] + 1>>

\* IxScan::next
next_iid(t, iid) ==
  LET n == t.node[iid[1]]
  IN  IF iid[1] # t.last_leaf /\ iid[2] + 1 = n.num_key
      THEN <<n.next, 0>> ELSE <<iid[1], iid[2] + 1>>

\* The executor reads the rid at each Iid, get_rid throws beyond the pairs of a leaf.
RECURSIVE walk(_, _, _, _)
walk(t, iid, end, found) ==
  IF iid = end THEN [throws |-> FALSE, found |-> found]
  ELSE IF iid[2] >= t.node[iid[1]].num_key THEN [throws |-> TRUE, found |-> found]
  ELSE walk(t, next_iid(t, iid), end, Append(found, t.node[iid[1]].keys[iid[2]]))

\* The rows of `low <= key AND key <= high`: those of the range that meet the conditions.
index_scan(t, low, high) ==
  LET scan == walk(t, lower_iid(t, low), upper_iid(t, high), <<>>)
  IN  [scan EXCEPT !.found = SelectSeq(@, LAMBDA k : low <= k /\ k <= high)]

-----------------------------------------------------------------------------
(* Statements and searches. *)

NoSearch == [pc |-> "idle", key |-> 0, page |-> 0, kept |-> FALSE, seen |-> FALSE,
             moved |-> FALSE]

Init ==
  /\ tree = FoldLeft(insert_entry, create_index, Loaded)
  /\ rows = Range(Loaded)
  /\ changes = 0
  /\ gone = {}
  /\ events = {}
  /\ search = NoSearch

\* What a change of the index means to the history of a search under way.
Witness(after, tableAfter) ==
  IF search.pc # "down" THEN search
  ELSE [search EXCEPT !.kept = @ /\ search.key \in tableAfter,
                      !.seen = @ \/ search.key \in tableAfter,
                      !.moved = @ \/ find_leaf_page(after, search.key)
                                       # find_leaf_page(tree, search.key)]

\* An INSERT: the executor has found that the key does not exist.
Insert(key) ==
  /\ tree.status = "ok" /\ changes < MaxChanges
  /\ key \notin rows /\ ~is_key_exist(tree, key)
  /\ tree' = insert_entry(tree, key)
  /\ rows' = rows \cup {key}
  /\ changes' = changes + 1
  /\ events' = IF key \in gone THEN events \cup {"reinsert"} ELSE events
  /\ search' = Witness(tree', rows')
  /\ UNCHANGED gone

\* What a deletion has to do with a leaf that becomes too small: nothing, a merge, or
\* the move of a pair.  The move is misplaced when the brother is not the neighbour on
\* the side that redistribute takes it for.
Refill(t, key) ==
  LET leaf    == find_leaf_page(t, key)
      n       == erase_pair(t.node[leaf], lower_bound(t.node[leaf], key))
      f       == t.node[n.parent]
      rank    == find_child(f, leaf)
      brother == f.rids[IF rank = 0 THEN 1 ELSE 0]
  IN  IF n.parent = IX_NO_PAGE \/ n.num_key >= min_size THEN {}
      ELSE IF n.num_key + t.node[brother].num_key < 2 * min_size THEN {"merge"}
      ELSE IF rank > 1 \/ (rank = 0) # (lower_bound(f, n.keys[0]) = 0) THEN {"misplaced"}
      ELSE {}

\* A DELETE of a row of the table: the index first, then the row.
Delete(key) ==
  /\ tree.status = "ok" /\ changes < MaxChanges
  /\ key \in rows
  /\ tree' = delete_entry(tree, key)
  /\ rows' = IF tree'.status = "thrown" THEN rows ELSE rows \ {key}
  /\ changes' = changes + 1
  /\ gone' = gone \cup {key}
  /\ events' = events \cup (IF tree'.status = "thrown" /\ tree'.node = tree.node THEN {}
                            ELSE Refill(tree, key))
  /\ search' = Witness(tree', rows')

\* Mistake: the last pair of the leaf is not compared.
Look_short(s, p) ==
  LET n == tree.node[p]
  IN  IF ~n.is_leaf THEN [s EXCEPT !.pc = "down", !.page = internal_lookup(n, s.key)]
      ELSE IF \E i \in 0 .. n.num_key - 2 : n.keys[i] = s.key
           THEN [s EXCEPT !.pc = "hit", !.page = p]
      ELSE [s EXCEPT !.pc = "miss", !.page = p]

\* Read the node that the search has latched: a leaf answers, an inner node names the
\* next page, and its latch is given back before that page is latched.
Look(s, p) ==
  LET n == tree.node[p]
  IN  IF ~n.is_leaf THEN [s EXCEPT !.pc = "down", !.page = internal_lookup(n, s.key)]
      ELSE IF s.key \in keys_of(n) THEN [s EXCEPT !.pc = "hit", !.page = p]
      ELSE [s EXCEPT !.pc = "miss", !.page = p]

\* The root is latched under root_latch_.
SearchStart(key) ==
  /\ tree.status = "ok"
  /\ search.pc = "idle"
  /\ search' = Look([NoSearch EXCEPT !.key = key, !.kept = key \in rows,
                                     !.seen = key \in rows], tree.root_page)
  /\ UNCHANGED <<tree, rows, changes, gone, events>>

SearchDown ==
  /\ tree.status = "ok"
  /\ search.pc = "down"
  /\ search' = Look(search, search.page)
  /\ UNCHANGED <<tree, rows, changes, gone, events>>

Next ==
  \/ \E key \in Keys : Insert(key) \/ Delete(key) \/ SearchStart(key)
  \/ SearchDown

Spec == Init /\ [][Next]_vars

-----------------------------------------------------------------------------
(* Properties. *)

Calm == events \subseteq {"reinsert"}
Clean == events = {}

\* Type invariant: no node has more pairs than btree_order.
TypeOK ==
  /\ tree.root_page \in DOMAIN tree.node
  /\ tree.last_leaf \in DOMAIN tree.node
  /\ tree.status \in {"ok", "thrown", "died"}
  /\ \A p \in DOMAIN tree.node :
       /\ tree.node[p].num_key \in 0 .. btree_order
       /\ \A i \in 0 .. btree_order : tree.node[p].keys[i] \in Keys \cup {0}
  /\ rows \subseteq Keys
  /\ changes \in 0 .. MaxChanges

\* The pages of the tree, from the root down.
RECURSIVE Below(_)
Below(p) ==
  LET n == tree.node[p]
  IN  IF n.is_leaf THEN {p}
      ELSE {p} \cup UNION {Below(n.rids[i]) : i \in 0 .. n.num_key - 1}

Leaves == {p \in Below(tree.root_page) : tree.node[p].is_leaf}

\* The state has its type, and as long as no nodes were merged and no pair was misplaced,
\* the structure is that of a B+ tree: an inner node has the first key of each child and
\* is that child's parent, its keys ascend, and every node but the root is at least half
\* full.
WellFormed ==
  /\ TypeOK
  /\ Calm =>
       \A p \in Below(tree.root_page) :
         LET n == tree.node[p]
             used == 0 .. n.num_key - 1
         IN  /\ \A i, j \in used : i < j => n.keys[i] < n.keys[j]
             /\ p # tree.root_page => n.num_key >= min_size
             /\ ~n.is_leaf => \A i \in used : /\ tree.node[n.rids[i]].parent = p
                                              /\ tree.node[n.rids[i]].keys[0] = n.keys[i]

\* An operation fails only after a merge, a misplaced pair or the return of a deleted
\* key, and the process ends only in a merge or after a misplaced pair.
FailuresHaveACause ==
  /\ tree.status = "thrown" => events # {}
  /\ tree.status = "died" => ~Calm

\* As long as there was no merge, no misplaced pair and no deleted key came back, a key is
\* found in the index exactly when the table has a row with it: the uniqueness check
\* of INSERT and UPDATE and the index scans rely on that.  The return of a deleted key
\* may lose it, but never leaves a key without a row.
KeysAreFound ==
  /\ Clean => \A key \in Keys : is_key_exist(tree, key) <=> key \in rows
  /\ Calm => \A p \in Leaves : keys_of(tree.node[p]) \subseteq rows

\* A range scan returns every row of its range once and in the order of the keys, for
\* any two bounds, wherever they fall in the leaves.  It fails only when the range is
\* empty or its lower bound lies behind the last key of the leaf it belongs to.
ScansAreExact ==
  Clean => \A low, high \in Keys :
    LET scan == index_scan(tree, low, high)
    IN  IF scan.throws
        THEN high < low \/ \A k \in keys_of(tree.node[find_leaf_page(tree, low)]) : k < low
        ELSE /\ Range(scan.found) = {k \in rows : low <= k /\ k <= high}
             /\ \A i, j \in DOMAIN scan.found : i < j => scan.found[i] < scan.found[j]

\* A search answers for the time it ran in: it finds only a key that was there at some
\* moment, and it misses a key that was there all the time only when a split or a refill
\* has moved that key to another leaf between two of its steps.
SearchesAreRight ==
  Clean =>
    /\ search.pc = "hit" => search.seen
    /\ search.pc = "miss" => ~search.kept \/ search.moved

\* "Remember to deal with coalesce or redistribute recursively if necessary"
\* (ix_index_handle.cpp:803): a deletion that merges nodes goes on to their parent, and
\* the process survives it.  It does not: coalesce passes no root_is_latched, which the
\* call for the parent dereferences.  No run has this property; FailuresHaveACause says
\* that nothing else ends the process.
MergesComplete == tree.status # "died"

=============================================================================
