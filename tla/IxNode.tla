------------------------------- MODULE IxNode -------------------------------
(***************************************************************************)
(* A node of the B+ tree (IxNodeHandle in src/src/index): an array of keys *)
(* and an array of rids, of which the first num_key positions are in use.  *)
(* The positions after them keep whatever bytes they had: a fresh page is  *)
(* all zeros, and erase_pair leaves a copy of the last pair behind.        *)
(* Keys are integers under ix_compare; zero bytes are the key 0.           *)
(***************************************************************************)
LOCAL INSTANCE Integers

\* The first position in use whose key is not less than the target, or num_key.
lower_bound(node, target) ==
  CHOOSE i \in 0 .. node.num_key :
    /\ i = node.num_key \/ target <= node.keys[i]
    /\ \A j \in 0 .. i - 1 : node.keys[j] < target

\* The first position from 1 on whose key is greater than the target, or num_key.
\* It is 1 for every target when there is no position after the first one.
upper_bound(node, target) ==
  LET end == IF node.num_key < 1 THEN 1 ELSE node.num_key
  IN  CHOOSE i \in 1 .. end :
        /\ i = end \/ target < node.keys[i]
        /\ \A j \in 1 .. i - 1 : node.keys[j] <= target

\* The child of an inner node that the target belongs to.
internal_lookup(node, target) == node.rids[upper_bound(node, target) - 1]

\* Write the n pairs of another node that start at its position first behind the last pair.
append_pairs(node, from, first, n) ==
  LET extended(array, other) ==
        [i \in DOMAIN array |->
           IF i \in node.num_key .. node.num_key + n - 1
           THEN other[first + i - node.num_key] ELSE array[i]]
  IN  [node EXCEPT !.keys = extended(@, from.keys), !.rids = extended(@, from.rids),
                   !.num_key = @ + n]

\* Make room at pos and write one pair there.
insert_pair(node, pos, key, rid) ==
  LET shifted(array, new) ==
        [i \in DOMAIN array |->
           IF i = pos THEN new
           ELSE IF i > pos /\ i <= node.num_key THEN array[i - 1]
           ELSE array[i]]
  IN  [node EXCEPT !.keys = shifted(@, key), !.rids = shifted(@, rid), !.num_key = @ + 1]

\* Close the gap at pos; the last pair stays where it was, beyond the end.
erase_pair(node, pos) ==
  LET shifted(array) ==
        [i \in DOMAIN array |->
           IF i >= pos /\ i < node.num_key - 1 THEN array[i + 1] ELSE array[i]]
  IN  [node EXCEPT !.keys = shifted(@), !.rids = shifted(@), !.num_key = @ - 1]

\* erase_pair throws when pos is not a position in use.
erase_pair_throws(node, pos) == pos >= node.num_key

\* A key that is found at its lower bound is not inserted again.  The comparison
\* also reads the position after the last pair.
insert(node, key, rid) ==
  LET pos == lower_bound(node, key)
  IN  IF node.num_key # 0 /\ node.keys[pos] = key
      THEN node
      ELSE insert_pair(node, pos, key, rid)

\* The keys in use, and the rid of one of them.
keys_of(node) == {node.keys[i] : i \in 0 .. node.num_key - 1}
rid_of(node, key) == node.rids[lower_bound(node, key)]

=============================================================================
