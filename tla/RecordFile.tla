----------------------------- MODULE RecordFile -----------------------------
(***************************************************************************)
(* The record file of one table (src/src/record/rm_file_handle.cpp) and    *)
(* its unique index, as the executors and the rollback use them: every     *)
(* access to a record first asks the lock manager for a lock on its rid.   *)
(*                                                                         *)
(* The file has one page.  A record is abstracted to its key, and to the   *)
(* transaction that wrote it (history: the bytes do not name their         *)
(* writer).  The bitmap of the page is changed by a plain `|=` or `&=` on  *)
(* a byte that other threads change too: a load and a later store.         *)
(***************************************************************************)
EXTENDS LockManager, IxNode, Integers, FiniteSets, Sequences

CONSTANTS fd,      \* the table's file, the LockDataId of the table
          Keys,    \* the values of the indexed column
          Loaded   \* the table's committed rows at the start, in the order of their keys

ASSUME OneTable == Tables = {fd}
ASSUME SlotsAreNumbers == Records \subseteq Nat
ASSUME KeysAreNumbers == Keys \subseteq Nat
ASSUME LoadedRows ==
  /\ Loaded \in Seq([rid : Records, key : Keys])
  /\ \A i, j \in 1 .. Len(Loaded) :
       i < j => Loaded[i].key < Loaded[j].key /\ Loaded[i].rid # Loaded[j].rid

VARIABLES slots,   \* slots[r]: the record in slot r, stale bytes if r is free
          bitmap,  \* the slots whose bit is set
          byte,    \* byte[t]: the bits t's thread has loaded and not yet stored
          index,   \* the root of the index, a leaf
          root_latch \* is root_latch_ left locked by an operation that has thrown?

ixVars == <<index, root_latch>>
fileVars == <<slots, bitmap, byte, ixVars>>

INVALID_TXN_ID == -1
NoRid == -1
NoKey == 0   \* zero bytes

Row(k, t) == [key |-> k, by |-> t]

\* The index after the loaded rows were inserted.
LoadedIndex ==
  LET positions == 0 .. Cardinality(Keys)
  IN  [keys    |-> [i \in positions |-> IF i < Len(Loaded) THEN Loaded[i + 1].key ELSE NoKey],
       rids    |-> [i \in positions |-> IF i < Len(Loaded) THEN Loaded[i + 1].rid ELSE 0],
       num_key |-> Len(Loaded)]

FileInit ==
  /\ bitmap = {Loaded[i].rid : i \in 1 .. Len(Loaded)}
  /\ slots = [r \in Records |->
                IF \E i \in 1 .. Len(Loaded) : Loaded[i].rid = r
                THEN Row(Loaded[CHOOSE i \in 1 .. Len(Loaded) : Loaded[i].rid = r].key, INVALID_TXN_ID)
                ELSE Row(NoKey, INVALID_TXN_ID)]
  /\ byte = [t \in Txns |-> {}]
  /\ index = LoadedIndex
  /\ root_latch = FALSE

\* Bitmap::next_bit over the page: the first slot of a set after slot r.
HasNext(set, r) == \E q \in set : q > r
next_bit(set, r) == CHOOSE q \in set : q > r /\ \A p \in set : p > r => q <= p

FreeSlots == Records \ bitmap

-----------------------------------------------------------------------------
(* The index: a tree of one leaf, with room for all keys.  Every operation locks  *)
(* root_latch_ and the leaf first, and blocks when they were never unlocked.       *)

is_key_exist(k) == k \in keys_of(index)

insert_entry(node, k, r) == insert(node, k, r)

\* The pair at the lower bound of the key is erased, whatever its key.
delete_entry(node, k) == erase_pair(node, lower_bound(node, k))

\* Without such a pair erase_pair throws, and the leaf and the root stay locked.
delete_entry_throws(node, k) == erase_pair_throws(node, lower_bound(node, k))

\* create_index leaves col_tot_len at 0 in the metadata of the index.
col_tot_len == 0

\* A key is a column of four bytes, the lowest first.
Byte(k, i) == (k \div 256 ^ i) % 256

\* memcmp of len bytes finds two keys equal.
memcmp_equal(j, k, len) == \A i \in 0 .. len - 1 : Byte(j, i) = Byte(k, i)

\* strncmp finds them equal: it stops behind a zero byte that both have.
strncmp_equal(j, k) ==
  \A i \in 0 .. 3 :
    (\A h \in 0 .. i - 1 : Byte(j, h) = Byte(k, h) /\ Byte(j, h) # 0) => Byte(j, i) = Byte(k, i)

-----------------------------------------------------------------------------
(* Records.  The callers ignore what a lock call returns: only the exception *)
(* stops them.                                                               *)

get_record(t, r, res) ==
  /\ lock_shared_on_record(t, r, res)
  /\ UNCHANGED fileVars

\* insert_record from its lock call to the load of the bitmap byte: the slot was
\* chosen before, without a lock.
insert_record_copy(t, r, row, res) ==
  /\ lock_exclusive_on_record(t, r, res)
  /\ IF res = "abort"
     THEN UNCHANGED <<slots, byte>>
     ELSE /\ slots' = [slots EXCEPT ![r] = row]
          /\ byte' = [byte EXCEPT ![t] = bitmap]
  /\ UNCHANGED <<bitmap, ixVars>>

\* Bitmap::set: the store.
insert_record_set(t, r) ==
  /\ bitmap' = byte[t] \cup {r}
  /\ byte' = [byte EXCEPT ![t] = {}]

\* insert_record and delete_record of a transaction that has the table locked
\* S or SIX: no other thread changes the page meanwhile.
insert_record(t, r, row) ==
  /\ \E res \in Results \ {"abort"} : lock_exclusive_on_record(t, r, res)
  /\ slots' = [slots EXCEPT ![r] = row]
  /\ bitmap' = bitmap \cup {r}
  /\ UNCHANGED byte

delete_record(t, r, res) ==
  /\ lock_exclusive_on_record(t, r, res)
  /\ bitmap' = IF res = "abort" THEN bitmap ELSE bitmap \ {r}
  /\ UNCHANGED <<slots, byte, ixVars>>

\* The delete_record of a rollback, next to concurrent inserts: the load and the store.
delete_record_load(t, r) ==
  /\ \E res \in Results \ {"abort"} : lock_exclusive_on_record(t, r, res)
  /\ byte' = [byte EXCEPT ![t] = bitmap]
  /\ UNCHANGED <<slots, bitmap>>

delete_record_reset(t, r) ==
  /\ bitmap' = byte[t] \ {r}
  /\ byte' = [byte EXCEPT ![t] = {}]
  /\ UNCHANGED <<slots, ixVars>>

update_record(t, r, row, res) ==
  /\ lock_exclusive_on_record(t, r, res)
  /\ slots' = IF res = "abort" THEN slots ELSE [slots EXCEPT ![r] = row]
  /\ UNCHANGED <<bitmap, byte>>

=============================================================================
