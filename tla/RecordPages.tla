---------------------------- MODULE RecordPages -----------------------------
(***************************************************************************)
(* A table's record file of several pages (src/src/record): the bitmap and *)
(* the record count of each page, the list of the pages that have room,    *)
(* and the file header that holds its head.  Nothing here is latched: the  *)
(* threads of concurrent transactions run insert_record and the            *)
(* delete_record of a rollback next to each other, and what keeps them     *)
(* apart is only the lock on the record, which an insertion asks for after *)
(* it has chosen its slot.                                                 *)
(*                                                                         *)
(* `x += 1` on a shared variable is a load and a later store.              *)
(***************************************************************************)
EXTENDS Integers, Sequences, FiniteSets, FiniteSetsExt

CONSTANTS Threads,               \* one transaction each at a time
          num_records_per_page,
          MaxPages,              \* bound: pages in the file
          MaxInserts             \* bound: insertions in a behaviour

ASSUME PageHasSlots == num_records_per_page \in Nat \ {0}
ASSUME PagesAreBounded == MaxPages \in Nat /\ MaxInserts \in Nat

VARIABLES page,      \* page[p]: bitmap, num_records and next_free_page_no
          hdr,       \* file_hdr_: num_pages (page 0 included), first_free_page_no
          disk_hdr,  \* the header on disk
          lost,      \* did its last write go to another place of the file?
          pc, rid,   \* what each thread is doing, and where
          load,      \* the value a thread has loaded for its next store
          mode,      \* each transaction's lock on the table
          aborting,  \* is it rolling back?
          writes,    \* its write set: what it has done to which record
          locked,    \* the records it has locked X
          rows,      \* history: the records inserted and not deleted
          inserts,   \* number of INSERT statements
          disturbed  \* history: "overlap": two threads have worked on the file at once;
                     \* "moved": a rollback has put a deleted record into another slot

txnVars == <<mode, aborting, writes, locked, rows, inserts, disturbed>>
vars == <<page, hdr, disk_hdr, lost, pc, rid, load, txnVars>>

RM_NO_PAGE == -1
RM_FIRST_RECORD_PAGE == 1
NoRid == <<0, 0>>

Slots == 0 .. num_records_per_page - 1

\* RmManager::create_file
create_file == [num_pages |-> 1, first_free_page_no |-> RM_NO_PAGE]

Init ==
  /\ page = <<>>
  /\ hdr = create_file
  /\ disk_hdr = create_file
  /\ lost = FALSE
  /\ pc = [t \in Threads |-> "idle"]
  /\ rid = [t \in Threads |-> NoRid]
  /\ load = [t \in Threads |-> 0]
  /\ mode = [t \in Threads |-> "none"]
  /\ aborting = [t \in Threads |-> FALSE]
  /\ writes = [t \in Threads |-> <<>>]
  /\ locked = [t \in Threads |-> {}]
  /\ rows = {}
  /\ inserts = 0
  /\ disturbed = {}

\* Bitmap::next_bit: the first slot after curr whose bit is in the set, or the number of slots.
next_bit(set, curr) ==
  Min({s \in Slots : s > curr /\ s \in set} \cup {num_records_per_page})

FreeSlot(p) == next_bit(Slots \ page[p].bitmap, -1)

Goto(t, label) == pc' = [pc EXCEPT ![t] = label]
Overlap(t) == IF \E u \in Threads \ {t} : pc[u] # "idle" THEN {"overlap"} ELSE {}
Lock(t, r) == locked' = [locked EXCEPT ![t] = @ \cup {r}]
Write(t, kind, r) ==
  writes' = IF aborting[t] THEN writes ELSE [writes EXCEPT ![t] = Append(@, <<kind, r>>)]

\* The lock manager: no table lock that conflicts with IX or SIX.
MayInsert(t) == \A u \in Threads \ {t} : mode[u] # "SIX"
MayDelete(t) == \A u \in Threads \ {t} : mode[u] = "none"

-----------------------------------------------------------------------------
(* insert_record *)

\* create_page_handle takes the first page with room, or creates one; then the first
\* free slot of the page is chosen.
create_page_handle(t) ==
  LET p == hdr.first_free_page_no
  IN  /\ IF p # RM_NO_PAGE
         THEN /\ rid' = [rid EXCEPT ![t] = <<p, FreeSlot(p)>>]
              /\ Goto(t, "lock")
              /\ UNCHANGED <<page, load>>
         ELSE /\ Len(page) < MaxPages
              /\ page' = Append(page, [bitmap |-> {}, num_records |-> 0,
                                       next_free_page_no |-> RM_NO_PAGE])
              /\ rid' = [rid EXCEPT ![t] = <<Len(page) + 1, 0>>]
              /\ load' = [load EXCEPT ![t] = hdr.num_pages]
              /\ Goto(t, "grow")
      /\ UNCHANGED <<hdr, disk_hdr, lost>>

\* Mistake: the page is not counted.
create_new_page_handle_uncounted(t) ==
  /\ pc[t] = "grow"
  /\ hdr' = [num_pages |-> load[t], first_free_page_no |-> rid[t][1]]
  /\ rid' = [rid EXCEPT ![t] = <<@[1], FreeSlot(@[1])>>]
  /\ Goto(t, "grown")
  /\ UNCHANGED <<page, disk_hdr, lost, load, txnVars>>

\* The file header gets the new page; then the slot in it is chosen.
create_new_page_handle(t) ==
  /\ pc[t] = "grow"
  /\ hdr' = [num_pages |-> load[t] + 1, first_free_page_no |-> rid[t][1]]
  /\ rid' = [rid EXCEPT ![t] = <<@[1], FreeSlot(@[1])>>]
  /\ Goto(t, "grown")
  /\ UNCHANGED <<page, disk_hdr, lost, load, txnVars>>

\* write_page of the header, here and after the other changes of it.  Between its lseek and its
\* write any thread's I/O on the file may move the offset: the bytes then go somewhere else.
write_hdr(t) ==
  /\ pc[t] \in {"grown", "filled", "pushed"}
  /\ \/ disk_hdr' = hdr /\ lost' = FALSE
     \/ lost' = TRUE /\ UNCHANGED disk_hdr
  /\ Goto(t, CASE pc[t] = "grown" -> "lock" [] pc[t] = "filled" -> "idle"
               [] pc[t] = "pushed" -> "drop")
  /\ UNCHANGED <<page, hdr, rid, load, txnVars>>

\* A lock that another transaction has on the record refuses the insertion, and the
\* transaction is rolled back.  With the lock the record is copied, its bit is set, and
\* the record count is loaded.
insert_lock(t) ==
  /\ pc[t] = "lock"
  /\ LET p == rid[t][1]
     IN  IF \E u \in Threads \ {t} : rid[t] \in locked[u]
         THEN /\ Goto(t, "idle")
              /\ aborting' = [aborting EXCEPT ![t] = TRUE]
              /\ UNCHANGED <<page, load, writes, locked, rows>>
         ELSE /\ page' = [page EXCEPT ![p].bitmap = @ \cup {rid[t][2]}]
              /\ load' = [load EXCEPT ![t] = page[p].num_records]
              /\ Lock(t, rid[t])
              /\ Write(t, "insert", rid[t])
              /\ rows' = rows \cup {rid[t]}
              /\ Goto(t, "count")
              /\ UNCHANGED aborting
  /\ UNCHANGED <<hdr, disk_hdr, lost, rid, mode, inserts, disturbed>>

\* The record count is stored; a page that is full now leaves the list.
insert_count(t) ==
  /\ pc[t] = "count"
  /\ LET p == rid[t][1]
     IN  /\ page' = [page EXCEPT ![p].num_records = load[t] + 1]
         /\ IF load[t] + 1 = num_records_per_page
            THEN /\ hdr' = [hdr EXCEPT !.first_free_page_no = page[p].next_free_page_no]
                 /\ Goto(t, "filled")
            ELSE /\ Goto(t, "idle")
                 /\ UNCHANGED hdr
  /\ UNCHANGED <<disk_hdr, lost, rid, load, txnVars>>

-----------------------------------------------------------------------------
(* delete_record *)

\* Mistake: the page is compared as if the record were gone already.
release_page_handle_late(t, r) ==
  /\ rid' = [rid EXCEPT ![t] = r]
  /\ IF page[r[1]].num_records = num_records_per_page - 1
     THEN /\ page' = [page EXCEPT ![r[1]].next_free_page_no = hdr.first_free_page_no]
          /\ hdr' = [hdr EXCEPT !.first_free_page_no = r[1]]
          /\ Goto(t, "pushed")
     ELSE /\ Goto(t, "drop")
          /\ UNCHANGED <<page, hdr>>
  /\ UNCHANGED <<disk_hdr, lost, load>>

\* A page that is full goes back to the front of the list: release_page_handle.
release_page_handle(t, r) ==
  /\ rid' = [rid EXCEPT ![t] = r]
  /\ IF page[r[1]].num_records = num_records_per_page
     THEN /\ page' = [page EXCEPT ![r[1]].next_free_page_no = hdr.first_free_page_no]
          /\ hdr' = [hdr EXCEPT !.first_free_page_no = r[1]]
          /\ Goto(t, "pushed")
     ELSE /\ Goto(t, "drop")
          /\ UNCHANGED <<page, hdr>>
  /\ UNCHANGED <<disk_hdr, lost, load>>

\* num_records -= 1, and the bit is reset.
delete_drop(t) ==
  /\ pc[t] = "drop"
  /\ LET p == rid[t][1]
     IN  page' = [page EXCEPT ![p].num_records = @ - 1, ![p].bitmap = @ \ {rid[t][2]}]
  /\ rows' = rows \ {rid[t]}
  /\ Goto(t, "idle")
  /\ UNCHANGED <<hdr, disk_hdr, lost, rid, load, mode, aborting, writes, locked, inserts, disturbed>>

-----------------------------------------------------------------------------
(* The callers: the executors, which have the table locked, and the rollback. *)

Insert(t) ==
  /\ pc[t] = "idle" /\ ~aborting[t]
  /\ inserts < MaxInserts /\ inserts' = inserts + 1
  /\ MayInsert(t)
  /\ mode' = [mode EXCEPT ![t] = IF @ = "none" THEN "IX" ELSE @]
  /\ disturbed' = disturbed \cup Overlap(t)
  /\ create_page_handle(t)
  /\ UNCHANGED <<aborting, writes, locked, rows>>

Delete(t, r) ==
  /\ pc[t] = "idle" /\ ~aborting[t]
  /\ r \in rows
  /\ MayDelete(t)
  /\ mode' = [mode EXCEPT ![t] = "SIX"]
  /\ Lock(t, r)
  /\ Write(t, "delete", r)
  /\ disturbed' = disturbed \cup Overlap(t)
  /\ release_page_handle(t, r)
  /\ UNCHANGED <<aborting, rows, inserts>>

Abort(t) ==
  /\ pc[t] = "idle" /\ mode[t] # "none" /\ ~aborting[t]
  /\ aborting' = [aborting EXCEPT ![t] = TRUE]
  /\ UNCHANGED <<page, hdr, disk_hdr, lost, pc, rid, load, mode, writes, locked, rows, inserts,
                 disturbed>>

\* The last write is undone: a record inserted is deleted, one deleted is inserted
\* again, in whatever slot comes first.
Undo(t) ==
  /\ pc[t] = "idle" /\ aborting[t] /\ writes[t] # <<>>
  /\ writes' = [writes EXCEPT ![t] = SubSeq(@, 1, Len(@) - 1)]
  /\ LET last == writes[t][Len(writes[t])]
     IN  IF last[1] = "insert"
         THEN /\ release_page_handle(t, last[2])
              /\ disturbed' = disturbed \cup Overlap(t)
         ELSE /\ create_page_handle(t)
              /\ disturbed' = disturbed \cup Overlap(t)
                              \cup (IF rid'[t] # last[2] THEN {"moved"} ELSE {})
  /\ UNCHANGED <<mode, aborting, locked, rows, inserts>>

\* COMMIT, or the end of the rollback.
Finish(t) ==
  /\ pc[t] = "idle" /\ mode[t] # "none"
  /\ aborting[t] => writes[t] = <<>>
  /\ mode' = [mode EXCEPT ![t] = "none"]
  /\ aborting' = [aborting EXCEPT ![t] = FALSE]
  /\ writes' = [writes EXCEPT ![t] = <<>>]
  /\ locked' = [locked EXCEPT ![t] = {}]
  /\ rid' = [rid EXCEPT ![t] = NoRid]
  /\ load' = [load EXCEPT ![t] = 0]
  /\ UNCHANGED <<page, hdr, disk_hdr, lost, pc, rows, inserts, disturbed>>

Next ==
  \E t \in Threads :
    \/ Insert(t) \/ Abort(t) \/ Undo(t) \/ Finish(t)
    \/ \E r \in rows : Delete(t, r)
    \/ create_new_page_handle(t) \/ write_hdr(t) \/ insert_lock(t) \/ insert_count(t)
    \/ delete_drop(t)

Spec == Init /\ [][Next]_vars

-----------------------------------------------------------------------------
(* RmScan: page by page, from one set bit to the next. *)

ScanStart == <<RM_FIRST_RECORD_PAGE, -1>>
ScanEnd == <<RM_NO_PAGE, -1>>

\* RmScan::next: the first page, from the one it is on, with a bit set behind its slot.
scan_next(r) ==
  LET slot(p) == next_bit(page[p].bitmap, IF p = r[1] THEN r[2] ELSE -1)
      found == {p \in r[1] .. hdr.num_pages - 1 : slot(p) < num_records_per_page}
  IN  IF found = {} THEN ScanEnd ELSE <<Min(found), slot(Min(found))>>

\* The pages on the list of pages with room: the least set that has its head and, with
\* a page, the one after it.
free_list ==
  LET closed(S) ==
        /\ hdr.first_free_page_no \in S \cup {RM_NO_PAGE}
        /\ \A p \in S : page[p].next_free_page_no \in S \cup {RM_NO_PAGE}
  IN  {p \in DOMAIN page : \A S \in SUBSET DOMAIN page : closed(S) => p \in S}

-----------------------------------------------------------------------------
(* Properties. *)

Quiet == \A t \in Threads : pc[t] = "idle"

\* Type invariant: the list of free pages names pages of the file.
TypeOK ==
  /\ hdr.first_free_page_no \in 1 .. Len(page) \cup {RM_NO_PAGE}
  /\ hdr.num_pages \in 1 .. MaxPages + 1
  /\ \A p \in DOMAIN page :
       /\ page[p].bitmap \subseteq 0 .. num_records_per_page
       /\ page[p].next_free_page_no \in 1 .. Len(page) \cup {RM_NO_PAGE}
  /\ \A t \in Threads :
       /\ pc[t] \in {"idle", "grow", "grown", "lock", "count", "filled", "pushed", "drop"}
       /\ mode[t] \in {"none", "IX", "SIX"}

\* While the operations of concurrent transactions on the file do not overlap in time
\* and no rollback has moved a record, whatever they insert, delete and roll back: the
\* list has exactly the pages with room and each page counts its records.  The state has
\* its type even when they do overlap, and the header on disk is then still the one in
\* memory, unless its last write went to another place.
FreeListIsExact ==
  /\ TypeOK
  /\ Quiet => disk_hdr = hdr \/ lost
  /\ Quiet /\ disturbed = {} =>
       /\ free_list = {p \in DOMAIN page : page[p].bitmap # Slots}
       /\ \A p \in DOMAIN page : page[p].num_records = Cardinality(page[p].bitmap)

\* The order of a scan.
Behind(r, x) == x[1] < r[1] \/ (x[1] = r[1] /\ x[2] < r[2])

\* While the operations do not overlap and no rollback has moved a record, a scan goes from
\* its start through all records in ascending order and then ends: it returns every record
\* once and no other slot.
ScanVisitsEveryRecord ==
  Quiet /\ disturbed = {} =>
    \A x \in rows \cup {ScanStart} :
      LET rest == {r \in rows : Behind(r, x)}
      IN  IF rest = {} THEN scan_next(x) = ScanEnd
          ELSE /\ scan_next(x) \in rest
               /\ \A r \in rest \ {scan_next(x)} : Behind(r, scan_next(x))

=============================================================================
