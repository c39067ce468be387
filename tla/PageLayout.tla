----------------------------- MODULE PageLayout -----------------------------
(***************************************************************************)
(* How many records fit a page of a record file and how many pairs fit a   *)
(* node of an index: the arithmetic of RmManager::create_file and          *)
(* IxManager::create_index, and the layout that RmPageHandle and           *)
(* IxNodeHandle give the page.                                             *)
(***************************************************************************)
EXTENDS Integers

PAGE_SIZE == 4096
BITMAP_WIDTH == 8
RM_MAX_RECORD_SIZE == 512
IX_MAX_COL_LEN == 512
OFFSET_PAGE_HDR == 4    \* behind the LSN of the page
SizeofRmFileHdr == 20   \* five ints
SizeofRmPageHdr == 8
SizeofIxPageHdr == 24
SizeofRid == 8

RecordSizes == 1 .. RM_MAX_RECORD_SIZE
ColLengths == 1 .. IX_MAX_COL_LEN

\* The size of the file header is taken off, not that of the page header.
RecordsPerPage(record_size) ==
  (BITMAP_WIDTH * (PAGE_SIZE - 1 - SizeofRmFileHdr) + 1) \div (1 + record_size * BITMAP_WIDTH)

bitmap_size(record_size) ==
  (RecordsPerPage(record_size) + BITMAP_WIDTH - 1) \div BITMAP_WIDTH

\* RmPageHandle::get_slot: the first byte of a slot.
get_slot(record_size, slot_no) ==
  OFFSET_PAGE_HDR + SizeofRmPageHdr + bitmap_size(record_size) + slot_no * record_size

\* One pair is kept in reserve for the insertion before a split.
btree_order_of(col_tot_len) ==
  (PAGE_SIZE - SizeofIxPageHdr) \div (col_tot_len + SizeofRid) - 1

\* IxNodeHandle: the keys, then the rids, btree_order + 1 of each.
get_rid_end(col_tot_len) ==
  SizeofIxPageHdr + (btree_order_of(col_tot_len) + 1) * col_tot_len
                  + (btree_order_of(col_tot_len) + 1) * SizeofRid

\* Every slot that the bitmap of a page has a bit for lies in the page, for every
\* record size that create_file accepts, and there is at least one slot: insert_record
\* never writes behind the frame as long as it finds a free slot.
RecordPageFits ==
  \A size \in RecordSizes :
    /\ RecordsPerPage(size) >= 1
    /\ get_slot(size, RecordsPerPage(size)) <= PAGE_SIZE

\* The keys and the rids of a node that is about to be split lie in the page, for every
\* key length that create_index accepts, and a node has more than two pairs.
IndexNodeFits ==
  \A len \in ColLengths : btree_order_of(len) > 2 /\ get_rid_end(len) <= PAGE_SIZE

=============================================================================
