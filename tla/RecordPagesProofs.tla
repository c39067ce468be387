------------------------- MODULE RecordPagesProofs --------------------------
(***************************************************************************)
(* What holds of a record file for every number of transactions, of pages  *)
(* and of records per page.                                                *)
(***************************************************************************)
EXTENDS RecordPages, PageLayout, FiniteSetTheorems, WellFoundedInduction, TLAPS

Labels == {"idle", "grow", "grown", "lock", "count", "filled", "pushed", "drop"}
Kinds == {"insert", "delete"}
Bits == 0 .. num_records_per_page
PageNos == 1 .. Len(page)
PageRecords == [bitmap : SUBSET Bits, num_records : Int, next_free_page_no : Int]
Headers == [num_pages : Int, first_free_page_no : Int]
Rids == PageNos \X Bits

\* The file and its pages: what the list names is in the file.
FileTypes ==
  /\ page \in Seq(PageRecords) /\ Len(page) <= MaxPages
  /\ hdr \in Headers /\ disk_hdr \in Headers
  /\ hdr.num_pages \in 1 .. Len(page) + 1
  /\ hdr.first_free_page_no \in PageNos \cup {RM_NO_PAGE}
  /\ \A p \in PageNos : page[p].next_free_page_no \in PageNos \cup {RM_NO_PAGE}

\* Where the threads are: the page of an operation is in the file.
RunTypes ==
  /\ pc \in [Threads -> Labels] /\ load \in [Threads -> Int]
  /\ rid \in [Threads -> Rids \cup {NoRid}]
  /\ \A t \in Threads : /\ pc[t] # "idle" => rid[t] \in Rids
                        /\ pc[t] = "grow" => load[t] \in PageNos

TxnTypes ==
  /\ mode \in [Threads -> {"none", "IX", "SIX"}] /\ aborting \in [Threads -> BOOLEAN]
  /\ writes \in [Threads -> Seq(Kinds \X Rids)]
  /\ locked \in [Threads -> SUBSET Rids]
  /\ rows \in SUBSET Rids

Types == FileTypes /\ RunTypes /\ TxnTypes

\* A header that is not on disk is about to be written, or went to another place.
HeaderSaved ==
  disk_hdr = hdr \/ lost \/ \E t \in Threads : pc[t] \in {"grown", "filled", "pushed"}

\* A record is locked by one transaction, which keeps what it has written locked.
LockInv ==
  /\ \A t \in Threads : mode[t] = "none" =>
       pc[t] = "idle" /\ writes[t] = <<>> /\ locked[t] = {} /\ ~aborting[t]
  /\ \A t, u \in Threads : t # u => locked[t] \cap locked[u] = {}
  /\ \A t \in Threads : \A i \in 1 .. Len(writes[t]) : writes[t][i][2] \in locked[t]

-----------------------------------------------------------------------------
(* While nothing overlaps: the file as it is left by a thread at `label`, with record r *)
(* and loaded value v. *)

Closed(S, head, next) ==
  head \in S \cup {RM_NO_PAGE} /\ \A p \in S : next[p] \in S \cup {RM_NO_PAGE}

\* S is the set of the pages on the list, which has no page twice.
IsList(S, head, next) ==
  /\ S \subseteq DOMAIN next /\ Closed(S, head, next)
  /\ \A T \in SUBSET DOMAIN next : Closed(T, head, next) => S \subseteq T
  /\ \A p \in S : next[p] # head
  /\ \A p, q \in S : p # q /\ next[p] = next[q] => next[p] = RM_NO_PAGE

NextOf(pg) == [p \in 1 .. Len(pg) |-> pg[p].next_free_page_no]

Room(pg) == {p \in 1 .. Len(pg) : pg[p].bitmap # Slots}

\* The pages on the list: a new page is not on it yet, and a page that is filled or that
\* is about to lose a record is.
Listed(pg, label, p) ==
  CASE label = "grow" -> Room(pg) \ {p}
    [] label \in {"count", "pushed", "drop"} -> Room(pg) \cup {p}
    [] OTHER -> Room(pg)

\* The records of a page are counted, but for one that is not yet.
Counted(pg, label, p) ==
  \A q \in 1 .. Len(pg) :
    /\ pg[q].bitmap \subseteq Slots
    /\ Cardinality(pg[q].bitmap) =
         IF label = "count" /\ q = p THEN pg[q].num_records + 1 ELSE pg[q].num_records

RowsOf(pg) == {r \in (1 .. Len(pg)) \X Slots : r[2] \in pg[r[1]].bitmap}

\* What a thread knows of its record.
Placed(pg, h, label, p, s, v) ==
  /\ label = "grow" => /\ p = Len(pg) /\ s = 0 /\ pg[p].bitmap = {} /\ v = Len(pg)
                       /\ pg[p].next_free_page_no = RM_NO_PAGE
                       /\ h.first_free_page_no = RM_NO_PAGE
  /\ label \in {"grown", "lock"} => p = h.first_free_page_no /\ s \in Slots \ pg[p].bitmap
  /\ label = "count" => p = h.first_free_page_no /\ s \in pg[p].bitmap /\ v = pg[p].num_records
  /\ label \in {"pushed", "drop"} => s \in pg[p].bitmap

FileOK(pg, h, rs, label, r, v) ==
  /\ IsList(Listed(pg, label, r[1]), h.first_free_page_no, NextOf(pg))
  /\ Counted(pg, label, r[1])
  /\ rs = RowsOf(pg)
  /\ h.num_pages = IF label = "grow" THEN Len(pg) ELSE Len(pg) + 1
  /\ Placed(pg, h, label, r[1], r[2], v)
  /\ label # "idle" => r[1] \in 1 .. Len(pg)

\* The records there are once the thread is through.
RowsAfter(rs, label, r, undo) ==
  CASE label \in {"pushed", "drop"} -> rs \ {r}
    [] label = "lock" /\ undo -> rs \cup {r}
    [] OTHER -> rs

\* Of two writes of a record that follow each other one is an insertion and one a deletion.
Alternate(ws) ==
  \A i, j \in 1 .. Len(ws) :
    i < j /\ ws[i][2] = ws[j][2] /\ (\A k \in i + 1 .. j - 1 : ws[k][2] # ws[i][2]) => ws[i][1] # ws[j][1]

\* The last write of a record was an insertion if the record is there.
Match(ws, rs) ==
  \A i \in 1 .. Len(ws) :
    (\A k \in i + 1 .. Len(ws) : ws[k][2] # ws[i][2]) => (ws[i][1] = "insert" <=> ws[i][2] \in rs)

Alone(t) == \A u \in Threads \ {t} : pc[u] = "idle"

\* What thread t sees when the others are idle.
Sees(t) ==
  /\ FileOK(page, hdr, rows, pc[t], rid[t], load[t])
  /\ aborting[t] => pc[t] \notin {"grow", "grown"} /\ (pc[t] = "lock" => rid[t] \in locked[t])
  /\ \A u \in Threads :
       Alternate(writes[u]) /\ Match(writes[u], RowsAfter(rows, pc[t], rid[t], aborting[t]))

Undisturbed ==
  disturbed = {} =>
    /\ \A t, u \in Threads : pc[t] # "idle" /\ pc[u] # "idle" => t = u
    /\ \A t \in Threads : Alone(t) => Sees(t)
    /\ Quiet => FileOK(page, hdr, rows, "idle", NoRid, 0)

Inv == Types /\ HeaderSaved /\ LockInv /\ Undisturbed

-----------------------------------------------------------------------------
(* Sets of numbers. *)

\* A set of numbers that is not empty has a least one.
LEMMA LeastNumber ==
  ASSUME NEW S \in SUBSET Nat, S # {}
  PROVE  Min(S) \in S /\ \A p \in S : Min(S) <= p
<1>1. PICK q \in S : \A p \in S : ~(<<p, q>> \in OpToRel(<, Nat))
  BY NatLessThanWellFounded, WFMin, Zenon
<1>2. ASSUME NEW p \in S PROVE q <= p
  <2>1. p \in Nat /\ q \in Nat
    BY Zenon
  <2>2. ~(p < q)
    BY <1>1, <2>1, Zenon DEF OpToRel
  <2> QED
    BY <2>1, <2>2
<1> QED
  BY <1>2, Zenon DEF Min

\* next_bit returns the least slot of the set behind curr, or the number of slots.
LEMMA NextBit ==
  ASSUME NEW set, NEW curr \in Int
  PROVE  /\ next_bit(set, curr) \in Bits
         /\ next_bit(set, curr) < num_records_per_page =>
              next_bit(set, curr) \in Slots /\ next_bit(set, curr) > curr /\ next_bit(set, curr) \in set
         /\ \A s \in Slots : s > curr /\ s \in set => next_bit(set, curr) <= s
<1>1. PICK S : S = {s \in Slots : s > curr /\ s \in set} \cup {num_records_per_page}
  BY Zenon
<1>2. S \in SUBSET Nat /\ S # {} /\ S \subseteq Bits
  BY <1>1, PageHasSlots DEF Slots, Bits
<1>3. next_bit(set, curr) = Min(S)
  BY <1>1, Zenon DEF next_bit
<1>4. Min(S) \in S /\ \A p \in S : Min(S) <= p
  BY <1>2, LeastNumber, Zenon
<1> HIDE <1>3
<1> QED
  BY <1>1, <1>2, <1>3, <1>4, PageHasSlots DEF Slots

\* A bitmap with a bit that is not set has a free slot.
LEMMA FreeBit ==
  ASSUME NEW b \in SUBSET Slots, b # Slots
  PROVE  next_bit(Slots \ b, -1) \in Slots \ b
<1>1. PICK s \in Slots : s \notin b
  BY Zenon
<1>2. s \in Nat /\ s < num_records_per_page
  BY PageHasSlots DEF Slots
<1>3. next_bit(Slots \ b, -1) <= s
  BY <1>1, <1>2, NextBit
<1>4. next_bit(Slots \ b, -1) \in Int
  BY NextBit DEF Bits
<1> QED
  BY <1>2, <1>3, <1>4, NextBit, PageHasSlots

\* The bits set in a bitmap are counted; as many as there are slots are all of them.
LEMMA BitCount ==
  ASSUME NEW b \in SUBSET Slots
  PROVE  /\ IsFiniteSet(b) /\ Cardinality(b) \in Nat
         /\ Cardinality(b) = num_records_per_page <=> b = Slots
<1>1. IsFiniteSet(Slots) /\ Cardinality(Slots) = num_records_per_page
  BY FS_Interval, PageHasSlots DEF Slots
<1>2. IsFiniteSet(b) /\ (Cardinality(Slots) = Cardinality(b) => Slots = b)
  BY <1>1, FS_Subset, Zenon
<1>3. Cardinality(b) \in Nat
  BY <1>2, FS_CardinalityType, Zenon
<1> QED
  BY <1>1, <1>2, <1>3, Zenon

-----------------------------------------------------------------------------
(* Lists of pages. *)

\* A page that is not on the list is put in front.
LEMMA PushList ==
  ASSUME NEW S, NEW head, NEW next, IsList(S, head, next),
         NEW p \in DOMAIN next, p \notin S, p # RM_NO_PAGE,
         NEW next2, next2 = [next EXCEPT ![p] = head]
  PROVE  IsList(S \cup {p}, p, next2)
<1>1. /\ DOMAIN next2 = DOMAIN next /\ next2[p] = head
      /\ \A q \in S : next2[q] = next[q] /\ q \in DOMAIN next
  BY Zenon DEF IsList
<1>2. Closed(S, head, next) /\ \A q \in S : next[q] # head
  BY Zenon DEF IsList
<1>3. Closed(S \cup {p}, p, next2)
  BY <1>1, <1>2, Zenon DEF Closed
<1>4. ASSUME NEW T \in SUBSET DOMAIN next2, Closed(T, p, next2) PROVE S \cup {p} \subseteq T
  <2>1. p \in T /\ head \in T \cup {RM_NO_PAGE}
    BY <1>1, <1>4, Zenon DEF Closed
  <2>2. Closed(T \cap S, head, next)
    BY <1>1, <1>2, <1>4, <2>1, Zenon DEF Closed
  <2>3. T \cap S \in SUBSET DOMAIN next
    BY <1>1, Zenon
  <2>4. S \subseteq T \cap S
    BY <2>2, <2>3, Zenon DEF IsList
  <2> QED
    BY <2>1, <2>4, Zenon
<1>5. \A q \in S \cup {p} : next2[q] # p
  BY <1>1, <1>2, Zenon DEF Closed
<1>6. \A q, r \in S \cup {p} : q # r /\ next2[q] = next2[r] => next2[q] = RM_NO_PAGE
  BY <1>1, <1>2, Zenon DEF IsList
<1> QED
  BY <1>1, <1>3, <1>4, <1>5, <1>6, Zenon DEF IsList

\* The first page is taken off the list.
LEMMA PopList ==
  ASSUME NEW S, NEW p \in S, p # RM_NO_PAGE, NEW next, IsList(S, p, next)
  PROVE  IsList(S \ {p}, next[p], next)
<1>1. Closed(S, p, next) /\ S \subseteq DOMAIN next /\ \A q \in S : next[q] # p
  BY Zenon DEF IsList
<1>2. Closed(S \ {p}, next[p], next)
  BY <1>1, Zenon DEF Closed
<1>3. ASSUME NEW T \in SUBSET DOMAIN next, Closed(T, next[p], next) PROVE S \ {p} \subseteq T
  <2>1. Closed(T \cup {p}, p, next)
    BY <1>3, Zenon DEF Closed
  <2>2. T \cup {p} \in SUBSET DOMAIN next
    BY <1>1, Zenon
  <2>3. S \subseteq T \cup {p}
    BY <2>1, <2>2, Zenon DEF IsList
  <2> QED
    BY <2>3, Zenon
<1>4. ASSUME NEW q \in S \ {p} PROVE next[q] # next[p]
  <2>1. SUFFICES ASSUME next[p] = RM_NO_PAGE PROVE FALSE
    BY Zenon DEF IsList
  <2>2. Closed({p}, p, next)
    BY <2>1, Zenon DEF Closed
  <2>3. {p} \in SUBSET DOMAIN next
    BY <1>1, Zenon
  <2> QED
    BY <2>2, <2>3, Zenon DEF IsList
<1> QED
  BY <1>1, <1>2, <1>3, <1>4, Zenon DEF IsList

\* What the pages that are not on the list name does not matter, nor which there are.
LEMMA SameList ==
  ASSUME NEW S, NEW head, NEW next, IsList(S, head, next),
         NEW next2, S \subseteq DOMAIN next2, \A p \in S : next2[p] = next[p]
  PROVE  IsList(S, head, next2)
<1>1. Closed(S, head, next) /\ S \subseteq DOMAIN next
  BY Zenon DEF IsList
<1>2. Closed(S, head, next2)
  BY <1>1, Zenon DEF Closed
<1>3. ASSUME NEW T \in SUBSET DOMAIN next2, Closed(T, head, next2) PROVE S \subseteq T
  <2>1. Closed(T \cap S, head, next)
    BY <1>1, <1>3, Zenon DEF Closed
  <2>2. T \cap S \in SUBSET DOMAIN next
    BY <1>1, Zenon
  <2> QED
    BY <2>1, <2>2, Zenon DEF IsList
<1> QED
  BY <1>2, <1>3, Zenon DEF IsList

\* A list without a head is empty.
LEMMA EmptyList ==
  ASSUME NEW S, NEW next, IsList(S, RM_NO_PAGE, next)
  PROVE  S = {}
<1>1. Closed({}, RM_NO_PAGE, next)
  BY Zenon DEF Closed
<1> QED
  BY <1>1, Zenon DEF IsList

-----------------------------------------------------------------------------
(* The steps of an operation on the file, without other threads. *)

\* pg2 is pg with another page p.
Replaced(pg, pg2, p, new) ==
  /\ pg2 \in Seq(PageRecords) /\ Len(pg2) = Len(pg)
  /\ pg2[p] = new /\ \A q \in 1 .. Len(pg) : q # p => pg2[q] = pg[q]

\* The pages after one of them has been replaced.
LEMMA PutPage ==
  ASSUME NEW pg \in Seq(PageRecords), NEW p \in 1 .. Len(pg), NEW new \in PageRecords
  PROVE  Replaced(pg, [pg EXCEPT ![p] = new], p, new)
BY DEF Replaced

\* The pages after one has been added.
LEMMA AddPage ==
  ASSUME NEW pg \in Seq(PageRecords), NEW new \in PageRecords,
         NEW pg2, pg2 = Append(pg, new)
  PROVE  /\ pg2 \in Seq(PageRecords) /\ Len(pg2) = Len(pg) + 1
         /\ pg2[Len(pg) + 1] = new /\ \A q \in 1 .. Len(pg) : pg2[q] = pg[q]
OBVIOUS

\* Page numbers are not RM_NO_PAGE.
LEMMA PageNumber ==
  ASSUME NEW n \in Nat, NEW p \in 1 .. n
  PROVE  p # RM_NO_PAGE /\ p \in Nat
BY DEF RM_NO_PAGE

\* What a file is like between operations does not depend on a thread.
LEMMA IdleAnywhere ==
  ASSUME NEW pg, NEW h, NEW rs, NEW r, NEW v, NEW r2, NEW v2, FileOK(pg, h, rs, "idle", r, v)
  PROVE  FileOK(pg, h, rs, "idle", r2, v2)
<1>1. Listed(pg, "idle", r[1]) = Room(pg) /\ Listed(pg, "idle", r2[1]) = Room(pg)
  BY Zenon DEF Listed
<1>2. Counted(pg, "idle", r2[1])
  BY Zenon DEF FileOK, Counted
<1> QED
  BY <1>1, <1>2, Zenon DEF FileOK, Placed

\* create_page_handle takes the first page of the list.
LEMMA TakeHead ==
  ASSUME NEW pg \in Seq(PageRecords), NEW h \in Headers, NEW rs, NEW r, NEW v, NEW v2,
         FileOK(pg, h, rs, "idle", r, v), h.first_free_page_no # RM_NO_PAGE,
         NEW r2, r2 = <<h.first_free_page_no,
                        next_bit(Slots \ pg[h.first_free_page_no].bitmap, -1)>>
  PROVE  FileOK(pg, h, rs, "lock", r2, v2)
<1>1. PICK p : p = h.first_free_page_no
  BY Zenon
<1>2. Listed(pg, "idle", r[1]) = Room(pg) /\ Listed(pg, "lock", r2[1]) = Room(pg)
  BY Zenon DEF Listed
<1>3. p \in Room(pg)
  BY <1>1, <1>2, Zenon DEF FileOK, IsList, Closed
<1>4. p \in 1 .. Len(pg) /\ pg[p].bitmap # Slots
  BY <1>3, Zenon DEF Room
<1>5. pg[p].bitmap \in SUBSET Slots
  BY <1>4, Zenon DEF FileOK, Counted
<1>6. r2[1] = p /\ r2[2] \in Slots \ pg[p].bitmap
  BY <1>1, <1>4, <1>5, FreeBit, Zenon
<1>7. Counted(pg, "lock", r2[1])
  BY Zenon DEF FileOK, Counted
<1>8. Placed(pg, h, "lock", r2[1], r2[2], v2)
  BY <1>1, <1>6, Zenon DEF Placed
<1> QED
  BY <1>1, <1>2, <1>4, <1>6, <1>7, <1>8, Zenon DEF FileOK

\* create_page_handle adds a page when the list is empty.
LEMMA NewPage ==
  ASSUME NEW pg \in Seq(PageRecords), NEW h \in Headers, NEW rs, NEW r, NEW v,
         FileOK(pg, h, rs, "idle", r, v), h.first_free_page_no = RM_NO_PAGE,
         NEW pg2, pg2 = Append(pg, [bitmap |-> {}, num_records |-> 0,
                                    next_free_page_no |-> RM_NO_PAGE])
  PROVE  FileOK(pg2, h, rs, "grow", <<Len(pg) + 1, 0>>, h.num_pages)
<1>1. PICK new : new = [bitmap |-> {}, num_records |-> 0, next_free_page_no |-> RM_NO_PAGE]
  BY Zenon
<1>2. /\ new \in PageRecords /\ new.bitmap = {} /\ new.num_records = 0
      /\ new.next_free_page_no = RM_NO_PAGE
  BY <1>1 DEF PageRecords, RM_NO_PAGE
<1>3. PICK n \in Nat : n = Len(pg)
  OBVIOUS
<1>4. /\ pg2 \in Seq(PageRecords) /\ Len(pg2) = n + 1
      /\ pg2[n + 1] = new /\ \A q \in 1 .. n : pg2[q] = pg[q]
  BY <1>1, <1>2, <1>3, AddPage
<1>5. Listed(pg, "idle", r[1]) = Room(pg) /\ Listed(pg2, "grow", n + 1) = Room(pg2) \ {n + 1}
  BY Zenon DEF Listed
<1>6. Room(pg2) \ {n + 1} = Room(pg)
  BY <1>3, <1>4 DEF Room
<1>7. IsList(Room(pg), h.first_free_page_no, NextOf(pg2))
  <2>1. IsList(Room(pg), h.first_free_page_no, NextOf(pg))
    BY <1>5, Zenon DEF FileOK
  <2>2. Room(pg) \subseteq DOMAIN NextOf(pg2)
    BY <1>3, <1>4 DEF Room, NextOf
  <2>3. \A p \in Room(pg) : NextOf(pg2)[p] = NextOf(pg)[p]
    BY <1>3, <1>4 DEF Room, NextOf
  <2> QED
    BY <2>1, <2>2, <2>3, SameList, Zenon
<1>8. Counted(pg2, "grow", n + 1)
  <2>1. SUFFICES ASSUME NEW q \in 1 .. n + 1
                 PROVE  pg2[q].bitmap \subseteq Slots /\ Cardinality(pg2[q].bitmap) = pg2[q].num_records
    BY <1>4, Zenon DEF Counted
  <2>2. CASE q = n + 1
    BY <1>2, <1>4, <2>2, FS_EmptySet, Zenon
  <2>3. CASE q \in 1 .. n
    BY <1>3, <1>4, <2>3, Zenon DEF FileOK, Counted
  <2> QED
    BY <1>3, <2>2, <2>3
<1>9. rs = RowsOf(pg2)
  <2>1. rs = RowsOf(pg)
    BY Zenon DEF FileOK
  <2>2. \A x \in (1 .. n + 1) \X Slots : x[1] = n + 1 \/ x[1] \in 1 .. n
    OBVIOUS
  <2> QED
    BY <1>2, <1>3, <1>4, <2>1, <2>2 DEF RowsOf
<1>10. h.num_pages = n + 1
  BY <1>3, Zenon DEF FileOK
<1>11. PICK r2 : r2 = <<n + 1, 0>>
  BY Zenon
<1>12. r2[1] = n + 1 /\ r2[2] = 0 /\ n + 1 \in 1 .. Len(pg2)
  BY <1>3, <1>4, <1>11
<1>13. Placed(pg2, h, "grow", n + 1, 0, n + 1)
  BY <1>2, <1>4, Zenon DEF Placed
<1>14. FileOK(pg2, h, rs, "grow", r2, n + 1)
  BY <1>4, <1>5, <1>6, <1>7, <1>8, <1>9, <1>10, <1>12, <1>13, ZenonT(30) DEF FileOK
<1> QED
  BY <1>3, <1>10, <1>11, <1>14, Zenon

\* create_new_page_handle puts the new page into the header and takes its first slot.
LEMMA NewHeader ==
  ASSUME NEW pg \in Seq(PageRecords), NEW h \in Headers, NEW rs, NEW r, NEW v,
         FileOK(pg, h, rs, "grow", r, v)
  PROVE  FileOK(pg, [num_pages |-> v + 1, first_free_page_no |-> r[1]], rs, "grown",
                <<r[1], next_bit(Slots \ pg[r[1]].bitmap, -1)>>, v)
<1> PICK h2 : h2 = [num_pages |-> v + 1, first_free_page_no |-> r[1]]
  BY Zenon
<1> PICK r2 : r2 = <<r[1], next_bit(Slots \ pg[r[1]].bitmap, -1)>>
  BY Zenon
<1>1. PICK p : p = r[1]
  BY Zenon
<1>2. /\ p = Len(pg) /\ p \in 1 .. Len(pg) /\ pg[p].bitmap = {} /\ v = Len(pg)
      /\ pg[p].next_free_page_no = RM_NO_PAGE /\ h.first_free_page_no = RM_NO_PAGE
  BY <1>1, Zenon DEF FileOK, Placed
<1>3. Slots # {} /\ p # RM_NO_PAGE /\ p \in Nat
  <2>1. 0 \in Slots
    BY PageHasSlots DEF Slots
  <2>2. Len(pg) \in Nat
    OBVIOUS
  <2> QED
    BY <1>2, <2>1, <2>2, PageNumber, Zenon
<1>4. p \in Room(pg)
  BY <1>2, <1>3, Zenon DEF Room
<1>5. /\ Listed(pg, "grow", p) = Room(pg) \ {p} /\ (Room(pg) \ {p}) \cup {p} = Room(pg)
      /\ Listed(pg, "grown", p) = Room(pg)
  BY <1>4, Zenon DEF Listed
<1>6. IsList(Room(pg), p, NextOf(pg))
  <2>1. IsList(Room(pg) \ {p}, h.first_free_page_no, NextOf(pg))
    BY <1>1, <1>5, Zenon DEF FileOK
  <2>2. p \in DOMAIN NextOf(pg) /\ NextOf(pg) = [NextOf(pg) EXCEPT ![p] = h.first_free_page_no]
    BY <1>2, Zenon DEF NextOf
  <2>3. PICK next : next = NextOf(pg)
    BY Zenon
  <2>4. IsList((Room(pg) \ {p}) \cup {p}, p, next)
    BY <1>3, <2>1, <2>2, <2>3, PushList, Zenon
  <2> QED
    BY <1>5, <2>3, <2>4, Zenon
<1>7. r2[1] = p /\ r2[2] \in Slots \ pg[p].bitmap
  BY <1>1, <1>2, <1>3, FreeBit, Zenon
<1>8. Counted(pg, "grown", p)
  BY Zenon DEF FileOK, Counted
<1>9. h2.first_free_page_no = p /\ h2.num_pages = Len(pg) + 1
  BY <1>1, <1>2, Zenon
<1>10. Placed(pg, h2, "grown", p, r2[2], v)
  BY <1>7, <1>9, Zenon DEF Placed
<1>11. rs = RowsOf(pg)
  BY Zenon DEF FileOK
<1>12. FileOK(pg, h2, rs, "grown", r2, v)
  BY <1>2, <1>5, <1>6, <1>7, <1>8, <1>9, <1>10, <1>11, Zenon DEF FileOK
<1> QED
  BY <1>12, Zenon

\* Writing the header changes nothing of the file.
LEMMA HeaderWritten ==
  ASSUME NEW pg, NEW h, NEW rs, NEW r, NEW v
  PROVE  /\ FileOK(pg, h, rs, "grown", r, v) => FileOK(pg, h, rs, "lock", r, v)
         /\ FileOK(pg, h, rs, "filled", r, v) => FileOK(pg, h, rs, "idle", r, v)
         /\ FileOK(pg, h, rs, "pushed", r, v) => FileOK(pg, h, rs, "drop", r, v)
         /\ FileOK(pg, h, rs, "lock", r, v) => FileOK(pg, h, rs, "idle", r, v)
<1>1. /\ Listed(pg, "grown", r[1]) = Room(pg) /\ Listed(pg, "lock", r[1]) = Room(pg)
      /\ Listed(pg, "filled", r[1]) = Room(pg) /\ Listed(pg, "idle", r[1]) = Room(pg)
      /\ Listed(pg, "pushed", r[1]) = Room(pg) \cup {r[1]}
      /\ Listed(pg, "drop", r[1]) = Room(pg) \cup {r[1]}
  BY Zenon DEF Listed
<1>2. /\ Counted(pg, "grown", r[1]) => Counted(pg, "lock", r[1])
      /\ Counted(pg, "filled", r[1]) => Counted(pg, "idle", r[1])
      /\ Counted(pg, "lock", r[1]) => Counted(pg, "idle", r[1])
      /\ Counted(pg, "pushed", r[1]) => Counted(pg, "drop", r[1])
  BY Zenon DEF Counted
<1>3. /\ Placed(pg, h, "grown", r[1], r[2], v) => Placed(pg, h, "lock", r[1], r[2], v)
      /\ Placed(pg, h, "idle", r[1], r[2], v)
      /\ Placed(pg, h, "pushed", r[1], r[2], v) => Placed(pg, h, "drop", r[1], r[2], v)
  BY Zenon DEF Placed
<1> QED
  BY <1>1, <1>2, <1>3, Zenon DEF FileOK

\* The records of a file when a bit of it is set or reset.
LEMMA RowsOfReplaced ==
  ASSUME NEW pg, NEW pg2, NEW p \in 1 .. Len(pg), NEW new, Replaced(pg, pg2, p, new),
         NEW s \in Slots
  PROVE  /\ new.bitmap = pg[p].bitmap => RowsOf(pg2) = RowsOf(pg)
         /\ new.bitmap = pg[p].bitmap \cup {s} => RowsOf(pg2) = RowsOf(pg) \cup {<<p, s>>}
         /\ new.bitmap = pg[p].bitmap \ {s} => RowsOf(pg2) = RowsOf(pg) \ {<<p, s>>}
<1>1. /\ Len(pg2) = Len(pg) /\ pg2[p].bitmap = new.bitmap
      /\ \A q \in 1 .. Len(pg) : q # p => pg2[q].bitmap = pg[q].bitmap
  BY Zenon DEF Replaced
<1>2. CASE new.bitmap = pg[p].bitmap
  BY <1>1, <1>2, SMTT(30) DEF RowsOf
<1>3. CASE new.bitmap = pg[p].bitmap \cup {s}
  <2>1. \A x \in (1 .. Len(pg)) \X Slots : x = <<p, s>> <=> (x[1] = p /\ x[2] = s)
    OBVIOUS
  <2>2. <<p, s>> \in (1 .. Len(pg)) \X Slots
    BY Zenon
  <2>3. \A x \in (1 .. Len(pg)) \X Slots :
          x[2] \in pg2[x[1]].bitmap <=> (x[2] \in pg[x[1]].bitmap \/ x = <<p, s>>)
    BY <1>1, <1>3, <2>1
  <2> QED
    BY <1>1, <1>3, <2>2, <2>3, Zenon DEF RowsOf
<1>4. CASE new.bitmap = pg[p].bitmap \ {s}
  <2>1. \A x \in (1 .. Len(pg)) \X Slots : x = <<p, s>> <=> (x[1] = p /\ x[2] = s)
    OBVIOUS
  <2>2. \A x \in (1 .. Len(pg)) \X Slots :
          x[2] \in pg2[x[1]].bitmap <=> (x[2] \in pg[x[1]].bitmap /\ x # <<p, s>>)
    BY <1>1, <1>4, <2>1, Zenon
  <2> QED
    BY <1>1, <1>4, <2>2, ZenonT(30) DEF RowsOf
<1> QED
  BY <1>2, <1>3, <1>4, Zenon

\* The pages with room when a page is replaced.
LEMMA RoomOfReplaced ==
  ASSUME NEW pg, NEW pg2, NEW p \in 1 .. Len(pg), NEW new, Replaced(pg, pg2, p, new)
  PROVE  /\ new.bitmap = Slots => Room(pg2) = Room(pg) \ {p}
         /\ new.bitmap # Slots => Room(pg2) = Room(pg) \cup {p}
         /\ p \in Room(pg) <=> pg[p].bitmap # Slots
<1>1. /\ Len(pg2) = Len(pg) /\ pg2[p] = new
      /\ \A q \in 1 .. Len(pg) : q # p => pg2[q] = pg[q]
  BY Zenon DEF Replaced
<1> QED
  BY <1>1, Zenon DEF Room

\* A page without room, and a file that has room where another has, but for page p.
Full(v) == v.bitmap = Slots
NoRoomAt(pg, pg2, p) == Room(pg2) = Room(pg) \ {p}
SameRoomBut(pg, pg2, p) == Room(pg2) \cup {p} = Room(pg) \cup {p}

\* The page that is replaced has room afterwards.
LEMMA GainsRoom ==
  ASSUME NEW pg, NEW pg2, NEW p \in 1 .. Len(pg), NEW new, Replaced(pg, pg2, p, new), ~Full(new)
  PROVE  Room(pg2) = Room(pg) \cup {p}
<1>1. /\ Len(pg2) = Len(pg) /\ pg2[p] = new /\ new.bitmap # Slots
      /\ \A q \in 1 .. Len(pg) : q # p => pg2[q] = pg[q]
  BY Zenon DEF Replaced, Full
<1> QED
  BY <1>1, Zenon DEF Room

\* The page that is replaced has no room afterwards.
LEMMA LosesRoom ==
  ASSUME NEW pg, NEW pg2, NEW p \in 1 .. Len(pg), NEW new, Replaced(pg, pg2, p, new), Full(new)
  PROVE  NoRoomAt(pg, pg2, p)
<1>1. /\ Len(pg2) = Len(pg) /\ pg2[p] = new /\ new.bitmap = Slots
      /\ \A q \in 1 .. Len(pg) : q # p => pg2[q] = pg[q]
  BY Zenon DEF Replaced, Full
<1> QED
  BY <1>1, Zenon DEF Room, NoRoomAt

\* Only the page that is replaced can gain or lose room.
LEMMA SameRoom ==
  ASSUME NEW pg, NEW pg2, NEW p \in 1 .. Len(pg), NEW new, Replaced(pg, pg2, p, new)
  PROVE  SameRoomBut(pg, pg2, p)
<1>1. Len(pg2) = Len(pg) /\ \A q \in 1 .. Len(pg) : q # p => pg2[q] = pg[q]
  BY Zenon DEF Replaced
<1> QED
  BY <1>1, Zenon DEF Room, SameRoomBut

\* The list goes the same way when the page that is replaced names the same next one.
LEMMA NextOfReplaced ==
  ASSUME NEW pg, NEW pg2, NEW p \in 1 .. Len(pg), NEW new, Replaced(pg, pg2, p, new),
         new.next_free_page_no = pg[p].next_free_page_no
  PROVE  NextOf(pg2) = NextOf(pg)
BY Zenon DEF Replaced, NextOf

\* The records are counted when those of the page that is replaced are.
LEMMA CountOfReplaced ==
  ASSUME NEW pg, NEW pg2, NEW p \in 1 .. Len(pg), NEW new, Replaced(pg, pg2, p, new),
         NEW label, NEW label2, Counted(pg, label, p), new.bitmap \subseteq Slots,
         Cardinality(new.bitmap) = IF label2 = "count" THEN new.num_records + 1 ELSE new.num_records
  PROVE  Counted(pg2, label2, p)
<1>1. /\ Len(pg2) = Len(pg) /\ pg2[p] = new
      /\ \A q \in 1 .. Len(pg) : q # p => pg2[q] = pg[q]
  BY Zenon DEF Replaced
<1> QED
  BY <1>1, Zenon DEF Counted

\* Setting and resetting a bit.
LEMMA OneBit ==
  ASSUME NEW b \in SUBSET Slots, NEW s \in Slots
  PROVE  /\ b \cup {s} \in SUBSET Slots /\ b \ {s} \in SUBSET Slots /\ b \ {s} # Slots
         /\ s \notin b => Cardinality(b \cup {s}) = Cardinality(b) + 1
         /\ s \in b => Cardinality(b \ {s}) = Cardinality(b) - 1
<1>1. IsFiniteSet(b)
  BY BitCount, Zenon
<1>2. s \notin b => Cardinality(b \cup {s}) = Cardinality(b) + 1
  BY <1>1, FS_AddElement, Zenon
<1>3. s \in b => Cardinality(b \ {s}) = Cardinality(b) - 1
  BY <1>1, FS_RemoveElement, Zenon
<1>4. b \cup {s} \in SUBSET Slots /\ b \ {s} \in SUBSET Slots /\ b \ {s} # Slots
  BY Zenon
<1> QED
  BY <1>2, <1>3, <1>4, Zenon

\* insert_record sets the bit of its slot.
LEMMA BitSet ==
  ASSUME NEW pg \in Seq(PageRecords), NEW h, NEW rs, NEW r, NEW p, NEW s, NEW v, NEW pg2, NEW new,
         r = <<p, s>>, FileOK(pg, h, rs, "lock", r, v), Replaced(pg, pg2, p, new),
         new.bitmap = pg[p].bitmap \cup {s}, new.num_records = pg[p].num_records,
         new.next_free_page_no = pg[p].next_free_page_no
  PROVE  FileOK(pg2, h, rs \cup {r}, "count", r, pg[p].num_records) /\ r \notin rs
<1>1. r[1] = p /\ r[2] = s
  BY Zenon
<1>2. p \in 1 .. Len(pg) /\ p = h.first_free_page_no /\ s \in Slots /\ s \notin pg[p].bitmap
  BY <1>1, Zenon DEF FileOK, Placed
<1>3. Len(pg2) = Len(pg) /\ pg2[p] = new
  BY Zenon DEF Replaced
<1>4. Counted(pg, "lock", p) /\ rs = RowsOf(pg) /\ h.num_pages = Len(pg) + 1
  BY <1>1, Zenon DEF FileOK
<1>5. pg[p].bitmap \in SUBSET Slots /\ Cardinality(pg[p].bitmap) = pg[p].num_records
  BY <1>2, <1>4, Zenon DEF Counted
<1>6. Cardinality(new.bitmap) = new.num_records + 1 /\ new.bitmap \subseteq Slots
  BY <1>2, <1>5, OneBit, ZenonT(30)
<1>7. Counted(pg2, "count", p)
  BY <1>2, <1>4, <1>6, CountOfReplaced, Zenon
<1>8. rs \cup {r} = RowsOf(pg2) /\ r \notin rs
  <2>1. RowsOf(pg2) = RowsOf(pg) \cup {<<p, s>>}
    BY <1>2, RowsOfReplaced, SMTT(30)
  <2>2. r \notin RowsOf(pg)
    BY <1>1, <1>2, Zenon DEF RowsOf
  <2> QED
    BY <1>4, <2>1, <2>2, Zenon
<1>9. Placed(pg2, h, "count", p, s, pg[p].num_records)
  BY <1>2, <1>3, Zenon DEF Placed
<1>10. IsList(Listed(pg2, "count", p), h.first_free_page_no, NextOf(pg2))
  <2>1. Listed(pg, "lock", p) = Room(pg) /\ Listed(pg2, "count", p) = Room(pg2) \cup {p}
    BY Zenon DEF Listed
  <2>2. pg[p].bitmap # Slots
    BY <1>2, Zenon
  <2>3. p \in Room(pg) /\ NextOf(pg2) = NextOf(pg)
    BY <1>2, <2>2, RoomOfReplaced, NextOfReplaced, Zenon
  <2>4. Room(pg2) \cup {p} = Room(pg) \cup {p}
    <3>1. SameRoomBut(pg, pg2, p)
      BY <1>2, SameRoom, Zenon
    <3> QED
      BY <3>1, Zenon DEF SameRoomBut
  <2>5. Room(pg2) \cup {p} = Room(pg)
    BY <2>3, <2>4, Zenon
  <2> QED
    BY <1>1, <2>1, <2>3, <2>5, Zenon DEF FileOK
<1> QED
  BY <1>1, <1>2, <1>3, <1>4, <1>7, <1>8, <1>9, <1>10, Zenon DEF FileOK

\* insert_record counts the record; a page that is full leaves the list.
LEMMA RecordCounted ==
  ASSUME NEW pg \in Seq(PageRecords), NEW h, NEW rs, NEW r, NEW p, NEW s, NEW v,
         NEW pg2, NEW new,
         r = <<p, s>>, FileOK(pg, h, rs, "count", r, v), Replaced(pg, pg2, p, new),
         new.bitmap = pg[p].bitmap, new.num_records = v + 1,
         new.next_free_page_no = pg[p].next_free_page_no,
         NEW h2, h2.first_free_page_no = pg[p].next_free_page_no, h2.num_pages = h.num_pages
  PROVE  /\ v + 1 # num_records_per_page => FileOK(pg2, h, rs, "idle", r, v)
         /\ v + 1 = num_records_per_page => FileOK(pg2, h2, rs, "filled", r, v)
<1>1. r[1] = p /\ r[2] = s
  BY Zenon
<1>2. /\ p \in 1 .. Len(pg) /\ p = h.first_free_page_no /\ s \in pg[p].bitmap
      /\ v = pg[p].num_records
  BY <1>1, Zenon DEF FileOK, Placed
<1>3. Len(pg2) = Len(pg) /\ pg2[p] = new
  BY Zenon DEF Replaced
<1>4. Counted(pg, "count", p) /\ rs = RowsOf(pg) /\ h.num_pages = Len(pg) + 1
  BY <1>1, Zenon DEF FileOK
<1>5. pg[p].bitmap \in SUBSET Slots /\ Cardinality(pg[p].bitmap) = v + 1
  BY <1>2, <1>4, Zenon DEF Counted
<1>6. Counted(pg2, "idle", p) /\ Counted(pg2, "filled", p)
  BY <1>2, <1>4, <1>5, CountOfReplaced, Zenon
<1>7. rs = RowsOf(pg2)
  BY <1>2, <1>4, <1>5, RowsOfReplaced
<1>8. Placed(pg2, h, "idle", p, s, v) /\ Placed(pg2, h2, "filled", p, s, v)
  BY Zenon DEF Placed
<1>9. IsList(Room(pg) \cup {p}, p, NextOf(pg))
  <2>1. Listed(pg, "count", p) = Room(pg) \cup {p}
    BY Zenon DEF Listed
  <2> QED
    BY <1>1, <1>2, <2>1, Zenon DEF FileOK
<1>10. NextOf(pg2) = NextOf(pg) /\ NextOf(pg)[p] = pg[p].next_free_page_no
  <2>1. NextOf(pg2) = NextOf(pg)
    BY <1>2, NextOfReplaced, Zenon
  <2> QED
    BY <1>2, <2>1, Zenon DEF NextOf
<1>11. Listed(pg2, "idle", p) = Room(pg2) /\ Listed(pg2, "filled", p) = Room(pg2)
  BY Zenon DEF Listed
<1>12. CASE v + 1 # num_records_per_page
  <2>1. pg[p].bitmap # Slots
    BY <1>5, <1>12, BitCount, Zenon
  <2>2. Room(pg2) = Room(pg) \cup {p}
    <3>1. p \in 1 .. Len(pg) /\ ~Full(new)
      BY <1>2, <2>1, Zenon DEF Full
    <3> QED
      BY <3>1, GainsRoom, Zenon
  <2>3. IsList(Listed(pg2, "idle", p), h.first_free_page_no, NextOf(pg2))
    BY <1>2, <1>9, <1>10, <1>11, <2>2, Zenon
  <2> QED
    BY <1>1, <1>2, <1>3, <1>4, <1>6, <1>7, <1>8, <1>12, <2>3, Zenon DEF FileOK
<1>13. CASE v + 1 = num_records_per_page
  <2>1. pg[p].bitmap = Slots
    BY <1>5, <1>13, BitCount, Zenon
  <2>2. Room(pg2) = Room(pg) \ {p}
    <3>1. p \in 1 .. Len(pg) /\ Full(new)
      BY <1>2, <2>1, Zenon DEF Full
    <3> QED
      BY <3>1, LosesRoom, Zenon DEF NoRoomAt
  <2>3. (Room(pg) \cup {p}) \ {p} = Room(pg2) /\ p \in Room(pg) \cup {p}
    BY <2>2, Zenon
  <2>4. p # RM_NO_PAGE
    BY <1>2 DEF RM_NO_PAGE
  <2>5. IsList((Room(pg) \cup {p}) \ {p}, NextOf(pg)[p], NextOf(pg))
    BY <1>9, <2>3, <2>4, PopList, Zenon
  <2>6. IsList(Listed(pg2, "filled", p), h2.first_free_page_no, NextOf(pg2))
    BY <1>10, <1>11, <2>3, <2>5, Zenon
  <2> QED
    BY <1>1, <1>2, <1>3, <1>4, <1>6, <1>7, <1>8, <1>13, <2>6, Zenon DEF FileOK
<1> QED
  BY <1>12, <1>13, Zenon

\* A record of the file has its bit set, and its page is full when it counts so.
LEMMA RecordThere ==
  ASSUME NEW pg, NEW h, NEW rs, NEW r, NEW p, NEW s, NEW r0, NEW v,
         r = <<p, s>>, FileOK(pg, h, rs, "idle", r0, v), r \in rs
  PROVE  /\ p \in 1 .. Len(pg) /\ s \in Slots /\ s \in pg[p].bitmap /\ pg[p].bitmap \in SUBSET Slots
         /\ Cardinality(pg[p].bitmap) = pg[p].num_records
         /\ pg[p].num_records = num_records_per_page <=> pg[p].bitmap = Slots
<1>1. p \in 1 .. Len(pg) /\ s \in Slots /\ s \in pg[p].bitmap
  BY Zenon DEF FileOK, RowsOf
<1>2. pg[p].bitmap \in SUBSET Slots /\ Cardinality(pg[p].bitmap) = pg[p].num_records
  BY <1>1, Zenon DEF FileOK, Counted
<1> QED
  BY <1>1, <1>2, BitCount, Zenon

\* delete_record finds the page on the list.
LEMMA DropListed ==
  ASSUME NEW pg, NEW h, NEW rs, NEW r, NEW p, NEW s, NEW r0, NEW v, NEW v2,
         r = <<p, s>>, FileOK(pg, h, rs, "idle", r0, v), r \in rs,
         pg[p].num_records # num_records_per_page
  PROVE  FileOK(pg, h, rs, "drop", r, v2)
<1>1. r[1] = p /\ r[2] = s
  BY Zenon
<1>2. p \in 1 .. Len(pg) /\ s \in pg[p].bitmap /\ pg[p].bitmap # Slots
  BY RecordThere
<1>3. Listed(pg, "drop", p) = Room(pg) \cup {p} /\ Listed(pg, "idle", r0[1]) = Room(pg)
  BY Zenon DEF Listed
<1>4. Room(pg) \cup {p} = Room(pg)
  BY <1>2, Zenon DEF Room
<1>5. Counted(pg, "drop", p)
  BY Zenon DEF FileOK, Counted
<1>6. Placed(pg, h, "drop", p, s, v2)
  BY <1>2, Zenon DEF Placed
<1> QED
  BY <1>1, <1>2, <1>3, <1>4, <1>5, <1>6, Zenon DEF FileOK

\* delete_record puts a full page back to the front of the list.
LEMMA DropPushed ==
  ASSUME NEW pg \in Seq(PageRecords), NEW h, NEW rs, NEW r, NEW p, NEW s, NEW r0,
         NEW v, NEW v2, NEW pg2, NEW new,
         r = <<p, s>>, FileOK(pg, h, rs, "idle", r0, v), r \in rs,
         pg[p].num_records = num_records_per_page, Replaced(pg, pg2, p, new),
         new.bitmap = pg[p].bitmap, new.num_records = pg[p].num_records,
         new.next_free_page_no = h.first_free_page_no,
         NEW h2, h2.first_free_page_no = p, h2.num_pages = h.num_pages
  PROVE  FileOK(pg2, h2, rs, "pushed", r, v2)
<1>1. r[1] = p /\ r[2] = s
  BY Zenon
<1>2. /\ p \in 1 .. Len(pg) /\ s \in Slots /\ s \in pg[p].bitmap /\ pg[p].bitmap = Slots
      /\ Cardinality(pg[p].bitmap) = pg[p].num_records
  BY RecordThere
<1>3. Len(pg2) = Len(pg) /\ pg2[p] = new
  BY Zenon DEF Replaced
<1>4. rs = RowsOf(pg) /\ h.num_pages = Len(pg) + 1 /\ Counted(pg, "idle", p)
  BY Zenon DEF FileOK, Counted
<1>5. Counted(pg2, "pushed", p)
  BY <1>2, <1>4, CountOfReplaced, Zenon
<1>6. rs = RowsOf(pg2)
  BY <1>2, <1>4, RowsOfReplaced
<1>7. Placed(pg2, h2, "pushed", p, s, v2)
  BY <1>2, <1>3, Zenon DEF Placed
<1>8. IsList(Listed(pg2, "pushed", p), p, NextOf(pg2))
  <2>1. Listed(pg2, "pushed", p) = Room(pg2) \cup {p} /\ Listed(pg, "idle", r0[1]) = Room(pg)
    BY Zenon DEF Listed
  <2>2. p \notin Room(pg) /\ Room(pg2) = Room(pg) \ {p}
    <3>1. p \in 1 .. Len(pg) /\ Full(new)
      BY <1>2, Zenon DEF Full
    <3>2. NoRoomAt(pg, pg2, p)
      BY <3>1, LosesRoom, Zenon
    <3> QED
      BY <1>2, <3>2, Zenon DEF Room, NoRoomAt
  <2>3. Room(pg2) \cup {p} = Room(pg) \cup {p}
    BY <2>2, Zenon
  <2>4. p \in DOMAIN NextOf(pg) /\ NextOf(pg2) = [NextOf(pg) EXCEPT ![p] = h.first_free_page_no]
    BY <1>2, Zenon DEF NextOf, Replaced
  <2>5. IsList(Room(pg), h.first_free_page_no, NextOf(pg)) /\ p # RM_NO_PAGE
    BY <1>2, <2>1 DEF FileOK, RM_NO_PAGE
  <2>6. IsList(Room(pg) \cup {p}, p, NextOf(pg2))
    BY <2>2, <2>4, <2>5, PushList, Zenon
  <2> QED
    BY <2>1, <2>3, <2>6, Zenon
<1> QED
  BY <1>1, <1>2, <1>3, <1>4, <1>5, <1>6, <1>7, <1>8, Zenon DEF FileOK

\* delete_record counts the record off and resets its bit.
LEMMA BitReset ==
  ASSUME NEW pg \in Seq(PageRecords), NEW h, NEW rs, NEW r, NEW p, NEW s, NEW v, NEW pg2, NEW new,
         r = <<p, s>>, FileOK(pg, h, rs, "drop", r, v), Replaced(pg, pg2, p, new),
         new.bitmap = pg[p].bitmap \ {s}, new.num_records = pg[p].num_records - 1,
         new.next_free_page_no = pg[p].next_free_page_no
  PROVE  FileOK(pg2, h, rs \ {r}, "idle", r, v)
<1>1. r[1] = p /\ r[2] = s
  BY Zenon
<1>2. p \in 1 .. Len(pg) /\ s \in pg[p].bitmap
  BY <1>1, Zenon DEF FileOK, Placed
<1>3. Len(pg2) = Len(pg) /\ pg2[p] = new
  BY Zenon DEF Replaced
<1>4. Counted(pg, "drop", p) /\ rs = RowsOf(pg) /\ h.num_pages = Len(pg) + 1
  BY <1>1, Zenon DEF FileOK
<1>5. pg[p].bitmap \in SUBSET Slots /\ Cardinality(pg[p].bitmap) = pg[p].num_records
  BY <1>2, <1>4, Zenon DEF Counted
<1>6. Cardinality(new.bitmap) = new.num_records /\ new.bitmap \subseteq Slots /\ new.bitmap # Slots
  BY <1>2, <1>5, OneBit, Zenon
<1>7. Counted(pg2, "idle", p)
  BY <1>2, <1>4, <1>6, CountOfReplaced, Zenon
<1>8. rs \ {r} = RowsOf(pg2)
  BY <1>2, <1>4, <1>5, RowsOfReplaced, SMTT(30)
<1>9. Placed(pg2, h, "idle", p, s, v)
  BY Zenon DEF Placed
<1>10. IsList(Listed(pg2, "idle", p), h.first_free_page_no, NextOf(pg2))
  <2>1. Listed(pg, "drop", p) = Room(pg) \cup {p} /\ Listed(pg2, "idle", p) = Room(pg2)
    BY Zenon DEF Listed
  <2>2. NextOf(pg2) = NextOf(pg)
    BY <1>2, NextOfReplaced, Zenon
  <2>3. Room(pg2) = Room(pg) \cup {p}
    <3>1. p \in 1 .. Len(pg) /\ ~Full(new)
      BY <1>2, <1>6, Zenon DEF Full
    <3> QED
      BY <3>1, GainsRoom, Zenon
  <2> QED
    BY <1>1, <2>1, <2>2, <2>3, Zenon DEF FileOK
<1> QED
  BY <1>1, <1>2, <1>3, <1>4, <1>7, <1>8, <1>9, <1>10, Zenon DEF FileOK

-----------------------------------------------------------------------------
(* Write sets. *)

SameBut(rs, rs2, r) == \A x : x # r => (x \in rs2 <=> x \in rs)

\* A transaction writes a record: one that is not there is inserted, or one that is
\* there is deleted.
LEMMA AppendWrite ==
  ASSUME NEW X, NEW ws \in Seq(Kinds \X X), NEW k \in Kinds, NEW r \in X, NEW rs, NEW rs2,
         Alternate(ws), Match(ws, rs), k = "insert" <=> r \notin rs,
         r \in rs2 <=> k = "insert", SameBut(rs, rs2, r)
  PROVE  Alternate(Append(ws, <<k, r>>)) /\ Match(Append(ws, <<k, r>>), rs2)
<1>1. PICK n \in Nat : n = Len(ws)
  OBVIOUS
<1>2. PICK w2 : w2 = Append(ws, <<k, r>>)
  BY Zenon
<1>3. /\ Len(w2) = n + 1 /\ \A i \in 1 .. n : w2[i] = ws[i]
      /\ w2[n + 1][1] = k /\ w2[n + 1][2] = r
  BY <1>1, <1>2
<1>4. \A i \in 1 .. n : ws[i][1] \in Kinds
  BY <1>1, SMTT(30)
<1>5. Alternate(w2)
  <2>1. SUFFICES ASSUME NEW i \in 1 .. n + 1, NEW j \in 1 .. n + 1, i < j, w2[i][2] = w2[j][2],
                        \A m \in i + 1 .. j - 1 : w2[m][2] # w2[i][2]
                 PROVE  w2[i][1] # w2[j][1]
    BY <1>3, ZenonT(30) DEF Alternate
  <2>2. i \in 1 .. n /\ i \in Nat /\ j \in Nat
    BY <1>1, <2>1
  <2>3. CASE j \in 1 .. n
    <3>1. \A m \in i + 1 .. j - 1 : m \in 1 .. n
      BY <1>1, <2>2, <2>3
    <3>2. ws[i][2] = ws[j][2] /\ \A m \in i + 1 .. j - 1 : ws[m][2] # ws[i][2]
      BY <1>3, <2>1, <2>2, <2>3, <3>1, Zenon
    <3>3. ws[i][1] # ws[j][1]
      BY <1>1, <2>1, <2>2, <2>3, <3>2, Zenon DEF Alternate
    <3> QED
      BY <1>3, <2>2, <2>3, <3>3, Zenon
  <2>4. CASE j = n + 1
    <3>1. \A m \in i + 1 .. n : m \in 1 .. n /\ m \in i + 1 .. j - 1
      BY <1>1, <2>2, <2>4
    <3>2. ws[i][2] = r /\ \A m \in i + 1 .. n : ws[m][2] # ws[i][2]
      BY <1>3, <2>1, <2>2, <2>4, <3>1, Zenon
    <3>3. ws[i][1] = "insert" <=> r \in rs
      BY <1>1, <2>2, <3>2, Zenon DEF Match
    <3> QED
      BY <1>3, <1>4, <2>2, <2>4, <3>3, Zenon DEF Kinds
  <2> QED
    BY <1>1, <2>3, <2>4
<1>6. Match(w2, rs2)
  <2>1. SUFFICES ASSUME NEW i \in 1 .. n + 1, \A m \in i + 1 .. n + 1 : w2[m][2] # w2[i][2]
                 PROVE  w2[i][1] = "insert" <=> w2[i][2] \in rs2
    BY <1>3, Zenon DEF Match
  <2>2. CASE i \in 1 .. n
    <3>1. n + 1 \in i + 1 .. n + 1 /\ \A m \in i + 1 .. n : m \in 1 .. n /\ m \in i + 1 .. n + 1
      BY <1>1, <2>2
    <3>2. ws[i][2] # r /\ \A m \in i + 1 .. n : ws[m][2] # ws[i][2]
      BY <1>3, <2>1, <2>2, <3>1, Zenon
    <3> QED
      BY <1>1, <1>3, <2>2, <3>2, SMTT(30) DEF Match, SameBut
  <2>3. CASE i = n + 1
    BY <1>3, <2>3, Zenon
  <2> QED
    BY <1>1, <2>2, <2>3
<1> QED
  BY <1>2, <1>5, <1>6, Zenon

\* w2 is the write set ws without its last write.
Popped(ws, w2, n, k, r) ==
  /\ n \in Nat /\ Len(ws) = n + 1 /\ Len(w2) = n
  /\ \A i \in 1 .. n : w2[i] = ws[i]
  /\ \A i \in 1 .. n + 1 : ws[i][1] \in Kinds
  /\ k = ws[n + 1][1] /\ r = ws[n + 1][2]

\* A rollback takes the last write off: the record is there again if it was deleted, and
\* not if it was inserted.
LEMMA PopWrite ==
  ASSUME NEW ws, NEW w2, NEW n, NEW k, NEW r, NEW rs, NEW rs2, Popped(ws, w2, n, k, r),
         Alternate(ws), Match(ws, rs), r \in rs2 <=> k = "delete", SameBut(rs, rs2, r)
  PROVE  Alternate(w2) /\ Match(w2, rs2) /\ (k = "insert" <=> r \in rs)
<1>1. n \in Nat /\ Len(ws) = n + 1 /\ k = ws[n + 1][1] /\ r = ws[n + 1][2]
  BY Zenon DEF Popped
<1>2. Len(w2) = n /\ \A i \in 1 .. n : w2[i] = ws[i]
  BY Zenon DEF Popped
<1>3. \A i \in 1 .. n + 1 : ws[i][1] \in Kinds
  BY Zenon DEF Popped
<1>4. Alternate(w2)
  <2>1. SUFFICES ASSUME NEW i \in 1 .. n, NEW j \in 1 .. n, i < j, w2[i][2] = w2[j][2],
                        \A m \in i + 1 .. j - 1 : w2[m][2] # w2[i][2]
                 PROVE  w2[i][1] # w2[j][1]
    BY <1>2, ZenonT(30) DEF Alternate
  <2>2. /\ i \in 1 .. n + 1 /\ j \in 1 .. n + 1
        /\ \A m \in i + 1 .. j - 1 : m \in 1 .. n
    BY <1>1
  <2> QED
    BY <1>1, <1>2, <2>1, <2>2, SMTT(30) DEF Alternate
<1>5. Match(w2, rs2)
  <2>1. SUFFICES ASSUME NEW i \in 1 .. n, \A m \in i + 1 .. n : w2[m][2] # w2[i][2]
                 PROVE  w2[i][1] = "insert" <=> w2[i][2] \in rs2
    BY <1>2, Zenon DEF Match
  <2>2. \A m \in i + 1 .. n : ws[m][2] # ws[i][2]
    <3>1. \A m \in i + 1 .. n : m \in 1 .. n
      BY <1>1, SMTT(30)
    <3> QED
      BY <1>2, <2>1, <3>1, Zenon
  <2>3. CASE ws[i][2] = r
    <3>1. ws[i][1] # k
      <4>1. i \in 1 .. n + 1 /\ n + 1 \in 1 .. n + 1 /\ i < n + 1 /\ (n + 1) - 1 = n
        BY <1>1
      <4> QED
        BY <1>1, <2>2, <2>3, <4>1, Zenon DEF Alternate
    <3> QED
      BY <1>1, <1>2, <1>3, <2>3, <3>1, SMTT(30) DEF Kinds
  <2>4. CASE ws[i][2] # r
    <3>1. i \in 1 .. n + 1 /\ \A m \in i + 1 .. n + 1 : m \in i + 1 .. n \/ m = n + 1
      BY <1>1
    <3>2. \A m \in i + 1 .. n + 1 : ws[m][2] # ws[i][2]
      BY <1>1, <2>2, <2>4, <3>1, Zenon
    <3>3. ws[i][1] = "insert" <=> ws[i][2] \in rs
      BY <1>1, <3>1, <3>2, Zenon DEF Match
    <3> QED
      BY <1>2, <2>4, <3>3, Zenon DEF SameBut
  <2> QED
    BY <2>3, <2>4, Zenon
<1>6. k = "insert" <=> r \in rs
  <2>1. n + 1 \in 1 .. n + 1 /\ \A m \in (n + 1) + 1 .. n + 1 : FALSE
    BY <1>1
  <2> QED
    BY <1>1, <2>1, Zenon DEF Match
<1> QED
  BY <1>4, <1>5, <1>6, Zenon

\* A transaction that has not written a record does not notice that it comes or goes.
LEMMA OtherWrites ==
  ASSUME NEW ws, NEW r, NEW rs, NEW rs2, Match(ws, rs),
         \A i \in 1 .. Len(ws) : ws[i][2] # r, SameBut(rs, rs2, r)
  PROVE  Match(ws, rs2)
BY Zenon DEF Match, SameBut

-----------------------------------------------------------------------------
(* Types. *)

\* What may be a record stays one when the file grows.
LEMMA RidsGrow ==
  ASSUME Len(page) \in Nat, Len(page)' \in Nat, Len(page)' >= Len(page)
  PROVE  Rids \subseteq Rids' /\ PageNos \subseteq PageNos'
<1>1. PageNos \subseteq PageNos'
  BY DEF PageNos
<1> QED
  BY <1>1, Zenon DEF Rids, Bits

\* A record has a page number and a slot.
LEMMA RidParts ==
  ASSUME NEW r \in Rids
  PROVE  r[1] \in PageNos /\ r[2] \in Bits /\ r = <<r[1], r[2]>>
BY DEF Rids

\* Write sets keep their type when the file grows.
LEMMA WritesGrow ==
  ASSUME NEW A, NEW B, A \subseteq B, NEW f \in [Threads -> Seq(Kinds \X A)]
  PROVE  f \in [Threads -> Seq(Kinds \X B)]
<1>1. ASSUME NEW s \in Seq(Kinds \X A) PROVE s \in Seq(Kinds \X B)
  <2>1. Kinds \X A \subseteq Kinds \X B
    BY Zenon
  <2>2. PICK C : C = Kinds \X B
    BY Zenon
  <2>3. PICK D : D = Kinds \X A
    BY Zenon
  <2>4. s \in Seq(D) /\ D \subseteq C
    BY <2>1, <2>2, <2>3, Zenon
  <2>5. s \in Seq(C)
    BY <2>4
  <2> QED
    BY <2>2, <2>5, Zenon
<1> QED
  BY <1>1, Zenon

\* The transactions' variables keep their types when only the file grows.
LEMMA TxnTypesGrow ==
  ASSUME TxnTypes, Rids \subseteq Rids', UNCHANGED <<mode, aborting, writes, locked, rows>>
  PROVE  TxnTypes'
<1>1. writes \in [Threads -> Seq(Kinds \X Rids')]
  BY WritesGrow, Zenon DEF TxnTypes
<1> QED
  BY <1>1, Zenon DEF TxnTypes

\* A page that is replaced by another leaves the file a file.
LEMMA PutPageTypes ==
  ASSUME FileTypes, NEW p \in PageNos, NEW new \in PageRecords, page' = [page EXCEPT ![p] = new],
         new.next_free_page_no \in PageNos \cup {RM_NO_PAGE},
         hdr' \in Headers, disk_hdr' \in Headers, hdr'.num_pages \in 1 .. Len(page) + 1,
         hdr'.first_free_page_no \in PageNos \cup {RM_NO_PAGE}
  PROVE  FileTypes' /\ Rids' = Rids /\ PageNos' = PageNos /\ Replaced(page, page', p, new)
<1>1. page \in Seq(PageRecords) /\ p \in 1 .. Len(page)
  BY Zenon DEF FileTypes, PageNos
<1>2. Replaced(page, page', p, new)
  BY <1>1, PutPage, Zenon
<1>3. /\ page' \in Seq(PageRecords) /\ Len(page)' = Len(page) /\ page'[p] = new
      /\ \A q \in 1 .. Len(page) : q # p => page'[q] = page[q]
  BY <1>2, Zenon DEF Replaced
<1>4. PageNos' = PageNos /\ Rids' = Rids
  BY <1>3, Zenon DEF PageNos, Rids, Bits
<1>5. PageRecords' = PageRecords /\ Headers' = Headers
  BY Zenon DEF PageRecords, Headers, Bits
<1>6. \A q \in PageNos : page'[q].next_free_page_no \in PageNos \cup {RM_NO_PAGE}
  BY <1>3, Zenon DEF FileTypes, PageNos
<1> QED
  BY <1>2, <1>3, <1>4, <1>5, <1>6, Zenon DEF FileTypes

\* A file whose pages do not change keeps its type with its header.
LEMMA SamePagesTypes ==
  ASSUME FileTypes, page' = page, hdr' \in Headers, disk_hdr' \in Headers,
         hdr'.num_pages \in 1 .. Len(page) + 1,
         hdr'.first_free_page_no \in PageNos \cup {RM_NO_PAGE}
  PROVE  FileTypes' /\ Rids' = Rids /\ PageNos' = PageNos
<1>1. PageNos' = PageNos /\ Rids' = Rids
  BY Zenon DEF PageNos, Rids, Bits
<1> QED
  BY <1>1, Zenon DEF FileTypes, PageRecords, Headers, Bits

\* One thread moves on.
LEMMA MoveTypes ==
  ASSUME RunTypes, NEW t \in Threads, NEW l \in Labels, NEW r \in Rids' \cup {NoRid}, NEW v \in Int,
         Rids \subseteq Rids', PageNos \subseteq PageNos',
         pc' = [pc EXCEPT ![t] = l], rid' = [rid EXCEPT ![t] = r], load' = [load EXCEPT ![t] = v],
         l # "idle" => r \in Rids', l = "grow" => v \in PageNos'
  PROVE  RunTypes'
<1>1. pc' \in [Threads -> Labels] /\ load' \in [Threads -> Int]
  BY Zenon DEF RunTypes
<1>2. rid' \in [Threads -> Rids' \cup {NoRid}]
  BY Zenon DEF RunTypes
<1>3. ASSUME NEW u \in Threads
      PROVE  (pc'[u] # "idle" => rid'[u] \in Rids') /\ (pc'[u] = "grow" => load'[u] \in PageNos')
  BY Zenon DEF RunTypes
<1>4. Labels' = Labels
  BY Zenon DEF Labels
<1> QED
  BY <1>1, <1>2, <1>3, <1>4, Zenon DEF RunTypes

\* A variable that does not change, as one that a thread changes to what it was.
LEMMA Unmoved ==
  ASSUME RunTypes, NEW t \in Threads
  PROVE  /\ rid = [rid EXCEPT ![t] = rid[t]] /\ load = [load EXCEPT ![t] = load[t]]
         /\ rid[t] \in Rids \cup {NoRid} /\ load[t] \in Int /\ pc[t] \in Labels
BY Zenon DEF RunTypes

\* create_page_handle keeps the types.
LEMMA CreateTypes ==
  ASSUME FileTypes, RunTypes, NEW t \in Threads, create_page_handle(t)
  PROVE  FileTypes' /\ RunTypes' /\ Rids \subseteq Rids'
<1>1. CASE hdr.first_free_page_no # RM_NO_PAGE
  <2>1. PICK p : p = hdr.first_free_page_no
    BY Zenon
  <2>2. /\ rid' = [rid EXCEPT ![t] = <<p, FreeSlot(p)>>] /\ pc' = [pc EXCEPT ![t] = "lock"]
        /\ UNCHANGED <<page, load, hdr, disk_hdr>>
    BY <1>1, <2>1, Zenon DEF create_page_handle, Goto
  <2>3. FileTypes' /\ Rids' = Rids /\ PageNos' = PageNos
    BY <2>2, SamePagesTypes, Zenon DEF FileTypes
  <2>4. p \in PageNos /\ FreeSlot(p) \in Bits
    BY <1>1, <2>1, NextBit DEF FileTypes, FreeSlot
  <2>5. <<p, FreeSlot(p)>> \in Rids
    BY <2>4, Zenon DEF Rids
  <2>6. RunTypes'
    BY <2>2, <2>3, <2>5, Unmoved, MoveTypes, ZenonT(30) DEF Labels
  <2> QED
    BY <2>3, <2>6, Zenon
<1>2. CASE hdr.first_free_page_no = RM_NO_PAGE
  <2>1. PICK n \in Nat : n = Len(page)
    BY DEF FileTypes
  <2>2. PICK new : new = [bitmap |-> {}, num_records |-> 0, next_free_page_no |-> RM_NO_PAGE]
    BY Zenon
  <2>3. /\ n < MaxPages /\ page' = Append(page, new) /\ rid' = [rid EXCEPT ![t] = <<n + 1, 0>>]
        /\ load' = [load EXCEPT ![t] = hdr.num_pages] /\ pc' = [pc EXCEPT ![t] = "grow"]
        /\ UNCHANGED <<hdr, disk_hdr>>
    BY <1>2, <2>1, <2>2, Zenon DEF create_page_handle, Goto
  <2>4. new \in PageRecords /\ new.next_free_page_no = RM_NO_PAGE
    BY <2>2 DEF PageRecords, RM_NO_PAGE
  <2>5. /\ page' \in Seq(PageRecords) /\ Len(page)' = n + 1
        /\ page'[n + 1] = new /\ \A q \in 1 .. n : page'[q] = page[q]
    BY <2>1, <2>3, <2>4, AddPage DEF FileTypes
  <2>6. PageNos' = 1 .. n + 1 /\ PageNos = 1 .. n
    BY <2>1, <2>5, Zenon DEF PageNos
  <2>7. Rids \subseteq Rids' /\ PageNos \subseteq PageNos'
    BY <2>1, <2>5, RidsGrow
  <2>8. \A q \in 1 .. n + 1 : page'[q].next_free_page_no \in PageNos' \cup {RM_NO_PAGE}
    <3>1. \A q \in 1 .. n : page'[q].next_free_page_no \in PageNos \cup {RM_NO_PAGE}
      BY <2>5, <2>6, Zenon DEF FileTypes
    <3>2. \A q \in 1 .. n + 1 : q = n + 1 \/ q \in 1 .. n
      BY <2>1
    <3> QED
      BY <2>4, <2>5, <2>7, <3>1, <3>2, Zenon
  <2>9. n + 1 <= MaxPages
    BY <2>1, <2>3, PagesAreBounded
  <2>10. hdr.num_pages \in 1 .. n + 1 /\ hdr.num_pages \in 1 .. (n + 1) + 1
    BY <2>1 DEF FileTypes
  <2>11. FileTypes'
    BY <1>2, <2>3, <2>5, <2>6, <2>8, <2>9, <2>10, Zenon DEF FileTypes, PageRecords, Headers, Bits
  <2>12. <<n + 1, 0>> \in Rids'
    BY <2>1, <2>6, PageHasSlots, SMTT(30) DEF Rids, Bits
  <2>13. RunTypes'
    <3>1. hdr.num_pages \in Int /\ hdr.num_pages \in PageNos' /\ "grow" \in Labels
      BY <2>1, <2>6, <2>10, SMTT(30) DEF Labels
    <3> QED
      BY <2>3, <2>7, <2>12, <3>1, MoveTypes, Zenon
  <2> QED
    BY <2>7, <2>11, <2>13, Zenon
<1> QED
  BY <1>1, <1>2, Zenon

\* The fields of a page.
LEMMA PageFields ==
  ASSUME NEW x \in PageRecords
  PROVE  x.bitmap \in SUBSET Bits /\ x.num_records \in Int /\ x.next_free_page_no \in Int
BY Zenon DEF PageRecords

\* The fields of a page with another bitmap.
LEMMA OtherBitmap ==
  ASSUME NEW x \in PageRecords, NEW b, NEW y, y = [x EXCEPT !.bitmap = b]
  PROVE  /\ y.bitmap = b /\ y.num_records = x.num_records
         /\ y.next_free_page_no = x.next_free_page_no
         /\ b \in SUBSET Bits => y \in PageRecords
BY Zenon DEF PageRecords

\* The fields of a page with another count.
LEMMA OtherCount ==
  ASSUME NEW x \in PageRecords, NEW n, NEW y, y = [x EXCEPT !.num_records = n]
  PROVE  /\ y.bitmap = x.bitmap /\ y.num_records = n
         /\ y.next_free_page_no = x.next_free_page_no
         /\ n \in Int => y \in PageRecords
BY Zenon DEF PageRecords

\* The fields of a page with another next page.
LEMMA OtherNext ==
  ASSUME NEW x \in PageRecords, NEW q, NEW y, y = [x EXCEPT !.next_free_page_no = q]
  PROVE  /\ y.bitmap = x.bitmap /\ y.num_records = x.num_records /\ y.next_free_page_no = q
         /\ q \in Int => y \in PageRecords
BY Zenon DEF PageRecords

\* The fields of the header when its list changes.
LEMMA HeaderFields ==
  ASSUME NEW h \in Headers, NEW p
  PROVE  /\ h.num_pages \in Int /\ h.first_free_page_no \in Int
         /\ [h EXCEPT !.first_free_page_no = p].num_pages = h.num_pages
         /\ [h EXCEPT !.first_free_page_no = p].first_free_page_no = p
         /\ p \in Int => [h EXCEPT !.first_free_page_no = p] \in Headers
BY Zenon DEF Headers

\* release_page_handle, as one replacement of a page.
LEMMA ReleaseTypes ==
  ASSUME FileTypes, RunTypes, NEW t \in Threads, NEW r \in Rids, release_page_handle(t, r)
  PROVE  FileTypes' /\ RunTypes' /\ Rids' = Rids
<1>1. PICK p : p = r[1]
  BY Zenon
<1>2. p \in PageNos /\ p \in Int /\ page[p] \in PageRecords
  BY <1>1, RidParts DEF FileTypes, PageNos
<1>3. CASE page[p].num_records = num_records_per_page
  <2>1. PICK new : new = [page[p] EXCEPT !.next_free_page_no = hdr.first_free_page_no]
    BY Zenon
  <2>2. /\ page' = [page EXCEPT ![p] = new]
        /\ hdr' = [hdr EXCEPT !.first_free_page_no = p] /\ pc' = [pc EXCEPT ![t] = "pushed"]
        /\ rid' = [rid EXCEPT ![t] = r] /\ UNCHANGED <<disk_hdr, load>>
    BY <1>1, <1>3, <2>1, Zenon DEF release_page_handle, Goto
  <2>3. /\ hdr \in Headers /\ hdr.first_free_page_no \in PageNos \cup {RM_NO_PAGE}
        /\ hdr.num_pages \in 1 .. Len(page) + 1 /\ disk_hdr \in Headers
    BY Zenon DEF FileTypes
  <2>4. new \in PageRecords /\ new.next_free_page_no = hdr.first_free_page_no
    <3>1. hdr.first_free_page_no \in Int
      BY <2>3, HeaderFields, Zenon
    <3> QED
      BY <1>2, <2>1, <3>1, OtherNext, SMTT(30)
  <2>5. hdr' \in Headers /\ hdr'.first_free_page_no = p /\ hdr'.num_pages = hdr.num_pages
    BY <1>2, <2>2, <2>3, HeaderFields, Zenon
  <2>6. FileTypes' /\ Rids' = Rids /\ PageNos' = PageNos
    BY <1>2, <2>2, <2>3, <2>4, <2>5, PutPageTypes, Zenon
  <2>7. RunTypes'
    BY <2>2, <2>6, Unmoved, MoveTypes, ZenonT(30) DEF Labels
  <2> QED
    BY <2>6, <2>7, Zenon
<1>4. CASE page[p].num_records # num_records_per_page
  <2>1. /\ UNCHANGED <<page, hdr, disk_hdr, load>> /\ pc' = [pc EXCEPT ![t] = "drop"]
        /\ rid' = [rid EXCEPT ![t] = r]
    BY <1>1, <1>4, Zenon DEF release_page_handle, Goto
  <2>2. FileTypes' /\ Rids' = Rids /\ PageNos' = PageNos
    BY <2>1, SamePagesTypes, Zenon DEF FileTypes
  <2>3. RunTypes'
    BY <2>1, <2>2, Unmoved, MoveTypes, ZenonT(30) DEF Labels
  <2> QED
    BY <2>2, <2>3, Zenon
<1> QED
  BY <1>3, <1>4, Zenon

\* A lock and a write of a record keep the transactions' types.
LEMMA WriteTypes ==
  ASSUME TxnTypes, NEW t \in Threads, NEW r \in Rids, NEW k \in Kinds, Write(t, k, r)
  PROVE  writes' \in [Threads -> Seq(Kinds \X Rids)]
<1>1. <<k, r>> \in Kinds \X Rids /\ writes[t] \in Seq(Kinds \X Rids)
  BY Zenon DEF TxnTypes
<1>2. PICK X : X = Kinds \X Rids
  BY Zenon
<1>3. writes[t] \in Seq(X) /\ <<k, r>> \in X /\ writes \in [Threads -> Seq(X)]
  BY <1>1, <1>2, Zenon DEF TxnTypes
<1>4. Append(writes[t], <<k, r>>) \in Seq(X)
  BY <1>3
<1>5. writes' \in [Threads -> Seq(X)]
  BY <1>3, <1>4, Zenon DEF Write
<1> QED
  BY <1>2, <1>5, Zenon

\* create_new_page_handle keeps the types.
LEMMA NewHeaderTypes ==
  ASSUME Types, NEW t \in Threads, create_new_page_handle(t)
  PROVE  Types' /\ Rids' = Rids
<1>1. PICK p : p = rid[t][1]
  BY Zenon
<1>2. /\ pc[t] = "grow" /\ hdr' = [num_pages |-> load[t] + 1, first_free_page_no |-> p]
      /\ rid' = [rid EXCEPT ![t] = <<p, FreeSlot(p)>>] /\ pc' = [pc EXCEPT ![t] = "grown"]
      /\ UNCHANGED <<page, disk_hdr, load, txnVars>>
  BY <1>1, Zenon DEF create_new_page_handle, Goto
<1>3. p \in PageNos /\ p \in Int /\ load[t] \in 1 .. Len(page) /\ Len(page) \in Nat
  BY <1>1, <1>2, RidParts, SMTT(30) DEF Types, RunTypes, FileTypes, PageNos
<1>4. /\ hdr' \in Headers /\ hdr'.first_free_page_no = p /\ hdr'.num_pages \in 1 .. Len(page) + 1
  BY <1>2, <1>3 DEF Headers
<1>5. FileTypes' /\ Rids' = Rids /\ PageNos' = PageNos
  BY <1>2, <1>3, <1>4, SamePagesTypes, Zenon DEF Types, FileTypes
<1>6. FreeSlot(p) \in Bits
  BY NextBit DEF FreeSlot
<1>7. <<p, FreeSlot(p)>> \in Rids
  BY <1>3, <1>6, Zenon DEF Rids
<1>8. RunTypes'
  <2>1. load' = [load EXCEPT ![t] = load[t]] /\ load[t] \in Int /\ "grown" \in Labels
    BY <1>2, Unmoved, Zenon DEF Types, Labels
  <2> QED
    BY <1>2, <1>5, <1>7, <2>1, MoveTypes, Zenon DEF Types
<1>9. TxnTypes'
  BY <1>2, <1>5, TxnTypesGrow, Zenon DEF Types, txnVars
<1> QED
  BY <1>5, <1>8, <1>9, Zenon DEF Types

\* Writing the header keeps the types.
LEMMA WriteHdrTypes ==
  ASSUME Types, NEW t \in Threads, write_hdr(t)
  PROVE  Types' /\ Rids' = Rids
<1>1. PICK l : pc' = [pc EXCEPT ![t] = l] /\ l \in {"lock", "idle", "drop"}
  BY Zenon DEF write_hdr, Goto
<1>2. /\ pc[t] # "idle" /\ (disk_hdr' = hdr \/ disk_hdr' = disk_hdr)
      /\ UNCHANGED <<page, hdr, rid, load, txnVars>>
  BY Zenon DEF write_hdr
<1>3. FileTypes' /\ Rids' = Rids /\ PageNos' = PageNos
  BY <1>2, SamePagesTypes, Zenon DEF Types, FileTypes
<1>4. rid[t] \in Rids
  BY <1>2, Zenon DEF Types, RunTypes
<1>5. RunTypes'
  BY <1>1, <1>2, <1>3, <1>4, Unmoved, MoveTypes, ZenonT(30) DEF Types, Labels
<1>6. TxnTypes'
  BY <1>2, <1>3, TxnTypesGrow, Zenon DEF Types, txnVars
<1> QED
  BY <1>3, <1>5, <1>6, Zenon DEF Types

\* insert_record, as one replacement of a page, when it gets the lock.
LEMMA InsertTypes ==
  ASSUME Types, NEW t \in Threads, insert_lock(t),
         ~\E u \in Threads \ {t} : rid[t] \in locked[u]
  PROVE  /\ Types' /\ rid[t] \in Rids
         /\ \E new : /\ Replaced(page, page', rid[t][1], new)
                     /\ new.bitmap = page[rid[t][1]].bitmap \cup {rid[t][2]}
                     /\ new.num_records = page[rid[t][1]].num_records
                     /\ new.next_free_page_no = page[rid[t][1]].next_free_page_no
<1>1. PICK p : p = rid[t][1]
  BY Zenon
<1>2. PICK s : s = rid[t][2]
  BY Zenon
<1>3. PICK new : new = [page[p] EXCEPT !.bitmap = page[p].bitmap \cup {s}]
  BY Zenon
<1>4. /\ pc[t] = "lock" /\ page' = [page EXCEPT ![p] = new] /\ pc' = [pc EXCEPT ![t] = "count"]
      /\ load' = [load EXCEPT ![t] = page[p].num_records]
      /\ locked' = [locked EXCEPT ![t] = @ \cup {rid[t]}] /\ rows' = rows \cup {rid[t]}
      /\ Write(t, "insert", rid[t])
      /\ UNCHANGED <<hdr, disk_hdr, rid, mode, aborting>>
  BY <1>1, <1>2, <1>3, Zenon DEF insert_lock, Goto, Lock
<1>5. rid[t] \in Rids
  BY <1>4, Zenon DEF Types, RunTypes
<1>6. p \in PageNos /\ s \in Bits /\ page[p] \in PageRecords
  BY <1>1, <1>2, <1>5, RidParts, SMTT(30) DEF Types, FileTypes, PageNos
<1>7. page[p].bitmap \cup {s} \in SUBSET Bits /\ page[p].num_records \in Int
  BY <1>6, PageFields, Zenon
<1>8. /\ new \in PageRecords /\ new.bitmap = page[p].bitmap \cup {s}
      /\ new.num_records = page[p].num_records
      /\ new.next_free_page_no = page[p].next_free_page_no
  BY <1>3, <1>6, <1>7, OtherBitmap, SMTT(30)
<1>9. page[p].next_free_page_no \in PageNos \cup {RM_NO_PAGE}
  BY <1>6, Zenon DEF Types, FileTypes
<1>10. FileTypes' /\ Rids' = Rids /\ PageNos' = PageNos /\ Replaced(page, page', p, new)
  BY <1>4, <1>6, <1>8, <1>9, PutPageTypes, Zenon DEF Types, FileTypes
<1>11. RunTypes'
  BY <1>4, <1>5, <1>7, <1>10, Unmoved, MoveTypes, ZenonT(30) DEF Types, Labels
<1>12. TxnTypes'
  <2>1. writes' \in [Threads -> Seq(Kinds \X Rids)]
    BY <1>4, <1>5, WriteTypes, Zenon DEF Types, Kinds
  <2> QED
    BY <1>4, <1>5, <1>10, <2>1, Zenon DEF Types, TxnTypes
<1> QED
  BY <1>1, <1>2, <1>5, <1>8, <1>10, <1>11, <1>12, Zenon DEF Types

\* insert_record keeps the types when the lock is refused.
LEMMA RefusedTypes ==
  ASSUME Types, NEW t \in Threads, insert_lock(t),
         \E u \in Threads \ {t} : rid[t] \in locked[u]
  PROVE  Types'
<1>1. /\ pc' = [pc EXCEPT ![t] = "idle"] /\ aborting' = [aborting EXCEPT ![t] = TRUE]
      /\ UNCHANGED <<page, load, writes, locked, rows, hdr, disk_hdr, rid, mode>>
  BY Zenon DEF insert_lock, Goto
<1>2. FileTypes' /\ Rids' = Rids /\ PageNos' = PageNos
  BY <1>1, SamePagesTypes, Zenon DEF Types, FileTypes
<1>3. RunTypes'
  <2>1. /\ rid' = [rid EXCEPT ![t] = rid[t]] /\ load' = [load EXCEPT ![t] = load[t]]
        /\ rid[t] \in Rids \cup {NoRid} /\ load[t] \in Int /\ "idle" \in Labels
    BY <1>1, Unmoved, Zenon DEF Types, Labels
  <2>2. RunTypes /\ pc' = [pc EXCEPT ![t] = "idle"] /\ Rids \subseteq Rids' /\ PageNos \subseteq PageNos'
    BY <1>1, <1>2, Zenon DEF Types
  <2>3. rid[t] \in Rids' \cup {NoRid}
    BY <1>2, <2>1, Zenon
  <2> QED
    BY <2>1, <2>2, <2>3, MoveTypes, Zenon
<1>4. TxnTypes'
  BY <1>1, <1>2, Zenon DEF Types, TxnTypes
<1> QED
  BY <1>2, <1>3, <1>4, Zenon DEF Types

\* A thread goes on to another label, with the record and the value that it has.
LEMMA RelabelTypes ==
  ASSUME RunTypes, NEW t \in Threads, NEW l \in Labels, pc[t] # "idle", l # "grow",
         pc' = [pc EXCEPT ![t] = l], rid' = rid, load' = load, Rids' = Rids, PageNos' = PageNos
  PROVE  RunTypes'
<1>1. /\ rid' = [rid EXCEPT ![t] = rid[t]] /\ load' = [load EXCEPT ![t] = load[t]]
      /\ rid[t] \in Rids /\ load[t] \in Int
  BY Unmoved, Zenon DEF RunTypes
<1> QED
  BY <1>1, MoveTypes, Zenon

\* insert_record counts the record: one replacement of a page.
LEMMA CountTypes ==
  ASSUME Types, NEW t \in Threads, insert_count(t)
  PROVE  /\ Types' /\ rid[t] \in Rids
         /\ \E new : /\ Replaced(page, page', rid[t][1], new)
                     /\ new.bitmap = page[rid[t][1]].bitmap
                     /\ new.num_records = load[t] + 1
                     /\ new.next_free_page_no = page[rid[t][1]].next_free_page_no
<1>1. PICK p : p = rid[t][1]
  BY Zenon
<1>2. PICK new : new = [page[p] EXCEPT !.num_records = load[t] + 1]
  BY Zenon
<1>3. /\ pc[t] = "count" /\ page' = [page EXCEPT ![p] = new]
      /\ UNCHANGED <<disk_hdr, rid, load, txnVars>>
  BY <1>1, <1>2, Zenon DEF insert_count
<1>4. \/ /\ hdr' = [hdr EXCEPT !.first_free_page_no = page[p].next_free_page_no]
         /\ pc' = [pc EXCEPT ![t] = "filled"]
      \/ hdr' = hdr /\ pc' = [pc EXCEPT ![t] = "idle"]
  BY <1>1, Zenon DEF insert_count, Goto
<1>5. rid[t] \in Rids /\ load[t] \in Int
  BY <1>3, Zenon DEF Types, RunTypes
<1>6. p \in PageNos /\ page[p] \in PageRecords
  BY <1>1, <1>5, RidParts, SMTT(30) DEF Types, FileTypes, PageNos
<1>7. page[p].next_free_page_no \in PageNos \cup {RM_NO_PAGE} /\ page[p].next_free_page_no \in Int
  BY <1>6, PageFields, Zenon DEF Types, FileTypes
<1>8. /\ new \in PageRecords /\ new.bitmap = page[p].bitmap /\ new.num_records = load[t] + 1
      /\ new.next_free_page_no = page[p].next_free_page_no
  BY <1>2, <1>5, <1>6, OtherCount, SMTT(30)
<1>9. /\ hdr' \in Headers /\ hdr'.num_pages = hdr.num_pages
      /\ hdr'.first_free_page_no \in PageNos \cup {RM_NO_PAGE}
  <2>1. hdr \in Headers /\ hdr.first_free_page_no \in PageNos \cup {RM_NO_PAGE}
    BY Zenon DEF Types, FileTypes
  <2>2. PICK q : q = page[p].next_free_page_no
    BY Zenon
  <2>3. CASE hdr' = [hdr EXCEPT !.first_free_page_no = q]
    BY <1>7, <2>1, <2>2, <2>3, HeaderFields, SMTT(30)
  <2> QED
    BY <1>4, <2>1, <2>2, <2>3, Zenon
<1>10. FileTypes' /\ Rids' = Rids /\ PageNos' = PageNos /\ Replaced(page, page', p, new)
  BY <1>3, <1>6, <1>7, <1>8, <1>9, PutPageTypes, Zenon DEF Types, FileTypes
<1>11. RunTypes'
  <2>1. pc[t] # "idle" /\ \E l \in Labels : l # "grow" /\ pc' = [pc EXCEPT ![t] = l]
    BY <1>3, <1>4, Zenon DEF Labels
  <2> QED
    BY <1>3, <1>10, <2>1, RelabelTypes, Zenon DEF Types
<1>12. TxnTypes'
  BY <1>3, <1>10, TxnTypesGrow, Zenon DEF Types, txnVars
<1> QED
  BY <1>1, <1>5, <1>8, <1>10, <1>11, <1>12, Zenon DEF Types

\* delete_record drops the record: one replacement of a page.
LEMMA DropTypes ==
  ASSUME Types, NEW t \in Threads, delete_drop(t)
  PROVE  /\ Types' /\ rid[t] \in Rids
         /\ \E new : /\ Replaced(page, page', rid[t][1], new)
                     /\ new.bitmap = page[rid[t][1]].bitmap \ {rid[t][2]}
                     /\ new.num_records = page[rid[t][1]].num_records - 1
                     /\ new.next_free_page_no = page[rid[t][1]].next_free_page_no
<1>1. PICK p : p = rid[t][1]
  BY Zenon
<1>2. PICK s : s = rid[t][2]
  BY Zenon
<1>3. /\ pc[t] = "drop" /\ pc' = [pc EXCEPT ![t] = "idle"] /\ rows' = rows \ {rid[t]}
      /\ UNCHANGED <<hdr, disk_hdr, rid, load, mode, aborting, writes, locked>>
  BY Zenon DEF delete_drop, Goto
<1>4. rid[t] \in Rids
  BY <1>3, Zenon DEF Types, RunTypes
<1>5. p \in PageNos /\ page[p] \in PageRecords
  BY <1>1, <1>4, RidParts DEF Types, FileTypes, PageNos
<1>6. PICK mid : mid = [page[p] EXCEPT !.num_records = page[p].num_records - 1]
  BY Zenon
<1>7. PICK new : new = [mid EXCEPT !.bitmap = page[p].bitmap \ {s}]
  BY Zenon
<1>8. page[p].num_records \in Int /\ page[p].bitmap \in SUBSET Bits
  BY <1>5, PageFields, Zenon
<1>9. /\ mid \in PageRecords /\ mid.bitmap = page[p].bitmap
      /\ mid.num_records = page[p].num_records - 1
      /\ mid.next_free_page_no = page[p].next_free_page_no
  BY <1>5, <1>6, <1>8, OtherCount, SMTT(30)
<1>10. /\ new \in PageRecords /\ new.bitmap = page[p].bitmap \ {s}
       /\ new.num_records = page[p].num_records - 1
       /\ new.next_free_page_no = page[p].next_free_page_no
  <2>1. page[p].bitmap \ {s} \in SUBSET Bits
    BY <1>8, Zenon
  <2>2. /\ new.bitmap = page[p].bitmap \ {s} /\ new.num_records = mid.num_records
        /\ new.next_free_page_no = mid.next_free_page_no /\ new \in PageRecords
    BY <1>7, <1>9, <2>1, OtherBitmap, SMTT(30)
  <2> QED
    BY <1>9, <2>2, Zenon
<1>11. page' = [page EXCEPT ![p] = new]
  <2>1. page' = [page EXCEPT ![p].num_records = page[p].num_records - 1,
                             ![p].bitmap = page[p].bitmap \ {s}]
    BY <1>1, <1>2, <1>5, Zenon DEF delete_drop, Types, FileTypes, PageRecords, PageNos
  <2> QED
    BY <1>5, <1>6, <1>7, <2>1, Zenon DEF Types, FileTypes, PageRecords, PageNos
<1>12. page[p].next_free_page_no \in PageNos \cup {RM_NO_PAGE}
  BY <1>5, Zenon DEF Types, FileTypes
<1>13. FileTypes' /\ Rids' = Rids /\ PageNos' = PageNos /\ Replaced(page, page', p, new)
  BY <1>3, <1>5, <1>10, <1>11, <1>12, PutPageTypes, Zenon DEF Types, FileTypes
<1>14. RunTypes'
  BY <1>3, <1>13, RelabelTypes, Zenon DEF Types, Labels
<1>15. TxnTypes'
  BY <1>3, <1>13, Zenon DEF Types, TxnTypes
<1> QED
  BY <1>1, <1>2, <1>4, <1>10, <1>13, <1>14, <1>15, Zenon DEF Types

\* The statements, the rollback and the end of a transaction keep the types.
LEMMA CallerTypes ==
  ASSUME Types, NEW t \in Threads
  PROVE  /\ Insert(t) => Types'
         /\ \A r \in rows : Delete(t, r) => Types'
         /\ Abort(t) => Types'
         /\ Undo(t) => Types'
         /\ Finish(t) => Types'
<1> USE DEF Types
<1>1. ASSUME Insert(t) PROVE Types'
  <2>1. /\ create_page_handle(t) /\ UNCHANGED <<aborting, writes, locked, rows>>
        /\ mode' = [mode EXCEPT ![t] = IF @ = "none" THEN "IX" ELSE @]
    BY <1>1, Zenon DEF Insert
  <2>2. FileTypes' /\ RunTypes' /\ Rids \subseteq Rids'
    BY <2>1, CreateTypes, Zenon
  <2>3. writes \in [Threads -> Seq(Kinds \X Rids')]
    BY <2>2, WritesGrow, Zenon DEF TxnTypes
  <2>4. TxnTypes'
    BY <2>1, <2>2, <2>3, Zenon DEF TxnTypes
  <2> QED
    BY <2>2, <2>4, Zenon
<1>2. ASSUME NEW r \in rows, Delete(t, r) PROVE Types'
  <2>1. /\ release_page_handle(t, r) /\ UNCHANGED <<aborting, rows>> /\ Write(t, "delete", r)
        /\ mode' = [mode EXCEPT ![t] = "SIX"] /\ locked' = [locked EXCEPT ![t] = @ \cup {r}]
    BY <1>2, Zenon DEF Delete, Lock
  <2>2. r \in Rids
    BY Zenon DEF TxnTypes
  <2>3. FileTypes' /\ RunTypes' /\ Rids' = Rids
    BY <2>1, <2>2, ReleaseTypes, Zenon
  <2>4. writes' \in [Threads -> Seq(Kinds \X Rids)]
    BY <2>1, <2>2, WriteTypes, Zenon DEF Kinds
  <2>5. TxnTypes'
    BY <2>1, <2>2, <2>3, <2>4, Zenon DEF TxnTypes
  <2> QED
    BY <2>3, <2>5, Zenon
<1>3. ASSUME Abort(t) PROVE Types'
  <2>1. FileTypes' /\ RunTypes' /\ Rids' = Rids
    BY <1>3, Zenon DEF Abort, FileTypes, RunTypes, PageNos, Rids, Bits, PageRecords, Headers, Labels
  <2>2. TxnTypes'
    BY <1>3, <2>1, Zenon DEF Abort, TxnTypes
  <2> QED
    BY <2>1, <2>2, Zenon
<1>4. ASSUME Undo(t) PROVE Types'
  <2>1. /\ writes[t] # <<>> /\ writes' = [writes EXCEPT ![t] = SubSeq(@, 1, Len(@) - 1)]
        /\ UNCHANGED <<mode, aborting, locked, rows>>
        /\ \/ create_page_handle(t)
           \/ release_page_handle(t, writes[t][Len(writes[t])][2])
    BY <1>4, Zenon DEF Undo
  <2>2. PICK X : X = Kinds \X Rids
    BY Zenon
  <2>3. writes[t] \in Seq(X) /\ writes \in [Threads -> Seq(X)]
    BY <2>2, Zenon DEF TxnTypes
  <2>4. PICK n \in Nat : Len(writes[t]) = n + 1
    BY <2>1, <2>3, SMTT(30)
  <2>5. writes[t][n + 1] \in X /\ SubSeq(writes[t], 1, n) \in Seq(X)
    BY <2>3, <2>4, SMTT(30)
  <2>6. writes' \in [Threads -> Seq(Kinds \X Rids)]
    BY <2>1, <2>2, <2>3, <2>4, <2>5, SMTT(30)
  <2>7. FileTypes' /\ RunTypes' /\ Rids \subseteq Rids'
    <3>1. writes[t][Len(writes[t])][2] \in Rids
      BY <2>2, <2>4, <2>5, Zenon
    <3> QED
      BY <2>1, <3>1, CreateTypes, ReleaseTypes, Zenon
  <2>8. writes' \in [Threads -> Seq(Kinds \X Rids')]
    BY <2>6, <2>7, WritesGrow, Zenon
  <2>9. TxnTypes'
    BY <2>1, <2>7, <2>8, Zenon DEF TxnTypes
  <2> QED
    BY <2>7, <2>9, Zenon
<1>5. ASSUME Finish(t) PROVE Types'
  <2>1. /\ mode' = [mode EXCEPT ![t] = "none"] /\ aborting' = [aborting EXCEPT ![t] = FALSE]
        /\ writes' = [writes EXCEPT ![t] = <<>>] /\ locked' = [locked EXCEPT ![t] = {}]
        /\ rid' = [rid EXCEPT ![t] = NoRid] /\ load' = [load EXCEPT ![t] = 0]
        /\ pc[t] = "idle" /\ UNCHANGED <<page, hdr, disk_hdr, pc, rows>>
    BY <1>5, Zenon DEF Finish
  <2>2. FileTypes' /\ Rids' = Rids /\ PageNos' = PageNos
    BY <2>1, SamePagesTypes, Zenon DEF FileTypes
  <2>3. RunTypes'
    BY <2>1, <2>2, SMTT(30) DEF RunTypes, Labels
  <2>4. <<>> \in Seq(Kinds \X Rids)
    OBVIOUS
  <2>5. TxnTypes'
    BY <2>1, <2>2, <2>4, Zenon DEF TxnTypes
  <2> QED
    BY <2>2, <2>3, <2>5, Zenon
<1> QED
  BY <1>1, <1>2, <1>3, <1>4, <1>5, Zenon

-----------------------------------------------------------------------------
(* The header on disk, and the locks. *)

\* A header that has changed is written before the operation ends.
LEMMA HeaderStep ==
  ASSUME Types, HeaderSaved, Next
  PROVE  HeaderSaved'
<1> DEFINE Writing == {"grown", "filled", "pushed"}
<1>1. ASSUME NEW t \in Threads, NEW l, pc' = [pc EXCEPT ![t] = l], pc[t] \notin Writing,
             UNCHANGED <<hdr, disk_hdr, lost>> \/ l \in Writing
      PROVE  HeaderSaved'
  <2>1. pc'[t] = l /\ \A u \in Threads : u # t => pc'[u] = pc[u]
    BY <1>1, Zenon DEF Types, RunTypes
  <2>2. CASE l \in Writing
    BY <2>1, <2>2, Zenon DEF HeaderSaved
  <2>3. CASE UNCHANGED <<hdr, disk_hdr, lost>>
    BY <1>1, <2>1, <2>3, ZenonT(30) DEF HeaderSaved
  <2> QED
    BY <1>1, <2>2, <2>3, Zenon
<1>2. PICK t \in Threads :
         \/ Insert(t) \/ Abort(t) \/ Undo(t) \/ Finish(t)
         \/ \E r \in rows : Delete(t, r)
         \/ create_new_page_handle(t) \/ write_hdr(t) \/ insert_lock(t) \/ insert_count(t)
         \/ delete_drop(t)
  BY Zenon DEF Next
<1>3. ASSUME create_page_handle(t), pc[t] = "idle" PROVE HeaderSaved'
  BY <1>1, <1>3, Zenon DEF create_page_handle, Goto
<1>4. ASSUME NEW r, release_page_handle(t, r), pc[t] = "idle" PROVE HeaderSaved'
  BY <1>1, <1>4, Zenon DEF release_page_handle, Goto
<1>5. CASE Insert(t)
  BY <1>3, <1>5, Zenon DEF Insert
<1>6. CASE Abort(t)
  BY <1>6, Zenon DEF Abort, HeaderSaved
<1>7. CASE Undo(t)
  BY <1>3, <1>4, <1>7, Zenon DEF Undo
<1>8. CASE Finish(t)
  BY <1>8, Zenon DEF Finish, HeaderSaved
<1>9. ASSUME NEW r \in rows, Delete(t, r) PROVE HeaderSaved'
  BY <1>4, <1>9, Zenon DEF Delete
<1>10. CASE create_new_page_handle(t)
  BY <1>1, <1>10, Zenon DEF create_new_page_handle, Goto
<1>11. CASE write_hdr(t)
  BY <1>11, Zenon DEF write_hdr, HeaderSaved
<1>12. CASE insert_lock(t)
  BY <1>1, <1>12, Zenon DEF insert_lock, Goto
<1>13. CASE insert_count(t)
  BY <1>1, <1>13, Zenon DEF insert_count, Goto
<1>14. CASE delete_drop(t)
  BY <1>1, <1>14, Zenon DEF delete_drop, Goto
<1> QED
  BY <1>2, <1>5, <1>6, <1>7, <1>8, <1>9, <1>10, <1>11, <1>12, <1>13, <1>14, Zenon

\* The locks do not change while a thread works on the file.
LEMMA LocksKept ==
  ASSUME Types, LockInv, NEW t \in Threads, mode[t] # "none",
         NEW l, pc' = [pc EXCEPT ![t] = l], UNCHANGED <<mode, writes, locked>>,
         \A u \in Threads \ {t} : aborting'[u] = aborting[u]
  PROVE  LockInv'
<1>1. ASSUME NEW u \in Threads, mode'[u] = "none"
      PROVE  pc'[u] = "idle" /\ writes'[u] = <<>> /\ locked'[u] = {} /\ ~aborting'[u]
  BY <1>1 DEF LockInv, Types, RunTypes
<1> QED
  BY <1>1, Zenon DEF LockInv

\* A transaction locks a record that no other has locked, and may write it.
LEMMA LockTaken ==
  ASSUME Types, LockInv, NEW t \in Threads, NEW r, NEW k, NEW l,
         \A u \in Threads \ {t} : r \notin locked[u],
         mode'[t] # "none", \A u \in Threads \ {t} : mode'[u] = mode[u],
         pc' = [pc EXCEPT ![t] = l], Lock(t, r), Write(t, k, r), aborting' = aborting
  PROVE  LockInv'
<1>1. /\ locked'[t] = locked[t] \cup {r}
      /\ \A u \in Threads \ {t} : locked'[u] = locked[u] /\ writes'[u] = writes[u] /\ pc'[u] = pc[u]
  BY Zenon DEF Types, TxnTypes, RunTypes, Lock, Write
<1>2. ASSUME NEW u \in Threads, mode'[u] = "none"
      PROVE  pc'[u] = "idle" /\ writes'[u] = <<>> /\ locked'[u] = {} /\ ~aborting'[u]
  BY <1>1, <1>2, ZenonT(30) DEF LockInv
<1>3. ASSUME NEW u \in Threads, NEW v \in Threads, u # v PROVE locked'[u] \cap locked'[v] = {}
  <2>1. locked[u] \cap locked[v] = {}
    BY <1>3, Zenon DEF LockInv
  <2> QED
    BY <1>1, <1>3, <2>1, SMTT(30)
<1>4. ASSUME NEW i \in 1 .. Len(writes'[t]) PROVE writes'[t][i][2] \in locked'[t]
  <2>1. CASE aborting[t]
    BY <1>1, <1>4, <2>1, Zenon DEF LockInv, Write
  <2>2. CASE ~aborting[t]
    <3>1. writes'[t] = Append(writes[t], <<k, r>>)
      BY <2>2, Zenon DEF Types, TxnTypes, Write
    <3>2. PICK X : X = Kinds \X Rids
      BY Zenon
    <3>3. writes[t] \in Seq(X)
      BY <3>2, Zenon DEF Types, TxnTypes
    <3>4. CASE i \in 1 .. Len(writes[t])
      <4>1. writes'[t][i] = writes[t][i]
        BY <3>1, <3>3, <3>4, SMTT(30)
      <4> QED
        BY <1>1, <3>4, <4>1, SMTT(30) DEF LockInv
    <3>5. CASE i = Len(writes[t]) + 1
      <4>1. writes'[t][i] = <<k, r>>
        BY <3>1, <3>3, <3>5, SMTT(30)
      <4> QED
        BY <1>1, <4>1, SMTT(30)
    <3>6. Len(writes'[t]) = Len(writes[t]) + 1 /\ Len(writes[t]) \in Nat
      BY <3>1, <3>3
    <3> QED
      BY <3>4, <3>5, <3>6, SMTT(30)
  <2> QED
    BY <2>1, <2>2, Zenon
<1>5. ASSUME NEW u \in Threads, NEW i \in 1 .. Len(writes'[u]) PROVE writes'[u][i][2] \in locked'[u]
  BY <1>1, <1>4, Zenon DEF LockInv
<1> QED
  BY <1>2, <1>3, <1>5, Zenon DEF LockInv

\* Every step keeps the locks.
LEMMA LockStep ==
  ASSUME Types, LockInv, Next
  PROVE  LockInv'
<1>1. PICK t \in Threads :
         \/ Insert(t) \/ Abort(t) \/ Undo(t) \/ Finish(t)
         \/ \E r \in rows : Delete(t, r)
         \/ create_new_page_handle(t) \/ write_hdr(t) \/ insert_lock(t) \/ insert_count(t)
         \/ delete_drop(t)
  BY Zenon DEF Next
<1>2. (pc[t] # "idle" \/ aborting[t]) => mode[t] # "none"
  BY Zenon DEF LockInv
<1>3. ASSUME create_page_handle(t) PROVE \E l : pc' = [pc EXCEPT ![t] = l]
  BY <1>3, Zenon DEF create_page_handle, Goto
<1>4. ASSUME NEW r, release_page_handle(t, r) PROVE \E l : pc' = [pc EXCEPT ![t] = l]
  BY <1>4, Zenon DEF release_page_handle, Goto
<1>5. CASE Insert(t)
  <2>1. /\ UNCHANGED <<aborting, writes, locked>> /\ mode'[t] # "none"
        /\ \A u \in Threads \ {t} : mode'[u] = mode[u]
    BY <1>5, Zenon DEF Insert, Types, TxnTypes
  <2>2. \A u \in Threads \ {t} : pc'[u] = pc[u]
    BY <1>3, <1>5, Zenon DEF Insert, Types, RunTypes
  <2> QED
    BY <2>1, <2>2, Zenon DEF LockInv
<1>6. CASE Abort(t)
  <2>1. /\ mode[t] # "none" /\ UNCHANGED <<pc, mode, writes, locked>>
        /\ \A u \in Threads \ {t} : aborting'[u] = aborting[u]
    BY <1>6, Zenon DEF Abort, Types, TxnTypes
  <2> QED
    BY <2>1, Zenon DEF LockInv
<1>7. CASE Undo(t)
  <2>1. /\ mode[t] # "none" /\ UNCHANGED <<mode, aborting, locked>> /\ writes[t] # <<>>
        /\ writes' = [writes EXCEPT ![t] = SubSeq(@, 1, Len(@) - 1)]
    BY <1>2, <1>7, Zenon DEF Undo
  <2>2. \A u \in Threads \ {t} : pc'[u] = pc[u] /\ writes'[u] = writes[u]
    BY <1>3, <1>4, <1>7, <2>1, Zenon DEF Undo, Types, RunTypes, TxnTypes
  <2>3. ASSUME NEW i \in 1 .. Len(writes'[t]) PROVE writes'[t][i][2] \in locked[t]
    <3>1. PICK X : X = Kinds \X Rids
      BY Zenon
    <3>2. writes[t] \in Seq(X) /\ writes'[t] = SubSeq(writes[t], 1, Len(writes[t]) - 1)
      BY <2>1, <3>1, Zenon DEF Types, TxnTypes
    <3>3. PICK n \in Nat : Len(writes[t]) = n + 1
      BY <2>1, <3>2, SMTT(30)
    <3>4. i \in 1 .. n + 1 /\ writes'[t][i] = writes[t][i]
      BY <3>2, <3>3
    <3> QED
      BY <3>3, <3>4, Zenon DEF LockInv
  <2> QED
    BY <2>1, <2>2, <2>3, Zenon DEF LockInv
<1>8. CASE Finish(t)
  <2>1. /\ pc[t] = "idle" /\ pc' = pc /\ writes'[t] = <<>> /\ locked'[t] = {} /\ ~aborting'[t]
        /\ mode'[t] = "none"
        /\ \A u \in Threads \ {t} : /\ mode'[u] = mode[u] /\ aborting'[u] = aborting[u]
                                    /\ writes'[u] = writes[u] /\ locked'[u] = locked[u]
    BY <1>8, Zenon DEF Finish, Types, TxnTypes
  <2>2. ASSUME NEW u \in Threads, mode'[u] = "none"
        PROVE  pc'[u] = "idle" /\ writes'[u] = <<>> /\ locked'[u] = {} /\ ~aborting'[u]
    BY <2>1, <2>2, ZenonT(30) DEF LockInv
  <2>3. ASSUME NEW u \in Threads, NEW v \in Threads, u # v PROVE locked'[u] \cap locked'[v] = {}
    BY <2>1, <2>3, Zenon DEF LockInv
  <2>4. ASSUME NEW u \in Threads, NEW i \in 1 .. Len(writes'[u])
        PROVE  writes'[u][i][2] \in locked'[u]
    BY <2>1, <2>4, SMTT(30) DEF LockInv
  <2> QED
    BY <2>2, <2>3, <2>4, Zenon DEF LockInv
<1>9. ASSUME NEW r \in rows, Delete(t, r) PROVE LockInv'
  <2>1. /\ mode' = [mode EXCEPT ![t] = "SIX"] /\ Lock(t, r) /\ Write(t, "delete", r)
        /\ aborting' = aborting /\ \A u \in Threads \ {t} : mode[u] = "none"
    BY <1>9, Zenon DEF Delete, MayDelete
  <2>2. \A u \in Threads \ {t} : r \notin locked[u]
    BY <2>1, Zenon DEF LockInv
  <2>3. mode'[t] # "none" /\ \A u \in Threads \ {t} : mode'[u] = mode[u]
    BY <2>1, Zenon DEF Types, TxnTypes
  <2>4. PICK l : pc' = [pc EXCEPT ![t] = l]
    BY <1>4, <1>9, Zenon DEF Delete
  <2> QED
    BY <2>1, <2>2, <2>3, <2>4, LockTaken, Zenon
<1>10. CASE create_new_page_handle(t)
  BY <1>2, <1>10, LocksKept, Zenon DEF create_new_page_handle, txnVars, Goto
<1>11. CASE write_hdr(t)
  <2>1. \E l : pc' = [pc EXCEPT ![t] = l]
    BY <1>11, Zenon DEF write_hdr, Goto
  <2>2. pc[t] # "idle" /\ UNCHANGED <<mode, aborting, writes, locked>>
    BY <1>11, Zenon DEF write_hdr, txnVars
  <2> QED
    BY <1>2, <2>1, <2>2, LocksKept, Zenon
<1>12. CASE insert_lock(t)
  <2>1. mode[t] # "none" /\ mode' = mode
    BY <1>2, <1>12, Zenon DEF insert_lock
  <2>2. CASE \E u \in Threads \ {t} : rid[t] \in locked[u]
    <3>1. /\ pc' = [pc EXCEPT ![t] = "idle"] /\ UNCHANGED <<mode, writes, locked>>
          /\ aborting' = [aborting EXCEPT ![t] = TRUE]
      BY <1>12, <2>2, Zenon DEF insert_lock, Goto
    <3>2. \A u \in Threads \ {t} : aborting'[u] = aborting[u]
      BY <3>1, Zenon DEF Types, TxnTypes
    <3> QED
      BY <2>1, <3>1, <3>2, LocksKept, Zenon
  <2>3. CASE ~\E u \in Threads \ {t} : rid[t] \in locked[u]
    <3>1. /\ pc' = [pc EXCEPT ![t] = "count"] /\ Lock(t, rid[t]) /\ Write(t, "insert", rid[t])
          /\ aborting' = aborting
      BY <1>12, <2>3, Zenon DEF insert_lock, Goto
    <3> QED
      BY <2>1, <2>3, <3>1, LockTaken, Zenon
  <2> QED
    BY <2>2, <2>3, Zenon
<1>13. CASE insert_count(t)
  <2>1. \E l : pc' = [pc EXCEPT ![t] = l]
    BY <1>13, Zenon DEF insert_count, Goto
  <2>2. pc[t] # "idle" /\ UNCHANGED <<mode, aborting, writes, locked>>
    BY <1>13, Zenon DEF insert_count, txnVars
  <2> QED
    BY <1>2, <2>1, <2>2, LocksKept, Zenon
<1>14. CASE delete_drop(t)
  BY <1>2, <1>14, LocksKept, Zenon DEF delete_drop, Goto
<1> QED
  BY <1>1, <1>5, <1>6, <1>7, <1>8, <1>9, <1>10, <1>11, <1>12, <1>13, <1>14, Zenon

-----------------------------------------------------------------------------
(* Undisturbed steps. *)

\* What one thread sees when the others are idle is all there is to know.
LEMMA Settled ==
  ASSUME NEW t \in Threads, Alone(t)', Sees(t)'
  PROVE  Undisturbed'
<1>1. \A u \in Threads : pc'[u] # "idle" => u = t
  BY Zenon DEF Alone
<1>2. FileOK(page', hdr', rows', pc'[t], rid'[t], load'[t])
  BY Zenon DEF Sees
<1>3. ASSUME NEW u \in Threads, Alone(u)' PROVE Sees(u)'
  <2>1. CASE u = t
    BY <2>1, Zenon
  <2>2. CASE u # t
    <3>1. pc'[t] = "idle" /\ pc'[u] = "idle"
      BY <1>1, <1>3, <2>2, Zenon DEF Alone
    <3>2. FileOK(page', hdr', rows', pc'[u], rid'[u], load'[u])
      BY <1>2, <3>1, IdleAnywhere, SMTT(30)
    <3>3. /\ RowsAfter(rows', pc'[t], rid'[t], aborting'[t]) = rows'
          /\ RowsAfter(rows', pc'[u], rid'[u], aborting'[u]) = rows'
      BY <3>1, Zenon DEF RowsAfter
    <3>4. \A w \in Threads : Alternate(writes'[w]) /\ Match(writes'[w], rows')
      BY <3>3, Zenon DEF Sees
    <3> QED
      BY <3>1, <3>2, <3>3, <3>4, Zenon DEF Sees
  <2> QED
    BY <2>1, <2>2, Zenon
<1>4. Quiet' => FileOK(page', hdr', rows', "idle", NoRid, 0)
  BY <1>2, IdleAnywhere, SMTT(30) DEF Quiet
<1> QED
  BY <1>1, <1>3, <1>4, Zenon DEF Undisturbed

\* A thread that works on the file is alone.
LEMMA WorksAlone ==
  ASSUME Undisturbed, disturbed = {}, NEW t \in Threads, pc[t] # "idle"
  PROVE  Alone(t) /\ Sees(t)
BY Zenon DEF Undisturbed, Alone

\* A thread that starts an operation and does not disturb another is alone.
LEMMA StartsAlone ==
  ASSUME Undisturbed, NEW t \in Threads, disturbed \cup Overlap(t) = {}
  PROVE  disturbed = {} /\ Alone(t) /\ Sees(t)
<1>1. disturbed = {} /\ Overlap(t) = {}
  BY Zenon
<1>2. Alone(t)
  BY <1>1, Zenon DEF Overlap, Alone
<1> QED
  BY <1>1, <1>2, Zenon DEF Undisturbed

\* It stays alone when it moves on.
LEMMA StaysAlone ==
  ASSUME Types, NEW t \in Threads, Alone(t), NEW l, pc' = [pc EXCEPT ![t] = l]
  PROVE  Alone(t)' /\ pc'[t] = l
BY Zenon DEF Alone, Types, RunTypes

\* create_page_handle on an undisturbed file.
LEMMA CreateFile ==
  ASSUME Types, NEW t \in Threads, pc[t] = "idle", create_page_handle(t),
         FileOK(page, hdr, rows, "idle", rid[t], load[t])
  PROVE  \E l \in {"lock", "grow"} :
            /\ pc' = [pc EXCEPT ![t] = l] /\ rid'[t] = <<rid'[t][1], rid'[t][2]>>
            /\ FileOK(page', hdr', rows, l, rid'[t], load'[t])
            /\ l = "grow" => rid'[t][1] = Len(page) + 1
            /\ l = "lock" => rid'[t] \notin rows
<1>1. page \in Seq(PageRecords) /\ hdr \in Headers
  BY Zenon DEF Types, FileTypes
<1>2. CASE hdr.first_free_page_no # RM_NO_PAGE
  <2>1. PICK r : r = <<hdr.first_free_page_no,
                       next_bit(Slots \ page[hdr.first_free_page_no].bitmap, -1)>>
    BY Zenon
  <2>2. rid' = [rid EXCEPT ![t] = r] /\ pc' = [pc EXCEPT ![t] = "lock"] /\ UNCHANGED <<page, hdr, load>>
    BY <1>2, <2>1, Zenon DEF create_page_handle, Goto, FreeSlot
  <2>3. rid'[t] = r /\ r = <<r[1], r[2]>>
    BY <2>1, <2>2, Zenon DEF Types, RunTypes
  <2>4. FileOK(page, hdr, rows, "lock", r, load'[t])
    BY <1>1, <1>2, <2>1, TakeHead, Zenon
  <2>5. r \notin rows
    BY <2>4, Zenon DEF FileOK, Placed, RowsOf
  <2> QED
    BY <2>2, <2>3, <2>4, <2>5, Zenon
<1>3. CASE hdr.first_free_page_no = RM_NO_PAGE
  <2>1. PICK r : r = <<Len(page) + 1, 0>>
    BY Zenon
  <2>2. /\ page' = Append(page, [bitmap |-> {}, num_records |-> 0, next_free_page_no |-> RM_NO_PAGE])
        /\ rid' = [rid EXCEPT ![t] = r] /\ pc' = [pc EXCEPT ![t] = "grow"]
        /\ load' = [load EXCEPT ![t] = hdr.num_pages] /\ hdr' = hdr
    BY <1>3, <2>1, Zenon DEF create_page_handle, Goto
  <2>3. rid'[t] = r /\ load'[t] = hdr.num_pages /\ r[1] = Len(page) + 1 /\ r = <<r[1], r[2]>>
    BY <2>1, <2>2, Zenon DEF Types, RunTypes
  <2>4. FileOK(page', hdr, rows, "grow", r, hdr.num_pages)
    BY <1>1, <1>3, <2>1, <2>2, NewPage, Zenon
  <2> QED
    BY <2>2, <2>3, <2>4, Zenon
<1> QED
  BY <1>2, <1>3, Zenon

\* release_page_handle on an undisturbed file.
LEMMA ReleaseFile ==
  ASSUME Types, NEW t \in Threads, NEW r \in rows, release_page_handle(t, r),
         FileOK(page, hdr, rows, "idle", rid[t], load[t])
  PROVE  \E l \in {"pushed", "drop"} :
            /\ pc' = [pc EXCEPT ![t] = l] /\ rid'[t] = r
            /\ FileOK(page', hdr', rows, l, r, load'[t])
<1>1. PICK p : p = r[1]
  BY Zenon
<1>2. PICK s : s = r[2]
  BY Zenon
<1>3. r \in Rids
  BY Zenon DEF Types, TxnTypes
<1>4. r = <<p, s>> /\ p \in PageNos
  BY <1>1, <1>2, <1>3, RidParts, Zenon
<1>5. page \in Seq(PageRecords) /\ hdr \in Headers /\ page[p] \in PageRecords /\ p \in 1 .. Len(page)
  BY <1>4, SMTT(30) DEF Types, FileTypes, PageNos
<1>6. rid'[t] = r
  BY Zenon DEF release_page_handle, Types, RunTypes
<1>7. CASE page[p].num_records = num_records_per_page
  <2>1. PICK new : new = [page[p] EXCEPT !.next_free_page_no = hdr.first_free_page_no]
    BY Zenon
  <2>2. /\ page' = [page EXCEPT ![p] = new] /\ hdr' = [hdr EXCEPT !.first_free_page_no = p]
        /\ pc' = [pc EXCEPT ![t] = "pushed"]
    BY <1>1, <1>7, <2>1, Zenon DEF release_page_handle, Goto
  <2>3. hdr.first_free_page_no \in Int
    BY <1>5, HeaderFields, Zenon
  <2>4. /\ new \in PageRecords /\ new.bitmap = page[p].bitmap
        /\ new.num_records = page[p].num_records
        /\ new.next_free_page_no = hdr.first_free_page_no
    BY <1>5, <2>1, <2>3, OtherNext, SMTT(30)
  <2>5. Replaced(page, page', p, new)
    BY <1>5, <2>2, <2>4, PutPage, Zenon
  <2>6. hdr'.first_free_page_no = p /\ hdr'.num_pages = hdr.num_pages
    BY <1>5, <2>2, HeaderFields, Zenon
  <2>7. FileOK(page', hdr', rows, "pushed", r, load'[t])
    BY <1>4, <1>5, <1>7, <2>4, <2>5, <2>6, DropPushed, Zenon
  <2> QED
    BY <1>6, <2>2, <2>7, Zenon
<1>8. CASE page[p].num_records # num_records_per_page
  <2>1. UNCHANGED <<page, hdr, load>> /\ pc' = [pc EXCEPT ![t] = "drop"]
    BY <1>1, <1>8, Zenon DEF release_page_handle, Goto
  <2>2. FileOK(page, hdr, rows, "drop", r, load[t])
    BY <1>4, <1>8, DropListed, Zenon
  <2> QED
    BY <1>6, <2>1, <2>2, Zenon
<1> QED
  BY <1>7, <1>8, Zenon

\* The records there are once a thread is through, by where it is.
LEMMA RowsAfterIs ==
  ASSUME NEW rs, NEW l, NEW r, NEW undo
  PROVE  /\ l \notin {"pushed", "drop", "lock"} => RowsAfter(rs, l, r, undo) = rs
         /\ l \in {"pushed", "drop"} => RowsAfter(rs, l, r, undo) = rs \ {r}
         /\ l = "lock" /\ ~undo => RowsAfter(rs, l, r, undo) = rs
         /\ l = "lock" /\ undo => RowsAfter(rs, l, r, undo) = rs \cup {r}
BY Zenon DEF RowsAfter

\* Of a record that t has locked, no other transaction has a write.
LEMMA NotWritten ==
  ASSUME LockInv, NEW t \in Threads, NEW u \in Threads, u # t, NEW r \in locked[t]
  PROVE  \A i \in 1 .. Len(writes[u]) : writes[u][i][2] # r
BY DEF LockInv

\* INSERT starts.
LEMMA InsertStep ==
  ASSUME Types, Undisturbed, NEW t \in Threads, Insert(t), disturbed' = {}
  PROVE  Undisturbed'
<1>1. /\ pc[t] = "idle" /\ ~aborting[t] /\ create_page_handle(t)
      /\ UNCHANGED <<aborting, writes, locked, rows>> /\ disturbed \cup Overlap(t) = {}
  BY Zenon DEF Insert
<1>2. Alone(t) /\ Sees(t)
  BY <1>1, StartsAlone, Zenon
<1>3. FileOK(page, hdr, rows, "idle", rid[t], load[t])
  BY <1>1, <1>2, Zenon DEF Sees
<1>4. PICK l \in {"lock", "grow"} :
         pc' = [pc EXCEPT ![t] = l] /\ FileOK(page', hdr', rows, l, rid'[t], load'[t])
  BY <1>1, <1>3, CreateFile, Zenon
<1>5. Alone(t)' /\ pc'[t] = l
  BY <1>2, <1>4, StaysAlone, Zenon
<1>6. /\ RowsAfter(rows, pc[t], rid[t], aborting[t]) = rows
      /\ RowsAfter(rows', pc'[t], rid'[t], aborting'[t]) = rows
  BY <1>1, <1>5, RowsAfterIs, SMTT(30)
<1>7. \A u \in Threads : Alternate(writes[u]) /\ Match(writes[u], rows)
  BY <1>2, <1>6, Zenon DEF Sees
<1>8. FileOK(page', hdr', rows', pc'[t], rid'[t], load'[t]) /\ ~aborting'[t]
  BY <1>1, <1>4, <1>5, Zenon
<1>9. \A u \in Threads : Alternate(writes'[u])
         /\ Match(writes'[u], RowsAfter(rows', pc'[t], rid'[t], aborting'[t]))
  BY <1>1, <1>6, <1>7, Zenon
<1>10. Sees(t)'
  BY <1>8, <1>9, Zenon DEF Sees
<1> QED
  BY <1>5, <1>10, Settled, Zenon

\* DELETE starts.
LEMMA DeleteStep ==
  ASSUME Types, LockInv, Undisturbed, NEW t \in Threads, NEW r \in rows, Delete(t, r), disturbed' = {}
  PROVE  Undisturbed'
<1>1. /\ pc[t] = "idle" /\ ~aborting[t] /\ release_page_handle(t, r) /\ Write(t, "delete", r)
      /\ UNCHANGED <<aborting, rows>> /\ disturbed \cup Overlap(t) = {}
      /\ \A u \in Threads \ {t} : mode[u] = "none"
  BY Zenon DEF Delete, MayDelete
<1>2. Alone(t) /\ Sees(t)
  BY <1>1, StartsAlone, Zenon
<1>3. FileOK(page, hdr, rows, "idle", rid[t], load[t])
  BY <1>1, <1>2, Zenon DEF Sees
<1>4. PICK l \in {"pushed", "drop"} :
         /\ pc' = [pc EXCEPT ![t] = l] /\ rid'[t] = r
         /\ FileOK(page', hdr', rows, l, r, load'[t])
  BY <1>1, <1>3, ReleaseFile, Zenon
<1>5. Alone(t)' /\ pc'[t] = l
  BY <1>2, <1>4, StaysAlone, Zenon
<1>6. /\ RowsAfter(rows, pc[t], rid[t], aborting[t]) = rows
      /\ RowsAfter(rows', pc'[t], rid'[t], aborting'[t]) = rows \ {r}
  BY <1>1, <1>4, <1>5, RowsAfterIs, SMTT(30)
<1>7. \A u \in Threads : Alternate(writes[u]) /\ Match(writes[u], rows)
  BY <1>2, <1>6, Zenon DEF Sees
<1>8. writes'[t] = Append(writes[t], <<"delete", r>>) /\ \A u \in Threads \ {t} : writes'[u] = <<>>
  BY <1>1 DEF Write, Types, TxnTypes, LockInv
<1>9. Alternate(writes'[t]) /\ Match(writes'[t], rows \ {r})
  <2>1. writes[t] \in Seq(Kinds \X Rids) /\ r \in Rids /\ "delete" \in Kinds
    BY Zenon DEF Types, TxnTypes, Kinds
  <2>2. SameBut(rows, rows \ {r}, r)
    BY Zenon DEF SameBut
  <2>3. Alternate(Append(writes[t], <<"delete", r>>))
        /\ Match(Append(writes[t], <<"delete", r>>), rows \ {r})
    BY <1>7, <2>1, <2>2, AppendWrite, Zenon
  <2> QED
    BY <1>8, <2>3, Zenon
<1>10. Alternate(<<>>) /\ Match(<<>>, rows \ {r})
  BY DEF Alternate, Match
<1>11. Sees(t)'
  BY <1>1, <1>4, <1>5, <1>6, <1>8, <1>9, <1>10, Zenon DEF Sees
<1> QED
  BY <1>5, <1>11, Settled, Zenon

\* A write set that is not empty.
LEMMA NotEmpty ==
  ASSUME NEW X, NEW s \in Seq(X), s # <<>>
  PROVE  \E n \in Nat : Len(s) = n + 1
OBVIOUS

\* The rollback undoes the last write.
LEMMA UndoStep ==
  ASSUME Types, LockInv, Undisturbed, NEW t \in Threads, Undo(t), disturbed' = {}
  PROVE  Undisturbed'
<1>1. PICK n \in Nat : Len(writes[t]) = n + 1
  <2>1. writes[t] \in Seq(Kinds \X Rids) /\ writes[t] # <<>>
    BY Zenon DEF Types, TxnTypes, Undo
  <2> QED
    BY <2>1, NotEmpty, Zenon
<1>2. PICK k : k = writes[t][n + 1][1]
  BY Zenon
<1>3. PICK r : r = writes[t][n + 1][2]
  BY Zenon
<1>4. n + 1 \in 1 .. n + 1
  BY <1>1
<1>5. k \in Kinds /\ r \in Rids
  <2>1. writes[t][n + 1] \in Kinds \X Rids
    BY <1>1, <1>4, SMTT(30) DEF Types, TxnTypes
  <2> QED
    BY <1>2, <1>3, <2>1, Zenon
<1>6. r \in locked[t]
  BY <1>1, <1>3, <1>4, Zenon DEF LockInv
<1>7. /\ pc[t] = "idle" /\ aborting[t] /\ UNCHANGED <<mode, aborting, locked, rows>>
      /\ writes' = [writes EXCEPT ![t] = SubSeq(@, 1, Len(@) - 1)]
      /\ disturbed \cup Overlap(t) = {}
      /\ k = "insert" => release_page_handle(t, r)
      /\ k # "insert" => create_page_handle(t) /\ rid'[t] = r
  BY <1>1, <1>2, <1>3, Zenon DEF Undo
<1>8. Alone(t) /\ Sees(t)
  BY <1>7, StartsAlone, Zenon
<1>9. FileOK(page, hdr, rows, "idle", rid[t], load[t])
  BY <1>7, <1>8, Zenon DEF Sees
<1>10. \A u \in Threads : Alternate(writes[u]) /\ Match(writes[u], rows)
  <2>1. RowsAfter(rows, pc[t], rid[t], aborting[t]) = rows
    <3>1. pc[t] = "idle"
      BY <1>7, Zenon
    <3> QED
      BY <3>1, RowsAfterIs, SMTT(30)
  <2> QED
    BY <1>8, <2>1, Zenon DEF Sees
<1>11. /\ writes'[t] = SubSeq(writes[t], 1, n)
       /\ \A u \in Threads \ {t} : writes'[u] = writes[u]
  BY <1>1, <1>7, SMTT(30) DEF Types, TxnTypes
<1>12. ASSUME NEW rs, r \in rs <=> k = "delete", SameBut(rows, rs, r)
       PROVE  /\ \A u \in Threads : Alternate(writes'[u]) /\ Match(writes'[u], rs)
              /\ k = "insert" <=> r \in rows
  <2>1. writes[t] \in Seq(Kinds \X Rids) /\ writes[t] # <<>>
    BY Zenon DEF Types, TxnTypes, Undo
  <2>2. /\ Alternate(writes'[t]) /\ Match(writes'[t], rs)
        /\ k = "insert" <=> r \in rows
    <3>1. PICK X : X = Kinds \X Rids
      BY Zenon
    <3>2. writes[t] \in Seq(X)
      BY <2>1, <3>1, Zenon
    <3>3. Len(writes'[t]) = n /\ \A i \in 1 .. n : writes'[t][i] = writes[t][i]
      BY <1>1, <1>11, <3>2, SMTT(30)
    <3>4. \A i \in 1 .. n + 1 : writes[t][i] \in X
      BY <1>1, <3>2, SMTT(30)
    <3>5. \A i \in 1 .. n + 1 : writes[t][i][1] \in Kinds
      BY <3>1, <3>4, Zenon
    <3>6. Popped(writes[t], writes'[t], n, k, r)
      BY <1>1, <1>2, <1>3, <3>3, <3>5, Zenon DEF Popped
    <3> QED
      BY <1>10, <1>12, <3>6, PopWrite, Zenon
  <2>3. ASSUME NEW u \in Threads \ {t} PROVE Alternate(writes'[u]) /\ Match(writes'[u], rs)
    <3>1. \A i \in 1 .. Len(writes[u]) : writes[u][i][2] # r
      BY <1>6, NotWritten, Zenon
    <3>2. Match(writes[u], rs)
      BY <1>10, <1>12, <3>1, OtherWrites, Zenon
    <3> QED
      BY <1>10, <1>11, <3>2, Zenon
  <2> QED
    BY <2>2, <2>3, Zenon
<1>13. CASE k = "insert"
  <2>1. /\ \A u \in Threads : Alternate(writes'[u]) /\ Match(writes'[u], rows \ {r})
        /\ r \in rows
    BY <1>12, <1>13, Zenon DEF SameBut
  <2>2. PICK l \in {"pushed", "drop"} :
           /\ pc' = [pc EXCEPT ![t] = l] /\ rid'[t] = r
           /\ FileOK(page', hdr', rows, l, r, load'[t])
    BY <1>7, <1>9, <1>13, <2>1, ReleaseFile, Zenon
  <2>3. Alone(t)' /\ pc'[t] = l
    BY <1>8, <2>2, StaysAlone, Zenon
  <2>4. RowsAfter(rows', pc'[t], rid'[t], aborting'[t]) = rows \ {r}
    BY <1>7, <2>2, <2>3, RowsAfterIs, SMTT(30)
  <2>5. Sees(t)'
    BY <1>7, <2>1, <2>2, <2>3, <2>4, Zenon DEF Sees
  <2> QED
    BY <2>3, <2>5, Settled, Zenon
<1>14. CASE k = "delete"
  <2>1. \A u \in Threads : Alternate(writes'[u]) /\ Match(writes'[u], rows \cup {r})
    BY <1>12, <1>14, Zenon DEF SameBut
  <2>2. create_page_handle(t) /\ rid'[t] = r
    BY <1>7, <1>14, Zenon
  <2>3. PICK l \in {"lock", "grow"} :
           /\ pc' = [pc EXCEPT ![t] = l]
           /\ FileOK(page', hdr', rows, l, rid'[t], load'[t])
           /\ l = "grow" => rid'[t][1] = Len(page) + 1
    BY <1>7, <1>9, <2>2, CreateFile, Zenon
  <2>4. l = "lock"
    <3>1. r[1] \in 1 .. Len(page) /\ Len(page) \in Nat
      BY <1>5, RidParts, SMTT(30) DEF PageNos, Types, FileTypes
    <3> QED
      BY <2>2, <2>3, <3>1, SMTT(30)
  <2>5. Alone(t)' /\ pc'[t] = "lock"
    BY <1>8, <2>3, <2>4, StaysAlone, Zenon
  <2>6. RowsAfter(rows', pc'[t], rid'[t], aborting'[t]) = rows \cup {r}
    BY <1>7, <2>2, <2>5, RowsAfterIs, SMTT(30)
  <2>7. Sees(t)'
    BY <1>6, <1>7, <2>1, <2>2, <2>3, <2>4, <2>5, <2>6, Zenon DEF Sees
  <2> QED
    BY <2>5, <2>7, Settled, Zenon
<1> QED
  BY <1>5, <1>13, <1>14, Zenon DEF Kinds

\* A step of an operation that changes neither the transactions nor the records.
LEMMA FileStep ==
  ASSUME Types, Undisturbed, disturbed = {}, NEW t \in Threads, pc[t] # "idle",
         NEW l, pc' = [pc EXCEPT ![t] = l], UNCHANGED <<aborting, writes, locked, rows>>,
         FileOK(page, hdr, rows, pc[t], rid[t], load[t]) =>
           FileOK(page', hdr', rows, l, rid'[t], load'[t]),
         RowsAfter(rows, l, rid'[t], aborting[t]) = RowsAfter(rows, pc[t], rid[t], aborting[t])
           \/ (~aborting[t] /\ pc[t] \notin {"pushed", "drop"} /\ l \notin {"pushed", "drop"}),
         aborting[t] => l \notin {"grow", "grown", "lock"}
  PROVE  Undisturbed'
<1>1. Alone(t) /\ Sees(t)
  BY WorksAlone, Zenon
<1>2. Alone(t)' /\ pc'[t] = l
  BY <1>1, StaysAlone, Zenon
<1>3. RowsAfter(rows, l, rid'[t], aborting[t]) = RowsAfter(rows, pc[t], rid[t], aborting[t])
  BY Zenon DEF RowsAfter
<1>4. FileOK(page', hdr', rows', pc'[t], rid'[t], load'[t])
  BY <1>1, <1>2, Zenon DEF Sees
<1>5. \A u \in Threads : Alternate(writes'[u])
         /\ Match(writes'[u], RowsAfter(rows', pc'[t], rid'[t], aborting'[t]))
  BY <1>1, <1>2, <1>3, Zenon DEF Sees
<1>6. Sees(t)'
  BY <1>2, <1>4, <1>5, Zenon DEF Sees
<1> QED
  BY <1>2, <1>6, Settled, Zenon

\* A new page is put into the header.
LEMMA NewHeaderStep ==
  ASSUME Types, Undisturbed, NEW t \in Threads, create_new_page_handle(t), disturbed' = {}
  PROVE  Undisturbed'
<1>1. /\ pc[t] = "grow" /\ pc' = [pc EXCEPT ![t] = "grown"] /\ disturbed = {}
      /\ hdr' = [num_pages |-> load[t] + 1, first_free_page_no |-> rid[t][1]]
      /\ rid' = [rid EXCEPT ![t] = <<rid[t][1], next_bit(Slots \ page[rid[t][1]].bitmap, -1)>>]
      /\ UNCHANGED <<page, load, aborting, writes, locked, rows>>
  BY Zenon DEF create_new_page_handle, Goto, txnVars, FreeSlot
<1>2. ~aborting[t]
  BY <1>1, WorksAlone, Zenon DEF Sees
<1>3. rid'[t] = <<rid[t][1], next_bit(Slots \ page[rid[t][1]].bitmap, -1)>>
  BY <1>1, Zenon DEF Types, RunTypes
<1>4. page \in Seq(PageRecords) /\ hdr \in Headers
  BY Zenon DEF Types, FileTypes
<1>5. ASSUME FileOK(page, hdr, rows, "grow", rid[t], load[t])
      PROVE  FileOK(page, hdr', rows, "grown", rid'[t], load[t])
  <2>1. FileOK(page, [num_pages |-> load[t] + 1, first_free_page_no |-> rid[t][1]], rows, "grown",
               <<rid[t][1], next_bit(Slots \ page[rid[t][1]].bitmap, -1)>>, load[t])
    BY <1>4, <1>5, NewHeader, Zenon
  <2> QED
    BY <1>1, <1>3, <2>1, Zenon
<1> QED
  BY <1>1, <1>2, <1>5, FileStep, Zenon

\* The header is written.
LEMMA WriteHdrStep ==
  ASSUME Types, Undisturbed, NEW t \in Threads, write_hdr(t), disturbed' = {}
  PROVE  Undisturbed'
<1>1. /\ disturbed = {} /\ UNCHANGED <<page, hdr, rid, load, aborting, writes, locked, rows>>
  BY Zenon DEF write_hdr, txnVars
<1>2. \/ pc[t] = "grown" /\ pc' = [pc EXCEPT ![t] = "lock"]
      \/ pc[t] = "filled" /\ pc' = [pc EXCEPT ![t] = "idle"]
      \/ pc[t] = "pushed" /\ pc' = [pc EXCEPT ![t] = "drop"]
  BY Zenon DEF write_hdr, Goto
<1>3. CASE pc[t] = "grown" /\ pc' = [pc EXCEPT ![t] = "lock"]
  <2>1. ~aborting[t]
    BY <1>1, <1>3, WorksAlone, Zenon DEF Sees
  <2> QED
    BY <1>1, <1>3, <2>1, HeaderWritten, FileStep, Zenon
<1>4. CASE pc[t] = "filled" /\ pc' = [pc EXCEPT ![t] = "idle"]
  <2>1. RowsAfter(rows, "idle", rid[t], aborting[t]) = rows /\ RowsAfter(rows, "filled", rid[t], aborting[t]) = rows
    BY RowsAfterIs
  <2> QED
    BY <1>1, <1>4, <2>1, HeaderWritten, FileStep, Zenon
<1>5. CASE pc[t] = "pushed" /\ pc' = [pc EXCEPT ![t] = "drop"]
  <2>1. RowsAfter(rows, "pushed", rid[t], aborting[t]) = RowsAfter(rows, "drop", rid[t], aborting[t])
    BY Zenon DEF RowsAfter
  <2> QED
    BY <1>1, <1>5, <2>1, HeaderWritten, FileStep, Zenon
<1> QED
  BY <1>2, <1>3, <1>4, <1>5, Zenon

\* The record is counted.
LEMMA CountStep ==
  ASSUME Types, Undisturbed, NEW t \in Threads, insert_count(t), disturbed' = {}
  PROVE  Undisturbed'
<1>1. PICK p : p = rid[t][1]
  BY Zenon
<1>2. PICK s : s = rid[t][2]
  BY Zenon
<1>3. PICK new : /\ Replaced(page, page', p, new) /\ new.bitmap = page[p].bitmap
                 /\ new.num_records = load[t] + 1
                 /\ new.next_free_page_no = page[p].next_free_page_no
  BY <1>1, CountTypes, Zenon
<1>4. rid[t] = <<p, s>> /\ page \in Seq(PageRecords) /\ hdr \in Headers
  BY <1>1, <1>2, CountTypes, RidParts, Zenon DEF Types, FileTypes
<1>5. pc[t] = "count" /\ disturbed = {} /\ UNCHANGED <<rid, load, aborting, writes, locked, rows>>
  BY Zenon DEF insert_count, txnVars
<1>6. \A l \in {"idle", "filled", "count"} : RowsAfter(rows, l, rid[t], aborting[t]) = rows
  BY RowsAfterIs
<1>7. CASE load[t] + 1 = num_records_per_page
  <2>1. /\ hdr' = [hdr EXCEPT !.first_free_page_no = page[p].next_free_page_no]
        /\ pc' = [pc EXCEPT ![t] = "filled"]
    BY <1>1, <1>7, Zenon DEF insert_count, Goto
  <2>2. hdr'.first_free_page_no = page[p].next_free_page_no /\ hdr'.num_pages = hdr.num_pages
    BY <1>4, <2>1, HeaderFields, Zenon
  <2>3. ASSUME FileOK(page, hdr, rows, "count", rid[t], load[t])
        PROVE  FileOK(page', hdr', rows, "filled", rid[t], load[t])
    BY <1>3, <1>4, <1>7, <2>2, <2>3, RecordCounted, Zenon
  <2> QED
    BY <1>5, <1>6, <2>1, <2>3, FileStep, Zenon
<1>8. CASE load[t] + 1 # num_records_per_page
  <2>1. hdr' = hdr /\ pc' = [pc EXCEPT ![t] = "idle"]
    BY <1>1, <1>8, Zenon DEF insert_count, Goto
  <2>2. PICK h2 : h2 = [num_pages |-> hdr.num_pages, first_free_page_no |-> page[p].next_free_page_no]
    BY Zenon
  <2>3. h2.first_free_page_no = page[p].next_free_page_no /\ h2.num_pages = hdr.num_pages
    BY <2>2, Zenon
  <2>4. ASSUME FileOK(page, hdr, rows, "count", rid[t], load[t])
        PROVE  FileOK(page', hdr, rows, "idle", rid[t], load[t])
    BY <1>3, <1>4, <1>8, <2>3, <2>4, RecordCounted, Zenon
  <2> QED
    BY <1>5, <1>6, <2>1, <2>4, FileStep, Zenon
<1> QED
  BY <1>7, <1>8, Zenon

\* The record is dropped.
LEMMA DropStep ==
  ASSUME Types, Undisturbed, NEW t \in Threads, delete_drop(t), disturbed' = {}
  PROVE  Undisturbed'
<1>1. PICK p : p = rid[t][1]
  BY Zenon
<1>2. PICK s : s = rid[t][2]
  BY Zenon
<1>3. PICK new : /\ Replaced(page, page', p, new) /\ new.bitmap = page[p].bitmap \ {s}
                 /\ new.num_records = page[p].num_records - 1
                 /\ new.next_free_page_no = page[p].next_free_page_no
  BY <1>1, <1>2, DropTypes, Zenon
<1>4. rid[t] = <<p, s>> /\ page \in Seq(PageRecords)
  BY <1>1, <1>2, DropTypes, RidParts, Zenon DEF Types, FileTypes
<1>5. /\ pc[t] = "drop" /\ disturbed = {} /\ pc' = [pc EXCEPT ![t] = "idle"]
      /\ rows' = rows \ {rid[t]} /\ UNCHANGED <<hdr, rid, load, aborting, writes, locked>>
  BY Zenon DEF delete_drop, Goto
<1>6. Alone(t) /\ Sees(t)
  BY <1>5, WorksAlone, Zenon
<1>7. Alone(t)' /\ pc'[t] = "idle"
  BY <1>5, <1>6, StaysAlone, Zenon
<1>8. FileOK(page, hdr, rows, "drop", rid[t], load[t])
  BY <1>5, <1>6, Zenon DEF Sees
<1>9. FileOK(page', hdr', rows', pc'[t], rid'[t], load'[t])
  <2>1. FileOK(page', hdr, rows \ {rid[t]}, "idle", rid[t], load[t])
    BY <1>3, <1>4, <1>8, BitReset, Zenon
  <2> QED
    BY <1>5, <1>7, <2>1, Zenon
<1>10. /\ RowsAfter(rows, pc[t], rid[t], aborting[t]) = rows'
       /\ RowsAfter(rows', pc'[t], rid'[t], aborting'[t]) = rows'
  BY <1>5, <1>7, Zenon DEF RowsAfter
<1>11. \A u \in Threads : Alternate(writes'[u]) /\ Match(writes'[u], rows')
  BY <1>5, <1>6, <1>10, Zenon DEF Sees
<1>12. Sees(t)'
  BY <1>7, <1>9, <1>10, <1>11, Zenon DEF Sees
<1> QED
  BY <1>7, <1>12, Settled, Zenon

\* The insertion gets its lock.
LEMMA GrantStep ==
  ASSUME Types, LockInv, Undisturbed, NEW t \in Threads, insert_lock(t), disturbed' = {},
         ~\E u \in Threads \ {t} : rid[t] \in locked[u]
  PROVE  Undisturbed'
<1>1. PICK p : p = rid[t][1]
  BY Zenon
<1>2. PICK s : s = rid[t][2]
  BY Zenon
<1>3. PICK new : /\ Replaced(page, page', p, new) /\ new.bitmap = page[p].bitmap \cup {s}
                 /\ new.num_records = page[p].num_records
                 /\ new.next_free_page_no = page[p].next_free_page_no
  BY <1>1, <1>2, InsertTypes, Zenon
<1>4. rid[t] = <<p, s>> /\ rid[t] \in Rids /\ page \in Seq(PageRecords)
  BY <1>1, <1>2, InsertTypes, RidParts, Zenon DEF Types, FileTypes
<1>5. /\ pc[t] = "lock" /\ disturbed = {} /\ pc' = [pc EXCEPT ![t] = "count"]
      /\ rows' = rows \cup {rid[t]} /\ UNCHANGED <<hdr, rid, aborting>>
      /\ load' = [load EXCEPT ![t] = page[p].num_records] /\ Write(t, "insert", rid[t])
  BY <1>1, Zenon DEF insert_lock, Goto
<1>6. Alone(t) /\ Sees(t)
  BY <1>5, WorksAlone, Zenon
<1>7. Alone(t)' /\ pc'[t] = "count"
  BY <1>5, <1>6, StaysAlone, Zenon
<1>8. FileOK(page, hdr, rows, "lock", rid[t], load[t]) /\ load'[t] = page[p].num_records
  BY <1>5, <1>6, Zenon DEF Sees, Types, RunTypes
<1>9. FileOK(page', hdr, rows \cup {rid[t]}, "count", rid[t], page[p].num_records) /\ rid[t] \notin rows
  BY <1>3, <1>4, <1>8, BitSet, Zenon
<1>10. RowsAfter(rows', pc'[t], rid'[t], aborting'[t]) = rows \cup {rid[t]}
  BY <1>5, <1>7, Zenon DEF RowsAfter
<1>11. ASSUME NEW u \in Threads PROVE Alternate(writes'[u]) /\ Match(writes'[u], rows \cup {rid[t]})
  <2>1. CASE aborting[t]
    <3>1. RowsAfter(rows, pc[t], rid[t], aborting[t]) = rows \cup {rid[t]}
      BY <1>5, <2>1, Zenon DEF RowsAfter
    <3>2. writes' = writes
      BY <1>5, <2>1, Zenon DEF Write
    <3> QED
      BY <1>6, <3>1, <3>2, Zenon DEF Sees
  <2>2. CASE ~aborting[t]
    <3>1. RowsAfter(rows, pc[t], rid[t], aborting[t]) = rows
      BY <1>5, <2>2, Zenon DEF RowsAfter
    <3>2. Alternate(writes[u]) /\ Match(writes[u], rows)
      BY <1>6, <3>1, Zenon DEF Sees
    <3>3. SameBut(rows, rows \cup {rid[t]}, rid[t])
      BY Zenon DEF SameBut
    <3>4. CASE u = t
      <4>1. writes'[u] = Append(writes[u], <<"insert", rid[t]>>)
        BY <1>5, <2>2, <3>4, Zenon DEF Write, Types, TxnTypes
      <4>2. writes[u] \in Seq(Kinds \X Rids) /\ "insert" \in Kinds
        BY Zenon DEF Types, TxnTypes, Kinds
      <4>3. Alternate(Append(writes[u], <<"insert", rid[t]>>))
            /\ Match(Append(writes[u], <<"insert", rid[t]>>), rows \cup {rid[t]})
        BY <1>4, <1>9, <3>2, <3>3, <4>2, AppendWrite, Zenon
      <4> QED
        BY <4>1, <4>3, Zenon
    <3>5. CASE u # t
      <4>1. writes'[u] = writes[u]
        BY <1>5, <3>5, Zenon DEF Write, Types, TxnTypes
      <4>2. \A i \in 1 .. Len(writes[u]) : writes[u][i][2] # rid[t]
        BY <3>5, Zenon DEF LockInv
      <4> QED
        BY <3>2, <3>3, <4>1, <4>2, OtherWrites, Zenon
    <3> QED
      BY <3>4, <3>5, Zenon
  <2> QED
    BY <2>1, <2>2, Zenon
<1>12. Sees(t)'
  <2>1. FileOK(page', hdr', rows', pc'[t], rid'[t], load'[t])
    BY <1>5, <1>7, <1>8, <1>9, Zenon
  <2> QED
    BY <1>7, <1>10, <1>11, <2>1, Zenon DEF Sees
<1> QED
  BY <1>7, <1>12, Settled, Zenon

\* The lock is refused.
LEMMA RefuseStep ==
  ASSUME Types, LockInv, Undisturbed, NEW t \in Threads, insert_lock(t), disturbed' = {},
         \E u \in Threads \ {t} : rid[t] \in locked[u]
  PROVE  Undisturbed'
<1>1. /\ pc[t] = "lock" /\ pc' = [pc EXCEPT ![t] = "idle"] /\ disturbed = {}
      /\ UNCHANGED <<page, load, writes, locked, rows, hdr, rid>>
  BY Zenon DEF insert_lock, Goto
<1>2. Alone(t) /\ Sees(t)
  BY <1>1, WorksAlone, Zenon
<1>3. Alone(t)' /\ pc'[t] = "idle"
  BY <1>1, <1>2, StaysAlone, Zenon
<1>4. ~aborting[t]
  <2>1. rid[t] \notin locked[t]
    BY Zenon DEF LockInv
  <2> QED
    BY <1>1, <1>2, <2>1, Zenon DEF Sees
<1>5. FileOK(page, hdr, rows, "lock", rid[t], load[t])
  BY <1>1, <1>2, Zenon DEF Sees
<1>6. FileOK(page', hdr', rows', pc'[t], rid'[t], load'[t])
  BY <1>1, <1>3, <1>5, HeaderWritten, ZenonT(30)
<1>7. /\ RowsAfter(rows, pc[t], rid[t], aborting[t]) = rows
      /\ RowsAfter(rows', pc'[t], rid'[t], aborting'[t]) = rows
  BY <1>1, <1>3, <1>4, Zenon DEF RowsAfter
<1>8. \A u \in Threads : Alternate(writes'[u]) /\ Match(writes'[u], rows)
  BY <1>1, <1>2, <1>7, Zenon DEF Sees
<1>9. Sees(t)'
  BY <1>3, <1>6, <1>7, <1>8, Zenon DEF Sees
<1> QED
  BY <1>3, <1>9, Settled, Zenon

\* A transaction aborts or ends next to the operation of another.
LEMMA EndStep ==
  ASSUME Types, Undisturbed, disturbed' = {}, NEW t \in Threads, Abort(t) \/ Finish(t)
  PROVE  Undisturbed'
<1>1. pc[t] = "idle" /\ disturbed = {} /\ UNCHANGED <<page, hdr, rows, pc>>
  BY Zenon DEF Abort, Finish
<1>2. /\ \A u \in Threads \ {t} : /\ rid'[u] = rid[u] /\ load'[u] = load[u] /\ aborting'[u] = aborting[u]
                                  /\ writes'[u] = writes[u] /\ locked'[u] = locked[u]
      /\ writes'[t] = writes[t] \/ writes'[t] = <<>>
  BY SMTT(30) DEF Abort, Finish, Types, TxnTypes, RunTypes
<1>3. Alternate(<<>>) /\ \A rs : Match(<<>>, rs)
  BY DEF Alternate, Match
<1>4. ASSUME NEW u \in Threads, Alone(u)' PROVE Sees(u)'
  <2>1. Alone(u)
    BY <1>1, <1>4, Zenon DEF Alone
  <2>2. Sees(u)
    BY <1>1, <2>1, Zenon DEF Undisturbed
  <2>3. RowsAfter(rows', pc'[u], rid'[u], aborting'[u]) = RowsAfter(rows, pc[u], rid[u], aborting[u])
    <3>1. CASE u = t
      BY <1>1, <3>1, Zenon DEF RowsAfter
    <3>2. CASE u # t
      BY <1>1, <1>2, <3>2, Zenon
    <3> QED
      BY <3>1, <3>2, Zenon
  <2>4. FileOK(page', hdr', rows', pc'[u], rid'[u], load'[u])
    <3>1. FileOK(page, hdr, rows, pc[u], rid[u], load[u])
      BY <2>2, Zenon DEF Sees
    <3>2. CASE u = t
      BY <1>1, <3>1, <3>2, IdleAnywhere, SMTT(30)
    <3>3. CASE u # t
      BY <1>1, <1>2, <3>1, <3>3, Zenon
    <3> QED
      BY <3>2, <3>3, Zenon
  <2>5. aborting'[u] =>
          pc'[u] \notin {"grow", "grown"} /\ (pc'[u] = "lock" => rid'[u] \in locked'[u])
    BY <1>1, <1>2, <2>2, Zenon DEF Sees
  <2>6. ASSUME NEW w \in Threads
        PROVE  /\ Alternate(writes'[w])
               /\ Match(writes'[w], RowsAfter(rows', pc'[u], rid'[u], aborting'[u]))
    <3>1. writes'[w] = writes[w] \/ writes'[w] = <<>>
      BY <1>2, Zenon
    <3> QED
      BY <1>3, <2>2, <2>3, <3>1, Zenon DEF Sees
  <2> QED
    BY <2>4, <2>5, <2>6, Zenon DEF Sees
<1>5. \A u, v \in Threads : pc'[u] # "idle" /\ pc'[v] # "idle" => u = v
  BY <1>1, Zenon DEF Undisturbed
<1>6. Quiet' => FileOK(page', hdr', rows', "idle", NoRid, 0)
  BY <1>1, Zenon DEF Undisturbed, Quiet
<1> QED
  BY <1>4, <1>5, <1>6, Zenon DEF Undisturbed

\* Every step keeps the types.
LEMMA TypesStep ==
  ASSUME Types, Next
  PROVE  Types'
<1>1. PICK t \in Threads :
         \/ Insert(t) \/ Abort(t) \/ Undo(t) \/ Finish(t)
         \/ \E r \in rows : Delete(t, r)
         \/ create_new_page_handle(t) \/ write_hdr(t) \/ insert_lock(t) \/ insert_count(t)
         \/ delete_drop(t)
  BY Zenon DEF Next
<1>2. insert_lock(t) => Types'
  BY InsertTypes, RefusedTypes, Zenon
<1> QED
  BY <1>1, <1>2, CallerTypes, NewHeaderTypes, WriteHdrTypes, CountTypes, DropTypes, Zenon

\* Every step keeps an undisturbed file in order.
LEMMA UndisturbedStep ==
  ASSUME Types, LockInv, Undisturbed, Next
  PROVE  Undisturbed'
<1>1. SUFFICES ASSUME disturbed' = {} PROVE Undisturbed'
  BY Zenon DEF Undisturbed
<1>2. PICK t \in Threads :
         \/ Insert(t) \/ Abort(t) \/ Undo(t) \/ Finish(t)
         \/ \E r \in rows : Delete(t, r)
         \/ create_new_page_handle(t) \/ write_hdr(t) \/ insert_lock(t) \/ insert_count(t)
         \/ delete_drop(t)
  BY Zenon DEF Next
<1>3. insert_lock(t) => Undisturbed'
  BY <1>1, GrantStep, RefuseStep, Zenon
<1>4. (\E r \in rows : Delete(t, r)) => Undisturbed'
  BY <1>1, DeleteStep, Zenon
<1> QED
  BY <1>1, <1>2, <1>3, <1>4, InsertStep, UndoStep, EndStep, NewHeaderStep, WriteHdrStep, CountStep,
     DropStep, Zenon

\* A step that changes nothing.
LEMMA Stutter ==
  ASSUME Inv, UNCHANGED vars
  PROVE  Inv'
BY Zenon DEF Inv, vars, txnVars, Types, FileTypes, RunTypes, TxnTypes, HeaderSaved, LockInv, Undisturbed,
       PageNos, Rids, Bits, PageRecords, Headers, Labels, Kinds, Alone, Sees, Quiet

\* The file is empty at first.
LEMMA InitInv ==
  ASSUME Init
  PROVE  Inv
<1>1. /\ page = <<>> /\ Len(page) = 0 /\ hdr.num_pages = 1 /\ hdr.first_free_page_no = RM_NO_PAGE
      /\ hdr \in Headers /\ disk_hdr = hdr
  BY DEF Init, create_file, Headers, RM_NO_PAGE
<1>2. PageNos = {} /\ page \in Seq(PageRecords) /\ Rids = {}
  BY <1>1, SMTT(30) DEF PageNos, Rids
<1>3. FileTypes
  BY <1>1, <1>2, PagesAreBounded, SMTT(30) DEF FileTypes
<1>4. RunTypes
  BY DEF Init, RunTypes, Labels
<1>5. TxnTypes
  BY <1>2 DEF Init, TxnTypes
<1>6. HeaderSaved
  BY <1>1, Zenon DEF HeaderSaved
<1>7. LockInv
  BY DEF Init, LockInv
<1>8. ASSUME NEW r, NEW v PROVE FileOK(page, hdr, rows, "idle", r, v)
  <2>1. Listed(page, "idle", r[1]) = Room(page) /\ Room(page) = {}
    BY <1>1 DEF Listed, Room
  <2>2. IsList({}, RM_NO_PAGE, NextOf(page))
    BY Zenon DEF IsList, Closed
  <2>3. Counted(page, "idle", r[1]) /\ RowsOf(page) = {}
    BY <1>1 DEF Counted, RowsOf
  <2>4. Placed(page, hdr, "idle", r[1], r[2], v)
    BY Zenon DEF Placed
  <2>5. rows = RowsOf(page) /\ hdr.num_pages = Len(page) + 1
    BY <1>1, <2>3 DEF Init
  <2>6. IsList(Listed(page, "idle", r[1]), hdr.first_free_page_no, NextOf(page))
    BY <1>1, <2>1, <2>2, Zenon
  <2> QED
    BY <2>3, <2>4, <2>5, <2>6, Zenon DEF FileOK
<1>9. ASSUME NEW t \in Threads PROVE Sees(t)
  <2>1. pc[t] = "idle" /\ ~aborting[t] /\ \A u \in Threads : writes[u] = <<>>
    BY Zenon DEF Init
  <2>2. Alternate(<<>>) /\ \A rs : Match(<<>>, rs)
    BY DEF Alternate, Match
  <2> QED
    BY <1>8, <2>1, <2>2, Zenon DEF Sees
<1>10. Undisturbed
  BY <1>8, <1>9, Zenon DEF Undisturbed, Init
<1> QED
  BY <1>3, <1>4, <1>5, <1>6, <1>7, <1>10, Zenon DEF Inv, Types

\* The inductive invariant of the record file: page numbers stay in the file; a changed
\* header is about to be written; locks keep the transactions' records apart; and while no
\* two operations overlap and no rollback has moved a record, the list, the counts, the
\* bitmaps and the write sets agree at every point of an operation.
THEOREM RecordPagesInvariant == Spec => []Inv
<1>1. Init => Inv
  BY InitInv, Zenon
<1>2. Inv /\ [Next]_vars => Inv'
  <2>1. ASSUME Inv, Next PROVE Inv'
    BY <2>1, TypesStep, HeaderStep, LockStep, UndisturbedStep, Zenon DEF Inv
  <2> QED
    BY <2>1, Stutter, Zenon
<1> QED
  BY <1>1, <1>2, PTL DEF Spec

-----------------------------------------------------------------------------
(* What the invariant says between operations. *)

\* The list of an undisturbed file has the pages with room.
LEMMA FreeListIsRoom ==
  ASSUME Types, FileOK(page, hdr, rows, "idle", NoRid, 0)
  PROVE  free_list = Room(page)
<1>1. PICK next : next = NextOf(page)
  BY Zenon
<1>2. DOMAIN next = DOMAIN page /\ \A p \in DOMAIN page : next[p] = page[p].next_free_page_no
  BY <1>1 DEF NextOf, Types, FileTypes
<1>3. IsList(Room(page), hdr.first_free_page_no, next)
  BY <1>1, Zenon DEF FileOK, Listed
<1>4. Room(page) \in SUBSET DOMAIN page
  BY DEF Room, Types, FileTypes
<1>5. \A S \in SUBSET DOMAIN page :
        Closed(S, hdr.first_free_page_no, next) <=>
          /\ hdr.first_free_page_no \in S \cup {RM_NO_PAGE}
          /\ \A p \in S : page[p].next_free_page_no \in S \cup {RM_NO_PAGE}
  BY <1>2, Zenon DEF Closed
<1>6. free_list = {p \in DOMAIN page : \A S \in SUBSET DOMAIN page :
                      Closed(S, hdr.first_free_page_no, next) => p \in S}
  BY <1>5, Zenon DEF free_list
<1>7. Closed(Room(page), hdr.first_free_page_no, next)
  BY <1>3, Zenon DEF IsList
<1>8. \A S \in SUBSET DOMAIN page :
        Closed(S, hdr.first_free_page_no, next) => Room(page) \subseteq S
  BY <1>2, <1>3, Zenon DEF IsList
<1> QED
  BY <1>4, <1>6, <1>7, <1>8, Zenon

\* Between operations the header on disk is the one in memory, unless its last write went to
\* another place.  While the operations have not overlapped and no rollback has moved a record,
\* the list has exactly the pages with room and every page counts its records, for every
\* number of transactions, pages and records per page.
THEOREM FreeListIsExactThm == Spec => []FreeListIsExact
<1>1. Inv => FreeListIsExact
  <2>1. SUFFICES ASSUME Inv PROVE FreeListIsExact
    BY Zenon
  <2>2. Types /\ HeaderSaved /\ Undisturbed
    BY <2>1, Zenon DEF Inv
  <2>3. Len(page) \in Nat /\ DOMAIN page = 1 .. Len(page) /\ MaxPages \in Nat
    BY <2>2, PagesAreBounded, SMTT(30) DEF Types, FileTypes
  <2>4. TypeOK
    <3>1. /\ hdr.first_free_page_no \in 1 .. Len(page) \cup {RM_NO_PAGE}
          /\ hdr.num_pages \in 1 .. MaxPages + 1
      BY <2>2, <2>3, SMTT(30) DEF Types, FileTypes, PageNos
    <3>2. ASSUME NEW p \in DOMAIN page
          PROVE  /\ page[p].bitmap \subseteq 0 .. num_records_per_page
                 /\ page[p].next_free_page_no \in 1 .. Len(page) \cup {RM_NO_PAGE}
      BY <2>2, <2>3, PageFields, SMTT(30) DEF Types, FileTypes, PageNos, Bits
    <3>3. ASSUME NEW t \in Threads
          PROVE  pc[t] \in Labels /\ mode[t] \in {"none", "IX", "SIX"}
      BY <2>2, Zenon DEF Types, RunTypes, TxnTypes
    <3> QED
      BY <3>1, <3>2, <3>3, Zenon DEF TypeOK, Labels
  <2>5. Quiet => disk_hdr = hdr \/ lost
    BY <2>2, Zenon DEF HeaderSaved, Quiet
  <2>6. ASSUME Quiet, disturbed = {}
        PROVE  /\ free_list = {p \in DOMAIN page : page[p].bitmap # Slots}
               /\ \A p \in DOMAIN page : page[p].num_records = Cardinality(page[p].bitmap)
    <3>1. FileOK(page, hdr, rows, "idle", NoRid, 0)
      BY <2>2, <2>6, Zenon DEF Undisturbed
    <3>2. free_list = Room(page)
      BY <2>2, <3>1, FreeListIsRoom, Zenon
    <3> QED
      BY <2>3, <3>1, <3>2, Zenon DEF FileOK, Counted, Room
  <2> QED
    BY <2>4, <2>5, <2>6, Zenon DEF FreeListIsExact
<1> QED
  BY <1>1, RecordPagesInvariant, PTL

\* RmScan::next goes from x to the first record behind it.
LEMMA ScanGoesOn ==
  ASSUME Types, FileOK(page, hdr, rows, "idle", NoRid, 0), NEW x \in rows \cup {ScanStart},
         NEW rest, rest = {r \in rows : Behind(r, x)}
  PROVE  IF rest = {} THEN scan_next(x) = ScanEnd
         ELSE scan_next(x) \in rest /\ \A r \in rest \ {scan_next(x)} : Behind(r, scan_next(x))
<1>1. PICK n \in Nat : n = Len(page)
  BY SMTT(30) DEF Types, FileTypes
<1>2. rows = RowsOf(page) /\ hdr.num_pages - 1 = n /\ \A p \in 1 .. n : page[p].bitmap \subseteq Slots
  BY <1>1, SMTT(30) DEF FileOK, Counted
<1>3. \A r \in rows : r = <<r[1], r[2]>> /\ r[1] \in 1 .. n /\ r[2] \in Slots /\ r[2] \in page[r[1]].bitmap
  BY <1>1, <1>2, SMTT(30) DEF RowsOf
<1>4. \A p \in 1 .. n, s \in Slots : s \in page[p].bitmap => <<p, s>> \in rows
  BY <1>1, <1>2, Zenon DEF RowsOf
<1>5. PICK a : a = x[1]
  BY Zenon
<1>6. PICK b : b = x[2]
  BY Zenon
<1>7. a \in Nat /\ a >= 1 /\ b \in Int
  BY <1>1, <1>3, <1>5, <1>6, PageHasSlots, SMTT(30) DEF ScanStart, RM_FIRST_RECORD_PAGE, Slots
<1> DEFINE curr(p) == IF p = a THEN b ELSE -1
           slot(p) == next_bit(page[p].bitmap, curr(p))
<1>8. \A p : curr(p) \in Int
  BY <1>7, SMTT(30)
<1> HIDE DEF curr
<1>9. PICK found : found = {p \in a .. n : slot(p) < num_records_per_page}
  BY Zenon
<1>10. scan_next(x) = IF found = {} THEN ScanEnd ELSE <<Min(found), slot(Min(found))>>
  BY <1>2, <1>5, <1>6, <1>9, Zenon DEF scan_next, curr
<1>11. ASSUME NEW p \in found PROVE <<p, slot(p)>> \in rest
  <2>1. p \in 1 .. n /\ p >= a /\ p \in Nat /\ slot(p) < num_records_per_page
    BY <1>1, <1>7, <1>9, SMTT(30)
  <2>2. slot(p) \in Slots /\ slot(p) \in page[p].bitmap /\ slot(p) > curr(p)
    BY <1>8, <2>1, NextBit, Zenon
  <2>3. <<p, slot(p)>> \in rows
    BY <1>4, <2>1, <2>2, Zenon
  <2>4. PICK s : s = slot(p)
    BY Zenon
  <2>5. a < p \/ (a = p /\ b < s)
    BY <1>7, <2>1, <2>2, <2>4, PageHasSlots, SMTT(30) DEF curr, Slots
  <2> QED
    BY <1>5, <1>6, <2>3, <2>4, <2>5, Zenon DEF Behind
<1>12. ASSUME NEW r \in rest PROVE r[1] \in found /\ slot(r[1]) <= r[2]
  <2>1. /\ r[1] \in 1 .. n /\ r[2] \in Slots /\ r[2] \in page[r[1]].bitmap
        /\ a < r[1] \/ (a = r[1] /\ b < r[2])
    BY <1>3, <1>5, <1>6, <1>12, Zenon DEF Behind
  <2>2. PICK p : p = r[1]
    BY Zenon
  <2>3. PICK s : s = r[2]
    BY Zenon
  <2>4. p \in a .. n /\ s > curr(p) /\ s < num_records_per_page /\ s \in Int
    BY <1>1, <1>7, <2>1, <2>2, <2>3, PageHasSlots, SMTT(30) DEF curr, Slots
  <2>5. slot(p) <= s /\ slot(p) \in Int
    <3>1. slot(p) <= s
      BY <1>8, <2>1, <2>2, <2>3, <2>4, NextBit, SMTT(30)
    <3> QED
      BY <1>8, <3>1, NextBit, SMTT(30) DEF Bits
  <2>6. slot(p) < num_records_per_page
    BY <2>4, <2>5, PageHasSlots, SMTT(30)
  <2> QED
    BY <1>9, <2>2, <2>3, <2>4, <2>5, <2>6, Zenon
<1>13. CASE rest = {}
  BY <1>10, <1>11, <1>13, Zenon
<1>14. CASE rest # {}
  <2>1. found # {} /\ found \in SUBSET Nat
    BY <1>1, <1>7, <1>9, <1>12, <1>14, SMTT(30)
  <2>2. PICK m : m = Min(found)
    BY Zenon
  <2>3. m \in found /\ \A p \in found : m <= p
    BY <2>1, <2>2, LeastNumber, Zenon
  <2>4. PICK s : s = slot(m)
    BY Zenon
  <2>5. scan_next(x) = <<m, s>> /\ <<m, s>> \in rest
    BY <1>10, <1>11, <2>1, <2>2, <2>3, <2>4, Zenon
  <2>6. ASSUME NEW r \in rest, r # <<m, s>> PROVE Behind(r, <<m, s>>)
    <3>1. r \in rows /\ r = <<r[1], r[2]>> /\ r[1] \in Nat /\ r[2] \in Int
      BY <1>1, <1>3, PageHasSlots, SMTT(30) DEF Slots
    <3>2. m <= r[1] /\ slot(r[1]) <= r[2]
      BY <1>12, <2>3, Zenon
    <3>3. CASE r[1] = m
      <4>1. s <= r[2] /\ r[2] # s
        BY <2>4, <2>6, <3>1, <3>2, <3>3, Zenon
      <4>2. s \in Int
        BY <1>8, <2>4, NextBit, SMTT(30) DEF Bits
      <4> QED
        BY <3>1, <3>3, <4>1, <4>2, SMTT(30) DEF Behind
    <3>4. CASE r[1] # m
      <4>1. m \in Nat
        BY <2>1, <2>3, Zenon
      <4> QED
        BY <3>1, <3>2, <3>4, <4>1, SMTT(30) DEF Behind
    <3> QED
      BY <3>3, <3>4, Zenon
  <2> QED
    BY <1>14, <2>5, <2>6, Zenon
<1> QED
  BY <1>13, <1>14, Zenon

\* While the operations have not overlapped and no rollback has moved a record, a scan goes
\* through all records of the file, in ascending order, and ends, for every number of
\* transactions, pages and records per page.
THEOREM ScanVisitsEveryRecordThm == Spec => []ScanVisitsEveryRecord
<1>1. Inv => ScanVisitsEveryRecord
  <2>1. SUFFICES ASSUME Inv, Quiet, disturbed = {}, NEW x \in rows \cup {ScanStart}
                 PROVE  LET rest == {r \in rows : Behind(r, x)}
                        IN  IF rest = {} THEN scan_next(x) = ScanEnd
                            ELSE /\ scan_next(x) \in rest
                                 /\ \A r \in rest \ {scan_next(x)} : Behind(r, scan_next(x))
    BY Zenon DEF ScanVisitsEveryRecord
  <2>2. Types /\ FileOK(page, hdr, rows, "idle", NoRid, 0)
    BY <2>1, Zenon DEF Inv, Undisturbed
  <2> QED
    BY <2>2, ScanGoesOn, Zenon
<1> QED
  BY <1>1, RecordPagesInvariant, PTL

-----------------------------------------------------------------------------
(* The layout of a page. *)

\* The quotient times the divisor does not exceed the dividend.
LEMMA DivBound ==
  ASSUME NEW a \in Nat, NEW b \in Nat, b > 0
  PROVE  /\ a \div b \in Nat
         /\ b * (a \div b) <= a
         /\ a < b * (a \div b) + b
OBVIOUS

\* The slots of a record page lie in the page.
THEOREM RecordPageFitsThm == RecordPageFits
<1>1. SUFFICES ASSUME NEW r \in RecordSizes
               PROVE  /\ RecordsPerPage(r) >= 1
                      /\ get_slot(r, RecordsPerPage(r)) <= PAGE_SIZE
  BY Zenon DEF RecordPageFits
<1> DEFINE n == RecordsPerPage(r)
           d == 1 + r * 8
<1>2. /\ r \in Nat /\ 1 <= r /\ r <= 512
      /\ d \in Nat /\ d > 0 /\ d <= 4097
  BY DEF RecordSizes, RM_MAX_RECORD_SIZE
<1>3. n = 32601 \div d
  BY DEF RecordsPerPage, BITMAP_WIDTH, PAGE_SIZE, SizeofRmFileHdr
<1> HIDE DEF n
<1>4. /\ n \in Nat
      /\ d * n <= 32601
      /\ 32601 < d * n + d
  BY <1>2, <1>3, DivBound, SMTT(30)
<1>5. n >= 1
  BY <1>2, <1>4, SMTT(30)
<1>6. d * n = n + 8 * (n * r)
  BY <1>2, <1>4, SMTT(30)
<1>7. bitmap_size(r) = (n + 7) \div 8
  BY <1>4, SMTT(30) DEF bitmap_size, BITMAP_WIDTH, n
<1>8. 8 * bitmap_size(r) <= n + 7 /\ bitmap_size(r) \in Nat
  BY <1>4, <1>7, SMTT(30)
<1>9. n * r \in Nat
  BY <1>2, <1>4, SMTT(30)
<1>10. get_slot(r, n) = 12 + bitmap_size(r) + n * r
  BY <1>8, <1>9, SMTT(30) DEF get_slot, OFFSET_PAGE_HDR, SizeofRmPageHdr
<1>11. get_slot(r, n) <= 4096
  BY <1>4, <1>6, <1>8, <1>9, <1>10, SMTT(30)
<1> QED
  BY <1>5, <1>11, SMTT(30) DEF PAGE_SIZE, n

\* The pairs of a node lie in the page.
THEOREM IndexNodeFitsThm == IndexNodeFits
<1>1. SUFFICES ASSUME NEW len \in ColLengths
               PROVE  btree_order_of(len) > 2 /\ get_rid_end(len) <= PAGE_SIZE
  BY Zenon DEF IndexNodeFits
<1> DEFINE d == len + 8
           q == 4072 \div d
<1>2. len \in Nat /\ 1 <= len /\ len <= 512 /\ d \in Nat /\ d > 0 /\ d <= 520
  BY DEF ColLengths, IX_MAX_COL_LEN
<1>3. q \in Nat /\ d * q <= 4072 /\ 4072 < d * q + d
  BY <1>2, DivBound, SMTT(30)
<1>4. btree_order_of(len) = q - 1
  BY <1>2 DEF btree_order_of, PAGE_SIZE, SizeofIxPageHdr, SizeofRid
<1> HIDE DEF q
<1>5. q >= 4
  <2>1. SUFFICES ASSUME q \in {0, 1, 2, 3} PROVE FALSE
    BY <1>3, SMTT(30)
  <2> QED BY <1>2, <1>3, <2>1, SMTT(30)
<1>6. get_rid_end(len) = 24 + q * len + q * 8
  BY <1>2, <1>3, <1>4, SMTT(30) DEF get_rid_end, SizeofIxPageHdr, SizeofRid
<1>7. d * q = q * len + q * 8
  BY <1>2, <1>3, SMTT(30)
<1>8. get_rid_end(len) <= 4096
  BY <1>2, <1>3, <1>6, <1>7, SMTT(30)
<1> QED
  BY <1>3, <1>4, <1>5, <1>8, SMTT(30) DEF PAGE_SIZE

=============================================================================
