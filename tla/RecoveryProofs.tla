--------------------------- MODULE RecoveryProofs ---------------------------
(***************************************************************************)
(* What holds of the log and of the pages on disk for every number of      *)
(* transactions, pages, rows, changes and restarts.                        *)
(***************************************************************************)
EXTENDS Recovery, WellFoundedInduction, TLAPS

Types == DataTypes \cup {"BEGIN", "COMMIT", "ABORT"}
Changes == {"DELETE", "UPDATE"}
PageNos == 1 .. MaxPages
Lsns == Nat \cup {INVALID_LSN}

Rows == UNION {[S -> Nat] : S \in SUBSET Slots}
Pages == [lsn : Lsns, rows : Rows, made : SUBSET Nat]
Writes == [type : DataTypes, page_no : PageNos, slot : Slots, change : Nat, old : Nat]
Records == [type : Types, lsn : Nat, tid : Tids, prev_lsn : Lsns, page_no : Nat,
            change : Nat, run : Nat]
Txns == [state : States, prev_lsn : Lsns, writes : Seq(Writes), stale : BOOLEAN]

\* The pages that the file header counts.
Counted == 1 .. num_pages

\* They are on disk; a crash may have left one more there.
PageTypes ==
  /\ num_pages \in Nat /\ num_pages <= MaxPages
  /\ Counted \subseteq DOMAIN disk /\ DOMAIN disk \subseteq PageNos
  /\ disk \in [DOMAIN disk -> Pages]
  /\ DOMAIN pages \subseteq Counted /\ DOMAIN pages \subseteq PageNos
  /\ pages \in [DOMAIN pages -> Pages]

ProcessTypes ==
  /\ server \in {"up", "down"}
  /\ died \in {"no", "analyze", "redo", "undo"} /\ (died # "no" => server = "down")
  /\ latch \in Tids \cup {Free}
  /\ log \in Seq(Records)
  /\ global_lsn \in Nat /\ next_txn_id \in Nat /\ run \in Nat /\ changes \in Nat
  /\ txn \in [Tids -> Txns]
  /\ locks \in [Tids -> {"none", "IX", "SIX"}]

\* lsns and pages that a transaction names are there.
Bounds ==
  \A t \in Tids :
    /\ txn[t].prev_lsn < global_lsn
    /\ \A i \in 1 .. Len(txn[t].writes) : txn[t].writes[i].page_no \in Counted
    /\ txn[t].state \in {"log", "change", "stamp", "restamp"} => txn[t].writes # <<>>

\* The log names pages that the header counts.
LogCounted ==
  \A i \in 1 .. Len(log) : log[i].type \in DataTypes => log[i].page_no \in Counted

\* The records of t that the present process has written.
Own(t) == {j \in 1 .. Len(log) : log[j].tid = t /\ log[j].run = run}

\* prev_lsn is the lsn of the last of them.
Linked(t) ==
  \/ /\ txn[t].state = "none" /\ txn[t].prev_lsn = INVALID_LSN
     /\ Own(t) = {}
  \/ /\ txn[t].state # "none" /\ t < next_txn_id
     /\ \E m \in Own(t) : txn[t].prev_lsn = log[m].lsn /\ \A j \in Own(t) : j <= m

\* The records in front of record i of the same transaction.
Before(i) == {j \in 1 .. i - 1 : log[j].tid = log[i].tid /\ log[j].run = log[i].run}

Chained(i) ==
  IF log[i].type = "BEGIN" THEN Before(i) = {} /\ log[i].prev_lsn = INVALID_LSN
  ELSE \E m \in Before(i) : log[i].prev_lsn = log[m].lsn /\ \A j \in Before(i) : j <= m

ChainInv ==
  /\ \A i \in 1 .. Len(log) : log[i].run <= run /\ Chained(i)
  /\ server # "down" => \A t \in Tids : Linked(t)

\* A deletion or update is in the log from the moment it is in the write set.
LoggedFirst ==
  \A t \in Tids : \A i \in 1 .. Len(txn[t].writes) :
    txn[t].writes[i].type # "INSERT" =>
      \E k \in 1 .. Len(log) : log[k].change = txn[t].writes[i].change

\* Whoever has the table SIX is alone, and whoever may still write a page has it locked.
LockInv ==
  /\ \A t, u \in Tids : t # u /\ locks[t] = "SIX" => locks[u] = "none"
  /\ \A t \in Tids :
       /\ txn[t].state \in {"change", "stamp"} => locks[t] = "SIX"
       /\ txn[t].state \in {"active", "log", "undo", "restamp"} /\ txn[t].writes # <<>> => locks[t] # "none"
       /\ txn[t].state = "none" => txn[t].writes = <<>>

\* A change in the log is on page v, if page v has an lsn up to which it goes.
Covered(p, v) ==
  \A i \in 1 .. Len(log) :
    log[i].type \in DataTypes /\ log[i].page_no = p /\ log[i].lsn <= v.lsn => log[i].change \in v.made

\* t has logged a change that it has not made yet.
Pending(t, p, change) ==
  /\ txn[t].state = "change"
  /\ Last(txn[t].writes).page_no = p /\ Last(txn[t].writes).change = change

Made(p, change) == p \in DOMAIN pages /\ change \in pages[p].made

\* No page is stamped with an lsn that was not given yet, nor with one that is too great.
DiskCovered == \A p \in DOMAIN disk : Covered(p, disk[p])
PoolCovered ==
  /\ DOMAIN disk \subseteq DOMAIN pages
  /\ \A p \in DOMAIN disk : disk[p].lsn < global_lsn
  /\ \A p \in DOMAIN pages : pages[p].lsn < global_lsn /\ Covered(p, pages[p])

\* Every change in the log is made in the pool or pending.
LogMade ==
  \A i \in 1 .. Len(log) : log[i].type \in DataTypes =>
    \/ Made(log[i].page_no, log[i].change)
    \/ \E t \in Tids : Pending(t, log[i].page_no, log[i].change)

\* A change that is to be logged is made.
MadeFirst ==
  \A t \in Tids : txn[t].state = "log" => Made(Last(txn[t].writes).page_no, Last(txn[t].writes).change)

\* For the first process: the lsns of the next one start again at 0.
CoverInv ==
  run = 1 =>
    /\ DiskCovered
    /\ server # "down" => PoolCovered /\ LogMade /\ MadeFirst

\* Before the first process there is neither a log nor a page.
FirstRun == run = 0 /\ died = "no" => log = <<>> /\ DOMAIN disk = {} /\ server = "down"

Inv ==
  /\ PageTypes /\ ProcessTypes /\ Bounds /\ LogCounted /\ ChainInv /\ LoggedFirst /\ LockInv
  /\ CoverInv /\ FirstRun

\* A function that is changed in one place.
LEMMA WithOf ==
  ASSUME NEW f, NEW x, NEW e
  PROVE  /\ DOMAIN With(f, x, e) = DOMAIN f \cup {x}
         /\ With(f, x, e)[x] = e
         /\ \A y \in DOMAIN f \ {x} : With(f, x, e)[y] = f[y]
BY Zenon DEF With

\* Tids and page numbers are integers.
LEMMA Numbers ==
  /\ Tids \subseteq Nat /\ PageNos \subseteq Nat /\ MaxPages \in Nat /\ Slots \subseteq Nat /\ Slots # {}
  /\ INVALID_LSN \in Int /\ INVALID_LSN < 0 /\ Lsns \subseteq Int
BY BoundsAreNumbers, PageHasSlots DEF Tids, PageNos, Slots, INVALID_LSN, Lsns

\* A row is added to a page, changed or removed.
LEMMA RowsKept ==
  ASSUME NEW rows \in Rows, NEW s, NEW n \in Nat
  PROVE  /\ s \in Slots => With(rows, s, n) \in Rows
         /\ Without(rows, s) \in Rows
         /\ [rows EXCEPT ![s] = n] \in Rows
<1>1. PICK S \in SUBSET Slots : rows \in [S -> Nat]
  BY Zenon DEF Rows
<1>2. ASSUME s \in Slots PROVE With(rows, s, n) \in Rows
  <2>1. With(rows, s, n) \in [S \cup {s} -> Nat]
    BY <1>1, Zenon DEF With
  <2> QED
    BY <1>2, <2>1, Zenon DEF Rows
<1>3. Without(rows, s) \in Rows
  <2>1. Without(rows, s) \in [S \ {s} -> Nat]
    BY <1>1, Zenon DEF Without
  <2> QED
    BY <2>1, Zenon DEF Rows
<1>4. [rows EXCEPT ![s] = n] \in Rows
  <2>1. [rows EXCEPT ![s] = n] \in [S -> Nat]
    BY <1>1, Zenon
  <2> QED
    BY <2>1, Zenon DEF Rows
<1> QED
  BY <1>2, <1>3, <1>4, Zenon

\* A set of numbers that has an element has a least one.
LEMMA LeastNumber ==
  ASSUME NEW S \in SUBSET Nat, S # {}
  PROVE  Min(S) \in S
<1>1. PICK q \in S : \A p \in S : ~(<<p, q>> \in OpToRel(<, Nat))
  BY NatLessThanWellFounded, WFMin, Zenon
<1>2. ASSUME NEW p \in S PROVE q <= p
  <2>1. p \in Nat /\ q \in Nat
    BY Zenon
  <2>2. ~(p < q)
    BY <1>1, <2>1, Zenon DEF OpToRel
  <2> QED
    BY <2>1, <2>2
<1> QED
  BY <1>2, Zenon DEF Min

\* A page in the pool or on disk.
LEMMA PageOf ==
  ASSUME PageTypes, NEW p \in Counted
  PROVE  fetch_page(p) \in Pages /\ p \in PageNos
BY Zenon DEF PageTypes, fetch_page

\* Page p is changed to v: the page has what was made on it before.
Put(p, v) ==
  /\ pages' = With(pages, p, v)
  /\ v \in Pages /\ p \in PageNos /\ p \in Counted'
  /\ p \in DOMAIN pages => pages[p].made \subseteq v.made

\* Page p is there, or it is a new one.
Fetched(p) == UNCHANGED <<disk, num_pages>> \/ (p = num_pages + 1 /\ create_new_page_handle)

\* A new page on disk, counted or not.
LEMMA NewOnDisk ==
  ASSUME PageTypes, num_pages < MaxPages, disk' = With(disk, num_pages + 1, NewPage)
  PROVE  /\ DOMAIN disk' = DOMAIN disk \cup {num_pages + 1}
         /\ disk'[num_pages + 1] = NewPage
         /\ \A q \in DOMAIN disk \ {num_pages + 1} : disk'[q] = disk[q]
         /\ Counted \subseteq DOMAIN disk' /\ DOMAIN disk' \subseteq PageNos
         /\ disk' \in [DOMAIN disk' -> Pages]
<1>1. /\ DOMAIN disk' = DOMAIN disk \cup {num_pages + 1} /\ disk'[num_pages + 1] = NewPage
      /\ \A q \in DOMAIN disk \ {num_pages + 1} : disk'[q] = disk[q]
      /\ disk' = [q \in DOMAIN disk' |-> disk'[q]]
  BY Zenon DEF With
<1>2. NewPage \in Pages
  <2>1. NewPage.lsn = 0 /\ NewPage.made = {} /\ NewPage = [lsn |-> NewPage.lsn, rows |-> NewPage.rows, made |-> NewPage.made]
    BY Zenon DEF NewPage
  <2>2. NewPage.rows \in [{} -> Nat]
    BY DEF NewPage
  <2>3. NewPage.rows \in Rows
    BY <2>2, Zenon DEF Rows
  <2>4. 0 \in Lsns
    BY DEF Lsns
  <2> QED
    BY <2>1, <2>3, <2>4, Zenon DEF Pages
<1>3. num_pages + 1 \in PageNos
  BY Numbers DEF PageTypes, PageNos
<1>4. \A q \in DOMAIN disk' : disk'[q] \in Pages
  BY <1>1, <1>2, Zenon DEF PageTypes
<1>5. disk' \in [DOMAIN disk' -> Pages]
  BY <1>1, <1>4, Zenon
<1>6. Counted \subseteq DOMAIN disk' /\ DOMAIN disk' \subseteq PageNos
  BY <1>1, <1>3, Zenon DEF PageTypes
<1> QED
  BY <1>1, <1>5, <1>6, Zenon

\* The disk has the pages that are counted, after a page was fetched.
LEMMA AfterFetch ==
  ASSUME PageTypes, NEW p, Fetched(p)
  PROVE  /\ num_pages' \in Nat /\ num_pages <= num_pages' /\ num_pages' <= MaxPages
         /\ Counted \subseteq Counted'
         /\ Counted' \subseteq DOMAIN disk' /\ DOMAIN disk' \subseteq PageNos
         /\ disk' \in [DOMAIN disk' -> Pages]
<1>1. CASE UNCHANGED <<disk, num_pages>>
  <2>1. num_pages \in Nat /\ num_pages <= num_pages
    BY DEF PageTypes
  <2> QED
    BY <1>1, <2>1, Zenon DEF PageTypes, Counted
<1>2. CASE create_new_page_handle
  <2>1. num_pages < MaxPages /\ disk' = With(disk, num_pages + 1, NewPage) /\ num_pages' = num_pages + 1
    BY <1>2, Zenon DEF create_new_page_handle
  <2>2. /\ num_pages' \in Nat /\ num_pages <= num_pages' /\ num_pages' <= MaxPages
        /\ Counted \subseteq Counted' /\ Counted' = Counted \cup {num_pages + 1}
    BY <2>1, Numbers, SMTT(30) DEF PageTypes, Counted
  <2> QED
    BY <2>1, <2>2, NewOnDisk, Zenon
<1> QED
  BY <1>1, <1>2, Zenon DEF Fetched

\* insert_record puts the change on the page.
LEMMA InsertPuts ==
  ASSUME PageTypes, NEW t, txn[t].prev_lsn \in Lsns,
         NEW p \in PageNos, NEW change \in Nat, insert_record(t, p, change)
  PROVE  /\ Fetched(p)
         /\ \E v : /\ Put(p, v) /\ v.lsn = txn[t].prev_lsn /\ change \in v.made
                   /\ \E s \in DOMAIN v.rows : v.rows[s] = change
<1> DEFINE old  == IF p > num_pages THEN NewPage ELSE fetch_page(p)
           slot == Min(Slots \ DOMAIN old.rows)
           v    == [lsn |-> txn[t].prev_lsn, rows |-> With(old.rows, slot, change),
                    made |-> old.made \cup {change}]
<1>1. pages' = With(pages, p, v)
  BY Zenon DEF insert_record
<1>2. num_pages \in Nat /\ p \in Nat /\ MaxPages \in Nat
  BY Numbers, Zenon DEF PageTypes
<1>3. p \in Counted' /\ Fetched(p) /\ (p > num_pages \/ (p \in Counted /\ HasRoom(fetch_page(p))))
  <2>1. CASE p \in 1 .. num_pages /\ HasRoom(fetch_page(p)) /\ UNCHANGED <<disk, num_pages>>
    BY <2>1, Zenon DEF Counted, Fetched
  <2>2. CASE p = num_pages + 1 /\ create_new_page_handle
    <3>1. num_pages' = num_pages + 1
      BY <2>2, Zenon DEF create_new_page_handle
    <3>2. p \in Counted' /\ p > num_pages
      BY <1>2, <2>2, <3>1 DEF Counted
    <3> QED
      BY <2>2, <3>2, Zenon DEF Fetched
  <2> QED
    BY <2>1, <2>2, Zenon DEF insert_record
<1>4. /\ old.rows \in Rows /\ old.made \subseteq Nat /\ DOMAIN old.rows # Slots
      /\ p \in DOMAIN pages => old = pages[p]
  <2>1. CASE p > num_pages
    <3>1. old = NewPage /\ p \notin DOMAIN pages
      BY <1>2, <2>1 DEF PageTypes, Counted
    <3>2. NewPage.rows \in [{} -> Nat] /\ NewPage.made = {}
      BY DEF NewPage
    <3>3. {} # Slots
      BY Numbers, Zenon
    <3> QED
      BY <3>1, <3>2, <3>3, Zenon DEF Rows
  <2>2. CASE ~(p > num_pages)
    <3>1. p \in Counted /\ HasRoom(fetch_page(p)) /\ old = fetch_page(p)
      BY <1>3, <2>2, Zenon
    <3> QED
      BY <3>1, PageOf, Zenon DEF HasRoom, Pages, fetch_page
  <2> QED
    BY <2>1, <2>2, Zenon
<1> HIDE DEF old
<1>5. slot \in Slots
  <2>1. DOMAIN old.rows \subseteq Slots
    BY <1>4, Zenon DEF Rows
  <2> QED
    BY <1>4, <2>1, LeastNumber, Numbers, Zenon
<1> HIDE DEF slot
<1>6. v.rows \in Rows /\ slot \in DOMAIN v.rows /\ v.rows[slot] = change
  <2>1. v.rows = With(old.rows, slot, change)
    BY Zenon
  <2>2. v.rows \in Rows
    BY <1>4, <1>5, <2>1, RowsKept, Zenon
  <2> QED
    BY <2>1, <2>2, Zenon DEF With
<1>7. v \in Pages /\ change \in v.made /\ (p \in DOMAIN pages => pages[p].made \subseteq v.made)
  BY <1>4, <1>6, Zenon DEF Pages
<1>8. Put(p, v)
  BY <1>1, <1>3, <1>7, Zenon DEF Put
<1> HIDE DEF v
<1>9. v.lsn = txn[t].prev_lsn
  BY Zenon DEF v
<1> QED
  BY <1>3, <1>6, <1>7, <1>8, <1>9, Zenon

\* delete_record takes the row off the page.
LEMMA DeletePuts ==
  ASSUME PageTypes, UNCHANGED num_pages, NEW t, txn[t].prev_lsn \in Lsns,
         NEW p \in Counted, NEW s, NEW c \in Nat, delete_record(t, p, s, c)
  PROVE  \E v : Put(p, v) /\ v.lsn = txn[t].prev_lsn /\ c \in v.made
<1>1. PICK old : old = fetch_page(p)
  BY Zenon
<1>2. old \in Pages /\ p \in PageNos /\ p \in Counted' /\ (p \in DOMAIN pages => old = pages[p])
  BY <1>1, PageOf, Zenon DEF fetch_page, Counted
<1>3. old.rows \in Rows /\ old.made \subseteq Nat
  BY <1>2, Zenon DEF Pages
<1>4. PICK without : without = Without(old.rows, s)
  BY Zenon
<1>5. without \in Rows
  BY <1>3, <1>4, RowsKept, Zenon
<1>6. PICK v : v = [lsn |-> txn[t].prev_lsn, rows |-> without, made |-> old.made \cup {c}]
  BY Zenon
<1>7. v \in Pages /\ v.lsn = txn[t].prev_lsn /\ c \in v.made /\ old.made \subseteq v.made
  BY <1>3, <1>5, <1>6, Zenon DEF Pages
<1>8. pages' = With(pages, p, v)
  BY <1>1, <1>4, <1>6, Zenon DEF delete_record
<1> QED
  BY <1>2, <1>7, <1>8, Zenon DEF Put

\* update_record changes the row and leaves the lsn.
LEMMA UpdatePuts ==
  ASSUME PageTypes, UNCHANGED num_pages, NEW p \in Counted, NEW s, NEW c \in Nat,
         pages' = With(pages, p, [fetch_page(p) EXCEPT !.rows[s] = c, !.made = @ \cup {c}])
  PROVE  \E v : Put(p, v) /\ v.lsn = fetch_page(p).lsn /\ c \in v.made
<1>1. PICK old : old = fetch_page(p)
  BY Zenon
<1>2. old \in Pages /\ p \in PageNos /\ p \in Counted' /\ (p \in DOMAIN pages => old = pages[p])
  BY <1>1, PageOf, Zenon DEF fetch_page, Counted
<1>3. old.rows \in Rows /\ old.made \subseteq Nat
  BY <1>2, Zenon DEF Pages
<1>4. [old.rows EXCEPT ![s] = c] \in Rows
  BY <1>3, RowsKept, Zenon
<1>5. PICK v : v = [old EXCEPT !.rows[s] = c, !.made = @ \cup {c}]
  BY Zenon
<1>6. v = [lsn |-> old.lsn, rows |-> [old.rows EXCEPT ![s] = c], made |-> old.made \cup {c}]
  BY <1>2, <1>5, Zenon DEF Pages
<1>7. v \in Pages /\ v.lsn = old.lsn /\ c \in v.made /\ old.made \subseteq v.made
  BY <1>2, <1>3, <1>4, <1>6, Zenon DEF Pages
<1>8. pages' = With(pages, p, v)
  BY <1>1, <1>5, Zenon
<1> QED
  BY <1>1, <1>2, <1>7, <1>8, Zenon DEF Put

\* The undo of an update writes the old row back and leaves the lsn.
LEMMA RestorePuts ==
  ASSUME PageTypes, UNCHANGED num_pages, NEW w \in Writes, w.page_no \in Counted,
         pages' = With(pages, w.page_no, [fetch_page(w.page_no) EXCEPT !.rows[w.slot] = w.old])
  PROVE  \E v : Put(w.page_no, v) /\ v.lsn = fetch_page(w.page_no).lsn
<1>1. PICK old, p, s, n : old = fetch_page(p) /\ p = w.page_no /\ s = w.slot /\ n = w.old
  BY Zenon
<1>2. old \in Pages /\ p \in PageNos /\ p \in Counted' /\ (p \in DOMAIN pages => old = pages[p])
  BY <1>1, PageOf, Zenon DEF fetch_page, Counted
<1>3. old.rows \in Rows /\ old.made \subseteq Nat /\ n \in Nat /\ old.lsn \in Lsns
  BY <1>1, <1>2, Zenon DEF Pages, Writes
<1>4. [old.rows EXCEPT ![s] = n] \in Rows
  BY <1>3, RowsKept, Zenon
<1>5. PICK v : v = [old EXCEPT !.rows[s] = n]
  BY Zenon
<1>6. v = [lsn |-> old.lsn, rows |-> [old.rows EXCEPT ![s] = n], made |-> old.made]
  BY <1>2, <1>5, Zenon DEF Pages
<1>7. v \in Pages /\ v.lsn = old.lsn /\ old.made \subseteq v.made
  BY <1>3, <1>4, <1>6, Zenon DEF Pages
<1>8. pages' = With(pages, p, v)
  BY <1>1, <1>5, Zenon
<1> QED
  BY <1>1, <1>2, <1>7, <1>8, Zenon DEF Put

\* The pages after that.
LEMMA AfterPut ==
  ASSUME PageTypes, NEW p, NEW v, Put(p, v), Counted \subseteq Counted'
  PROVE  /\ DOMAIN pages' = DOMAIN pages \cup {p} /\ pages' \in [DOMAIN pages' -> Pages]
         /\ DOMAIN pages' \subseteq Counted' /\ DOMAIN pages' \subseteq PageNos
         /\ pages'[p] = v /\ \A q \in DOMAIN pages \ {p} : pages'[q] = pages[q]
         /\ \A q \in DOMAIN pages : pages[q].made \subseteq pages'[q].made
<1>1. /\ DOMAIN pages' = DOMAIN pages \cup {p} /\ pages' = [q \in DOMAIN pages' |-> pages'[q]]
      /\ pages'[p] = v /\ \A q \in DOMAIN pages \ {p} : pages'[q] = pages[q]
  BY Zenon DEF Put, With
<1>2. \A q \in DOMAIN pages' : pages'[q] \in Pages
  BY <1>1, Zenon DEF Put, PageTypes
<1>3. DOMAIN pages' \subseteq Counted' /\ DOMAIN pages' \subseteq PageNos
  BY <1>1, Zenon DEF Put, PageTypes
<1>4. \A q \in DOMAIN pages : pages[q].made \subseteq pages'[q].made
  BY <1>1, Zenon DEF Put
<1>5. pages' \in [DOMAIN pages' -> Pages]
  BY <1>1, <1>2, Zenon
<1> QED
  BY <1>1, <1>3, <1>4, <1>5, Zenon

-----------------------------------------------------------------------------
(* What the actions do to the transactions. *)

\* A sequence with one more element, and without the last.
LEMMA AppendedAndFront ==
  ASSUME NEW S, NEW q \in Seq(S), NEW e \in S
  PROVE  /\ Append(q, e) \in Seq(S) /\ Append(q, e) # <<>> /\ Last(Append(q, e)) = e
         /\ Len(Append(q, e)) = Len(q) + 1 /\ Append(q, e)[Len(q) + 1] = e
         /\ \A i \in 1 .. Len(q) : Append(q, e)[i] = q[i]
BY DEF Last

\* The sequence without its last element.
LEMMA FrontOf ==
  ASSUME NEW S, NEW q \in Seq(S), q # <<>>
  PROVE  /\ Front(q) \in Seq(S) /\ Len(Front(q)) = Len(q) - 1
         /\ \A i \in 1 .. Len(Front(q)) : i \in 1 .. Len(q) /\ Front(q)[i] = q[i]
         /\ Len(q) \in 1 .. Len(q) /\ Last(q) = q[Len(q)] /\ Last(q) \in S
<1>1. PICK n \in Nat : Len(q) = n + 1
  <2>1. Len(q) \in Nat \ {0}
    OBVIOUS
  <2>2. Len(q) - 1 \in Nat /\ Len(q) = (Len(q) - 1) + 1
    BY <2>1
  <2> QED
    BY <2>2, Zenon
<1>2. Front(q) = SubSeq(q, 1, n) /\ Last(q) = q[n + 1]
  BY <1>1 DEF Front, Last
<1>3. Len(SubSeq(q, 1, n)) = n
  BY <1>1
<1>4. ASSUME NEW i \in 1 .. n PROVE SubSeq(q, 1, n)[i] = q[i]
  BY <1>1
<1>5. SubSeq(q, 1, n) \in Seq(S)
  BY <1>1
<1>6. q[n + 1] \in S
  BY <1>1
<1> QED
  BY <1>1, <1>2, <1>3, <1>4, <1>5, <1>6

\* t goes to state s with prev_lsn and write set as given; the others stay.
Turn(t, s, prev, writes) ==
  /\ txn' \in [Tids -> Txns] /\ \A u \in Tids \ {t} : txn'[u] = txn[u]
  /\ txn'[t].state = s /\ txn'[t].prev_lsn = prev /\ txn'[t].writes = writes

\* An action that gives t a new descriptor.
LEMMA TurnTo ==
  ASSUME ProcessTypes, NEW t \in Tids, NEW v \in Txns, txn' = [txn EXCEPT ![t] = v]
  PROVE  Turn(t, v.state, v.prev_lsn, v.writes)
BY Zenon DEF ProcessTypes, Turn

\* The steps that change no write set.
LEMMA Turns ==
  ASSUME ProcessTypes, NEW t \in Tids
  PROVE  /\ begin(t) \/ InsertLog(t) => Turn(t, "active", global_lsn, txn[t].writes)
         /\ DeletePage(t) \/ UpdateLsn(t) => Turn(t, "active", txn[t].prev_lsn, txn[t].writes)
         /\ UpdatePage(t) => Turn(t, "stamp", txn[t].prev_lsn, txn[t].writes)
         /\ Commit(t) => Turn(t, "commit", txn[t].prev_lsn, txn[t].writes)
         /\ Abort(t) => Turn(t, "undo", txn[t].prev_lsn, txn[t].writes)
         /\ UndoUpdate(t) => Turn(t, "restamp", txn[t].prev_lsn, txn[t].writes)
         /\ AbortUnlock(t) => Turn(t, "abort", txn[t].prev_lsn, txn[t].writes)
<1>1. txn[t] \in Txns /\ global_lsn \in Lsns /\ txn[t].prev_lsn \in Lsns /\ txn \in [Tids -> Txns]
  BY Zenon DEF ProcessTypes, Txns, Lsns
<1>2. ASSUME NEW s \in States, NEW prev \in Lsns, NEW stale \in BOOLEAN,
             txn' = [txn EXCEPT ![t] = [txn[t] EXCEPT !.state = s, !.prev_lsn = prev, !.stale = stale]]
      PROVE  Turn(t, s, prev, txn[t].writes)
  <2>1. PICK v : v = [txn[t] EXCEPT !.state = s, !.prev_lsn = prev, !.stale = stale]
    BY Zenon
  <2>2. v \in Txns /\ v.state = s /\ v.prev_lsn = prev /\ v.writes = txn[t].writes
    BY <1>1, <2>1, Zenon DEF Txns
  <2> QED
    BY <1>2, <2>1, <2>2, TurnTo, Zenon
<1>3. ASSUME begin(t) \/ InsertLog(t) PROVE Turn(t, "active", global_lsn, txn[t].writes)
  <2>1. txn' = [txn EXCEPT ![t].state = "active", ![t].prev_lsn = global_lsn]
    BY <1>3, Zenon DEF begin, InsertLog
  <2>2. txn' = [txn EXCEPT ![t] = [txn[t] EXCEPT !.state = "active", !.prev_lsn = global_lsn, !.stale = txn[t].stale]]
    BY <1>1, <2>1, Zenon DEF Txns
  <2> QED
    BY <1>1, <1>2, <2>2, Zenon DEF States, Txns
<1>4. ASSUME NEW s \in States, txn' = [txn EXCEPT ![t].state = s] PROVE Turn(t, s, txn[t].prev_lsn, txn[t].writes)
  <2>1. txn' = [txn EXCEPT ![t] = [txn[t] EXCEPT !.state = s, !.prev_lsn = txn[t].prev_lsn, !.stale = txn[t].stale]]
    BY <1>1, <1>4, Zenon DEF Txns
  <2> QED
    BY <1>1, <1>2, <2>1, Zenon DEF Txns
<1>5. ASSUME NEW s \in States, txn' = [txn EXCEPT ![t].state = s, ![t].stale = FALSE]
      PROVE  Turn(t, s, txn[t].prev_lsn, txn[t].writes)
  <2>1. txn' = [txn EXCEPT ![t] = [txn[t] EXCEPT !.state = s, !.prev_lsn = txn[t].prev_lsn, !.stale = FALSE]]
    BY <1>1, <1>5, Zenon DEF Txns
  <2> QED
    BY <1>1, <1>2, <2>1, Zenon
<1>6. {"active", "stamp", "commit", "undo", "restamp", "abort"} \subseteq States
  BY Zenon DEF States
<1>7. DeletePage(t) \/ UpdateLsn(t) => Turn(t, "active", txn[t].prev_lsn, txn[t].writes)
  BY <1>4, <1>5, <1>6, Zenon DEF DeletePage, UpdateLsn
<1>8. UpdatePage(t) => Turn(t, "stamp", txn[t].prev_lsn, txn[t].writes)
  BY <1>5, <1>6, Zenon DEF UpdatePage
<1>9. Commit(t) => Turn(t, "commit", txn[t].prev_lsn, txn[t].writes)
  BY <1>4, <1>6, Zenon DEF Commit
<1>10. Abort(t) => Turn(t, "undo", txn[t].prev_lsn, txn[t].writes)
  BY <1>4, <1>6, Zenon DEF Abort
<1>11. UndoUpdate(t) => Turn(t, "restamp", txn[t].prev_lsn, txn[t].writes)
  BY <1>5, <1>6, Zenon DEF UndoUpdate
<1>12. AbortUnlock(t) => Turn(t, "abort", txn[t].prev_lsn, txn[t].writes)
  BY <1>4, <1>6, Zenon DEF AbortUnlock
<1> QED
  BY <1>3, <1>7, <1>8, <1>9, <1>10, <1>11, <1>12, Zenon

\* The end of a transaction, and a step of its rollback.
LEMMA EndTurns ==
  ASSUME ProcessTypes, NEW t \in Tids
  PROVE  /\ \A type, s : s \in States /\ Ended(t, type, s) => Turn(t, s, global_lsn, <<>>)
         /\ Undo(t) => Turn(t, "undo", txn[t].prev_lsn, Front(txn[t].writes))
<1>1. txn[t] \in Txns /\ global_lsn \in Lsns /\ txn[t].prev_lsn \in Lsns /\ txn \in [Tids -> Txns]
  BY Zenon DEF ProcessTypes, Txns, Lsns
<1>2. ASSUME NEW type, NEW s \in States, Ended(t, type, s) PROVE Turn(t, s, global_lsn, <<>>)
  <2>1. PICK v : v = [NoTxn EXCEPT !.state = s, !.prev_lsn = global_lsn]
    BY Zenon
  <2>2. v = [state |-> s, prev_lsn |-> global_lsn, writes |-> <<>>, stale |-> FALSE]
    BY <2>1, Zenon DEF NoTxn
  <2>3. <<>> \in Seq(Writes)
    OBVIOUS
  <2>4. v \in Txns
    BY <1>1, <2>2, <2>3, Zenon DEF Txns
  <2>5. txn' = [txn EXCEPT ![t] = v]
    BY <1>2, <2>1, Zenon DEF Ended
  <2> QED
    BY <2>2, <2>4, <2>5, TurnTo, Zenon
<1>3. ASSUME Undo(t) PROVE Turn(t, "undo", txn[t].prev_lsn, Front(txn[t].writes))
  <2>1. txn[t].writes \in Seq(Writes) /\ txn[t].writes # <<>> /\ txn[t].state = "undo"
    BY <1>1, <1>3, Zenon DEF Undo, Txns
  <2>2. PICK front : front = Front(txn[t].writes)
    BY Zenon
  <2>3. front \in Seq(Writes)
    BY <2>1, <2>2, FrontOf, Zenon
  <2>4. PICK v : v = [txn[t] EXCEPT !.writes = front]
    BY Zenon
  <2>5. v \in Txns /\ v.state = "undo" /\ v.prev_lsn = txn[t].prev_lsn /\ v.writes = front
    BY <1>1, <2>1, <2>3, <2>4, Zenon DEF Txns
  <2>6. txn' = [txn EXCEPT ![t] = v]
    BY <1>1, <1>3, <2>2, <2>4, Zenon DEF Undo, Txns
  <2> QED
    BY <2>2, <2>5, <2>6, TurnTo, Zenon
<1> QED
  BY <1>2, <1>3, Zenon

\* The second step of the undo of an update.
LEMMA StampTurns ==
  ASSUME ProcessTypes, Bounds, NEW t \in Tids, UndoLsn(t)
  PROVE  Turn(t, "undo", txn[t].prev_lsn, Front(txn[t].writes)) /\ txn[t].writes # <<>>
<1>1. txn[t] \in Txns /\ txn[t].prev_lsn \in Lsns /\ txn \in [Tids -> Txns]
  BY Zenon DEF ProcessTypes, Txns
<1>2. txn[t].writes \in Seq(Writes) /\ txn[t].writes # <<>>
  BY <1>1, Zenon DEF UndoLsn, Bounds, Txns
<1>3. PICK front : front = Front(txn[t].writes)
  BY Zenon
<1>4. front \in Seq(Writes) /\ "undo" \in States
  BY <1>2, <1>3, FrontOf, Zenon DEF States
<1>5. PICK v : v = [txn[t] EXCEPT !.state = "undo", !.stale = FALSE, !.writes = front]
  BY Zenon
<1>6. v \in Txns /\ v.state = "undo" /\ v.prev_lsn = txn[t].prev_lsn /\ v.writes = front
  BY <1>1, <1>4, <1>5, Zenon DEF Txns
<1>7. txn' = [txn EXCEPT ![t] = v]
  BY <1>1, <1>3, <1>5, Zenon DEF UndoLsn, Txns
<1> QED
  BY <1>2, <1>3, <1>6, <1>7, TurnTo, Zenon

\* A write record is added.
LEMMA AddTurn ==
  ASSUME ProcessTypes, NEW t \in Tids, NEW w \in Writes, NEW s \in States, NEW prev \in Lsns,
         txn' = [txn EXCEPT ![t] = [txn[t] EXCEPT !.state = s, !.prev_lsn = prev,
                                                  !.writes = Append(txn[t].writes, w)]]
  PROVE  Turn(t, s, prev, Append(txn[t].writes, w))
<1>1. txn[t] \in Txns /\ txn[t].writes \in Seq(Writes)
  BY Zenon DEF ProcessTypes, Txns
<1>2. PICK ws : ws = Append(txn[t].writes, w)
  BY Zenon
<1>3. ws \in Seq(Writes)
  BY <1>1, <1>2, AppendedAndFront, Zenon
<1>4. PICK v : v = [txn[t] EXCEPT !.state = s, !.prev_lsn = prev, !.writes = ws]
  BY Zenon
<1>5. v \in Txns /\ v.state = s /\ v.prev_lsn = prev /\ v.writes = ws
  BY <1>1, <1>3, <1>4, Zenon DEF Txns
<1> QED
  BY <1>2, <1>4, <1>5, TurnTo, Zenon

\* An insertion is made on its page before it is logged.
LEMMA InsertTurns ==
  ASSUME PageTypes, ProcessTypes, NEW t \in Tids, NEW p \in PageNos, Insert(t, p)
  PROVE  /\ Fetched(p)
         /\ changes' \in Nat
         /\ \E v : Put(p, v) /\ v.lsn = txn[t].prev_lsn /\ changes' \in v.made
         /\ \E w \in Writes : /\ Turn(t, "log", txn[t].prev_lsn, Append(txn[t].writes, w))
                              /\ w.type = "INSERT" /\ w.page_no = p /\ w.change = changes'
<1>1. txn[t] \in Txns /\ txn[t].prev_lsn \in Lsns /\ changes' \in Nat /\ txn \in [Tids -> Txns]
  BY SMTT(30) DEF ProcessTypes, Txns, Insert
<1>2. insert_record(t, p, changes')
  BY Zenon DEF Insert
<1>3. Fetched(p) /\ Counted \subseteq Counted'
  BY <1>1, <1>2, InsertPuts, AfterFetch, Zenon
<1>4. PICK v : /\ Put(p, v) /\ v.lsn = txn[t].prev_lsn /\ changes' \in v.made
               /\ \E s \in DOMAIN v.rows : v.rows[s] = changes'
  BY <1>1, <1>2, InsertPuts
<1>5. pages'[p] = v /\ v \in Pages
  BY <1>3, <1>4, AfterPut, Zenon DEF Put
<1>6. PICK slot : slot = CHOOSE s \in DOMAIN pages'[p].rows : pages'[p].rows[s] = changes'
  BY Zenon
<1>7. slot \in Slots
  <2>1. slot \in DOMAIN v.rows
    BY <1>4, <1>5, <1>6, Zenon
  <2>2. v.rows \in Rows
    BY <1>5, Zenon DEF Pages
  <2> QED
    BY <2>1, <2>2, Zenon DEF Rows
<1>8. PICK w : w = [type |-> "INSERT", page_no |-> p, slot |-> slot, change |-> changes', old |-> NoChange]
  BY Zenon
<1>9. w \in Writes /\ w.type = "INSERT" /\ w.page_no = p /\ w.change = changes'
  BY <1>1, <1>7, <1>8, Zenon DEF Writes, DataTypes, NoChange
<1>10. txn' = [txn EXCEPT ![t].state = "log", ![t].writes = Append(@, w)]
  BY <1>6, <1>8, Zenon DEF Insert
<1>11. txn' = [txn EXCEPT ![t] = [txn[t] EXCEPT !.state = "log", !.prev_lsn = txn[t].prev_lsn,
                                               !.writes = Append(txn[t].writes, w)]]
  BY <1>1, <1>10, Zenon DEF Txns
<1>12. "log" \in States
  BY Zenon DEF States
<1>13. Turn(t, "log", txn[t].prev_lsn, Append(txn[t].writes, w))
  BY <1>1, <1>9, <1>11, <1>12, AddTurn, Zenon
<1> QED
  BY <1>1, <1>3, <1>4, <1>9, <1>13, Zenon

\* A deletion or an update is logged before it is made.
LEMMA DeleteTurns ==
  ASSUME PageTypes, ProcessTypes, NEW t \in Tids, NEW p \in PageNos, NEW type \in Changes,
         NEW slot \in Slots, DeleteLog(t, type, p, slot)
  PROVE  /\ changes' \in Nat /\ p \in Counted
         /\ \E w \in Writes : /\ Turn(t, "change", global_lsn, Append(txn[t].writes, w))
                              /\ w.type = type /\ w.page_no = p /\ w.change = changes'
<1>1. txn[t] \in Txns /\ global_lsn \in Lsns /\ changes' \in Nat /\ txn \in [Tids -> Txns]
  BY SMTT(30) DEF ProcessTypes, Txns, DeleteLog, Lsns
<1>2. p \in Counted /\ slot \in DOMAIN fetch_page(p).rows
  BY Zenon DEF DeleteLog, Counted
<1>3. PICK old : old = fetch_page(p).rows[slot]
  BY Zenon
<1>4. old \in Nat
  <2>1. fetch_page(p).rows \in Rows
    BY <1>2, PageOf, Zenon DEF Pages
  <2> QED
    BY <1>2, <1>3, <2>1, Zenon DEF Rows
<1>5. PICK w : w = [type |-> type, page_no |-> p, slot |-> slot, change |-> changes', old |-> old]
  BY Zenon
<1>6. w \in Writes /\ w.type = type /\ w.page_no = p /\ w.change = changes'
  BY <1>1, <1>4, <1>5, Zenon DEF Writes, DataTypes, Changes
<1>7. txn' = [txn EXCEPT ![t].state = "change", ![t].prev_lsn = global_lsn, ![t].writes = Append(@, w)]
  BY <1>3, <1>5, Zenon DEF DeleteLog
<1>8. txn' = [txn EXCEPT ![t] = [txn[t] EXCEPT !.state = "change", !.prev_lsn = global_lsn,
                                              !.writes = Append(txn[t].writes, w)]]
  BY <1>1, <1>7, Zenon DEF Txns
<1>9. "change" \in States
  BY Zenon DEF States
<1>10. Turn(t, "change", global_lsn, Append(txn[t].writes, w))
  BY <1>1, <1>6, <1>8, <1>9, AddTurn, Zenon
<1> QED
  BY <1>1, <1>2, <1>6, <1>10, Zenon

\* The last write of a transaction that is about to change a page names a page to fetch.
LEMMA LastWrite ==
  ASSUME ProcessTypes, Bounds, NEW t \in Tids, txn[t].writes # <<>>
  PROVE  Last(txn[t].writes) \in Writes /\ Last(txn[t].writes).page_no \in Counted
<1>1. txn[t].writes \in Seq(Writes)
  BY Zenon DEF ProcessTypes, Txns
<1>2. /\ Len(txn[t].writes) \in 1 .. Len(txn[t].writes) /\ Last(txn[t].writes) \in Writes
      /\ Last(txn[t].writes) = txn[t].writes[Len(txn[t].writes)]
  BY <1>1, FrontOf, Zenon
<1> QED
  BY <1>2, Zenon DEF Bounds

\* The page of a deletion or update is changed, and has the change from then on.
LEMMA ChangeMade ==
  ASSUME PageTypes, ProcessTypes, Bounds, NEW t \in Tids, DeletePage(t) \/ UpdatePage(t)
  PROVE  LET w == Last(txn[t].writes)
         IN  \E v : /\ Put(w.page_no, v) /\ w.change \in v.made
                    /\ v.lsn = txn[t].prev_lsn \/ v.lsn = fetch_page(w.page_no).lsn
<1>1. PICK w : w = Last(txn[t].writes)
  BY Zenon
<1>2. w \in Writes /\ w.page_no \in Counted /\ txn[t].prev_lsn \in Lsns
  BY <1>1, LastWrite, Zenon DEF Bounds, DeletePage, UpdatePage, ProcessTypes, Txns
<1>3. w.change \in Nat /\ UNCHANGED num_pages
  BY <1>2, Zenon DEF Writes, DeletePage, UpdatePage, diskVars
<1>4. CASE DeletePage(t)
  <2>1. delete_record(t, w.page_no, w.slot, w.change)
    BY <1>1, <1>4, Zenon DEF DeletePage
  <2>2. \E v : Put(w.page_no, v) /\ v.lsn = txn[t].prev_lsn /\ w.change \in v.made
    BY <1>2, <1>3, <2>1, DeletePuts, Zenon
  <2> QED
    BY <1>1, <2>2, Zenon
<1>5. CASE UpdatePage(t)
  <2>1. pages' = With(pages, w.page_no, [fetch_page(w.page_no) EXCEPT !.rows[w.slot] = w.change,
                                                                      !.made = @ \cup {w.change}])
    BY <1>1, <1>5, Zenon DEF UpdatePage
  <2>2. \E v : Put(w.page_no, v) /\ v.lsn = fetch_page(w.page_no).lsn /\ w.change \in v.made
    BY <1>2, <1>3, <2>1, UpdatePuts, Zenon
  <2> QED
    BY <1>1, <2>2, Zenon
<1> QED
  BY <1>4, <1>5, Zenon

\* The undo of an insertion or a deletion changes one page, which keeps what was made on it.
LEMMA UndoMade ==
  ASSUME PageTypes, ProcessTypes, Bounds, NEW t \in Tids, Undo(t)
  PROVE  \E p, v : Fetched(p) /\ Put(p, v) /\ v.lsn = txn[t].prev_lsn
<1>1. PICK w : w = Last(txn[t].writes)
  BY Zenon
<1>2. w \in Writes /\ w.page_no \in Counted /\ txn[t].prev_lsn \in Lsns
  BY <1>1, LastWrite, Zenon DEF Undo, ProcessTypes, Txns
<1>3. w.change \in Nat /\ w.old \in Nat
  BY <1>2, Zenon DEF Writes
<1>4. CASE w.type = "INSERT"
  <2>1. delete_record(t, w.page_no, w.slot, w.change) /\ UNCHANGED <<disk, num_pages>>
    BY <1>1, <1>4, Zenon DEF Undo
  <2>2. \E v : Put(w.page_no, v) /\ v.lsn = txn[t].prev_lsn
    BY <1>2, <1>3, <2>1, DeletePuts, Zenon
  <2> QED
    BY <2>1, <2>2, Zenon DEF Fetched
<1>5. CASE w.type = "DELETE"
  <2>1. PICK p \in PageNos : insert_record(t, p, w.old)
    BY <1>1, <1>5, Zenon DEF Undo, PageNos
  <2>2. PICK old \in Nat : insert_record(t, p, old)
    BY <1>3, <2>1, Zenon
  <2>3. Fetched(p)
    BY <1>2, <2>2, InsertPuts, Zenon
  <2>4. PICK v : /\ Put(p, v) /\ v.lsn = txn[t].prev_lsn /\ old \in v.made
                 /\ \E s \in DOMAIN v.rows : v.rows[s] = old
    BY <1>2, <2>2, InsertPuts, SMTT(30)
  <2> QED
    BY <2>3, <2>4, Zenon
<1> QED
  BY <1>1, <1>4, <1>5, Zenon DEF Undo

\* The undo of an update changes the page of the update.
LEMMA RestoreMade ==
  ASSUME PageTypes, ProcessTypes, Bounds, NEW t \in Tids, UndoUpdate(t)
  PROVE  LET w == Last(txn[t].writes)
         IN  w.page_no \in Counted /\ \E v : Put(w.page_no, v) /\ v.lsn = fetch_page(w.page_no).lsn
<1>1. PICK w : w = Last(txn[t].writes)
  BY Zenon
<1>2. w \in Writes /\ w.page_no \in Counted
  BY <1>1, LastWrite, Zenon DEF UndoUpdate
<1>3. /\ pages' = With(pages, w.page_no, [fetch_page(w.page_no) EXCEPT !.rows[w.slot] = w.old])
      /\ UNCHANGED num_pages
  BY <1>1, Zenon DEF UndoUpdate, diskVars
<1>4. \E v : Put(w.page_no, v) /\ v.lsn = fetch_page(w.page_no).lsn
  BY <1>2, <1>3, RestorePuts, Zenon
<1> QED
  BY <1>1, <1>2, <1>4, Zenon

-----------------------------------------------------------------------------
(* The types. *)

\* Steps that change no page.
PagesStay == UNCHANGED <<disk, num_pages, pages>>

\* Steps that write the log, and the first steps of commit and abort.
LEMMA NoPageChanges ==
  ASSUME NEW t \in Tids,
         \/ begin(t) \/ InsertLog(t) \/ Commit(t) \/ CommitLog(t) \/ Abort(t) \/ AbortUnlock(t)
         \/ AbortLog(t) \/ Autocommit(t)
         \/ \E p \in PageNos, type \in Changes, slot \in Slots : DeleteLog(t, type, p, slot)
  PROVE  PagesStay /\ UNCHANGED <<died, run, server>> /\ Up
BY Zenon DEF begin, InsertLog, Commit, CommitLog, Abort, AbortUnlock, AbortLog, Autocommit, DeleteLog, PagesStay, diskVars, history

\* A stamp changes at most the lsn of a page in the pool.
LEMMA StampTypes ==
  ASSUME PageTypes, ProcessTypes, NEW t \in Tids, UpdateLsn(t) \/ UndoLsn(t)
  PROVE  /\ UNCHANGED <<disk, num_pages>>
         /\ DOMAIN pages' = DOMAIN pages /\ pages' \in [DOMAIN pages' -> Pages]
<1>1. set_page_lsn(t) /\ UNCHANGED <<disk, num_pages>>
  BY Zenon DEF UpdateLsn, UndoLsn, diskVars
<1>2. txn[t].prev_lsn \in Lsns
  BY Zenon DEF ProcessTypes, Txns
<1>3. ASSUME NEW q, pages' = [pages EXCEPT ![q].lsn = txn[t].prev_lsn]
      PROVE  DOMAIN pages' = DOMAIN pages /\ pages' \in [DOMAIN pages' -> Pages]
  BY <1>2, <1>3, ZenonT(30) DEF PageTypes, Pages
<1>4. CASE UNCHANGED pages
  BY <1>1, <1>4, Zenon DEF PageTypes
<1> QED
  BY <1>1, <1>3, <1>4, Zenon DEF set_page_lsn

\* The pages keep their types.
LEMMA PageStep ==
  ASSUME PageTypes, ProcessTypes, Bounds, [Next]_vars
  PROVE  PageTypes'
<1>1. CASE PagesStay
  BY <1>1, Zenon DEF PageTypes, PagesStay, Counted
<1>2. ASSUME NEW p, NEW v, Put(p, v), Fetched(p) PROVE PageTypes'
  <2>1. /\ num_pages' \in Nat /\ num_pages' <= MaxPages /\ Counted \subseteq Counted'
        /\ Counted' \subseteq DOMAIN disk' /\ DOMAIN disk' \subseteq PageNos
        /\ disk' \in [DOMAIN disk' -> Pages]
    BY <1>2, AfterFetch, Zenon
  <2>2. /\ pages' \in [DOMAIN pages' -> Pages]
        /\ DOMAIN pages' \subseteq Counted' /\ DOMAIN pages' \subseteq PageNos
    BY <1>2, <2>1, AfterPut, Zenon
  <2> QED
    BY <2>1, <2>2, Zenon DEF PageTypes
<1>4. ASSUME NEW t \in Tids, NEW p \in PageNos, Insert(t, p) PROVE PageTypes'
  BY <1>2, <1>4, InsertTurns, Zenon
<1>5. ASSUME NEW t \in Tids, DeletePage(t) \/ UpdatePage(t) \/ UndoUpdate(t) PROVE PageTypes'
  <2>1. \A p : Fetched(p)
    BY <1>5, Zenon DEF DeletePage, UpdatePage, UndoUpdate, diskVars, Fetched
  <2> QED
    BY <1>2, <1>5, <2>1, ChangeMade, RestoreMade, Zenon
<1>6. ASSUME NEW t \in Tids, Undo(t) PROVE PageTypes'
  BY <1>2, <1>6, UndoMade, Zenon
<1>7. ASSUME NEW t \in Tids, UpdateLsn(t) \/ UndoLsn(t) PROVE PageTypes'
  BY <1>7, StampTypes, Zenon DEF PageTypes, Counted
<1>8. ASSUME NEW p \in DOMAIN pages, Evict(p) PROVE PageTypes'
  <2>1. disk' = With(disk, p, pages[p]) /\ UNCHANGED <<num_pages, pages>>
    BY <1>8, Zenon DEF Evict
  <2>2. DOMAIN disk' = DOMAIN disk \cup {p} /\ disk' \in [DOMAIN disk' -> Pages]
    BY <2>1, Zenon DEF With, PageTypes
  <2> QED
    BY <2>1, <2>2, Zenon DEF PageTypes, Counted
<1>9. CASE Crash \/ sigint_handler \/ Start
  <2>1. pages' = NoPages /\ num_pages' = num_pages
    BY <1>9, Zenon DEF Crash, sigint_handler, Stopped, Start, Booted, diskVars
  <2>2. DOMAIN pages' = {} /\ pages' \in [DOMAIN pages' -> Pages]
    BY <2>1, Zenon DEF NoPages
  <2>3. /\ Counted \subseteq DOMAIN disk' /\ DOMAIN disk' \subseteq PageNos
        /\ disk' \in [DOMAIN disk' -> Pages]
    <3>1. CASE UNCHANGED disk
      BY <3>1, Zenon DEF PageTypes
    <3>2. CASE num_pages < MaxPages /\ disk' = With(disk, num_pages + 1, NewPage)
      BY <3>2, NewOnDisk, Zenon
    <3>3. CASE disk' = [p \in Readable |-> fetch_page(p)]
      <4>1. DOMAIN disk' = Readable /\ Readable = DOMAIN disk
        BY <3>3, Zenon DEF Readable, PageTypes
      <4>2. \A p \in Readable : fetch_page(p) \in Pages
        BY Zenon DEF Readable, fetch_page, PageTypes
      <4> QED
        BY <3>3, <4>1, <4>2, Zenon DEF PageTypes
    <3> QED
      BY <1>9, <3>1, <3>2, <3>3, Zenon DEF Crash, sigint_handler, Start, diskVars
  <2> QED
    BY <2>1, <2>2, <2>3, Zenon DEF PageTypes, Counted
<1>10. CASE StartDies
  <2>1. UNCHANGED pages /\ (UNCHANGED <<disk, num_pages>> \/ create_new_page_handle)
    BY <1>10, Zenon DEF StartDies
  <2>2. Fetched(num_pages + 1)
    BY <2>1, Zenon DEF Fetched
  <2> QED
    BY <2>1, <2>2, AfterFetch, Zenon DEF PageTypes
<1>11. CASE UNCHANGED vars
  BY <1>1, <1>11, Zenon DEF vars, diskVars, PagesStay
<1> QED
  BY <1>1, <1>4, <1>5, <1>6, <1>7, <1>8, <1>9, <1>10, <1>11, NoPageChanges, Zenon DEF Next, Changes, PageNos

\* The file only grows.
LEMMA PagesGrow ==
  ASSUME PageTypes, ProcessTypes, Bounds, [Next]_vars
  PROVE  Counted \subseteq Counted'
<1>1. CASE UNCHANGED num_pages
  BY <1>1, Zenon DEF Counted
<1>2. ASSUME NEW p, Fetched(p) PROVE Counted \subseteq Counted'
  BY <1>2, AfterFetch, Zenon
<1>3. ASSUME NEW t \in Tids, NEW p \in PageNos, Insert(t, p) PROVE Counted \subseteq Counted'
  BY <1>2, <1>3, InsertTurns, Zenon
<1>4. ASSUME NEW t \in Tids, Undo(t) PROVE Counted \subseteq Counted'
  BY <1>2, <1>4, UndoMade, Zenon
<1>5. ASSUME NEW t \in Tids, DeletePage(t) \/ UpdatePage(t) \/ UndoUpdate(t) \/ UpdateLsn(t) \/ UndoLsn(t)
      PROVE  UNCHANGED num_pages
  BY <1>5, Zenon DEF DeletePage, UpdatePage, UndoUpdate, UpdateLsn, UndoLsn, diskVars
<1>6. ASSUME NEW p, Evict(p) PROVE UNCHANGED num_pages
  BY <1>6, Zenon DEF Evict
<1>7. CASE Crash \/ sigint_handler \/ Start \/ UNCHANGED vars
  BY <1>1, <1>7, Zenon DEF Crash, sigint_handler, Stopped, Start, vars, diskVars
<1>8. CASE StartDies
  <2>1. Fetched(num_pages + 1)
    BY <1>8, Zenon DEF StartDies, Fetched
  <2> QED
    BY <1>2, <2>1, Zenon
<1> QED
  BY <1>1, <1>3, <1>4, <1>5, <1>6, <1>7, <1>8, NoPageChanges, Zenon DEF Next, Changes, PageNos, PagesStay

-----------------------------------------------------------------------------
(* What the actions do to the log. *)

\* t adds a record to the log.
Logs(t, type, p, change) ==
  /\ log' \in Seq(Records) /\ Len(log') = Len(log) + 1 /\ \A i \in 1 .. Len(log) : log'[i] = log[i]
  /\ LET r == log'[Len(log) + 1]
     IN  /\ r.type = type /\ r.lsn = global_lsn /\ r.tid = t /\ r.prev_lsn = txn[t].prev_lsn
         /\ r.page_no = p /\ r.change = change /\ r.run = run
  /\ global_lsn' = global_lsn + 1

\* That is what add_log_to_buffer does.
LEMMA LogAppended ==
  ASSUME ProcessTypes, NEW t \in Tids, NEW type \in Types, NEW p \in Nat, NEW change \in Nat,
         add_log_to_buffer(t, type, p, change)
  PROVE  Logs(t, type, p, change)
<1>1. PICK r : r = [type |-> type, lsn |-> global_lsn, tid |-> t, prev_lsn |-> txn[t].prev_lsn,
                    page_no |-> p, change |-> change, run |-> run]
  BY Zenon
<1>2. r \in Records
  BY <1>1, Zenon DEF ProcessTypes, Txns, Records
<1>3. log \in Seq(Records) /\ log' = Append(log, r) /\ global_lsn' = global_lsn + 1
  BY <1>1, Zenon DEF add_log_to_buffer, ProcessTypes
<1>4. /\ log' \in Seq(Records) /\ Len(log') = Len(log) + 1 /\ log'[Len(log) + 1] = r
      /\ \A i \in 1 .. Len(log) : log'[i] = log[i]
  BY <1>2, <1>3, AppendedAndFront
<1>5. /\ r.type = type /\ r.lsn = global_lsn /\ r.tid = t /\ r.prev_lsn = txn[t].prev_lsn
      /\ r.page_no = p /\ r.change = change /\ r.run = run
  BY <1>1, Zenon
<1> QED
  BY <1>3, <1>4, <1>5, Zenon DEF Logs

\* The records that end a transaction, and the one that begins it.
LEMMA EndLogs ==
  ASSUME ProcessTypes, NEW t \in Tids
  PROVE  /\ begin(t) => Logs(t, "BEGIN", NoPage, NoChange)
         /\ CommitLog(t) \/ Autocommit(t) => Logs(t, "COMMIT", NoPage, NoChange)
         /\ AbortLog(t) => Logs(t, "ABORT", NoPage, NoChange)
<1>1. /\ begin(t) => add_log_to_buffer(t, "BEGIN", NoPage, NoChange)
      /\ CommitLog(t) \/ Autocommit(t) => add_log_to_buffer(t, "COMMIT", NoPage, NoChange)
      /\ AbortLog(t) => add_log_to_buffer(t, "ABORT", NoPage, NoChange)
  BY Zenon DEF begin, CommitLog, Autocommit, AbortLog, Ended
<1>2. NoPage \in Nat /\ NoChange \in Nat /\ {"BEGIN", "COMMIT", "ABORT"} \subseteq Types
  BY Zenon DEF NoPage, NoChange, Types
<1> QED
  BY <1>1, <1>2, LogAppended, Zenon

\* The record of an insertion.
LEMMA InsertLogs ==
  ASSUME ProcessTypes, Bounds, NEW t \in Tids, InsertLog(t)
  PROVE  Logs(t, "INSERT", Last(txn[t].writes).page_no, Last(txn[t].writes).change)
<1>1. add_log_to_buffer(t, "INSERT", Last(txn[t].writes).page_no, Last(txn[t].writes).change)
  BY Zenon DEF InsertLog
<1>2. txn[t].writes # <<>>
  BY Zenon DEF InsertLog, Bounds
<1>3. Last(txn[t].writes).page_no \in Nat /\ Last(txn[t].writes).change \in Nat
  BY <1>2, LastWrite, Numbers, Zenon DEF Writes
<1> QED
  BY <1>1, <1>3, LogAppended, Zenon DEF Types, DataTypes

\* The record of a deletion or an update.
LEMMA DeleteLogs ==
  ASSUME ProcessTypes, NEW t \in Tids, NEW p \in PageNos, NEW type \in Changes,
         NEW slot \in Slots, DeleteLog(t, type, p, slot)
  PROVE  Logs(t, type, p, changes')
<1>1. add_log_to_buffer(t, type, p, changes') /\ changes' \in Nat
  BY DEF DeleteLog, ProcessTypes
<1>2. p \in Nat /\ type \in Types
  BY Numbers, Zenon DEF Types, DataTypes, Changes
<1> QED
  BY <1>1, <1>2, LogAppended, Zenon

\* The states that a transaction ends in.
LEMMA EndedTurns ==
  ASSUME ProcessTypes, NEW t \in Tids
  PROVE  /\ CommitLog(t) \/ Autocommit(t) => Turn(t, "ended", global_lsn, <<>>)
         /\ AbortLog(t) => Turn(t, "aborted", global_lsn, <<>>)
BY EndTurns, Zenon DEF CommitLog, Autocommit, AbortLog, States

\* Everyone is out.
LEMMA NoTxns ==
  ASSUME txn' = [t \in Tids |-> NoTxn]
  PROVE  /\ txn' \in [Tids -> Txns]
         /\ \A t \in Tids : /\ txn'[t].state = "none" /\ txn'[t].prev_lsn = INVALID_LSN
                            /\ txn'[t].writes = <<>>
<1>1. NoTxn \in Txns
  <2>1. <<>> \in Seq(Writes)
    OBVIOUS
  <2> QED
    BY <2>1, Zenon DEF NoTxn, Txns, States, Lsns, INVALID_LSN
<1> QED
  BY <1>1, Zenon DEF NoTxn

\* An eviction changes no transaction but for its stale flag.
LEMMA EvictTurns ==
  ASSUME ProcessTypes, NEW p, Evict(p)
  PROVE  /\ txn' \in [Tids -> Txns]
         /\ \A t \in Tids : /\ txn'[t].state = txn[t].state /\ txn'[t].prev_lsn = txn[t].prev_lsn
                            /\ txn'[t].writes = txn[t].writes
<1>1. ASSUME NEW t \in Tids
      PROVE  /\ txn'[t] \in Txns /\ txn'[t].state = txn[t].state
             /\ txn'[t].prev_lsn = txn[t].prev_lsn /\ txn'[t].writes = txn[t].writes
  <2>1. txn'[t] = [txn[t] EXCEPT !.stale = TRUE] \/ txn'[t] = txn[t]
    BY Zenon DEF Evict
  <2> QED
    BY <2>1, Zenon DEF ProcessTypes, Txns
<1>2. txn' = [t \in Tids |-> txn'[t]]
  BY Zenon DEF Evict
<1> QED
  BY <1>1, <1>2, Zenon

\* The process keeps its types.
LEMMA ProcessStep ==
  ASSUME PageTypes, ProcessTypes, Bounds, [Next]_vars
  PROVE  ProcessTypes'
<1>1. ASSUME NEW t \in Tids, NEW s, NEW prev, NEW ws, Turn(t, s, prev, ws),
             log' \in Seq(Records), global_lsn' \in Nat, next_txn_id' \in Nat, changes' \in Nat,
             UNCHANGED <<server, run, died>>, latch' \in {latch, t, Free},
             locks' = locks \/ \E l \in {"none", "IX", "SIX"} : locks' = [locks EXCEPT ![t] = l]
      PROVE  ProcessTypes'
  BY <1>1, Zenon DEF ProcessTypes, Turn
<1>2. /\ log \in Seq(Records) /\ global_lsn \in Nat /\ global_lsn + 1 \in Nat
      /\ next_txn_id \in Nat /\ next_txn_id + 1 \in Nat /\ changes \in Nat
  BY DEF ProcessTypes
<1>3. ASSUME NEW t \in Tids, begin(t) PROVE ProcessTypes'
  <2>1. /\ next_txn_id' = next_txn_id + 1
        /\ UNCHANGED <<server, run, died, latch, locks, changes>>
    BY <1>3, Zenon DEF begin
  <2>2. log' \in Seq(Records) /\ global_lsn' \in Nat
    BY <1>2, <1>3, EndLogs, Zenon DEF Logs
  <2> QED
    BY <1>1, <1>2, <1>3, <2>1, <2>2, Turns, Zenon
<1>4. ASSUME NEW t \in Tids, InsertLog(t) PROVE ProcessTypes'
  <2>1. UNCHANGED <<server, run, died, latch, locks, changes, next_txn_id>>
    BY <1>4, Zenon DEF InsertLog, history
  <2>2. log' \in Seq(Records) /\ global_lsn' \in Nat
    BY <1>2, <1>4, InsertLogs, Zenon DEF Logs
  <2> QED
    BY <1>1, <1>2, <1>4, <2>1, <2>2, Turns, Zenon
<1>5. ASSUME NEW t \in Tids, DeletePage(t) \/ UpdatePage(t) \/ UpdateLsn(t) \/ UndoUpdate(t) \/ UndoLsn(t)
      PROVE  ProcessTypes'
  <2>1. UNCHANGED <<server, run, died, latch, locks, changes, next_txn_id, log, global_lsn>>
    BY <1>5, Zenon DEF DeletePage, UpdatePage, UpdateLsn, UndoUpdate, UndoLsn, history, diskVars
  <2> QED
    BY <1>1, <1>2, <1>5, <2>1, Turns, StampTurns, Zenon
<1>6. ASSUME NEW t \in Tids, Commit(t) \/ Abort(t) \/ AbortUnlock(t) PROVE ProcessTypes'
  <2>1. /\ UNCHANGED <<server, run, died, changes, next_txn_id, log, global_lsn>> /\ latch' \in {latch, t}
        /\ locks' = locks \/ locks' = [locks EXCEPT ![t] = "none"]
    BY <1>6, Zenon DEF Commit, Abort, AbortUnlock, history, diskVars
  <2> QED
    BY <1>1, <1>2, <1>6, <2>1, Turns, Zenon
<1>7. ASSUME NEW t \in Tids, CommitLog(t) \/ AbortLog(t) \/ Autocommit(t) PROVE ProcessTypes'
  <2>1. /\ UNCHANGED <<server, run, died, changes, next_txn_id>> /\ latch' = Free
        /\ locks' = locks \/ locks' = [locks EXCEPT ![t] = "none"]
    BY <1>7, Zenon DEF CommitLog, AbortLog, Autocommit, Ended
  <2>2. log' \in Seq(Records) /\ global_lsn' \in Nat
    BY <1>2, <1>7, EndLogs, Zenon DEF Logs
  <2> QED
    BY <1>1, <1>2, <1>7, <2>1, <2>2, EndedTurns, Zenon
<1>8. ASSUME NEW t \in Tids, Undo(t) PROVE ProcessTypes'
  <2>1. UNCHANGED <<server, run, died, latch, locks, changes, next_txn_id, log, global_lsn>>
    BY <1>8, Zenon DEF Undo, history
  <2> QED
    BY <1>1, <1>2, <1>8, <2>1, EndTurns, Zenon
<1>9. ASSUME NEW t \in Tids, NEW p \in PageNos, Insert(t, p) PROVE ProcessTypes'
  <2>1. /\ UNCHANGED <<server, run, died, latch, next_txn_id, log, global_lsn>>
        /\ locks' = [locks EXCEPT ![t] = IF locks[t] = "none" THEN "IX" ELSE locks[t]]
    BY <1>9, Zenon DEF Insert
  <2>2. \E l \in {"none", "IX", "SIX"} : locks' = [locks EXCEPT ![t] = l]
    BY <2>1, Zenon DEF ProcessTypes
  <2>3. changes' \in Nat /\ \E ws : Turn(t, "log", txn[t].prev_lsn, ws)
    BY <1>9, InsertTurns, Zenon
  <2> QED
    BY <1>1, <1>2, <2>1, <2>2, <2>3, Zenon
<1>10. ASSUME NEW t \in Tids, NEW p \in PageNos, NEW type \in Changes, NEW slot \in Slots,
              DeleteLog(t, type, p, slot)
       PROVE  ProcessTypes'
  <2>1. UNCHANGED <<server, run, died, latch, next_txn_id>> /\ locks' = [locks EXCEPT ![t] = "SIX"]
    BY <1>10, Zenon DEF DeleteLog
  <2>2. log' \in Seq(Records) /\ global_lsn' \in Nat
    BY <1>2, <1>10, DeleteLogs, Zenon DEF Logs
  <2>3. changes' \in Nat /\ \E ws : Turn(t, "change", global_lsn, ws)
    BY <1>10, DeleteTurns
  <2> QED
    BY <1>1, <1>2, <2>1, <2>2, <2>3, Zenon
<1>11. ASSUME NEW p \in DOMAIN pages, Evict(p) PROVE ProcessTypes'
  <2>1. txn' \in [Tids -> Txns]
    BY <1>11, EvictTurns, Zenon
  <2> QED
    BY <1>11, <2>1, Zenon DEF ProcessTypes, Evict
<1>12. CASE Crash \/ sigint_handler \/ Start
  <2>1. txn' \in [Tids -> Txns] /\ locks' \in [Tids -> {"none", "IX", "SIX"}]
    BY <1>12, NoTxns, Zenon DEF Crash, sigint_handler, Start, Stopped, Booted
  <2> QED
    BY <1>12, <2>1 DEF Crash, sigint_handler, Start, Stopped, Booted, ProcessTypes, diskVars
<1>13. CASE StartDies
  <2>1. died' \in {"analyze", "redo", "undo"}
    BY <1>13, Zenon DEF StartDies
  <2> QED
    BY <1>13, <2>1, Zenon DEF StartDies, Starting, ProcessTypes
<1>14. CASE UNCHANGED vars
  BY <1>14, Zenon DEF ProcessTypes, vars, diskVars, history
<1> QED
  BY <1>3, <1>4, <1>5, <1>6, <1>7, <1>8, <1>9, <1>10, <1>11, <1>12, <1>13, <1>14, Zenon DEF Next, Changes, PageNos

-----------------------------------------------------------------------------
(* The lsns and the pages of the transactions. *)

\* An lsn below a number is below a greater number.
LEMMA LsnOrder ==
  \A lsn \in Lsns, m, n \in Nat : lsn < m /\ m <= n => lsn < n
BY DEF Lsns, INVALID_LSN

\* A step of one transaction.
LEMMA BoundsTurn ==
  ASSUME ProcessTypes, Bounds, NEW t \in Tids, NEW s, NEW prev \in Lsns, NEW ws, Turn(t, s, prev, ws),
         global_lsn' \in Nat, global_lsn <= global_lsn', prev < global_lsn',
         Counted \subseteq Counted', \A i \in 1 .. Len(ws) : ws[i].page_no \in Counted',
         s \in {"log", "change", "stamp", "restamp"} => ws # <<>>
  PROVE  Bounds'
<1>1. ASSUME NEW u \in Tids
      PROVE  /\ txn'[u].prev_lsn < global_lsn'
             /\ \A i \in 1 .. Len(txn'[u].writes) : txn'[u].writes[i].page_no \in Counted'
             /\ txn'[u].state \in {"log", "change", "stamp", "restamp"} => txn'[u].writes # <<>>
  <2>1. CASE u = t
    BY <2>1, Zenon DEF Turn
  <2>2. CASE u # t
    <3>1. txn'[u] = txn[u]
      BY <2>2, Zenon DEF Turn
    <3>2. txn[u].prev_lsn \in Lsns /\ global_lsn \in Nat
      BY Zenon DEF ProcessTypes, Txns
    <3>3. txn[u].prev_lsn < global_lsn
      BY Zenon DEF Bounds
    <3>4. txn[u].prev_lsn < global_lsn'
      BY <3>2, <3>3, LsnOrder, Zenon
    <3> QED
      BY <3>1, <3>4, Zenon DEF Bounds
  <2> QED
    BY <2>1, <2>2, Zenon
<1> QED
  BY <1>1, Zenon DEF Bounds

\* Bounds is kept.
LEMMA BoundsStep ==
  ASSUME PageTypes, ProcessTypes, Bounds, [Next]_vars
  PROVE  Bounds'
<1>1. global_lsn \in Nat /\ global_lsn \in Lsns /\ global_lsn <= global_lsn /\ global_lsn <= global_lsn + 1 /\ global_lsn < global_lsn + 1 /\ global_lsn + 1 \in Nat
  BY DEF ProcessTypes, Lsns
<1>2. ASSUME NEW t \in Tids
      PROVE  /\ txn[t].prev_lsn \in Lsns /\ txn[t].prev_lsn < global_lsn
             /\ txn[t].prev_lsn < global_lsn + 1 /\ txn[t].writes \in Seq(Writes)
             /\ \A i \in 1 .. Len(txn[t].writes) : txn[t].writes[i].page_no \in Counted
             /\ txn[t].state \in {"log", "change", "stamp", "restamp"} => txn[t].writes # <<>>
  <2>1. txn[t].prev_lsn \in Lsns /\ txn[t].writes \in Seq(Writes)
    BY Zenon DEF ProcessTypes, Txns
  <2>2. /\ txn[t].prev_lsn < global_lsn
        /\ \A i \in 1 .. Len(txn[t].writes) : txn[t].writes[i].page_no \in Counted
        /\ txn[t].state \in {"log", "change", "stamp", "restamp"} => txn[t].writes # <<>>
    BY Zenon DEF Bounds
  <2>3. txn[t].prev_lsn < global_lsn + 1
    BY <1>1, <2>1, <2>2, LsnOrder, Zenon
  <2> QED
    BY <2>1, <2>2, <2>3, Zenon
<1>0. Counted \subseteq Counted'
  BY PagesGrow, Zenon
<1>3. ASSUME NEW t \in Tids, begin(t) \/ InsertLog(t) PROVE Bounds'
  <2>2. global_lsn' = global_lsn + 1
    BY <1>3, EndLogs, InsertLogs, Zenon DEF Logs
  <2>4. Turn(t, "active", global_lsn, txn[t].writes)
    BY <1>3, Turns, Zenon
  <2> QED
    BY <1>0, <1>1, <1>2, <2>2, <2>4, BoundsTurn, Zenon
<1>4. ASSUME NEW t \in Tids, DeletePage(t) \/ UpdatePage(t) PROVE Bounds'
  <2>1. UNCHANGED global_lsn /\ txn[t].state = "change"
    BY <1>4, Zenon DEF DeletePage, UpdatePage, diskVars
  <2>3. \E s : Turn(t, s, txn[t].prev_lsn, txn[t].writes)
    BY <1>4, Turns, Zenon
  <2> QED
    BY <1>0, <1>1, <1>2, <2>1, <2>3, BoundsTurn, Zenon
<1>5. ASSUME NEW t \in Tids, UpdateLsn(t) \/ UndoUpdate(t) PROVE Bounds'
  <2>1. UNCHANGED global_lsn /\ txn[t].writes # <<>>
    BY <1>2, <1>5, Zenon DEF UpdateLsn, UndoUpdate
  <2>2. \E s : Turn(t, s, txn[t].prev_lsn, txn[t].writes)
    BY <1>5, Turns, Zenon
  <2> QED
    BY <1>0, <1>1, <1>2, <2>1, <2>2, BoundsTurn, Zenon
<1>6. ASSUME NEW t \in Tids, Commit(t) \/ Abort(t) \/ AbortUnlock(t) PROVE Bounds'
  <2>1. UNCHANGED global_lsn
    BY <1>6, Zenon DEF Commit, Abort, AbortUnlock
  <2>2. \E s \in {"commit", "undo", "abort"} : Turn(t, s, txn[t].prev_lsn, txn[t].writes)
    BY <1>6, Turns, Zenon
  <2> QED
    BY <1>0, <1>1, <1>2, <2>1, <2>2, BoundsTurn, Zenon
<1>7. ASSUME NEW t \in Tids, CommitLog(t) \/ AbortLog(t) \/ Autocommit(t) PROVE Bounds'
  <2>1. global_lsn' = global_lsn + 1
    BY <1>7, EndLogs, Zenon DEF Logs
  <2>3. \E s \in {"ended", "aborted"} : Turn(t, s, global_lsn, <<>>)
    BY <1>7, EndedTurns, Zenon
  <2>4. PICK ws : ws = <<>>
    BY Zenon
  <2>5. Len(ws) = 0 /\ \A i \in 1 .. Len(ws) : ws[i].page_no \in Counted'
    BY <2>4
  <2> QED
    BY <1>0, <1>1, <2>1, <2>3, <2>4, <2>5, BoundsTurn, Zenon
<1>8. ASSUME NEW t \in Tids, Undo(t) \/ UndoLsn(t) PROVE Bounds'
  <2>1. UNCHANGED global_lsn /\ txn[t].writes # <<>>
    BY <1>8, StampTurns, Zenon DEF Undo, UndoLsn
  <2>2. Turn(t, "undo", txn[t].prev_lsn, Front(txn[t].writes))
    BY <1>8, EndTurns, StampTurns, Zenon
  <2>3. \A i \in 1 .. Len(Front(txn[t].writes)) : Front(txn[t].writes)[i].page_no \in Counted'
    <3>1. PICK ws : ws = txn[t].writes
      BY Zenon
    <3>2. ws \in Seq(Writes) /\ ws # <<>> /\ \A i \in 1 .. Len(ws) : ws[i].page_no \in Counted
      BY <1>2, <2>1, <3>1, Zenon
    <3>3. \A i \in 1 .. Len(Front(ws)) : i \in 1 .. Len(ws) /\ Front(ws)[i] = ws[i]
      BY <3>2, FrontOf, Zenon
    <3> QED
      BY <1>0, <3>1, <3>2, <3>3, Zenon
  <2> QED
    BY <1>0, <1>1, <1>2, <2>1, <2>2, <2>3, BoundsTurn, Zenon
<1>9. ASSUME NEW t \in Tids, NEW p \in PageNos, Insert(t, p) PROVE Bounds'
  <2>1. UNCHANGED global_lsn
    BY <1>9, Zenon DEF Insert
  <2>2. p \in Counted'
    BY <1>9, InsertTurns, Zenon DEF Put
  <2>3. PICK w \in Writes : Turn(t, "log", txn[t].prev_lsn, Append(txn[t].writes, w)) /\ w.page_no = p
    BY <1>9, InsertTurns, Zenon
  <2>4. PICK ws : ws = Append(txn[t].writes, w)
    BY Zenon
  <2>5. ws # <<>> /\ \A i \in 1 .. Len(ws) : ws[i].page_no \in Counted'
    BY <1>0, <1>2, <2>2, <2>3, <2>4, AppendedAndFront
  <2> QED
    BY <1>0, <1>1, <1>2, <2>1, <2>3, <2>4, <2>5, BoundsTurn, Zenon
<1>10. ASSUME NEW t \in Tids, NEW p \in PageNos, NEW type \in Changes, NEW slot \in Slots,
              DeleteLog(t, type, p, slot)
       PROVE  Bounds'
  <2>1. global_lsn' = global_lsn + 1
    BY <1>10, DeleteLogs, Zenon DEF Logs
  <2>2. p \in Counted
    BY <1>10, DeleteTurns, Zenon
  <2>3. PICK w \in Writes : Turn(t, "change", global_lsn, Append(txn[t].writes, w)) /\ w.page_no = p
    BY <1>10, DeleteTurns
  <2>4. PICK ws : ws = Append(txn[t].writes, w)
    BY Zenon
  <2>5. ws # <<>> /\ \A i \in 1 .. Len(ws) : ws[i].page_no \in Counted'
    BY <1>0, <1>2, <2>2, <2>3, <2>4, AppendedAndFront
  <2>6. Turn(t, "change", global_lsn, ws)
    BY <2>3, <2>4, Zenon
  <2>7. global_lsn' \in Nat /\ global_lsn <= global_lsn' /\ global_lsn < global_lsn'
    BY <1>1, <2>1, Zenon
  <2> QED
    BY <1>0, <1>1, <2>5, <2>6, <2>7, BoundsTurn, Zenon
<1>11. ASSUME NEW p \in DOMAIN pages, Evict(p) PROVE Bounds'
  <2>1. UNCHANGED global_lsn
    BY <1>11, Zenon DEF Evict
  <2> QED
    BY <1>0, <1>11, <2>1, EvictTurns, Zenon DEF Bounds
<1>12. CASE Crash \/ sigint_handler \/ Start
  <2>1. /\ \A t \in Tids : /\ txn'[t].state = "none" /\ txn'[t].prev_lsn = INVALID_LSN
                           /\ txn'[t].writes = <<>>
        /\ global_lsn' \in Nat
    BY <1>12, NoTxns DEF Crash, sigint_handler, Start, Stopped, Booted, ProcessTypes
  <2>2. \A t \in Tids : Len(txn'[t].writes) = 0 /\ txn'[t].prev_lsn < global_lsn'
    BY <2>1, Numbers
  <2> QED
    BY <2>1, <2>2, SMTT(30) DEF Bounds
<1>13. CASE StartDies \/ UNCHANGED vars
  <2>1. UNCHANGED <<txn, global_lsn>>
    BY <1>13, Zenon DEF StartDies, vars
  <2> QED
    BY <1>0, <2>1, Zenon DEF Bounds
<1> QED
  BY <1>3, <1>4, <1>5, <1>6, <1>7, <1>8, <1>9, <1>10, <1>11, <1>12, <1>13, Zenon DEF Next, Changes, PageNos

\* A record that is added names a page that is counted.
LEMMA CountedLogs ==
  ASSUME ProcessTypes, LogCounted, Counted \subseteq Counted',
         NEW t, NEW type, NEW p, NEW change, Logs(t, type, p, change),
         type \in DataTypes => p \in Counted
  PROVE  LogCounted'
<1>1. Len(log) \in Nat /\ Len(log') = Len(log) + 1
  BY DEF Logs, ProcessTypes
<1>2. \A i \in 1 .. Len(log') : i \in 1 .. Len(log) \/ i = Len(log) + 1
  BY <1>1
<1>3. ASSUME NEW i \in 1 .. Len(log'), log'[i].type \in DataTypes PROVE log'[i].page_no \in Counted'
  <2>1. CASE i \in 1 .. Len(log)
    BY <1>3, <2>1, Zenon DEF Logs, LogCounted
  <2>2. CASE i = Len(log) + 1
    BY <1>3, <2>2, Zenon DEF Logs
  <2> QED
    BY <1>2, <2>1, <2>2, Zenon
<1> QED
  BY <1>3, Zenon DEF LogCounted

\* The log never names a page that the header does not count.
LEMMA LogCountedStep ==
  ASSUME PageTypes, ProcessTypes, Bounds, LogCounted, [Next]_vars
  PROVE  LogCounted'
<1>1. Counted \subseteq Counted'
  BY PagesGrow, Zenon
<1>2. CASE UNCHANGED log
  BY <1>1, <1>2, Zenon DEF LogCounted
<1>3. ASSUME NEW t \in Tids, begin(t) \/ CommitLog(t) \/ AbortLog(t) \/ Autocommit(t) PROVE LogCounted'
  <2>1. \E type \in {"BEGIN", "COMMIT", "ABORT"} : Logs(t, type, NoPage, NoChange)
    BY <1>3, EndLogs, Zenon
  <2>2. \A type \in {"BEGIN", "COMMIT", "ABORT"} : type \notin DataTypes
    BY DEF DataTypes
  <2> QED
    BY <1>1, <2>1, <2>2, CountedLogs, Zenon
<1>4. ASSUME NEW t \in Tids, InsertLog(t) PROVE LogCounted'
  <2>1. Last(txn[t].writes).page_no \in Counted
    BY <1>4, LastWrite, Zenon DEF InsertLog, Bounds
  <2> QED
    BY <1>1, <1>4, <2>1, InsertLogs, CountedLogs, Zenon
<1>5. ASSUME NEW t \in Tids, NEW p \in PageNos, NEW type \in Changes, NEW slot \in Slots,
             DeleteLog(t, type, p, slot)
      PROVE  LogCounted'
  <2>1. p \in Counted /\ Logs(t, type, p, changes')
    BY <1>5, DeleteTurns, DeleteLogs, Zenon
  <2>2. PICK change : change = changes'
    BY Zenon
  <2> QED
    BY <1>1, <2>1, <2>2, CountedLogs, Zenon
<1>6. ASSUME NEW t, DeletePage(t) \/ UpdatePage(t) \/ UpdateLsn(t) \/ Commit(t) \/ Abort(t)
      PROVE  UNCHANGED log
  BY <1>6, Zenon DEF DeletePage, UpdatePage, UpdateLsn, Commit, Abort, diskVars
<1>7. ASSUME NEW t, Undo(t) \/ UndoUpdate(t) \/ UndoLsn(t) \/ AbortUnlock(t) PROVE UNCHANGED log
  BY <1>7, Zenon DEF Undo, UndoUpdate, UndoLsn, AbortUnlock, diskVars
<1>8. ASSUME NEW t, NEW p, Insert(t, p) \/ Evict(p) PROVE UNCHANGED log
  BY <1>8, Zenon DEF Insert, Evict
<1>9. CASE Crash \/ sigint_handler \/ Start \/ StartDies \/ UNCHANGED vars
  BY <1>2, <1>9, Zenon DEF Crash, sigint_handler, Stopped, Start, StartDies, vars, diskVars
<1> QED
  BY <1>2, <1>3, <1>4, <1>5, <1>6, <1>7, <1>8, <1>9, Zenon DEF Next, Changes, PageNos

-----------------------------------------------------------------------------
(* The chain of records of a transaction. *)

\* The records have numbers.
LEMMA RecordTypes ==
  ASSUME ProcessTypes
  PROVE  \A i \in 1 .. Len(log) : log[i].run \in Nat /\ log[i].lsn \in Nat
<1>1. ASSUME NEW i \in 1 .. Len(log) PROVE log[i] \in Records
  BY DEF ProcessTypes
<1> QED
  BY <1>1, Zenon DEF Records

\* A new record follows the last one of its transaction.
LEMMA ChainLogs ==
  ASSUME ProcessTypes, ChainInv, server # "down", UNCHANGED <<run, server>>,
         NEW t \in Tids, NEW type, NEW p, NEW change, Logs(t, type, p, change),
         NEW s, NEW ws, Turn(t, s, global_lsn, ws), s # "none",
         type = "BEGIN" <=> txn[t].state = "none",
         next_txn_id' \in Nat, next_txn_id <= next_txn_id', t < next_txn_id'
  PROVE  ChainInv'
<1>1. PICK n : n = Len(log)
  BY Zenon
<1>2. /\ n \in Nat /\ run \in Nat /\ Len(log) = n /\ Len(log') = n + 1 /\ run' = run
      /\ \A i \in 1 .. n : log'[i] = log[i]
      /\ log'[n + 1].type = type /\ log'[n + 1].lsn = global_lsn /\ log'[n + 1].tid = t
      /\ log'[n + 1].prev_lsn = txn[t].prev_lsn /\ log'[n + 1].run = run
  BY <1>1, SMTT(30) DEF ProcessTypes, Logs
<1>3. 1 .. n + 1 = (1 .. n) \cup {n + 1} /\ n + 1 \notin 1 .. n
  BY <1>2
<1>4. ASSUME NEW u \in Tids PROVE Own(u)' = IF u = t THEN Own(u) \cup {n + 1} ELSE Own(u)
  BY <1>2, <1>3, ZenonT(30) DEF Own
<1>5. Before(n + 1)' = Own(t)
  <2>1. Before(n + 1)' = {j \in 1 .. n : log'[j].tid = t /\ log'[j].run = run}
    BY <1>2 DEF Before
  <2> QED
    BY <1>2, <2>1, ZenonT(30) DEF Own
<1>6. Linked(t)
  BY Zenon DEF ChainInv
<1>7. Chained(n + 1)'
  BY <1>2, <1>5, <1>6, ZenonT(30) DEF Linked, Chained, Own
<1>8. ASSUME NEW i \in 1 .. n PROVE Chained(i)'
  <2>1. Before(i)' = Before(i) /\ Before(i) \subseteq 1 .. n /\ log'[i] = log[i]
    BY <1>2, SMTT(30) DEF Before
  <2> QED
    BY <1>2, <2>1, ZenonT(30) DEF Chained, ChainInv
<1>9. \A i \in 1 .. Len(log') : log'[i].run <= run' /\ Chained(i)'
  BY <1>2, <1>3, <1>7, <1>8 DEF ChainInv
<1>10. Linked(t)'
  <2>1. \A j \in Own(t)' : j <= n + 1
    BY <1>2, <1>4, SMTT(30) DEF Own
  <2>2. n + 1 \in Own(t)'
    BY <1>4, Zenon
  <2> QED
    BY <1>2, <2>1, <2>2, Zenon DEF Linked, Turn
<1>11. ASSUME NEW u \in Tids, u # t PROVE Linked(u)'
  <2>1. txn'[u] = txn[u] /\ Own(u)' = Own(u) /\ Linked(u)
    BY <1>4, <1>11, Zenon DEF Turn, ChainInv
  <2>2. \A m \in Own(u) : log'[m] = log[m]
    BY <1>2, Zenon DEF Own
  <2>3. u < next_txn_id => u < next_txn_id'
    BY Numbers DEF ProcessTypes
  <2> QED
    BY <2>1, <2>2, <2>3, Zenon DEF Linked
<1> QED
  BY <1>9, <1>10, <1>11, Zenon DEF ChainInv

\* A step that writes no record.
LEMMA ChainStays ==
  ASSUME ChainInv, UNCHANGED <<log, run, next_txn_id>>, server' # "down" => server # "down",
         server' # "down" => \A t \in Tids : /\ txn'[t].state = "none" <=> txn[t].state = "none"
                                            /\ txn'[t].prev_lsn = txn[t].prev_lsn
  PROVE  ChainInv'
<1>1. \A i \in 1 .. Len(log) : Chained(i)' <=> Chained(i)
  BY ZenonT(30) DEF Chained, Before
<1>2. server' # "down" => \A t \in Tids : Linked(t)'
  BY DEF ChainInv, Linked, Own
<1> QED
  BY <1>1, <1>2, Zenon DEF ChainInv

\* A step of one transaction that writes no record.
LEMMA ChainTurn ==
  ASSUME ChainInv, UNCHANGED <<log, run, next_txn_id, server>>, NEW t \in Tids, NEW s, NEW ws,
         Turn(t, s, txn[t].prev_lsn, ws), s # "none", txn[t].state # "none"
  PROVE  ChainInv'
<1>1. \A u \in Tids : /\ txn'[u].state = "none" <=> txn[u].state = "none"
                      /\ txn'[u].prev_lsn = txn[u].prev_lsn
  BY Zenon DEF Turn
<1> QED
  BY <1>1, ChainStays, Zenon

\* The chains stay complete.
LEMMA ChainStep ==
  ASSUME PageTypes, ProcessTypes, Bounds, ChainInv, [Next]_vars
  PROVE  ChainInv'
<1>1. ASSUME NEW t \in Tids, begin(t) PROVE ChainInv'
  <2>1. /\ t = next_txn_id /\ next_txn_id' = next_txn_id + 1 /\ server # "down"
        /\ UNCHANGED <<run, server>> /\ next_txn_id \in Nat
    BY <1>1, Zenon DEF begin, Up, ProcessTypes
  <2>2. txn[t].state = "none"
    BY <2>1 DEF ChainInv, Linked
  <2>3. Logs(t, "BEGIN", NoPage, NoChange) /\ Turn(t, "active", global_lsn, txn[t].writes)
    BY <1>1, EndLogs, Turns, Zenon
  <2>4. next_txn_id' \in Nat /\ next_txn_id <= next_txn_id' /\ t < next_txn_id'
    BY <2>1, SMTT(30)
  <2> QED
    BY <2>1, <2>2, <2>3, <2>4, ChainLogs, Zenon
<1>2. ASSUME NEW t \in Tids, txn[t].state # "none", server # "down"
      PROVE  next_txn_id \in Nat /\ next_txn_id <= next_txn_id /\ t < next_txn_id
  BY <1>2 DEF ChainInv, Linked, ProcessTypes
<1>3. ASSUME NEW t \in Tids, InsertLog(t) PROVE ChainInv'
  <2>1. server # "down" /\ UNCHANGED <<run, server, next_txn_id>> /\ txn[t].state # "none"
    BY <1>3, Zenon DEF InsertLog, Up, history
  <2>2. /\ \E p, change : Logs(t, "INSERT", p, change)
        /\ Turn(t, "active", global_lsn, txn[t].writes)
    BY <1>3, InsertLogs, Turns, Zenon
  <2> QED
    BY <1>2, <2>1, <2>2, ChainLogs
<1>4. ASSUME NEW t \in Tids, CommitLog(t) \/ Autocommit(t) PROVE ChainInv'
  <2>1. server # "down" /\ UNCHANGED <<run, server, next_txn_id>> /\ txn[t].state # "none"
    BY <1>4, Zenon DEF CommitLog, Autocommit, Up
  <2>2. Logs(t, "COMMIT", NoPage, NoChange) /\ Turn(t, "ended", global_lsn, <<>>)
    BY <1>4, EndLogs, EndedTurns, Zenon
  <2> QED
    BY <1>2, <2>1, <2>2, ChainLogs, SMTT(30)
<1>5. ASSUME NEW t \in Tids, AbortLog(t) PROVE ChainInv'
  <2>1. server # "down" /\ UNCHANGED <<run, server, next_txn_id>> /\ txn[t].state # "none"
    BY <1>5, Zenon DEF AbortLog, Up
  <2>2. Logs(t, "ABORT", NoPage, NoChange) /\ Turn(t, "aborted", global_lsn, <<>>)
    BY <1>5, EndLogs, EndedTurns, Zenon
  <2> QED
    BY <1>2, <2>1, <2>2, ChainLogs, SMTT(30)
<1>6. ASSUME NEW t \in Tids, NEW p \in PageNos, NEW type \in Changes, NEW slot \in Slots,
             DeleteLog(t, type, p, slot)
      PROVE  ChainInv'
  <2>1. server # "down" /\ UNCHANGED <<run, server, next_txn_id>> /\ txn[t].state # "none"
    BY <1>6, Zenon DEF DeleteLog, Up, Idle
  <2>2. Logs(t, type, p, changes') /\ type # "BEGIN" /\ \E ws : Turn(t, "change", global_lsn, ws)
    BY <1>6, DeleteLogs, DeleteTurns DEF Changes
  <2> QED
    BY <1>2, <2>1, <2>2, ChainLogs, Zenon
<1>7. ASSUME NEW t \in Tids,
             \/ DeletePage(t) \/ UpdatePage(t) \/ UpdateLsn(t) \/ Commit(t) \/ Abort(t)
             \/ Undo(t) \/ UndoUpdate(t) \/ UndoLsn(t) \/ AbortUnlock(t)
      PROVE  ChainInv'
  <2>1. UNCHANGED <<log, run, server, next_txn_id>> /\ txn[t].state # "none"
    BY <1>7, Zenon DEF DeletePage, UpdatePage, UpdateLsn, Commit, Abort, Undo, UndoUpdate, UndoLsn,
                       AbortUnlock, Idle, history, diskVars
  <2>2. \E s, ws : s # "none" /\ Turn(t, s, txn[t].prev_lsn, ws)
    BY <1>7, Turns, EndTurns, StampTurns, Zenon
  <2> QED
    BY <2>1, <2>2, ChainTurn, Zenon
<1>8. ASSUME NEW t \in Tids, NEW p \in PageNos, Insert(t, p) PROVE ChainInv'
  <2>1. UNCHANGED <<log, run, server, next_txn_id>> /\ txn[t].state # "none"
    BY <1>8, Zenon DEF Insert, Idle
  <2>2. \E ws : Turn(t, "log", txn[t].prev_lsn, ws)
    BY <1>8, InsertTurns, Zenon
  <2> QED
    BY <2>1, <2>2, ChainTurn, Zenon
<1>9. ASSUME NEW p \in DOMAIN pages, Evict(p) PROVE ChainInv'
  BY <1>9, EvictTurns, ChainStays, Zenon DEF Evict
<1>10. CASE Crash \/ sigint_handler
  BY <1>10, ChainStays, Zenon DEF Crash, sigint_handler, Stopped
<1>11. CASE Start
  <2>1. run' = run + 1 /\ run \in Nat /\ UNCHANGED log
    BY <1>11, Zenon DEF Start, Booted, ProcessTypes, diskVars
  <2>2. \A i \in 1 .. Len(log) : log[i].run \in Nat /\ log[i].run <= run
    BY RecordTypes, Zenon DEF ChainInv
  <2>3. \A i \in 1 .. Len(log) : log[i].run <= run' /\ log[i].run # run'
    BY <2>1, <2>2
  <2>4. \A t \in Tids : Own(t)' = {}
    BY <2>1, <2>3, Zenon DEF Own
  <2>5. \A t \in Tids : Linked(t)'
    BY <1>11, <2>4, NoTxns, Zenon DEF Start, Booted, Linked
  <2>6. \A i \in 1 .. Len(log) : Chained(i)' <=> Chained(i)
    BY <2>1, Zenon DEF Chained, Before
  <2> QED
    BY <2>1, <2>3, <2>5, <2>6, Zenon DEF ChainInv
<1>12. CASE StartDies \/ UNCHANGED vars
  BY <1>12, ChainStays, Zenon DEF StartDies, vars, diskVars, history
<1> QED
  BY <1>1, <1>3, <1>4, <1>5, <1>6, <1>7, <1>8, <1>9, <1>10, <1>11, <1>12, Zenon DEF Next, Changes, PageNos

-----------------------------------------------------------------------------
(* Deletions and updates are in the log first. *)

\* The changes in the log.
InLog == {log[k].change : k \in 1 .. Len(log)}

\* Every deletion and update of a write set is in a set of changes.
WritesIn(ws, S) == \A i \in 1 .. Len(ws) : ws[i].type # "INSERT" => ws[i].change \in S

\* The log has more records than before, or as many.
LogGrows ==
  /\ Len(log) \in Nat /\ Len(log') \in Nat /\ Len(log) <= Len(log')
  /\ \A i \in 1 .. Len(log) : log'[i] = log[i]

\* The log is only added to.
LEMMA LogOnlyGrows ==
  ASSUME ProcessTypes
  PROVE  /\ UNCHANGED log => LogGrows
         /\ \A t, type, p, change : Logs(t, type, p, change) => LogGrows /\ change \in InLog'
<1>1. Len(log) \in Nat
  BY DEF ProcessTypes
<1>2. ASSUME UNCHANGED log PROVE LogGrows
  BY <1>1, <1>2 DEF LogGrows
<1>3. ASSUME NEW t, NEW type, NEW p, NEW change, Logs(t, type, p, change) PROVE LogGrows /\ change \in InLog'
  <2>1. Len(log') = Len(log) + 1 /\ log'[Len(log) + 1].change = change
    BY <1>3, Zenon DEF Logs
  <2>2. Len(log) + 1 \in 1 .. Len(log')
    BY <1>1, <2>1
  <2> QED
    BY <1>1, <1>3, <2>1, <2>2, SMTT(30) DEF LogGrows, Logs, InLog
<1> QED
  BY <1>2, <1>3, Zenon

\* What was in the log is.
LEMMA StaysLogged ==
  ASSUME LogGrows
  PROVE  InLog \subseteq InLog'
<1>1. ASSUME NEW change \in InLog PROVE change \in InLog'
  <2>1. PICK k \in 1 .. Len(log) : log[k].change = change
    BY <1>1, Zenon DEF InLog
  <2>2. k \in 1 .. Len(log') /\ log'[k] = log[k]
    BY DEF LogGrows
  <2> QED
    BY <2>1, <2>2, Zenon DEF InLog
<1> QED
  BY <1>1, Zenon

\* A step of one transaction.
LEMMA LoggedTurn ==
  ASSUME LoggedFirst, LogGrows, NEW t \in Tids, NEW s, NEW prev, NEW ws, Turn(t, s, prev, ws),
         WritesIn(ws, InLog')
  PROVE  LoggedFirst'
<1>1. ASSUME NEW u \in Tids PROVE WritesIn(txn'[u].writes, InLog')
  <2>1. CASE u = t
    BY <2>1, Zenon DEF Turn
  <2>2. CASE u # t
    <3>1. txn'[u] = txn[u] /\ WritesIn(txn[u].writes, InLog)
      BY <2>2, ZenonT(30) DEF Turn, LoggedFirst, InLog, WritesIn
    <3> QED
      BY <3>1, StaysLogged, Zenon DEF WritesIn
  <2> QED
    BY <2>1, <2>2, Zenon
<1> QED
  BY <1>1, Zenon DEF LoggedFirst, InLog, WritesIn

\* No step makes a change that is not logged.
LEMMA LoggedStep ==
  ASSUME PageTypes, ProcessTypes, Bounds, LoggedFirst, [Next]_vars
  PROVE  LoggedFirst'
<1>1. ASSUME NEW t \in Tids
      PROVE  txn[t].writes \in Seq(Writes) /\ (LogGrows => WritesIn(txn[t].writes, InLog'))
  <2>1. txn[t].writes \in Seq(Writes)
    BY Zenon DEF ProcessTypes, Txns
  <2>2. WritesIn(txn[t].writes, InLog)
    BY Zenon DEF WritesIn, LoggedFirst, InLog
  <2> QED
    BY <2>1, <2>2, StaysLogged, Zenon DEF WritesIn
<1>2. ASSUME NEW t \in Tids, begin(t) \/ InsertLog(t) PROVE LoggedFirst'
  <2>1. LogGrows
    BY <1>2, EndLogs, InsertLogs, LogOnlyGrows, Zenon
  <2> QED
    BY <1>1, <1>2, <2>1, Turns, LoggedTurn, Zenon
<1>3. ASSUME NEW t \in Tids, CommitLog(t) \/ AbortLog(t) \/ Autocommit(t) PROVE LoggedFirst'
  <2>1. LogGrows
    BY <1>3, EndLogs, LogOnlyGrows, Zenon
  <2>2. PICK ws, s : ws = <<>> /\ Turn(t, s, global_lsn, ws)
    BY <1>3, EndedTurns, Zenon
  <2>3. Len(ws) = 0 /\ WritesIn(ws, InLog')
    BY <2>2 DEF WritesIn
  <2> QED
    BY <2>1, <2>2, <2>3, LoggedTurn, Zenon
<1>4. ASSUME NEW t \in Tids, NEW p \in PageNos, NEW type \in Changes, NEW slot \in Slots,
             DeleteLog(t, type, p, slot)
      PROVE  LoggedFirst'
  <2>1. LogGrows /\ changes' \in InLog'
    BY <1>4, DeleteLogs, LogOnlyGrows, Zenon
  <2>2. PICK w \in Writes : Turn(t, "change", global_lsn, Append(txn[t].writes, w)) /\ w.change = changes'
    BY <1>4, DeleteTurns
  <2>3. PICK ws : ws = Append(txn[t].writes, w)
    BY Zenon
  <2>4. \A i \in 1 .. Len(ws) : (i \in 1 .. Len(txn[t].writes) /\ ws[i] = txn[t].writes[i]) \/ ws[i] = w
    BY <1>1, <2>3, AppendedAndFront
  <2>5. WritesIn(ws, InLog')
    BY <1>1, <2>1, <2>2, <2>4, Zenon DEF WritesIn
  <2> QED
    BY <2>1, <2>2, <2>3, <2>5, LoggedTurn, Zenon
<1>5. ASSUME NEW t \in Tids, DeletePage(t) \/ UpdatePage(t) \/ UpdateLsn(t) \/ Commit(t) \/ Abort(t) \/ UndoUpdate(t) \/ AbortUnlock(t)
      PROVE  LoggedFirst'
  <2>1. LogGrows
    BY <1>5, LogOnlyGrows, Zenon DEF DeletePage, UpdatePage, UpdateLsn, Commit, Abort, UndoUpdate,
                                     AbortUnlock, diskVars
  <2>2. \E s : Turn(t, s, txn[t].prev_lsn, txn[t].writes)
    BY <1>5, Turns, Zenon
  <2> QED
    BY <1>1, <2>1, <2>2, LoggedTurn, Zenon
<1>6. ASSUME NEW t \in Tids, Undo(t) \/ UndoLsn(t) PROVE LoggedFirst'
  <2>1. LogGrows /\ txn[t].writes # <<>>
    BY <1>6, LogOnlyGrows, StampTurns, Zenon DEF Undo, UndoLsn, diskVars
  <2>2. PICK ws : ws = Front(txn[t].writes)
    BY Zenon
  <2>3. \A i \in 1 .. Len(ws) : i \in 1 .. Len(txn[t].writes) /\ ws[i] = txn[t].writes[i]
    BY <1>1, <2>1, <2>2, FrontOf, Zenon
  <2>4. WritesIn(ws, InLog')
    BY <1>1, <2>1, <2>3, Zenon DEF WritesIn
  <2> QED
    BY <1>6, <2>1, <2>2, <2>4, EndTurns, StampTurns, LoggedTurn, Zenon
<1>7. ASSUME NEW t \in Tids, NEW p \in PageNos, Insert(t, p) PROVE LoggedFirst'
  <2>1. LogGrows
    BY <1>7, LogOnlyGrows, Zenon DEF Insert
  <2>2. PICK w \in Writes : Turn(t, "log", txn[t].prev_lsn, Append(txn[t].writes, w)) /\ w.type = "INSERT"
    BY <1>7, InsertTurns, Zenon
  <2>3. PICK ws : ws = Append(txn[t].writes, w)
    BY Zenon
  <2>4. \A i \in 1 .. Len(ws) : (i \in 1 .. Len(txn[t].writes) /\ ws[i] = txn[t].writes[i]) \/ ws[i] = w
    BY <1>1, <2>3, AppendedAndFront
  <2>5. WritesIn(ws, InLog')
    BY <1>1, <2>1, <2>2, <2>4, Zenon DEF WritesIn
  <2> QED
    BY <2>1, <2>2, <2>3, <2>5, LoggedTurn, Zenon
<1>8. ASSUME NEW p \in DOMAIN pages, Evict(p) PROVE LoggedFirst'
  <2>1. UNCHANGED log
    BY <1>8, Zenon DEF Evict
  <2> QED
    BY <1>8, <2>1, EvictTurns, SMTT(30) DEF LoggedFirst
<1>9. CASE Crash \/ sigint_handler \/ Start
  <2>1. \A t \in Tids : txn'[t].writes = <<>>
    BY <1>9, NoTxns, Zenon DEF Crash, sigint_handler, Start, Stopped, Booted
  <2>2. \A t \in Tids : Len(txn'[t].writes) = 0
    BY <2>1, SMTT(30)
  <2> QED
    BY <2>2 DEF LoggedFirst
<1>10. CASE StartDies \/ UNCHANGED vars
  <2>1. UNCHANGED <<txn, log>>
    BY <1>10, Zenon DEF StartDies, vars, diskVars
  <2> QED
    BY <2>1, Zenon DEF LoggedFirst
<1> QED
  BY <1>2, <1>3, <1>4, <1>5, <1>6, <1>7, <1>8, <1>9, <1>10, Zenon DEF Next, Changes, PageNos

-----------------------------------------------------------------------------
(* The locks on the table. *)

\* What a state and a write set ask of the lock.
Holds(s, ws, l) ==
  /\ s \in {"change", "stamp"} => l = "SIX"
  /\ s \in {"active", "log", "undo", "restamp"} /\ ws # <<>> => l # "none"
  /\ s = "none" => ws = <<>>

\* t gets lock l, or gives it back.
LEMMA LockTurn ==
  ASSUME LockInv, NEW t \in Tids, NEW s, NEW prev, NEW ws, Turn(t, s, prev, ws), NEW l,
         locks'[t] = l, \A u \in Tids \ {t} : locks'[u] = locks[u], Holds(s, ws, l),
         l # "none" => \A u \in Tids \ {t} : locks[u] # "SIX",
         l = "SIX" => \A u \in Tids \ {t} : locks[u] = "none"
  PROVE  LockInv'
<1>1. ASSUME NEW v \in Tids, NEW u \in Tids, v # u, locks'[v] = "SIX" PROVE locks'[u] = "none"
  <2>1. CASE v = t
    BY <1>1, <2>1
  <2>2. CASE u = t
    BY <1>1, <2>2, Zenon
  <2>3. CASE v # t /\ u # t
    BY <1>1, <2>3, Zenon DEF LockInv
  <2> QED
    BY <2>1, <2>2, <2>3, Zenon
<1>2. ASSUME NEW u \in Tids PROVE Holds(txn'[u].state, txn'[u].writes, locks'[u])
  <2>1. CASE u = t
    BY <2>1, Zenon DEF Turn
  <2>2. CASE u # t
    <3>1. txn'[u] = txn[u] /\ locks'[u] = locks[u]
      BY <2>2, Zenon DEF Turn
    <3> QED
      BY <3>1, Zenon DEF LockInv, Holds
  <2> QED
    BY <2>1, <2>2, Zenon
<1> QED
  BY <1>1, <1>2, Zenon DEF LockInv, Holds

\* t keeps the lock it has.
LEMMA LockKept ==
  ASSUME LockInv, UNCHANGED locks, NEW t \in Tids, NEW s, NEW prev, NEW ws, Turn(t, s, prev, ws),
         Holds(s, ws, locks[t])
  PROVE  LockInv'
<1>1. \A u \in Tids \ {t} : /\ locks[t] = "SIX" => locks[u] = "none"
                            /\ locks[u] = "SIX" => locks[t] = "none"
  BY Zenon DEF LockInv
<1> QED
  BY <1>1, LockTurn, Zenon

\* Whoever changes a page has the table locked, and alone if it deletes or updates.
LEMMA LockStep ==
  ASSUME PageTypes, ProcessTypes, Bounds, ChainInv, LockInv, [Next]_vars
  PROVE  LockInv'
<1>1. ASSUME NEW t \in Tids PROVE Holds(txn[t].state, txn[t].writes, locks[t])
  BY Zenon DEF LockInv, Holds
<1>2. ASSUME NEW t \in Tids, begin(t) PROVE LockInv'
  <2>1. t = next_txn_id /\ server # "down" /\ UNCHANGED locks /\ next_txn_id \in Nat
    BY <1>2, Zenon DEF begin, Up, ProcessTypes
  <2>2. txn[t].state = "none"
    BY <2>1 DEF ChainInv, Linked
  <2>3. Holds("active", txn[t].writes, locks[t])
    BY <1>1, <2>2, Zenon DEF Holds
  <2> QED
    BY <1>2, <2>1, <2>3, Turns, LockKept, Zenon
<1>3. ASSUME NEW t \in Tids, InsertLog(t) \/ UpdateLsn(t) \/ DeletePage(t) PROVE LockInv'
  <2>1. UNCHANGED locks /\ txn[t].state \in {"log", "change", "stamp"}
    BY <1>3, Zenon DEF InsertLog, UpdateLsn, DeletePage
  <2>2. Holds("active", txn[t].writes, locks[t])
    BY <1>1, <2>1, Zenon DEF Holds
  <2>3. \E prev : Turn(t, "active", prev, txn[t].writes)
    BY <1>3, Turns, Zenon
  <2> QED
    BY <2>1, <2>2, <2>3, LockKept, Zenon
<1>4. ASSUME NEW t \in Tids, UpdatePage(t) PROVE LockInv'
  <2>1. UNCHANGED locks /\ txn[t].state = "change"
    BY <1>4, Zenon DEF UpdatePage
  <2>2. Holds("stamp", txn[t].writes, locks[t])
    BY <1>1, <2>1, Zenon DEF Holds
  <2> QED
    BY <1>4, <2>1, <2>2, Turns, LockKept, Zenon
<1>5. ASSUME NEW t \in Tids, Commit(t) PROVE LockInv'
  <2>1. locks'[t] = "none" /\ \A u \in Tids \ {t} : locks'[u] = locks[u]
    BY <1>5, Zenon DEF Commit, ProcessTypes
  <2>2. Holds("commit", txn[t].writes, "none")
    BY Zenon DEF Holds
  <2> QED
    BY <1>5, <2>1, <2>2, Turns, LockTurn, Zenon
<1>6. ASSUME NEW t \in Tids, Abort(t) PROVE LockInv'
  <2>1. UNCHANGED locks /\ txn[t].state = "active"
    BY <1>6, Zenon DEF Abort, Idle
  <2>2. Holds("undo", txn[t].writes, locks[t])
    BY <1>1, <2>1, Zenon DEF Holds
  <2> QED
    BY <1>6, <2>1, <2>2, Turns, LockKept, Zenon
<1>7. ASSUME NEW t \in Tids, Undo(t) \/ UndoLsn(t) PROVE LockInv'
  <2>1. UNCHANGED locks /\ txn[t].state \in {"undo", "restamp"} /\ txn[t].writes # <<>>
    BY <1>7, StampTurns, Zenon DEF Undo, UndoLsn
  <2>2. Holds("undo", Front(txn[t].writes), locks[t])
    BY <1>1, <2>1, Zenon DEF Holds
  <2> QED
    BY <1>7, <2>1, <2>2, EndTurns, StampTurns, LockKept, Zenon
<1>8. ASSUME NEW t \in Tids, CommitLog(t) \/ AbortLog(t) \/ Autocommit(t) PROVE LockInv'
  <2>1. UNCHANGED locks
    BY <1>8, Zenon DEF CommitLog, AbortLog, Autocommit
  <2>2. Holds("ended", <<>>, locks[t]) /\ Holds("aborted", <<>>, locks[t])
    BY Zenon DEF Holds
  <2> QED
    BY <1>8, <2>1, <2>2, EndedTurns, LockKept, Zenon
<1>9. ASSUME NEW t \in Tids, UndoUpdate(t) \/ AbortUnlock(t) PROVE LockInv'
  <2>1. CASE UndoUpdate(t)
    <3>1. UNCHANGED locks /\ txn[t].state = "undo"
      BY <2>1, Zenon DEF UndoUpdate
    <3>2. Holds("restamp", txn[t].writes, locks[t])
      BY <1>1, <3>1, Zenon DEF Holds
    <3> QED
      BY <2>1, <3>1, <3>2, Turns, LockKept, Zenon
  <2>2. CASE AbortUnlock(t)
    <3>1. locks'[t] = "none" /\ \A u \in Tids \ {t} : locks'[u] = locks[u]
      BY <2>2, Zenon DEF AbortUnlock, ProcessTypes
    <3>2. Holds("abort", txn[t].writes, "none")
      BY Zenon DEF Holds
    <3> QED
      BY <2>2, <3>1, <3>2, Turns, LockTurn, Zenon
  <2> QED
    BY <1>9, <2>1, <2>2, Zenon
<1>10. ASSUME NEW t \in Tids, NEW p \in PageNos, Insert(t, p) PROVE LockInv'
  <2>1. /\ locks'[t] = IF locks[t] = "none" THEN "IX" ELSE locks[t]
        /\ \A u \in Tids \ {t} : locks'[u] = locks[u] /\ locks[u] # "SIX"
    BY <1>10, Zenon DEF Insert, ProcessTypes, MayInsert
  <2>2. PICK ws : Turn(t, "log", txn[t].prev_lsn, ws)
    BY <1>10, InsertTurns, Zenon
  <2>3. Holds("log", ws, locks'[t])
    BY <2>1, Zenon DEF Holds
  <2>4. locks'[t] = "SIX" => \A u \in Tids \ {t} : locks[u] = "none"
    BY <2>1, Zenon DEF LockInv
  <2> QED
    BY <2>1, <2>2, <2>3, <2>4, LockTurn, Zenon
<1>11. ASSUME NEW t \in Tids, NEW p \in PageNos, NEW type \in Changes, NEW slot \in Slots,
              DeleteLog(t, type, p, slot)
       PROVE  LockInv'
  <2>1. locks'[t] = "SIX" /\ \A u \in Tids \ {t} : locks'[u] = locks[u] /\ locks[u] = "none"
    BY <1>11, Zenon DEF DeleteLog, ProcessTypes, MayScan
  <2>2. PICK ws : Turn(t, "change", global_lsn, ws)
    BY <1>11, DeleteTurns
  <2>3. Holds("change", ws, "SIX")
    BY Zenon DEF Holds
  <2> QED
    BY <2>1, <2>2, <2>3, LockTurn, Zenon
<1>12. ASSUME NEW p \in DOMAIN pages, Evict(p) PROVE LockInv'
  <2>1. UNCHANGED locks
    BY <1>12, Zenon DEF Evict
  <2> QED
    BY <1>12, <2>1, EvictTurns, Zenon DEF LockInv
<1>13. CASE Crash \/ sigint_handler \/ Start
  <2>1. \A t \in Tids : txn'[t].writes = <<>> /\ txn'[t].state = "none" /\ locks'[t] = "none"
    BY <1>13, NoTxns, Zenon DEF Crash, sigint_handler, Start, Stopped, Booted
  <2> QED
    BY <2>1, Zenon DEF LockInv
<1>14. CASE StartDies \/ UNCHANGED vars
  BY <1>14, Zenon DEF StartDies, vars, LockInv
<1> QED
  BY <1>2, <1>3, <1>4, <1>5, <1>6, <1>7, <1>8, <1>9, <1>10, <1>11, <1>12, <1>13, <1>14, Zenon DEF Next, Changes, PageNos

\* A process that is not up can only start.
LEMMA RunOrStart ==
  ASSUME [Next]_vars
  PROVE  Start \/ StartDies \/ UNCHANGED vars \/ (server # "down" /\ UNCHANGED run)
<1>1. ASSUME Crash \/ sigint_handler PROVE server # "down" /\ UNCHANGED run
  BY <1>1, Zenon DEF Crash, sigint_handler, Stopped, Up
<1>2. ASSUME NEW p, Evict(p) PROVE server # "down" /\ UNCHANGED run
  BY <1>2, Zenon DEF Evict, Up
<1>3. ASSUME NEW t, InsertLog(t) \/ DeletePage(t) \/ UpdatePage(t) \/ UpdateLsn(t) \/ Commit(t) \/ Abort(t)
      PROVE  server # "down" /\ UNCHANGED run
  BY <1>3, Zenon DEF InsertLog, DeletePage, UpdatePage, UpdateLsn, Commit, Abort, Up, history
<1>4. ASSUME NEW t, begin(t) \/ CommitLog(t) \/ AbortLog(t) \/ Autocommit(t)
      PROVE  server # "down" /\ UNCHANGED run
  BY <1>4, Zenon DEF begin, CommitLog, AbortLog, Autocommit, Up
<1>6. ASSUME NEW t, Undo(t) \/ UndoUpdate(t) \/ UndoLsn(t) \/ AbortUnlock(t)
      PROVE  server # "down" /\ UNCHANGED run
  BY <1>6, Zenon DEF Undo, UndoUpdate, UndoLsn, AbortUnlock, Up, history
<1>5. ASSUME NEW t, NEW p, Insert(t, p) \/ \E type, slot : DeleteLog(t, type, p, slot)
      PROVE  server # "down" /\ UNCHANGED run
  BY <1>5, Zenon DEF Insert, DeleteLog, Up
<1> QED
  BY <1>1, <1>2, <1>3, <1>4, <1>5, <1>6, Zenon DEF Next

\* Before the first start nothing is on disk.
LEMMA FirstRunStep ==
  ASSUME ProcessTypes, FirstRun, [Next]_vars
  PROVE  FirstRun'
<1>1. CASE Start
  BY <1>1 DEF ProcessTypes, FirstRun, Start, Booted
<1>2. CASE StartDies
  <2>1. died' \in {"analyze", "redo", "undo"}
    BY <1>2, Zenon DEF StartDies
  <2>2. died' # "no"
    BY <2>1
  <2> QED
    BY <2>2, Zenon DEF FirstRun
<1>4. CASE UNCHANGED vars
  BY <1>4, Zenon DEF FirstRun, vars, diskVars, history
<1>3. CASE server # "down" /\ UNCHANGED run
  <2>1. died = "no" /\ run # 0
    BY <1>3, Zenon DEF FirstRun, ProcessTypes
  <2> QED
    BY <1>3, <2>1, Zenon DEF FirstRun
<1> QED
  BY <1>1, <1>2, <1>3, <1>4, RunOrStart, Zenon

-----------------------------------------------------------------------------
(* The page_lsn and what is on the page. *)

\* A record is added: its lsn is greater than that of every page.
LEMMA CoverLogs ==
  ASSUME PageTypes, ProcessTypes, DiskCovered, PoolCovered, LogMade, MadeFirst, PagesStay,
         NEW t \in Tids, NEW type, NEW p, NEW change, Logs(t, type, p, change),
         NEW s, NEW prev, NEW ws, Turn(t, s, prev, ws), txn[t].state # "change", s # "log",
         type \in DataTypes =>
           Made(p, change) \/ (s = "change" /\ Last(ws).page_no = p /\ Last(ws).change = change)
  PROVE  DiskCovered' /\ PoolCovered' /\ LogMade' /\ MadeFirst'
<1>1. PICK n : n = Len(log)
  BY Zenon
<1>2. /\ n \in Nat /\ Len(log) = n /\ Len(log') = n + 1 /\ \A i \in 1 .. n : log'[i] = log[i]
      /\ log'[n + 1].type = type /\ log'[n + 1].lsn = global_lsn /\ log'[n + 1].page_no = p
      /\ log'[n + 1].change = change /\ global_lsn' = global_lsn + 1 /\ global_lsn \in Nat
  BY <1>1, SMTT(30) DEF ProcessTypes, Logs
<1>3. 1 .. n + 1 = (1 .. n) \cup {n + 1}
  BY <1>2
<1>4. disk' = disk /\ pages' = pages
  BY Zenon DEF PagesStay
<1>5. ASSUME NEW q, NEW v \in Pages, v.lsn < global_lsn, Covered(q, v)
      PROVE  /\ v.lsn < global_lsn'
             /\ \A i \in 1 .. Len(log') :
                  log'[i].type \in DataTypes /\ log'[i].page_no = q /\ log'[i].lsn <= v.lsn => log'[i].change \in v.made
  <2>1. v.lsn \in Lsns
    BY Zenon DEF Pages
  <2>2. v.lsn < global_lsn' /\ ~(global_lsn <= v.lsn)
    BY <1>2, <1>5, <2>1, SMTT(30) DEF Lsns, INVALID_LSN
  <2> QED
    BY <1>2, <1>3, <1>5, <2>2, Zenon DEF Covered
<1>6. DiskCovered'
  BY <1>4, <1>5, ZenonT(30) DEF DiskCovered, PoolCovered, PageTypes, Covered
<1>7. PoolCovered'
  <2>1. \A q \in DOMAIN disk : disk[q].lsn < global_lsn'
    BY <1>5, Zenon DEF PoolCovered, DiskCovered, PageTypes
  <2>2. \A q \in DOMAIN pages' : pages'[q].lsn < global_lsn' /\ Covered(q, pages[q])'
    BY <1>4, <1>5, Zenon DEF PoolCovered, PageTypes, Covered
  <2> QED
    BY <1>4, <2>1, <2>2, Zenon DEF PoolCovered
<1>8. ASSUME NEW i \in 1 .. n + 1, log'[i].type \in DataTypes
      PROVE  \/ log'[i].page_no \in DOMAIN pages /\ log'[i].change \in pages[log'[i].page_no].made
             \/ \E u \in Tids : /\ txn'[u].state = "change"
                                /\ Last(txn'[u].writes).page_no = log'[i].page_no
                                /\ Last(txn'[u].writes).change = log'[i].change
  <2>1. CASE i = n + 1
    BY <1>2, <1>8, <2>1, Zenon DEF Made, Turn
  <2>2. CASE i \in 1 .. n
    <3>1. log'[i] = log[i] /\ (Made(log[i].page_no, log[i].change) \/ \E u \in Tids : Pending(u, log[i].page_no, log[i].change))
      BY <1>2, <1>8, <2>2, Zenon DEF LogMade
    <3>2. ASSUME NEW u \in Tids, txn[u].state = "change" PROVE txn'[u] = txn[u]
      BY <3>2, Zenon DEF Turn
    <3> QED
      BY <3>1, <3>2, Zenon DEF Made, Pending
  <2> QED
    BY <1>3, <1>8, <2>1, <2>2, Zenon
<1>9. LogMade'
  BY <1>2, <1>4, <1>8, Zenon DEF LogMade, Made, Pending
<1>10. MadeFirst'
  <2>1. ASSUME NEW u \in Tids, txn'[u].state = "log" PROVE txn'[u] = txn[u]
    BY <2>1, Zenon DEF Turn
  <2> QED
    BY <1>4, <2>1, Zenon DEF MadeFirst, Made
<1> QED
  BY <1>6, <1>7, <1>9, <1>10, Zenon

\* A new page is on disk: no record names it yet.
LEMMA NewPageCovered ==
  ASSUME PageTypes, LogCounted, DiskCovered, UNCHANGED log,
         num_pages < MaxPages, disk' = With(disk, num_pages + 1, NewPage)
  PROVE  DiskCovered'
<1>1. num_pages + 1 \notin Counted
  BY DEF PageTypes, Counted
<1>2. ASSUME NEW q \in DOMAIN disk' PROVE Covered(q, disk[q])'
  <2>1. CASE q = num_pages + 1
    BY <1>1, <2>1, Zenon DEF LogCounted, Covered
  <2>2. CASE q # num_pages + 1
    <3>1. q \in DOMAIN disk /\ disk'[q] = disk[q]
      BY <1>2, <2>2, NewOnDisk, Zenon
    <3> QED
      BY <3>1, Zenon DEF DiskCovered, Covered
  <2> QED
    BY <2>1, <2>2, Zenon
<1> QED
  BY <1>2, Zenon DEF DiskCovered

\* The disk stays covered when a page is fetched, and no page there has an lsn too great.
LEMMA FetchCovered ==
  ASSUME PageTypes, LogCounted, DiskCovered, UNCHANGED log, NEW p, Fetched(p)
  PROVE  /\ DiskCovered'
         /\ DOMAIN disk' \subseteq DOMAIN disk \cup {p}
         /\ \A q \in DOMAIN disk' : (q \in DOMAIN disk /\ disk'[q] = disk[q]) \/ disk'[q].lsn = 0
<1>1. CASE UNCHANGED <<disk, num_pages>>
  BY <1>1, Zenon DEF DiskCovered, Covered
<1>2. CASE p = num_pages + 1 /\ create_new_page_handle
  <2>1. num_pages < MaxPages /\ disk' = With(disk, num_pages + 1, NewPage)
    BY <1>2, Zenon DEF create_new_page_handle
  <2>2. DiskCovered'
    BY <2>1, NewPageCovered, Zenon
  <2>3. NewPage.lsn = 0
    BY Zenon DEF NewPage
  <2> QED
    BY <1>2, <2>1, <2>2, <2>3, NewOnDisk, Zenon
<1> QED
  BY <1>1, <1>2, Zenon DEF Fetched

\* Some record was written before a transaction changes a page.
LEMMA SomeLsn ==
  ASSUME ProcessTypes, Bounds, ChainInv, server # "down", NEW t \in Tids, txn[t].state # "none"
  PROVE  0 < global_lsn
<1>1. PICK m \in Own(t) : txn[t].prev_lsn = log[m].lsn
  BY Zenon DEF ChainInv, Linked
<1>2. txn[t].prev_lsn \in Nat
  BY <1>1, RecordTypes, Zenon DEF Own
<1>3. txn[t].prev_lsn < global_lsn /\ global_lsn \in Nat
  BY Zenon DEF Bounds, ProcessTypes
<1> QED
  BY <1>2, <1>3

\* t changes a page while nobody else has a change pending.
LEMMA CoverPuts ==
  ASSUME PageTypes, ProcessTypes, LogCounted, DiskCovered, PoolCovered, LogMade, MadeFirst,
         UNCHANGED <<log, global_lsn>>, 0 < global_lsn,
         NEW p, NEW v, Fetched(p), Put(p, v), v.lsn < global_lsn,
         NEW t \in Tids, NEW s, NEW prev, NEW ws, Turn(t, s, prev, ws),
         \A u \in Tids : txn[u].state = "change" =>
           u = t /\ Last(txn[t].writes).page_no = p /\ Last(txn[t].writes).change \in v.made,
         s = "log" => Last(ws).page_no = p /\ Last(ws).change \in v.made
  PROVE  DiskCovered' /\ PoolCovered' /\ LogMade' /\ MadeFirst'
<1>1. /\ DOMAIN pages' = DOMAIN pages \cup {p} /\ pages'[p] = v
      /\ \A q \in DOMAIN pages \ {p} : pages'[q] = pages[q]
      /\ \A q \in DOMAIN pages : pages[q].made \subseteq pages'[q].made
  BY AfterFetch, AfterPut, Zenon
<1>2. log' = log /\ global_lsn' = global_lsn
  BY Zenon
<1>3. /\ DiskCovered' /\ DOMAIN disk' \subseteq DOMAIN disk \cup {p}
      /\ \A q \in DOMAIN disk' : (q \in DOMAIN disk /\ disk'[q] = disk[q]) \/ disk'[q].lsn = 0
  BY FetchCovered, Zenon
<1>4. ASSUME NEW q, NEW c, Made(q, c) PROVE q \in DOMAIN pages' /\ c \in pages'[q].made
  BY <1>1, <1>4, Zenon DEF Made
<1>5. ASSUME NEW i \in 1 .. Len(log), log[i].type \in DataTypes
      PROVE  log[i].page_no \in DOMAIN pages' /\ log[i].change \in pages'[log[i].page_no].made
  <2>1. CASE Made(log[i].page_no, log[i].change)
    BY <1>4, <2>1, Zenon
  <2>2. CASE \E u \in Tids : Pending(u, log[i].page_no, log[i].change)
    BY <1>1, <2>2, Zenon DEF Pending
  <2> QED
    BY <1>5, <2>1, <2>2, Zenon DEF LogMade
<1>6. LogMade'
  BY <1>2, <1>5, Zenon DEF LogMade, Made
<1>7. PoolCovered'
  <2>1. ASSUME NEW q \in DOMAIN pages' PROVE pages'[q].lsn < global_lsn
    BY <1>1, Zenon DEF PoolCovered
  <2>2. ASSUME NEW q \in DOMAIN pages' PROVE Covered(q, pages[q])'
    BY <1>2, <1>5, Zenon DEF Covered
  <2>3. \A q \in DOMAIN disk' : disk'[q].lsn < global_lsn
    BY <1>3, Zenon DEF PoolCovered
  <2>4. DOMAIN disk' \subseteq DOMAIN pages'
    BY <1>1, <1>3, Zenon DEF PoolCovered
  <2> QED
    BY <1>2, <2>1, <2>2, <2>3, <2>4, Zenon DEF PoolCovered
<1>8. ASSUME NEW u \in Tids, txn'[u].state = "log"
      PROVE  LET w == Last(txn'[u].writes) IN w.page_no \in DOMAIN pages' /\ w.change \in pages'[w.page_no].made
  <2>1. CASE u = t
    BY <1>1, <1>8, <2>1, Zenon DEF Turn
  <2>2. CASE u # t
    <3>1. txn'[u] = txn[u] /\ Made(Last(txn[u].writes).page_no, Last(txn[u].writes).change)
      BY <1>8, <2>2, Zenon DEF Turn, MadeFirst
    <3> QED
      BY <1>4, <3>1, Zenon
  <2> QED
    BY <2>1, <2>2, Zenon
<1>9. MadeFirst'
  BY <1>8, Zenon DEF MadeFirst, Made
<1> QED
  BY <1>3, <1>6, <1>7, <1>9, Zenon

\* A stamp changes the lsn of a page in the pool, or none.
LEMMA StampPuts ==
  ASSUME PageTypes, ProcessTypes, Bounds, NEW t \in Tids, UpdateLsn(t) \/ UndoLsn(t),
         DOMAIN disk \subseteq DOMAIN pages
  PROVE  UNCHANGED pages \/ \E q, v : Put(q, v) /\ v.lsn = txn[t].prev_lsn
<1>0. SUFFICES ASSUME ~UNCHANGED pages PROVE \E q, v : Put(q, v) /\ v.lsn = txn[t].prev_lsn
  BY Zenon
<1>1. PICK q \in IF txn[t].stale THEN DOMAIN pages ELSE {Last(txn[t].writes).page_no} :
        pages' = [pages EXCEPT ![q].lsn = txn[t].prev_lsn]
  BY <1>0, Zenon DEF UpdateLsn, UndoLsn, set_page_lsn
<1>2. txn[t].writes # <<>> /\ txn[t].prev_lsn \in Lsns /\ UNCHANGED num_pages
  BY Zenon DEF UpdateLsn, UndoLsn, Bounds, ProcessTypes, Txns, diskVars
<1>3. q \in DOMAIN pages
  BY <1>1, <1>2, LastWrite, Zenon DEF PageTypes
<1>4. PICK v : v = [pages[q] EXCEPT !.lsn = txn[t].prev_lsn]
  BY Zenon
<1>5. v \in Pages /\ v.lsn = txn[t].prev_lsn /\ v.made = pages[q].made
  BY <1>2, <1>3, <1>4, Zenon DEF PageTypes, Pages
<1>6. pages' = With(pages, q, v)
  <2>1. DOMAIN pages \cup {q} = DOMAIN pages
    BY <1>3, Zenon
  <2>2. pages' = [x \in DOMAIN pages |-> IF x = q THEN v ELSE pages[x]]
    BY <1>1, <1>3, <1>4, Zenon DEF PageTypes
  <2> QED
    BY <2>1, <2>2, Zenon DEF With
<1> QED
  BY <1>2, <1>3, <1>5, <1>6, Zenon DEF Put, PageTypes, Counted

\* The covering stays as it is when a transaction takes a step without record or page.
LEMMA CoverTurn ==
  ASSUME PoolCovered, LogMade, MadeFirst, DiskCovered, UNCHANGED <<log, disk, pages, global_lsn>>,
         \A u \in Tids : txn[u].state = "change" \/ txn'[u].state = "log" =>
           txn'[u].state = txn[u].state /\ txn'[u].writes = txn[u].writes
  PROVE  DiskCovered' /\ PoolCovered' /\ LogMade' /\ MadeFirst'
<1>1. DiskCovered' /\ PoolCovered'
  BY Zenon DEF DiskCovered, PoolCovered, Covered
<1>2. LogMade'
  BY DEF LogMade, Made, Pending
<1>3. MadeFirst'
  BY Zenon DEF MadeFirst, Made
<1> QED
  BY <1>1, <1>2, <1>3, Zenon

\* Who has a change pending is alone.
LEMMA OnlyPending ==
  ASSUME LockInv, NEW t \in Tids,
         \/ locks[t] # "none"
         \/ \A u \in Tids \ {t} : locks[u] # "SIX"
  PROVE  \A u \in Tids : txn[u].state = "change" => u = t
BY Zenon DEF LockInv

\* A transaction begins once.
LEMMA BeginsOnce ==
  ASSUME ProcessTypes, ChainInv, NEW t \in Tids, begin(t)
  PROVE  txn[t].state = "none"
<1>1. t = next_txn_id /\ server # "down" /\ next_txn_id \in Nat
  BY Zenon DEF begin, Up, ProcessTypes
<1> QED
  BY <1>1 DEF ChainInv, Linked

\* The steps of a transaction that write a record keep the covering.
LEMMA CoverLogStep ==
  ASSUME PageTypes, ProcessTypes, Bounds, ChainInv, DiskCovered, PoolCovered, LogMade, MadeFirst,
         NEW t \in Tids,
         \/ begin(t) \/ InsertLog(t) \/ CommitLog(t) \/ AbortLog(t) \/ Autocommit(t)
         \/ \E p \in PageNos, type \in Changes, slot \in Slots : DeleteLog(t, type, p, slot)
  PROVE  DiskCovered' /\ PoolCovered' /\ LogMade' /\ MadeFirst'
<1>1. PagesStay
  BY NoPageChanges, ZenonT(30)
<1>2. CASE begin(t)
  <2>1. txn[t].state # "change"
    BY <1>2, BeginsOnce, Zenon
  <2> QED
    BY <1>1, <1>2, <2>1, EndLogs, Turns, CoverLogs, SMTT(30) DEF DataTypes
<1>3. CASE CommitLog(t) \/ Autocommit(t)
  <2>1. txn[t].state # "change"
    BY <1>3, Zenon DEF CommitLog, Autocommit
  <2> QED
    BY <1>1, <1>3, <2>1, EndLogs, EndedTurns, CoverLogs, SMTT(30) DEF DataTypes
<1>4. CASE AbortLog(t)
  <2>1. txn[t].state # "change"
    BY <1>4, ZenonT(30) DEF AbortLog
  <2> QED
    BY <1>1, <1>4, <2>1, EndLogs, EndedTurns, CoverLogs, SMTT(30) DEF DataTypes
<1>5. CASE InsertLog(t)
  <2>1. txn[t].state = "log"
    BY <1>5, Zenon DEF InsertLog
  <2>2. Made(Last(txn[t].writes).page_no, Last(txn[t].writes).change)
    BY <2>1, ZenonT(30) DEF MadeFirst
  <2> QED
    BY <1>1, <1>5, <2>1, <2>2, InsertLogs, Turns, CoverLogs, SMTT(30)
<1>6. ASSUME NEW p \in PageNos, NEW type \in Changes, NEW slot \in Slots, DeleteLog(t, type, p, slot)
      PROVE  DiskCovered' /\ PoolCovered' /\ LogMade' /\ MadeFirst'
  <2>1. txn[t].state # "change" /\ txn[t].writes \in Seq(Writes)
    BY <1>6, Zenon DEF DeleteLog, Idle, ProcessTypes, Txns
  <2>2. PICK w \in Writes : /\ Turn(t, "change", global_lsn, Append(txn[t].writes, w))
                            /\ w.page_no = p /\ w.change = changes'
    BY <1>6, DeleteTurns
  <2>3. Last(Append(txn[t].writes, w)) = w
    BY <2>1, AppendedAndFront, ZenonT(30)
  <2>4. Logs(t, type, p, changes')
    BY <1>6, DeleteLogs, Zenon
  <2>5. PICK change, ws : change = changes' /\ ws = Append(txn[t].writes, w)
    BY Zenon
  <2>6. Logs(t, type, p, change) /\ Turn(t, "change", global_lsn, ws) /\ Last(ws).page_no = p /\ Last(ws).change = change
    BY <2>2, <2>3, <2>4, <2>5, Zenon
  <2> QED
    BY <1>1, <2>1, <2>6, CoverLogs, SMTT(30)
<1> QED
  BY <1>2, <1>3, <1>4, <1>5, <1>6, Zenon

\* The steps of a transaction that change a page keep it.
LEMMA CoverPageStep ==
  ASSUME PageTypes, ProcessTypes, Bounds, LogCounted, ChainInv, LockInv, server # "down",
         DiskCovered, PoolCovered, LogMade, MadeFirst, NEW t \in Tids,
         \/ DeletePage(t) \/ UpdatePage(t) \/ UpdateLsn(t) \/ Undo(t) \/ UndoUpdate(t) \/ UndoLsn(t)
         \/ \E p \in PageNos : Insert(t, p)
  PROVE  DiskCovered' /\ PoolCovered' /\ LogMade' /\ MadeFirst'
<1>1. UNCHANGED <<log, global_lsn>>
  BY Zenon DEF DeletePage, UpdatePage, UpdateLsn, Undo, UndoUpdate, UndoLsn, Insert, diskVars
<1>2. txn[t].prev_lsn < global_lsn /\ txn[t].writes \in Seq(Writes)
  BY Zenon DEF Bounds, ProcessTypes, Txns
<1>0. txn[t].state # "none"
  BY Zenon DEF DeletePage, UpdatePage, UpdateLsn, Undo, UndoUpdate, UndoLsn, Insert, Idle
<1>9. 0 < global_lsn
  BY <1>0, SomeLsn, Zenon
<1>3. CASE DeletePage(t) \/ UpdatePage(t)
  <2>1. PICK w : w = Last(txn[t].writes)
    BY Zenon
  <2>2. PICK v : /\ Put(w.page_no, v) /\ w.change \in v.made
                 /\ v.lsn = txn[t].prev_lsn \/ v.lsn = fetch_page(w.page_no).lsn
    BY <1>3, <2>1, ChangeMade, Zenon
  <2>3. txn[t].state = "change" /\ Fetched(w.page_no)
    BY <1>3, Zenon DEF DeletePage, UpdatePage, diskVars, Fetched
  <2>4. w.page_no \in DOMAIN pages
    BY <2>1, <2>3, LastWrite, Zenon DEF Bounds, PageTypes, PoolCovered
  <2>5. v.lsn < global_lsn
    BY <1>2, <2>2, <2>4, Zenon DEF fetch_page, PoolCovered
  <2>6. locks[t] # "none"
    BY <2>3, Zenon DEF LockInv
  <2>7. \A u \in Tids : txn[u].state = "change" => u = t /\ w.page_no = w.page_no /\ w.change \in v.made
    BY <2>2, <2>6, OnlyPending, Zenon
  <2>8. \E s : s # "log" /\ Turn(t, s, txn[t].prev_lsn, txn[t].writes)
    BY <1>3, Turns, Zenon
  <2> QED
    BY <1>1, <1>9, <2>1, <2>2, <2>3, <2>5, <2>7, <2>8, CoverPuts, Zenon
<1>4. ASSUME NEW p, NEW v, Fetched(p), Put(p, v), v.lsn < global_lsn,
             txn[t].state # "change", locks[t] # "none" \/ \A u \in Tids \ {t} : locks[u] # "SIX",
             NEW s, NEW ws, Turn(t, s, txn[t].prev_lsn, ws),
             s = "log" => Last(ws).page_no = p /\ Last(ws).change \in v.made
      PROVE  DiskCovered' /\ PoolCovered' /\ LogMade' /\ MadeFirst'
  <2>1. \A u \in Tids : txn[u].state # "change"
    BY <1>4, OnlyPending, Zenon
  <2> QED
    BY <1>1, <1>4, <1>9, <2>1, CoverPuts, Zenon
<1>5. CASE UpdateLsn(t) \/ UndoLsn(t)
  <2>1. txn[t].state \in {"stamp", "restamp"} /\ \A p : Fetched(p)
    BY <1>5, Zenon DEF UpdateLsn, UndoLsn, diskVars, Fetched
  <2>2. locks[t] # "none" /\ txn[t].state # "change"
    BY <2>1, Zenon DEF LockInv, Bounds
  <2>3. PICK s, ws : s \in {"active", "undo"} /\ Turn(t, s, txn[t].prev_lsn, ws)
    <3>1. CASE UpdateLsn(t)
      <4>1. Turn(t, "active", txn[t].prev_lsn, txn[t].writes)
        BY <3>1, Turns, Zenon
      <4> QED
        BY <4>1
    <3>2. CASE UndoLsn(t)
      <4>1. Turn(t, "undo", txn[t].prev_lsn, Front(txn[t].writes))
        BY <3>2, StampTurns, Zenon
      <4> QED
        BY <4>1
    <3> QED
      BY <1>5, <3>1, <3>2, Zenon
  <2>4. ASSUME NEW q, NEW v, Put(q, v), v.lsn = txn[t].prev_lsn
        PROVE  DiskCovered' /\ PoolCovered' /\ LogMade' /\ MadeFirst'
    BY <1>2, <1>4, <2>1, <2>2, <2>3, <2>4, Zenon
  <2>5. CASE UNCHANGED pages
    <3>1. UNCHANGED <<log, disk, pages, global_lsn>>
      BY <1>1, <1>5, <2>5, Zenon DEF UpdateLsn, UndoLsn, diskVars
    <3>2. \A u \in Tids : txn[u].state = "change" \/ txn'[u].state = "log" =>
            txn'[u].state = txn[u].state /\ txn'[u].writes = txn[u].writes
      BY <2>2, <2>3, Zenon DEF Turn
    <3> QED
      BY <3>1, <3>2, CoverTurn, Zenon
  <2> QED
    BY <1>5, <2>4, <2>5, StampPuts, Zenon DEF PoolCovered
<1>6. CASE Undo(t)
  <2>1. txn[t].state = "undo" /\ locks[t] # "none"
    BY <1>6, Zenon DEF Undo, LockInv
  <2>2. PICK p, v : Fetched(p) /\ Put(p, v) /\ v.lsn = txn[t].prev_lsn
    BY <1>6, UndoMade, Zenon
  <2>3. Turn(t, "undo", txn[t].prev_lsn, Front(txn[t].writes))
    BY <1>6, EndTurns, Zenon
  <2> QED
    BY <1>2, <1>4, <2>1, <2>2, <2>3, Zenon
<1>8. CASE UndoUpdate(t)
  <2>1. txn[t].state = "undo" /\ locks[t] # "none" /\ \A p : Fetched(p)
    BY <1>8, Zenon DEF UndoUpdate, LockInv, diskVars, Fetched
  <2>2. PICK p, v : p \in Counted /\ Put(p, v) /\ v.lsn = fetch_page(p).lsn
    <3>1. PICK p : p = Last(txn[t].writes).page_no
      BY Zenon
    <3>2. p \in Counted /\ \E v : Put(p, v) /\ v.lsn = fetch_page(p).lsn
      BY <1>8, <3>1, RestoreMade, Zenon
    <3> QED
      BY <3>2, Zenon
  <2>3. v.lsn < global_lsn
    BY <2>2, Zenon DEF PageTypes, PoolCovered, fetch_page
  <2>4. Turn(t, "restamp", txn[t].prev_lsn, txn[t].writes)
    BY <1>8, Turns, Zenon
  <2>5. Fetched(p) /\ txn[t].state # "change"
    BY <2>1, Zenon
  <2> QED
    BY <1>4, <2>1, <2>2, <2>3, <2>4, <2>5
<1>7. ASSUME NEW p \in PageNos, Insert(t, p) PROVE DiskCovered' /\ PoolCovered' /\ LogMade' /\ MadeFirst'
  <2>1. txn[t].state = "active" /\ \A u \in Tids \ {t} : locks[u] # "SIX"
    BY <1>7, Zenon DEF Insert, Idle, MayInsert
  <2>2. Fetched(p)
    BY <1>7, InsertTurns, Zenon
  <2>3. PICK v : Put(p, v) /\ v.lsn = txn[t].prev_lsn /\ changes' \in v.made
    BY <1>7, InsertTurns, Zenon
  <2>4. PICK w \in Writes : /\ Turn(t, "log", txn[t].prev_lsn, Append(txn[t].writes, w))
                            /\ w.page_no = p /\ w.change = changes'
    BY <1>7, InsertTurns, Zenon
  <2>5. PICK ws : ws = Append(txn[t].writes, w)
    BY Zenon
  <2>6. Last(ws) = w
    BY <1>2, <2>5, AppendedAndFront, ZenonT(30)
  <2> QED
    BY <1>2, <1>4, <2>1, <2>2, <2>3, <2>4, <2>5, <2>6, Zenon
<1> QED
  BY <1>3, <1>5, <1>6, <1>7, <1>8, Zenon

\* The page_lsn keeps covering the page, in the first process.
LEMMA CoverStep ==
  ASSUME PageTypes, ProcessTypes, Bounds, LogCounted, ChainInv, LockInv, CoverInv, FirstRun, [Next]_vars
  PROVE  CoverInv'
<1>1. CASE Start
  <2>1. run \in Nat /\ run' = run + 1 /\ UNCHANGED <<log, disk>> /\ pages' = NoPages /\ died = "no"
        /\ \A t \in Tids : txn'[t].state = "none"
    BY <1>1, NoTxns, Zenon DEF Start, Starting, Booted, ProcessTypes, diskVars
  <2>2. ASSUME run' = 1 PROVE DOMAIN disk' = {} /\ Len(log') = 0 /\ DOMAIN pages' = {}
    BY <2>1, <2>2, SMTT(30) DEF FirstRun, NoPages
  <2>3. ASSUME run' = 1 PROVE DiskCovered' /\ PoolCovered' /\ LogMade' /\ MadeFirst'
    BY <2>1, <2>2, <2>3, SMTT(30) DEF DiskCovered, PoolCovered, LogMade, MadeFirst
  <2> QED
    BY <2>3, Zenon DEF CoverInv
<1>2. CASE UNCHANGED vars
  <2>1. UNCHANGED <<log, disk, global_lsn, server, run, pages, txn>>
    BY <1>2, Zenon DEF vars, diskVars, history
  <2> QED
    BY <2>1, ZenonT(30) DEF CoverInv, DiskCovered, PoolCovered, LogMade, MadeFirst, Covered, Made, Pending
<1>5. CASE StartDies
  <2>1. UNCHANGED <<log, run>> /\ server' = "down"
    BY <1>5, Zenon DEF StartDies, Starting
  <2>2. Fetched(num_pages + 1)
    BY <1>5, Zenon DEF StartDies, Fetched
  <2> QED
    BY <2>1, <2>2, FetchCovered, Zenon DEF CoverInv
<1>3. CASE server # "down" /\ UNCHANGED run /\ run = 1
  <2>1. DiskCovered /\ PoolCovered /\ LogMade /\ MadeFirst
    BY <1>3, Zenon DEF CoverInv
  <2>2. \A p \in Readable : p \in DOMAIN pages /\ fetch_page(p) = pages[p]
    BY <2>1, Zenon DEF PoolCovered, Readable, fetch_page
  <2>3. ASSUME NEW p \in DOMAIN pages, Evict(p) PROVE CoverInv'
    <3>1. /\ UNCHANGED <<log, pages, global_lsn>> /\ disk' = With(disk, p, pages[p])
      BY <2>3, Zenon DEF Evict
    <3>2. /\ DOMAIN disk' = DOMAIN disk \cup {p} /\ DOMAIN disk' \subseteq DOMAIN pages'
          /\ \A q \in DOMAIN disk' : disk'[q] = pages[q] \/ (q \in DOMAIN disk /\ disk'[q] = disk[q])
      BY <2>1, <2>3, <3>1, Zenon DEF With, PoolCovered
    <3>3. DiskCovered' /\ PoolCovered'
      BY <2>1, <3>1, <3>2, ZenonT(30) DEF DiskCovered, PoolCovered, Covered
    <3>4. LogMade' /\ MadeFirst'
      BY <2>1, <2>3, <3>1, EvictTurns, SMTT(30) DEF LogMade, MadeFirst, Made, Pending
    <3> QED
      BY <3>3, <3>4, Zenon DEF CoverInv
  <2>4. CASE Crash
    <3>1. UNCHANGED log /\ server' = "down"
      BY <2>4, Zenon DEF Crash, Stopped
    <3>2. CASE UNCHANGED disk
      BY <2>1, <3>1, <3>2, Zenon DEF CoverInv, DiskCovered, Covered
    <3>3. CASE num_pages < MaxPages /\ disk' = With(disk, num_pages + 1, NewPage)
      BY <2>1, <3>1, <3>3, NewPageCovered, Zenon DEF CoverInv
    <3> QED
      BY <2>4, <3>2, <3>3, Zenon DEF Crash
  <2>5. CASE sigint_handler
    <3>1. UNCHANGED <<log, global_lsn>> /\ server' = "down" /\ disk' = [p \in Readable |-> fetch_page(p)]
      BY <2>5, Zenon DEF sigint_handler, Stopped
    <3>2. \A p \in DOMAIN disk' : p \in DOMAIN pages /\ disk'[p] = pages[p]
      BY <2>2, <3>1, Zenon
    <3>3. DiskCovered'
      BY <2>1, <3>1, <3>2, ZenonT(30) DEF DiskCovered, PoolCovered, Covered
    <3> QED
      BY <3>1, <3>3, Zenon DEF CoverInv
  <2>6. ASSUME NEW t \in Tids, Commit(t) \/ Abort(t) \/ AbortUnlock(t) PROVE CoverInv'
    <3>1. UNCHANGED <<log, disk, pages, global_lsn>> /\ txn[t].state \in {"active", "undo"}
      BY <2>6, Zenon DEF Commit, Abort, AbortUnlock, Idle, diskVars
    <3>2. PICK s \in {"commit", "undo", "abort"} : Turn(t, s, txn[t].prev_lsn, txn[t].writes)
      BY <2>6, Turns, Zenon
    <3>3. \A u \in Tids : txn[u].state = "change" \/ txn'[u].state = "log" =>
            txn'[u].state = txn[u].state /\ txn'[u].writes = txn[u].writes
      BY <3>1, <3>2, Zenon DEF Turn
    <3> QED
      BY <2>1, <3>1, <3>3, CoverTurn, Zenon DEF CoverInv
  <2>7. ASSUME NEW t \in Tids,
               \/ begin(t) \/ InsertLog(t) \/ CommitLog(t) \/ AbortLog(t) \/ Autocommit(t)
               \/ \E p \in PageNos, type \in Changes, slot \in Slots : DeleteLog(t, type, p, slot)
        PROVE  CoverInv'
    BY <2>1, <2>7, CoverLogStep, Zenon DEF CoverInv
  <2>8. ASSUME NEW t \in Tids,
               \/ DeletePage(t) \/ UpdatePage(t) \/ UpdateLsn(t) \/ Undo(t) \/ UndoUpdate(t) \/ UndoLsn(t)
               \/ \E p \in PageNos : Insert(t, p)
        PROVE  CoverInv'
    BY <1>3, <2>1, <2>8, CoverPageStep, Zenon DEF CoverInv
  <2> QED
    BY <1>1, <1>2, <1>5, <2>3, <2>4, <2>5, <2>6, <2>7, <2>8, Zenon DEF Next, Changes, PageNos
<1>4. CASE server # "down" /\ UNCHANGED run /\ run # 1
  BY <1>4, Zenon DEF CoverInv
<1> QED
  BY <1>1, <1>2, <1>3, <1>4, <1>5, RunOrStart, Zenon

-----------------------------------------------------------------------------
(* The theorems. *)

\* Nothing is on disk and nothing runs.
LEMMA InitInv ==
  Init => Inv
<1> SUFFICES ASSUME Init PROVE Inv
  BY Zenon
<1>1. /\ txn \in [Tids -> Txns]
      /\ \A t \in Tids : txn[t].state = "none" /\ txn[t].prev_lsn = INVALID_LSN /\ txn[t].writes = <<>>
  <2>1. NoTxn \in Txns
    <3>1. <<>> \in Seq(Writes)
      OBVIOUS
    <3> QED
      BY <3>1, Zenon DEF NoTxn, Txns, States, Lsns, INVALID_LSN
  <2> QED
    BY <2>1, Zenon DEF Init, NoTxn
<1>2. \A t \in Tids : Len(txn[t].writes) = 0
  BY <1>1
<1>3. DOMAIN pages = {} /\ DOMAIN disk = {} /\ pages \in [{} -> Pages] /\ disk \in [{} -> Pages] /\ log = <<>> /\ Len(log) = 0
  BY Zenon DEF Init, NoPages
<1>4. PageTypes
  <2>1. num_pages = 0 /\ Counted = {}
    BY DEF Init, Counted
  <2>2. num_pages \in Nat /\ num_pages <= MaxPages
    BY <2>1, Numbers
  <2> QED
    BY <1>3, <2>1, <2>2, Zenon DEF PageTypes
<1>5. ProcessTypes
  BY <1>1, SMTT(30) DEF Init, ProcessTypes, Free
<1>6. Bounds
  BY <1>1, <1>2, Numbers, SMTT(30) DEF Init, Bounds
<1>7. ChainInv
  BY <1>3, SMTT(30) DEF Init, ChainInv
<1>8. LoggedFirst /\ LogCounted
  BY <1>2, <1>3 DEF LoggedFirst, LogCounted
<1>9. LockInv
  BY <1>1, Zenon DEF Init, LockInv
<1>10. CoverInv /\ FirstRun
  BY <1>3 DEF Init, CoverInv, FirstRun
<1> QED
  BY <1>4, <1>5, <1>6, <1>7, <1>8, <1>9, <1>10, Zenon DEF Inv

\* A step keeps the invariant.
LEMMA NextInv ==
  Inv /\ [Next]_vars => Inv'
BY PageStep, ProcessStep, BoundsStep, LogCountedStep, ChainStep, LoggedStep, LockStep, CoverStep,
   FirstRunStep, Zenon DEF Inv

\* The inductive invariant: the records of a transaction are linked from its prev_lsn on,
\* deletions and updates are in the log first, whoever has a change pending has the table
\* alone, the log names pages that the header counts, and no page_lsn is greater than
\* what is on its page.
THEOREM RecoveryInvariant ==
  Spec => []Inv
BY InitInv, NextInv, PTL DEF Spec

\* The greatest of a set of numbers that has one.
LEMMA GreatestNumber ==
  ASSUME NEW S \in SUBSET Int, NEW m \in S, \A j \in S : j <= m
  PROVE  Max(S) = m
<1>1. \A x, y \in S : (\A j \in S : x >= j) /\ (\A j \in S : y >= j) => x = y
  OBVIOUS
<1> QED
  BY <1>1, Zenon DEF Max

\* Whatever the transactions do and wherever the process stops, the records of a
\* transaction are all reached from the last one by prev_lsn (add_log_to_buffer and
\* set_prev_lsn of the executors and of the transaction manager).
THEOREM UndoChainIsCompleteThm ==
  Spec => []UndoChainIsComplete
<1>1. Inv => UndoChainIsComplete
  <2> SUFFICES ASSUME Inv PROVE UndoChainIsComplete
    BY Zenon
  <2>1. TypeOK
    <3>1. num_pages \in 0 .. MaxPages
      BY Numbers DEF Inv, PageTypes
    <3>2. \A p \in DOMAIN pages : DOMAIN pages[p].rows \subseteq Slots
      <4>1. ASSUME NEW p \in DOMAIN pages PROVE pages[p].rows \in Rows
        BY Zenon DEF Inv, PageTypes, Pages
      <4> QED
        BY <4>1, Zenon DEF Rows
    <3>3. ASSUME NEW t \in Tids PROVE txn[t].state \in States /\ txn[t].prev_lsn \in INVALID_LSN .. global_lsn - 1
      <4>1. txn[t].state \in States /\ txn[t].prev_lsn \in Lsns
        BY Zenon DEF Inv, ProcessTypes, Txns
      <4>2. txn[t].prev_lsn < global_lsn /\ global_lsn \in Nat
        BY Zenon DEF Inv, Bounds, ProcessTypes
      <4> QED
        BY <4>1, <4>2 DEF Lsns, INVALID_LSN
    <3> QED
      BY <3>1, <3>2, <3>3, Zenon DEF TypeOK, Inv, ProcessTypes, PageTypes, PageNos
  <2>2. ASSUME NEW i \in 1 .. Len(log)
        PROVE  IF log[i].type = "BEGIN" THEN Before(i) = {} /\ log[i].prev_lsn = INVALID_LSN
               ELSE Before(i) # {} /\ log[i].prev_lsn = log[Max(Before(i))].lsn
    <3>1. Chained(i) /\ Before(i) \subseteq Int
      BY DEF Inv, ChainInv, Before
    <3>2. CASE log[i].type = "BEGIN"
      BY <3>1, <3>2, Zenon DEF Chained
    <3>3. CASE log[i].type # "BEGIN"
      <4>1. PICK m \in Before(i) : log[i].prev_lsn = log[m].lsn /\ \A j \in Before(i) : j <= m
        BY <3>1, <3>3, Zenon DEF Chained
      <4>2. Max(Before(i)) = m
        BY <3>1, <4>1, GreatestNumber, Zenon
      <4> QED
        BY <3>3, <4>1, <4>2, Zenon
    <3> QED
      BY <3>2, <3>3, Zenon
  <2>3. DOMAIN log = 1 .. Len(log)
    BY DEF Inv, ProcessTypes
  <2> QED
    BY <2>1, <2>2, <2>3, Zenon DEF UndoChainIsComplete, Before
<1> QED
  BY <1>1, RecoveryInvariant, PTL

\* Write-ahead holds of deletions and updates at whatever moment the pool writes a page
\* (DeleteExecutor and UpdateExecutor write the record before they change the page).
THEOREM WriteAheadThm ==
  Spec => []WriteAhead
<1>1. Inv => WriteAhead
  <2> SUFFICES ASSUME Inv PROVE WriteAhead
    BY Zenon
  <2>1. DOMAIN log = 1 .. Len(log)
    BY DEF Inv, ProcessTypes
  <2>2. \A t \in Tids : DOMAIN txn[t].writes = 1 .. Len(txn[t].writes)
    BY DEF Inv, ProcessTypes, Txns
  <2> QED
    BY <2>1, <2>2, ZenonT(30) DEF Inv, LoggedFirst, WriteAhead
<1> QED
  BY <1>1, RecoveryInvariant, PTL

\* In the first process a record up to the page_lsn on disk is a change that is on the
\* page on disk, so that redo may leave it out: although the page is stamped with the
\* record before for an insertion, with a delay for an update, possibly on another page
\* than the changed one, and again in a rollback.
THEOREM PageLsnCoversThePageThm ==
  Spec => []PageLsnCoversThePage
<1>1. Inv => PageLsnCoversThePage
  <2> SUFFICES ASSUME Inv PROVE PageLsnCoversThePage
    BY Zenon
  <2>1. DOMAIN log = 1 .. Len(log)
    BY DEF Inv, ProcessTypes
  <2> QED
    BY <2>1, Zenon DEF Inv, CoverInv, DiskCovered, Covered, PageLsnCoversThePage, Logged
<1> QED
  BY <1>1, RecoveryInvariant, PTL

\* Wherever the process stops, the pages that the header counts and those that the log
\* names are on disk: create_new_page_handle flushes the page before the header counts
\* it, and a page is changed and logged after that.
THEOREM LoggedPagesAreOnDiskThm ==
  Spec => []LoggedPagesAreOnDisk
<1>1. Inv => LoggedPagesAreOnDisk
  <2> SUFFICES ASSUME Inv PROVE LoggedPagesAreOnDisk
    BY Zenon
  <2>1. DOMAIN log = 1 .. Len(log)
    BY DEF Inv, ProcessTypes
  <2>2. ChangedPages(log) \subseteq Counted
    BY <2>1, Zenon DEF Inv, LogCounted, ChangedPages
  <2> QED
    BY <2>2, Zenon DEF Inv, PageTypes, Counted, LoggedPagesAreOnDisk
<1> QED
  BY <1>1, RecoveryInvariant, PTL

=============================================================================
