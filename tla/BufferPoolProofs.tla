-------------------------- MODULE BufferPoolProofs --------------------------
(***************************************************************************)
(* What holds of the buffer pool for every number of frames, clients,      *)
(* files and pages: its invariants, and that it implements PageStore,      *)
(* until a page is loaded while another frame keeps its id_.               *)
(*                                                                         *)
(* PinnedPagesStay and VictimsAreUnused are not inductive: whether a frame *)
(* may be given away depends on the two lists, and what is evicted with it *)
(* on the id_ that the frame has kept.  PoolInv relates the page table,    *)
(* the ids, the lists, the pin counts and the pages on disk.               *)
(*                                                                         *)
(* The lemmas take the laws of counting as a hypothesis, CountLaws, which  *)
(* the lemma Counting proves.                                              *)
(***************************************************************************)
EXTENDS BufferPool, FiniteSetTheorems, TLAPS

Last(s) == s[Len(s)]
Front(s) == SubSeq(s, 1, Len(s) - 1)
Distinct(s) == \A i, j \in 1 .. Len(s) : s[i] = s[j] => i = j

\* The clients that have a Page* to the frame.
Users(f) == {c \in Clients : \E h \in held[c] : h.frame = f}

\* How sets of clients are counted.
CountLaws ==
  \A S \in SUBSET Clients :
    /\ Cardinality(S) \in Nat /\ (Cardinality(S) = 0 <=> S = {})
    /\ \A c \in Clients \ S : Cardinality(S \cup {c}) = Cardinality(S) + 1
    /\ \A c \in S : Cardinality(S \ {c}) = Cardinality(S) - 1

\* A page of the page table is in the frame it is listed with, and exists.
TableInv ==
  \A p \in PageId : InPool(p) =>
    /\ pages[page_table[p]].id = p
    /\ p[2] < fd2pageno[p[1]]
    /\ page_table[p] \notin Range(free_list)

\* The id_ that a frame has kept is of the page it is listed with, or of a page that is in no
\* frame.  Only the former is dirty.
IdInv ==
  \A f \in Frames :
    /\ pages[f].id \in PageId /\ InPool(pages[f].id) => page_table[pages[f].id] = f
    /\ pages[f].dirty => pages[f].id \in PageId /\ page_table[pages[f].id] = f

\* A client has one Page* to a page, to the frame the page is in.
HandleInv ==
  \A c \in Clients : \A h \in held[c] :
    /\ page_table[h.page] = h.frame
    /\ \A g \in held[c] : g.page = h.page => g = h

\* pin_count_ is the number of clients that use the frame.
PinInv == \A f \in Frames : pages[f].pin = Cardinality(Users(f))

\* free_list_ and LRUlist_ name every unused frame, and no other; neither names one twice.
ListInv ==
  /\ Distinct(free_list) /\ Distinct(lru)
  /\ \A f \in Frames : f \in Range(free_list) \cup Range(lru) <=> pages[f].pin = 0

\* A page that is not dirty, and that no client has yet to mark dirty, is as on disk.
CleanInv ==
  \A p \in PageId : InPool(p) =>
    \/ pages[page_table[p]].dirty
    \/ \E c \in Clients : \E h \in held[c] : h.frame = page_table[p] /\ h.wrote
    \/ pages[page_table[p]].data = disk[p]

\* A page that exists and is not in the pool can be read from the disk.
DiskInv == \A p \in PageId : p[2] < fd2pageno[p[1]] /\ ~InPool(p) => disk[p] # NoPage

PoolInv ==
  TypeOK /\ TableInv /\ IdInv /\ HandleInv /\ PinInv /\ ListInv /\ CleanInv /\ DiskInv

-----------------------------------------------------------------------------
(* Lists without duplicates. *)

\* find_victim_page takes the head of free_list_: pop_front takes that frame and no other.
LEMMA TailList ==
  ASSUME NEW S, NEW s \in Seq(S), s # <<>>, Distinct(s)
  PROVE  /\ Tail(s) \in Seq(S) /\ Distinct(Tail(s)) /\ Head(s) \in S
         /\ Range(Tail(s)) = Range(s) \ {Head(s)} /\ Head(s) \in Range(s)
<1>1. /\ Len(s) \in Nat \ {0} /\ DOMAIN s = 1 .. Len(s) /\ Head(s) = s[1] /\ Head(s) \in S
      /\ Tail(s) \in Seq(S) /\ Len(Tail(s)) = Len(s) - 1 /\ DOMAIN Tail(s) = 1 .. Len(s) - 1
      /\ \A i \in 1 .. Len(s) - 1 : Tail(s)[i] = s[i + 1]
  OBVIOUS
<1>2. Distinct(Tail(s))
  BY <1>1 DEF Distinct
<1>3. ASSUME NEW x \in Range(s) \ {Head(s)}  PROVE x \in Range(Tail(s))
  <2>1. PICK i \in 1 .. Len(s) : x = s[i]
    BY <1>1 DEF Range
  <2>2. i - 1 \in 1 .. Len(s) - 1 /\ Tail(s)[i - 1] = x
    BY <1>1, <2>1
  <2> QED
    BY <1>1, <2>2, Zenon DEF Range
<1>4. ASSUME NEW x \in Range(Tail(s))  PROVE x \in Range(s) \ {Head(s)}
  <2>1. PICK i \in 1 .. Len(s) - 1 : x = s[i + 1]
    BY <1>1 DEF Range
  <2> QED
    BY <1>1, <2>1 DEF Range, Distinct
<1>5. Head(s) \in Range(s)
  BY <1>1 DEF Range
<1>6. Range(Tail(s)) = Range(s) \ {Head(s)}
  BY <1>3, <1>4
<1> QED
  BY <1>1, <1>2, <1>5, <1>6

\* LRUReplacer::victim takes the back of LRUlist_: pop_back takes that frame and no other.
LEMMA FrontList ==
  ASSUME NEW S, NEW s \in Seq(S), s # <<>>, Distinct(s)
  PROVE  /\ Front(s) \in Seq(S) /\ Distinct(Front(s)) /\ Last(s) \in S
         /\ Range(Front(s)) = Range(s) \ {Last(s)} /\ Last(s) \in Range(s)
<1>1. /\ Len(s) \in Nat \ {0} /\ DOMAIN s = 1 .. Len(s) /\ Last(s) = s[Len(s)] /\ Last(s) \in S
      /\ \A i \in 1 .. Len(s) : s[i] \in S
  BY DEF Last
<1>2. /\ Front(s) \in Seq(S) /\ Len(Front(s)) = Len(s) - 1
      /\ DOMAIN Front(s) = 1 .. Len(s) - 1 /\ \A i \in 1 .. Len(s) - 1 : Front(s)[i] = s[i]
  BY <1>1 DEF Front
<1>3. Distinct(Front(s))
  BY <1>1, <1>2 DEF Distinct
<1>4. ASSUME NEW x \in Range(s) \ {Last(s)}  PROVE x \in Range(Front(s))
  <2>1. PICK i \in 1 .. Len(s) : x = s[i]
    BY <1>1 DEF Range
  <2> QED
    BY <1>1, <1>2, <2>1 DEF Range
<1>5. ASSUME NEW x \in Range(Front(s))  PROVE x \in Range(s) \ {Last(s)}
  <2>1. PICK i \in 1 .. Len(s) - 1 : x = s[i]
    BY <1>2 DEF Range
  <2> QED
    BY <1>1, <2>1 DEF Range, Distinct
<1>6. Last(s) \in Range(s)
  BY <1>1 DEF Range
<1>7. Range(Front(s)) = Range(s) \ {Last(s)}
  BY <1>4, <1>5
<1> QED
  BY <1>1, <1>2, <1>3, <1>6, <1>7

\* emplace_back of a frame that is not in free_list_.
LEMMA AppendList ==
  ASSUME NEW S, NEW s \in Seq(S), NEW f \in S, Distinct(s), f \notin Range(s)
  PROVE  /\ Append(s, f) \in Seq(S) /\ Distinct(Append(s, f))
         /\ Range(Append(s, f)) = Range(s) \cup {f}
<1> DEFINE t == Append(s, f)
<1>1. /\ Len(s) \in Nat /\ DOMAIN s = 1 .. Len(s) /\ t \in Seq(S) /\ Len(t) = Len(s) + 1
      /\ DOMAIN t = 1 .. Len(s) + 1 /\ t[Len(s) + 1] = f
      /\ \A i \in 1 .. Len(s) : t[i] = s[i]
  OBVIOUS
<1>2. \A i \in 1 .. Len(s) : s[i] # f
  BY <1>1 DEF Range
<1>3. Distinct(t)
  BY <1>1, <1>2 DEF Distinct
<1>4. ASSUME NEW x PROVE x \in Range(t) <=> x \in Range(s) \/ x = f
  <2>1. x \in Range(t) => x \in Range(s) \/ x = f
    <3>1. SUFFICES ASSUME NEW i \in 1 .. Len(s) + 1, x = t[i]  PROVE x \in Range(s) \/ x = f
      BY <1>1 DEF Range
    <3> QED
      BY <1>1, <3>1 DEF Range
  <2>2. x \in Range(s) => x \in Range(t)
    BY <1>1 DEF Range
  <2>3. x = f => x \in Range(t)
    BY <1>1 DEF Range
  <2> QED
    BY <2>1, <2>2, <2>3
<1> QED
  BY <1>1, <1>3, <1>4

\* LRUReplacer::pin takes the frame out of the list, if it is there.
LEMMA PinList ==
  ASSUME NEW S, NEW s \in Seq(S), NEW f, Distinct(s)
  PROVE  /\ pin(s, f) \in Seq(S) /\ Distinct(pin(s, f))
         /\ Range(pin(s, f)) = Range(s) \ {f}
<1>1. CASE f \notin Range(s)
  BY <1>1 DEF pin
<1>2. CASE f \in Range(s)
  <2> DEFINE k == CHOOSE i \in DOMAIN s : s[i] = f
             a == SubSeq(s, 1, k - 1)
             b == SubSeq(s, k + 1, Len(s))
             t == a \o b
  <2>1. /\ Len(s) \in Nat /\ DOMAIN s = 1 .. Len(s)
        /\ \A i \in 1 .. Len(s) : s[i] \in S
    OBVIOUS
  <2>2. k \in 1 .. Len(s) /\ s[k] = f
    BY <1>2, <2>1 DEF Range
  <2>3. pin(s, f) = t
    BY <1>2, Zenon DEF pin
  <2> HIDE DEF k
  <2>4. a \in Seq(S) /\ Len(a) = k - 1 /\ \A i \in 1 .. k - 1 : a[i] = s[i]
    BY <2>1, <2>2
  <2>5. /\ b \in Seq(S) /\ Len(b) = Len(s) - k
        /\ \A i \in 1 .. Len(s) - k : b[i] = s[k + i]
    <3>1. /\ k + 1 \in Int /\ Len(s) \in Int /\ \A i \in k + 1 .. Len(s) : s[i] \in S
          /\ Len(s) - (k + 1) + 1 = Len(s) - k
          /\ \A i \in 1 .. Len(s) - k : (k + 1) + i - 1 = k + i
      BY <2>1, <2>2
    <3>2. /\ b \in Seq(S)
          /\ Len(b) = IF k + 1 <= Len(s) THEN Len(s) - (k + 1) + 1 ELSE 0
          /\ \A i \in 1 .. Len(s) - (k + 1) + 1 : b[i] = s[(k + 1) + i - 1]
      BY <3>1
    <3> HIDE DEF b
    <3>3. Len(b) = Len(s) - k
      <4>1. CASE k + 1 <= Len(s)
        BY <3>1, <3>2, <4>1
      <4>2. CASE ~(k + 1 <= Len(s))
        <5>1. k \in Int /\ Len(s) \in Int /\ k <= Len(s)
          BY <2>1, <2>2
        <5>2. Len(s) - k = 0
          BY <4>2, <5>1
        <5> QED
          BY <3>2, <4>2, <5>2
      <4> QED
        BY <4>1, <4>2
    <3> QED
      BY <3>1, <3>2, <3>3
  <2> HIDE DEF a, b
  <2>6. /\ t \in Seq(S) /\ Len(t) = Len(s) - 1 /\ DOMAIN t = 1 .. Len(s) - 1
        /\ \A i \in 1 .. Len(s) - 1 : t[i] = IF i < k THEN s[i] ELSE s[i + 1]
    <3>1. /\ t \in Seq(S) /\ Len(t) = Len(a) + Len(b)
          /\ \A i \in 1 .. Len(a) + Len(b) : t[i] = IF i <= Len(a) THEN a[i] ELSE b[i - Len(a)]
      <4>1. a \in Seq(S) /\ b \in Seq(S)
        BY <2>4, <2>5
      <4> QED
        BY <4>1
    <3> HIDE DEF t
    <3>2. Len(t) = Len(s) - 1 /\ DOMAIN t = 1 .. Len(s) - 1
      BY <2>1, <2>2, <2>4, <2>5, <3>1
    <3>3. ASSUME NEW i \in 1 .. Len(s) - 1  PROVE t[i] = IF i < k THEN s[i] ELSE s[i + 1]
      <4>1. i \in 1 .. Len(a) + Len(b) /\ (i <= Len(a) <=> i < k)
        BY <2>1, <2>2, <2>4, <2>5
      <4>2. CASE i < k
        BY <2>2, <2>4, <3>1, <4>1, <4>2
      <4>3. CASE ~(i < k)
        <5>1. i - (k - 1) \in 1 .. Len(s) - k /\ k + (i - (k - 1)) = i + 1
          BY <2>1, <2>2, <4>3
        <5>2. t[i] = b[i - (k - 1)]
          BY <2>4, <3>1, <4>1, <4>3
        <5>3. b[i - (k - 1)] = s[k + (i - (k - 1))]
          BY <2>5, <5>1
        <5> QED
          BY <4>3, <5>1, <5>2, <5>3
      <4> QED
        BY <4>2, <4>3
    <3> QED
      BY <3>1, <3>2, <3>3
  <2> HIDE DEF t
  <2>7. Distinct(t)
    BY <2>1, <2>2, <2>6, SMTT(30) DEF Distinct
  <2>8. ASSUME NEW x \in Range(s) \ {f}  PROVE x \in Range(t)
    <3>1. PICK i \in 1 .. Len(s) : x = s[i]
      BY <2>1 DEF Range
    <3>2. CASE i < k
      BY <2>1, <2>2, <2>6, <3>1, <3>2, SMTT(20) DEF Range
    <3>3. CASE i > k
      <4>1. i - 1 \in 1 .. Len(s) - 1 /\ t[i - 1] = x
        BY <2>1, <2>2, <2>6, <3>1, <3>3
      <4> QED
        BY <2>6, <4>1 DEF Range
    <3> QED
      BY <2>2, <3>1, <3>2, <3>3
  <2>9. ASSUME NEW x \in Range(t)  PROVE x \in Range(s) \ {f}
    <3>1. PICK i \in 1 .. Len(s) - 1 : x = t[i]
      BY <2>6 DEF Range
    <3>2. PICK j \in 1 .. Len(s) : j # k /\ x = s[j]
      BY <2>1, <2>2, <2>6, <3>1
    <3> QED
      BY <2>1, <2>2, <3>2 DEF Range, Distinct
  <2>10. Range(t) = Range(s) \ {f}
    BY <2>8, <2>9
  <2> QED
    BY <2>3, <2>6, <2>7, <2>10
<1> QED
  BY <1>1, <1>2

\* LRUReplacer::unpin puts the frame into the list, once.
LEMMA UnpinList ==
  ASSUME NEW S, NEW s \in Seq(S), NEW f \in S, Distinct(s)
  PROVE  /\ unpin(s, f) \in Seq(S) /\ Distinct(unpin(s, f))
         /\ Range(unpin(s, f)) = Range(s) \cup {f}
<1>1. CASE f \in Range(s)
  BY <1>1 DEF unpin
<1>2. CASE f \notin Range(s)
  <2> DEFINE t == <<f>> \o s
  <2>1. /\ Len(s) \in Nat /\ DOMAIN s = 1 .. Len(s)
        /\ <<f>> \in Seq(S) /\ Len(<<f>>) = 1 /\ <<f>>[1] = f
    OBVIOUS
  <2>2. /\ t \in Seq(S) /\ Len(t) = Len(s) + 1 /\ DOMAIN t = 1 .. Len(s) + 1
        /\ t[1] = f /\ \A i \in 2 .. Len(s) + 1 : t[i] = s[i - 1]
    BY <2>1
  <2>3. unpin(s, f) = t
    BY <1>2 DEF unpin
  <2> HIDE DEF t
  <2>4. \A i \in 1 .. Len(s) : s[i] # f /\ t[i + 1] = s[i]
    BY <1>2, <2>1, <2>2, SMTT(30) DEF Range
  <2>5. Distinct(t)
    BY <2>1, <2>2, <2>4, SMTT(30) DEF Distinct
  <2>6. ASSUME NEW x \in Range(t)  PROVE x \in Range(s) \cup {f}
    <3>1. PICK i \in 1 .. Len(s) + 1 : x = t[i]
      BY <2>2 DEF Range
    <3> QED
      BY <2>1, <2>2, <3>1, SMTT(20) DEF Range
  <2>7. ASSUME NEW x \in Range(s)  PROVE x \in Range(t)
    <3>1. PICK i \in 1 .. Len(s) : x = s[i]
      BY <2>1 DEF Range
    <3>2. i + 1 \in DOMAIN t /\ t[i + 1] = x
      BY <2>1, <2>2, <2>4, <3>1
    <3> QED
      BY <3>2 DEF Range
  <2>8. f \in Range(t)
    BY <2>1, <2>2 DEF Range
  <2>9. Range(t) = Range(s) \cup {f}
    BY <2>6, <2>7, <2>8
  <2> QED
    BY <2>2, <2>3, <2>5, <2>9
<1> QED
  BY <1>1, <1>2

\* What find_victim_page finds: a frame that nobody uses, which leaves both lists when it is
\* pinned.
LEMMA VictimIsUnused ==
  ASSUME TypeOK, ListInv, HasVictim
  PROVE  /\ Victim.frame \in Frames /\ pages[Victim.frame].pin = 0
         /\ Victim.free \in Seq(Frames) /\ Distinct(Victim.free)
         /\ pin(Victim.lru, Victim.frame) \in Seq(Frames)
         /\ Distinct(pin(Victim.lru, Victim.frame))
         /\ Victim.frame \notin Range(Victim.free)
         /\ Range(Victim.free) = Range(free_list) \ {Victim.frame}
         /\ Range(pin(Victim.lru, Victim.frame)) = Range(lru) \ {Victim.frame}
<1>1. /\ free_list \in Seq(Frames) /\ lru \in Seq(Frames) /\ Distinct(free_list) /\ Distinct(lru)
      /\ \A f \in Frames : f \in Range(free_list) \cup Range(lru) => pages[f].pin = 0
  BY DEF TypeOK, ListInv
<1>2. CASE free_list # <<>>
  <2>1. Victim = [frame |-> Head(free_list), free |-> Tail(free_list), lru |-> lru]
    BY <1>2 DEF Victim
  <2>2. Victim.frame = Head(free_list) /\ Victim.free = Tail(free_list) /\ Victim.lru = lru
    BY <2>1
  <2> QED
    BY <1>1, <1>2, <2>2, TailList, PinList
<1>3. CASE free_list = <<>>
  <2>1. Victim = [frame |-> Last(lru), free |-> free_list, lru |-> Front(lru)]
    BY <1>3 DEF Victim, Last, Front
  <2>2. Victim.frame = Last(lru) /\ Victim.free = free_list /\ Victim.lru = Front(lru)
    BY <2>1
  <2>3. lru # <<>> /\ Range(free_list) = {}
    BY <1>3 DEF HasVictim, Range
  <2>4. /\ Front(lru) \in Seq(Frames) /\ Distinct(Front(lru)) /\ Last(lru) \in Frames
        /\ Range(Front(lru)) = Range(lru) \ {Last(lru)} /\ Last(lru) \in Range(lru)
    BY <1>1, <2>3, FrontList, SMTT(20)
  <2> QED
    BY <1>1, <2>2, <2>3, <2>4, PinList
<1> QED
  BY <1>2, <1>3

-----------------------------------------------------------------------------
(* The invariant, action by action. *)

\* Two pages of the pool are in two frames, and a Page* is to a frame of the page table.
LEMMA HandleFacts ==
  ASSUME TypeOK, TableInv, HandleInv, NEW c \in Clients, NEW h \in held[c]
  PROVE  /\ h.page \in PageId /\ h.frame \in Frames /\ h.frame # NoFrame /\ h.wrote \in BOOLEAN
         /\ page_table[h.page] = h.frame /\ InPool(h.page) /\ pages[h.frame].id = h.page
<1>1. /\ h.page \in PageId /\ h.frame \in Frames /\ h.wrote \in BOOLEAN
      /\ page_table[h.page] = h.frame
  BY DEF TypeOK, HandleInv
<1>2. h.frame # NoFrame
  BY <1>1, PoolAssumption DEF Frames, NoFrame
<1> QED
  BY <1>1, <1>2 DEF InPool, TableInv

\* Counting the users of a frame.
LEMMA UsersAreCounted ==
  ASSUME CountLaws, NEW f
  PROVE  /\ Cardinality(Users(f)) \in Nat /\ (Cardinality(Users(f)) = 0 <=> Users(f) = {})
         /\ \A c \in Clients \ Users(f) : Cardinality(Users(f) \cup {c}) = Cardinality(Users(f)) + 1
         /\ \A c \in Users(f) : Cardinality(Users(f) \ {c}) = Cardinality(Users(f)) - 1
<1>1. Users(f) \in SUBSET Clients
  BY DEF Users
<1> QED
  BY <1>1 DEF CountLaws

\* The pool as its constructor leaves it.
LEMMA InitInv ==
  ASSUME CountLaws, Init
  PROVE  PoolInv
<1>0. /\ pool_size \in Nat /\ MaxPages \in Nat \ {0} /\ Zero \in Values
  BY PoolAssumption
<1>1. free_list \in Seq(Frames) /\ Len(free_list) = pool_size /\ DOMAIN free_list = 1 .. pool_size
      /\ \A i \in 1 .. pool_size : free_list[i] = i - 1
  BY <1>0 DEF Init, Frames
<1>2. lru \in Seq(Frames) /\ Distinct(lru) /\ Distinct(free_list)
  <2>1. lru = <<>>
    BY DEF Init
  <2> QED
    BY <1>0, <1>1, <2>1 DEF Distinct
<1>3. ASSUME NEW f \in Frames  PROVE f \in Range(free_list)
  <2>1. f + 1 \in 1 .. pool_size /\ free_list[f + 1] = f
    BY <1>0, <1>1 DEF Frames
  <2> QED
    BY <1>1, <2>1 DEF Range
<1>4. TypeOK
  <2>1. pages \in [Frames -> [id : PageId \cup {InvalidId}, data : Values, dirty : BOOLEAN, pin : Nat]]
    BY <1>0 DEF Init
  <2>2. page_table \in [PageId -> Frames \cup {NoFrame}] /\ disk \in [PageId -> Values \cup {NoPage}]
    BY <1>0 DEF Init
  <2>3. fd2pageno \in [Files -> 1 .. MaxPages]
    BY <1>0 DEF Init
  <2>4. held \in [Clients -> SUBSET [page : PageId, frame : Frames, wrote : BOOLEAN]] /\ stale \in BOOLEAN
    BY Zenon DEF Init
  <2> QED
    BY <1>1, <1>2, <2>1, <2>2, <2>3, <2>4 DEF TypeOK
<1>5. TableInv /\ IdInv /\ HandleInv /\ CleanInv
  <2>1. InvalidId \notin PageId
    BY PoolAssumption DEF InvalidId, PageId
  <2> QED
    BY <2>1 DEF Init, TableInv, IdInv, HandleInv, CleanInv, InPool
<1>8. DiskInv
  <2>1. ASSUME NEW p \in PageId, p[2] < 1  PROVE p[2] = 0
    BY <1>0, <2>1 DEF PageId
  <2>2. \A p \in PageId : p[1] \in Files
    BY DEF PageId
  <2>3. Zero # NoPage
    BY <1>0, ContentAssumption
  <2> QED
    BY <2>1, <2>2, <2>3 DEF Init, DiskInv
<1>6. PinInv
  <2>1. \A f \in Frames : Users(f) = {}
    BY DEF Init, Users
  <2> QED
    BY <2>1, UsersAreCounted DEF Init, PinInv
<1>7. ListInv
  BY <1>2, <1>3 DEF Init, ListInv
<1> QED
  BY <1>4, <1>5, <1>6, <1>7, <1>8 DEF PoolInv

\* What update_page does to the table and to the disk when f is the victim: the page of f is
\* no longer in the pool and is on disk, and no other page is touched.
LEMMA Eviction ==
  ASSUME PoolInv, NEW f \in Frames, disk' = WriteBack(f)
  PROVE  /\ \A q \in PageId : Forget(f)[q] = IF page_table[q] = f THEN NoFrame ELSE page_table[q]
         /\ disk' \in [PageId -> Values \cup {NoPage}]
         /\ \A q \in PageId : page_table[q] # f => disk'[q] = disk[q]
         /\ \A q \in PageId : page_table[q] = f =>
              disk'[q] = IF pages[f].dirty THEN pages[f].data ELSE disk[q]
<1>1. TypeOK /\ TableInv /\ IdInv
  BY DEF PoolInv
<1>2. f # NoFrame
  BY PoolAssumption DEF Frames, NoFrame
<1>3. ASSUME NEW q \in PageId
      PROVE  Forget(f)[q] = IF page_table[q] = f THEN NoFrame ELSE page_table[q]
  <2>1. page_table[q] = f => pages[f].id = q
    BY <1>1, <1>2 DEF TableInv, InPool
  <2>2. pages[f].id = q /\ InPool(q) => page_table[q] = f
    BY <1>1 DEF IdInv
  <2> QED
    BY <2>1, <2>2 DEF Forget, InPool
<1>4. CASE ~pages[f].dirty
  BY <1>1, <1>3, <1>4, SMTT(30) DEF WriteBack, TypeOK
<1>5. CASE pages[f].dirty
  <2>1. pages[f].id \in PageId /\ page_table[pages[f].id] = f /\ pages[f].data \in Values
    BY <1>1, <1>5 DEF IdInv, TypeOK
  <2>2. \A q \in PageId : page_table[q] = f => q = pages[f].id
    BY <1>1, <1>2 DEF TableInv, InPool
  <2>3. disk' = [disk EXCEPT ![pages[f].id] = pages[f].data]
    BY <1>5 DEF WriteBack
  <2>4. disk \in [PageId -> Values \cup {NoPage}]
    BY <1>1 DEF TypeOK
  <2> QED
    BY <1>3, <1>5, <2>1, <2>2, <2>3, <2>4, SMTT(30)
<1> QED
  BY <1>4, <1>5

\* A page that is not in the pool gets a frame: fetch_page of such a page, and new_page.
LoadStep(c, p, data, wrote) ==
  /\ HasVictim /\ ~InPool(p)
  /\ Load(Victim, p, data) /\ Hold(c, p, Victim.frame, wrote)
  /\ wrote \/ data = disk'[p]
  /\ fd2pageno' \in [Files -> 1 .. MaxPages] /\ p[2] < fd2pageno'[p[1]]
  /\ \A q \in PageId : q # p => (q[2] < fd2pageno'[q[1]] <=> q[2] < fd2pageno[q[1]])

\* What it changes, with f the frame that find_victim_page found.
LoadEffect(c, p, data, wrote, f) ==
  /\ f # NoFrame /\ Users(f) = {} /\ page_table[p] = NoFrame
  /\ free_list' \in Seq(Frames) /\ Distinct(free_list') /\ lru' \in Seq(Frames) /\ Distinct(lru')
  /\ Range(free_list') = Range(free_list) \ {f} /\ Range(lru') = Range(lru) \ {f}
  /\ disk' \in [PageId -> Values \cup {NoPage}]
  /\ \A q \in PageId : disk'[q] = IF page_table[q] = f /\ pages[f].dirty THEN pages[f].data ELSE disk[q]
  /\ pages' = [pages EXCEPT ![f] = [id |-> p, data |-> data, dirty |-> FALSE, pin |-> 1]]
  /\ page_table' = [q \in PageId |-> IF q = p THEN f
                                     ELSE IF page_table[q] = f THEN NoFrame ELSE page_table[q]]
  /\ held' = [held EXCEPT ![c] = held[c] \cup {[page |-> p, frame |-> f, wrote |-> wrote]}]
  /\ stale' = FALSE /\ \A g \in Frames : g # f => pages[g].id # p

\* The frame is one that nobody uses, it leaves both lists, and the page that was in it
\* leaves the table for the disk.
LEMMA LoadFacts ==
  ASSUME CountLaws, PoolInv, NEW c \in Clients, NEW p \in PageId, NEW data \in Values,
         NEW wrote \in BOOLEAN, LoadStep(c, p, data, wrote), ~stale'
  PROVE  \E f \in Frames : LoadEffect(c, p, data, wrote, f)
<1> DEFINE f == Victim.frame
<1>0. TypeOK /\ TableInv /\ IdInv /\ HandleInv /\ PinInv /\ ListInv
  BY SMTT(30) DEF PoolInv
<1>1. /\ HasVictim /\ disk' = WriteBack(f) /\ page_table[p] = NoFrame
      /\ pages' = [pages EXCEPT ![f] = [id |-> p, data |-> data, dirty |-> FALSE, pin |-> pages[f].pin + 1]]
      /\ page_table' = [Forget(f) EXCEPT ![p] = IF Forget(f)[p] = NoFrame THEN f ELSE Forget(f)[p]]
      /\ free_list' = Victim.free /\ lru' = pin(Victim.lru, f)
      /\ held' = [held EXCEPT ![c] = held[c] \cup {[page |-> p, frame |-> f, wrote |-> wrote]}]
  BY SMTT(30) DEF LoadStep, Load, Assign, Hold, InPool
<1>9. \A g \in Frames : g # f => pages[g].id # p
  BY Zenon DEF LoadStep, Load, Assign
<1>10. stale' = FALSE
  <2>1. stale' = (stale \/ \E g \in Frames \ {f} : pages[g].id = p)
    BY Zenon DEF LoadStep, Load, Assign
  <2> QED
    BY <2>1, Zenon
<1> HIDE DEF f
<1>2. /\ f \in Frames /\ pages[f].pin = 0
      /\ free_list' \in Seq(Frames) /\ Distinct(free_list') /\ lru' \in Seq(Frames) /\ Distinct(lru')
      /\ Range(free_list') = Range(free_list) \ {f} /\ Range(lru') = Range(lru) \ {f}
  BY <1>0, <1>1, VictimIsUnused DEF f
<1>3. f # NoFrame
  BY <1>2, PoolAssumption DEF Frames, NoFrame
<1>4. Users(f) = {}
  BY <1>0, <1>2, UsersAreCounted, SMTT(30) DEF PinInv
<1>5. /\ disk' \in [PageId -> Values \cup {NoPage}]
      /\ \A q \in PageId : disk'[q] = IF page_table[q] = f /\ pages[f].dirty THEN pages[f].data ELSE disk[q]
      /\ \A q \in PageId : Forget(f)[q] = IF page_table[q] = f THEN NoFrame ELSE page_table[q]
  BY <1>1, <1>2, Eviction, SMTT(30)
<1>6. page_table' = [q \in PageId |-> IF q = p THEN f
                                      ELSE IF page_table[q] = f THEN NoFrame ELSE page_table[q]]
  <2>1. Forget(f)[p] = NoFrame
    BY <1>1, <1>3, <1>5
  <2>2. Forget(f) = [q \in PageId |-> Forget(f)[q]]
    BY DEF Forget
  <2> QED
    BY <1>1, <1>5, <2>1, <2>2, SMTT(30)
<1>7. pages' = [pages EXCEPT ![f] = [id |-> p, data |-> data, dirty |-> FALSE, pin |-> 1]]
  BY <1>1, <1>2
<1>8. LoadEffect(c, p, data, wrote, f)
  BY <1>1, <1>2, <1>3, <1>4, <1>5, <1>6, <1>7, <1>9, <1>10, Zenon DEF LoadEffect
<1> QED
  BY <1>2, <1>8

\* The page gets the victim's frame; the page that was in it leaves the table for the disk.
LEMMA LoadInv ==
  ASSUME CountLaws, PoolInv, NEW c \in Clients, NEW p \in PageId, NEW data \in Values, NEW wrote \in BOOLEAN,
         LoadStep(c, p, data, wrote), ~stale'
  PROVE  PoolInv'
<1>f. PICK f \in Frames : LoadEffect(c, p, data, wrote, f)
  BY LoadFacts
<1> DEFINE new == [page |-> p, frame |-> f, wrote |-> wrote]
<1>0. TypeOK /\ TableInv /\ IdInv /\ HandleInv /\ PinInv /\ ListInv /\ CleanInv /\ DiskInv
  BY SMTT(30) DEF PoolInv
<1>1. /\ f \in Frames /\ f # NoFrame /\ Users(f) = {}
      /\ free_list' \in Seq(Frames) /\ Distinct(free_list') /\ lru' \in Seq(Frames) /\ Distinct(lru')
      /\ Range(free_list') = Range(free_list) \ {f} /\ Range(lru') = Range(lru) \ {f}
  BY <1>f, SMTT(30) DEF LoadEffect
<1>2. /\ \A q \in PageId : disk'[q] = IF page_table[q] = f /\ pages[f].dirty THEN pages[f].data ELSE disk[q]
      /\ disk' \in [PageId -> Values \cup {NoPage}]
  BY <1>f, SMTT(30) DEF LoadEffect
<1>3. /\ wrote \/ data = disk'[p]
      /\ fd2pageno' \in [Files -> 1 .. MaxPages] /\ p[2] < fd2pageno'[p[1]]
      /\ \A q \in PageId : q[2] < fd2pageno[q[1]] => q[2] < fd2pageno'[q[1]]
      /\ page_table[p] = NoFrame
  BY SMTT(30) DEF LoadStep, InPool
<1>4. /\ pages' = [pages EXCEPT ![f] = [id |-> p, data |-> data, dirty |-> FALSE, pin |-> 1]]
      /\ held' = [held EXCEPT ![c] = held[c] \cup {new}]
      /\ page_table' = [q \in PageId |-> IF q = p THEN f
                                         ELSE IF page_table[q] = f THEN NoFrame ELSE page_table[q]]
  BY <1>f, SMTT(30) DEF LoadEffect
<1>5. /\ \A g \in Frames : g # f => pages'[g] = pages[g]
      /\ pages'[f] = [id |-> p, data |-> data, dirty |-> FALSE, pin |-> 1]
  BY <1>0, <1>1, <1>4, SMTT(30) DEF TypeOK
<1>6. \A q \in PageId :
        page_table'[q] = IF q = p THEN f ELSE IF page_table[q] = f THEN NoFrame ELSE page_table[q]
  BY <1>4, SMTT(30)
<1>7. /\ \A d \in Clients : d # c => held'[d] = held[d]
      /\ held'[c] = held[c] \cup {new}
  BY <1>0, <1>4, SMTT(30) DEF TypeOK
<1>8. \A d \in Clients : \A h \in held[d] :
        /\ h.frame # f /\ h.page # p /\ h.page \in PageId /\ h.frame \in Frames
        /\ page_table[h.page] = h.frame /\ page_table[h.page] # NoFrame
  <2>1. ASSUME NEW d \in Clients, NEW h \in held[d]
        PROVE  /\ h.page \in PageId /\ h.frame \in Frames
               /\ page_table[h.page] = h.frame /\ h.frame # NoFrame
    BY <1>0, HandleFacts, SMTT(30)
  <2>2. \A d \in Clients : \A h \in held[d] : h.frame # f
    BY <1>1, SMTT(30) DEF Users
  <2> QED
    BY <1>3, <2>1, <2>2, SMTT(30)
<1>9. TypeOK'
  <2>1. pages' \in [Frames -> [id : PageId \cup {InvalidId}, data : Values, dirty : BOOLEAN, pin : Nat]]
    BY <1>0, <1>1, <1>4, SMTT(30) DEF TypeOK
  <2>2. page_table' \in [PageId -> Frames \cup {NoFrame}]
    BY <1>0, <1>1, <1>4, SMTT(30) DEF TypeOK
  <2>3. held' \in [Clients -> SUBSET [page : PageId, frame : Frames, wrote : BOOLEAN]]
    <3>1. new \in [page : PageId, frame : Frames, wrote : BOOLEAN]
      BY <1>1
    <3> HIDE DEF new
    <3> QED
      BY <1>0, <1>4, <3>1, SMTT(30) DEF TypeOK
  <2>4. stale' \in BOOLEAN
    BY <1>f, Zenon DEF LoadEffect
  <2> QED
    BY <1>0, <1>1, <1>2, <1>3, <2>1, <2>2, <2>3, <2>4, SMTT(30) DEF TypeOK
<1>10. TableInv'
  <2>1. SUFFICES ASSUME NEW q \in PageId, page_table'[q] # NoFrame
                 PROVE  /\ pages'[page_table'[q]].id = q
                        /\ q[2] < fd2pageno'[q[1]]
                        /\ page_table'[q] \notin Range(free_list')
    BY <1>3, SMTT(30) DEF TableInv, InPool
  <2>2. CASE q = p
    BY <1>1, <1>3, <1>5, <1>6, <2>2, SMTT(20)
  <2>3. CASE q # p
    <3>1. page_table'[q] = page_table[q] /\ page_table[q] # f /\ InPool(q) /\ page_table[q] \in Frames
      BY <1>0, <1>6, <2>1, <2>3, SMTT(30) DEF InPool, TypeOK
    <3> QED
      BY <1>0, <1>1, <1>3, <1>5, <3>1, SMTT(30) DEF TableInv
  <2> QED
    BY <2>2, <2>3, SMTT(30)
<1>11. IdInv'
  <2>1. ASSUME NEW g \in Frames, g # f
        PROVE  /\ pages'[g].id = pages[g].id /\ pages[g].id # p /\ pages'[g].dirty = pages[g].dirty
               /\ pages[g].id \in PageId => page_table'[pages[g].id] =
                    IF page_table[pages[g].id] = f THEN NoFrame ELSE page_table[pages[g].id]
    BY <1>f, <1>5, <1>6, <2>1, ZenonT(30) DEF LoadEffect
  <2>2. ASSUME NEW g \in Frames, pages'[g].id \in PageId, page_table'[pages'[g].id] # NoFrame
        PROVE  page_table'[pages'[g].id] = g
    <3>1. CASE g = f
      BY <1>5, <1>6, <3>1, SMTT(30)
    <3>2. CASE g # f
      BY <1>0, <2>1, <2>2, <3>2, SMTT(30) DEF IdInv, InPool
    <3> QED
      BY <3>1, <3>2, ZenonT(30)
  <2>3. ASSUME NEW g \in Frames, pages'[g].dirty
        PROVE  pages'[g].id \in PageId /\ page_table'[pages'[g].id] = g
    <3>1. g # f
      BY <1>5, <2>3, SMTT(30)
    <3> QED
      BY <1>0, <2>1, <2>3, <3>1, SMTT(30) DEF IdInv
  <2> QED
    BY <2>2, <2>3, SMTT(20) DEF IdInv, InPool
<1>12. HandleInv'
  <2>1. SUFFICES ASSUME NEW d \in Clients, NEW h \in held'[d]
                 PROVE  /\ page_table'[h.page] = h.frame
                        /\ \A g \in held'[d] : g.page = h.page => g = h
    BY SMTT(30) DEF HandleInv
  <2>2. CASE h \in held[d]
    <3>1. page_table'[h.page] = h.frame
      BY <1>6, <1>8, <2>2, SMTT(30)
    <3>2. \A g \in held[d] : g.page = h.page => g = h
      BY <1>0, <2>2, SMTT(30) DEF HandleInv
    <3>3. h.page # p /\ new.page = p
      BY <1>8, <2>2, SMTT(30)
    <3> QED
      BY <1>7, <3>1, <3>2, <3>3, SMTT(30)
  <2>3. CASE d = c /\ h = new
    <3>1. h.page = p /\ h.frame = f
      BY <2>3
    <3> QED
      BY <1>6, <1>7, <1>8, <2>3, <3>1, SMTT(30)
  <2> QED
    BY <1>7, <2>1, <2>2, <2>3, SMTT(30)
<1>13. PinInv'
  <2>1. ASSUME NEW g \in Frames  PROVE Users(g)' = IF g = f THEN {c} ELSE Users(g)
    <3>1. new.frame = f
      OBVIOUS
    <3>2. ASSUME NEW d \in Clients
          PROVE  (\E h \in held'[d] : h.frame = g) <=>
                   IF g = f THEN d = c ELSE (\E h \in held[d] : h.frame = g)
      BY <1>7, <1>8, <3>1, Zenon
    <3> QED
      BY <3>2, SMTT(30) DEF Users
  <2>2. Cardinality({c}) = 1
    <3>1. Cardinality(Users(f)) = 0 /\ Cardinality(Users(f) \cup {c}) = Cardinality(Users(f)) + 1
      BY <1>1, UsersAreCounted, Zenon
    <3>2. Users(f) \cup {c} = {c}
      BY <1>1
    <3> QED
      BY <3>1, <3>2, SMTT(30)
  <2>3. ASSUME NEW g \in Frames  PROVE pages'[g].pin = Cardinality(Users(g)')
    <3>1. CASE g = f
      <4>1. Users(g)' = {c}
        BY <2>1, <3>1, SMTT(30)
      <4>2. pages'[g].pin = 1
        BY <1>5, <3>1, SMTT(30)
      <4> QED
        BY <2>2, <4>1, <4>2, SMTT(30)
    <3>2. CASE g # f
      BY <1>0, <1>5, <2>1, <3>2, SMTT(30) DEF PinInv
    <3> QED
      BY <3>1, <3>2, SMTT(30)
  <2> QED
    BY <2>3, SMTT(30) DEF PinInv
<1>14. ListInv'
  BY <1>0, <1>1, <1>5, SMTT(30) DEF ListInv
<1>15. CleanInv'
  <2>1. SUFFICES ASSUME NEW q \in PageId, page_table'[q] # NoFrame
                 PROVE  \/ pages'[page_table'[q]].dirty
                        \/ \E d \in Clients : \E h \in held'[d] : h.frame = page_table'[q] /\ h.wrote
                        \/ pages'[page_table'[q]].data = disk'[q]
    BY SMTT(20) DEF CleanInv, InPool
  <2>2. CASE q = p
    <3>1. page_table'[q] = f /\ pages'[f].data = data
      BY <1>5, <1>6, <2>2, SMTT(20)
    <3>2. wrote => new \in held'[c] /\ new.frame = f /\ new.wrote
      BY <1>7, SMTT(20)
    <3> QED
      BY <1>3, <2>2, <3>1, <3>2, SMTT(20)
  <2>3. CASE q # p
    <3>1. page_table'[q] = page_table[q] /\ page_table[q] # f /\ InPool(q) /\ page_table[q] \in Frames
      BY <1>0, <1>6, <2>1, <2>3 DEF InPool, TypeOK
    <3>2. pages'[page_table[q]] = pages[page_table[q]] /\ disk'[q] = disk[q]
      BY <1>2, <1>5, <3>1, SMTT(30)
    <3>3. \A d \in Clients : held[d] \subseteq held'[d]
      BY <1>7, SMTT(30)
    <3>4. \/ pages[page_table[q]].dirty
          \/ \E d \in Clients : \E h \in held[d] : h.frame = page_table[q] /\ h.wrote
          \/ pages[page_table[q]].data = disk[q]
      BY <1>0, <3>1, SMTT(30) DEF CleanInv
    <3> QED
      BY <3>1, <3>2, <3>3, <3>4, SMTT(20)
  <2> QED
    BY <2>2, <2>3, SMTT(30)
<1>16. DiskInv'
  <2>1. SUFFICES ASSUME NEW q \in PageId, q[2] < fd2pageno'[q[1]], page_table'[q] = NoFrame
                 PROVE  disk'[q] # NoPage
    BY SMTT(30) DEF DiskInv, InPool
  <2>2. q # p /\ q[2] < fd2pageno[q[1]] /\ (page_table[q] = f \/ page_table[q] = NoFrame)
    BY <1>1, <1>6, <2>1, SMTT(30) DEF LoadStep
  <2>3. CASE page_table[q] = NoFrame
    BY <1>0, <1>1, <1>2, <2>2, <2>3, SMTT(30) DEF DiskInv, InPool
  <2>4. CASE page_table[q] = f
    <3>1. pages[f].dirty \/ pages[f].data = disk[q]
      BY <1>0, <1>1, <2>4, SMTT(30) DEF CleanInv, InPool, Users
    <3>2. disk'[q] = pages[f].data /\ pages[f].data \in Values
      BY <1>0, <1>1, <1>2, <2>4, <3>1, SMTT(30) DEF TypeOK
    <3> QED
      BY <3>2, ContentAssumption, SMTT(30)
  <2> QED
    BY <2>2, <2>3, <2>4, SMTT(30)
<1> QED
  BY <1>9, <1>10, <1>11, <1>12, <1>13, <1>14, <1>15, <1>16, SMTT(30) DEF PoolInv

\* fetch_page of a page in the pool: its frame leaves the list of the replacer.
LEMMA HitInv ==
  ASSUME CountLaws, PoolInv, NEW c \in Clients, NEW p \in PageId, fetch_page_hit(c, p)
  PROVE  PoolInv'
<1> DEFINE f == page_table[p]
           new == [page |-> p, frame |-> f, wrote |-> FALSE]
<1>0. TypeOK /\ TableInv /\ IdInv /\ HandleInv /\ PinInv /\ ListInv /\ CleanInv /\ DiskInv
  BY DEF PoolInv
<1>1. /\ f \in Frames /\ pages[f].id = p /\ f \notin Range(free_list) /\ \A h \in held[c] : h.page # p
  BY <1>0 DEF fetch_page_hit, MayHold, InPool, TypeOK, TableInv
<1>2. /\ pages' = [pages EXCEPT ![f].pin = pages[f].pin + 1] /\ lru' = pin(lru, f)
      /\ held' = [held EXCEPT ![c] = held[c] \cup {new}]
      /\ UNCHANGED <<page_table, free_list, disk, fd2pageno, stale>>
  BY DEF fetch_page_hit, Hold
<1> HIDE DEF f
<1>3. lru' \in Seq(Frames) /\ Distinct(lru') /\ Range(lru') = Range(lru) \ {f}
  BY <1>0, <1>2, PinList DEF TypeOK, ListInv
<1>4. /\ \A g \in Frames : g # f => pages'[g] = pages[g]
      /\ \A g \in Frames : pages'[g].id = pages[g].id /\ pages'[g].dirty = pages[g].dirty
                           /\ pages'[g].data = pages[g].data
      /\ pages'[f].pin = pages[f].pin + 1 /\ pages[f].pin \in Nat
  BY <1>0, <1>1, <1>2 DEF TypeOK
<1>5. /\ \A d \in Clients : d # c => held'[d] = held[d]
      /\ held'[c] = held[c] \cup {new}
  BY <1>0, <1>2 DEF TypeOK
<1>6. TypeOK'
  <2> DEFINE R == [id : PageId \cup {InvalidId}, data : Values, dirty : BOOLEAN, pin : Nat]
             r == [pages[f] EXCEPT !.pin = pages[f].pin + 1]
  <2>1. pages' \in [Frames -> R]
    <3>1. pages \in [Frames -> R] /\ pages' = [pages EXCEPT ![f] = r]
      BY <1>0, <1>2 DEF TypeOK
    <3>2. r \in R
      BY <1>1, <3>1
    <3> HIDE DEF R, r
    <3> QED
      BY <1>1, <3>1, <3>2
  <2>2. held' \in [Clients -> SUBSET [page : PageId, frame : Frames, wrote : BOOLEAN]]
    <3>1. new \in [page : PageId, frame : Frames, wrote : BOOLEAN]
      BY <1>1
    <3> HIDE DEF new
    <3> QED
      BY <1>0, <1>2, <3>1 DEF TypeOK
  <2> QED
    BY <1>0, <1>2, <1>3, <2>1, <2>2, SMTT(30) DEF TypeOK
<1>7. TableInv' /\ IdInv'
  <2>1. \A q \in PageId : InPool(q) => page_table[q] \in Frames
    BY <1>0 DEF TypeOK, InPool
  <2>2. TableInv'
    BY <1>0, <1>2, <1>4, <2>1, SMTT(30) DEF TableInv, InPool
  <2>3. IdInv'
    BY <1>0, <1>2, <1>4, SMTT(30) DEF IdInv, InPool
  <2> QED
    BY <2>2, <2>3
<1>8. HandleInv'
  <2>1. new.page = p /\ new.frame = f /\ page_table[p] = f
    BY DEF f
  <2>2. SUFFICES ASSUME NEW d \in Clients, NEW h \in held'[d]
                 PROVE  /\ page_table[h.page] = h.frame
                        /\ \A g \in held'[d] : g.page = h.page => g = h
    BY <1>2 DEF HandleInv
  <2>3. h \in held[d] => page_table[h.page] = h.frame /\ \A g \in held[d] : g.page = h.page => g = h
    BY <1>0 DEF HandleInv
  <2>4. CASE d = c
    BY <1>1, <1>5, <2>1, <2>2, <2>3, <2>4, Zenon
  <2>5. CASE d # c
    BY <1>5, <2>2, <2>3, <2>5
  <2> QED
    BY <2>4, <2>5
<1>9. PinInv'
  <2>1. ASSUME NEW g \in Frames  PROVE Users(g)' = IF g = f THEN Users(f) \cup {c} ELSE Users(g)
    <3>1. new.frame = f
      OBVIOUS
    <3>2. ASSUME NEW d \in Clients
          PROVE  (\E h \in held'[d] : h.frame = g) <=> (\E h \in held[d] : h.frame = g) \/ (d = c /\ g = f)
      BY <1>5, <3>1, Zenon
    <3> QED
      BY <3>2 DEF Users
  <2>2. c \notin Users(f)
    <3>1. \A h \in held[c] : pages[h.frame].id = h.page
      BY <1>0, HandleFacts
    <3> QED
      BY <1>1, <3>1, SMTT(30) DEF Users
  <2>3. Cardinality(Users(f) \cup {c}) = Cardinality(Users(f)) + 1
    BY <2>2, UsersAreCounted
  <2>4. ASSUME NEW g \in Frames  PROVE pages'[g].pin = Cardinality(Users(g)')
    <3>1. CASE g = f
      <4>1. Users(g)' = Users(f) \cup {c}
        BY <2>1, <3>1, SMTT(30)
      <4>2. pages'[g].pin = Cardinality(Users(f)) + 1
        BY <1>0, <1>1, <1>4, <3>1, SMTT(30) DEF PinInv
      <4> QED
        BY <2>3, <4>1, <4>2
    <3>2. CASE g # f
      BY <1>0, <1>4, <2>1, <3>2, SMTT(30) DEF PinInv
    <3> QED
      BY <3>1, <3>2, SMTT(30)
  <2> QED
    BY <2>4 DEF PinInv
<1>10. ListInv'
  <2>1. ASSUME NEW g \in Frames
        PROVE  g \in Range(free_list) \cup Range(lru') <=> pages'[g].pin = 0
    <3>1. CASE g = f
      BY <1>1, <1>3, <1>4, <3>1, SMTT(30)
    <3>2. CASE g # f
      BY <1>0, <1>3, <1>4, <3>2, SMTT(30) DEF ListInv
    <3> QED
      BY <3>1, <3>2, SMTT(30)
  <2> QED
    BY <1>0, <1>2, <1>3, <2>1, SMTT(30) DEF ListInv
<1>11. CleanInv'
  <2>1. \A d \in Clients : held[d] \subseteq held'[d]
    BY <1>5
  <2>2. \A q \in PageId : InPool(q) => page_table[q] \in Frames
    BY <1>0 DEF TypeOK, InPool
  <2> QED
    BY <1>0, <1>2, <1>4, <2>1, <2>2, SMTT(30) DEF CleanInv, InPool
<1>12. DiskInv'
  BY <1>0, <1>2, SMTT(30) DEF DiskInv, InPool
<1> QED
  BY <1>6, <1>7, <1>8, <1>9, <1>10, <1>11, <1>12, SMTT(30) DEF PoolInv

\* A write through a Page*.
LEMMA WriteInv ==
  ASSUME PoolInv, NEW c \in Clients, NEW h \in held[c], NEW x \in Values, Write(c, h, x)
  PROVE  PoolInv'
<1> DEFINE f == h.frame
           new == [h EXCEPT !.wrote = TRUE]
           R == [id : PageId \cup {InvalidId}, data : Values, dirty : BOOLEAN, pin : Nat]
           H == [page : PageId, frame : Frames, wrote : BOOLEAN]
<1>0. TypeOK /\ TableInv /\ IdInv /\ HandleInv /\ PinInv /\ ListInv /\ CleanInv /\ DiskInv
  BY SMTT(30) DEF PoolInv
<1>1. /\ h.page \in PageId /\ f \in Frames /\ f # NoFrame /\ page_table[h.page] = f /\ pages[f].id = h.page
      /\ h \in H
  BY <1>0, HandleFacts DEF TypeOK
<1>2. new \in H /\ new.page = h.page /\ new.frame = f /\ new.wrote
  BY <1>1, Zenon
<1>3. /\ pages' = [pages EXCEPT ![f] = [pages[f] EXCEPT !.data = x]]
      /\ held' = [held EXCEPT ![c] = (held[c] \ {h}) \cup {new}]
      /\ UNCHANGED <<page_table, free_list, lru, disk, fd2pageno, stale>>
  BY DEF Write
<1> HIDE DEF f, new, H
<1>4. /\ \A g \in Frames : g # f => pages'[g] = pages[g]
      /\ \A g \in Frames : pages'[g].id = pages[g].id /\ pages'[g].dirty = pages[g].dirty
                           /\ pages'[g].pin = pages[g].pin
  BY <1>0, <1>1, <1>3 DEF TypeOK
<1>5. /\ \A d \in Clients : d # c => held'[d] = held[d]
      /\ held'[c] = (held[c] \ {h}) \cup {new}
  BY <1>0, <1>3 DEF TypeOK
<1>6. TypeOK'
  <2>1. pages' \in [Frames -> R]
    <3>1. pages \in [Frames -> R]
      BY <1>0 DEF TypeOK
    <3>2. [pages[f] EXCEPT !.data = x] \in R
      BY <1>1, <3>1
    <3> HIDE DEF R
    <3> QED
      BY <1>1, <1>3, <3>1, <3>2, SMTT(30)
  <2>2. held' \in [Clients -> SUBSET H]
    <3>1. held \in [Clients -> SUBSET H]
      BY <1>0 DEF TypeOK, H
    <3> QED
      BY <1>2, <1>3, <3>1
  <2> QED
    BY <1>0, <1>3, <2>1, <2>2 DEF TypeOK, H
<1>7. TableInv' /\ IdInv' /\ ListInv'
  <2>1. \A q \in PageId : InPool(q) => page_table[q] \in Frames
    BY <1>0 DEF TypeOK, InPool
  <2>2. TableInv'
    BY <1>0, <1>3, <1>4, <2>1, SMTT(30) DEF TableInv, InPool
  <2>3. IdInv'
    BY <1>0, <1>3, <1>4 DEF IdInv, InPool
  <2>4. ListInv'
    BY <1>0, <1>3, <1>4 DEF ListInv
  <2> QED
    BY <2>2, <2>3, <2>4, SMTT(30)
<1>8. HandleInv'
  <2>1. SUFFICES ASSUME NEW d \in Clients, NEW k \in held'[d]
                 PROVE  /\ page_table[k.page] = k.frame
                        /\ \A g \in held'[d] : g.page = k.page => g = k
    BY <1>3 DEF HandleInv
  <2>2. \A k1 \in held[d] : page_table[k1.page] = k1.frame /\ \A g \in held[d] : g.page = k1.page => g = k1
    BY <1>0, SMTT(30) DEF HandleInv
  <2>3. CASE d = c
    BY <1>1, <1>2, <1>5, <2>1, <2>2, <2>3, SMTT(30)
  <2>4. CASE d # c
    BY <1>5, <2>1, <2>2, <2>4, SMTT(30)
  <2> QED
    BY <2>3, <2>4
<1>9. PinInv'
  <2>1. ASSUME NEW g \in Frames  PROVE Users(g)' = Users(g)
    <3>1. ASSUME NEW d \in Clients
          PROVE  (\E k \in held'[d] : k.frame = g) <=> (\E k \in held[d] : k.frame = g)
      BY <1>2, <1>5, SMTT(30) DEF f
    <3> QED
      BY <3>1, SMTT(30) DEF Users
  <2> QED
    BY <1>0, <1>4, <2>1, SMTT(30) DEF PinInv
<1>10. CleanInv'
  <2>1. SUFFICES ASSUME NEW q \in PageId, page_table[q] # NoFrame
                 PROVE  \/ pages'[page_table[q]].dirty
                        \/ \E d \in Clients : \E k \in held'[d] : k.frame = page_table[q] /\ k.wrote
                        \/ pages'[page_table[q]].data = disk[q]
    BY <1>3 DEF CleanInv, InPool
  <2>2. CASE page_table[q] = f
    BY <1>2, <1>5, <2>2, SMTT(30)
  <2>3. CASE page_table[q] # f
    <3>1. page_table[q] \in Frames
      BY <1>0, <2>1, SMTT(30) DEF TypeOK
    <3>2. \A d \in Clients : \A k \in held[d] : k.frame # f => k \in held'[d]
      BY <1>5 DEF f
    <3>3. \/ pages[page_table[q]].dirty
          \/ \E d \in Clients : \E k \in held[d] : k.frame = page_table[q] /\ k.wrote
          \/ pages[page_table[q]].data = disk[q]
      BY <1>0, <2>1, SMTT(20) DEF CleanInv, InPool
    <3> QED
      BY <1>4, <2>3, <3>1, <3>2, <3>3, SMTT(30)
  <2> QED
    BY <2>2, <2>3
<1>11. DiskInv'
  BY <1>0, <1>3, SMTT(30) DEF DiskInv, InPool
<1> QED
  BY <1>6, <1>7, <1>8, <1>9, <1>10, <1>11, SMTT(30) DEF PoolInv

\* unpin_page by a client that has the page finds it in the pool and pinned.
LEMMA UnpinStep ==
  ASSUME CountLaws, PoolInv, NEW c \in Clients, NEW h \in held[c], NEW is_dirty \in BOOLEAN,
         unpin_page(c, h, is_dirty)
  PROVE  /\ h.frame \in Frames /\ page_table[h.page] = h.frame /\ pages[h.frame].id = h.page
         /\ pages[h.frame].pin \in Nat \ {0}
         /\ pages' \in [Frames -> [id : PageId \cup {InvalidId}, data : Values, dirty : BOOLEAN, pin : Nat]]
         /\ \A g \in Frames : g # h.frame => pages'[g] = pages[g]
         /\ pages'[h.frame].id = h.page /\ pages'[h.frame].data = pages[h.frame].data
         /\ pages'[h.frame].pin = pages[h.frame].pin - 1
         /\ pages'[h.frame].dirty <=> pages[h.frame].dirty \/ is_dirty
         /\ lru' = IF pages[h.frame].pin = 1 THEN unpin(lru, h.frame) ELSE lru
<1> DEFINE f == h.frame
           R == [id : PageId \cup {InvalidId}, data : Values, dirty : BOOLEAN, pin : Nat]
           b == pages[f].dirty \/ is_dirty
           r == [pages[f] EXCEPT !.pin = pages[f].pin - 1, !.dirty = b]
<1>0. TypeOK /\ TableInv /\ HandleInv /\ PinInv
  BY DEF PoolInv
<1>1. f \in Frames /\ page_table[h.page] = f /\ InPool(h.page) /\ pages[f].id = h.page
  BY <1>0, HandleFacts, SMTT(30)
<1>2. pages[f].pin \in Nat \ {0}
  <2>1. c \in Users(f)
    BY DEF Users
  <2> QED
    BY <1>0, <1>1, <2>1, UsersAreCounted DEF PinInv
<1>3. pages \in [Frames -> R]
  BY <1>0 DEF TypeOK
<1>4. /\ pages' = [pages EXCEPT ![f].pin = pages[f].pin - 1, ![f].dirty = pages[f].dirty \/ is_dirty]
      /\ lru' = IF pages[f].pin = 1 THEN unpin(lru, f) ELSE lru
  BY <1>1, <1>2, <1>3 DEF unpin_page
<1>5. pages' = [pages EXCEPT ![f] = r]
  BY <1>1, <1>3, <1>4, Zenon
<1>6. r \in R /\ r.id = pages[f].id /\ r.data = pages[f].data /\ r.pin = pages[f].pin - 1
      /\ r.dirty = b
  <2>1. pages[f] \in R /\ b \in BOOLEAN /\ pages[f].pin - 1 \in Nat
    BY <1>1, <1>2, <1>3, SMTT(30)
  <2> HIDE DEF b
  <2> QED
    BY <2>1, Zenon
<1> HIDE DEF R, r
<1>7. pages' \in [Frames -> R] /\ pages'[f] = r /\ \A g \in Frames : g # f => pages'[g] = pages[g]
  BY <1>1, <1>3, <1>5, <1>6, SMTT(30)
<1> QED
  BY <1>1, <1>2, <1>4, <1>6, <1>7, SMTT(30) DEF R

\* unpin_page: the frame can be a victim again when its last user is gone.
LEMMA UnpinInv ==
  ASSUME CountLaws, PoolInv, NEW c \in Clients, NEW h \in held[c], NEW is_dirty \in BOOLEAN,
         unpin_page(c, h, is_dirty)
  PROVE  PoolInv'
<1> DEFINE f == h.frame
<1>0. TypeOK /\ TableInv /\ IdInv /\ HandleInv /\ PinInv /\ ListInv /\ CleanInv /\ DiskInv
  BY SMTT(20) DEF PoolInv
<1>1. /\ f \in Frames /\ page_table[h.page] = f /\ pages[f].id = h.page /\ pages[f].pin \in Nat \ {0}
      /\ \A g \in Frames : g # f => pages'[g] = pages[g]
      /\ pages'[f].pin = pages[f].pin - 1
      /\ pages'[f].dirty <=> pages[f].dirty \/ is_dirty
      /\ lru' = IF pages[f].pin = 1 THEN unpin(lru, f) ELSE lru
  BY UnpinStep, SMTT(20)
<1>2. \A g \in Frames : pages'[g].id = pages[g].id /\ pages'[g].data = pages[g].data
  BY <1>1, UnpinStep, SMTT(30)
<1>3. /\ h.wrote => is_dirty
      /\ held' = [held EXCEPT ![c] = held[c] \ {h}]
      /\ UNCHANGED <<page_table, free_list, disk, fd2pageno, stale>>
  BY DEF unpin_page
<1>4. h.page \in PageId
  BY <1>0, HandleFacts, SMTT(30)
<1> HIDE DEF f
<1>5. /\ \A d \in Clients : d # c => held'[d] = held[d]
      /\ held'[c] = held[c] \ {h}
  BY <1>0, <1>3, SMTT(30) DEF TypeOK
<1>6. /\ lru' \in Seq(Frames) /\ Distinct(lru')
      /\ Range(lru') = IF pages[f].pin = 1 THEN Range(lru) \cup {f} ELSE Range(lru)
  <2>1. lru \in Seq(Frames) /\ Distinct(lru)
    BY <1>0, SMTT(30) DEF TypeOK, ListInv
  <2>2. CASE pages[f].pin = 1
    <3>1. f \in Frames /\ lru' = unpin(lru, f)
      BY <1>1, <2>2, SMTT(30)
    <3> QED
      BY <2>1, <2>2, <3>1, UnpinList, SMTT(30)
  <2>3. CASE pages[f].pin # 1
    BY <1>1, <2>1, <2>3, SMTT(30)
  <2> QED
    BY <2>2, <2>3, SMTT(30)
<1>7. TypeOK'
  <2>1. held' \in [Clients -> SUBSET [page : PageId, frame : Frames, wrote : BOOLEAN]]
    BY <1>0, <1>3, SMTT(30) DEF TypeOK
  <2>2. pages' \in [Frames -> [id : PageId \cup {InvalidId}, data : Values, dirty : BOOLEAN, pin : Nat]]
    BY UnpinStep
  <2> QED
    BY <1>0, <1>3, <1>6, <2>1, <2>2, SMTT(30) DEF TypeOK
<1>8. TableInv' /\ IdInv'
  <2>1. \A q \in PageId : InPool(q) => page_table[q] \in Frames
    BY <1>0, SMTT(30) DEF TypeOK, InPool
  <2>2. TableInv'
    BY <1>0, <1>2, <1>3, <2>1, SMTT(30) DEF TableInv, InPool
  <2>3. \A g \in Frames : pages'[g].dirty => pages[g].id \in PageId /\ page_table[pages[g].id] = g
    BY <1>0, <1>1, <1>4, SMTT(30) DEF IdInv
  <2>4. IdInv'
    BY <1>0, <1>2, <1>3, <2>3, SMTT(30) DEF IdInv, InPool
  <2> QED
    BY <2>2, <2>4, SMTT(30)
<1>9. HandleInv'
  BY <1>0, <1>3, <1>5, SMTT(30) DEF HandleInv
<1>10. \A k \in held[c] : k.frame = f => k = h
  <2>1. \A k \in held[c] : pages[k.frame].id = k.page
    BY <1>0, HandleFacts
  <2> QED
    BY <1>0, <1>1, <2>1, SMTT(30) DEF HandleInv
<1>11. PinInv'
  <2>1. ASSUME NEW g \in Frames  PROVE Users(g)' = IF g = f THEN Users(f) \ {c} ELSE Users(g)
    <3>1. h.frame = f
      BY SMTT(30) DEF f
    <3>2. ASSUME NEW d \in Clients
          PROVE  (\E k \in held'[d] : k.frame = g) <=> (\E k \in held[d] : k.frame = g) /\ ~(d = c /\ g = f)
      BY <1>5, <1>10, <3>1, SMTT(30)
    <3> QED
      BY <3>2 DEF Users
  <2>2. Cardinality(Users(f) \ {c}) = Cardinality(Users(f)) - 1
    <3>1. c \in Users(f)
      BY DEF Users, f
    <3> QED
      BY <3>1, UsersAreCounted, SMTT(30)
  <2>3. ASSUME NEW g \in Frames  PROVE pages'[g].pin = Cardinality(Users(g)')
    <3>1. CASE g = f
      <4>1. Users(g)' = Users(f) \ {c}
        BY <2>1, <3>1, SMTT(30)
      <4>2. pages'[g].pin = Cardinality(Users(f)) - 1
        BY <1>0, <1>1, <3>1, SMTT(30) DEF PinInv
      <4> QED
        BY <2>2, <4>1, <4>2, SMTT(30)
    <3>2. CASE g # f
      BY <1>0, <1>1, <2>1, <3>2, SMTT(30) DEF PinInv
    <3> QED
      BY <3>1, <3>2, SMTT(30)
  <2> QED
    BY <2>3, SMTT(30) DEF PinInv
<1>12. ListInv'
  <2>1. ASSUME NEW g \in Frames
        PROVE  g \in Range(free_list) \cup Range(lru') <=> pages'[g].pin = 0
    <3>1. CASE g = f
      BY <1>0, <1>1, <1>6, <3>1, SMTT(30) DEF ListInv
    <3>2. CASE g # f
      BY <1>0, <1>1, <1>6, <3>2, SMTT(30) DEF ListInv
    <3> QED
      BY <3>1, <3>2, SMTT(30)
  <2> QED
    BY <1>0, <1>3, <1>6, <2>1, SMTT(30) DEF ListInv
<1>13. CleanInv'
  <2>1. SUFFICES ASSUME NEW q \in PageId, page_table[q] # NoFrame
                 PROVE  \/ pages'[page_table[q]].dirty
                        \/ \E d \in Clients : \E k \in held'[d] : k.frame = page_table[q] /\ k.wrote
                        \/ pages'[page_table[q]].data = disk[q]
    BY <1>3 DEF CleanInv, InPool
  <2>2. page_table[q] \in Frames
    BY <1>0, <2>1, SMTT(30) DEF TypeOK
  <2>3. CASE pages[page_table[q]].dirty
    BY <1>1, <2>2, <2>3, SMTT(30)
  <2>4. CASE pages[page_table[q]].data = disk[q]
    BY <1>2, <2>2, <2>4, SMTT(30)
  <2>5. ASSUME NEW d \in Clients, NEW k \in held[d], k.frame = page_table[q], k.wrote
        PROVE  \/ pages'[page_table[q]].dirty
               \/ \E e \in Clients : \E l \in held'[e] : l.frame = page_table[q] /\ l.wrote
    <3>1. CASE k = h /\ d = c
      BY <1>1, <1>3, <2>5, <3>1, SMTT(20) DEF f
    <3>2. CASE ~(k = h /\ d = c)
      <4>1. k \in held'[d]
        BY <1>5, <3>2, SMTT(30)
      <4> QED
        BY <2>5, <4>1, SMTT(30)
    <3> QED
      BY <3>1, <3>2, SMTT(30)
  <2> QED
    BY <1>0, <2>1, <2>3, <2>4, <2>5, SMTT(30) DEF CleanInv, InPool
<1>14. DiskInv'
  BY <1>0, <1>3 DEF DiskInv, InPool
<1> QED
  BY <1>7, <1>8, <1>9, <1>11, <1>12, <1>13, <1>14, SMTT(30) DEF PoolInv

\* The three flushes write pages of the pool, and mark their frames clean.
LEMMA FlushInv ==
  ASSUME PoolInv, NEW set \in SUBSET PageId, \A p \in set : InPool(p), flush(set)
  PROVE  PoolInv'
<1> DEFINE b(f) == pages[f].dirty /\ \A p \in set : page_table[p] # f
           R == [id : PageId \cup {InvalidId}, data : Values, dirty : BOOLEAN, pin : Nat]
<1>0. TypeOK /\ TableInv /\ IdInv /\ HandleInv /\ PinInv /\ ListInv /\ CleanInv /\ DiskInv
  BY DEF PoolInv
<1>1. /\ disk' = [p \in PageId |-> IF p \in set THEN pages[page_table[p]].data ELSE disk[p]]
      /\ pages' = [f \in Frames |-> [pages[f] EXCEPT !.dirty = b(f)]]
      /\ UNCHANGED <<page_table, free_list, lru, fd2pageno, held, stale>>
  BY DEF flush
<1>2. \A f \in Frames : b(f) \in BOOLEAN /\ pages[f] \in R
  BY <1>0 DEF TypeOK
<1>3. \A f \in Frames : (b(f) => pages[f].dirty) /\ (pages[f].dirty => b(f) \/ \E p \in set : page_table[p] = f)
  OBVIOUS
<1> HIDE DEF b
<1>4. \A f \in Frames :
        /\ pages'[f] \in R /\ pages'[f].id = pages[f].id /\ pages'[f].data = pages[f].data
        /\ pages'[f].pin = pages[f].pin /\ pages'[f].dirty = b(f)
  BY <1>1, <1>2, SMTT(30)
<1>5. \A q \in PageId : InPool(q) => page_table[q] \in Frames
  BY <1>0 DEF TypeOK, InPool
<1>6. TypeOK'
  <2>1. pages' \in [Frames -> R]
    <3> HIDE DEF R
    <3> QED
      BY <1>1, <1>4, Zenon
  <2>2. disk' \in [PageId -> Values \cup {NoPage}]
    <3>1. \A p \in set : pages[page_table[p]].data \in Values
      BY <1>2, <1>5
    <3> QED
      BY <1>0, <1>1, <3>1, SMTT(30) DEF TypeOK
  <2> QED
    BY <1>0, <1>1, <2>1, <2>2 DEF TypeOK
<1>7. TableInv'
  BY <1>0, <1>1, <1>4, <1>5 DEF TableInv, InPool
<1>8. IdInv'
  BY <1>0, <1>1, <1>3, <1>4 DEF IdInv, InPool
<1>9. HandleInv'
  BY <1>0, <1>1, SMTT(30) DEF HandleInv
<1>10. PinInv'
  <2>1. \A f \in Frames : Users(f)' = Users(f)
    BY <1>1 DEF Users
  <2> QED
    BY <1>0, <1>4, <2>1 DEF PinInv
<1>11. ListInv'
  BY <1>0, <1>1, <1>4, Zenon DEF ListInv
<1>12. CleanInv'
  <2>1. SUFFICES ASSUME NEW q \in PageId, InPool(q)
                 PROVE  \/ pages'[page_table[q]].dirty
                        \/ \E d \in Clients : \E h \in held[d] : h.frame = page_table[q] /\ h.wrote
                        \/ pages'[page_table[q]].data = disk'[q]
    BY <1>1 DEF CleanInv, InPool
  <2>2. CASE q \in set
    BY <1>1, <1>4, <1>5, <2>1, <2>2, SMTT(30)
  <2>3. CASE q \notin set
    <3>1. disk'[q] = disk[q]
      BY <1>1, <2>3
    <3>2. \A p \in set : page_table[p] # page_table[q]
      BY <1>0, <2>1, <2>3, SMTT(30) DEF TableInv
    <3>3. pages[page_table[q]].dirty => pages'[page_table[q]].dirty
      BY <1>3, <1>4, <1>5, <2>1, <3>2, SMTT(30)
    <3>4. pages'[page_table[q]].data = pages[page_table[q]].data
      BY <1>4, <1>5, <2>1
    <3> QED
      BY <1>0, <2>1, <3>1, <3>3, <3>4 DEF CleanInv
  <2> QED
    BY <2>2, <2>3
<1>13. DiskInv'
  BY <1>0, <1>1 DEF DiskInv, InPool
<1> QED
  BY <1>6, <1>7, <1>8, <1>9, <1>10, <1>11, <1>12, <1>13, SMTT(30) DEF PoolInv

\* delete_page: the frame goes to free_list_ and keeps its id_.
LEMMA DeleteInv ==
  ASSUME CountLaws, PoolInv, NEW p \in PageId, delete_page(p)
  PROVE  PoolInv'
<1> DEFINE f == page_table[p]
           R == [id : PageId \cup {InvalidId}, data : Values, dirty : BOOLEAN, pin : Nat]
<1>0. TypeOK /\ TableInv /\ IdInv /\ HandleInv /\ PinInv /\ ListInv /\ CleanInv /\ DiskInv
  BY DEF PoolInv
<1>1. /\ f \in Frames /\ f # NoFrame /\ pages[f].id = p /\ f \notin Range(free_list) /\ pages[f].pin = 0
      /\ p[2] < fd2pageno[p[1]]
  BY <1>0 DEF delete_page, Drop, InPool, TypeOK, TableInv
<1>2. /\ pages' = [pages EXCEPT ![f] = [pages[f] EXCEPT !.dirty = FALSE]]
      /\ page_table' = Forget(f) /\ free_list' = Append(free_list, f) /\ disk' = WriteBack(f)
      /\ UNCHANGED <<lru, fd2pageno, held, stale>>
  BY DEF delete_page, Drop
<1>3. /\ disk' \in [PageId -> Values \cup {NoPage}]
      /\ \A q \in PageId : page_table[q] # f => disk'[q] = disk[q]
      /\ \A q \in PageId : Forget(f)[q] = IF page_table[q] = f THEN NoFrame ELSE page_table[q]
  BY <1>1, <1>2, Eviction
<1>4. /\ free_list' \in Seq(Frames) /\ Distinct(free_list')
      /\ Range(free_list') = Range(free_list) \cup {f}
  BY <1>0, <1>1, <1>2, AppendList, SMTT(30) DEF TypeOK, ListInv
<1>5. \A q \in PageId : page_table[q] = f <=> q = p
  BY <1>0, <1>1 DEF TableInv, InPool
<1>6. \A q \in PageId : page_table'[q] = IF q = p THEN NoFrame ELSE page_table[q]
  BY <1>2, <1>3, <1>5
<1> HIDE DEF f
<1>7. /\ \A g \in Frames : g # f => pages'[g] = pages[g]
      /\ \A g \in Frames : pages'[g].id = pages[g].id /\ pages'[g].pin = pages[g].pin
                           /\ pages'[g].data = pages[g].data
      /\ pages'[f].dirty = FALSE
  BY <1>0, <1>1, <1>2, SMTT(30) DEF TypeOK
<1>8. TypeOK'
  <2>1. pages' \in [Frames -> R]
    <3>1. pages \in [Frames -> R]
      BY <1>0 DEF TypeOK
    <3>2. [pages[f] EXCEPT !.dirty = FALSE] \in R
      BY <1>1, <3>1, Zenon
    <3> HIDE DEF R
    <3> QED
      BY <1>1, <1>2, <3>1, <3>2, SMTT(30)
  <2>2. page_table' \in [PageId -> Frames \cup {NoFrame}]
    BY <1>0, <1>2, SMTT(30) DEF TypeOK, Forget
  <2> QED
    BY <1>0, <1>2, <1>3, <1>4, <2>1, <2>2, SMTT(30) DEF TypeOK
<1>9. \A q \in PageId : page_table[q] # NoFrame => page_table[q] \in Frames
  BY <1>0 DEF TypeOK
<1>10. TableInv'
  <2>1. SUFFICES ASSUME NEW q \in PageId, page_table'[q] # NoFrame
                 PROVE  /\ pages'[page_table'[q]].id = q
                        /\ q[2] < fd2pageno[q[1]]
                        /\ page_table'[q] \notin Range(free_list')
    BY <1>2, SMTT(30) DEF TableInv, InPool
  <2>2. q # p /\ page_table'[q] = page_table[q] /\ page_table[q] # f /\ page_table[q] \in Frames /\ InPool(q)
    BY <1>5, <1>6, <1>9, <2>1, SMTT(30) DEF InPool
  <2> QED
    BY <1>0, <1>2, <1>4, <1>7, <2>2, SMTT(30) DEF TableInv
<1>11. IdInv'
  <2>1. ASSUME NEW g \in Frames, pages'[g].id \in PageId, page_table'[pages'[g].id] # NoFrame
        PROVE  page_table'[pages'[g].id] = g
    <3>1. pages[g].id \in PageId /\ pages[g].id # p /\ InPool(pages[g].id)
      BY <1>6, <1>7, <2>1, SMTT(30) DEF InPool
    <3>2. page_table[pages[g].id] = g
      BY <1>0, <3>1, SMTT(30) DEF IdInv
    <3> QED
      BY <1>6, <1>7, <3>1, <3>2, SMTT(30)
  <2>2. ASSUME NEW g \in Frames, pages'[g].dirty
        PROVE  pages'[g].id \in PageId /\ page_table'[pages'[g].id] = g
    <3>1. g # f /\ pages[g].dirty
      BY <1>7, <2>2, SMTT(30)
    <3>2. pages[g].id \in PageId /\ page_table[pages[g].id] = g
      BY <1>0, <3>1, SMTT(30) DEF IdInv
    <3> QED
      BY <1>5, <1>6, <1>7, <3>1, <3>2, SMTT(30)
  <2> QED
    BY <2>1, <2>2, SMTT(30) DEF IdInv, InPool
<1>12. \A c \in Clients : \A h \in held[c] : h.frame # f /\ h.page \in PageId
  <2>1. Users(f) = {}
    BY <1>0, <1>1, UsersAreCounted DEF PinInv
  <2> QED
    BY <1>0, <2>1, SMTT(30) DEF Users, TypeOK
<1>13. HandleInv'
  BY <1>0, <1>2, <1>5, <1>6, <1>12, SMTT(30) DEF HandleInv
<1>14. PinInv'
  <2>1. \A g \in Frames : Users(g)' = Users(g)
    BY <1>2 DEF Users
  <2> QED
    BY <1>0, <1>7, <2>1 DEF PinInv
<1>15. ListInv'
  <2>1. ASSUME NEW g \in Frames
        PROVE  g \in Range(free_list') \cup Range(lru) <=> pages'[g].pin = 0
    BY <1>0, <1>1, <1>4, <1>7, SMTT(20) DEF ListInv
  <2> QED
    BY <1>0, <1>2, <1>4, <2>1, SMTT(30) DEF ListInv
<1>16. CleanInv'
  <2>1. SUFFICES ASSUME NEW q \in PageId, page_table'[q] # NoFrame
                 PROVE  \/ pages'[page_table'[q]].dirty
                        \/ \E d \in Clients : \E h \in held[d] : h.frame = page_table'[q] /\ h.wrote
                        \/ pages'[page_table'[q]].data = disk'[q]
    BY <1>2, SMTT(30) DEF CleanInv, InPool
  <2>2. page_table'[q] = page_table[q] /\ page_table[q] # f /\ page_table[q] \in Frames /\ InPool(q)
    BY <1>5, <1>6, <1>9, <2>1, SMTT(30) DEF InPool
  <2> QED
    BY <1>0, <1>3, <1>7, <2>2, SMTT(30) DEF CleanInv
<1>18. disk'[p] = pages[f].data /\ disk'[p] # NoPage
  <2>1. pages[f].dirty \/ pages[f].data = disk[p]
    BY <1>0, <1>1, <1>5, <1>12, SMTT(30) DEF CleanInv, InPool
  <2>2. disk'[p] = IF pages[f].dirty THEN pages[f].data ELSE disk[p]
    BY <1>1, <1>2, <1>5, Eviction, SMTT(30)
  <2>3. pages[f].data \in Values
    BY <1>0, <1>1 DEF TypeOK
  <2> QED
    BY <2>1, <2>2, <2>3, ContentAssumption, SMTT(30)
<1>17. DiskInv'
  <2>1. SUFFICES ASSUME NEW q \in PageId, q[2] < fd2pageno[q[1]], page_table'[q] = NoFrame
                 PROVE  disk'[q] # NoPage
    BY <1>2 DEF DiskInv, InPool
  <2>2. CASE q = p
    BY <1>18, <2>2, SMTT(30)
  <2>3. CASE q # p
    BY <1>0, <1>3, <1>5, <1>6, <2>1, <2>3 DEF DiskInv, InPool
  <2> QED
    BY <2>2, <2>3
<1> QED
  BY <1>8, <1>10, <1>11, <1>13, <1>14, <1>15, <1>16, <1>17, SMTT(30) DEF PoolInv

\* fetch_page of a page on disk.
LEMMA MissInv ==
  ASSUME CountLaws, PoolInv, NEW c \in Clients, NEW p \in PageId, fetch_page_miss(c, p), ~stale'
  PROVE  PoolInv' /\ disk'[p] \in Values /\ LoadStep(c, p, disk'[p], FALSE)
<1>1. TypeOK /\ ListInv
  BY DEF PoolInv
<1>2. LoadStep(c, p, disk'[p], FALSE)
  BY <1>1, Zenon DEF fetch_page_miss, Misses, Load, Assign, LoadStep, TypeOK
<1>3. disk'[p] \in Values
  <2>1. HasVictim /\ disk' = WriteBack(Victim.frame) /\ disk'[p] # NoPage
    BY ZenonT(30) DEF fetch_page_miss, Misses, Load, Assign
  <2>2. Victim.frame \in Frames
    BY <1>1, <2>1, VictimIsUnused, SMTT(30)
  <2>3. disk' \in [PageId -> Values \cup {NoPage}]
    BY <2>1, <2>2, Eviction, SMTT(30)
  <2> QED
    BY <2>1, <2>3, SMTT(30)
<1> QED
  BY <1>2, <1>3, LoadInv, Zenon

\* The page of new_page has the next number of its file, and so it is in no frame.
LEMMA NewPageFacts ==
  ASSUME PoolInv, NEW c \in Clients, NEW fd \in Files, new_page(c, fd)
  PROVE  LET p == <<fd, fd2pageno[fd]>>
         IN  /\ p \in PageId /\ ~InPool(p)
             /\ p[1] = fd /\ p[2] = fd2pageno[fd] /\ p[2] < fd2pageno'[p[1]]
             /\ fd2pageno' \in [Files -> 1 .. MaxPages]
             /\ \A q \in PageId : q # p => (q[2] < fd2pageno'[q[1]] <=> q[2] < fd2pageno[q[1]])
<1> DEFINE p == <<fd, fd2pageno[fd]>>
<1>0. TypeOK /\ TableInv /\ IdInv
  BY SMTT(30) DEF PoolInv
<1>1. /\ fd2pageno \in [Files -> 1 .. MaxPages] /\ fd2pageno[fd] < MaxPages /\ MaxPages \in Nat
      /\ fd2pageno' = [fd2pageno EXCEPT ![fd] = fd2pageno[fd] + 1]
  BY <1>0, PoolAssumption DEF new_page, TypeOK
<1>2. fd2pageno[fd] \in 0 .. MaxPages - 1
  BY <1>1
<1>3. p \in PageId /\ p[1] = fd /\ p[2] = fd2pageno[fd]
  BY <1>2 DEF PageId
<1>4. ~(p[2] < fd2pageno[p[1]])
  BY <1>2, <1>3, SMTT(30)
<1>5. ~InPool(p)
  BY <1>0, <1>3, <1>4, SMTT(30) DEF TableInv
<1>6. fd2pageno' \in [Files -> 1 .. MaxPages] /\ fd2pageno'[fd] = fd2pageno[fd] + 1
      /\ \A g \in Files : g # fd => fd2pageno'[g] = fd2pageno[g]
  BY <1>1
<1>7. ASSUME NEW q \in PageId, q # p  PROVE q[2] < fd2pageno'[q[1]] <=> q[2] < fd2pageno[q[1]]
  <2>1. q = <<q[1], q[2]>> /\ q[1] \in Files /\ q[2] \in Int
    BY DEF PageId
  <2>2. q[1] = fd => q[2] # fd2pageno[fd]
    BY <1>7, <2>1
  <2>3. fd2pageno[fd] \in Int
    BY <1>2
  <2> QED
    BY <1>6, <2>1, <2>2, <2>3
<1>8. p[2] < fd2pageno'[p[1]]
  BY <1>2, <1>3, <1>6
<1> QED
  BY <1>3, <1>5, <1>6, <1>7, <1>8

\* new_page.
LEMMA NewPageInv ==
  ASSUME CountLaws, PoolInv, NEW c \in Clients, NEW fd \in Files, new_page(c, fd), ~stale'
  PROVE  PoolInv' /\ LoadStep(c, <<fd, fd2pageno[fd]>>, Zero, TRUE)
<1> DEFINE p == <<fd, fd2pageno[fd]>>
<1>1. HasVictim /\ Load(Victim, p, Zero) /\ Hold(c, p, Victim.frame, TRUE)
  BY Zenon DEF new_page
<1>2. /\ p \in PageId /\ ~InPool(p) /\ p[2] < fd2pageno'[p[1]]
      /\ fd2pageno' \in [Files -> 1 .. MaxPages]
      /\ \A q \in PageId : q # p => (q[2] < fd2pageno'[q[1]] <=> q[2] < fd2pageno[q[1]])
  BY NewPageFacts
<1> HIDE DEF p
<1>3. Zero \in Values
  BY PoolAssumption, SMTT(20)
<1>4. LoadStep(c, p, Zero, TRUE)
  BY <1>1, <1>2, Zenon DEF LoadStep
<1> QED
  BY <1>2, <1>3, <1>4, LoadInv, Zenon DEF p

\* A page of the file is in the pool or on disk, so that read_page does not throw.
LEMMA NoThrow ==
  ASSUME PoolInv, NEW c \in Clients, NEW p \in PageId, fetch_page_throws(c, p)
  PROVE  FALSE
<1>1. TypeOK /\ TableInv /\ IdInv /\ ListInv /\ DiskInv
  BY SMTT(30) DEF PoolInv
<1>2. /\ ~InPool(p) /\ p[2] < fd2pageno[p[1]] /\ HasVictim /\ WriteBack(Victim.frame)[p] = NoPage
      /\ disk' = WriteBack(Victim.frame)
  BY SMTT(30) DEF fetch_page_throws, Misses, Assign
<1>3. Victim.frame \in Frames
  BY <1>1, <1>2, VictimIsUnused
<1>4. Victim.frame # NoFrame
  BY <1>3, PoolAssumption, SMTT(30) DEF Frames, NoFrame
<1>5. WriteBack(Victim.frame)[p] = disk[p]
  BY <1>2, <1>3, <1>4, Eviction, SMTT(30) DEF InPool
<1> QED
  BY <1>1, <1>2, <1>5 DEF DiskInv

\* The frames that delete_all_page puts on free_list_, in some order.
LEMMA ExtendList ==
  ASSUME NEW S, NEW T \in SUBSET S, NEW s \in Seq(S), Distinct(s), T \cap Range(s) = {},
         NEW n \in Nat, NEW t \in Bijection(1 .. n, T)
  PROVE  /\ s \o t \in Seq(S) /\ Distinct(s \o t)
         /\ Range(s \o t) = Range(s) \cup T
<1>1. /\ t \in [1 .. n -> T] /\ \A i, j \in 1 .. n : t[i] = t[j] => i = j
      /\ \A x \in T : \E i \in 1 .. n : t[i] = x
  BY DEF Bijection, Injection, Surjection, IsInjective
<1>2. t \in Seq(T) /\ t \in Seq(S) /\ Len(t) = n
  BY <1>1, SMTT(30)
<1> DEFINE u == s \o t
<1>3. /\ Len(s) \in Nat /\ DOMAIN s = 1 .. Len(s) /\ u \in Seq(S) /\ Len(u) = Len(s) + n
      /\ DOMAIN u = 1 .. Len(s) + n
      /\ \A i \in 1 .. Len(s) + n : u[i] = IF i <= Len(s) THEN s[i] ELSE t[i - Len(s)]
  BY <1>2, SMTT(30)
<1> HIDE DEF u
<1>4. \A i \in 1 .. Len(s) : s[i] \in Range(s) /\ s[i] \notin T
  BY <1>3, SMTT(30) DEF Range
<1>5. Distinct(u)
  <2>1. SUFFICES ASSUME NEW i \in 1 .. Len(s) + n, NEW j \in 1 .. Len(s) + n, u[i] = u[j]
                 PROVE  i = j
    BY <1>3, SMTT(30) DEF Distinct
  <2>2. CASE i <= Len(s) /\ j <= Len(s)
    BY <1>3, <2>1, <2>2, SMTT(30) DEF Distinct
  <2>3. CASE i > Len(s) /\ j > Len(s)
    <3>1. i - Len(s) \in 1 .. n /\ j - Len(s) \in 1 .. n /\ u[i] = t[i - Len(s)] /\ u[j] = t[j - Len(s)]
      BY <1>3, <2>3, SMTT(30)
    <3>2. i - Len(s) = j - Len(s)
      BY <1>1, <2>1, <3>1, Zenon
    <3> QED
      BY <1>3, <3>2, SMTT(30)
  <2>4. CASE i <= Len(s) /\ j > Len(s)
    <3>1. u[i] = s[i] /\ i \in 1 .. Len(s) /\ j - Len(s) \in 1 .. n /\ u[j] = t[j - Len(s)]
      BY <1>3, <2>4
    <3> QED
      BY <1>1, <1>4, <2>1, <3>1, ZenonT(30)
  <2>5. CASE i > Len(s) /\ j <= Len(s)
    <3>1. u[j] = s[j] /\ j \in 1 .. Len(s) /\ i - Len(s) \in 1 .. n /\ u[i] = t[i - Len(s)]
      BY <1>3, <2>5, SMTT(30)
    <3> QED
      BY <1>1, <1>4, <2>1, <3>1, SMTT(30)
  <2> QED
    BY <1>3, <2>2, <2>3, <2>4, <2>5, SMTT(30)
<1>6. ASSUME NEW x \in Range(u)  PROVE x \in Range(s) \cup T
  <2>1. PICK i \in 1 .. Len(s) + n : x = u[i]
    BY <1>3, <1>6, SMTT(30) DEF Range
  <2>2. CASE i <= Len(s)
    BY <1>3, <1>4, <2>1, <2>2, SMTT(30)
  <2>3. CASE i > Len(s)
    <3>1. i - Len(s) \in 1 .. n /\ x = t[i - Len(s)]
      BY <1>3, <2>1, <2>3, SMTT(30)
    <3> QED
      BY <1>1, <3>1, SMTT(30)
  <2> QED
    BY <1>3, <2>2, <2>3, SMTT(30)
<1>7. ASSUME NEW x \in Range(s)  PROVE x \in Range(u)
  <2>1. PICK i \in 1 .. Len(s) : x = s[i]
    BY <1>3, <1>7, SMTT(30) DEF Range
  <2>2. i \in DOMAIN u /\ u[i] = x
    BY <1>3, <2>1
  <2> QED
    BY <2>2, Zenon DEF Range
<1>8. ASSUME NEW x \in T  PROVE x \in Range(u)
  <2>1. PICK i \in 1 .. n : t[i] = x
    BY <1>1, SMTT(30)
  <2>2. Len(s) + i \in DOMAIN u /\ u[Len(s) + i] = x
    BY <1>3, <2>1
  <2> QED
    BY <2>2, Zenon DEF Range
<1>9. Range(u) = Range(s) \cup T
  BY <1>6, <1>7, <1>8
<1> QED
  BY <1>3, <1>5, <1>9, SMTT(30) DEF u

\* What drop_table does to the pool, page by page.
DropEffect(fd, frames) ==
  /\ frames = {page_table[q] : q \in {q \in PageId : InPool(q) /\ q[1] = fd}}
  /\ frames \subseteq Frames /\ \A f \in frames : pages[f].pin = 0 /\ Users(f) = {}
  /\ \A q \in PageId : InPool(q) => (page_table[q] \in frames <=> q[1] = fd)
  /\ pages' = [f \in Frames |-> [pages[f] EXCEPT !.dirty = @ /\ f \notin frames]]
  /\ page_table' = [q \in PageId |-> IF q[1] = fd THEN NoFrame ELSE page_table[q]]
  /\ free_list' \in Seq(Frames) /\ Distinct(free_list')
  /\ Range(free_list') = Range(free_list) \cup frames
  /\ disk' = [q \in PageId |-> IF q[1] # fd THEN disk[q] ELSE IF q[2] = 0 THEN Zero ELSE NoPage]
  /\ fd2pageno' = [fd2pageno EXCEPT ![fd] = 1]
  /\ UNCHANGED <<lru, held, stale>>

\* drop_table takes the pages of one file out of the pool, and no other; nobody uses them.
LEMMA DropFacts ==
  ASSUME CountLaws, PoolInv, NEW fd \in Files, drop_table(fd)
  PROVE  \E frames \in SUBSET Frames : DropEffect(fd, frames)
<1> DEFINE cached == {q \in PageId : InPool(q) /\ q[1] = fd}
           frames == {page_table[q] : q \in cached}
<1>0. TypeOK /\ TableInv /\ PinInv /\ ListInv
  BY DEF PoolInv
<1>1. /\ \A f \in frames : pages[f].pin = 0
      /\ pages' = [f \in Frames |-> [pages[f] EXCEPT !.dirty = @ /\ f \notin frames]]
      /\ page_table' = [q \in PageId |-> IF q \in cached THEN NoFrame ELSE page_table[q]]
      /\ \E order \in Bijection(1 .. Cardinality(frames), frames) : free_list' = free_list \o order
      /\ disk' = [q \in PageId |-> IF q[1] # fd THEN disk[q] ELSE IF q[2] = 0 THEN Zero ELSE NoPage]
      /\ fd2pageno' = [fd2pageno EXCEPT ![fd] = 1]
      /\ UNCHANGED <<lru, held, stale>>
  BY Zenon DEF drop_table
<1>2. frames \in SUBSET Frames
  BY <1>0, SMTT(30) DEF TypeOK, InPool
<1>3. frames \cap Range(free_list) = {}
  BY <1>0, SMTT(30) DEF TableInv
<1>4. \A q \in PageId : InPool(q) => (page_table[q] \in frames <=> q[1] = fd)
  BY <1>0 DEF TableInv
<1>5. page_table' = [q \in PageId |-> IF q[1] = fd THEN NoFrame ELSE page_table[q]]
  BY <1>1, SMTT(30) DEF InPool
<1>6. Cardinality(frames) \in Nat
  <2>1. IsFiniteSet(Frames)
    BY PoolAssumption, FS_Interval, SMTT(30) DEF Frames
  <2> QED
    BY <1>2, <2>1, FS_Subset, FS_CardinalityType, SMTT(30)
<1>7. frames = {page_table[q] : q \in {q \in PageId : InPool(q) /\ q[1] = fd}}
  OBVIOUS
<1> HIDE DEF frames
<1>8. PICK order \in Bijection(1 .. Cardinality(frames), frames) : free_list' = free_list \o order
  BY <1>1, Zenon
<1>9. /\ free_list' \in Seq(Frames) /\ Distinct(free_list')
      /\ Range(free_list') = Range(free_list) \cup frames
  <2>1. free_list \in Seq(Frames) /\ Distinct(free_list)
    BY <1>0 DEF TypeOK, ListInv
  <2> QED
    BY <1>2, <1>3, <1>6, <1>8, <2>1, ExtendList, ZenonT(30)
<1>10. \A f \in frames : Users(f) = {}
  BY <1>0, <1>1, <1>2, UsersAreCounted, SMTT(30) DEF PinInv
<1>11. DropEffect(fd, frames)
  BY <1>1, <1>2, <1>4, <1>5, <1>7, <1>9, <1>10, Zenon DEF DropEffect
<1> QED
  BY <1>2, <1>11

\* drop_table: the frames of the file go to free_list_ and keep their ids.
LEMMA DropInv ==
  ASSUME CountLaws, PoolInv, NEW fd \in Files, drop_table(fd)
  PROVE  PoolInv'
<1> DEFINE R == [id : PageId \cup {InvalidId}, data : Values, dirty : BOOLEAN, pin : Nat]
<1>0. TypeOK /\ TableInv /\ IdInv /\ HandleInv /\ PinInv /\ ListInv /\ CleanInv /\ DiskInv
  BY DEF PoolInv
<1>f. PICK frames \in SUBSET Frames : DropEffect(fd, frames)
  BY DropFacts
<1>1. /\ pages' = [f \in Frames |-> [pages[f] EXCEPT !.dirty = @ /\ f \notin frames]]
      /\ \A q \in PageId : page_table'[q] = IF q[1] = fd THEN NoFrame ELSE page_table[q]
      /\ \A f \in frames : pages[f].pin = 0 /\ Users(f) = {}
      /\ \A q \in PageId : InPool(q) => (page_table[q] \in frames <=> q[1] = fd)
      /\ free_list' \in Seq(Frames) /\ Distinct(free_list')
      /\ Range(free_list') = Range(free_list) \cup frames
      /\ UNCHANGED <<lru, held, stale>>
  BY <1>f, SMTT(30) DEF DropEffect
<1>2. \A q \in PageId : q[1] \in Files /\ q[2] \in 0 .. MaxPages - 1
  BY DEF PageId
<1>3. /\ fd2pageno' \in [Files -> 1 .. MaxPages] /\ fd2pageno'[fd] = 1
      /\ \A g \in Files : g # fd => fd2pageno'[g] = fd2pageno[g]
  <2>1. fd2pageno' = [fd2pageno EXCEPT ![fd] = 1] /\ fd2pageno \in [Files -> 1 .. MaxPages]
    BY <1>0, <1>f, SMTT(30) DEF DropEffect, TypeOK
  <2>2. 1 \in 1 .. MaxPages
    BY PoolAssumption, SMTT(30)
  <2> QED
    BY <2>1, <2>2, SMTT(30)
<1>4. /\ disk' \in [PageId -> Values \cup {NoPage}]
      /\ \A q \in PageId : q[1] # fd => disk'[q] = disk[q]
      /\ \A q \in PageId : q[1] = fd /\ q[2] = 0 => disk'[q] = Zero
  BY <1>0, <1>f, PoolAssumption, SMTT(30) DEF DropEffect, TypeOK
<1>5. \A f \in Frames : /\ pages'[f].id = pages[f].id /\ pages'[f].pin = pages[f].pin
                        /\ pages'[f].data = pages[f].data
                        /\ pages'[f].dirty = (pages[f].dirty /\ f \notin frames)
                        /\ pages'[f] \in R
  <2>1. SUFFICES ASSUME NEW f \in Frames
                 PROVE  /\ pages'[f].id = pages[f].id /\ pages'[f].pin = pages[f].pin
                        /\ pages'[f].data = pages[f].data
                        /\ pages'[f].dirty = (pages[f].dirty /\ f \notin frames)
                        /\ pages'[f] \in R
    BY Zenon
  <2>2. pages[f] \in R
    BY <1>0 DEF TypeOK
  <2>3. pages'[f] = [pages[f] EXCEPT !.dirty = pages[f].dirty /\ f \notin frames]
    BY <1>1
  <2>4. (pages[f].dirty /\ f \notin frames) \in BOOLEAN
    BY Zenon
  <2> QED
    BY <2>2, <2>3, <2>4, Zenon
<1>6. TypeOK'
  <2>1. pages' \in [Frames -> R]
    <3> HIDE DEF R
    <3> QED
      BY <1>1, <1>5, SMTT(30)
  <2>2. page_table' \in [PageId -> Frames \cup {NoFrame}]
    BY <1>0, <1>f, SMTT(30) DEF TypeOK, DropEffect
  <2> QED
    BY <1>0, <1>1, <1>3, <1>4, <2>1, <2>2, SMTT(30) DEF TypeOK
<1>7. ASSUME NEW q \in PageId, page_table'[q] # NoFrame
      PROVE  /\ q[1] # fd /\ page_table'[q] = page_table[q] /\ InPool(q)
             /\ page_table[q] \in Frames /\ page_table[q] \notin frames
             /\ disk'[q] = disk[q] /\ fd2pageno'[q[1]] = fd2pageno[q[1]]
  <2>1. q[1] # fd /\ page_table'[q] = page_table[q] /\ InPool(q)
    BY <1>1, <1>7, SMTT(30) DEF InPool
  <2>2. page_table[q] \in Frames
    BY <1>0, <2>1, SMTT(30) DEF TypeOK, InPool
  <2> QED
    BY <1>1, <1>2, <1>3, <1>4, <2>1, <2>2, SMTT(30)
<1>8. TableInv'
  BY <1>0, <1>1, <1>5, <1>7, SMTT(30) DEF TableInv, InPool
<1>9. IdInv'
  <2>1. ASSUME NEW g \in Frames, pages'[g].id \in PageId, page_table'[pages'[g].id] # NoFrame
        PROVE  page_table'[pages'[g].id] = g
    <3>1. pages'[g].id = pages[g].id
      BY <1>5, Zenon
    <3>2. /\ page_table'[pages[g].id] = page_table[pages[g].id] /\ InPool(pages[g].id)
          /\ pages[g].id \in PageId
      BY <1>7, <2>1, <3>1, Zenon
    <3>3. page_table[pages[g].id] = g
      BY <1>0, <3>2, Zenon DEF IdInv
    <3> QED
      BY <3>1, <3>2, <3>3, Zenon
  <2>2. ASSUME NEW g \in Frames, pages'[g].dirty
        PROVE  pages'[g].id \in PageId /\ page_table'[pages'[g].id] = g
    <3>1. pages[g].dirty /\ g \notin frames
      BY <1>5, <2>2, ZenonT(30)
    <3>2. pages[g].id \in PageId /\ page_table[pages[g].id] = g
      BY <1>0, <3>1, SMTT(30) DEF IdInv
    <3>3. g # NoFrame
      BY PoolAssumption DEF Frames, NoFrame
    <3>4. pages[g].id[1] # fd
      BY <1>1, <3>1, <3>2, <3>3, SMTT(30) DEF InPool
    <3> QED
      BY <1>1, <1>5, <3>2, <3>4
  <2> QED
    BY <2>1, <2>2, SMTT(30) DEF IdInv, InPool
<1>10. HandleInv'
  <2>1. ASSUME NEW c \in Clients, NEW h \in held[c]  PROVE page_table'[h.page] = h.frame
    <3>1. h.page \in PageId /\ h.frame \in Frames /\ page_table[h.page] = h.frame /\ InPool(h.page)
      BY <1>0, HandleFacts, ZenonT(30)
    <3>2. h.frame \notin frames
      BY <1>1, SMTT(30) DEF Users
    <3> QED
      BY <1>1, <3>1, <3>2, SMTT(30)
  <2> QED
    BY <1>0, <1>1, <2>1, SMTT(30) DEF HandleInv
<1>11. PinInv'
  <2>1. \A g \in Frames : Users(g)' = Users(g)
    BY <1>1, SMTT(30) DEF Users
  <2> QED
    BY <1>0, <1>5, <2>1, ZenonT(30) DEF PinInv
<1>12. ListInv'
  <2>1. ASSUME NEW g \in Frames
        PROVE  g \in Range(free_list') \cup Range(lru) <=> pages'[g].pin = 0
    BY <1>0, <1>1, <1>5, SMTT(20) DEF ListInv
  <2> QED
    BY <1>0, <1>1, <2>1, SMTT(30) DEF ListInv
<1>13. CleanInv'
  <2>1. SUFFICES ASSUME NEW q \in PageId, page_table'[q] # NoFrame
                 PROVE  \/ pages'[page_table'[q]].dirty
                        \/ \E d \in Clients : \E h \in held[d] : h.frame = page_table'[q] /\ h.wrote
                        \/ pages'[page_table'[q]].data = disk'[q]
    BY <1>1, ZenonT(30) DEF CleanInv, InPool
  <2>2. /\ page_table'[q] = page_table[q] /\ InPool(q)
        /\ page_table[q] \in Frames /\ page_table[q] \notin frames
    BY <1>7, <2>1, Zenon
  <2>3. /\ pages'[page_table[q]].data = pages[page_table[q]].data
        /\ pages[page_table[q]].dirty => pages'[page_table[q]].dirty
    <3> DEFINE f == page_table[q]
    <3>1. f \in Frames /\ f \notin frames
      BY <2>2, Zenon
    <3>2. pages'[f].data = pages[f].data /\ pages'[f].dirty = (pages[f].dirty /\ f \notin frames)
      <4> HIDE DEF f
      <4> QED
        BY <1>5, <3>1, Zenon
    <3>3. pages[f].dirty => pages'[f].dirty
      <4> HIDE DEF f
      <4> QED
        BY <3>1, <3>2, Zenon
    <3> QED
      BY <3>2, <3>3, Zenon
  <2>4. disk'[q] = disk[q]
    BY <1>7, <2>1, Zenon
  <2>5. \/ pages[page_table[q]].dirty
        \/ \E d \in Clients : \E h \in held[d] : h.frame = page_table[q] /\ h.wrote
        \/ pages[page_table[q]].data = disk[q]
    BY <1>0, <2>2, Zenon DEF CleanInv
  <2> QED
    BY <2>2, <2>3, <2>4, <2>5, Zenon
<1>14. DiskInv'
  <2>1. SUFFICES ASSUME NEW q \in PageId, q[2] < fd2pageno'[q[1]], page_table'[q] = NoFrame
                 PROVE  disk'[q] # NoPage
    BY SMTT(30) DEF DiskInv, InPool
  <2>2. CASE q[1] = fd
    <3>1. q[2] = 0
      BY <1>2, <1>3, <2>1, <2>2
    <3> QED
      BY <1>4, <2>2, <3>1, PoolAssumption, ContentAssumption
  <2>3. CASE q[1] # fd
    BY <1>0, <1>1, <1>2, <1>3, <1>4, <2>1, <2>3 DEF DiskInv, InPool
  <2> QED
    BY <2>2, <2>3, SMTT(30)
<1> QED
  BY <1>6, <1>8, <1>9, <1>10, <1>11, <1>12, <1>13, <1>14, SMTT(30) DEF PoolInv

\* Every step preserves the invariant, until a page is loaded while another frame keeps its id_.
LEMMA NextInv ==
  ASSUME CountLaws, PoolInv, [Next]_vars, ~stale'
  PROVE  PoolInv'
<1>1. ASSUME NEW c \in Clients, NEW p \in PageId, fetch_page_hit(c, p)  PROVE PoolInv'
  BY <1>1, HitInv
<1>2. ASSUME NEW c \in Clients, NEW p \in PageId, fetch_page_miss(c, p)  PROVE PoolInv'
  BY <1>2, MissInv, Zenon
<1>3. ASSUME NEW c \in Clients, NEW fd \in Files, new_page(c, fd)  PROVE PoolInv'
  BY <1>3, NewPageInv, Zenon
<1>4. ASSUME NEW c \in Clients, NEW h \in held[c], NEW x \in Values, Write(c, h, x)  PROVE PoolInv'
  BY <1>4, WriteInv
<1>5. ASSUME NEW c \in Clients, NEW h \in held[c], NEW is_dirty \in BOOLEAN, unpin_page(c, h, is_dirty)
      PROVE  PoolInv'
  BY <1>5, UnpinInv
<1>6. ASSUME NEW p \in PageId, flush_page(p)  PROVE PoolInv'
  BY <1>6, FlushInv DEF flush_page
<1>7. ASSUME NEW fd \in Files, flush_all_pages(fd)  PROVE PoolInv'
  BY <1>7, FlushInv DEF flush_all_pages
<1>8. CASE flush_all_page
  BY <1>8, FlushInv DEF flush_all_page
<1>9. ASSUME NEW p \in PageId, delete_page(p)  PROVE PoolInv'
  BY <1>9, DeleteInv
<1>10. ASSUME NEW fd \in Files, drop_table(fd)  PROVE PoolInv'
  BY <1>10, DropInv
<1>11. ASSUME NEW c \in Clients, NEW p \in PageId, fetch_page_throws(c, p)  PROVE PoolInv'
  BY <1>11, NoThrow, Zenon
<1>12. CASE UNCHANGED vars
  <2>1. UNCHANGED <<pages, page_table, free_list, lru, disk, fd2pageno, held, stale>>
    BY <1>12 DEF vars, poolVars
  <2>2. TypeOK'
    BY <2>1, SMTT(20) DEF PoolInv, TypeOK
  <2>3. TableInv' /\ IdInv' /\ HandleInv' /\ CleanInv' /\ DiskInv'
    BY <2>1 DEF PoolInv, TableInv, IdInv, HandleInv, CleanInv, DiskInv, InPool
  <2>4. PinInv' /\ ListInv'
    BY <2>1 DEF PoolInv, PinInv, ListInv, Users
  <2> QED
    BY <2>2, <2>3, <2>4 DEF PoolInv
<1> QED
  BY <1>1, <1>2, <1>3, <1>4, <1>5, <1>6, <1>7, <1>8, <1>9, <1>10, <1>11, <1>12, Zenon DEF Next

\* A page that was loaded while another frame kept its id_ is not forgotten.
LEMMA StaleStays ==
  ASSUME [Next]_vars, stale
  PROVE  stale'
<1>1. ASSUME NEW c \in Clients, NEW p \in PageId,
             fetch_page_hit(c, p) \/ fetch_page_miss(c, p) \/ fetch_page_throws(c, p)
      PROVE  stale'
  BY <1>1, Zenon DEF fetch_page_hit, fetch_page_miss, fetch_page_throws, Load, Assign
<1>2. ASSUME NEW c \in Clients, NEW fd \in Files, new_page(c, fd)  PROVE stale'
  BY <1>2, Zenon DEF new_page, Load, Assign
<1>3. ASSUME NEW c \in Clients, NEW h \in held[c],
             \/ \E x \in Values : Write(c, h, x)
             \/ \E is_dirty \in BOOLEAN : unpin_page(c, h, is_dirty)
      PROVE  stale'
  BY <1>3 DEF Write, unpin_page
<1>4. ASSUME NEW p \in PageId, flush_page(p) \/ delete_page(p)  PROVE stale'
  BY <1>4 DEF flush_page, flush, delete_page
<1>5. ASSUME NEW fd \in Files, flush_all_pages(fd) \/ drop_table(fd)  PROVE stale'
  BY <1>5 DEF flush_all_pages, flush, drop_table
<1>6. CASE flush_all_page
  BY <1>6 DEF flush_all_page, flush
<1>7. CASE UNCHANGED vars
  BY <1>7 DEF vars
<1> QED
  BY <1>1, <1>2, <1>3, <1>4, <1>5, <1>6, <1>7, Zenon DEF Next

\* In a state of the invariant, a page stays in the frame of its users.
LEMMA InvPinned ==
  ASSUME PoolInv
  PROVE  PinsHold
<1>1. TypeOK /\ TableInv /\ HandleInv /\ PinInv
  BY DEF PoolInv
<1>2. SUFFICES ASSUME NEW c \in Clients, NEW h \in held[c]
               PROVE  /\ page_table[h.page] = h.frame
                      /\ pages[h.frame].id = h.page
                      /\ pages[h.frame].pin =
                           Cardinality({d \in Clients : \E g \in held[d] : g.page = h.page})
  BY DEF PinsHold
<1>3. \A d \in Clients : \A g \in held[d] :
        g.frame \in Frames /\ page_table[g.page] = g.frame /\ pages[g.frame].id = g.page
  BY <1>1, HandleFacts
<1>4. Users(h.frame) = {d \in Clients : \E g \in held[d] : g.page = h.page}
  BY <1>3 DEF Users
<1> QED
  BY <1>1, <1>3, <1>4, Zenon DEF PinInv

\* In a state of the invariant, the victims are the frames with pin_count_ 0.
LEMMA InvVictims ==
  ASSUME PoolInv
  PROVE  VictimsAreUnused
  BY DEF PoolInv, ListInv, VictimsAreUnused

-----------------------------------------------------------------------------
(* Every operation of the buffer pool is a step of the store of pages (PageStore), or *)
(* changes nothing there, in the states of PoolInv.                                   *)

\* What a client reads in one page.
LEMMA ContentOf ==
  ASSUME NEW p \in PageId
  PROVE  Content[p] = IF p[2] >= fd2pageno[p[1]] THEN NoPage
                      ELSE IF InPool(p) THEN pages[page_table[p]].data ELSE disk[p]
  BY DEF Content

\* Page numbers are integers.
LEMMA PageNumbers ==
  ASSUME NEW p \in PageId, NEW next \in [Files -> 1 .. MaxPages]
  PROVE  p[1] \in Files /\ p[2] \in Int /\ next[p[1]] \in Int
<1>1. MaxPages \in Nat
  BY PoolAssumption
<1>2. p[1] \in Files /\ p[2] \in 0 .. MaxPages - 1
  BY DEF PageId
<1>3. next[p[1]] \in 1 .. MaxPages
  BY <1>2
<1> QED
  BY <1>1, <1>2, <1>3

\* A page of the pool exists, and its content is that of its frame.
LEMMA PoolContent ==
  ASSUME PoolInv, NEW p \in PageId
  PROVE  /\ InPool(p) => /\ Content[p] = pages[page_table[p]].data /\ Content[p] \in Values
                         /\ Content[p] # NoPage
         /\ Content[p] \in Values \cup {NoPage}
<1>1. TypeOK /\ TableInv
  BY DEF PoolInv
<1>2. p[1] \in Files /\ p[2] \in Int /\ fd2pageno[p[1]] \in Int
  BY <1>1, PageNumbers DEF TypeOK
<1>3. InPool(p) => pages[page_table[p]].data \in Values
  BY <1>1 DEF TypeOK, InPool
<1>4. InPool(p) => ~(p[2] >= fd2pageno[p[1]])
  BY <1>1, <1>2 DEF TableInv
<1>5. disk[p] \in Values \cup {NoPage}
  BY <1>1 DEF TypeOK
<1> QED
  BY <1>3, <1>4, <1>5, ContentOf, ContentAssumption

\* A frame that is given away costs no page its content.
LEMMA LoadContent ==
  ASSUME CountLaws, PoolInv, NEW c \in Clients, NEW p \in PageId, NEW data \in Values, NEW wrote \in BOOLEAN,
         LoadStep(c, p, data, wrote), ~stale'
  PROVE  /\ Content' = [Content EXCEPT ![p] = data]
         /\ PageUsers' = [PageUsers EXCEPT ![c] = PageUsers[c] \cup {p}]
         /\ disk'[p] = disk[p]
<1>f. PICK f \in Frames : LoadEffect(c, p, data, wrote, f)
  BY LoadFacts
<1> DEFINE new == [page |-> p, frame |-> f, wrote |-> wrote]
           Exists(q) == ~(q[2] >= fd2pageno[q[1]])
<1>0. TypeOK /\ CleanInv
  BY DEF PoolInv
<1>1. f \in Frames /\ f # NoFrame /\ Users(f) = {} /\ page_table[p] = NoFrame
  BY <1>f DEF LoadEffect
<1>2. \A q \in PageId : disk'[q] = IF page_table[q] = f /\ pages[f].dirty THEN pages[f].data ELSE disk[q]
  BY <1>f DEF LoadEffect
<1>3. /\ pages' = [pages EXCEPT ![f] = [id |-> p, data |-> data, dirty |-> FALSE, pin |-> 1]]
      /\ held' = [held EXCEPT ![c] = held[c] \cup {new}]
      /\ page_table' = [q \in PageId |-> IF q = p THEN f
                                         ELSE IF page_table[q] = f THEN NoFrame ELSE page_table[q]]
  BY <1>f DEF LoadEffect
<1>4. disk'[p] = disk[p]
  BY <1>1, <1>2
<1>5. pages'[f].data = data /\ \A g \in Frames : g # f => pages'[g] = pages[g]
  BY <1>0, <1>1, <1>3 DEF TypeOK
<1>6. ASSUME NEW q \in PageId
      PROVE  /\ q = p => Exists(q)'
             /\ q # p => (Exists(q)' <=> Exists(q))
  <2>1. q[2] \in Int /\ fd2pageno[q[1]] \in Int
    BY <1>0, PageNumbers DEF TypeOK
  <2>2. fd2pageno'[q[1]] \in Int
    BY PageNumbers DEF LoadStep
  <2>3. q = p => q[2] < fd2pageno'[q[1]]
    BY DEF LoadStep
  <2>4. q # p => (q[2] < fd2pageno'[q[1]] <=> q[2] < fd2pageno[q[1]])
    BY DEF LoadStep
  <2> QED
    BY <2>1, <2>2, <2>3, <2>4
<1>7. ASSUME NEW q \in PageId
      PROVE  /\ Content[q] = IF ~Exists(q) THEN NoPage
                             ELSE IF page_table[q] # NoFrame THEN pages[page_table[q]].data ELSE disk[q]
             /\ Content'[q] = IF ~Exists(q)' THEN NoPage
                              ELSE IF page_table'[q] # NoFrame THEN pages'[page_table'[q]].data ELSE disk'[q]
  BY DEF Content, InPool
<1> HIDE DEF Exists
<1>8. Content'[p] = data
  <2>1. page_table'[p] = f
    BY <1>3
  <2> QED
    BY <1>1, <1>5, <1>6, <1>7, <2>1
<1>9. ASSUME NEW q \in PageId, q # p  PROVE Content'[q] = Content[q]
  <2>1. page_table'[q] = IF page_table[q] = f THEN NoFrame ELSE page_table[q]
    BY <1>3, <1>9
  <2>2. CASE page_table[q] = f
    <3>1. pages[f].dirty \/ pages[f].data = disk[q]
      BY <1>0, <1>1, <2>2 DEF CleanInv, InPool, Users
    <3>2. page_table'[q] = NoFrame /\ disk'[q] = pages[f].data
      BY <1>2, <2>1, <2>2, <3>1
    <3> QED
      BY <1>1, <1>6, <1>7, <1>9, <2>2, <3>2
  <2>3. CASE page_table[q] # f
    <3>1. page_table'[q] = page_table[q] /\ disk'[q] = disk[q]
      BY <1>2, <2>1, <2>3
    <3>2. page_table[q] # NoFrame => pages'[page_table[q]] = pages[page_table[q]]
      BY <1>0, <1>5, <2>3 DEF TypeOK
    <3> QED
      BY <1>6, <1>7, <1>9, <3>1, <3>2
  <2> QED
    BY <2>2, <2>3
<1>10. Content' = [Content EXCEPT ![p] = data]
  <2>1. Content = [q \in PageId |-> Content[q]] /\ Content' = [q \in PageId |-> Content'[q]]
    BY DEF Content
  <2> QED
    BY <1>8, <1>9, <2>1
<1>11. PageUsers' = [PageUsers EXCEPT ![c] = PageUsers[c] \cup {p}]
  <2>1. \A d \in Clients : held'[d] = IF d = c THEN held[c] \cup {new} ELSE held[d]
    BY <1>0, <1>3 DEF TypeOK
  <2>2. new.page = p
    OBVIOUS
  <2> HIDE DEF new
  <2>3. {h.page : h \in held[c] \cup {new}} = {h.page : h \in held[c]} \cup {p}
    BY <2>2
  <2> QED
    BY <2>1, <2>3, Zenon DEF PageUsers
<1> QED
  BY <1>4, <1>10, <1>11

\* fetch_page of a page in the pool is a fetch of the store.
LEMMA HitRefines ==
  ASSUME PoolInv, NEW c \in Clients, NEW p \in PageId, fetch_page_hit(c, p)
  PROVE  Store!Fetch(c, p)
<1> DEFINE f == page_table[p]
           new == [page |-> p, frame |-> f, wrote |-> FALSE]
<1>0. TypeOK
  BY DEF PoolInv
<1>1. /\ InPool(p) /\ pages' = [pages EXCEPT ![f].pin = pages[f].pin + 1]
      /\ held' = [held EXCEPT ![c] = held[c] \cup {new}]
      /\ UNCHANGED <<page_table, disk, fd2pageno, stale>>
  BY DEF fetch_page_hit, Hold
<1>2. \A g \in Frames : pages'[g].data = pages[g].data
  BY <1>0, <1>1 DEF TypeOK
<1>3. UNCHANGED Content
  <2>1. \A q \in PageId : InPool(q) => pages'[page_table[q]].data = pages[page_table[q]].data
    BY <1>0, <1>2 DEF TypeOK, InPool
  <2> QED
    BY <1>1, <2>1 DEF Content, InPool
<1>4. PageUsers' = [PageUsers EXCEPT ![c] = PageUsers[c] \cup {p}]
  <2>1. \A d \in Clients : held'[d] = IF d = c THEN held[c] \cup {new} ELSE held[d]
    BY <1>0, <1>1 DEF TypeOK
  <2>2. new.page = p
    OBVIOUS
  <2> HIDE DEF new
  <2>3. {h.page : h \in held[c] \cup {new}} = {h.page : h \in held[c]} \cup {p}
    BY <2>2
  <2> QED
    BY <2>1, <2>3, Zenon DEF PageUsers
<1>5. Content[p] # NoPage
  BY <1>1, PoolContent
<1> QED
  BY <1>3, <1>4, <1>5 DEF Store!Fetch

\* So is fetch_page of a page on disk, which evicts another page.
LEMMA MissRefines ==
  ASSUME CountLaws, PoolInv, NEW c \in Clients, NEW p \in PageId, fetch_page_miss(c, p), ~stale'
  PROVE  Store!Fetch(c, p)
<1>0. TypeOK
  BY DEF PoolInv
<1>1. ~InPool(p) /\ p[2] < fd2pageno[p[1]] /\ disk'[p] # NoPage
  BY DEF fetch_page_miss, Misses, Load, Assign
<1>2. /\ Content' = [Content EXCEPT ![p] = disk'[p]] /\ disk'[p] = disk[p]
      /\ PageUsers' = [PageUsers EXCEPT ![c] = PageUsers[c] \cup {p}]
  BY MissInv, LoadContent, Zenon
<1>3. Content[p] = disk[p]
  <2>1. fd2pageno \in [Files -> 1 .. MaxPages]
    BY <1>0, Zenon DEF TypeOK
  <2>2. p[2] \in Int /\ fd2pageno[p[1]] \in Int
    BY <2>1, PageNumbers, Zenon
  <2>3. ~(p[2] >= fd2pageno[p[1]])
    BY <1>1, <2>2, SMTT(30)
  <2> QED
    BY <1>1, <2>3, ContentOf, Zenon
<1>4. UNCHANGED Content
  BY <1>2, <1>3, Zenon DEF Content
<1> QED
  BY <1>1, <1>2, <1>3, <1>4 DEF Store!Fetch

\* new_page creates a page of zeros that did not exist.
LEMMA NewPageRefines ==
  ASSUME CountLaws, PoolInv, NEW c \in Clients, NEW fd \in Files, new_page(c, fd), ~stale'
  PROVE  \E p \in PageId : Store!Create(c, p)
<1> DEFINE p == <<fd, fd2pageno[fd]>>
<1>1. p \in PageId /\ p[1] = fd /\ p[2] = fd2pageno[fd]
  BY NewPageFacts
<1>2. LoadStep(c, p, Zero, TRUE) /\ Zero \in Values
  BY NewPageInv, PoolAssumption, Zenon
<1> HIDE DEF p
<1>3. /\ Content' = [Content EXCEPT ![p] = Zero]
      /\ PageUsers' = [PageUsers EXCEPT ![c] = PageUsers[c] \cup {p}]
  BY <1>1, <1>2, LoadContent, Zenon
<1>4. Content[p] = NoPage
  <2>1. p[2] >= fd2pageno[p[1]]
    BY <1>1, PageNumbers DEF PoolInv, TypeOK
  <2> QED
    BY <1>1, <2>1, ContentOf
<1>5. Store!Create(c, p)
  BY <1>3, <1>4 DEF Store!Create
<1> QED
  BY <1>1, <1>5

\* A write through a Page* changes the content of that page only.
LEMMA WriteRefines ==
  ASSUME PoolInv, NEW c \in Clients, NEW h \in held[c], NEW x \in Values, Write(c, h, x)
  PROVE  h.page \in PageId /\ Store!Write(c, h.page, x)
<1> DEFINE f == h.frame
           new == [h EXCEPT !.wrote = TRUE]
<1>0. TypeOK /\ TableInv /\ HandleInv
  BY DEF PoolInv
<1>1. /\ h.page \in PageId /\ f \in Frames /\ f # NoFrame /\ page_table[h.page] = f /\ pages[f].id = h.page
      /\ InPool(h.page) /\ h \in [page : PageId, frame : Frames, wrote : BOOLEAN]
  BY <1>0, HandleFacts DEF TypeOK
<1>2. new.page = h.page
  BY <1>1
<1>3. /\ pages' = [pages EXCEPT ![f].data = x]
      /\ held' = [held EXCEPT ![c] = (held[c] \ {h}) \cup {new}]
      /\ UNCHANGED <<page_table, disk, fd2pageno, stale>>
  BY DEF Write
<1> HIDE DEF f, new
<1>4. pages'[f].data = x /\ \A g \in Frames : g # f => pages'[g].data = pages[g].data
  BY <1>0, <1>1, <1>3 DEF TypeOK
<1>5. Content' = [Content EXCEPT ![h.page] = x]
  <2>1. Content = [q \in PageId |-> Content[q]] /\ Content' = [q \in PageId |-> Content'[q]]
    BY DEF Content
  <2>2. \A q \in PageId : q # h.page => Content'[q] = Content[q]
    <3>1. SUFFICES ASSUME NEW q \in PageId, q # h.page  PROVE Content'[q] = Content[q]
      OBVIOUS
    <3>2. InPool(q) => page_table[q] \in Frames /\ page_table[q] # f
      BY <1>0, <1>1, <3>1 DEF TypeOK, TableInv, InPool
    <3>3. InPool(q) => pages'[page_table[q]].data = pages[page_table[q]].data
      BY <1>4, <3>2
    <3> QED
      BY <1>3, <3>3 DEF Content, InPool
  <2>3. Content'[h.page] = x
    <3>1. ~(h.page[2] >= fd2pageno[h.page[1]])
      BY <1>0, <1>1, PageNumbers DEF TableInv, TypeOK
    <3> QED
      BY <1>1, <1>3, <1>4, <3>1 DEF Content, InPool
  <2> QED
    BY <2>1, <2>2, <2>3
<1>6. UNCHANGED PageUsers
  <2>1. \A d \in Clients : held'[d] = IF d = c THEN (held[c] \ {h}) \cup {new} ELSE held[d]
    BY <1>0, <1>3 DEF TypeOK
  <2>2. {k.page : k \in (held[c] \ {h}) \cup {new}} = {k.page : k \in held[c]}
    BY <1>2
  <2> QED
    BY <2>1, <2>2 DEF PageUsers
<1>7. h.page \in PageUsers[c]
  BY DEF PageUsers
<1> QED
  BY <1>1, <1>5, <1>6, <1>7 DEF Store!Write

\* unpin_page ends the use of one page.
LEMMA UnpinRefines ==
  ASSUME CountLaws, PoolInv, NEW c \in Clients, NEW h \in held[c], NEW is_dirty \in BOOLEAN,
         unpin_page(c, h, is_dirty)
  PROVE  h.page \in PageId /\ Store!Unpin(c, h.page)
<1>0. TypeOK /\ TableInv /\ HandleInv
  BY DEF PoolInv
<1>1. /\ held' = [held EXCEPT ![c] = held[c] \ {h}]
      /\ UNCHANGED <<page_table, disk, fd2pageno, stale>>
  BY DEF unpin_page
<1>2. \A g \in Frames : pages'[g].data = pages[g].data
  BY UnpinStep
<1>3. UNCHANGED Content
  <2>1. \A q \in PageId : InPool(q) => pages'[page_table[q]].data = pages[page_table[q]].data
    BY <1>0, <1>2 DEF TypeOK, InPool
  <2> QED
    BY <1>1, <2>1 DEF Content, InPool
<1>4. PageUsers' = [PageUsers EXCEPT ![c] = PageUsers[c] \ {h.page}]
  <2>1. \A d \in Clients : held'[d] = IF d = c THEN held[c] \ {h} ELSE held[d]
    BY <1>0, <1>1 DEF TypeOK
  <2>2. \A k \in held[c] : k.page = h.page => k = h
    BY <1>0 DEF HandleInv
  <2>3. {k.page : k \in held[c] \ {h}} = {k.page : k \in held[c]} \ {h.page}
    BY <2>2
  <2> QED
    BY <2>1, <2>3, Zenon DEF PageUsers
<1>5. h.page \in PageUsers[c]
  BY DEF PageUsers
<1>6. h.page \in PageId
  BY <1>0, HandleFacts
<1> QED
  BY <1>3, <1>4, <1>5, <1>6 DEF Store!Unpin

\* A flush changes no content.
LEMMA FlushRefines ==
  ASSUME PoolInv, NEW set \in SUBSET PageId, \A p \in set : InPool(p), flush(set)
  PROVE  UNCHANGED <<Content, PageUsers>>
<1>0. TypeOK
  BY DEF PoolInv
<1>1. /\ disk' = [p \in PageId |-> IF p \in set THEN pages[page_table[p]].data ELSE disk[p]]
      /\ UNCHANGED <<page_table, fd2pageno, held, stale>>
  BY DEF flush
<1>2. \A g \in Frames : pages'[g].data = pages[g].data
  BY <1>0 DEF flush, TypeOK
<1>3. \A q \in PageId : InPool(q) => pages'[page_table[q]].data = pages[page_table[q]].data
  BY <1>0, <1>2 DEF TypeOK, InPool
<1>4. \A q \in PageId : ~InPool(q) => disk'[q] = disk[q]
  BY <1>1
<1> QED
  BY <1>1, <1>3, <1>4 DEF Content, PageUsers, InPool

\* delete_page writes the page back: it is as if it had been evicted.
LEMMA DeleteRefines ==
  ASSUME CountLaws, PoolInv, NEW p \in PageId, delete_page(p)
  PROVE  UNCHANGED <<Content, PageUsers>>
<1> DEFINE f == page_table[p]
<1>0. TypeOK /\ TableInv /\ PinInv /\ CleanInv
  BY DEF PoolInv
<1>1. /\ InPool(p) /\ f \in Frames /\ f # NoFrame /\ pages[f].id = p /\ pages[f].pin = 0
  BY <1>0 DEF delete_page, Drop, InPool, TypeOK, TableInv
<1>2. /\ pages' = [pages EXCEPT ![f].dirty = FALSE] /\ page_table' = Forget(f) /\ disk' = WriteBack(f)
      /\ UNCHANGED <<fd2pageno, held>>
  BY DEF delete_page, Drop
<1>3. /\ \A q \in PageId : Forget(f)[q] = IF page_table[q] = f THEN NoFrame ELSE page_table[q]
      /\ \A q \in PageId : disk'[q] = IF page_table[q] = f /\ pages[f].dirty THEN pages[f].data ELSE disk[q]
  BY <1>1, <1>2, Eviction
<1>4. \A q \in PageId : page_table[q] = f => disk'[q] = pages[f].data
  <2>1. Users(f) = {}
    BY <1>0, <1>1, UsersAreCounted DEF PinInv
  <2>2. \A q \in PageId : page_table[q] = f => pages[f].dirty \/ pages[f].data = disk[q]
    BY <1>0, <1>1, <2>1 DEF CleanInv, InPool, Users
  <2> QED
    BY <1>3, <2>2
<1> HIDE DEF f
<1>5. \A g \in Frames : pages'[g].data = pages[g].data
  BY <1>0, <1>1, <1>2 DEF TypeOK
<1>6. \A q \in PageId : Content'[q] = Content[q]
  <2>1. \A q \in PageId : InPool(q) => pages'[page_table[q]].data = pages[page_table[q]].data
    BY <1>0, <1>5 DEF TypeOK, InPool
  <2>2. \A q \in PageId : page_table[q] # f => page_table'[q] = page_table[q] /\ disk'[q] = disk[q]
    BY <1>2, <1>3
  <2>3. \A q \in PageId : page_table[q] = f => page_table'[q] = NoFrame /\ disk'[q] = pages[f].data
    BY <1>2, <1>3, <1>4
  <2> QED
    BY <1>1, <1>2, <2>1, <2>2, <2>3 DEF Content, InPool
<1>7. UNCHANGED Content
  <2>1. Content = [q \in PageId |-> Content[q]] /\ Content' = [q \in PageId |-> Content'[q]]
    BY DEF Content
  <2> QED
    BY <1>6, <2>1
<1>8. UNCHANGED PageUsers
  BY <1>2 DEF PageUsers
<1> QED
  BY <1>7, <1>8

\* drop_table replaces the pages of a file that nobody uses by one page of zeros.
LEMMA DropRefines ==
  ASSUME CountLaws, PoolInv, NEW fd \in Files, drop_table(fd)
  PROVE  Store!Reset({p \in PageId : p[1] = fd})
<1> DEFINE set == {p \in PageId : p[1] = fd}
<1>f. PICK frames \in SUBSET Frames : DropEffect(fd, frames)
  BY DropFacts
<1>0. TypeOK /\ TableInv /\ HandleInv /\ PoolInv'
  BY DropInv DEF PoolInv
<1>1. /\ pages' = [f \in Frames |-> [pages[f] EXCEPT !.dirty = @ /\ f \notin frames]]
      /\ \A q \in PageId : page_table'[q] = IF q[1] = fd THEN NoFrame ELSE page_table[q]
      /\ \A f \in frames : Users(f) = {}
      /\ \A q \in PageId : InPool(q) => (page_table[q] \in frames <=> q[1] = fd)
      /\ \A q \in PageId : disk'[q] = IF q[1] # fd THEN disk[q] ELSE IF q[2] = 0 THEN Zero ELSE NoPage
      /\ fd2pageno' = [fd2pageno EXCEPT ![fd] = 1]
      /\ UNCHANGED <<lru, held, stale>>
  BY <1>f DEF DropEffect
<1>2. \A f \in Frames : pages'[f].data = pages[f].data
  BY <1>0, <1>1 DEF TypeOK
<1>3. \A q \in PageId : q[1] \in Files
  BY DEF PageId
<1>4. ASSUME NEW q \in PageId, q[1] # fd  PROVE Content'[q] = Content[q]
  <2>1. InPool(q) => pages'[page_table[q]].data = pages[page_table[q]].data
    BY <1>0, <1>2 DEF TypeOK, InPool
  <2>2. page_table'[q] = page_table[q] /\ disk'[q] = disk[q] /\ fd2pageno'[q[1]] = fd2pageno[q[1]]
    BY <1>0, <1>1, <1>3, <1>4 DEF TypeOK
  <2> QED
    BY <2>1, <2>2 DEF Content, InPool
<1>5. ASSUME NEW q \in PageId, q[1] = fd  PROVE Content'[q] \in {Zero, NoPage}
  <2>1. page_table'[q] = NoFrame /\ disk'[q] \in {Zero, NoPage}
    BY <1>1, <1>5
  <2> QED
    BY <2>1 DEF Content, InPool
<1>6. Content' \in [PageId -> Values \cup {NoPage}]
  <2>1. Content' = [q \in PageId |-> Content'[q]]
    BY DEF Content
  <2>2. \A q \in PageId : Content'[q] \in Values \cup {NoPage}
    BY <1>4, <1>5, PoolContent, PoolAssumption
  <2> QED
    BY <2>1, <2>2
<1>7. \A c \in Clients : PageUsers[c] \cap set = {}
  <2>1. \A c \in Clients : \A h \in held[c] : h.page \in PageId /\ InPool(h.page) /\ page_table[h.page] = h.frame
    BY <1>0, HandleFacts
  <2>2. \A c \in Clients : \A h \in held[c] : h.frame \notin frames
    BY <1>1 DEF Users
  <2>3. \A c \in Clients : \A h \in held[c] : h.page[1] # fd
    BY <1>1, <2>1, <2>2
  <2> QED
    BY <2>3 DEF PageUsers
<1>8. UNCHANGED PageUsers
  BY <1>1 DEF PageUsers
<1>9. \A p \in PageId : Content'[p] \in IF p \in set THEN {Zero, NoPage} ELSE {Content[p]}
  BY <1>4, <1>5
<1> HIDE DEF set
<1> QED
  BY <1>6, <1>7, <1>8, <1>9, Zenon DEF Store!Reset, set

\* A new pool is a store of pages of zeros.
LEMMA InitRefines ==
  ASSUME Init
  PROVE  Store!Init
<1>1. \A p \in PageId : Content[p] \in {Zero, NoPage}
  BY ContentOf DEF Init, InPool
<1>2. Content \in [PageId -> {Zero, NoPage}]
  BY <1>1 DEF Content
<1>3. PageUsers = [c \in Clients |-> {}]
  BY DEF Init, PageUsers
<1> QED
  BY <1>2, <1>3 DEF Store!Init

\* Every step of the pool is a step of the store, or none, until a page is loaded while
\* another frame keeps its id_.
LEMMA NextRefines ==
  ASSUME CountLaws, PoolInv, [Next]_vars, ~stale'
  PROVE  Store!Next \/ UNCHANGED Store!storeVars
<1>1. ASSUME NEW c \in Clients, NEW p \in PageId, fetch_page_hit(c, p) \/ fetch_page_miss(c, p)
      PROVE  Store!Next
  BY <1>1, HitRefines, MissRefines DEF Store!Next
<1>2. ASSUME NEW c \in Clients, NEW fd \in Files, new_page(c, fd)  PROVE Store!Next
  BY <1>2, NewPageRefines DEF Store!Next
<1>3. ASSUME NEW c \in Clients, NEW h \in held[c], NEW x \in Values, Write(c, h, x)
      PROVE  Store!Next
  BY <1>3, WriteRefines DEF Store!Next
<1>4. ASSUME NEW c \in Clients, NEW h \in held[c], NEW is_dirty \in BOOLEAN,
             unpin_page(c, h, is_dirty)
      PROVE  Store!Next
  BY <1>4, UnpinRefines DEF Store!Next
<1>5. ASSUME NEW p \in PageId, flush_page(p)  PROVE UNCHANGED Store!storeVars
  BY <1>5, FlushRefines DEF flush_page, Store!storeVars
<1>6. ASSUME NEW fd \in Files, flush_all_pages(fd)  PROVE UNCHANGED Store!storeVars
  BY <1>6, FlushRefines DEF flush_all_pages, Store!storeVars
<1>7. CASE flush_all_page
  BY <1>7, FlushRefines DEF flush_all_page, Store!storeVars
<1>8. ASSUME NEW p \in PageId, delete_page(p)  PROVE UNCHANGED Store!storeVars
  BY <1>8, DeleteRefines DEF Store!storeVars
<1>9. ASSUME NEW fd \in Files, drop_table(fd)  PROVE Store!Next
  <2>1. {p \in PageId : p[1] = fd} \in SUBSET PageId
    OBVIOUS
  <2> QED
    BY <1>9, <2>1, DropRefines, Zenon DEF Store!Next
<1>10. ASSUME NEW c \in Clients, NEW p \in PageId, fetch_page_throws(c, p)  PROVE Store!Next
  BY <1>10, NoThrow, Zenon
<1>11. CASE UNCHANGED vars
  BY <1>11 DEF vars, poolVars, Store!storeVars, Content, PageUsers, InPool
<1> QED
  BY <1>1, <1>2, <1>3, <1>4, <1>5, <1>6, <1>7, <1>8, <1>9, <1>10, <1>11 DEF Next

-----------------------------------------------------------------------------
(* The theorems. *)

\* pin_count_ counts finite sets of clients.
LEMMA Counting == CountLaws
<1> SUFFICES ASSUME NEW S \in SUBSET Clients
             PROVE  /\ Cardinality(S) \in Nat /\ (Cardinality(S) = 0 <=> S = {})
                    /\ \A c \in Clients \ S : Cardinality(S \cup {c}) = Cardinality(S) + 1
                    /\ \A c \in S : Cardinality(S \ {c}) = Cardinality(S) - 1
  BY DEF CountLaws
<1>1. IsFiniteSet(S)
  BY PoolAssumption, FS_Subset
<1>2. Cardinality(S) \in Nat /\ (Cardinality(S) = 0 <=> S = {})
  BY <1>1, FS_CardinalityType, FS_EmptySet
<1>3. \A c \in Clients \ S : Cardinality(S \cup {c}) = Cardinality(S) + 1
  BY <1>1, FS_AddElement
<1>4. \A c \in S : Cardinality(S \ {c}) = Cardinality(S) - 1
  BY <1>1, FS_RemoveElement
<1> QED
  BY <1>2, <1>3, <1>4

\* The page table, the ids of the frames, the two lists, the pin counts and the disk agree in
\* every state that is reached before a page is loaded while another frame keeps its id_.
THEOREM PoolInvariant == Spec => [](stale \/ PoolInv)
<1>1. Init => stale \/ PoolInv
  BY Counting, InitInv
<1>2. (stale \/ PoolInv) /\ [Next]_vars => (stale \/ PoolInv)'
  BY Counting, NextInv, StaleStays
<1> QED
  BY <1>1, <1>2, PTL DEF Spec

\* A page that a client has fetched stays in its frame, whatever other clients fetch, create,
\* flush, delete or drop, and is pinned once for each of its users, until a page is loaded
\* while another frame keeps its id_.
THEOREM PinnedPagesStayThm == Spec => []PinnedPagesStay
<1>1. stale \/ PoolInv => PinnedPagesStay
  BY InvPinned DEF PinnedPagesStay
<1> QED
  BY <1>1, PoolInvariant, PTL

\* find_victim_page can find exactly the frames with pin_count_ 0, so that no frame is lost
\* and none is given away twice, until a page is loaded while another frame keeps its id_.
THEOREM VictimsAreUnusedThm == Spec => []VictimsAreUnused
<1>1. stale \/ PoolInv => VictimsAreUnused
  BY InvVictims DEF VictimsAreUnused
<1> QED
  BY <1>1, PoolInvariant, PTL

\* Clients of the pool cannot tell it from a store of pages without frames, eviction and
\* disk, until a page is loaded while another frame keeps its id_: what is read in a page is
\* what was last written to it.
THEOREM RefinesPageStore == Spec => ImplementsPageStore
<1>1. Init => Store!Init
  BY InitRefines
<1>2. (stale \/ PoolInv) /\ [Next]_vars => [stale' \/ Store!Next]_(Store!storeVars)
  BY Counting, NextRefines, StaleStays
<1> QED
  BY <1>1, <1>2, PoolInvariant, PTL DEF Spec, ImplementsPageStore

=============================================================================
