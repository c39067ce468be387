----------------------------- MODULE BufferPool -----------------------------
(***************************************************************************)
(* The buffer pool (src/src/storage/buffer_pool_manager.cpp), its LRU      *)
(* replacer (src/src/replacer/lru_replacer.cpp) and the pages on disk.     *)
(*                                                                         *)
(* Every operation holds BufferPoolManager::latch_ from its first to its   *)
(* last statement, so it is one action.  Between the operations a client   *)
(* changes the bytes of a frame through the Page* that fetch_page or       *)
(* new_page gave it, without the latch.                                    *)
(***************************************************************************)
EXTENDS Integers, FiniteSets, Sequences, Functions

CONSTANTS Clients,   \* threads that use pages
          pool_size, \* the number of frames
          Files,     \* file descriptors
          MaxPages,  \* bound: the pages of a file
          Values,    \* what can be in a page
          Zero,      \* a page of zeros
          MaxPins    \* bound: the pages a client has fetched at the same time

ASSUME PoolAssumption ==
  /\ IsFiniteSet(Clients) /\ pool_size \in Nat /\ Files \subseteq Nat
  /\ MaxPages \in Nat \ {0} /\ MaxPins \in Nat
  /\ Zero \in Values

Frames == 0 .. pool_size - 1
PageId == Files \X (0 .. MaxPages - 1)
NoPage == "no page"  \* what is behind the end of a file

ASSUME ContentAssumption == NoPage \notin Values

VARIABLES pages,       \* pages_[f]: id_, data_, is_dirty_ and pin_count_ of a frame
          page_table,  \* the frame of a page, or NoFrame
          free_list,
          lru,         \* LRUlist_, the frame used last in front
          disk,        \* the pages of the files, NoPage behind the end
          fd2pageno,   \* the next page number of a file
          held,        \* held[c]: the Page* that c has, and whether c wrote through it
          stale        \* history: was a page loaded while another frame kept its id_?

poolVars == <<pages, page_table, free_list, lru>>
vars == <<poolVars, disk, fd2pageno, held, stale>>

NoFrame == -1        \* INVALID_FRAME_ID
InvalidId == <<-1, -1>>

\* Every file has one page.  The id_ of a fresh frame names no page of any file.
Init ==
  /\ pages = [f \in Frames |-> [id |-> InvalidId, data |-> Zero, dirty |-> FALSE, pin |-> 0]]
  /\ page_table = [p \in PageId |-> NoFrame]
  /\ free_list = [i \in 1 .. pool_size |-> i - 1]
  /\ lru = <<>>
  /\ disk = [p \in PageId |-> IF p[2] = 0 THEN Zero ELSE NoPage]
  /\ fd2pageno = [fd \in Files |-> 1]
  /\ held = [c \in Clients |-> {}]
  /\ stale = FALSE

InPool(p) == page_table[p] # NoFrame

-----------------------------------------------------------------------------
(* LRUReplacer, on its list: pin, and unpin of a frame that may be in it already. *)

pin(list, f) ==
  IF f \in Range(list)
  THEN LET i == CHOOSE j \in DOMAIN list : list[j] = f
       IN  SubSeq(list, 1, i - 1) \o SubSeq(list, i + 1, Len(list))
  ELSE list

unpin(list, f) == IF f \in Range(list) THEN list ELSE <<f>> \o list

\* find_victim_page: a frame, and what is left of the two lists.
Victim ==
  IF free_list # <<>>
  THEN [frame |-> Head(free_list), free |-> Tail(free_list), lru |-> lru]
  ELSE [frame |-> lru[Len(lru)], free |-> free_list, lru |-> SubSeq(lru, 1, Len(lru) - 1)]

HasVictim == free_list # <<>> \/ lru # <<>>

\* Mistake: a dirty page is not written back.
WriteBack_never(f) == disk

\* update_page, first half: a dirty page is written back under the id_ of its frame.
WriteBack(f) == IF pages[f].dirty THEN [disk EXCEPT ![pages[f].id] = pages[f].data] ELSE disk

\* update_page, second half: the page of the id_ leaves the page table.
Forget(f) == [p \in PageId |-> IF p = pages[f].id THEN NoFrame ELSE page_table[p]]

\* update_page of the victim for page p: the frame gets the id_ and the entry of the page
\* table, and the data and pins that the caller then gives it.  emplace overwrites no entry.
Assign(v, p, data, pins) ==
  /\ disk' = WriteBack(v.frame)
  /\ pages' = [pages EXCEPT ![v.frame] = [id |-> p, data |-> data, dirty |-> FALSE, pin |-> pins]]
  /\ page_table' = [Forget(v.frame) EXCEPT ![p] = IF @ = NoFrame THEN v.frame ELSE @]
  /\ free_list' = v.free
  /\ stale' = (stale \/ \E f \in Frames \ {v.frame} : pages[f].id = p)

\* The frame gets the page and is pinned.
Load(v, p, data) ==
  /\ Assign(v, p, data, pages[v.frame].pin + 1)
  /\ lru' = pin(v.lru, v.frame)

-----------------------------------------------------------------------------
(* The operations. *)

Hold(c, p, f, wrote) == held' = [held EXCEPT ![c] = @ \cup {[page |-> p, frame |-> f, wrote |-> wrote]}]

\* A client fetches a page of a file, that it does not have already.
MayHold(c, p) == Cardinality(held[c]) < MaxPins /\ \A h \in held[c] : h.page # p

\* Mistake: the page stays in the list of the replacer.
fetch_page_hit_unpinned(c, p) ==
  LET f == page_table[p]
  IN  /\ MayHold(c, p) /\ InPool(p)
      /\ pages' = [pages EXCEPT ![f].pin = @ + 1]
      /\ Hold(c, p, f, FALSE)
      /\ UNCHANGED <<page_table, free_list, lru, disk, fd2pageno, stale>>

\* fetch_page of a page that is in the pool.
fetch_page_hit(c, p) ==
  LET f == page_table[p]
  IN  /\ MayHold(c, p) /\ InPool(p)
      /\ pages' = [pages EXCEPT ![f].pin = @ + 1]
      /\ lru' = pin(lru, f)
      /\ Hold(c, p, f, FALSE)
      /\ UNCHANGED <<page_table, free_list, disk, fd2pageno, stale>>

\* A page of the file that is not in the pool is asked for, and there is a frame for it.
\* Without one fetch_page returns nullptr and changes nothing.
Misses(c, p) == MayHold(c, p) /\ ~InPool(p) /\ p[2] < fd2pageno[p[1]] /\ HasVictim

\* fetch_page of a page on disk.
fetch_page_miss(c, p) ==
  LET v == Victim
  IN  /\ Misses(c, p)
      /\ WriteBack(v.frame)[p] # NoPage
      /\ Load(v, p, WriteBack(v.frame)[p])
      /\ Hold(c, p, v.frame, FALSE)
      /\ UNCHANGED fd2pageno

\* fetch_page of a page that was never written: read_page throws after update_page, and the
\* page stays in the page table with whatever the frame had, in a frame that nobody has pinned.
fetch_page_throws(c, p) ==
  LET v == Victim
  IN  /\ Misses(c, p)
      /\ WriteBack(v.frame)[p] = NoPage
      /\ Assign(v, p, pages[v.frame].data, pages[v.frame].pin)
      /\ lru' = v.lru
      /\ UNCHANGED <<fd2pageno, held>>

\* new_page.  The callers mark the page dirty when they unpin it, or flush it.
new_page(c, fd) ==
  LET p == <<fd, fd2pageno[fd]>>
      v == Victim
  IN  /\ Cardinality(held[c]) < MaxPins /\ fd2pageno[fd] < MaxPages /\ HasVictim
      /\ Load(v, p, Zero)
      /\ Hold(c, p, v.frame, TRUE)
      /\ fd2pageno' = [fd2pageno EXCEPT ![fd] = @ + 1]

\* A client writes through its Page*.
Write(c, h, x) ==
  /\ h \in held[c]
  /\ pages' = [pages EXCEPT ![h.frame].data = x]
  /\ held' = [held EXCEPT ![c] = (@ \ {h}) \cup {[h EXCEPT !.wrote = TRUE]}]
  /\ UNCHANGED <<page_table, free_list, lru, disk, fd2pageno, stale>>

\* unpin_page, by the page's id.  A client that has written says so; others may too.
unpin_page(c, h, is_dirty) ==
  LET f == page_table[h.page]
  IN  /\ h \in held[c] /\ (h.wrote => is_dirty)
      /\ IF ~InPool(h.page) \/ pages[f].pin = 0
         THEN UNCHANGED <<pages, lru>>
         ELSE /\ pages' = [pages EXCEPT ![f].pin = @ - 1, ![f].dirty = @ \/ is_dirty]
              /\ lru' = IF pages[f].pin = 1 THEN unpin(lru, f) ELSE lru
      /\ held' = [held EXCEPT ![c] = @ \ {h}]
      /\ UNCHANGED <<page_table, free_list, disk, fd2pageno, stale>>

\* flush_page, flush_all_pages of a file and flush_all_page write pages of the pool.
\* The first two write clean pages too, which changes nothing on a page that is not
\* being written at the moment.
flush(set) ==
  /\ disk' = [p \in PageId |-> IF p \in set THEN pages[page_table[p]].data ELSE disk[p]]
  /\ pages' = [f \in Frames |->
                 [pages[f] EXCEPT !.dirty = @ /\ \A p \in set : page_table[p] # f]]
  /\ UNCHANGED <<page_table, free_list, lru, fd2pageno, held, stale>>

flush_page(p) == InPool(p) /\ flush({p})
flush_all_pages(fd) == flush({p \in PageId : InPool(p) /\ p[1] = fd})
flush_all_page == flush({p \in PageId : InPool(p) /\ pages[page_table[p]].dirty})

\* Mistake: a page that is in use is deleted.
Drop_pinned(p) ==
  LET f == page_table[p]
  IN  /\ pages' = [pages EXCEPT ![f].dirty = FALSE]
      /\ page_table' = Forget(f)
      /\ free_list' = Append(free_list, f)
      /\ UNCHANGED lru

\* delete_page and delete_all_page.  update_page writes the page back and takes it out of
\* the page table; the frame keeps its id_ and its place in the list of the replacer.
Drop(p) ==
  LET f == page_table[p]
  IN  /\ pages[f].pin = 0
      /\ pages' = [pages EXCEPT ![f].dirty = FALSE]
      /\ page_table' = Forget(f)
      /\ free_list' = Append(free_list, f)
      /\ UNCHANGED lru

\* delete_page of the leaf that delete_entry gives it after a merge.  The page can be fetched
\* again: when the leaf was the first child of its parent, it is the one that survives.
delete_page(p) ==
  /\ InPool(p) /\ p[2] # 0
  /\ Drop(p)
  /\ disk' = WriteBack(page_table[p])
  /\ UNCHANGED <<fd2pageno, held, stale>>

\* drop_table and then create_table: the pages of the file leave the pool in any order,
\* and the new file gets the old fd and one page.
drop_table(fd) ==
  LET cached == {p \in PageId : InPool(p) /\ p[1] = fd}
      frames == {page_table[p] : p \in cached}
  IN  /\ \A f \in frames : pages[f].pin = 0
      /\ pages' = [f \in Frames |-> [pages[f] EXCEPT !.dirty = @ /\ f \notin frames]]
      /\ page_table' = [p \in PageId |-> IF p \in cached THEN NoFrame ELSE page_table[p]]
      /\ \E order \in Bijection(1 .. Cardinality(frames), frames) : free_list' = free_list \o order
      /\ disk' = [p \in PageId |-> IF p[1] # fd THEN disk[p]
                                   ELSE IF p[2] = 0 THEN Zero ELSE NoPage]
      /\ fd2pageno' = [fd2pageno EXCEPT ![fd] = 1]
      /\ UNCHANGED <<lru, held, stale>>

Next ==
  \/ \E c \in Clients, p \in PageId :
       fetch_page_hit(c, p) \/ fetch_page_miss(c, p) \/ fetch_page_throws(c, p)
  \/ \E c \in Clients, fd \in Files : new_page(c, fd)
  \/ \E c \in Clients : \E h \in held[c] :
       \/ \E x \in Values : Write(c, h, x)
       \/ \E is_dirty \in BOOLEAN : unpin_page(c, h, is_dirty)
  \/ \E p \in PageId : flush_page(p) \/ delete_page(p)
  \/ \E fd \in Files : flush_all_pages(fd) \/ drop_table(fd)
  \/ flush_all_page

Spec == Init /\ [][Next]_vars

-----------------------------------------------------------------------------
(* Properties. *)

\* Type invariant.
TypeOK ==
  /\ pages \in [Frames -> [id : PageId \cup {InvalidId}, data : Values, dirty : BOOLEAN, pin : Nat]]
  /\ page_table \in [PageId -> Frames \cup {NoFrame}]
  /\ free_list \in Seq(Frames) /\ lru \in Seq(Frames)
  /\ disk \in [PageId -> Values \cup {NoPage}]
  /\ fd2pageno \in [Files -> 1 .. MaxPages]
  /\ held \in [Clients -> SUBSET [page : PageId, frame : Frames, wrote : BOOLEAN]]
  /\ stale \in BOOLEAN

\* delete_page resets the metadata of the frame (buffer_pool_manager.cpp:273), so that the page
\* a client has fetched stays in its frame, and its pin_count_ counts exactly its users,
\* whatever other clients fetch, create, delete or flush.  The frame keeps the id_: when the
\* page is fetched again into another frame, or a new file with the same fd has such a page,
\* the next update_page of the old frame takes the entry of the pinned page out of the table.
PinsHold ==
  \A c \in Clients : \A h \in held[c] :
    /\ page_table[h.page] = h.frame
    /\ pages[h.frame].id = h.page
    /\ pages[h.frame].pin =
         Cardinality({d \in Clients : \E g \in held[d] : g.page = h.page})

\* The page that a client has fetched stays in its frame, and is pinned once for each of its
\* users, through evictions, flushes, deletions and dropped files, until a page is loaded
\* while another frame keeps its id_.
PinnedPagesStay == ~stale => PinsHold

\* No frame is lost and none is given away twice: find_victim_page can find a frame exactly
\* when its pin_count_ is 0, until a page is loaded while another frame keeps its id_.
VictimsAreUnused ==
  ~stale =>
    /\ TypeOK
    /\ \A f \in Frames : f \in Range(free_list) \cup Range(lru) <=> pages[f].pin = 0

\* What a client reads in a page, and the pages that each client uses.
Content ==
  [p \in PageId |-> IF p[2] >= fd2pageno[p[1]] THEN NoPage
                    ELSE IF InPool(p) THEN pages[page_table[p]].data ELSE disk[p]]
PageUsers == [c \in Clients |-> {h.page : h \in held[c]}]

Store == INSTANCE PageStore WITH content <- Content, users <- PageUsers

\* The buffer pool implements a store of pages, until a page is loaded while another frame
\* keeps its id_: what a client reads is what was last written, whether the page was evicted,
\* flushed, deleted or fetched by others in between.
ImplementsPageStore == Store!Init /\ [][stale' \/ Store!Next]_(Store!storeVars)

=============================================================================
