------------------------------ MODULE PhysMem ------------------------------
(***************************************************************************)
(* The physical page manager, src/mm/pm.c, over the bitmaps of             *)
(* src/structs/bitmap.c.                                                   *)
(*                                                                         *)
(* Physical memory is cut into regions of BITMAP_SIZE pages and every      *)
(* region is to have a mem_bitmap, one bit per page.  first_free_bitmap    *)
(* and its first_free member are the hint that pm_request_page follows     *)
(* without looking.  The manager is entered by one caller at a time (the   *)
(* only interrupt handler of the kernel does not allocate), but it         *)
(* re-enters itself: a page of a region without a bitmap makes             *)
(* create_bitmap run, which calls the heap, which calls pm_request_page.   *)
(* Loops over pages are therefore steps, one page at a time, and what one  *)
(* page needs without re-entering the manager is one atomic step.          *)
(***************************************************************************)
EXTENDS Integers, Sequences, FiniteSets

CONSTANTS
  PAGE_SIZE,        \* bytes of a page (4096)
  BITMAP_SIZE,      \* pages of a region (32768)
  SIZE_MAX,         \* the modulus of size_t (2^64)
  mem_map,          \* bootinfo's memory map: a sequence of segments
  LAYOUT_PADDR_START, LAYOUT_PADDR_END,  \* the kernel image, in bytes
  pages_bitmap0,    \* the page of the image with the first bitmap's storage
  IdentityMapped,   \* pages the boot tables map at their own address
  HeapGrowth,       \* how many pages one mm_alloc may have to request
  Addrs, Sizes,     \* addresses and byte counts the callers pass
  MaxBitmaps,       \* bound: no new call with more bitmaps than this
  MaxHint           \* bound: no new call with a hint above this

Segment == [type : {"reserved", "available"}, addr : Nat, length : Nat]

ASSUME SizesAssumption ==
  /\ PAGE_SIZE \in Nat \ {0}
  /\ BITMAP_SIZE \in Nat \ {0}
  /\ SIZE_MAX \in Nat \ {0}
  /\ MaxBitmaps \in Nat /\ MaxHint \in Nat
ASSUME MemMapAssumption ==
  /\ mem_map \in Seq(Segment)
  /\ LAYOUT_PADDR_START \in Nat
  /\ LAYOUT_PADDR_END \in Nat
  /\ LAYOUT_PADDR_START <= LAYOUT_PADDR_END
ASSUME CallersAssumption ==
  HeapGrowth \subseteq Nat /\ Addrs \subseteq Nat /\ Sizes \subseteq Nat

VARIABLES
  bitmaps,            \* the list mem_bitmaps, in list order
  first_free_bitmap,  \* position in bitmaps; 0 is a pointer to no bitmap
  mem_info,           \* bytes used and free, as size_t
  next_bitmap_page,   \* page kept for the next bitmap's storage
  boot,               \* how far pm_init is
  op,                 \* the loop over pages that is running
  creation,           \* the create_bitmap call that is running
  halted,             \* why the kernel stopped, "no" while it runs
  granted             \* history: pages requests returned, not released since

vars == <<bitmaps, first_free_bitmap, mem_info, next_bitmap_page, boot, op,
          creation, halted, granted>>

-----------------------------------------------------------------------------
(* Addresses.  A page is named by its number; an address inside a page     *)
(* stands for that page in every operation of the manager.                 *)

PAGES(b) == (b + PAGE_SIZE - 1) \div PAGE_SIZE
PageOf(a) == a \div PAGE_SIZE
TOBITMAP(p) == p \div BITMAP_SIZE
TOINDEX(p) == p % BITMAP_SIZE
TOPADDR(b, i) == b * BITMAP_SIZE + i

(* The pages one call covers: a call for no bytes still handles one page.  *)
PagesOfCall(bytes) == IF bytes = 0 THEN 1 ELSE PAGES(bytes)
PagesAt(a, bytes) == PageOf(a)..(PageOf(a) + PagesOfCall(bytes) - 1)

(* The image lies in the first region; other parts of it come before the   *)
(* storage of the first bitmap, which is in .bss.                          *)
ImagePages == PagesAt(LAYOUT_PADDR_START, LAYOUT_PADDR_END - LAYOUT_PADDR_START)
ASSUME ImageAssumption ==
  /\ pages_bitmap0 \in Nat
  /\ {pages_bitmap0 - 1, pages_bitmap0} \subseteq ImagePages
  /\ ImagePages \subseteq 0..(BITMAP_SIZE - 1)

-----------------------------------------------------------------------------
(* Bitmaps.  map is the set of indices whose bit is set (locked pages),    *)
(* page the page of memory where these bits are.                           *)

bitmap_from(page) ==
  [index |-> 0, page |-> page, first_free |-> 0, map |-> {}, unset |-> BITMAP_SIZE]

(* mem_set clears the page it is given, an eighth of it at a time in whole *)
(* words, and then the seven eighths again, behind the page: a bitmap that *)
(* is stored there loses bits, and its counter does not hear of it.        *)
Overrun == 0..(BITMAP_SIZE - BITMAP_SIZE \div 8 - 1)
mem_set(bms, page) ==
  [k \in 1..Len(bms) |->
     IF bms[k].page = page + 1 THEN [bms[k] EXCEPT !.map = @ \ Overrun] ELSE bms[k]]

(* Mutants: the counter is not restored; the bit's byte is overwritten.    *)
bitmap_set_Uncounted(bm, i, v) ==
  IF v THEN [bm EXCEPT !.map = @ \cup {i}, !.unset = @ - 1]
       ELSE [bm EXCEPT !.map = @ \ {i}]
bitmap_set_Overwrite(bm, i, v) ==
  IF v THEN [bm EXCEPT !.map = {i}, !.unset = @ - 1]
       ELSE [bm EXCEPT !.map = @ \ {i}, !.unset = @ + 1]

(* bitmap_set on a bit that changes; a bit that does not is SNOCHANGE.     *)
bitmap_set(bm, i, v) ==
  IF v THEN [bm EXCEPT !.map = @ \cup {i}, !.unset = @ - 1]
       ELSE [bm EXCEPT !.map = @ \ {i}, !.unset = @ + 1]

find_bitmap_by_index(bms, index) ==
  LET found == {k \in 1..Len(bms) : bms[k].index = index}
  IN  {k \in found : \A j \in found : k <= j}

(* The first bitmap with a free page after bms[f], in list order, wrapping *)
(* around.  The walk passes the list head, which is no mem_bitmap: what it *)
(* reads as the head's "unset" is some other object, so it may settle on   *)
(* the head (0).  When no bitmap has a free page, create_bitmap requests   *)
(* pages through the same exhausted hint and recurses for ever (0 too).    *)
find_first_free_bitmap(bms, f) ==
  LET open == {k \in 1..Len(bms) : bms[k].unset > 0 /\ k # f}
      after == {k \in open : k > f}
  IN  IF after # {} THEN {k \in after : \A j \in after : k <= j}
      ELSE {0} \cup {k \in open : \A j \in open : k <= j}

(* The rest of find_first_free_index from index h of bms[f] on, and of     *)
(* find_first_free_bitmap if that bitmap has no free page left.  Outcomes  *)
(* are pairs of the list and first_free_bitmap.                            *)
SearchFrom(bms, f, h) ==
  LET free == {i \in h..(BITMAP_SIZE - 1) : i \notin bms[f].map}
      first == IF free # {} THEN {i \in free : \A j \in free : i <= j}
               ELSE {IF h < BITMAP_SIZE THEN BITMAP_SIZE ELSE h}
  IN  {[bitmaps |-> [bms EXCEPT ![f].first_free = i], ffb |-> f] :
         i \in {k \in first : k < BITMAP_SIZE}}
      \cup
      UNION {LET full == [bms EXCEPT ![f].first_free = i]
             IN  {[bitmaps |-> full, ffb |-> g] :
                    g \in find_first_free_bitmap(full, f)} :
             i \in {k \in first : k >= BITMAP_SIZE}}

(* find_first_free_index, then find_first_free_bitmap if it returned       *)
(* FALSE.  A hint past the end (-EINVAL) moves to another bitmap and steps *)
(* over that bitmap's own hint.                                            *)
Settle(bms, f) ==
  IF bms[f].first_free < BITMAP_SIZE
  THEN SearchFrom(bms, f, bms[f].first_free)
  ELSE UNION {IF g = 0 THEN {[bitmaps |-> bms, ffb |-> 0]}
              ELSE SearchFrom(bms, g, bms[g].first_free + 1) :
              g \in find_first_free_bitmap(bms, f)}

(* Mutant: locking the page under the hint leaves the hint there.          *)
pm_try_lock_page_Unsettled(bms, f, at, p) ==
  IF TOINDEX(p) \in bms[at].map
  THEN {[bitmaps |-> bms, ffb |-> f, ok |-> FALSE]}
  ELSE {[bitmaps |-> [bms EXCEPT ![at] = bitmap_set(@, TOINDEX(p), TRUE)],
         ffb |-> f, ok |-> TRUE]}

(* pm_try_lock_page once the page's bitmap, at position at, is known.      *)
pm_try_lock_page(bms, f, at, p) ==
  IF TOINDEX(p) \in bms[at].map
  THEN {[bitmaps |-> bms, ffb |-> f, ok |-> FALSE]}
  ELSE LET set == [bms EXCEPT ![at] = bitmap_set(@, TOINDEX(p), TRUE)]
           settled == IF set[f].index = TOBITMAP(p) THEN Settle(set, f)
                      ELSE {[bitmaps |-> set, ffb |-> f]}
       IN  {[bitmaps |-> s.bitmaps, ffb |-> s.ffb, ok |-> TRUE] : s \in settled}

(* Mutant: releasing a page below the hint does not lower the hint.        *)
pm_try_release_page_KeepHint(bms, f, at, p) ==
  IF TOINDEX(p) \notin bms[at].map
  THEN {[bitmaps |-> bms, ffb |-> f, ok |-> FALSE]}
  ELSE {[bitmaps |-> [bms EXCEPT ![at] = bitmap_set(@, TOINDEX(p), FALSE)],
         ffb |-> f, ok |-> TRUE]}

(* pm_try_release_page once the page's bitmap is known.                    *)
pm_try_release_page(bms, f, at, p) ==
  IF TOINDEX(p) \notin bms[at].map
  THEN {[bitmaps |-> bms, ffb |-> f, ok |-> FALSE]}
  ELSE LET cleared == [bms EXCEPT ![at] = bitmap_set(@, TOINDEX(p), FALSE)]
           g == IF TOBITMAP(p) < bms[f].index
                THEN find_bitmap_by_index(bms, TOBITMAP(p)) ELSE {f}
       IN  {[bitmaps |->
               IF /\ TOBITMAP(p) = cleared[k].index
                  /\ TOINDEX(p) < cleared[k].first_free
               THEN [cleared EXCEPT ![k].first_free = TOINDEX(p)]
               ELSE cleared,
             ffb |-> k, ok |-> TRUE] : k \in g}

Charge(mi) == [used |-> (mi.used + PAGE_SIZE) % SIZE_MAX,
               free |-> (mi.free - PAGE_SIZE) % SIZE_MAX]
Refund_UsedOnly(mi) == [mi EXCEPT !.used = (@ - PAGE_SIZE) % SIZE_MAX]
Refund(mi) == [used |-> (mi.used - PAGE_SIZE) % SIZE_MAX,
               free |-> (mi.free + PAGE_SIZE) % SIZE_MAX]

(* Mutant: the caller goes on with a wild first_free_bitmap.               *)
pm_request_page_Wild(bms, f, mi) ==
  LET p == TOPADDR(bms[f].index, bms[f].first_free)
      stepped == [bms EXCEPT ![f].first_free = @ + 1]
  IN  UNION {{[bitmaps |-> s.bitmaps, ffb |-> s.ffb, mem_info |-> Charge(mi),
               halted |-> "no", page |-> p] :
                s \in pm_try_lock_page(stepped, f, k, p)} :
             k \in find_bitmap_by_index(bms, TOBITMAP(p))}

(* pm_request_page: follow the hint, step over it, lock.  A hint that      *)
(* points past the region has no bitmap, and create_bitmap then calls      *)
(* pm_request_page with the same hint, for ever ("lost").                  *)
pm_request_page(bms, f, mi) ==
  LET p == TOPADDR(bms[f].index, bms[f].first_free)
      stepped == [bms EXCEPT ![f].first_free = @ + 1]
      at == find_bitmap_by_index(bms, TOBITMAP(p))
      Outcome(b, g, m, h) ==
        [bitmaps |-> b, ffb |-> g, mem_info |-> m, halted |-> h, page |-> p]
  IN  IF PAGE_SIZE > mi.free THEN {Outcome(bms, f, mi, "swapping")}
      ELSE IF at = {} THEN {Outcome(stepped, 0, mi, "lost")}
      ELSE UNION {
             {IF ~s.ok THEN Outcome(s.bitmaps, s.ffb, mi, "assert_request_page")
              ELSE IF s.ffb = 0 THEN Outcome(s.bitmaps, 0, mi, "lost")
              ELSE Outcome(s.bitmaps, s.ffb, Charge(mi), "no") :
                s \in pm_try_lock_page(stepped, f, k, p)} : k \in at}

-----------------------------------------------------------------------------
NoOp == [name |-> "none", page |-> 0, left |-> 0, ok |-> TRUE,
         start |-> 0, num |-> 0]
NoCreation == [phase |-> "none", left |-> 0, at |-> 0]

LockOp(name, page, left) ==
  [name |-> name, page |-> page, left |-> left, ok |-> TRUE,
   start |-> page, num |-> left]

(* init_first_bitmap, and the state in which compute_mem_size starts.      *)
Init ==
  /\ bitmaps = <<bitmap_from(pages_bitmap0)>>
  /\ first_free_bitmap = 1
  /\ mem_info = [used |-> 0, free |-> 0]
  /\ next_bitmap_page = 0
  /\ boot = 1
  /\ op = NoOp
  /\ creation = NoCreation
  /\ halted = "no"
  /\ granted = {}

Running == halted = "no" /\ creation = NoCreation
Idle == Running /\ op = NoOp
Booted == boot = Len(mem_map) + 3

(* One segment of compute_mem_size: every length counts as free, a         *)
(* reserved segment that starts in the first region is locked.             *)
compute_mem_size ==
  /\ Idle
  /\ boot <= Len(mem_map)
  /\ LET segment == mem_map[boot]
     IN  /\ mem_info' =
              [mem_info EXCEPT !.free = (@ + segment.length) % SIZE_MAX]
         /\ op' = IF /\ segment.type = "reserved"
                     /\ TOBITMAP(PageOf(segment.addr)) = 0
                  THEN LockOp("lock", PageOf(segment.addr),
                              PagesOfCall(segment.length))
                  ELSE NoOp
  /\ boot' = boot + 1
  /\ UNCHANGED <<bitmaps, first_free_bitmap, next_bitmap_page, creation,
                 halted, granted>>

(* pm_init locks the kernel image.                                         *)
LockKernel ==
  /\ Idle
  /\ boot = Len(mem_map) + 1
  /\ op' = LockOp("lock", PageOf(LAYOUT_PADDR_START),
                  PagesOfCall(LAYOUT_PADDR_END - LAYOUT_PADDR_START))
  /\ boot' = boot + 1
  /\ UNCHANGED <<bitmaps, first_free_bitmap, mem_info, next_bitmap_page,
                 creation, halted, granted>>

(* pm_init keeps a page for the first extra bitmap.                        *)
KeepBitmapPage ==
  /\ Idle
  /\ boot = Len(mem_map) + 2
  /\ \E s \in pm_request_page(bitmaps, first_free_bitmap, mem_info) :
       /\ bitmaps' = s.bitmaps
       /\ first_free_bitmap' = s.ffb
       /\ mem_info' = s.mem_info
       /\ halted' = s.halted
       /\ next_bitmap_page' = IF s.halted = "no" THEN s.page
                              ELSE next_bitmap_page
  /\ boot' = boot + 1
  /\ UNCHANGED <<op, creation, granted>>

-----------------------------------------------------------------------------
(* The calls of the manager's interface.                                   *)

(* The bounds are on callers: a hint can run past its bitmap's end, one    *)
(* index per call, when find_first_free_index meets it there.              *)
Callable ==
  /\ Idle /\ Booted
  /\ Len(bitmaps) <= MaxBitmaps
  /\ \A k \in 1..Len(bitmaps) : bitmaps[k].first_free <= MaxHint

RequestPage ==
  /\ Callable
  /\ \E s \in pm_request_page(bitmaps, first_free_bitmap, mem_info) :
       /\ bitmaps' = s.bitmaps
       /\ first_free_bitmap' = s.ffb
       /\ mem_info' = s.mem_info
       /\ halted' = s.halted
       /\ granted' = IF s.halted = "no" THEN granted \cup {s.page}
                     ELSE granted
  /\ UNCHANGED <<next_bitmap_page, boot, op, creation>>

(* pm_request_pages up to its loop.                                        *)
pm_request_pages(num) ==
  /\ Callable
  /\ IF num * PAGE_SIZE > mem_info.free
     THEN halted' = "swapping" /\ op' = op
     ELSE /\ halted' = halted
          /\ LET h == bitmaps[first_free_bitmap].first_free
             IN  op' = [name |-> "scan", page |-> h, left |-> num, ok |-> TRUE,
                        start |-> h, num |-> num]
  /\ UNCHANGED <<bitmaps, first_free_bitmap, mem_info, next_bitmap_page, boot,
                 creation, granted>>

pm_request_bytes(bytes) == pm_request_pages(PAGES(bytes))

pm_try_lock_pages(a, bytes) ==
  /\ Callable
  /\ op' = LockOp("lock", PageOf(a), PagesOfCall(bytes))
  /\ UNCHANGED <<bitmaps, first_free_bitmap, mem_info, next_bitmap_page, boot,
                 creation, halted, granted>>

(* The only caller gives back the module it locked (initfs.c:65), which    *)
(* holds neither the image nor a page the manager keeps for itself.        *)
OwnPages == {next_bitmap_page} \cup {bitmaps[k].page : k \in 1..Len(bitmaps)}
pm_try_release_pages(a, bytes) ==
  /\ Callable
  /\ PagesAt(a, bytes) \cap (ImagePages \cup OwnPages) = {}
  /\ op' = LockOp("release", PageOf(a), PagesOfCall(bytes))
  /\ UNCHANGED <<bitmaps, first_free_bitmap, mem_info, next_bitmap_page, boot,
                 creation, halted, granted>>

-----------------------------------------------------------------------------
(* Mutant: a locked page does not reset the count of pages found.          *)
Scan_NoReset ==
  /\ Running
  /\ op.name = "scan"
  /\ op.left > 0 /\ op.page < BITMAP_SIZE
  /\ op' = IF op.page \in bitmaps[first_free_bitmap].map
           THEN [op EXCEPT !.page = @ + 1, !.start = op.page + 1]
           ELSE [op EXCEPT !.page = @ + 1, !.left = @ - 1]
  /\ UNCHANGED <<bitmaps, first_free_bitmap, mem_info, next_bitmap_page, boot,
                 creation, halted, granted>>

(* One iteration of pm_request_pages' loop over the bits after the hint.   *)
(* start is start_index, and left is what found lacks of num.              *)
Scan ==
  /\ Running
  /\ op.name = "scan"
  /\ op.left > 0 /\ op.page < BITMAP_SIZE
  /\ LET taken == op.page \in bitmaps[first_free_bitmap].map
     IN  op' = [name |-> "scan", page |-> op.page + 1,
                left |-> IF taken THEN op.num ELSE op.left - 1, ok |-> TRUE,
                start |-> IF taken THEN op.page + 1 ELSE op.start,
                num |-> op.num]
  /\ UNCHANGED <<bitmaps, first_free_bitmap, mem_info, next_bitmap_page, boot,
                 creation, halted, granted>>

(* The loop ends when num pages were found or the bitmap is over; the      *)
(* manager does not look which, and locks num pages from start_index.      *)
ScanDone ==
  /\ Running
  /\ op.name = "scan"
  /\ op.left = 0 \/ op.page >= BITMAP_SIZE
  /\ op' = LockOp("take",
                  TOPADDR(bitmaps[first_free_bitmap].index, op.start),
                  IF op.num = 0 THEN 1 ELSE op.num)
  /\ UNCHANGED <<bitmaps, first_free_bitmap, mem_info, next_bitmap_page, boot,
                 creation, halted, granted>>

(* Mutant: the loop does not advance after a collision.                    *)
NextPage_Stuck(ok) ==
  IF ok THEN [op EXCEPT !.page = @ + 1, !.left = @ - 1]
        ELSE [op EXCEPT !.ok = FALSE]

(* The end of one page of a lock, take or release loop.                    *)
NextPage(ok) ==
  [name |-> op.name, page |-> op.page + 1, left |-> op.left - 1,
   ok |-> (op.ok /\ ok), start |-> op.start, num |-> op.num]

(* pm_try_lock_page(op.page), with the bitmap of the page at position at.  *)
LockIn(at) ==
  \E s \in pm_try_lock_page(bitmaps, first_free_bitmap, at, op.page) :
    /\ bitmaps' = s.bitmaps
    /\ first_free_bitmap' = s.ffb
    /\ mem_info' = IF s.ok /\ s.ffb # 0 THEN Charge(mem_info) ELSE mem_info
    /\ halted' = IF s.ffb = 0 THEN "lost" ELSE halted
    /\ op' = NextPage(s.ok)
    /\ granted' = granted

(* pm_try_release_page(op.page), likewise.                                 *)
ReleaseIn(at) ==
  \E s \in pm_try_release_page(bitmaps, first_free_bitmap, at, op.page) :
    /\ bitmaps' = s.bitmaps
    /\ first_free_bitmap' = s.ffb
    /\ mem_info' = IF s.ok THEN Refund(mem_info) ELSE mem_info
    /\ halted' = halted
    /\ op' = NextPage(s.ok)
    /\ granted' = granted \ {op.page}

SetIn(at) ==
  \/ op.name \in {"lock", "take"} /\ LockIn(at)
  \/ op.name = "release" /\ ReleaseIn(at)

(* try_set_page when the page's region has a bitmap.                       *)
SetPage ==
  /\ Running
  /\ op.name \in {"lock", "take", "release"} /\ op.left > 0
  /\ \E at \in find_bitmap_by_index(bitmaps, TOBITMAP(op.page)) : SetIn(at)
  /\ UNCHANGED <<next_bitmap_page, boot, creation>>

(* The return of pm_try_lock_pages and of pm_try_release_pages.            *)
Return ==
  /\ Running
  /\ op.name \in {"lock", "release"} /\ op.left = 0
  /\ op' = NoOp
  /\ UNCHANGED <<bitmaps, first_free_bitmap, mem_info, next_bitmap_page, boot,
                 creation, halted, granted>>

(* pm_request_pages asserts that no page collided, and returns.            *)
ReturnPages ==
  /\ Running
  /\ op.name = "take" /\ op.left = 0
  /\ op' = NoOp
  /\ IF op.ok
     THEN /\ halted' = halted
          /\ granted' = granted \cup (op.start .. (op.start + op.num - 1))
     ELSE halted' = "assert_request_pages" /\ granted' = granted
  /\ UNCHANGED <<bitmaps, first_free_bitmap, mem_info, next_bitmap_page, boot,
                 creation>>

-----------------------------------------------------------------------------
(* create_bitmap for the region of op.page.                                *)

(* mm_alloc.  Before mm_init, which runs after pm_init, its lists are not  *)
(* initialised and it stops on an assertion; later it makes some page      *)
(* requests, or does not come back (mapping its new page may fault).       *)
CallHeap ==
  /\ Running
  /\ op.name \in {"lock", "take", "release"} /\ op.left > 0
  /\ find_bitmap_by_index(bitmaps, TOBITMAP(op.page)) = {}
  /\ IF ~Booted THEN halted' = "assert_heap" /\ creation' = creation
     ELSE \/ /\ halted' = halted
             /\ \E n \in HeapGrowth :
                  creation' = [phase |-> "heap", left |-> n, at |-> 0]
          \/ halted' = "fault" /\ creation' = creation
  /\ UNCHANGED <<bitmaps, first_free_bitmap, mem_info, next_bitmap_page, boot,
                 op, granted>>

(* One page request of the heap: the heap keeps the page.                  *)
HeapRequest ==
  /\ halted = "no"
  /\ creation.phase = "heap" /\ creation.left > 0
  /\ \E s \in pm_request_page(bitmaps, first_free_bitmap, mem_info) :
       /\ bitmaps' = s.bitmaps
       /\ first_free_bitmap' = s.ffb
       /\ mem_info' = s.mem_info
       /\ halted' = s.halted
       /\ granted' = IF s.halted = "no" THEN granted \cup {s.page}
                     ELSE granted
  /\ creation' = [creation EXCEPT !.left = @ - 1]
  /\ UNCHANGED <<next_bitmap_page, boot, op>>

(* Where create_bitmap links the new bitmap: before the first bitmap of a  *)
(* higher region, else at the end of the list.                             *)
InsertPosition(bms, index) ==
  LET higher == {k \in 1..Len(bms) : bms[k].index > index}
  IN  IF higher = {} THEN {Len(bms) + 1}
      ELSE {k \in higher : \A j \in higher : k <= j}

InsertBitmap(bms, k, bm) == SubSeq(bms, 1, k - 1) \o <<bm>> \o SubSeq(bms, k, Len(bms))

(* The rest of create_bitmap: clear the kept page through its physical     *)
(* address, link the bitmap, whose index stays 0 whatever region it is     *)
(* for, and keep another page.  The clearing runs over into the page       *)
(* behind.  What else than bitmaps lies there is not known here, a page of *)
(* the heap perhaps or a page table: the kernel goes on, or it is lost.    *)
create_bitmap ==
  /\ halted = "no"
  /\ creation.phase = "heap" /\ creation.left = 0
  /\ \/ /\ halted' = IF next_bitmap_page = 0 THEN "assert_null"
                      ELSE IF {next_bitmap_page, next_bitmap_page + 1} \subseteq IdentityMapped
                      THEN "lost" ELSE "fault"
        /\ UNCHANGED <<bitmaps, first_free_bitmap, mem_info,
                       next_bitmap_page, creation>>
     \/ /\ next_bitmap_page # 0
        /\ {next_bitmap_page, next_bitmap_page + 1} \subseteq IdentityMapped
        /\ \E k \in InsertPosition(bitmaps, TOBITMAP(op.page)) :
             LET linked == InsertBitmap(mem_set(bitmaps, next_bitmap_page), k,
                                        bitmap_from(next_bitmap_page))
                 f == IF first_free_bitmap >= k THEN first_free_bitmap + 1
                      ELSE first_free_bitmap
             IN  \E s \in pm_request_page(linked, f, mem_info) :
                   /\ bitmaps' = s.bitmaps
                   /\ first_free_bitmap' = s.ffb
                   /\ mem_info' = s.mem_info
                   /\ halted' = s.halted
                   /\ next_bitmap_page' = IF s.halted = "no" THEN s.page
                                          ELSE next_bitmap_page
                   /\ creation' = [phase |-> "set", left |-> 0, at |-> k]
  /\ UNCHANGED <<boot, op, granted>>

(* Back in try_set_page, on the bitmap just created.                       *)
SetCreated ==
  /\ halted = "no"
  /\ creation.phase = "set"
  /\ SetIn(creation.at)
  /\ creation' = NoCreation
  /\ UNCHANGED <<next_bitmap_page, boot>>

-----------------------------------------------------------------------------
Boot == compute_mem_size \/ LockKernel \/ KeepBitmapPage

Call ==
  \/ RequestPage
  \/ \E b \in Sizes : pm_request_bytes(b)
  \/ \E a \in Addrs, b \in Sizes : pm_try_lock_pages(a, b)
  \/ \E a \in Addrs, b \in Sizes : pm_try_release_pages(a, b)

Continue ==
  \/ Scan \/ ScanDone \/ SetPage \/ Return \/ ReturnPages
  \/ CallHeap \/ HeapRequest \/ create_bitmap \/ SetCreated

Next == Boot \/ Call \/ Continue

Spec == Init /\ [][Next]_vars

(* A call that has been entered runs: nothing preempts it but interrupt    *)
(* handlers that return.                                                   *)
FairSpec == Spec /\ WF_vars(Boot) /\ WF_vars(Continue)
-----------------------------------------------------------------------------
(* Properties.                                                             *)

Reasons == {"swapping", "assert_request_page", "assert_request_pages",
            "assert_heap", "assert_null", "fault", "lost"}
MemBitmap == [index : Nat, page : Nat, first_free : Nat,
              map : SUBSET (0..(BITMAP_SIZE - 1)), unset : Int]
Counters == [used : 0..(SIZE_MAX - 1), free : 0..(SIZE_MAX - 1)]
Op == [name : {"none", "lock", "take", "release", "scan"}, page : Nat,
       left : Nat, ok : BOOLEAN, start : Nat, num : Nat]
Creation == [phase : {"none", "heap", "set"}, left : Nat, at : Nat]

(* Every variable has the type of the object it stands for; the pointer    *)
(* first_free_bitmap is wild (0) only in a kernel that is lost.            *)
TypeOK ==
  /\ bitmaps \in Seq(MemBitmap) /\ Len(bitmaps) > 0
  /\ first_free_bitmap \in 0..Len(bitmaps)
  /\ first_free_bitmap = 0 => halted = "lost"
  /\ mem_info \in Counters
  /\ next_bitmap_page \in Nat
  /\ boot \in 1..(Len(mem_map) + 3)
  /\ op \in Op
  /\ creation \in Creation
  /\ creation.phase = "set" => creation.at \in 1..Len(bitmaps)
  /\ halted \in {"no"} \cup Reasons
  /\ granted \subseteq Nat

Single == Len(bitmaps) = 1

(* While only the first region is tracked, the hint that pm_request_page   *)
(* follows without looking names the lowest free page, after every page    *)
(* locked or released in any order.                                        *)
HintExact ==
  halted = "no" /\ Single =>
    LET bm == bitmaps[1]
    IN  /\ first_free_bitmap = 1
        /\ bm.first_free \in 0..(BITMAP_SIZE - 1)
        /\ bm.first_free \notin bm.map
        /\ \A i \in 0..(bm.first_free - 1) : i \in bm.map

(* The assertions of pm_request_page and of pm_request_pages that the      *)
(* pages they chose could be locked hold while only the first region is    *)
(* tracked.                                                                *)
RequestsDoNotCollide ==
  Single => halted \notin {"assert_request_page", "assert_request_pages"}

(* No later bitmap was made in the page before this one's: its bits are    *)
(* those that were set.                                                    *)
Intact(k) == \A j \in (k + 1)..Len(bitmaps) : bitmaps[j].page + 1 # bitmaps[k].page

(* struct bitmap's unset counter, on which find_first_free_bitmap relies,  *)
(* never claims a free page too many, and it is the number of clear bits   *)
(* unless mem_set has run over the bitmap (mem.c:19).                      *)
UnsetExact ==
  \A k \in 1..Len(bitmaps) :
    LET clear == BITMAP_SIZE - Cardinality(bitmaps[k].map)
    IN  bitmaps[k].unset <= clear /\ (Intact(k) => bitmaps[k].unset = clear)

(* Bytes of the first i segments, and of those compute_mem_size has seen.  *)
SegmentBytes[i \in 0..Len(mem_map)] ==
  IF i = 0 THEN 0 ELSE SegmentBytes[i - 1] + mem_map[i].length
SeenBytes ==
  SegmentBytes[IF boot > Len(mem_map) THEN Len(mem_map) ELSE boot - 1]

LockedPages == {kp \in (1..Len(bitmaps)) \X (0..(BITMAP_SIZE - 1)) :
                  kp[2] \in bitmaps[kp[1]].map}

(* The bytes counted as used are those of the locked pages, as long as no  *)
(* bitmap lost bits to mem_set, and used and free together are the memory  *)
(* map's total, as size_t, whatever sequence of calls, collisions and      *)
(* nested requests led here.                                               *)
Accounting ==
  halted = "no" =>
    /\ (\A k \in 1..Len(bitmaps) : Intact(k)) =>
         mem_info.used = (PAGE_SIZE * Cardinality(LockedPages)) % SIZE_MAX
    /\ (mem_info.used + mem_info.free) % SIZE_MAX = SeenBytes % SIZE_MAX

(* pm_request_pages is first-fit: the pages from start_index on that it    *)
(* has looked at are free, and no run of num free pages starts between the *)
(* hint and start_index.                                                   *)
ScanIsFirstFit ==
  halted = "no" /\ op.name = "scan" =>
    LET bm == bitmaps[first_free_bitmap]
    IN  /\ \A i \in op.start..(op.page - 1) : i \notin bm.map
        /\ op.left = op.num - (op.page - op.start)
        /\ \A s \in bm.first_free..(op.start - 1) :
             \E i \in s..(s + op.num - 1) : i \in bm.map

(* Pages of the first region that were handed out and not released stay    *)
(* locked, and a run that pm_request_pages is about to return holds none   *)
(* that another caller still has, also while bitmaps of further regions    *)
(* are created in between.  (Of a higher region a page can be granted      *)
(* twice, since its bitmap is never found again: pm.c:137.)                *)
Ownership ==
  /\ \A p \in granted : p < BITMAP_SIZE => p \in bitmaps[1].map
  /\ op.name = "take" /\ op.ok =>
       \A p \in op.start..(op.page - 1) : p < BITMAP_SIZE => p \notin granted

(* Every call that was entered returns or stops the kernel.                *)
CallsReturn == (op # NoOp) ~> (op = NoOp \/ halted # "no")

(* The contract of PageAllocator.  Pages that a pm_request_pages call has  *)
(* locked and not yet returned are not taken as far as others can tell.    *)
(* The contract ends with the first bitmap of a higher region.             *)
InFlight ==
  IF op.name = "take" THEN op.start..(op.page - 1) ELSE {}
InContract == halted = "no" /\ Single
Contract == INSTANCE PageAllocator WITH
  NumPages <- BITMAP_SIZE,
  locked <- IF InContract THEN bitmaps[1].map \ InFlight ELSE {},
  granted <- IF InContract THEN granted ELSE {},
  down <- ~InContract

(* With a single region the manager implements the contract: requests are  *)
(* atomic, first-fit and exclusive although pages are locked one by one.   *)
ImplementsContract == Contract!Spec

(* pm_request_page asserts that the page under its hint can be locked:     *)
(* true of one region, not of two.                                         *)
RequestLocksItsPage == halted # "assert_request_page"
=============================================================================
