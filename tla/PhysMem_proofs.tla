--------------------------- MODULE PhysMem_proofs ---------------------------
(***************************************************************************)
(* Proofs about PhysMem, for every page size, region size, memory map,     *)
(* caller and bound.                                                       *)
(***************************************************************************)
EXTENDS PhysMem, SequenceTheorems, FiniteSetTheorems, TLAPS

USE SizesAssumption

-----------------------------------------------------------------------------
(* Facts about addresses and counters.                                     *)

(* Every page has a region and an index inside it.                         *)
LEMMA PageSplit ==
  ASSUME NEW p \in Nat
  PROVE  /\ TOBITMAP(p) \in Nat
         /\ TOINDEX(p) \in 0..(BITMAP_SIZE - 1)
         /\ TOBITMAP(p) = 0 => p < BITMAP_SIZE
         /\ p < BITMAP_SIZE => TOBITMAP(p) = 0 /\ TOINDEX(p) = p
BY DEF TOBITMAP, TOINDEX

(* Address arithmetic stays among the natural numbers.                     *)
LEMMA PagesAreNat ==
  ASSUME NEW a \in Nat
  PROVE  PAGES(a) \in Nat /\ PageOf(a) \in Nat /\ PagesOfCall(a) \in Nat
BY DEF PAGES, PageOf, PagesOfCall

(* Updating the byte counters keeps them in the range of size_t.           *)
LEMMA CountersWrap ==
  ASSUME NEW mi \in [used : 0..(SIZE_MAX - 1), free : 0..(SIZE_MAX - 1)],
         NEW n \in Int
  PROVE  /\ Charge(mi) \in [used : 0..(SIZE_MAX - 1), free : 0..(SIZE_MAX - 1)]
         /\ Refund(mi) \in [used : 0..(SIZE_MAX - 1), free : 0..(SIZE_MAX - 1)]
         /\ n % SIZE_MAX \in 0..(SIZE_MAX - 1)
<1>1. \A x \in Int : x % SIZE_MAX \in 0..(SIZE_MAX - 1)
  OBVIOUS
<1>2. mi.used \in Int /\ mi.free \in Int /\ PAGE_SIZE \in Int
  OBVIOUS
<1>3. /\ (mi.used + PAGE_SIZE) % SIZE_MAX \in 0..(SIZE_MAX - 1)
      /\ (mi.free - PAGE_SIZE) % SIZE_MAX \in 0..(SIZE_MAX - 1)
      /\ (mi.used - PAGE_SIZE) % SIZE_MAX \in 0..(SIZE_MAX - 1)
      /\ (mi.free + PAGE_SIZE) % SIZE_MAX \in 0..(SIZE_MAX - 1)
  <2> DEFINE u == mi.used  f == mi.free
  <2>1. u + PAGE_SIZE \in Int /\ f - PAGE_SIZE \in Int
        /\ u - PAGE_SIZE \in Int /\ f + PAGE_SIZE \in Int
    BY <1>2
  <2> QED  BY ONLY <1>1, <2>1
<1>4. Charge(mi) \in [used : 0..(SIZE_MAX - 1), free : 0..(SIZE_MAX - 1)]
  BY ONLY <1>3 DEF Charge
<1>5. Refund(mi) \in [used : 0..(SIZE_MAX - 1), free : 0..(SIZE_MAX - 1)]
  BY ONLY <1>3 DEF Refund
<1> QED  BY ONLY <1>1, <1>4, <1>5, n \in Int

-----------------------------------------------------------------------------
(* What the searches return.  BelowLocked(bm, h): the pages under h are    *)
(* locked.  Exact(bm): the bitmap's hint is its lowest free page.          *)

WellFormed(bms) ==
  /\ bms \in Seq(MemBitmap) /\ Len(bms) > 0
  /\ \A k \in 1..Len(bms) : bms[k].index = 0

BelowLocked(bm, h) == \A i \in 0..(h - 1) : i \in bm.map

Exact(bm) ==
  /\ bm.first_free \in 0..(BITMAP_SIZE - 1)
  /\ bm.first_free \notin bm.map
  /\ BelowLocked(bm, bm.first_free)

(* The effects on the bits and their counters, which every operation       *)
(* below is shown to have one of: none, bit i of bms[at] set or cleared.   *)
(* No operation moves a bitmap to another page.                            *)
BitsKept(bms, new) ==
  \A k \in 1..Len(bms) :
    /\ new[k].map = bms[k].map /\ new[k].unset = bms[k].unset
    /\ new[k].page = bms[k].page

OthersKept(bms, new, at) ==
  \A k \in 1..Len(bms) :
    /\ k # at => new[k].map = bms[k].map /\ new[k].unset = bms[k].unset
    /\ new[k].page = bms[k].page

BitSet(bms, new, at, i) ==
  /\ i \in 0..(BITMAP_SIZE - 1) /\ i \notin bms[at].map
  /\ new[at].map = bms[at].map \cup {i}
  /\ new[at].unset = bms[at].unset - 1
  /\ OthersKept(bms, new, at)

BitCleared(bms, new, at, i) ==
  /\ i \in bms[at].map
  /\ new[at].map = bms[at].map \ {i}
  /\ new[at].unset = bms[at].unset + 1
  /\ OthersKept(bms, new, at)

(* What every search leaves: a well-formed list of the same length, and,   *)
(* when it is a single bitmap that the pointer still names, an exact hint. *)
Searched(bms, s) ==
  /\ WellFormed(s.bitmaps) /\ Len(s.bitmaps) = Len(bms)
  /\ s.ffb \in 0..Len(bms)
  /\ BitsKept(bms, s.bitmaps)
  /\ Len(bms) = 1 /\ s.ffb # 0 => Exact(s.bitmaps[1])

(* Changing one member of one bitmap keeps the list well-formed.           *)
LEMMA UpdateBitmap ==
  ASSUME NEW bms, WellFormed(bms), NEW k \in 1..Len(bms),
         NEW bm \in MemBitmap, bm.index = 0
  PROVE  /\ WellFormed([bms EXCEPT ![k] = bm])
         /\ Len([bms EXCEPT ![k] = bm]) = Len(bms)
         /\ [bms EXCEPT ![k] = bm][k] = bm
         /\ \A j \in 1..Len(bms) : j # k => [bms EXCEPT ![k] = bm][j] = bms[j]
BY DEF WellFormed

(* A search for another bitmap names a bitmap of the list or none.         *)
LEMMA FindBitmap ==
  ASSUME NEW bms, WellFormed(bms), NEW f \in 1..Len(bms),
         NEW g \in find_first_free_bitmap(bms, f)
  PROVE  g \in 0..Len(bms) /\ (Len(bms) = 1 => g = 0)
BY DEF find_first_free_bitmap, WellFormed

(* Setting or clearing a bit changes neither the index nor the hint.       *)
LEMMA BitmapSet ==
  ASSUME NEW bm \in MemBitmap, NEW i \in 0..(BITMAP_SIZE - 1),
         NEW v \in BOOLEAN
  PROVE  /\ bitmap_set(bm, i, v) \in MemBitmap
         /\ bitmap_set(bm, i, v).index = bm.index
         /\ bitmap_set(bm, i, v).first_free = bm.first_free
         /\ bitmap_set(bm, i, v).page = bm.page
         /\ v => /\ bitmap_set(bm, i, v).map = bm.map \cup {i}
                 /\ bitmap_set(bm, i, v).unset = bm.unset - 1
         /\ ~v => /\ bitmap_set(bm, i, v).map = bm.map \ {i}
                  /\ bitmap_set(bm, i, v).unset = bm.unset + 1
<1>1. CASE v
  <2> DEFINE new == [bm EXCEPT !.map = @ \cup {i}, !.unset = @ - 1]
  <2>1. bitmap_set(bm, i, v) = new
    BY <1>1 DEF bitmap_set
  <2>2. new \in MemBitmap /\ new.index = bm.index /\ new.map = bm.map \cup {i}
        /\ new.first_free = bm.first_free /\ new.page = bm.page
        /\ new.unset = bm.unset - 1
    <3>1. /\ bm.map \cup {i} \in SUBSET (0..(BITMAP_SIZE - 1))
          /\ bm.unset - 1 \in Int
      BY DEF MemBitmap
    <3> QED  BY <3>1 DEF MemBitmap
  <2> QED  BY <1>1, <2>1, <2>2
<1>2. CASE ~v
  <2> DEFINE new == [bm EXCEPT !.map = @ \ {i}, !.unset = @ + 1]
  <2>1. bitmap_set(bm, i, v) = new
    BY <1>2 DEF bitmap_set
  <2>2. new \in MemBitmap /\ new.index = bm.index /\ new.map = bm.map \ {i}
        /\ new.first_free = bm.first_free /\ new.page = bm.page
        /\ new.unset = bm.unset + 1
    <3>1. /\ bm.map \ {i} \in SUBSET (0..(BITMAP_SIZE - 1))
          /\ bm.unset + 1 \in Int
      BY DEF MemBitmap
    <3> QED  BY <3>1 DEF MemBitmap
  <2> QED  BY <1>2, <2>1, <2>2
<1> QED  BY <1>1, <1>2

(* Storing a hint in a bitmap.                                             *)
LEMMA SetHint ==
  ASSUME NEW bms, WellFormed(bms), NEW f \in 1..Len(bms), NEW h \in Nat
  PROVE  LET new == [bms EXCEPT ![f].first_free = h]
         IN  /\ WellFormed(new) /\ Len(new) = Len(bms)
             /\ new[f].first_free = h /\ new[f].map = bms[f].map
             /\ new[f].index = 0 /\ BitsKept(bms, new)
<1>1. bms[f] \in MemBitmap /\ bms[f].index = 0
  BY DEF WellFormed
<1> DEFINE bm == [bms[f] EXCEPT !.first_free = h]
<1>2. bm \in MemBitmap /\ bm.index = 0 /\ bm.first_free = h
      /\ bm.map = bms[f].map /\ bm.unset = bms[f].unset
      /\ bm.page = bms[f].page
  BY <1>1 DEF MemBitmap
<1>3. [bms EXCEPT ![f].first_free = h] = [bms EXCEPT ![f] = bm]
  OBVIOUS
<1> HIDE DEF bm
<1>4. /\ WellFormed([bms EXCEPT ![f] = bm])
      /\ Len([bms EXCEPT ![f] = bm]) = Len(bms)
      /\ [bms EXCEPT ![f] = bm][f] = bm
      /\ \A k \in 1..Len(bms) : k # f => [bms EXCEPT ![f] = bm][k] = bms[k]
  BY <1>2, UpdateBitmap
<1> QED  BY <1>1, <1>2, <1>3, <1>4 DEF BitsKept

(* The search from h on finds the lowest free page when all below h are    *)
(* locked.                                                                 *)
LEMMA SearchFromSound ==
  ASSUME NEW bms, WellFormed(bms), NEW f \in 1..Len(bms), NEW h \in Nat,
         Len(bms) = 1 => BelowLocked(bms[1], h),
         NEW s \in SearchFrom(bms, f, h)
  PROVE  Searched(bms, s)
<1> DEFINE free == {i \in h..(BITMAP_SIZE - 1) : i \notin bms[f].map}
           first == IF free # {} THEN {i \in free : \A j \in free : i <= j}
                    ELSE {IF h < BITMAP_SIZE THEN BITMAP_SIZE ELSE h}
           new(i) == [bms EXCEPT ![f].first_free = i]
<1>1. \A i \in first : i \in Nat
  OBVIOUS
<1>2. CASE \E i \in first : i < BITMAP_SIZE
                           /\ s = [bitmaps |-> new(i), ffb |-> f]
  <2>1. PICK i \in first : i < BITMAP_SIZE
                          /\ s = [bitmaps |-> new(i), ffb |-> f]
    BY <1>2
  <2>2. /\ WellFormed(new(i)) /\ Len(new(i)) = Len(bms)
        /\ new(i)[f].first_free = i /\ new(i)[f].map = bms[f].map
        /\ BitsKept(bms, new(i))
    <3>1. i \in Nat
      BY <1>1, <2>1
    <3>2. /\ WellFormed(new(i)) /\ Len(new(i)) = Len(bms)
          /\ new(i)[f].first_free = i /\ new(i)[f].map = bms[f].map
      BY <3>1, SetHint
    <3>3. BitsKept(bms, new(i))
      BY <3>1, SetHint
    <3> QED  BY <3>2, <3>3
  <2>3. i \in free /\ \A j \in free : i <= j
    BY <2>1
  <2>4. ASSUME Len(bms) = 1  PROVE  Exact(new(i)[1])
    <3>1. f = 1 /\ i \in h..(BITMAP_SIZE - 1) /\ i \notin bms[1].map
      BY <2>3, <2>4
    <3>2. \A j \in 0..(i - 1) : j \in bms[1].map
      BY <2>3, <2>4, <3>1 DEF BelowLocked
    <3> QED  BY <2>2, <3>1, <3>2 DEF Exact, BelowLocked
  <2> QED  BY <2>1, <2>2, <2>4 DEF Searched
<1>3. CASE \E i \in first : \E g \in find_first_free_bitmap(new(i), f) :
             s = [bitmaps |-> new(i), ffb |-> g]
  <2>0. PICK i \in first : \E g \in find_first_free_bitmap(new(i), f) :
               s = [bitmaps |-> new(i), ffb |-> g]
    BY <1>3
  <2>1. PICK g \in find_first_free_bitmap(new(i), f) :
               s = [bitmaps |-> new(i), ffb |-> g]
    BY <2>0
  <2>2. WellFormed(new(i)) /\ Len(new(i)) = Len(bms)
        /\ BitsKept(bms, new(i))
    <3>1. i \in Nat
      BY <1>1, <2>0
    <3> QED  BY <3>1, SetHint
  <2>3. g \in 0..Len(bms) /\ (Len(bms) = 1 => g = 0)
    BY <2>1, <2>2, FindBitmap
  <2> QED  BY <2>1, <2>2, <2>3 DEF Searched
<1>4. \/ \E i \in first : i < BITMAP_SIZE /\ s = [bitmaps |-> new(i), ffb |-> f]
      \/ \E i \in first : \E g \in find_first_free_bitmap(new(i), f) :
           s = [bitmaps |-> new(i), ffb |-> g]
  <2>1. SearchFrom(bms, f, h) =
          {[bitmaps |-> new(i), ffb |-> f] : i \in {k \in first : k < BITMAP_SIZE}}
          \cup
          UNION {{[bitmaps |-> new(i), ffb |-> g] :
                   g \in find_first_free_bitmap(new(i), f)} :
                 i \in {k \in first : k >= BITMAP_SIZE}}
    BY Zenon DEF SearchFrom
  <2> HIDE DEF first, new
  <2> QED  BY <2>1
<1> QED  BY <1>2, <1>3, <1>4

(* find_first_free_index and find_first_free_bitmap together.              *)
LEMMA SettleSound ==
  ASSUME NEW bms, WellFormed(bms), NEW f \in 1..Len(bms),
         Len(bms) = 1 => BelowLocked(bms[1], bms[1].first_free),
         NEW s \in Settle(bms, f)
  PROVE  Searched(bms, s)
<1>1. ASSUME NEW k \in 1..Len(bms)  PROVE bms[k].first_free \in Nat
  <2>1. bms[k] \in MemBitmap
    BY DEF WellFormed
  <2> QED  BY <2>1 DEF MemBitmap
<1>2. CASE bms[f].first_free < BITMAP_SIZE
  BY <1>1, <1>2, SearchFromSound DEF Settle
<1>3. CASE ~(bms[f].first_free < BITMAP_SIZE)
  <2>1. PICK g \in find_first_free_bitmap(bms, f) :
               s \in IF g = 0 THEN {[bitmaps |-> bms, ffb |-> 0]}
                     ELSE SearchFrom(bms, g, bms[g].first_free + 1)
    BY <1>3 DEF Settle
  <2>2. g \in 0..Len(bms) /\ (Len(bms) = 1 => g = 0)
    BY FindBitmap
  <2>3. CASE g = 0
    BY <2>1, <2>3 DEF Searched, BitsKept
  <2>4. CASE g # 0
    BY <1>1, <2>1, <2>2, <2>4, SearchFromSound
  <2> QED  BY <2>3, <2>4
<1> QED  BY <1>2, <1>3
(* A bitmap that is found covers the first region, the only one named.     *)
LEMMA FindIndex ==
  ASSUME NEW bms, WellFormed(bms), NEW p \in Nat,
         NEW at \in find_bitmap_by_index(bms, TOBITMAP(p))
  PROVE  /\ at \in 1..Len(bms) /\ at = 1
         /\ TOBITMAP(p) = 0 /\ p < BITMAP_SIZE /\ TOINDEX(p) = p
<1>1. at \in 1..Len(bms) /\ bms[at].index = TOBITMAP(p)
  BY DEF find_bitmap_by_index
<1>2. TOBITMAP(p) = 0
  BY <1>1 DEF WellFormed
<1>3. at = 1
  <2>1. 1 \in 1..Len(bms) /\ bms[1].index = TOBITMAP(p)
    BY <1>2 DEF WellFormed
  <2> QED  BY <1>1, <2>1 DEF find_bitmap_by_index
<1> QED  BY <1>1, <1>2, <1>3, PageSplit

(* What locking page p of the bitmap at position at leaves.                *)
Locked(bms, f, at, p, s) ==
  /\ WellFormed(s.bitmaps) /\ Len(s.bitmaps) = Len(bms)
  /\ s.ffb \in 0..Len(bms)
  /\ s.ok \in BOOLEAN /\ (s.ok <=> TOINDEX(p) \notin bms[at].map)
  /\ ~s.ok => s.bitmaps = bms /\ s.ffb = f
  /\ s.ok => BitSet(bms, s.bitmaps, at, TOINDEX(p))
  /\ s.ok /\ Len(bms) = 1 /\ s.ffb # 0 => Exact(s.bitmaps[1])

(* The pages under the hint, other than the page itself, are locked before *)
(* a page is; afterwards the hint is exact.                                *)
LEMMA LockPageSound ==
  ASSUME NEW bms, WellFormed(bms), NEW f \in 1..Len(bms),
         NEW at \in 1..Len(bms), NEW p \in Nat,
         Len(bms) = 1 => /\ TOBITMAP(p) = 0
                         /\ \A i \in 0..(bms[1].first_free - 1) :
                              i \in bms[1].map \cup {TOINDEX(p)},
         NEW s \in pm_try_lock_page(bms, f, at, p)
  PROVE  Locked(bms, f, at, p, s)
<1> DEFINE set == [bms EXCEPT ![at] = bitmap_set(@, TOINDEX(p), TRUE)]
           settled == IF set[f].index = TOBITMAP(p) THEN Settle(set, f)
                      ELSE {[bitmaps |-> set, ffb |-> f]}
<1>1. CASE TOINDEX(p) \in bms[at].map
  <2>1. s = [bitmaps |-> bms, ffb |-> f, ok |-> FALSE]
    BY <1>1 DEF pm_try_lock_page
  <2>2. s.bitmaps = bms /\ s.ffb = f /\ s.ok = FALSE
    BY <2>1
  <2>3. f \in 0..Len(bms)
    OBVIOUS
  <2> QED  BY <1>1, <2>2, <2>3, Zenon DEF Locked
<1>2. CASE TOINDEX(p) \notin bms[at].map
  <2>1. TOINDEX(p) \in 0..(BITMAP_SIZE - 1)
    BY PageSplit
  <2>a. bms[at] \in MemBitmap /\ bms[at].index = 0
    BY DEF WellFormed
  <2> DEFINE bm == bitmap_set(bms[at], TOINDEX(p), TRUE)
  <2>2. /\ bm \in MemBitmap /\ bm.index = 0 /\ bm.page = bms[at].page
        /\ bm.first_free = bms[at].first_free
        /\ bm.map = bms[at].map \cup {TOINDEX(p)}
        /\ bm.unset = bms[at].unset - 1
    <3> DEFINE old == bms[at]  i == TOINDEX(p)
    <3>1. old \in MemBitmap /\ old.index = 0 /\ i \in 0..(BITMAP_SIZE - 1)
          /\ TRUE \in BOOLEAN
      BY <2>1, <2>a
    <3> HIDE DEF old, i
    <3>2. LET new == bitmap_set(old, i, TRUE)
          IN  /\ new \in MemBitmap /\ new.index = 0 /\ new.page = old.page
              /\ new.first_free = old.first_free
              /\ new.map = old.map \cup {i} /\ new.unset = old.unset - 1
      BY <3>1, BitmapSet
    <3> QED  BY <3>2 DEF old, i
  <2>3. set = [bms EXCEPT ![at] = bm]
    OBVIOUS
  <2>7. PICK t \in settled : s = [bitmaps |-> t.bitmaps, ffb |-> t.ffb, ok |-> TRUE]
    BY <1>2 DEF pm_try_lock_page
  <2> HIDE DEF bm, set
  <2>4. /\ WellFormed(set) /\ Len(set) = Len(bms) /\ set[at] = bm
        /\ \A k \in 1..Len(bms) : k # at => set[k] = bms[k]
    <3>1. /\ WellFormed([bms EXCEPT ![at] = bm])
          /\ Len([bms EXCEPT ![at] = bm]) = Len(bms)
          /\ [bms EXCEPT ![at] = bm][at] = bm
          /\ \A k \in 1..Len(bms) : k # at => [bms EXCEPT ![at] = bm][k] = bms[k]
      BY <2>2, UpdateBitmap
    <3> QED  BY <2>3, <3>1
  <2>5. set[f].index = 0
    BY <2>4 DEF WellFormed
  <2>6. Len(bms) = 1 => BelowLocked(set[1], set[1].first_free)
    <3>1. Len(bms) = 1 => at = 1 /\ set[1] = bm
      BY <2>4
    <3> QED  BY <2>2, <3>1 DEF BelowLocked
  <2>8. Searched(set, t) \/ (t = [bitmaps |-> set, ffb |-> f] /\ Len(bms) # 1)
    <3>1. CASE TOBITMAP(p) = 0
      <4>1. t \in Settle(set, f)
        BY <2>5, <2>7, <3>1
      <4> QED  BY <2>4, <2>6, <4>1, SettleSound
    <3>2. CASE TOBITMAP(p) # 0
      BY <2>5, <2>7, <3>2
    <3> QED  BY <3>1, <3>2
  <2>9. s.bitmaps = t.bitmaps /\ s.ffb = t.ffb /\ s.ok = TRUE
    BY <2>7
  <2>b. BitSet(bms, set, at, TOINDEX(p))
    BY <1>2, <2>1, <2>2, <2>4 DEF BitSet, OthersKept
  <2>10. CASE Searched(set, t)
    <3>1. BitSet(bms, s.bitmaps, at, TOINDEX(p))
      BY <2>4, <2>9, <2>10, <2>b DEF Searched, BitSet, BitsKept, OthersKept
    <3> QED  BY <1>2, <2>4, <2>9, <2>10, <3>1 DEF Searched, Locked
  <2>11. CASE t = [bitmaps |-> set, ffb |-> f] /\ Len(bms) # 1
    <3>1. t.bitmaps = set /\ t.ffb = f
      BY <2>11
    <3>2. f \in 0..Len(bms)
      OBVIOUS
    <3> QED  BY <1>2, <2>4, <2>9, <2>11, <2>b, <3>1, <3>2, Zenon DEF Locked
  <2> QED  BY <2>8, <2>10, <2>11
<1> QED  BY <1>1, <1>2

(* What releasing page p of the bitmap at position at leaves.              *)
Released(bms, at, p, s) ==
  /\ WellFormed(s.bitmaps) /\ Len(s.bitmaps) = Len(bms)
  /\ s.ffb \in 1..Len(bms) /\ s.ok \in BOOLEAN
  /\ s.ok => BitCleared(bms, s.bitmaps, at, TOINDEX(p))
  /\ ~s.ok => s.bitmaps = bms /\ TOINDEX(p) \notin bms[at].map
  /\ Len(bms) = 1 => Exact(s.bitmaps[1])

(* Releasing a page lowers an exact hint to it when it lies below.         *)
LEMMA ReleasePageSound ==
  ASSUME NEW bms, WellFormed(bms), NEW f \in 1..Len(bms),
         NEW at \in 1..Len(bms), NEW p \in Nat,
         Len(bms) = 1 => TOBITMAP(p) = 0 /\ Exact(bms[1]),
         NEW s \in pm_try_release_page(bms, f, at, p)
  PROVE  Released(bms, at, p, s)
<1>1. CASE TOINDEX(p) \notin bms[at].map
  <2>1. s = [bitmaps |-> bms, ffb |-> f, ok |-> FALSE]
    BY <1>1 DEF pm_try_release_page
  <2>2. s.bitmaps = bms /\ s.ffb = f /\ s.ok = FALSE
    BY <2>1
  <2> QED  BY <1>1, <2>2 DEF Released
<1>2. CASE TOINDEX(p) \in bms[at].map
  <2> DEFINE cleared == [bms EXCEPT ![at] = bitmap_set(@, TOINDEX(p), FALSE)]
             bm == bitmap_set(bms[at], TOINDEX(p), FALSE)
             lower(k) == /\ TOBITMAP(p) = cleared[k].index
                         /\ TOINDEX(p) < cleared[k].first_free
  <2>1. /\ TOINDEX(p) \in 0..(BITMAP_SIZE - 1) /\ TOBITMAP(p) \in Nat
        /\ bms[at] \in MemBitmap /\ bms[at].index = 0 /\ bms[f].index = 0
    BY PageSplit DEF WellFormed
  <2>2. /\ bm \in MemBitmap /\ bm.index = 0 /\ bm.page = bms[at].page
        /\ bm.first_free = bms[at].first_free
        /\ bm.map = bms[at].map \ {TOINDEX(p)}
        /\ bm.unset = bms[at].unset + 1
    BY <2>1, BitmapSet
  <2>3. cleared = [bms EXCEPT ![at] = bm]
    OBVIOUS
  <2>4. /\ s.bitmaps = IF lower(f) THEN [cleared EXCEPT ![f].first_free = TOINDEX(p)]
                       ELSE cleared
        /\ s.ffb = f /\ s.ok = TRUE
    <3>1. ~(TOBITMAP(p) < bms[f].index)
      BY <2>1
    <3>2. pm_try_release_page(bms, f, at, p) =
            {[bitmaps |->
                IF lower(k) THEN [cleared EXCEPT ![k].first_free = TOINDEX(p)]
                ELSE cleared,
              ffb |-> k, ok |-> TRUE] : k \in {f}}
      BY <1>2, <3>1, Zenon DEF pm_try_release_page
    <3> HIDE DEF cleared, lower
    <3>3. s = [bitmaps |->
                IF lower(f) THEN [cleared EXCEPT ![f].first_free = TOINDEX(p)]
                ELSE cleared,
              ffb |-> f, ok |-> TRUE]
      BY <3>2
    <3> QED  BY <3>3
  <2> HIDE DEF bm, cleared
  <2>5. /\ WellFormed(cleared) /\ Len(cleared) = Len(bms) /\ cleared[at] = bm
        /\ \A k \in 1..Len(bms) : k # at => cleared[k] = bms[k]
    <3>1. /\ WellFormed([bms EXCEPT ![at] = bm])
          /\ Len([bms EXCEPT ![at] = bm]) = Len(bms)
          /\ [bms EXCEPT ![at] = bm][at] = bm
          /\ \A k \in 1..Len(bms) : k # at => [bms EXCEPT ![at] = bm][k] = bms[k]
      BY <2>2, UpdateBitmap
    <3> QED  BY <2>3, <3>1
  <2>6. LET new == [cleared EXCEPT ![f].first_free = TOINDEX(p)]
        IN  /\ WellFormed(new) /\ Len(new) = Len(cleared)
            /\ new[f].first_free = TOINDEX(p) /\ new[f].map = cleared[f].map
            /\ BitsKept(cleared, new)
    <3>1. f \in 1..Len(cleared) /\ TOINDEX(p) \in Nat
      BY <2>1, <2>5
    <3> QED  BY <2>5, <3>1, SetHint
  <2>7. WellFormed(s.bitmaps) /\ Len(s.bitmaps) = Len(bms)
    BY <2>4, <2>5, <2>6
  <2>8. ASSUME Len(bms) = 1  PROVE  Exact(s.bitmaps[1])
    <3>1. /\ f = 1 /\ at = 1 /\ Exact(bms[1]) /\ TOBITMAP(p) = cleared[f].index
          /\ cleared[1] = bm
      BY <2>2, <2>5, <2>8
    <3>2. CASE lower(f)
      <4>1. /\ s.bitmaps[1].first_free = TOINDEX(p)
            /\ s.bitmaps[1].map = bms[1].map \ {TOINDEX(p)}
            /\ TOINDEX(p) < bms[1].first_free
        BY <2>2, <2>4, <2>6, <3>1, <3>2
      <4> QED  BY <2>1, <3>1, <4>1 DEF Exact, BelowLocked
    <3>3. CASE ~lower(f)
      <4>1. /\ s.bitmaps[1].first_free = bms[1].first_free
            /\ s.bitmaps[1].map = bms[1].map \ {TOINDEX(p)}
            /\ ~(TOINDEX(p) < bms[1].first_free)
        BY <2>2, <2>4, <3>1, <3>3
      <4> QED  BY <2>1, <3>1, <4>1 DEF Exact, BelowLocked
    <3> QED  BY <3>2, <3>3
  <2>9. BitCleared(bms, s.bitmaps, at, TOINDEX(p))
    <3>1. BitCleared(bms, cleared, at, TOINDEX(p))
      BY <1>2, <2>2, <2>5 DEF BitCleared, OthersKept
    <3>2. BitsKept(cleared, s.bitmaps)
      BY <2>4, <2>6 DEF BitsKept
    <3> QED  BY <2>5, <3>1, <3>2 DEF BitCleared, BitsKept, OthersKept
  <2> QED  BY <2>4, <2>7, <2>8, <2>9 DEF Released
<1> QED  BY <1>1, <1>2

(* What a request for one page leaves: unless it stops the kernel, one     *)
(* page of the first bitmap is locked and charged.                         *)
Requested(bms, mi, s) ==
  /\ WellFormed(s.bitmaps) /\ Len(s.bitmaps) = Len(bms)
  /\ s.ffb \in 0..Len(bms) /\ s.page \in Nat /\ s.mem_info \in Counters
  /\ s.halted \in {"no", "swapping", "lost", "assert_request_page"}
  /\ s.ffb = 0 => s.halted = "lost"
  /\ Len(bms) = 1 => s.halted # "assert_request_page"
  /\ Len(bms) = 1 /\ s.halted = "no" => Exact(s.bitmaps[1])
  /\ BitsKept(bms, s.bitmaps) \/ BitSet(bms, s.bitmaps, 1, s.page)
  /\ s.halted = "no" => /\ BitSet(bms, s.bitmaps, 1, s.page)
                        /\ s.mem_info = Charge(mi)

(* A request follows an exact hint to a page that it can lock.             *)
LEMMA RequestPageSound ==
  ASSUME NEW bms, WellFormed(bms), NEW f \in 1..Len(bms), NEW mi \in Counters,
         Len(bms) = 1 => Exact(bms[1]),
         NEW s \in pm_request_page(bms, f, mi)
  PROVE  Requested(bms, mi, s)
<1> DEFINE h == bms[f].first_free
           p == TOPADDR(bms[f].index, h)
           stepped == [bms EXCEPT ![f].first_free = h + 1]
           at == find_bitmap_by_index(bms, TOBITMAP(p))
           Outcome(b, g, m, x) ==
             [bitmaps |-> b, ffb |-> g, mem_info |-> m, halted |-> x, page |-> p]
<1>1. h \in Nat /\ p = h
  <2>1. bms[f] \in MemBitmap /\ bms[f].index = 0
    BY DEF WellFormed
  <2> QED  BY <2>1 DEF MemBitmap, TOPADDR
<1>2. /\ WellFormed(stepped) /\ Len(stepped) = Len(bms)
      /\ stepped[f].first_free = h + 1 /\ stepped[f].map = bms[f].map
      /\ BitsKept(bms, stepped)
  <2>1. h + 1 \in Nat
    BY <1>1
  <2> HIDE DEF h
  <2> QED  BY <2>1, SetHint
<1>3. pm_request_page(bms, f, mi) =
        IF PAGE_SIZE > mi.free THEN {Outcome(bms, f, mi, "swapping")}
        ELSE IF at = {} THEN {Outcome(stepped, 0, mi, "lost")}
        ELSE UNION {
             {IF ~t.ok THEN Outcome(t.bitmaps, t.ffb, mi, "assert_request_page")
              ELSE IF t.ffb = 0 THEN Outcome(t.bitmaps, 0, mi, "lost")
              ELSE Outcome(t.bitmaps, t.ffb, Charge(mi), "no") :
                t \in pm_try_lock_page(stepped, f, k, p)} : k \in at}
  BY Zenon DEF pm_request_page
<1> HIDE DEF stepped, p, at
<1>4. CASE s = Outcome(bms, f, mi, "swapping")
  BY <1>1, <1>4 DEF Requested, BitsKept
<1>5. CASE s = Outcome(stepped, 0, mi, "lost")
  BY <1>1, <1>2, <1>5 DEF Requested
<1>6. CASE \E k \in at : \E t \in pm_try_lock_page(stepped, f, k, p) :
             s = IF ~t.ok THEN Outcome(t.bitmaps, t.ffb, mi, "assert_request_page")
                 ELSE IF t.ffb = 0 THEN Outcome(t.bitmaps, 0, mi, "lost")
                 ELSE Outcome(t.bitmaps, t.ffb, Charge(mi), "no")
  <2>1. PICK k \in at : \E t \in pm_try_lock_page(stepped, f, k, p) :
             s = IF ~t.ok THEN Outcome(t.bitmaps, t.ffb, mi, "assert_request_page")
                 ELSE IF t.ffb = 0 THEN Outcome(t.bitmaps, 0, mi, "lost")
                 ELSE Outcome(t.bitmaps, t.ffb, Charge(mi), "no")
    BY <1>6
  <2>2. PICK t \in pm_try_lock_page(stepped, f, k, p) :
             s = IF ~t.ok THEN Outcome(t.bitmaps, t.ffb, mi, "assert_request_page")
                 ELSE IF t.ffb = 0 THEN Outcome(t.bitmaps, 0, mi, "lost")
                 ELSE Outcome(t.bitmaps, t.ffb, Charge(mi), "no")
    BY <2>1
  <2>3. /\ k \in 1..Len(bms) /\ k = 1
        /\ TOBITMAP(p) = 0 /\ TOINDEX(p) = p /\ p \in Nat
    BY <1>1, <2>1, FindIndex DEF at
  <2>4. Len(bms) = 1 => /\ f = 1 /\ k = 1 /\ h \notin bms[1].map
                        /\ \A i \in 0..(stepped[1].first_free - 1) :
                              i \in stepped[1].map \cup {TOINDEX(p)}
    BY <1>1, <1>2, <2>3 DEF Exact, BelowLocked
  <2>5. /\ WellFormed(t.bitmaps) /\ Len(t.bitmaps) = Len(bms)
        /\ t.ffb \in 0..Len(bms)
        /\ t.ok \in BOOLEAN /\ (t.ok <=> TOINDEX(p) \notin stepped[k].map)
        /\ ~t.ok => t.bitmaps = stepped /\ t.ffb = f
        /\ t.ok => BitSet(stepped, t.bitmaps, 1, p)
        /\ t.ok /\ Len(bms) = 1 /\ t.ffb # 0 => Exact(t.bitmaps[1])
    <3>1. /\ k \in 1..Len(stepped) /\ f \in 1..Len(stepped)
          /\ Len(stepped) = 1 => /\ TOBITMAP(p) = 0
                                 /\ \A i \in 0..(stepped[1].first_free - 1) :
                                      i \in stepped[1].map \cup {TOINDEX(p)}
      BY <1>2, <2>3, <2>4
    <3>2. Len(stepped) = Len(bms)
      BY <1>2
    <3>3. Locked(stepped, f, k, p, t)
      BY <1>2, <2>2, <2>3, <3>1, LockPageSound, Zenon
    <3> QED  BY <2>3, <3>2, <3>3, Zenon DEF Locked
  <2>6. Charge(mi) \in Counters
    BY CountersWrap DEF Counters
  <2>7. Len(bms) = 1 => t.ok
    BY <1>1, <1>2, <2>3, <2>4, <2>5
  <2>8. /\ t.ok => BitSet(bms, t.bitmaps, 1, p)
        /\ ~t.ok => BitsKept(bms, t.bitmaps)
    BY <1>2, <2>3, <2>5 DEF BitSet, BitsKept, OthersKept
  <2> HIDE DEF Outcome
  <2>9. CASE ~t.ok
    <3>1. s = Outcome(t.bitmaps, t.ffb, mi, "assert_request_page")
      BY <2>2, <2>9
    <3> QED  BY <1>1, <2>3, <2>5, <2>7, <2>8, <2>9, <3>1 DEF Requested, Outcome
  <2>10. CASE t.ok /\ t.ffb = 0
    <3>1. s = Outcome(t.bitmaps, 0, mi, "lost")
      BY <2>2, <2>10
    <3> QED  BY <1>1, <2>3, <2>5, <2>8, <2>10, <3>1 DEF Requested, Outcome
  <2>11. CASE t.ok /\ t.ffb # 0
    <3>1. s = Outcome(t.bitmaps, t.ffb, Charge(mi), "no")
      BY <2>2, <2>11
    <3> QED  BY <1>1, <2>3, <2>5, <2>6, <2>8, <2>11, <3>1 DEF Requested, Outcome
  <2> QED  BY <2>9, <2>10, <2>11
<1> QED  BY <1>3, <1>4, <1>5, <1>6

(* The page a request answers with is the one under the hint.              *)
LEMMA RequestPageOf ==
  ASSUME NEW bms, NEW f, NEW mi, NEW s \in pm_request_page(bms, f, mi)
  PROVE  s.page = TOPADDR(bms[f].index, bms[f].first_free)
<1> DEFINE p == TOPADDR(bms[f].index, bms[f].first_free)
           stepped == [bms EXCEPT ![f].first_free = @ + 1]
           at == find_bitmap_by_index(bms, TOBITMAP(p))
           Outcome(b, g, m, x) ==
             [bitmaps |-> b, ffb |-> g, mem_info |-> m, halted |-> x, page |-> p]
<1>1. pm_request_page(bms, f, mi) =
        IF PAGE_SIZE > mi.free THEN {Outcome(bms, f, mi, "swapping")}
        ELSE IF at = {} THEN {Outcome(stepped, 0, mi, "lost")}
        ELSE UNION {
             {IF ~t.ok THEN Outcome(t.bitmaps, t.ffb, mi, "assert_request_page")
              ELSE IF t.ffb = 0 THEN Outcome(t.bitmaps, 0, mi, "lost")
              ELSE Outcome(t.bitmaps, t.ffb, Charge(mi), "no") :
                t \in pm_try_lock_page(stepped, f, k, p)} : k \in at}
  BY Zenon DEF pm_request_page
<1> HIDE DEF stepped, p, at
<1> QED  BY <1>1 DEF p
-----------------------------------------------------------------------------
(* The records of the loops over pages.                                    *)

(* A loop that starts, and one that has finished a page.                   *)
LEMMA OpRecords ==
  /\ NoOp \in Op /\ NoOp.name = "none"
  /\ \A name \in {"lock", "take", "release"} : \A page, left \in Nat :
       LET new == LockOp(name, page, left)
       IN  /\ new \in Op /\ new.name = name /\ new.page = page
           /\ new.left = left /\ new.ok = TRUE
<1>1. NoOp \in Op /\ NoOp.name = "none"
  BY DEF NoOp, Op
<1>2. ASSUME NEW name \in {"lock", "take", "release"}, NEW page \in Nat,
             NEW left \in Nat
      PROVE  LET new == LockOp(name, page, left)
             IN  /\ new \in Op /\ new.name = name /\ new.page = page
                 /\ new.left = left /\ new.ok = TRUE
  <2>1. LockOp(name, page, left) =
          [name |-> name, page |-> page, left |-> left, ok |-> TRUE,
           start |-> page, num |-> left]
    BY DEF LockOp, NoOp
  <2> QED  BY <2>1 DEF Op
<1> QED  BY <1>1, <1>2

LEMMA NextPageRecord ==
  ASSUME op \in Op, op.left > 0, NEW ok \in BOOLEAN
  PROVE  LET new == NextPage(ok)
         IN  /\ new \in Op /\ new.name = op.name
             /\ new.page = op.page + 1 /\ new.left = op.left - 1
             /\ new.ok = (op.ok /\ ok)
<1>1. /\ op.page + 1 \in Nat /\ op.left - 1 \in Nat
      /\ (op.ok /\ ok) \in BOOLEAN
  BY DEF Op
<1>2. NextPage(ok) =
        [name |-> op.name, page |-> op.page + 1, left |-> op.left - 1,
         ok |-> (op.ok /\ ok), start |-> op.start, num |-> op.num]
  BY DEF NextPage, Op
<1> QED  BY <1>1, <1>2 DEF Op
-----------------------------------------------------------------------------
(* The inductive invariant.                                                *)

(* Every bitmap claims to be the first region's.                           *)
ListInv == WellFormed(bitmaps)

(* The hint is exact while there is a single bitmap.                       *)
HintInv == halted = "no" /\ Single => Exact(bitmaps[1])

(* A bitmap is being created only for a page above the first region.       *)
CreationInv ==
  /\ creation.phase # "none" =>
       /\ op.name \in {"lock", "take", "release"} /\ op.left > 0
       /\ op.page >= BITMAP_SIZE
  /\ creation.phase = "set" => ~Single

(* What pm_request_pages' loop knows of the pages it has passed.           *)
ScanInv ==
  halted = "no" /\ op.name = "scan" =>
    /\ ScanIsFirstFit
    /\ op.start <= op.page
    /\ op.num = 0 => op.start = bitmaps[first_free_bitmap].first_free

(* The pages that pm_request_pages has still to lock are free.             *)
TakeInv ==
  halted = "no" /\ Single /\ op.name = "take" =>
    /\ op.ok = TRUE
    /\ \A p \in op.page..(op.page + op.left - 1) :
         p < BITMAP_SIZE => p \notin bitmaps[1].map

IInv ==
  /\ TypeOK /\ ListInv /\ HintInv /\ CreationInv /\ ScanInv /\ TakeInv
  /\ RequestsDoNotCollide

(* The invariant holds when pm_init has set up the first bitmap.           *)
LEMMA InitInv == Init => IInv
<1> SUFFICES ASSUME Init PROVE IInv
  OBVIOUS
<1>1. LET new == bitmap_from(pages_bitmap0)
      IN  /\ new \in MemBitmap /\ new.index = 0
          /\ new.first_free = 0 /\ new.map = {}
  BY ImageAssumption DEF bitmap_from, MemBitmap
<1>2. /\ bitmaps \in Seq(MemBitmap) /\ Len(bitmaps) = 1
      /\ bitmaps[1] = bitmap_from(pages_bitmap0)
  BY <1>1 DEF Init
<1>3. NoOp \in Op /\ NoOp.name = "none" /\ NoCreation \in Creation
      /\ NoCreation.phase = "none"
  BY OpRecords DEF NoCreation, Creation
<1>4. Len(mem_map) \in Nat
  BY MemMapAssumption
<1>5. TypeOK
  <2>1. mem_info \in Counters
    BY DEF Init, Counters
  <2> QED  BY <1>2, <1>3, <1>4, <2>1 DEF Init, TypeOK
<1>6. ListInv
  BY <1>1, <1>2 DEF ListInv, WellFormed
<1>7. HintInv
  BY <1>1, <1>2 DEF HintInv, Exact, BelowLocked
<1>8. CreationInv /\ ScanInv /\ TakeInv /\ RequestsDoNotCollide
  BY <1>3 DEF Init, CreationInv, ScanInv, TakeInv, RequestsDoNotCollide
<1> QED  BY <1>5, <1>6, <1>7, <1>8 DEF IInv
-----------------------------------------------------------------------------
(* One lemma per kind of step.                                             *)

(* Steps that only start or end a loop over pages, or count a segment.     *)
LEMMA ControlStep ==
  ASSUME IInv, halted = "no", creation = NoCreation,
         bitmaps' = bitmaps, first_free_bitmap' = first_free_bitmap,
         next_bitmap_page' = next_bitmap_page, creation' = creation,
         mem_info' \in Counters, boot' \in 1..(Len(mem_map) + 3),
         op' \in Op, op'.name \in {"none", "lock", "release"},
         halted' \in {"no", "swapping"}, granted' \subseteq Nat
  PROVE  IInv'
<1>1. NoCreation.phase = "none"
  BY DEF NoCreation
<1>2. TypeOK'
  <2>1. halted' \in {"no"} \cup Reasons /\ first_free_bitmap # 0
    BY DEF Reasons, IInv, TypeOK
  <2> QED  BY <1>1, <2>1 DEF IInv, TypeOK
<1>3. ListInv' /\ HintInv'
  BY DEF IInv, ListInv, HintInv, Single
<1>4. CreationInv' /\ ScanInv' /\ TakeInv' /\ RequestsDoNotCollide'
  BY <1>1 DEF CreationInv, ScanInv, TakeInv, RequestsDoNotCollide
<1> QED  BY <1>2, <1>3, <1>4 DEF IInv

(* A page request made from inside any step.                               *)
LEMMA RequestStep ==
  ASSUME IInv, halted = "no",
         NEW s \in pm_request_page(bitmaps, first_free_bitmap, mem_info),
         bitmaps' = s.bitmaps, first_free_bitmap' = s.ffb,
         mem_info' = s.mem_info, halted' = s.halted
  PROVE  /\ ListInv' /\ HintInv' /\ RequestsDoNotCollide'
         /\ Len(bitmaps') = Len(bitmaps)
         /\ first_free_bitmap' \in 0..Len(bitmaps)
         /\ first_free_bitmap' = 0 => halted' = "lost"
         /\ mem_info' \in Counters /\ s.page \in Nat
         /\ halted' \in {"no"} \cup Reasons
<1>1. /\ WellFormed(bitmaps) /\ first_free_bitmap \in 1..Len(bitmaps)
      /\ mem_info \in Counters
      /\ Len(bitmaps) = 1 => Exact(bitmaps[1])
  BY DEF IInv, TypeOK, ListInv, HintInv, Single
<1>2. /\ WellFormed(s.bitmaps) /\ Len(s.bitmaps) = Len(bitmaps)
      /\ s.ffb \in 0..Len(bitmaps) /\ s.page \in Nat /\ s.mem_info \in Counters
      /\ s.halted \in {"no", "swapping", "lost", "assert_request_page"}
      /\ s.ffb = 0 => s.halted = "lost"
      /\ Len(bitmaps) = 1 => s.halted # "assert_request_page"
      /\ Len(bitmaps) = 1 /\ s.halted = "no" => Exact(s.bitmaps[1])
  BY <1>1, RequestPageSound DEF Requested
<1>3. ListInv' /\ HintInv'
  BY <1>2 DEF ListInv, HintInv, Single
<1>4. RequestsDoNotCollide'
  BY <1>2 DEF RequestsDoNotCollide, Single
<1>5. halted' \in {"no"} \cup Reasons
  BY <1>2 DEF Reasons
<1> QED  BY <1>2, <1>3, <1>4, <1>5

(* The steps of pm_init.                                                   *)
LEMMA BootStep == IInv /\ Boot => IInv'
<1> SUFFICES ASSUME IInv, Boot PROVE IInv'
  OBVIOUS
<1>0. /\ Len(mem_map) \in Nat /\ boot \in 1..(Len(mem_map) + 3)
      /\ mem_info \in Counters /\ granted \subseteq Nat
      /\ LAYOUT_PADDR_START \in Nat
      /\ LAYOUT_PADDR_END - LAYOUT_PADDR_START \in Nat
  BY MemMapAssumption DEF IInv, TypeOK
<1>1. CASE compute_mem_size
  <2>1. mem_map[boot] \in Segment
    BY <1>0, <1>1, MemMapAssumption DEF compute_mem_size
  <2>2. mem_map[boot].addr \in Nat /\ mem_map[boot].length \in Nat
    BY <2>1 DEF Segment
  <2>3. mem_info' \in Counters
    <3>1. mem_info.free + mem_map[boot].length \in Int
      BY <1>0, <2>2 DEF Counters
    <3> DEFINE n == mem_info.free + mem_map[boot].length
    <3>2. n % SIZE_MAX \in 0..(SIZE_MAX - 1)
      BY <1>0, <3>1, CountersWrap DEF Counters
    <3>3. mem_info' = [mem_info EXCEPT !.free = n % SIZE_MAX]
      BY <1>1 DEF compute_mem_size
    <3> HIDE DEF n
    <3> QED  BY <1>0, <3>2, <3>3 DEF Counters
  <2>4. PageOf(mem_map[boot].addr) \in Nat
        /\ PagesOfCall(mem_map[boot].length) \in Nat
    BY <2>2, PagesAreNat
  <2>5. op' \in Op /\ op'.name \in {"none", "lock"}
    BY <1>1, <2>4, OpRecords DEF compute_mem_size
  <2>6. boot' \in 1..(Len(mem_map) + 3)
    BY <1>0, <1>1 DEF compute_mem_size
  <2> QED  BY <1>0, <1>1, <2>3, <2>5, <2>6, ControlStep
           DEF compute_mem_size, Idle, Running
<1>2. CASE LockKernel
  <2>1. /\ PageOf(LAYOUT_PADDR_START) \in Nat
        /\ PagesOfCall(LAYOUT_PADDR_END - LAYOUT_PADDR_START) \in Nat
    BY <1>0, PagesAreNat
  <2>2. op' \in Op /\ op'.name = "lock"
    BY <1>2, <2>1, OpRecords DEF LockKernel
  <2>3. boot' \in 1..(Len(mem_map) + 3)
    BY <1>0, <1>2 DEF LockKernel
  <2> QED  BY <1>0, <1>2, <2>2, <2>3, ControlStep DEF LockKernel, Idle, Running
<1>3. CASE KeepBitmapPage
  <2>1. PICK s \in pm_request_page(bitmaps, first_free_bitmap, mem_info) :
             /\ bitmaps' = s.bitmaps /\ first_free_bitmap' = s.ffb
             /\ mem_info' = s.mem_info /\ halted' = s.halted
             /\ next_bitmap_page' = IF s.halted = "no" THEN s.page
                                    ELSE next_bitmap_page
    BY <1>3 DEF KeepBitmapPage
  <2>2. halted = "no" /\ creation = NoCreation /\ op = NoOp
        /\ op' = op /\ creation' = creation /\ granted' = granted
    BY <1>3 DEF KeepBitmapPage, Idle, Running
  <2>3. /\ ListInv' /\ HintInv' /\ RequestsDoNotCollide'
        /\ Len(bitmaps') = Len(bitmaps)
        /\ first_free_bitmap' \in 0..Len(bitmaps)
        /\ first_free_bitmap' = 0 => halted' = "lost"
        /\ mem_info' \in Counters /\ s.page \in Nat
        /\ halted' \in {"no"} \cup Reasons
    BY <2>1, <2>2, RequestStep
  <2>4. boot' \in 1..(Len(mem_map) + 3)
    BY <1>0, <1>3 DEF KeepBitmapPage
  <2>5. NoCreation.phase = "none" /\ NoOp.name = "none"
    BY OpRecords DEF NoCreation
  <2>6. TypeOK'
    <3>1. next_bitmap_page' \in Nat
      BY <2>1, <2>3 DEF IInv, TypeOK
    <3> QED  BY <2>2, <2>3, <2>4, <2>5, <3>1
             DEF IInv, TypeOK, ListInv, WellFormed
  <2>7. CreationInv' /\ ScanInv' /\ TakeInv'
    BY <2>2, <2>5 DEF CreationInv, ScanInv, TakeInv
  <2> QED  BY <2>3, <2>6, <2>7 DEF IInv
<1> QED  BY <1>1, <1>2, <1>3 DEF Boot
(* A single-page request of a caller.                                      *)
LEMMA RequestPageStep == IInv /\ RequestPage => IInv'
<1> SUFFICES ASSUME IInv, RequestPage PROVE IInv'
  OBVIOUS
<1>1. PICK s \in pm_request_page(bitmaps, first_free_bitmap, mem_info) :
           /\ bitmaps' = s.bitmaps /\ first_free_bitmap' = s.ffb
           /\ mem_info' = s.mem_info /\ halted' = s.halted
           /\ granted' = IF s.halted = "no" THEN granted \cup {s.page}
                         ELSE granted
  BY DEF RequestPage
<1>2. /\ halted = "no" /\ creation = NoCreation /\ op = NoOp
      /\ op' = op /\ creation' = creation /\ boot' = boot
      /\ next_bitmap_page' = next_bitmap_page
  BY DEF RequestPage, Callable, Idle, Running
<1>3. /\ ListInv' /\ HintInv' /\ RequestsDoNotCollide'
      /\ Len(bitmaps') = Len(bitmaps)
      /\ first_free_bitmap' \in 0..Len(bitmaps)
      /\ first_free_bitmap' = 0 => halted' = "lost"
      /\ mem_info' \in Counters /\ s.page \in Nat
      /\ halted' \in {"no"} \cup Reasons
  BY <1>1, <1>2, RequestStep
<1>4. NoCreation.phase = "none" /\ NoOp.name = "none"
  BY OpRecords DEF NoCreation
<1>5. TypeOK'
  <2>1. granted' \subseteq Nat
    BY <1>1, <1>3 DEF IInv, TypeOK
  <2> QED  BY <1>2, <1>3, <1>4, <2>1 DEF IInv, TypeOK, ListInv, WellFormed
<1>6. CreationInv' /\ ScanInv' /\ TakeInv'
  BY <1>2, <1>4 DEF CreationInv, ScanInv, TakeInv
<1> QED  BY <1>3, <1>5, <1>6 DEF IInv

(* The entry of pm_request_pages.                                          *)
LEMMA RequestPagesStep ==
  ASSUME IInv, NEW num \in Nat, pm_request_pages(num)
  PROVE  IInv'
<1> DEFINE h == bitmaps[first_free_bitmap].first_free
<1>1. /\ halted = "no" /\ creation = NoCreation /\ op = NoOp
      /\ bitmaps' = bitmaps /\ first_free_bitmap' = first_free_bitmap
      /\ next_bitmap_page' = next_bitmap_page /\ creation' = creation
      /\ mem_info' = mem_info /\ boot' = boot /\ granted' = granted
  BY DEF pm_request_pages, Callable, Idle, Running
<1>2. h \in Nat
  <2>1. bitmaps[first_free_bitmap] \in MemBitmap
    BY <1>1 DEF IInv, TypeOK
  <2> QED  BY <2>1 DEF MemBitmap
<1>3. NoOp \in Op /\ NoOp.name = "none" /\ NoCreation.phase = "none"
  BY OpRecords DEF NoCreation
<1>4. CASE halted' = "swapping" /\ op' = op
  BY <1>1, <1>3, <1>4, ControlStep DEF IInv, TypeOK
<1>5. CASE /\ halted' = halted
           /\ op' = [name |-> "scan", page |-> h, left |-> num, ok |-> TRUE,
                     start |-> h, num |-> num]
  <2> HIDE DEF h
  <2>1. /\ op' \in Op /\ op'.name = "scan" /\ op'.page = h /\ op'.start = h
        /\ op'.left = num /\ op'.num = num
    BY <1>2, <1>5 DEF Op
  <2>2. TypeOK'
    BY <1>1, <1>3, <1>5, <2>1 DEF IInv, TypeOK
  <2>3. ListInv' /\ HintInv'
    BY <1>1, <1>5 DEF IInv, ListInv, HintInv, Single
  <2>4. CreationInv' /\ TakeInv' /\ RequestsDoNotCollide'
    BY <1>1, <1>3, <1>5, <2>1 DEF CreationInv, TakeInv, RequestsDoNotCollide
  <2>5. ScanInv'
    BY <1>1, <1>2, <2>1 DEF ScanInv, ScanIsFirstFit, h
  <2> QED  BY <2>2, <2>3, <2>4, <2>5 DEF IInv
<1> QED  BY <1>4, <1>5 DEF pm_request_pages

(* Every call of the interface.                                            *)
LEMMA CallStep == IInv /\ Call => IInv'
<1> SUFFICES ASSUME IInv, Call PROVE IInv'
  OBVIOUS
<1>1. CASE RequestPage
  BY <1>1, RequestPageStep
<1>2. ASSUME NEW b \in Sizes, pm_request_bytes(b)  PROVE IInv'
  <2>1. PAGES(b) \in Nat
    BY PagesAreNat, CallersAssumption
  <2> QED  BY <1>2, <2>1, RequestPagesStep DEF pm_request_bytes
<1>3. ASSUME NEW a \in Addrs, NEW b \in Sizes,
             pm_try_lock_pages(a, b) \/ pm_try_release_pages(a, b)
      PROVE  IInv'
  <2>1. PageOf(a) \in Nat /\ PagesOfCall(b) \in Nat
    BY PagesAreNat, CallersAssumption
  <2>2. op' \in Op /\ op'.name \in {"lock", "release"}
    BY <1>3, <2>1, OpRecords DEF pm_try_lock_pages, pm_try_release_pages
  <2>3. /\ halted = "no" /\ creation = NoCreation
        /\ bitmaps' = bitmaps /\ first_free_bitmap' = first_free_bitmap
        /\ next_bitmap_page' = next_bitmap_page /\ creation' = creation
        /\ mem_info' = mem_info /\ boot' = boot /\ granted' = granted
        /\ halted' = halted
    BY <1>3 DEF pm_try_lock_pages, pm_try_release_pages, Callable, Idle, Running
  <2> QED  BY <2>2, <2>3, ControlStep DEF IInv, TypeOK
<1> QED  BY <1>1, <1>2, <1>3 DEF Call
(* One iteration of pm_request_pages' loop.                                *)
LEMMA ScanStep == IInv /\ Scan => IInv'
<1> SUFFICES ASSUME IInv, Scan PROVE IInv'
  OBVIOUS
<1> DEFINE bm == bitmaps[first_free_bitmap]
           taken == op.page \in bm.map
<1>1. /\ halted = "no" /\ creation = NoCreation /\ op.name = "scan"
      /\ op.left > 0 /\ op.page < BITMAP_SIZE
      /\ bitmaps' = bitmaps /\ first_free_bitmap' = first_free_bitmap
      /\ next_bitmap_page' = next_bitmap_page /\ creation' = creation
      /\ mem_info' = mem_info /\ boot' = boot /\ granted' = granted
      /\ halted' = halted
  BY DEF Scan, Running
<1>2. op.page \in Nat /\ op.left \in Nat /\ op.start \in Nat /\ op.num \in Nat
  BY DEF IInv, TypeOK, Op
<1>3. NoCreation.phase = "none"
  BY DEF NoCreation
<1>4. /\ op' \in Op /\ op'.name = "scan" /\ op'.page = op.page + 1
      /\ op'.left = (IF taken THEN op.num ELSE op.left - 1)
      /\ op'.start = (IF taken THEN op.page + 1 ELSE op.start)
      /\ op'.num = op.num
  <2>1. op' = [name |-> "scan", page |-> op.page + 1,
               left |-> IF taken THEN op.num ELSE op.left - 1, ok |-> TRUE,
               start |-> IF taken THEN op.page + 1 ELSE op.start,
               num |-> op.num]
    BY DEF Scan
  <2> HIDE DEF taken
  <2>2. /\ op.page + 1 \in Nat /\ (IF taken THEN op.num ELSE op.left - 1) \in Nat
        /\ (IF taken THEN op.page + 1 ELSE op.start) \in Nat
    BY <1>1, <1>2
  <2> QED  BY <1>2, <2>1, <2>2 DEF Op
<1>5. TypeOK'
  BY <1>1, <1>3, <1>4 DEF IInv, TypeOK
<1>6. ListInv' /\ HintInv' /\ CreationInv' /\ TakeInv' /\ RequestsDoNotCollide'
  BY <1>1, <1>3, <1>4
     DEF IInv, ListInv, HintInv, CreationInv, TakeInv, RequestsDoNotCollide, Single
<1>7. ScanInv'
  <2>1. /\ \A i \in op.start..(op.page - 1) : i \notin bm.map
        /\ op.left = op.num - (op.page - op.start)
        /\ op.start <= op.page
        /\ \A s \in bm.first_free..(op.start - 1) :
             \E i \in s..(s + op.num - 1) : i \in bm.map
    BY <1>1 DEF IInv, ScanInv, ScanIsFirstFit
  <2>2. bm.first_free \in Nat
    <3>1. bm \in MemBitmap
      BY <1>1 DEF IInv, TypeOK
    <3> QED  BY <3>1 DEF MemBitmap
  <2>3. op.num # 0
    BY <1>1, <1>2, <2>1
  <2>4. CASE taken
    <3>1. /\ op'.start = op.page + 1 /\ op'.left = op.num /\ op'.page = op.page + 1
          /\ op'.num = op.num
      BY <1>4, <2>4
    <3>2. ASSUME NEW s \in bm.first_free..op.page
          PROVE  \E i \in s..(s + op.num - 1) : i \in bm.map
      <4>1. CASE s < op.start
        BY <1>2, <2>1, <2>2, <4>1
      <4>2. CASE s >= op.start
        <5>1. op.page \in s..(s + op.num - 1)
          BY <1>1, <1>2, <2>1, <2>2, <4>2
        <5> QED  BY <2>4, <5>1
      <4> QED  BY <1>2, <2>2, <4>1, <4>2
    <3> QED  BY <1>1, <1>2, <2>2, <2>3, <3>1, <3>2 DEF ScanInv, ScanIsFirstFit
  <2>5. CASE ~taken
    <3>1. /\ op'.start = op.start /\ op'.left = op.left - 1
          /\ op'.page = op.page + 1 /\ op'.num = op.num
      BY <1>4, <2>5
    <3>2. \A i \in op.start..op.page : i \notin bm.map
      BY <1>2, <2>1, <2>5
    <3> QED  BY <1>1, <1>2, <2>1, <2>3, <3>1, <3>2 DEF ScanInv, ScanIsFirstFit
  <2> QED  BY <2>4, <2>5
<1> QED  BY <1>5, <1>6, <1>7 DEF IInv

(* The end of that loop: what will be locked was seen to be free.          *)
LEMMA ScanDoneStep == IInv /\ ScanDone => IInv'
<1> SUFFICES ASSUME IInv, ScanDone PROVE IInv'
  OBVIOUS
<1> DEFINE bm == bitmaps[first_free_bitmap]
           n == IF op.num = 0 THEN 1 ELSE op.num
<1>1. /\ halted = "no" /\ creation = NoCreation /\ op.name = "scan"
      /\ op.left = 0 \/ op.page >= BITMAP_SIZE
      /\ bitmaps' = bitmaps /\ first_free_bitmap' = first_free_bitmap
      /\ next_bitmap_page' = next_bitmap_page /\ creation' = creation
      /\ mem_info' = mem_info /\ boot' = boot /\ granted' = granted
      /\ halted' = halted
  BY DEF ScanDone, Running
<1>2. op.page \in Nat /\ op.left \in Nat /\ op.start \in Nat /\ op.num \in Nat
  BY DEF IInv, TypeOK, Op
<1>3. NoCreation.phase = "none"
  BY DEF NoCreation
<1>4. TOPADDR(bm.index, op.start) = op.start
  <2>1. bm.index = 0
    BY <1>1 DEF IInv, TypeOK, ListInv, WellFormed
  <2> QED  BY <1>2, <2>1 DEF TOPADDR
<1>5. /\ op' \in Op /\ op'.name = "take" /\ op'.page = op.start
      /\ op'.left = n /\ op'.ok = TRUE
  <2>1. op' = LockOp("take", op.start, n)
    BY <1>4 DEF ScanDone
  <2>2. n \in Nat
    BY <1>2
  <2> HIDE DEF n
  <2> QED  BY <1>2, <2>1, <2>2, OpRecords
<1>6. TypeOK'
  BY <1>1, <1>3, <1>5 DEF IInv, TypeOK
<1>7. ListInv' /\ HintInv' /\ CreationInv' /\ ScanInv' /\ RequestsDoNotCollide'
  BY <1>1, <1>3, <1>5
     DEF IInv, ListInv, HintInv, CreationInv, ScanInv, RequestsDoNotCollide, Single
<1>8. TakeInv'
  <2> SUFFICES ASSUME Single, NEW p \in op.start..(op.start + n - 1), p < BITMAP_SIZE
               PROVE  p \notin bitmaps[1].map
    BY <1>1, <1>2, <1>5 DEF TakeInv, Single
  <2>1. /\ \A i \in op.start..(op.page - 1) : i \notin bm.map
        /\ op.left = op.num - (op.page - op.start)
        /\ op.num = 0 => op.start = bm.first_free
    BY <1>1 DEF IInv, ScanInv, ScanIsFirstFit
  <2>2. first_free_bitmap = 1 /\ Exact(bitmaps[1])
    BY <1>1 DEF IInv, TypeOK, HintInv, Single
  <2>3. CASE op.num = 0
    <3>1. p = bitmaps[1].first_free
      BY <1>2, <2>1, <2>2, <2>3
    <3> QED  BY <2>2, <3>1 DEF Exact
  <2>4. CASE op.num # 0
    <3>1. p \in op.start..(op.page - 1)
      BY <1>1, <1>2, <2>1, <2>4
    <3> QED  BY <2>1, <2>2, <3>1
  <2> QED  BY <2>3, <2>4
<1> QED  BY <1>6, <1>7, <1>8 DEF IInv

(* The returns of the loops.                                               *)
LEMMA ReturnStep == IInv /\ (Return \/ ReturnPages) => IInv'
<1> SUFFICES ASSUME IInv, Return \/ ReturnPages PROVE IInv'
  OBVIOUS
<1>1. NoOp \in Op /\ NoOp.name = "none" /\ op \in Op
  BY OpRecords DEF IInv, TypeOK
<1>2. CASE Return
  BY <1>1, <1>2, ControlStep DEF Return, Running, IInv, TypeOK
<1>3. CASE ReturnPages /\ op.ok
  <2>1. granted' \subseteq Nat
    <3>1. op.start \in Nat /\ op.num \in Nat /\ granted \subseteq Nat
      BY <1>1 DEF Op, IInv, TypeOK
    <3>2. granted' = granted \cup (op.start .. (op.start + op.num - 1))
      BY <1>3 DEF ReturnPages
    <3>3. \A x \in op.start .. (op.start + op.num - 1) : x \in Nat
      BY <3>1
    <3> QED  BY <3>1, <3>2, <3>3
  <2> QED  BY <1>1, <1>3, <2>1, ControlStep DEF ReturnPages, Running, IInv, TypeOK
<1>4. CASE ReturnPages /\ ~op.ok
  <2>1. /\ halted = "no" /\ creation = NoCreation /\ op.name = "take"
        /\ op' = NoOp /\ halted' = "assert_request_pages" /\ granted' = granted
        /\ bitmaps' = bitmaps /\ first_free_bitmap' = first_free_bitmap
        /\ next_bitmap_page' = next_bitmap_page /\ creation' = creation
        /\ mem_info' = mem_info /\ boot' = boot
    BY <1>4 DEF ReturnPages, Running
  <2>2. ~Single
    BY <1>4, <2>1, Zenon DEF IInv, TakeInv
  <2>3. NoCreation.phase = "none"
    BY DEF NoCreation
  <2>4. TypeOK'
    <3>1. halted' \in {"no"} \cup Reasons /\ first_free_bitmap # 0
      BY <2>1 DEF Reasons, IInv, TypeOK
    <3> QED  BY <1>1, <2>1, <2>3, <3>1 DEF IInv, TypeOK
  <2> QED  BY <1>1, <2>1, <2>2, <2>3, <2>4
           DEF IInv, ListInv, HintInv, CreationInv, ScanInv, TakeInv,
               RequestsDoNotCollide, Single
<1> QED  BY <1>2, <1>3, <1>4
(* One page of pm_try_lock_pages, in the bitmap at position at.            *)
LEMMA LockInStep ==
  ASSUME IInv, halted = "no", op.name \in {"lock", "take"}, op.left > 0,
         NEW at \in 1..Len(bitmaps),
         Single => TOBITMAP(op.page) = 0,
         LockIn(at), creation' = NoCreation,
         next_bitmap_page' = next_bitmap_page, boot' = boot
  PROVE  IInv'
<1>1. PICK s \in pm_try_lock_page(bitmaps, first_free_bitmap, at, op.page) :
           /\ bitmaps' = s.bitmaps /\ first_free_bitmap' = s.ffb
           /\ mem_info' = IF s.ok /\ s.ffb # 0 THEN Charge(mem_info) ELSE mem_info
           /\ halted' = IF s.ffb = 0 THEN "lost" ELSE halted
           /\ op' = NextPage(s.ok) /\ granted' = granted
  BY DEF LockIn
<1>2. /\ WellFormed(bitmaps) /\ first_free_bitmap \in 1..Len(bitmaps)
      /\ mem_info \in Counters /\ op \in Op /\ op.page \in Nat
      /\ Len(bitmaps) = 1 => Exact(bitmaps[1])
  BY DEF IInv, TypeOK, ListInv, HintInv, Single, Op
<1>3. Locked(bitmaps, first_free_bitmap, at, op.page, s)
  <2>1. Len(bitmaps) = 1 => /\ TOBITMAP(op.page) = 0
                            /\ \A i \in 0..(bitmaps[1].first_free - 1) :
                                 i \in bitmaps[1].map \cup {TOINDEX(op.page)}
    BY <1>2 DEF Exact, BelowLocked, Single
  <2> QED  BY <1>1, <1>2, <2>1, LockPageSound, Zenon
<1>4. /\ WellFormed(bitmaps') /\ Len(bitmaps') = Len(bitmaps)
      /\ s.ffb \in 0..Len(bitmaps) /\ s.ok \in BOOLEAN
  BY <1>1, <1>3, Zenon DEF Locked
<1>5. /\ op' \in Op /\ op'.name = op.name
      /\ op'.page = op.page + 1 /\ op'.left = op.left - 1
      /\ op'.ok = (op.ok /\ s.ok)
  BY <1>1, <1>2, <1>4, NextPageRecord
<1>6. mem_info' \in Counters
  BY <1>1, <1>2, CountersWrap DEF Counters
<1>7. NoCreation \in Creation /\ NoCreation.phase = "none"
  BY DEF NoCreation, Creation
<1>8. TypeOK'
  <2>1. halted' \in {"no"} \cup Reasons
    BY <1>1 DEF Reasons
  <2>2. bitmaps' \in Seq(MemBitmap) /\ Len(bitmaps') > 0
    BY <1>4 DEF WellFormed
  <2> QED  BY <1>1, <1>4, <1>5, <1>6, <1>7, <2>1, <2>2 DEF IInv, TypeOK
<1>9. HintInv'
  <2> SUFFICES ASSUME halted' = "no", Len(bitmaps') = 1
               PROVE  Exact(bitmaps'[1])
    BY DEF HintInv, Single
  <2>1. s.ffb # 0 /\ Len(bitmaps) = 1 /\ Exact(bitmaps[1])
    BY <1>1, <1>2, <1>4
  <2>2. CASE s.ok
    BY <1>1, <1>3, <2>1, <2>2, Zenon DEF Locked
  <2>3. CASE ~s.ok
    BY <1>1, <1>3, <2>1, <2>3, Zenon DEF Locked
  <2> QED  BY <2>2, <2>3
<1>10. CreationInv' /\ ScanInv' /\ RequestsDoNotCollide'
  BY <1>1, <1>5, <1>7 DEF CreationInv, ScanInv, RequestsDoNotCollide
<1>11. TakeInv'
  <2> SUFFICES ASSUME halted' = "no", Len(bitmaps') = 1, op.name = "take"
               PROVE  /\ op'.ok = TRUE
                      /\ \A p \in (op.page + 1)..(op.page + op.left - 1) :
                           p < BITMAP_SIZE => p \notin bitmaps'[1].map
    <3>1. op.left \in Nat
      BY <1>2 DEF Op
    <3>2. op'.page + op'.left - 1 = op.page + op.left - 1
      BY <1>2, <1>5, <3>1
    <3> QED  BY <1>5, <3>2 DEF TakeInv, Single
  <2>0. Len(bitmaps) = 1
    BY <1>4
  <2>1. at = 1 /\ TOBITMAP(op.page) = 0 /\ Single
    BY <2>0 DEF Single
  <2>2. op.page < BITMAP_SIZE /\ TOINDEX(op.page) = op.page
    BY <1>2, <2>1, PageSplit
  <2>3. /\ op.ok = TRUE
        /\ \A p \in op.page..(op.page + op.left - 1) :
             p < BITMAP_SIZE => p \notin bitmaps[1].map
    BY <2>1 DEF IInv, TakeInv
  <2>4. op.page \notin bitmaps[1].map
    BY <1>2, <2>2, <2>3 DEF Op
  <2>5. s.ok = TRUE /\ bitmaps'[1].map = bitmaps[1].map \cup {op.page}
    BY <1>1, <1>3, <2>1, <2>2, <2>4, Zenon DEF Locked, BitSet
  <2>6. op'.ok = TRUE
    BY <1>5, <2>3, <2>5, Zenon
  <2> QED  BY <1>2, <2>3, <2>5, <2>6 DEF Op
<1> QED  BY <1>4, <1>8, <1>9, <1>10, <1>11 DEF IInv, ListInv

(* One page of pm_try_release_pages.                                       *)
LEMMA ReleaseInStep ==
  ASSUME IInv, halted = "no", op.name = "release", op.left > 0,
         NEW at \in 1..Len(bitmaps),
         Single => TOBITMAP(op.page) = 0,
         ReleaseIn(at), creation' = NoCreation,
         next_bitmap_page' = next_bitmap_page, boot' = boot
  PROVE  IInv'
<1>1. PICK s \in pm_try_release_page(bitmaps, first_free_bitmap, at, op.page) :
           /\ bitmaps' = s.bitmaps /\ first_free_bitmap' = s.ffb
           /\ mem_info' = IF s.ok THEN Refund(mem_info) ELSE mem_info
           /\ halted' = halted /\ op' = NextPage(s.ok)
           /\ granted' = granted \ {op.page}
  BY DEF ReleaseIn
<1>2. /\ WellFormed(bitmaps) /\ first_free_bitmap \in 1..Len(bitmaps)
      /\ mem_info \in Counters /\ op \in Op /\ op.page \in Nat
      /\ granted \subseteq Nat
      /\ Len(bitmaps) = 1 => TOBITMAP(op.page) = 0 /\ Exact(bitmaps[1])
  BY DEF IInv, TypeOK, ListInv, HintInv, Single, Op
<1>3. /\ WellFormed(s.bitmaps) /\ Len(s.bitmaps) = Len(bitmaps)
      /\ s.ffb \in 1..Len(bitmaps) /\ s.ok \in BOOLEAN
      /\ Len(bitmaps) = 1 => Exact(s.bitmaps[1])
  <2>1. Released(bitmaps, at, op.page, s)
    BY <1>1, <1>2, ReleasePageSound, Zenon
  <2> QED  BY <2>1, Zenon DEF Released
<1>4. op' \in Op /\ op'.name = "release"
  BY <1>1, <1>2, <1>3, NextPageRecord
<1>5. mem_info' \in Counters
  BY <1>1, <1>2, CountersWrap DEF Counters
<1>6. NoCreation \in Creation /\ NoCreation.phase = "none"
  BY DEF NoCreation, Creation
<1>7. TypeOK'
  <2>1. bitmaps' \in Seq(MemBitmap) /\ Len(bitmaps') > 0
    BY <1>1, <1>3 DEF WellFormed
  <2>2. granted' \subseteq Nat
    BY <1>1, <1>2
  <2> QED  BY <1>1, <1>3, <1>4, <1>5, <1>6, <2>1, <2>2 DEF IInv, TypeOK
<1>8. ListInv' /\ HintInv' /\ CreationInv' /\ ScanInv' /\ TakeInv'
      /\ RequestsDoNotCollide'
  BY <1>1, <1>3, <1>4, <1>6
     DEF ListInv, HintInv, CreationInv, ScanInv, TakeInv, RequestsDoNotCollide,
         Single
<1> QED  BY <1>7, <1>8 DEF IInv

(* try_set_page on a bitmap that existed, or that was just created.        *)
LEMMA SetPageStep == IInv /\ (SetPage \/ SetCreated) => IInv'
<1> SUFFICES ASSUME IInv, SetPage \/ SetCreated PROVE IInv'
  OBVIOUS
<1>0. op.page \in Nat /\ WellFormed(bitmaps)
  BY DEF IInv, TypeOK, ListInv, Op
<1>1. CASE SetPage
  <2>1. PICK at \in find_bitmap_by_index(bitmaps, TOBITMAP(op.page)) : SetIn(at)
    BY <1>1 DEF SetPage
  <2>2. at \in 1..Len(bitmaps) /\ TOBITMAP(op.page) = 0
    BY <1>0, <2>1, FindIndex
  <2> QED  BY <1>1, <2>1, <2>2, LockInStep, ReleaseInStep
           DEF SetPage, SetIn, Running
<1>2. CASE SetCreated
  <2>1. /\ creation.at \in 1..Len(bitmaps) /\ ~Single /\ op.left > 0
        /\ halted = "no"
    <3>1. creation.phase = "set" /\ halted = "no"
      BY <1>2 DEF SetCreated
    <3> QED  BY <3>1 DEF IInv, TypeOK, CreationInv
  <2> QED  BY <1>2, <2>1, LockInStep, ReleaseInStep DEF SetCreated, SetIn
<1> QED  BY <1>1, <1>2
(* create_bitmap enters the heap: the page lies above the first region.    *)
LEMMA CallHeapStep == IInv /\ CallHeap => IInv'
<1> SUFFICES ASSUME IInv, CallHeap PROVE IInv'
  OBVIOUS
<1>1. /\ halted = "no" /\ creation = NoCreation
      /\ op.name \in {"lock", "take", "release"} /\ op.left > 0
      /\ bitmaps' = bitmaps /\ first_free_bitmap' = first_free_bitmap
      /\ next_bitmap_page' = next_bitmap_page /\ op' = op
      /\ mem_info' = mem_info /\ boot' = boot /\ granted' = granted
  BY DEF CallHeap, Running
<1>2. halted' \in {"no", "assert_heap", "fault"}
      /\ (creation' = creation
          \/ \E n \in HeapGrowth :
               creation' = [phase |-> "heap", left |-> n, at |-> 0])
  BY <1>1 DEF CallHeap
<1>3. NoCreation.phase = "none"
  BY DEF NoCreation
<1>4. creation' \in Creation /\ creation'.phase \in {"none", "heap"}
  BY <1>1, <1>2, <1>3, CallersAssumption DEF IInv, TypeOK, Creation
<1>5. op.page >= BITMAP_SIZE
  <2>1. op.page \in Nat /\ WellFormed(bitmaps)
    BY DEF IInv, TypeOK, ListInv, Op
  <2>2. find_bitmap_by_index(bitmaps, TOBITMAP(op.page)) = {}
    BY DEF CallHeap
  <2>3. TOBITMAP(op.page) # 0
    <3> SUFFICES ASSUME TOBITMAP(op.page) = 0 PROVE FALSE
      OBVIOUS
    <3>1. 1 \in find_bitmap_by_index(bitmaps, 0)
      <4>1. 1 \in 1..Len(bitmaps) /\ bitmaps[1].index = 0
        BY <2>1 DEF WellFormed
      <4>2. \A j \in 1..Len(bitmaps) : 1 <= j
        BY <2>1 DEF WellFormed
      <4> QED  BY <4>1, <4>2 DEF find_bitmap_by_index
    <3> QED  BY <2>2, <3>1
  <2> QED  BY <2>1, <2>3, PageSplit
<1>6. TypeOK'
  <2>1. halted' \in {"no"} \cup Reasons /\ first_free_bitmap # 0
    BY <1>1, <1>2 DEF Reasons, IInv, TypeOK
  <2> QED  BY <1>1, <1>4, <2>1 DEF IInv, TypeOK
<1>7. ListInv' /\ HintInv' /\ CreationInv' /\ ScanInv' /\ TakeInv'
      /\ RequestsDoNotCollide'
  BY <1>1, <1>2, <1>4, <1>5
     DEF IInv, ListInv, HintInv, CreationInv, ScanInv, TakeInv,
         RequestsDoNotCollide, Single
<1> QED  BY <1>6, <1>7 DEF IInv

(* A page request of the heap; a run being locked has left the region.     *)
LEMMA HeapRequestStep == IInv /\ HeapRequest => IInv'
<1> SUFFICES ASSUME IInv, HeapRequest PROVE IInv'
  OBVIOUS
<1>1. PICK s \in pm_request_page(bitmaps, first_free_bitmap, mem_info) :
           /\ bitmaps' = s.bitmaps /\ first_free_bitmap' = s.ffb
           /\ mem_info' = s.mem_info /\ halted' = s.halted
           /\ granted' = IF s.halted = "no" THEN granted \cup {s.page}
                         ELSE granted
  BY DEF HeapRequest
<1>2. /\ halted = "no" /\ creation.phase = "heap" /\ creation.left > 0
      /\ op' = op /\ boot' = boot /\ next_bitmap_page' = next_bitmap_page
      /\ creation' = [creation EXCEPT !.left = @ - 1]
  BY DEF HeapRequest
<1>3. /\ ListInv' /\ HintInv' /\ RequestsDoNotCollide'
      /\ Len(bitmaps') = Len(bitmaps)
      /\ first_free_bitmap' \in 0..Len(bitmaps)
      /\ first_free_bitmap' = 0 => halted' = "lost"
      /\ mem_info' \in Counters /\ s.page \in Nat
      /\ halted' \in {"no"} \cup Reasons
  BY <1>1, <1>2, RequestStep
<1>4. creation' \in Creation /\ creation'.phase = "heap"
  BY <1>2 DEF IInv, TypeOK, Creation
<1>5. /\ op.name \in {"lock", "take", "release"} /\ op.left > 0
      /\ op.page >= BITMAP_SIZE /\ op.page \in Nat
  BY <1>2 DEF IInv, CreationInv, TypeOK, Op
<1>6. TypeOK'
  <2>1. granted' \subseteq Nat
    BY <1>1, <1>3 DEF IInv, TypeOK
  <2> QED  BY <1>2, <1>3, <1>4, <2>1 DEF IInv, TypeOK, ListInv, WellFormed
<1>7. CreationInv' /\ ScanInv'
  BY <1>2, <1>4, <1>5 DEF CreationInv, ScanInv
<1>8. TakeInv'
  <2>1. op.name = "take" /\ Len(bitmaps) = 1 => op.ok = TRUE
    BY <1>2 DEF IInv, TakeInv, Single
  <2> QED  BY <1>2, <1>3, <1>5, <2>1 DEF TakeInv, Single
<1> QED  BY <1>3, <1>6, <1>7, <1>8 DEF IInv

(* Clearing page q takes bits from a bitmap that is stored behind it, and  *)
(* changes nothing else.                                                   *)
LEMMA Wiped ==
  ASSUME NEW bms, WellFormed(bms), NEW q \in Nat
  PROVE  /\ WellFormed(mem_set(bms, q)) /\ Len(mem_set(bms, q)) = Len(bms)
         /\ \A k \in 1..Len(bms) :
              /\ mem_set(bms, q)[k].page = bms[k].page
              /\ mem_set(bms, q)[k].unset = bms[k].unset
              /\ bms[k].page # q + 1 => mem_set(bms, q)[k] = bms[k]
              /\ mem_set(bms, q)[k].map \subseteq bms[k].map
<1>1. /\ Len(bms) \in Nat /\ Len(bms) > 0
      /\ \A k \in 1..Len(bms) : bms[k] \in MemBitmap /\ bms[k].index = 0
  BY DEF WellFormed
<1> DEFINE new == mem_set(bms, q)
<1>2. new = [k \in 1..Len(bms) |->
               IF bms[k].page = q + 1
               THEN [bms[k] EXCEPT !.map = @ \ Overrun] ELSE bms[k]]
  BY DEF mem_set
<1> HIDE DEF new
<1>3. ASSUME NEW k \in 1..Len(bms)
      PROVE  /\ new[k] \in MemBitmap /\ new[k].index = 0
             /\ new[k].page = bms[k].page /\ new[k].unset = bms[k].unset
             /\ bms[k].page # q + 1 => new[k] = bms[k]
             /\ new[k].map \subseteq bms[k].map
  <2>1. bms[k] \in MemBitmap /\ bms[k].index = 0
    BY <1>1
  <2>2. CASE bms[k].page = q + 1
    <3> DEFINE bm == [bms[k] EXCEPT !.map = @ \ Overrun]
    <3>1. new[k] = bm
      BY <1>2, <2>2
    <3>2. /\ bm \in MemBitmap /\ bm.index = 0 /\ bm.page = bms[k].page
          /\ bm.unset = bms[k].unset /\ bm.map = bms[k].map \ Overrun
      <4>1. bms[k].map \ Overrun \in SUBSET (0..(BITMAP_SIZE - 1))
        BY <2>1 DEF MemBitmap
      <4> QED  BY <2>1, <4>1 DEF MemBitmap
    <3> QED  BY <2>2, <3>1, <3>2
  <2>3. CASE bms[k].page # q + 1
    <3>1. new[k] = bms[k]
      BY <1>2, <2>3
    <3> QED  BY <2>1, <2>3, <3>1
  <2> QED  BY <2>2, <2>3
<1>4. /\ new \in Seq(MemBitmap) /\ Len(new) = Len(bms)
  <2>1. new \in [1..Len(bms) -> MemBitmap]
    BY <1>2, <1>3
  <2> QED  BY <1>1, <2>1
<1>5. WellFormed(new)
  BY <1>1, <1>3, <1>4 DEF WellFormed
<1> QED  BY <1>3, <1>4, <1>5 DEF new

(* The list that create_bitmap makes before it requests a page.            *)
Linked(bms, q) == Append(mem_set(bms, q), bitmap_from(q))

(* A bitmap goes to the end of a list of first regions.                    *)
LEMMA InsertAtEnd ==
  ASSUME NEW bms, WellFormed(bms), NEW p \in Nat,
         NEW k \in InsertPosition(bms, TOBITMAP(p))
  PROVE  /\ k = Len(bms) + 1
         /\ \A q \in Nat :
              /\ WellFormed(Linked(bms, q)) /\ Len(Linked(bms, q)) = Len(bms) + 1
              /\ InsertBitmap(mem_set(bms, q), k, bitmap_from(q)) = Linked(bms, q)
<1>1. k = Len(bms) + 1
  <2>1. TOBITMAP(p) \in Nat
    BY PageSplit
  <2> QED  BY <2>1 DEF InsertPosition, WellFormed
<1> SUFFICES ASSUME NEW q \in Nat
             PROVE  /\ WellFormed(Linked(bms, q))
                    /\ Len(Linked(bms, q)) = Len(bms) + 1
                    /\ InsertBitmap(mem_set(bms, q), k, bitmap_from(q))
                         = Linked(bms, q)
  BY <1>1
<1> DEFINE bm == bitmap_from(q)  old == mem_set(bms, q)
<1>2. bm \in MemBitmap /\ bm.index = 0
  BY DEF bitmap_from, MemBitmap
<1>3. /\ old \in Seq(MemBitmap) /\ Len(old) \in Nat /\ Len(old) = Len(bms)
      /\ \A j \in 1..Len(old) : old[j].index = 0
  BY Wiped DEF WellFormed
<1> HIDE DEF bm, old
<1>4. /\ SubSeq(old, 1, k - 1) = old
      /\ SubSeq(old, k, Len(old)) = << >>
  BY <1>1, <1>3
<1>5. InsertBitmap(old, k, bm) = old \o <<bm>>
  <2>1. InsertBitmap(old, k, bm) = (old \o <<bm>>) \o << >>
    BY <1>4, Zenon DEF InsertBitmap
  <2>2. old \o <<bm>> \in Seq(MemBitmap)
    BY <1>2, <1>3
  <2> QED  BY <2>1, <2>2, ConcatEmptySeq
<1>6. /\ old \o <<bm>> \in Seq(MemBitmap) /\ Len(old \o <<bm>>) = Len(old) + 1
      /\ \A j \in 1..(Len(old) + 1) : (old \o <<bm>>)[j].index = 0
  BY <1>2, <1>3
<1>7. WellFormed(old \o <<bm>>)
  BY <1>3, <1>6 DEF WellFormed
<1>8. old \o <<bm>> = Append(old, bm)
  BY <1>2, <1>3
<1> QED  BY <1>3, <1>5, <1>6, <1>7, <1>8, Zenon DEF bm, old, Linked

(* What create_bitmap does: it stops the kernel, or links a bitmap at the  *)
(* end of what mem_set left of the others, and requests a page.            *)
Stopped ==
  /\ halted' \in {"assert_null", "fault", "lost"}
  /\ UNCHANGED <<bitmaps, first_free_bitmap, mem_info, next_bitmap_page,
                 creation>>
Extended(s) ==
  /\ Requested(Linked(bitmaps, next_bitmap_page), mem_info, s)
  /\ bitmaps' = s.bitmaps /\ first_free_bitmap' = s.ffb
  /\ mem_info' = s.mem_info /\ halted' = s.halted
  /\ next_bitmap_page' = IF s.halted = "no" THEN s.page ELSE next_bitmap_page
  /\ creation' = [phase |-> "set", left |-> 0, at |-> Len(bitmaps) + 1]

LEMMA CreateOutcome ==
  ASSUME IInv, create_bitmap
  PROVE  /\ halted = "no" /\ creation.phase = "heap" /\ creation.left = 0
         /\ op' = op /\ boot' = boot /\ granted' = granted
         /\ Stopped \/ \E s : Extended(s)
         /\ WellFormed(Linked(bitmaps, next_bitmap_page))
         /\ Len(Linked(bitmaps, next_bitmap_page)) = Len(bitmaps) + 1
         /\ Len(bitmaps) \in Nat \ {0} /\ next_bitmap_page \in Nat
<1>1. /\ halted = "no" /\ creation.phase = "heap" /\ creation.left = 0
      /\ op' = op /\ boot' = boot /\ granted' = granted
  BY DEF create_bitmap
<1>2. /\ op.page \in Nat /\ WellFormed(bitmaps) /\ next_bitmap_page \in Nat
      /\ first_free_bitmap \in 1..Len(bitmaps) /\ mem_info \in Counters
      /\ Len(bitmaps) \in Nat \ {0}
  BY <1>1 DEF IInv, TypeOK, Op, ListInv
<1>3. PICK m \in InsertPosition(bitmaps, TOBITMAP(op.page)) : TRUE
  <2>1. TOBITMAP(op.page) \in Nat
    BY <1>2, PageSplit
  <2>2. \A j \in 1..Len(bitmaps) : ~(bitmaps[j].index > TOBITMAP(op.page))
    BY <1>2, <2>1 DEF WellFormed
  <2> QED  BY <2>2 DEF InsertPosition
<1>4. /\ WellFormed(Linked(bitmaps, next_bitmap_page))
      /\ Len(Linked(bitmaps, next_bitmap_page)) = Len(bitmaps) + 1
  BY <1>2, <1>3, InsertAtEnd
<1>5. Stopped \/ \E s : Extended(s)
  <2>1. CASE Stopped
    BY <2>1
  <2>2. CASE \E k \in InsertPosition(bitmaps, TOBITMAP(op.page)) :
          LET linked == InsertBitmap(mem_set(bitmaps, next_bitmap_page), k,
                                     bitmap_from(next_bitmap_page))
              f == IF first_free_bitmap >= k THEN first_free_bitmap + 1
                   ELSE first_free_bitmap
          IN  \E s \in pm_request_page(linked, f, mem_info) :
                /\ bitmaps' = s.bitmaps /\ first_free_bitmap' = s.ffb
                /\ mem_info' = s.mem_info /\ halted' = s.halted
                /\ next_bitmap_page' = IF s.halted = "no" THEN s.page
                                       ELSE next_bitmap_page
                /\ creation' = [phase |-> "set", left |-> 0, at |-> k]
    <3>1. PICK j \in InsertPosition(bitmaps, TOBITMAP(op.page)) :
          LET linked == InsertBitmap(mem_set(bitmaps, next_bitmap_page), j,
                                     bitmap_from(next_bitmap_page))
              f == IF first_free_bitmap >= j THEN first_free_bitmap + 1
                   ELSE first_free_bitmap
          IN  \E s \in pm_request_page(linked, f, mem_info) :
                /\ bitmaps' = s.bitmaps /\ first_free_bitmap' = s.ffb
                /\ mem_info' = s.mem_info /\ halted' = s.halted
                /\ next_bitmap_page' = IF s.halted = "no" THEN s.page
                                       ELSE next_bitmap_page
                /\ creation' = [phase |-> "set", left |-> 0, at |-> j]
      BY <2>2
    <3> DEFINE linked == Linked(bitmaps, next_bitmap_page)
               f == IF first_free_bitmap >= j THEN first_free_bitmap + 1
                    ELSE first_free_bitmap
    <3>2. j = Len(bitmaps) + 1
          /\ InsertBitmap(mem_set(bitmaps, next_bitmap_page), j,
                          bitmap_from(next_bitmap_page)) = linked
      BY <1>2, InsertAtEnd
    <3>3. PICK s \in pm_request_page(linked, f, mem_info) :
                /\ bitmaps' = s.bitmaps /\ first_free_bitmap' = s.ffb
                /\ mem_info' = s.mem_info /\ halted' = s.halted
                /\ next_bitmap_page' = IF s.halted = "no" THEN s.page
                                       ELSE next_bitmap_page
                /\ creation' = [phase |-> "set", left |-> 0, at |-> j]
      BY <3>1, <3>2, Zenon
    <3> HIDE DEF linked
    <3>4. f \in 1..Len(linked) /\ Len(linked) # 1 /\ WellFormed(linked)
      BY <1>2, <1>4, <3>2 DEF linked
    <3> HIDE DEF f
    <3>5. Requested(linked, mem_info, s)
      <4>1. Len(linked) = 1 => Exact(linked[1])
        BY <3>4
      <4> QED  BY <1>2, <3>3, <3>4, <4>1, RequestPageSound, Zenon
    <3>6. Extended(s)
      BY <3>2, <3>3, <3>5, Zenon DEF Extended, linked
    <3> QED  BY <3>6
  <2>3. \/ Stopped
        \/ \E k \in InsertPosition(bitmaps, TOBITMAP(op.page)) :
          LET linked == InsertBitmap(mem_set(bitmaps, next_bitmap_page), k,
                                     bitmap_from(next_bitmap_page))
              f == IF first_free_bitmap >= k THEN first_free_bitmap + 1
                   ELSE first_free_bitmap
          IN  \E s \in pm_request_page(linked, f, mem_info) :
                /\ bitmaps' = s.bitmaps /\ first_free_bitmap' = s.ffb
                /\ mem_info' = s.mem_info /\ halted' = s.halted
                /\ next_bitmap_page' = IF s.halted = "no" THEN s.page
                                       ELSE next_bitmap_page
                /\ creation' = [phase |-> "set", left |-> 0, at |-> k]
    BY Zenon DEF create_bitmap, Stopped
  <2> QED  BY <2>1, <2>2, <2>3
<1> QED  BY <1>1, <1>2, <1>4, <1>5

(* There is more than one bitmap after create_bitmap.                      *)
LEMMA CreateStep == IInv /\ create_bitmap => IInv'
<1> SUFFICES ASSUME IInv, create_bitmap PROVE IInv'
  OBVIOUS
<1>1. /\ halted = "no" /\ creation.phase = "heap" /\ creation.left = 0
      /\ op' = op /\ boot' = boot /\ granted' = granted
      /\ Stopped \/ \E s : Extended(s)
      /\ Len(Linked(bitmaps, next_bitmap_page)) = Len(bitmaps) + 1
      /\ Len(bitmaps) \in Nat \ {0} /\ next_bitmap_page \in Nat
  BY CreateOutcome
<1>2. /\ op.name \in {"lock", "take", "release"} /\ op.left > 0
      /\ op.page >= BITMAP_SIZE /\ op.page \in Nat
      /\ first_free_bitmap # 0
  BY <1>1 DEF IInv, CreationInv, TypeOK, Op
<1>3. CASE Stopped
  <2>1. /\ halted' \in {"assert_null", "fault", "lost"}
        /\ UNCHANGED <<bitmaps, first_free_bitmap, mem_info,
                       next_bitmap_page, creation>>
    BY <1>3 DEF Stopped
  <2>2. TypeOK'
    <3>1. halted' \in {"no"} \cup Reasons /\ first_free_bitmap # 0
      BY <1>2, <2>1 DEF Reasons
    <3> QED  BY <1>1, <2>1, <3>1 DEF IInv, TypeOK
  <2> QED  BY <1>1, <2>1, <2>2
           DEF IInv, ListInv, HintInv, CreationInv, ScanInv, TakeInv,
               RequestsDoNotCollide, Single
<1>4. CASE \E s : Extended(s)
  <2>1. PICK s : Extended(s)
    BY <1>4
  <2>2. /\ bitmaps' = s.bitmaps /\ first_free_bitmap' = s.ffb
        /\ mem_info' = s.mem_info /\ halted' = s.halted
        /\ next_bitmap_page' = IF s.halted = "no" THEN s.page
                               ELSE next_bitmap_page
        /\ creation' = [phase |-> "set", left |-> 0, at |-> Len(bitmaps) + 1]
    BY <2>1 DEF Extended
  <2>3. /\ WellFormed(s.bitmaps) /\ Len(s.bitmaps) = Len(bitmaps) + 1
        /\ s.ffb \in 0..(Len(bitmaps) + 1) /\ s.page \in Nat
        /\ s.mem_info \in Counters
        /\ s.halted \in {"no", "swapping", "lost", "assert_request_page"}
        /\ s.ffb = 0 => s.halted = "lost"
    BY <1>1, <2>1 DEF Extended, Requested
  <2>4. creation' \in Creation /\ creation'.phase = "set"
        /\ creation'.at = Len(bitmaps) + 1
    BY <1>1, <2>2 DEF Creation
  <2>5. TypeOK'
    <3>1. halted' \in {"no"} \cup Reasons
      BY <2>2, <2>3 DEF Reasons
    <3>2. next_bitmap_page' \in Nat
      BY <1>1, <2>2, <2>3
    <3>3. /\ bitmaps' \in Seq(MemBitmap) /\ Len(bitmaps') > 0
          /\ first_free_bitmap' \in 0..Len(bitmaps')
          /\ first_free_bitmap' = 0 => halted' = "lost"
          /\ mem_info' \in Counters
      BY <2>2, <2>3 DEF WellFormed
    <3>4. creation'.phase = "set" => creation'.at \in 1..Len(bitmaps')
      BY <1>1, <2>2, <2>3, <2>4
    <3> QED  BY <1>1, <2>4, <3>1, <3>2, <3>3, <3>4 DEF IInv, TypeOK
  <2>6. ~Single'
    BY <1>1, <2>2, <2>3 DEF Single
  <2>7. ListInv' /\ HintInv' /\ TakeInv' /\ RequestsDoNotCollide'
    BY <2>2, <2>3, <2>6 DEF ListInv, HintInv, TakeInv, RequestsDoNotCollide
  <2>8. CreationInv' /\ ScanInv'
    BY <1>1, <1>2, <2>4, <2>6 DEF CreationInv, ScanInv
  <2> QED  BY <2>5, <2>7, <2>8 DEF IInv
<1> QED  BY <1>1, <1>3, <1>4
-----------------------------------------------------------------------------
(* Every step of the manager preserves the invariant.                      *)
LEMMA NextInv == IInv /\ [Next]_vars => IInv'
<1> SUFFICES ASSUME IInv, [Next]_vars PROVE IInv'
  OBVIOUS
<1>1. CASE Boot
  BY <1>1, BootStep
<1>2. CASE Call
  BY <1>2, CallStep
<1>3. CASE Continue
  BY <1>3, ScanStep, ScanDoneStep, SetPageStep, ReturnStep, CallHeapStep,
     HeapRequestStep, CreateStep DEF Continue
<1>4. CASE UNCHANGED vars
  BY <1>4 DEF vars, IInv, TypeOK, ListInv, HintInv, CreationInv, ScanInv,
       ScanIsFirstFit, TakeInv, RequestsDoNotCollide, Single
<1> QED  BY <1>1, <1>2, <1>3, <1>4 DEF Next

(* The inductive invariant holds of every reachable state.                 *)
THEOREM Invariance == Spec => []IInv
<1>1. Init => IInv
  BY InitInv
<1>2. IInv /\ [Next]_vars => IInv'
  BY NextInv
<1> QED  BY <1>1, <1>2, PTL DEF Spec

(* Type correctness: in particular first_free_bitmap names a bitmap of the *)
(* list as long as the kernel runs.                                        *)
THEOREM TypeCorrect == Spec => []TypeOK
<1>1. IInv => TypeOK
  BY DEF IInv
<1> QED  BY <1>1, Invariance, PTL

(* For every memory map and every sequence of calls, the hint followed by  *)
(* pm_request_page is the lowest free page while one region is tracked.    *)
THEOREM HintCorrect == Spec => []HintExact
<1>1. IInv => HintExact
  <2> SUFFICES ASSUME IInv, halted = "no", Single
               PROVE  /\ first_free_bitmap = 1
                      /\ bitmaps[1].first_free \in 0..(BITMAP_SIZE - 1)
                      /\ bitmaps[1].first_free \notin bitmaps[1].map
                      /\ \A i \in 0..(bitmaps[1].first_free - 1) :
                           i \in bitmaps[1].map
    BY DEF HintExact
  <2>1. Exact(bitmaps[1])
    BY DEF IInv, HintInv
  <2>2. first_free_bitmap = 1
    BY DEF IInv, TypeOK, Single
  <2> QED  BY <2>1, <2>2 DEF Exact, BelowLocked
<1> QED  BY <1>1, Invariance, PTL

(* Neither assertion of the request functions can fail while one region is *)
(* tracked, fragmented or nearly full memory included.                     *)
THEOREM RequestsCorrect == Spec => []RequestsDoNotCollide
<1>1. IInv => RequestsDoNotCollide
  BY DEF IInv
<1> QED  BY <1>1, Invariance, PTL

(* pm_request_pages looks at runs in order and passes over none, in any    *)
(* list of bitmaps.                                                        *)
THEOREM FirstFit == Spec => []ScanIsFirstFit
<1>1. IInv => ScanIsFirstFit
  BY DEF IInv, ScanInv, ScanIsFirstFit
<1> QED  BY <1>1, Invariance, PTL
-----------------------------------------------------------------------------
(* The counters: what a bit set or cleared does to unset, to the number of *)
(* locked pages and to mem_info.                                           *)

(* The remainder is what its name says, and commutes with additions.       *)
LEMMA ModUnique ==
  ASSUME NEW m \in Nat \ {0}, NEW a \in Int, NEW q \in Int,
         NEW r \in 0..(m - 1), a = m * q + r
  PROVE  a % m = r
OBVIOUS

LEMMA ModAdd ==
  ASSUME NEW m \in Nat \ {0}, NEW a \in Int, NEW b \in Int
  PROVE  ((a % m) + b) % m = (a + b) % m
<1> DEFINE q == a \div m         r == a % m
           q2 == (r + b) \div m  r2 == (r + b) % m
<1>1. q \in Int /\ r \in 0..(m - 1) /\ a = m * q + r
  OBVIOUS
<1>2. r + b \in Int
  BY <1>1
<1>3. q2 \in Int /\ r2 \in 0..(m - 1) /\ r + b = m * q2 + r2
  <2> HIDE DEF r
  <2> QED  BY ONLY <1>2, m \in Nat \ {0}
<1> HIDE DEF q, r, q2, r2
<1>4. a + b = m * (q + q2) + r2
  <2>1. m * (q + q2) = m * q + m * q2
    BY <1>1, <1>3
  <2> QED  BY <1>1, <1>3, <2>1
<1>5. a + b \in Int /\ q + q2 \in Int
  BY <1>1, <1>3
<1>6. (a + b) % m = r2
  BY ONLY <1>3, <1>4, <1>5, ModUnique, m \in Nat \ {0}
<1> QED  BY <1>6 DEF r2, r

(* No bitmap behind position k was made in the page before that of bms[k]. *)
IntactIn(bms, k) == \A j \in (k + 1)..Len(bms) : bms[j].page + 1 # bms[k].page
AllIntact(bms) == \A k \in 1..Len(bms) : IntactIn(bms, k)

CountOf(bms, k) ==
  /\ bms[k].unset <= BITMAP_SIZE - Cardinality(bms[k].map)
  /\ IntactIn(bms, k) => bms[k].unset = BITMAP_SIZE - Cardinality(bms[k].map)
Counted(bms) == \A k \in 1..Len(bms) : CountOf(bms, k)

LockedIn(bms) == {kp \in (1..Len(bms)) \X (0..(BITMAP_SIZE - 1)) :
                    kp[2] \in bms[kp[1]].map}

(* The map of a bitmap, and the locked pages of a list, are finite.        *)
LEMMA FiniteMaps ==
  ASSUME NEW bms, WellFormed(bms)
  PROVE  /\ IsFiniteSet(LockedIn(bms)) /\ Cardinality(LockedIn(bms)) \in Nat
         /\ \A k \in 1..Len(bms) : /\ IsFiniteSet(bms[k].map)
                                   /\ Cardinality(bms[k].map) \in Nat
                                   /\ bms[k].unset \in Int
                                   /\ bms[k].map \subseteq 0..(BITMAP_SIZE - 1)
<1>1. Len(bms) \in Nat /\ \A k \in 1..Len(bms) : bms[k] \in MemBitmap
  BY DEF WellFormed
<1>2. IsFiniteSet(0..(BITMAP_SIZE - 1)) /\ IsFiniteSet(1..Len(bms))
  BY <1>1, FS_Interval
<1>3. ASSUME NEW k \in 1..Len(bms)
      PROVE  /\ IsFiniteSet(bms[k].map) /\ Cardinality(bms[k].map) \in Nat
             /\ bms[k].unset \in Int
             /\ bms[k].map \subseteq 0..(BITMAP_SIZE - 1)
  <2>1. bms[k].map \in SUBSET (0..(BITMAP_SIZE - 1)) /\ bms[k].unset \in Int
    BY <1>1 DEF MemBitmap
  <2>2. IsFiniteSet(bms[k].map)
    BY <1>2, <2>1, FS_Subset
  <2> QED  BY <2>1, <2>2, FS_CardinalityType
<1>4. IsFiniteSet((1..Len(bms)) \X (0..(BITMAP_SIZE - 1)))
  BY <1>2, FS_Product
<1>5. LockedIn(bms) \in SUBSET ((1..Len(bms)) \X (0..(BITMAP_SIZE - 1)))
  BY DEF LockedIn
<1>6. IsFiniteSet(LockedIn(bms))
  BY <1>4, <1>5, FS_Subset
<1> QED  BY <1>3, <1>6, FS_CardinalityType

(* A bitmap stays intact when no bitmap is moved or added.                 *)
LEMMA IntactKept ==
  ASSUME NEW bms, WellFormed(bms), NEW new, Len(new) = Len(bms),
         \A k \in 1..Len(bms) : new[k].page = bms[k].page
  PROVE  /\ \A k \in 1..Len(bms) : IntactIn(new, k) = IntactIn(bms, k)
         /\ AllIntact(new) = AllIntact(bms)
<1>1. ASSUME NEW k \in 1..Len(bms)  PROVE IntactIn(new, k) = IntactIn(bms, k)
  <2>1. \A j \in (k + 1)..Len(bms) : new[j].page = bms[j].page
    BY DEF WellFormed
  <2> QED  BY <2>1 DEF IntactIn
<1> QED  BY <1>1, Zenon DEF AllIntact

(* Storing a hint changes no count.                                        *)
LEMMA KeptCounts ==
  ASSUME NEW bms, WellFormed(bms), NEW new, Len(new) = Len(bms),
         BitsKept(bms, new)
  PROVE  /\ Counted(bms) => Counted(new)
         /\ AllIntact(new) = AllIntact(bms)
         /\ LockedIn(new) = LockedIn(bms)
<1>0. /\ \A k \in 1..Len(bms) : IntactIn(new, k) = IntactIn(bms, k)
      /\ AllIntact(new) = AllIntact(bms)
  BY IntactKept, Zenon DEF BitsKept
<1>1. Counted(bms) => Counted(new)
  BY <1>0 DEF Counted, CountOf, BitsKept
<1>2. LockedIn(new) = LockedIn(bms)
  BY DEF LockedIn, BitsKept
<1> QED  BY <1>0, <1>1, <1>2

LEMMA SetCounts ==
  ASSUME NEW bms, WellFormed(bms), NEW new, Len(new) = Len(bms),
         NEW at \in 1..Len(bms), NEW i, BitSet(bms, new, at, i)
  PROVE  /\ Counted(bms) => Counted(new)
         /\ AllIntact(new) = AllIntact(bms)
         /\ Cardinality(LockedIn(new)) = Cardinality(LockedIn(bms)) + 1
<1>0. /\ i \in 0..(BITMAP_SIZE - 1) /\ i \notin bms[at].map
      /\ new[at].map = bms[at].map \cup {i}
      /\ new[at].unset = bms[at].unset - 1
      /\ \A k \in 1..Len(bms) :
           k # at => new[k].map = bms[k].map /\ new[k].unset = bms[k].unset
  BY DEF BitSet, OthersKept
<1>a. /\ \A k \in 1..Len(bms) : IntactIn(new, k) = IntactIn(bms, k)
      /\ AllIntact(new) = AllIntact(bms)
  BY IntactKept, Zenon DEF BitSet, OthersKept
<1>1. IsFiniteSet(LockedIn(bms)) /\ IsFiniteSet(bms[at].map)
      /\ Cardinality(bms[at].map) \in Nat /\ bms[at].unset \in Int
  BY FiniteMaps
<1>2. Cardinality(new[at].map) = Cardinality(bms[at].map) + 1
  BY <1>0, <1>1, FS_AddElement
<1>3. ASSUME Counted(bms)  PROVE Counted(new)
  <2> SUFFICES ASSUME NEW k \in 1..Len(bms)  PROVE CountOf(new, k)
    BY Zenon DEF Counted
  <2>1. CountOf(bms, k) /\ IntactIn(new, k) = IntactIn(bms, k)
    BY <1>a, <1>3 DEF Counted
  <2>2. CASE k = at
    <3> DEFINE c == Cardinality(bms[at].map)  u == bms[at].unset
    <3>1. /\ new[k].unset = u - 1 /\ Cardinality(new[k].map) = c + 1
      BY <1>0, <1>2, <2>2, Zenon
    <3>2. /\ u <= BITMAP_SIZE - c
          /\ IntactIn(bms, k) => u = BITMAP_SIZE - c
      BY <2>1, <2>2, Zenon DEF CountOf
    <3>3. c \in Nat /\ u \in Int
      BY <1>1
    <3> HIDE DEF c, u
    <3>4. u - 1 <= BITMAP_SIZE - (c + 1)
          /\ (u = BITMAP_SIZE - c => u - 1 = BITMAP_SIZE - (c + 1))
      BY <3>2, <3>3
    <3> QED  BY <2>1, <3>1, <3>2, <3>4, Zenon DEF CountOf
  <2>3. CASE k # at
    <3>1. new[k].map = bms[k].map /\ new[k].unset = bms[k].unset
      BY <1>0, <2>3
    <3> QED  BY <2>1, <3>1, Zenon DEF CountOf
  <2> QED  BY <2>2, <2>3
<1>4. LockedIn(new) = LockedIn(bms) \cup {<<at, i>>}
  BY <1>0 DEF LockedIn
<1>5. <<at, i>> \notin LockedIn(bms)
  BY <1>0 DEF LockedIn
<1>6. Cardinality(LockedIn(new)) = Cardinality(LockedIn(bms)) + 1
  <2> DEFINE S == LockedIn(bms)  x == <<at, i>>
  <2>1. IsFiniteSet(S) /\ LockedIn(new) = S \cup {x} /\ x \notin S
    BY <1>1, <1>4, <1>5
  <2> HIDE DEF S, x
  <2>2. Cardinality(S \cup {x}) = Cardinality(S) + 1
    BY ONLY <2>1, FS_AddElement
  <2> QED  BY <2>1, <2>2 DEF S
<1> QED  BY <1>a, <1>3, <1>6

LEMMA ClearedCounts ==
  ASSUME NEW bms, WellFormed(bms), NEW new, Len(new) = Len(bms),
         NEW at \in 1..Len(bms), NEW i, BitCleared(bms, new, at, i)
  PROVE  /\ Counted(bms) => Counted(new)
         /\ AllIntact(new) = AllIntact(bms)
         /\ Cardinality(LockedIn(new)) = Cardinality(LockedIn(bms)) - 1
<1>0. /\ i \in bms[at].map
      /\ new[at].map = bms[at].map \ {i}
      /\ new[at].unset = bms[at].unset + 1
      /\ \A k \in 1..Len(bms) :
           k # at => new[k].map = bms[k].map /\ new[k].unset = bms[k].unset
  BY DEF BitCleared, OthersKept
<1>a. /\ \A k \in 1..Len(bms) : IntactIn(new, k) = IntactIn(bms, k)
      /\ AllIntact(new) = AllIntact(bms)
  BY IntactKept, Zenon DEF BitCleared, OthersKept
<1>1. IsFiniteSet(LockedIn(bms)) /\ IsFiniteSet(bms[at].map)
      /\ Cardinality(bms[at].map) \in Nat /\ bms[at].unset \in Int
      /\ bms[at].map \subseteq 0..(BITMAP_SIZE - 1)
  BY FiniteMaps
<1>2. Cardinality(new[at].map) = Cardinality(bms[at].map) - 1
  BY <1>0, <1>1, FS_RemoveElement
<1>3. ASSUME Counted(bms)  PROVE Counted(new)
  <2> SUFFICES ASSUME NEW k \in 1..Len(bms)  PROVE CountOf(new, k)
    BY Zenon DEF Counted
  <2>1. CountOf(bms, k) /\ IntactIn(new, k) = IntactIn(bms, k)
    BY <1>a, <1>3 DEF Counted
  <2>2. CASE k = at
    <3> DEFINE c == Cardinality(bms[at].map)  u == bms[at].unset
    <3>1. /\ new[k].unset = u + 1 /\ Cardinality(new[k].map) = c - 1
      BY <1>0, <1>2, <2>2, Zenon
    <3>2. /\ u <= BITMAP_SIZE - c
          /\ IntactIn(bms, k) => u = BITMAP_SIZE - c
      BY <2>1, <2>2, Zenon DEF CountOf
    <3>3. c \in Nat /\ u \in Int
      BY <1>1
    <3> HIDE DEF c, u
    <3>4. u + 1 <= BITMAP_SIZE - (c - 1)
          /\ (u = BITMAP_SIZE - c => u + 1 = BITMAP_SIZE - (c - 1))
      BY <3>2, <3>3
    <3> QED  BY <2>1, <3>1, <3>2, <3>4, Zenon DEF CountOf
  <2>3. CASE k # at
    <3>1. new[k].map = bms[k].map /\ new[k].unset = bms[k].unset
      BY <1>0, <2>3
    <3> QED  BY <2>1, <3>1, Zenon DEF CountOf
  <2> QED  BY <2>2, <2>3
<1>4. LockedIn(new) = LockedIn(bms) \ {<<at, i>>}
  BY <1>0 DEF LockedIn
<1>5. <<at, i>> \in LockedIn(bms)
  BY <1>0, <1>1 DEF LockedIn
<1>6. Cardinality(LockedIn(new)) = Cardinality(LockedIn(bms)) - 1
  <2> DEFINE S == LockedIn(bms)  x == <<at, i>>
  <2>1. IsFiniteSet(S) /\ LockedIn(new) = S \ {x} /\ x \in S
    BY <1>1, <1>4, <1>5
  <2> HIDE DEF S, x
  <2>2. Cardinality(S \ {x}) = Cardinality(S) - 1
    BY ONLY <2>1, FS_RemoveElement
  <2> QED  BY <2>1, <2>2 DEF S
<1> QED  BY <1>a, <1>3, <1>6

(* A new bitmap: the clear bits of one that was stored behind it are more  *)
(* than its counter says, and then not all are intact.                     *)
LEMMA LinkedCounts ==
  ASSUME NEW bms, WellFormed(bms), NEW q \in Nat, Counted(bms)
  PROVE  /\ Counted(Linked(bms, q))
         /\ AllIntact(Linked(bms, q)) =>
              AllIntact(bms) /\ LockedIn(Linked(bms, q)) = LockedIn(bms)
<1> DEFINE bm == bitmap_from(q)  old == mem_set(bms, q)  n == Len(bms)
           new == Linked(bms, q)
<1>1. bm \in MemBitmap /\ bm.map = {} /\ bm.unset = BITMAP_SIZE /\ bm.page = q
  BY DEF bitmap_from, MemBitmap
<1>2. /\ WellFormed(old) /\ Len(old) = n /\ n \in Nat
      /\ \A k \in 1..n : /\ old[k].page = bms[k].page
                         /\ old[k].unset = bms[k].unset
                         /\ bms[k].page # q + 1 => old[k] = bms[k]
                         /\ old[k].map \subseteq bms[k].map
  BY Wiped DEF WellFormed
<1>3. new = Append(old, bm)
  BY DEF Linked
<1> HIDE DEF bm, old, new
<1>4. /\ Len(new) = n + 1 /\ new[n + 1] = bm
      /\ \A k \in 1..n : new[k] = old[k]
  BY <1>1, <1>2, <1>3 DEF WellFormed
<1>5. ASSUME NEW k \in 1..n, IntactIn(new, k)
      PROVE  new[k] = bms[k] /\ IntactIn(bms, k)
  <2>1. new[n + 1].page + 1 # new[k].page
    BY <1>2, <1>4, <1>5 DEF IntactIn
  <2>2. bms[k].page # q + 1
    BY <1>1, <1>2, <1>4, <2>1
  <2>3. \A j \in (k + 1)..n : new[j].page = bms[j].page
    BY <1>2, <1>4
  <2> QED  BY <1>2, <1>4, <1>5, <2>2, <2>3 DEF IntactIn
<1>6. ASSUME NEW k \in 1..(n + 1)  PROVE CountOf(new, k)
  <2>1. CASE k = n + 1
    <3>1. Cardinality(new[k].map) = 0 /\ new[k].unset = BITMAP_SIZE
      BY <1>1, <1>4, <2>1, FS_EmptySet
    <3> QED  BY <3>1 DEF CountOf
  <2>2. CASE k \in 1..n
    <3> DEFINE c == Cardinality(bms[k].map)  d == Cardinality(new[k].map)
               u == bms[k].unset
    <3>1. c \in Nat /\ u \in Int /\ IsFiniteSet(bms[k].map)
      BY <2>2, FiniteMaps
    <3>2. new[k].map \subseteq bms[k].map /\ new[k].unset = u
      BY <1>2, <1>4, <2>2
    <3>3. d \in Nat /\ d <= c
      BY <3>1, <3>2, FS_Subset, FS_CardinalityType
    <3>4. u <= BITMAP_SIZE - c /\ (IntactIn(bms, k) => u = BITMAP_SIZE - c)
      BY <2>2 DEF Counted, CountOf
    <3>5. IntactIn(new, k) => IntactIn(bms, k) /\ d = c
      BY <1>5, <2>2
    <3> HIDE DEF c, d, u
    <3>6. u <= BITMAP_SIZE - d
      BY <3>1, <3>3, <3>4
    <3> QED  BY <3>2, <3>4, <3>5, <3>6, Zenon DEF CountOf, d
  <2> QED  BY <1>2, <2>1, <2>2
<1>7. Counted(new)
  BY <1>4, <1>6 DEF Counted
<1>8. ASSUME AllIntact(new)
      PROVE  AllIntact(bms) /\ LockedIn(new) = LockedIn(bms)
  <2>1. \A k \in 1..n : new[k] = bms[k] /\ IntactIn(bms, k)
    <3>1. \A k \in 1..n : IntactIn(new, k)
      BY <1>2, <1>4, <1>8 DEF AllIntact
    <3> QED  BY <1>5, <3>1
  <2>2. LockedIn(new) = LockedIn(bms)
    BY <1>1, <1>2, <1>4, <2>1 DEF LockedIn
  <2> QED  BY <2>1, <2>2 DEF AllIntact
<1> QED  BY <1>7, <1>8 DEF new

(* The byte counters as size_t: a page charged or refunded, a segment      *)
(* counted.                                                                *)
LEMMA ChargeSums ==
  ASSUME NEW mi \in Counters, NEW c \in Nat, NEW total \in Nat,
         (mi.used + mi.free) % SIZE_MAX = total % SIZE_MAX
  PROVE  /\ mi.used = (PAGE_SIZE * c) % SIZE_MAX =>
              Charge(mi).used = (PAGE_SIZE * (c + 1)) % SIZE_MAX
         /\ (Charge(mi).used + Charge(mi).free) % SIZE_MAX = total % SIZE_MAX
<1> DEFINE u == mi.used  f == mi.free  P == PAGE_SIZE  m == SIZE_MAX
           b == (f - P) % m
<1>0. u \in Int /\ f \in Int /\ P \in Int /\ m \in Nat \ {0} /\ P * c \in Int
  BY DEF Counters
<1>1. Charge(mi).used = (u + P) % m /\ Charge(mi).free = b
  BY DEF Charge
<1>2. (u + f) % m = total % m
  OBVIOUS
<1> HIDE DEF u, f, P, m
<1>3. ASSUME u = (P * c) % m  PROVE (u + P) % m = (P * (c + 1)) % m
  <2>1. (((P * c) % m) + P) % m = (P * c + P) % m
    BY ONLY <1>0, ModAdd
  <2>2. P * c + P = P * (c + 1)
    BY <1>0
  <2> QED  BY ONLY <1>3, <2>1, <2>2
<1>4. (((u + P) % m) + b) % m = (u + f) % m
  <2>1. b \in Int /\ f - P \in Int /\ u + P \in Int
    BY ONLY <1>0
  <2> HIDE DEF b
  <2>2. (((u + P) % m) + b) % m = ((u + P) + b) % m
    BY ONLY <1>0, <2>1, ModAdd
  <2>3. (((f - P) % m) + (u + P)) % m = ((f - P) + (u + P)) % m
    BY ONLY <1>0, <2>1, ModAdd
  <2>4. (u + P) + b = ((f - P) % m) + (u + P)
    BY <1>0, <2>1 DEF b
  <2>5. (f - P) + (u + P) = u + f
    BY <1>0
  <2> QED  BY ONLY <2>2, <2>3, <2>4, <2>5
<1> QED  BY ONLY <1>1, <1>2, <1>3, <1>4 DEF P, m, u

LEMMA RefundSums ==
  ASSUME NEW mi \in Counters, NEW c \in Nat, NEW total \in Nat,
         (mi.used + mi.free) % SIZE_MAX = total % SIZE_MAX
  PROVE  /\ mi.used = (PAGE_SIZE * c) % SIZE_MAX =>
              Refund(mi).used = (PAGE_SIZE * (c - 1)) % SIZE_MAX
         /\ (Refund(mi).used + Refund(mi).free) % SIZE_MAX = total % SIZE_MAX
<1> DEFINE u == mi.used  f == mi.free  P == PAGE_SIZE  m == SIZE_MAX
           b == (f + P) % m
<1>0. u \in Int /\ f \in Int /\ P \in Int /\ m \in Nat \ {0} /\ P * c \in Int
      /\ -P \in Int
  BY DEF Counters
<1>1. Refund(mi).used = (u - P) % m /\ Refund(mi).free = b
  BY DEF Refund
<1>2. (u + f) % m = total % m
  OBVIOUS
<1> HIDE DEF u, f, P, m
<1>3. ASSUME u = (P * c) % m  PROVE (u - P) % m = (P * (c - 1)) % m
  <2>1. (((P * c) % m) + (-P)) % m = (P * c + (-P)) % m
    BY ONLY <1>0, ModAdd
  <2>2. P * c + (-P) = P * (c - 1) /\ u - P = u + (-P)
    BY <1>0
  <2> QED  BY ONLY <1>3, <2>1, <2>2
<1>4. (((u - P) % m) + b) % m = (u + f) % m
  <2>1. b \in Int /\ f + P \in Int /\ u - P \in Int
    BY ONLY <1>0
  <2> HIDE DEF b
  <2>2. (((u - P) % m) + b) % m = ((u - P) + b) % m
    BY ONLY <1>0, <2>1, ModAdd
  <2>3. (((f + P) % m) + (u - P)) % m = ((f + P) + (u - P)) % m
    BY ONLY <1>0, <2>1, ModAdd
  <2>4. (u - P) + b = ((f + P) % m) + (u - P)
    BY <1>0, <2>1 DEF b
  <2>5. (f + P) + (u - P) = u + f
    BY <1>0
  <2> QED  BY ONLY <2>2, <2>3, <2>4, <2>5
<1> QED  BY ONLY <1>1, <1>2, <1>3, <1>4 DEF P, m, u

WithSegment(mi, n) == [mi EXCEPT !.free = (@ + n) % SIZE_MAX]

LEMMA SegmentSums ==
  ASSUME NEW mi \in Counters, NEW n \in Nat, NEW total \in Nat,
         (mi.used + mi.free) % SIZE_MAX = total % SIZE_MAX
  PROVE  /\ WithSegment(mi, n).used = mi.used
         /\ (WithSegment(mi, n).used + WithSegment(mi, n).free) % SIZE_MAX
              = (total + n) % SIZE_MAX
<1> DEFINE u == mi.used  f == mi.free  m == SIZE_MAX  b == (f + n) % m
<1>0. /\ m \in Nat \ {0} /\ f + n \in Int /\ u + f \in Int
      /\ u \in Int /\ f \in Int /\ n \in Int /\ total \in Int
      /\ WithSegment(mi, n).used = u /\ WithSegment(mi, n).free = b
  BY DEF Counters, WithSegment
<1>1. (u + f) % m = total % m
  OBVIOUS
<1> HIDE DEF u, f, m
<1>2. b \in Int
  BY ONLY <1>0
<1>3. (((f + n) % m) + u) % m = ((f + n) + u) % m
  BY ONLY <1>0, ModAdd
<1>4. (((u + f) % m) + n) % m = ((u + f) + n) % m
  BY ONLY <1>0, ModAdd
<1>5. ((total % m) + n) % m = (total + n) % m
  BY ONLY <1>0, ModAdd
<1>6. (f + n) + u = (u + f) + n
  BY <1>0
<1>7. u + b = ((f + n) % m) + u
  <2> HIDE DEF b
  <2>1. u + b = b + u
    BY <1>0, <1>2
  <2> QED  BY <2>1 DEF b
<1>8. (u + b) % m = (total + n) % m
  BY ONLY <1>1, <1>3, <1>4, <1>5, <1>6, <1>7, Zenon DEF b
<1> QED  BY ONLY <1>0, <1>8, Zenon DEF m, b, u

(* The order of the natural numbers is a well-founded relation, so that a  *)
(* set of them has a least element: the induction of the next proofs.      *)
LEMMA NatOrder ==
  \E R : IsWellFoundedOn(R, Nat) /\ \A x, y \in Nat : x < y => <<x, y>> \in R
<1> DEFINE R == OpToRel(<, Nat)
<1>1. \A x, y \in Nat : x < y => <<x, y>> \in R
  BY DEF OpToRel
<1>2. IsWellFoundedOn(R, Nat)
  BY NatLessThanWellFounded DEF R
<1> QED  BY <1>1, <1>2, Zenon

(* The bytes of the segments are well defined and add up.                  *)
LEMMA SegmentBytesRule ==
  /\ SegmentBytes[0] = 0
  /\ \A i \in 1..Len(mem_map) :
       SegmentBytes[i] = SegmentBytes[i - 1] + mem_map[i].length
<1> DEFINE L == Len(mem_map)
           Rec(g, n) == g = [i \in 0..n |->
                               IF i = 0 THEN 0 ELSE g[i - 1] + mem_map[i].length]
           S == {n \in 0..L : ~ \E g : Rec(g, n)}
<1>0. L \in Nat
  BY MemMapAssumption
<1>1. S = {}
  <2> SUFFICES ASSUME S # {} PROVE FALSE
    OBVIOUS
  <2>1. PICK R : IsWellFoundedOn(R, Nat) /\ \A x, y \in Nat : x < y => <<x, y>> \in R
    BY NatOrder, Zenon
  <2>2. S \subseteq Nat
    BY <1>0
  <2>3. PICK n \in S : \A y \in S : ~(<<y, n>> \in R)
    <3> HIDE DEF S
    <3> QED  BY <2>1, <2>2, WFMin, Zenon
  <2>4. n \in 0..L /\ ~ \E g : Rec(g, n)
    BY <2>3
  <2>5. CASE n = 0
    <3> DEFINE g == [i \in 0..0 |-> 0]
    <3>1. Rec(g, 0)
      OBVIOUS
    <3> QED  BY <2>4, <2>5, <3>1
  <2>6. CASE n # 0
    <3>1. n - 1 \in 0..L /\ n - 1 \in Nat /\ n \in Nat /\ n - 1 < n
      BY <1>0, <2>4, <2>6
    <3>2. n - 1 \notin S
      BY <2>1, <2>3, <3>1
    <3>3. PICK g : Rec(g, n - 1)
      BY <3>1, <3>2
    <3> DEFINE h == [i \in 0..n |-> IF i = n THEN g[n - 1] + mem_map[n].length
                                    ELSE g[i]]
    <3>4. \A i \in 0..n : h[i] = IF i = 0 THEN 0 ELSE h[i - 1] + mem_map[i].length
      <4> SUFFICES ASSUME NEW i \in 0..n
                   PROVE  h[i] = IF i = 0 THEN 0 ELSE h[i - 1] + mem_map[i].length
        OBVIOUS
      <4>1. CASE i = n
        <5>1. h[i] = g[n - 1] + mem_map[n].length /\ h[n - 1] = g[n - 1]
          BY <3>1, <4>1
        <5> QED  BY <2>6, <4>1, <5>1
      <4>2. CASE i # n
        <5>1. i \in 0..(n - 1) /\ h[i] = g[i]
          BY <3>1, <4>2
        <5>2. g[i] = IF i = 0 THEN 0 ELSE g[i - 1] + mem_map[i].length
          BY <3>3, <5>1
        <5>3. i # 0 => h[i - 1] = g[i - 1]
          BY <3>1, <5>1
        <5> QED  BY <5>1, <5>2, <5>3
      <4> QED  BY <4>1, <4>2
    <3>5. h = [i \in 0..n |-> h[i]]
      OBVIOUS
    <3> HIDE DEF h
    <3>6. Rec(h, n)
      BY <3>4, <3>5
    <3> QED  BY <2>4, <3>6
  <2> QED  BY <2>5, <2>6
<1>2. PICK g : Rec(g, L)
  <2>1. L \in 0..L
    BY <1>0
  <2> QED  BY <1>1, <2>1
<1>3. SegmentBytes = [i \in 0..L |-> IF i = 0 THEN 0
                        ELSE SegmentBytes[i - 1] + mem_map[i].length]
  BY <1>2 DEF SegmentBytes
<1>4. \A i \in 0..L : SegmentBytes[i] = IF i = 0 THEN 0
                        ELSE SegmentBytes[i - 1] + mem_map[i].length
  BY <1>3
<1> QED  BY <1>0, <1>4
-----------------------------------------------------------------------------
(* The books: UnsetExact and Accounting are inductive on top of IInv.      *)

Booked(bms, mi, total) ==
  /\ AllIntact(bms) =>
       mi.used = (PAGE_SIZE * Cardinality(LockedIn(bms))) % SIZE_MAX
  /\ (mi.used + mi.free) % SIZE_MAX = total % SIZE_MAX

BooksInv ==
  Counted(bitmaps) /\ (halted = "no" => Booked(bitmaps, mem_info, SeenBytes))

(* Every byte counted so far is a natural number; a segment adds its own.  *)
LEMMA SeenBytesRule ==
  ASSUME boot \in 1..(Len(mem_map) + 3)
  PROVE  /\ SeenBytes \in Nat
         /\ boot' = boot => SeenBytes' = SeenBytes
         /\ boot > Len(mem_map) /\ boot' = boot + 1 => SeenBytes' = SeenBytes
         /\ boot <= Len(mem_map) /\ boot' = boot + 1 =>
              SeenBytes' = SeenBytes + mem_map[boot].length
<1> DEFINE L == Len(mem_map)
           S == {n \in 0..L : SegmentBytes[n] \notin Nat}
<1>0. L \in Nat /\ \A n \in 1..L : mem_map[n].length \in Nat
  <2>1. L \in Nat /\ \A n \in 1..L : mem_map[n] \in Segment
    BY MemMapAssumption
  <2> QED  BY <2>1 DEF Segment
<1>1. S = {}
  <2> SUFFICES ASSUME S # {} PROVE FALSE
    OBVIOUS
  <2>1. PICK R : IsWellFoundedOn(R, Nat) /\ \A x, y \in Nat : x < y => <<x, y>> \in R
    BY NatOrder, Zenon
  <2>2. S \subseteq Nat
    BY <1>0
  <2>3. PICK n \in S : \A y \in S : ~(<<y, n>> \in R)
    <3> HIDE DEF S
    <3> QED  BY <2>1, <2>2, WFMin, Zenon
  <2>4. n \in 0..L /\ SegmentBytes[n] \notin Nat
    BY <2>3
  <2>5. n # 0
    BY <2>4, SegmentBytesRule
  <2>6. n - 1 \in 0..L /\ n - 1 \in Nat /\ n \in Nat /\ n - 1 < n /\ n \in 1..L
    BY <1>0, <2>4, <2>5
  <2>7. SegmentBytes[n - 1] \in Nat
    BY <2>1, <2>3, <2>6
  <2>8. SegmentBytes[n] = SegmentBytes[n - 1] + mem_map[n].length
    BY <2>6, SegmentBytesRule
  <2> QED  BY <1>0, <2>4, <2>6, <2>7, <2>8
<1>2. SeenBytes \in Nat
  <2>1. (IF boot > L THEN L ELSE boot - 1) \in 0..L
    BY <1>0
  <2> QED  BY <1>1, <2>1 DEF SeenBytes
<1>3. boot' = boot => SeenBytes' = SeenBytes
  BY DEF SeenBytes
<1>4. boot > L /\ boot' = boot + 1 => SeenBytes' = SeenBytes
  BY <1>0 DEF SeenBytes
<1>5. boot <= L /\ boot' = boot + 1 => SeenBytes' = SeenBytes + mem_map[boot].length
  <2> SUFFICES ASSUME boot <= L, boot' = boot + 1
               PROVE  SeenBytes' = SeenBytes + mem_map[boot].length
    OBVIOUS
  <2>1. SeenBytes = SegmentBytes[boot - 1]
    BY <1>0 DEF SeenBytes
  <2>2. SeenBytes' = SegmentBytes[boot]
    <3>1. (IF boot' > L THEN L ELSE boot' - 1) = boot
      BY <1>0
    <3> QED  BY <3>1 DEF SeenBytes
  <2>3. boot \in 1..L
    BY <1>0
  <2> QED  BY <2>1, <2>2, <2>3, SegmentBytesRule
<1> QED  BY <1>2, <1>3, <1>4, <1>5

(* A list whose bits change, with the counters charged or refunded.        *)
LEMMA BooksKept ==
  ASSUME NEW bms, WellFormed(bms), NEW new, Len(new) = Len(bms),
         BitsKept(bms, new), NEW mi, NEW total, Booked(bms, mi, total)
  PROVE  Booked(new, mi, total)
BY KeptCounts, Zenon DEF Booked

LEMMA BooksCharged ==
  ASSUME NEW bms, WellFormed(bms), NEW new, Len(new) = Len(bms),
         NEW at \in 1..Len(bms), NEW i, BitSet(bms, new, at, i),
         NEW mi \in Counters, NEW total \in Nat, Booked(bms, mi, total)
  PROVE  Booked(new, Charge(mi), total)
<1> DEFINE c == Cardinality(LockedIn(bms))
<1>1. c \in Nat
  BY FiniteMaps
<1>2. Cardinality(LockedIn(new)) = c + 1 /\ AllIntact(new) = AllIntact(bms)
  BY SetCounts
<1>3. /\ AllIntact(bms) => mi.used = (PAGE_SIZE * c) % SIZE_MAX
      /\ (mi.used + mi.free) % SIZE_MAX = total % SIZE_MAX
  BY DEF Booked
<1> HIDE DEF c
<1>4. /\ AllIntact(bms) =>
           Charge(mi).used = (PAGE_SIZE * (c + 1)) % SIZE_MAX
      /\ (Charge(mi).used + Charge(mi).free) % SIZE_MAX = total % SIZE_MAX
  BY <1>1, <1>3, ChargeSums
<1> QED  BY <1>2, <1>4, Zenon DEF Booked

LEMMA BooksRefunded ==
  ASSUME NEW bms, WellFormed(bms), NEW new, Len(new) = Len(bms),
         NEW at \in 1..Len(bms), NEW i, BitCleared(bms, new, at, i),
         NEW mi \in Counters, NEW total \in Nat, Booked(bms, mi, total)
  PROVE  Booked(new, Refund(mi), total)
<1> DEFINE c == Cardinality(LockedIn(bms))
<1>1. c \in Nat
  BY FiniteMaps
<1>2. Cardinality(LockedIn(new)) = c - 1 /\ AllIntact(new) = AllIntact(bms)
  BY ClearedCounts
<1>3. /\ AllIntact(bms) => mi.used = (PAGE_SIZE * c) % SIZE_MAX
      /\ (mi.used + mi.free) % SIZE_MAX = total % SIZE_MAX
  BY DEF Booked
<1> HIDE DEF c
<1>4. /\ AllIntact(bms) =>
           Refund(mi).used = (PAGE_SIZE * (c - 1)) % SIZE_MAX
      /\ (Refund(mi).used + Refund(mi).free) % SIZE_MAX = total % SIZE_MAX
  BY <1>1, <1>3, RefundSums
<1> QED  BY <1>2, <1>4, Zenon DEF Booked

(* A page request, made on a list bms, keeps the books.                    *)
LEMMA RequestBooks ==
  ASSUME NEW bms, WellFormed(bms), NEW mi \in Counters, NEW s,
         Requested(bms, mi, s), Counted(bms), NEW total \in Nat,
         Booked(bms, mi, total)
  PROVE  /\ Counted(s.bitmaps)
         /\ s.halted = "no" => Booked(s.bitmaps, s.mem_info, total)
<1>1. /\ Len(s.bitmaps) = Len(bms) /\ 1 \in 1..Len(bms)
      /\ BitsKept(bms, s.bitmaps) \/ BitSet(bms, s.bitmaps, 1, s.page)
      /\ s.halted = "no" => /\ BitSet(bms, s.bitmaps, 1, s.page)
                            /\ s.mem_info = Charge(mi)
  BY DEF Requested, WellFormed
<1>2. Counted(s.bitmaps)
  BY <1>1, KeptCounts, SetCounts
<1>3. s.halted = "no" => Booked(s.bitmaps, s.mem_info, total)
  BY <1>1, BooksCharged
<1> QED  BY <1>2, <1>3

(* The books of the first bitmap.                                          *)
LEMMA InitBooks == Init => BooksInv
<1> SUFFICES ASSUME Init PROVE BooksInv
  OBVIOUS
<1>1. LET new == bitmap_from(pages_bitmap0)
      IN  new.map = {} /\ new.unset = BITMAP_SIZE
  BY DEF bitmap_from
<1>2. /\ Len(bitmaps) = 1 /\ bitmaps[1] = bitmap_from(pages_bitmap0)
      /\ mem_info.used = 0 /\ mem_info.free = 0 /\ boot = 1
  BY DEF Init
<1>3. Counted(bitmaps)
  <2>1. bitmaps[1].unset = BITMAP_SIZE /\ Cardinality(bitmaps[1].map) = 0
    BY <1>1, <1>2, FS_EmptySet
  <2>2. CountOf(bitmaps, 1)
    BY <2>1 DEF CountOf
  <2> QED  BY <1>2, <2>2 DEF Counted
<1>4. Cardinality(LockedIn(bitmaps)) = 0
  <2>1. LockedIn(bitmaps) = {}
    BY <1>1, <1>2 DEF LockedIn
  <2> QED  BY <2>1, FS_EmptySet
<1>5. SeenBytes = 0
  <2>1. Len(mem_map) \in Nat
    BY MemMapAssumption
  <2>2. (IF boot > Len(mem_map) THEN Len(mem_map) ELSE boot - 1) = 0
    BY <1>2, <2>1
  <2> QED  BY <2>2, SegmentBytesRule DEF SeenBytes
<1>6. Booked(bitmaps, mem_info, SeenBytes)
  BY <1>2, <1>4, <1>5 DEF Booked
<1> QED  BY <1>3, <1>6 DEF BooksInv

(* Every step keeps the books.                                             *)
LEMMA NextBooks == IInv /\ BooksInv /\ [Next]_vars => BooksInv'
<1> SUFFICES ASSUME IInv, BooksInv, [Next]_vars PROVE BooksInv'
  OBVIOUS
<1>0. /\ WellFormed(bitmaps) /\ mem_info \in Counters /\ SeenBytes \in Nat
      /\ boot \in 1..(Len(mem_map) + 3) /\ Counted(bitmaps)
      /\ Len(mem_map) \in Nat /\ op \in Op /\ op.page \in Nat
  BY SeenBytesRule, MemMapAssumption DEF IInv, TypeOK, ListInv, BooksInv, Op
<1>a. halted = "no" => /\ first_free_bitmap \in 1..Len(bitmaps)
                       /\ Booked(bitmaps, mem_info, SeenBytes)
                       /\ Len(bitmaps) = 1 => Exact(bitmaps[1])
  BY DEF IInv, TypeOK, HintInv, Single, BooksInv
<1>1. ASSUME bitmaps' = bitmaps, mem_info' = mem_info, boot' = boot,
             halted' = "no" => halted = "no"
      PROVE  BooksInv'
  BY <1>0, <1>1, SeenBytesRule DEF BooksInv
<1>2. ASSUME halted = "no",
             NEW s \in pm_request_page(bitmaps, first_free_bitmap, mem_info),
             bitmaps' = s.bitmaps, mem_info' = s.mem_info, halted' = s.halted,
             SeenBytes' = SeenBytes
      PROVE  BooksInv'
  <2>1. Requested(bitmaps, mem_info, s)
    BY <1>0, <1>a, <1>2, RequestPageSound
  <2> QED  BY <1>0, <1>a, <1>2, <2>1, RequestBooks DEF BooksInv
<1>3. CASE compute_mem_size
  <2>1. /\ bitmaps' = bitmaps /\ halted' = halted /\ halted = "no"
        /\ boot <= Len(mem_map) /\ boot' = boot + 1
        /\ mem_info' = [mem_info EXCEPT !.free =
                          (@ + mem_map[boot].length) % SIZE_MAX]
    BY <1>3 DEF compute_mem_size, Idle, Running
  <2>2. SeenBytes' = SeenBytes + mem_map[boot].length
    BY <1>0, <2>1, SeenBytesRule
  <2> DEFINE n == mem_map[boot].length
  <2>3. n \in Nat
    <3>1. mem_map[boot] \in Segment
      BY <1>0, <2>1, MemMapAssumption
    <3> QED  BY <3>1 DEF Segment
  <2>4. mem_info' = WithSegment(mem_info, n)
    BY <2>1 DEF WithSegment
  <2>5. (mem_info.used + mem_info.free) % SIZE_MAX = SeenBytes % SIZE_MAX
    BY <1>a, <2>1 DEF Booked
  <2> HIDE DEF n
  <2>6. /\ mem_info'.used = mem_info.used
        /\ (mem_info'.used + mem_info'.free) % SIZE_MAX
              = (SeenBytes + n) % SIZE_MAX
    BY <1>0, <2>3, <2>4, <2>5, SegmentSums
  <2>7. Booked(bitmaps, mem_info', SeenBytes')
    <3>1. AllIntact(bitmaps) =>
            mem_info'.used = (PAGE_SIZE * Cardinality(LockedIn(bitmaps))) % SIZE_MAX
      BY <1>a, <2>1, <2>6 DEF Booked
    <3>2. (mem_info'.used + mem_info'.free) % SIZE_MAX = SeenBytes' % SIZE_MAX
      BY <2>2, <2>6, Zenon DEF n
    <3> QED  BY <3>1, <3>2, Zenon DEF Booked
  <2> QED  BY <1>0, <2>1, <2>7 DEF BooksInv
<1>4. CASE LockKernel
  <2>1. /\ bitmaps' = bitmaps /\ mem_info' = mem_info /\ halted' = halted
        /\ SeenBytes' = SeenBytes
    BY <1>0, <1>4, SeenBytesRule DEF LockKernel
  <2> QED  BY <1>0, <2>1 DEF BooksInv
<1>5. CASE KeepBitmapPage
  <2>1. halted = "no" /\ SeenBytes' = SeenBytes
    BY <1>0, <1>5, SeenBytesRule DEF KeepBitmapPage, Idle, Running
  <2> QED  BY <1>2, <1>5, <2>1 DEF KeepBitmapPage
<1>6. CASE RequestPage
  <2>1. halted = "no" /\ SeenBytes' = SeenBytes
    BY <1>0, <1>6, SeenBytesRule DEF RequestPage, Callable, Idle, Running
  <2> QED  BY <1>2, <1>6, <2>1 DEF RequestPage
<1>7. CASE HeapRequest
  <2>1. halted = "no" /\ SeenBytes' = SeenBytes
    BY <1>0, <1>7, SeenBytesRule DEF HeapRequest
  <2> QED  BY <1>2, <1>7, <2>1 DEF HeapRequest
<1>8. ASSUME halted = "no", NEW at \in 1..Len(bitmaps), SetIn(at), boot' = boot,
             Single => TOBITMAP(op.page) = 0
      PROVE  BooksInv'
  <2>0. SeenBytes' = SeenBytes
    BY <1>0, <1>8, SeenBytesRule
  <2>1. CASE LockIn(at)
    <3>1. PICK s \in pm_try_lock_page(bitmaps, first_free_bitmap, at, op.page) :
             /\ bitmaps' = s.bitmaps
             /\ mem_info' = IF s.ok /\ s.ffb # 0 THEN Charge(mem_info) ELSE mem_info
             /\ halted' = IF s.ffb = 0 THEN "lost" ELSE halted
      BY <2>1 DEF LockIn
    <3>2. Locked(bitmaps, first_free_bitmap, at, op.page, s)
      <4>1. Len(bitmaps) = 1 => /\ TOBITMAP(op.page) = 0
                                /\ \A i \in 0..(bitmaps[1].first_free - 1) :
                                     i \in bitmaps[1].map \cup {TOINDEX(op.page)}
        BY <1>a, <1>8 DEF Exact, BelowLocked, Single
      <4> QED  BY <1>0, <1>a, <1>8, <3>1, <4>1, LockPageSound, Zenon
    <3>3. CASE s.ok
      <4>1. BitSet(bitmaps, bitmaps', at, TOINDEX(op.page))
            /\ Len(bitmaps') = Len(bitmaps)
        BY <3>1, <3>2, <3>3, Zenon DEF Locked
      <4>2. Counted(bitmaps')
        BY <1>0, <4>1, SetCounts
      <4>3. halted' = "no" => mem_info' = Charge(mem_info)
        BY <3>1, <3>3
      <4>4. Booked(bitmaps', Charge(mem_info), SeenBytes)
        BY <1>0, <1>a, <1>8, <4>1, BooksCharged
      <4> QED  BY <2>0, <4>2, <4>3, <4>4 DEF BooksInv
    <3>4. CASE ~s.ok
      <4>1. bitmaps' = bitmaps /\ mem_info' = mem_info
        BY <3>1, <3>2, <3>4, Zenon DEF Locked
      <4> QED  BY <1>1, <1>8, <4>1
    <3> QED  BY <3>3, <3>4
  <2>2. CASE ReleaseIn(at)
    <3>1. PICK s \in pm_try_release_page(bitmaps, first_free_bitmap, at, op.page) :
             /\ bitmaps' = s.bitmaps
             /\ mem_info' = IF s.ok THEN Refund(mem_info) ELSE mem_info
             /\ halted' = halted
      BY <2>2 DEF ReleaseIn
    <3>2. Released(bitmaps, at, op.page, s)
      <4>1. Len(bitmaps) = 1 => TOBITMAP(op.page) = 0 /\ Exact(bitmaps[1])
        BY <1>a, <1>8 DEF Single
      <4> QED  BY <1>0, <1>a, <1>8, <3>1, <4>1, ReleasePageSound, Zenon
    <3>3. CASE s.ok
      <4>1. BitCleared(bitmaps, bitmaps', at, TOINDEX(op.page))
            /\ Len(bitmaps') = Len(bitmaps)
        BY <3>1, <3>2, <3>3, Zenon DEF Released
      <4>2. Counted(bitmaps')
        BY <1>0, <4>1, ClearedCounts
      <4>3. mem_info' = Refund(mem_info)
        BY <3>1, <3>3
      <4>4. Booked(bitmaps', Refund(mem_info), SeenBytes)
        BY <1>0, <1>a, <1>8, <4>1, BooksRefunded
      <4> QED  BY <2>0, <4>2, <4>3, <4>4 DEF BooksInv
    <3>4. CASE ~s.ok
      <4>1. bitmaps' = bitmaps /\ mem_info' = mem_info
        BY <3>1, <3>2, <3>4, Zenon DEF Released
      <4> QED  BY <1>1, <1>8, <4>1
    <3> QED  BY <3>3, <3>4
  <2> QED  BY <1>8, <2>1, <2>2 DEF SetIn
<1>9. CASE SetPage
  <2>1. PICK at \in find_bitmap_by_index(bitmaps, TOBITMAP(op.page)) : SetIn(at)
    BY <1>9 DEF SetPage
  <2>2. at \in 1..Len(bitmaps) /\ TOBITMAP(op.page) = 0
    BY <1>0, <2>1, FindIndex
  <2> QED  BY <1>8, <1>9, <2>1, <2>2 DEF SetPage, Running
<1>10. CASE SetCreated
  <2>1. creation.phase = "set" /\ halted = "no" /\ boot' = boot
        /\ SetIn(creation.at)
    BY <1>10 DEF SetCreated
  <2>2. creation.at \in 1..Len(bitmaps) /\ ~Single
    BY <2>1 DEF IInv, TypeOK, CreationInv
  <2> QED  BY <1>8, <2>1, <2>2
<1>11. CASE create_bitmap
  <2>1. /\ halted = "no" /\ boot' = boot /\ next_bitmap_page \in Nat
        /\ Stopped \/ \E s : Extended(s)
        /\ WellFormed(Linked(bitmaps, next_bitmap_page))
    BY <1>11, CreateOutcome
  <2>2. SeenBytes' = SeenBytes
    BY <1>0, <2>1, SeenBytesRule
  <2>3. CASE Stopped
    BY <1>1, <2>1, <2>3 DEF Stopped
  <2>4. CASE \E s : Extended(s)
    <3> DEFINE linked == Linked(bitmaps, next_bitmap_page)
    <3>1. PICK s : /\ Requested(linked, mem_info, s)
                   /\ bitmaps' = s.bitmaps /\ mem_info' = s.mem_info
                   /\ halted' = s.halted
      BY <2>4 DEF Extended
    <3>2. /\ Counted(linked)
          /\ AllIntact(linked) =>
               AllIntact(bitmaps) /\ LockedIn(linked) = LockedIn(bitmaps)
      BY <1>0, <2>1, LinkedCounts
    <3>3. Booked(linked, mem_info, SeenBytes)
      BY <1>a, <2>1, <3>2, Zenon DEF Booked
    <3> HIDE DEF linked
    <3>4. WellFormed(linked)
      BY <2>1 DEF linked
    <3> QED  BY <1>0, <2>2, <3>1, <3>2, <3>3, <3>4, RequestBooks DEF BooksInv
  <2> QED  BY <2>1, <2>3, <2>4
<1>12. CASE \/ \E b \in Sizes : pm_request_bytes(b)
            \/ \E a \in Addrs, b \in Sizes : pm_try_lock_pages(a, b)
            \/ \E a \in Addrs, b \in Sizes : pm_try_release_pages(a, b)
  <2>1. /\ bitmaps' = bitmaps /\ mem_info' = mem_info /\ boot' = boot
        /\ halted = "no"
    BY <1>12 DEF pm_request_bytes, pm_request_pages, pm_try_lock_pages,
         pm_try_release_pages, Callable, Idle, Running
  <2> QED  BY <1>1, <2>1
<1>13. CASE Scan \/ ScanDone \/ Return \/ ReturnPages \/ CallHeap
  <2>1. /\ bitmaps' = bitmaps /\ mem_info' = mem_info /\ boot' = boot
        /\ halted = "no"
    BY <1>13 DEF Scan, ScanDone, Return, ReturnPages, CallHeap, Running
  <2> QED  BY <1>1, <2>1
<1>14. CASE UNCHANGED vars
  BY <1>1, <1>14 DEF vars
<1> QED  BY <1>3, <1>4, <1>5, <1>6, <1>7, <1>9, <1>10, <1>11, <1>12, <1>13,
         <1>14 DEF Next, Boot, Call, Continue

(* struct bitmap's counter never claims more clear bits than there are,    *)
(* and is exact in every bitmap that mem_set did not run over, for every   *)
(* memory map and sequence of calls (mem.c:19, pm.c:138).                  *)
THEOREM CountersCorrect == Spec => []UnsetExact
<1>1. Init => IInv /\ BooksInv
  BY InitInv, InitBooks
<1>2. (IInv /\ BooksInv) /\ [Next]_vars => (IInv /\ BooksInv)'
  BY NextInv, NextBooks
<1>3. BooksInv => UnsetExact
  BY Zenon DEF BooksInv, Counted, CountOf, UnsetExact, Intact, IntactIn
<1> QED  BY <1>1, <1>2, <1>3, PTL DEF Spec

(* Used is the bytes of the locked pages as long as mem_set ran over no    *)
(* bitmap, and used plus free are always the bytes of the memory map, as   *)
(* size_t, for every map and sequence of calls.                            *)
THEOREM AccountingCorrect == Spec => []Accounting
<1>1. Init => IInv /\ BooksInv
  BY InitInv, InitBooks
<1>2. (IInv /\ BooksInv) /\ [Next]_vars => (IInv /\ BooksInv)'
  BY NextInv, NextBooks
<1>3. BooksInv => Accounting
  <2>1. LockedPages = LockedIn(bitmaps)
    BY DEF LockedPages, LockedIn
  <2> QED  BY <2>1, Zenon DEF BooksInv, Booked, Accounting, AllIntact, Intact,
              IntactIn
<1> QED  BY <1>1, <1>2, <1>3, PTL DEF Spec
-----------------------------------------------------------------------------
(* Who has a page.  Ownership is inductive with what a run in the making   *)
(* has locked, how far it is, that a new bitmap is not the first, and that *)
(* the first bitmap's storage and the page before it, which the image      *)
(* covers, stay locked once pm_init is over: no bitmap can be made there.  *)

GrantedInv == \A p \in granted : p < BITMAP_SIZE => p \in bitmaps[1].map
RunInv ==
  op.name = "take" =>
    /\ op.start + op.num = op.page + op.left
    /\ op.ok => \A p \in op.start..(op.page - 1) :
                  p < BITMAP_SIZE => p \notin granted /\ p \in bitmaps[1].map
PlaceInv == creation.phase = "set" => creation.at # 1

OwnInv == GrantedInv /\ RunInv /\ PlaceInv

(* The lock of the image while it runs and when it has ended, and that a   *)
(* release holds no page of the image.                                     *)
LastImagePage ==
  PageOf(LAYOUT_PADDR_START) + PagesOfCall(LAYOUT_PADDR_END - LAYOUT_PADDR_START) - 1
LockingImage ==
  boot = Len(mem_map) + 2 /\ op.name # "none" =>
    /\ op.name = "lock" /\ op.page + op.left = LastImagePage + 1
    /\ \A p \in ImagePages : p < op.page => p \in bitmaps[1].map
ImageLocked ==
  boot = Len(mem_map) + 3 \/ (boot = Len(mem_map) + 2 /\ op.name = "none") =>
    ImagePages \subseteq bitmaps[1].map
ReleasesNoImage ==
  op.name = "release" =>
    /\ boot = Len(mem_map) + 3
    /\ \A p \in op.page..(op.page + op.left - 1) : p \notin ImagePages
KeptNotImage ==
  boot = Len(mem_map) + 3 => next_bitmap_page \notin ImagePages
CreatesBooted == creation.phase # "none" => boot = Len(mem_map) + 3

ImageInv ==
  /\ bitmaps[1].page = pages_bitmap0
  /\ halted = "no" =>
       /\ LockingImage /\ ImageLocked /\ ReleasesNoImage
       /\ KeptNotImage /\ CreatesBooted

(* Nothing is handed out or locked at first.                               *)
LEMMA InitOwn == Init => OwnInv /\ ImageInv
<1> SUFFICES ASSUME Init PROVE OwnInv /\ ImageInv
  OBVIOUS
<1>1. OwnInv
  BY OpRecords DEF Init, OwnInv, GrantedInv, RunInv, PlaceInv, NoCreation
<1>2. /\ Len(mem_map) \in Nat /\ boot = 1 /\ op.name = "none"
      /\ creation.phase = "none" /\ bitmaps[1].page = pages_bitmap0
  BY OpRecords, MemMapAssumption DEF Init, NoCreation, bitmap_from
<1>3. ImageInv
  BY <1>2 DEF ImageInv, LockingImage, ImageLocked, ReleasesNoImage,
     KeptNotImage, CreatesBooted
<1> QED  BY <1>1, <1>3

(* create_bitmap takes no bit from the first bitmap.                       *)
LEMMA FirstNotWiped ==
  ASSUME IInv, ImageInv, create_bitmap
  PROVE  Linked(bitmaps, next_bitmap_page)[1] = bitmaps[1]
<1>1. /\ halted = "no" /\ creation.phase = "heap" /\ next_bitmap_page \in Nat
      /\ WellFormed(bitmaps)
  BY CreateOutcome DEF IInv, ListInv
<1>2. next_bitmap_page \notin ImagePages
  BY <1>1 DEF ImageInv, CreatesBooted, KeptNotImage
<1>3. bitmaps[1].page # next_bitmap_page + 1
  <2>1. pages_bitmap0 \in Nat /\ pages_bitmap0 - 1 \in ImagePages
    BY ImageAssumption
  <2> QED  BY <1>1, <1>2, <2>1 DEF ImageInv
<1>4. 1 \in 1..Len(bitmaps)
  BY <1>1 DEF WellFormed
<1> DEFINE old == mem_set(bitmaps, next_bitmap_page)
<1>5. WellFormed(old) /\ Len(old) = Len(bitmaps) /\ old[1] = bitmaps[1]
  BY <1>1, <1>3, <1>4, Wiped
<1> HIDE DEF old
<1>6. Linked(bitmaps, next_bitmap_page) = Append(old, bitmap_from(next_bitmap_page))
  BY DEF Linked, old
<1> QED  BY <1>4, <1>5, <1>6 DEF WellFormed

(* What a request does to the first bitmap.                                *)
LEMMA RequestOwn ==
  ASSUME NEW bms, WellFormed(bms), NEW mi, NEW s, Requested(bms, mi, s)
  PROVE  /\ \A p \in bms[1].map : p \in s.bitmaps[1].map
         /\ s.halted = "no" => /\ s.page \notin bms[1].map
                               /\ s.page \in s.bitmaps[1].map
<1>1. 1 \in 1..Len(bms)
  BY DEF WellFormed
<1>2. /\ BitsKept(bms, s.bitmaps) \/ BitSet(bms, s.bitmaps, 1, s.page)
      /\ s.halted = "no" => BitSet(bms, s.bitmaps, 1, s.page)
  BY DEF Requested
<1> QED  BY <1>1, <1>2 DEF BitsKept, BitSet

(* Steps that keep or lock pages and hand out none.                        *)
LEMMA GrowOwn ==
  ASSUME OwnInv, granted' = granted,
         \A p \in bitmaps[1].map : p \in bitmaps'[1].map,
         op' = op \/ op'.name # "take",
         creation'.phase = "set" => creation'.at # 1
  PROVE  OwnInv'
<1>1. GrantedInv'
  BY DEF OwnInv, GrantedInv
<1>2. RunInv'
  BY DEF OwnInv, RunInv
<1>3. PlaceInv'
  BY DEF PlaceInv
<1> QED  BY <1>1, <1>2, <1>3 DEF OwnInv

(* Steps that hand out the page of a request.                              *)
LEMMA GrantOwn ==
  ASSUME IInv, OwnInv, halted = "no",
         NEW s \in pm_request_page(bitmaps, first_free_bitmap, mem_info),
         bitmaps' = s.bitmaps,
         granted' = granted
         \/ (s.halted = "no" /\ granted' = granted \cup {s.page}),
         op' = op, creation'.phase # "set"
  PROVE  OwnInv'
<1>1. /\ WellFormed(bitmaps) /\ mem_info \in Counters
      /\ first_free_bitmap \in 1..Len(bitmaps)
      /\ Len(bitmaps) = 1 => Exact(bitmaps[1])
  BY DEF IInv, TypeOK, ListInv, HintInv, Single
<1>2. Requested(bitmaps, mem_info, s)
  BY <1>1, RequestPageSound
<1>3. /\ \A p \in bitmaps[1].map : p \in bitmaps'[1].map
      /\ s.halted = "no" => s.page \notin bitmaps[1].map /\ s.page \in bitmaps'[1].map
  BY <1>1, <1>2, RequestOwn
<1>4. GrantedInv'
  BY <1>3 DEF OwnInv, GrantedInv
<1>5. RunInv'
  BY <1>3 DEF OwnInv, RunInv
<1>6. PlaceInv'
  BY DEF PlaceInv
<1> QED  BY <1>4, <1>5, <1>6 DEF OwnInv

(* One page of a lock or release loop, in the bitmap at position at.       *)
LEMMA SetOwn ==
  ASSUME IInv, OwnInv, halted = "no", NEW at \in 1..Len(bitmaps), SetIn(at),
         op.left > 0,
         at = 1 => op.page < BITMAP_SIZE,
         at # 1 => op.page >= BITMAP_SIZE,
         Single => TOBITMAP(op.page) = 0, creation' = NoCreation
  PROVE  OwnInv'
<1>0. /\ WellFormed(bitmaps) /\ mem_info \in Counters
      /\ first_free_bitmap \in 1..Len(bitmaps)
      /\ Len(bitmaps) = 1 => Exact(bitmaps[1])
      /\ op \in Op /\ op.page \in Nat /\ op.left \in Nat
      /\ op.start \in Nat /\ op.num \in Nat /\ granted \subseteq Nat
  BY DEF IInv, TypeOK, ListInv, HintInv, Single, Op
<1>1. PlaceInv'
  BY DEF PlaceInv, NoCreation
<1>2. /\ 1 \in 1..Len(bitmaps)
      /\ at = 1 => TOINDEX(op.page) = op.page
  <2>1. 1 \in 1..Len(bitmaps)
    BY <1>0 DEF WellFormed
  <2>2. ASSUME at = 1  PROVE TOINDEX(op.page) = op.page
    <3>1. op.page < BITMAP_SIZE /\ op.page \in Nat
      BY <1>0, <2>2
    <3> QED  BY <3>1, PageSplit
  <2> QED  BY <2>1, <2>2
<1>3. CASE LockIn(at) /\ op.name \in {"lock", "take"}
  <2>1. PICK s \in pm_try_lock_page(bitmaps, first_free_bitmap, at, op.page) :
             bitmaps' = s.bitmaps /\ op' = NextPage(s.ok) /\ granted' = granted
    BY <1>3 DEF LockIn
  <2>2. Locked(bitmaps, first_free_bitmap, at, op.page, s)
    <3>1. Len(bitmaps) = 1 => /\ TOBITMAP(op.page) = 0
                              /\ \A i \in 0..(bitmaps[1].first_free - 1) :
                                   i \in bitmaps[1].map \cup {TOINDEX(op.page)}
      BY <1>0 DEF Exact, BelowLocked, Single
    <3> QED  BY <1>0, <2>1, <3>1, LockPageSound, Zenon
  <2>3. /\ s.ok \in BOOLEAN
        /\ s.ok => BitSet(bitmaps, bitmaps', at, TOINDEX(op.page))
        /\ ~s.ok => bitmaps' = bitmaps
    BY <2>1, <2>2, Zenon DEF Locked
  <2>4. /\ \A p \in bitmaps[1].map : p \in bitmaps'[1].map
        /\ s.ok /\ at = 1 => op.page \notin bitmaps[1].map
                             /\ op.page \in bitmaps'[1].map
    <3>1. CASE s.ok
      BY <1>2, <2>3, <3>1 DEF BitSet, OthersKept
    <3>2. CASE ~s.ok
      BY <2>3, <3>2
    <3> QED  BY <3>1, <3>2
  <2>5. /\ op'.name = op.name /\ op'.page = op.page + 1 /\ op'.left = op.left - 1
        /\ op'.start = op.start /\ op'.num = op.num
        /\ op'.ok => op.ok /\ s.ok
    BY <1>0, <2>1 DEF NextPage
  <2>6. GrantedInv'
    BY <2>1, <2>4 DEF OwnInv, GrantedInv
  <2>7. RunInv'
    <3> SUFFICES ASSUME op'.name = "take"
                 PROVE  /\ op'.start + op'.num = op'.page + op'.left
                        /\ op'.ok => \A p \in op'.start..(op'.page - 1) :
                             p < BITMAP_SIZE => p \notin granted' /\ p \in bitmaps'[1].map
      BY DEF RunInv
    <3>1. op.start + op.num = op.page + op.left
      BY <2>5 DEF OwnInv, RunInv
    <3>2. op'.start + op'.num = op'.page + op'.left
      BY <1>0, <2>5, <3>1
    <3>3. ASSUME op'.ok, NEW p \in op.start..op.page, p < BITMAP_SIZE
          PROVE  p \notin granted /\ p \in bitmaps'[1].map
      <4>1. op.ok /\ s.ok
        BY <2>5, <3>3
      <4>2. CASE p = op.page
        <5>1. at = 1
          BY <1>0, <3>3, <4>2
        <5>2. op.page \notin bitmaps[1].map /\ op.page \in bitmaps'[1].map
          BY <2>4, <4>1, <5>1
        <5> QED  BY <3>3, <4>2, <5>2 DEF OwnInv, GrantedInv
      <4>3. CASE p # op.page
        <5>1. p \in op.start..(op.page - 1)
          BY <1>0, <4>3
        <5> QED  BY <2>4, <2>5, <3>3, <4>1, <5>1 DEF OwnInv, RunInv
      <4> QED  BY <4>2, <4>3
    <3>4. op'.start = op.start /\ op'.page - 1 = op.page
      BY <1>0, <2>5
    <3> QED  BY <2>1, <3>2, <3>3, <3>4
  <2> QED  BY <1>1, <2>6, <2>7 DEF OwnInv
<1>4. CASE ReleaseIn(at) /\ op.name = "release"
  <2>1. PICK s \in pm_try_release_page(bitmaps, first_free_bitmap, at, op.page) :
             /\ bitmaps' = s.bitmaps /\ op' = NextPage(s.ok)
             /\ granted' = granted \ {op.page}
    BY <1>4 DEF ReleaseIn
  <2>2. Released(bitmaps, at, op.page, s)
    BY <1>0, <2>1, ReleasePageSound, Zenon DEF Single
  <2>3. /\ s.ok \in BOOLEAN
        /\ s.ok => BitCleared(bitmaps, bitmaps', at, TOINDEX(op.page))
        /\ ~s.ok => bitmaps' = bitmaps
    BY <2>1, <2>2, Zenon DEF Released
  <2>4. \A p \in bitmaps[1].map : p # op.page => p \in bitmaps'[1].map
    <3>1. CASE s.ok
      BY <1>2, <2>3, <3>1 DEF BitCleared, OthersKept
    <3>2. CASE ~s.ok
      BY <2>3, <3>2
    <3> QED  BY <3>1, <3>2
  <2>5. GrantedInv'
    BY <2>1, <2>4 DEF OwnInv, GrantedInv
  <2>6. RunInv'
    BY <1>4, <2>1 DEF RunInv, NextPage
  <2> QED  BY <1>1, <2>5, <2>6 DEF OwnInv
<1> QED  BY <1>3, <1>4 DEF SetIn

(* Every step keeps pages with the callers that were given them.           *)
LEMMA NextOwn == IInv /\ OwnInv /\ ImageInv /\ [Next]_vars => OwnInv'
<1> SUFFICES ASSUME IInv, OwnInv, ImageInv, [Next]_vars PROVE OwnInv'
  OBVIOUS
<1>0. /\ WellFormed(bitmaps) /\ mem_info \in Counters /\ op \in Op
      /\ op.page \in Nat /\ op.left \in Nat /\ op.start \in Nat
      /\ op.num \in Nat /\ granted \subseteq Nat
      /\ halted = "no" => /\ first_free_bitmap \in 1..Len(bitmaps)
                          /\ Len(bitmaps) = 1 => Exact(bitmaps[1])
  BY DEF IInv, TypeOK, ListInv, HintInv, Single, Op
<1>a. NoOp.name = "none" /\ NoCreation.phase = "none"
  BY OpRecords DEF NoCreation
<1>1. ASSUME bitmaps' = bitmaps, granted' = granted,
             op' = op \/ op'.name # "take",
             creation' = creation \/ creation'.phase # "set"
      PROVE  OwnInv'
  BY <1>1, GrowOwn DEF OwnInv, PlaceInv
<1>2. CASE compute_mem_size
  <2>1. op'.name \in {"none", "lock"}
    BY <1>2, <1>a DEF compute_mem_size, LockOp
  <2> QED  BY <1>1, <1>2, <2>1 DEF compute_mem_size
<1>3. CASE LockKernel
  BY <1>1, <1>3 DEF LockKernel, LockOp
<1>4. CASE KeepBitmapPage
  BY <1>4, <1>a, GrantOwn DEF KeepBitmapPage, Idle, Running
<1>5. CASE RequestPage
  BY <1>5, <1>a, GrantOwn DEF RequestPage, Callable, Idle, Running
<1>6. CASE HeapRequest
  <2>1. halted = "no" /\ creation'.phase = "heap" /\ op' = op
    BY <1>6 DEF HeapRequest, IInv, TypeOK, Creation
  <2> QED  BY <1>6, <2>1, GrantOwn DEF HeapRequest
<1>7. CASE \E b \in Sizes : pm_request_bytes(b)
  <2>1. op'.name \in {"none", "scan"}
    BY <1>7, <1>a DEF pm_request_bytes, pm_request_pages, Callable, Idle
  <2> QED  BY <1>1, <1>7, <2>1 DEF pm_request_bytes, pm_request_pages
<1>8. CASE \/ \E a \in Addrs, b \in Sizes : pm_try_lock_pages(a, b)
           \/ \E a \in Addrs, b \in Sizes : pm_try_release_pages(a, b)
  BY <1>1, <1>8 DEF pm_try_lock_pages, pm_try_release_pages, LockOp
<1>9. CASE Scan
  BY <1>1, <1>9 DEF Scan
<1>10. CASE ScanDone
  <2>1. /\ bitmaps' = bitmaps /\ granted' = granted /\ creation' = creation
        /\ halted = "no" /\ op.name = "scan"
    BY <1>10 DEF ScanDone, Running
  <2>2. TOPADDR(bitmaps[first_free_bitmap].index, op.start) = op.start
    <3>1. bitmaps[first_free_bitmap].index = 0
      BY <1>0, <2>1 DEF WellFormed
    <3> QED  BY <1>0, <3>1 DEF TOPADDR
  <2>3. /\ op'.page = op.start /\ op'.start = op.start /\ op'.num = op'.left
        /\ op'.left \in Nat
    BY <1>0, <1>10, <2>2 DEF ScanDone, LockOp
  <2>4. RunInv'
    BY <1>0, <2>3 DEF RunInv
  <2> QED  BY <2>1, <2>4 DEF OwnInv, GrantedInv, PlaceInv
<1>11. CASE Return
  BY <1>1, <1>11, <1>a DEF Return
<1>12. CASE ReturnPages
  <2>1. /\ bitmaps' = bitmaps /\ creation' = creation /\ op' = NoOp
        /\ op.name = "take" /\ op.left = 0
        /\ granted' = granted
           \/ (op.ok /\ granted' = granted \cup (op.start .. (op.start + op.num - 1)))
    BY <1>12 DEF ReturnPages
  <2>2. op.start + op.num - 1 = op.page - 1
    BY <1>0, <2>1 DEF OwnInv, RunInv
  <2>3. GrantedInv'
    BY <2>1, <2>2 DEF OwnInv, RunInv, GrantedInv
  <2>4. RunInv' /\ PlaceInv'
    BY <1>a, <2>1 DEF OwnInv, RunInv, PlaceInv
  <2> QED  BY <2>3, <2>4 DEF OwnInv
<1>13. CASE CallHeap
  <2>1. creation' = creation \/ creation'.phase = "heap"
    BY <1>13 DEF CallHeap
  <2> QED  BY <1>1, <1>13, <2>1 DEF CallHeap
<1>14. CASE SetPage
  <2>1. PICK at \in find_bitmap_by_index(bitmaps, TOBITMAP(op.page)) : SetIn(at)
    BY <1>14 DEF SetPage
  <2>2. at \in 1..Len(bitmaps) /\ at = 1 /\ TOBITMAP(op.page) = 0
        /\ op.page < BITMAP_SIZE
    BY <1>0, <2>1, FindIndex
  <2>3. halted = "no" /\ op.left > 0 /\ creation' = NoCreation
    BY <1>14 DEF SetPage, Running
  <2> QED  BY <2>1, <2>2, <2>3, SetOwn
<1>15. CASE SetCreated
  <2>1. creation.phase = "set" /\ halted = "no" /\ creation' = NoCreation
        /\ SetIn(creation.at)
    BY <1>15 DEF SetCreated
  <2>2. creation.at \in 1..Len(bitmaps) /\ ~Single /\ op.left > 0
        /\ op.page >= BITMAP_SIZE /\ creation.at # 1
    BY <2>1 DEF IInv, TypeOK, CreationInv, OwnInv, PlaceInv
  <2> QED  BY <2>1, <2>2, SetOwn
<1>16. CASE create_bitmap
  <2>1. /\ halted = "no" /\ op' = op /\ granted' = granted
        /\ creation.phase = "heap" /\ Len(bitmaps) \in Nat \ {0}
        /\ Stopped \/ \E s : Extended(s)
        /\ WellFormed(Linked(bitmaps, next_bitmap_page))
    BY <1>16, CreateOutcome
  <2>2. CASE Stopped
    BY <1>1, <2>1, <2>2 DEF Stopped
  <2>3. CASE \E s : Extended(s)
    <3> DEFINE linked == Linked(bitmaps, next_bitmap_page)
    <3>1. PICK s :
            /\ Requested(linked, mem_info, s) /\ bitmaps' = s.bitmaps
            /\ creation' = [phase |-> "set", left |-> 0, at |-> Len(bitmaps) + 1]
      BY <2>3 DEF Extended
    <3>2. WellFormed(linked) /\ linked[1] = bitmaps[1]
      BY <1>16, <2>1, FirstNotWiped
    <3> HIDE DEF linked
    <3>3. \A p \in bitmaps[1].map : p \in bitmaps'[1].map
      BY <3>1, <3>2, RequestOwn
    <3>4. creation'.at # 1
      BY <2>1, <3>1
    <3> QED  BY <2>1, <3>3, <3>4, GrowOwn
  <2> QED  BY <2>1, <2>2, <2>3
<1>17. CASE UNCHANGED vars
  BY <1>1, <1>17 DEF vars
<1> QED  BY <1>2, <1>3, <1>4, <1>5, <1>6, <1>7, <1>8, <1>9, <1>10, <1>11, <1>12,
         <1>13, <1>14, <1>15, <1>16, <1>17 DEF Next, Boot, Call, Continue

(* The pages of the image are those that LockKernel's loop goes through.   *)
LEMMA ImageRange ==
  /\ PageOf(LAYOUT_PADDR_START) \in Nat
  /\ PagesOfCall(LAYOUT_PADDR_END - LAYOUT_PADDR_START) \in Nat
  /\ ImagePages = PageOf(LAYOUT_PADDR_START)..LastImagePage
  /\ LastImagePage \in Int /\ Len(mem_map) \in Nat
  /\ \A p \in ImagePages : p \in Nat /\ p < BITMAP_SIZE
<1>1. LAYOUT_PADDR_END - LAYOUT_PADDR_START \in Nat /\ LAYOUT_PADDR_START \in Nat
      /\ Len(mem_map) \in Nat
  BY MemMapAssumption
<1>2. /\ PageOf(LAYOUT_PADDR_START) \in Nat
      /\ PagesOfCall(LAYOUT_PADDR_END - LAYOUT_PADDR_START) \in Nat
  BY <1>1, PagesAreNat
<1>3. ImagePages = PageOf(LAYOUT_PADDR_START)..LastImagePage
  BY DEF ImagePages, PagesAt, LastImagePage
<1>4. \A p \in ImagePages : p \in Nat /\ p < BITMAP_SIZE
  BY ImageAssumption
<1> QED  BY <1>1, <1>2, <1>3, <1>4 DEF LastImagePage

(* Steps that lock pages or none, and start, end or continue a loop.       *)
LEMMA GrowImage ==
  ASSUME ImageInv, halted = "no", boot' = boot, op \in Op,
         bitmaps'[1].page = bitmaps[1].page,
         \A p \in bitmaps[1].map : p \in bitmaps'[1].map,
         creation'.phase # "none" => boot = Len(mem_map) + 3,
         next_bitmap_page' = next_bitmap_page
         \/ (halted' = "no" => next_bitmap_page' \notin bitmaps[1].map),
         \/ op' = op
         \/ op'.name # "release"
            /\ (boot = Len(mem_map) + 3 \/ op.name \in {"scan", "take"})
         \/ op'.name = "none" /\ op.left = 0
         \/ /\ op'.name = "release" /\ boot = Len(mem_map) + 3
            /\ \A p \in op'.page..(op'.page + op'.left - 1) : p \notin ImagePages
  PROVE  ImageInv'
<1> USE ImageRange
<1>1. LockingImage /\ ImageLocked /\ ReleasesNoImage /\ KeptNotImage
      /\ bitmaps[1].page = pages_bitmap0
  BY DEF ImageInv
<1>2. op.page \in Nat /\ op.left \in Nat
  BY DEF Op
<1>3. LockingImage'
  BY <1>1 DEF LockingImage
<1>4. ImageLocked'
  <2>1. CASE boot = Len(mem_map) + 3
    BY <1>1, <2>1 DEF ImageLocked
  <2>2. CASE boot = Len(mem_map) + 2 /\ op.name = "none"
    BY <1>1, <2>2 DEF ImageLocked
  <2>3. CASE boot = Len(mem_map) + 2 /\ op.name # "none" /\ op'.name = "none"
    <3>1. /\ op.name = "lock" /\ op.page + op.left = LastImagePage + 1
          /\ \A p \in ImagePages : p < op.page => p \in bitmaps[1].map
      BY <1>1, <2>3 DEF LockingImage
    <3>2. op.left = 0
      BY <2>3, <3>1
    <3>3. \A p \in ImagePages : p < op.page
      BY <1>2, <3>1, <3>2
    <3> QED  BY <3>1, <3>3 DEF ImageLocked
  <2> QED  BY <2>1, <2>2, <2>3 DEF ImageLocked
<1>5. ReleasesNoImage'
  BY <1>1 DEF ReleasesNoImage
<1>6. halted' = "no" => KeptNotImage'
  BY <1>1 DEF KeptNotImage, ImageLocked
<1>7. CreatesBooted'
  BY DEF CreatesBooted
<1> QED  BY <1>1, <1>3, <1>4, <1>5, <1>6, <1>7 DEF ImageInv

(* One page of a loop.                                                     *)
LEMMA SetImage ==
  ASSUME IInv, ImageInv, halted = "no", NEW at \in 1..Len(bitmaps), SetIn(at),
         op.left > 0,
         at = 1 => op.page < BITMAP_SIZE,
         Single => TOBITMAP(op.page) = 0, creation' = NoCreation,
         boot' = boot, next_bitmap_page' = next_bitmap_page,
         boot # Len(mem_map) + 3 => at = 1
  PROVE  ImageInv'
<1> USE ImageRange
<1>0. /\ WellFormed(bitmaps) /\ mem_info \in Counters
      /\ first_free_bitmap \in 1..Len(bitmaps)
      /\ Len(bitmaps) = 1 => Exact(bitmaps[1])
      /\ op \in Op /\ op.page \in Nat /\ op.left \in Nat
  BY DEF IInv, TypeOK, ListInv, HintInv, Single, Op
<1>1. LockingImage /\ ImageLocked /\ ReleasesNoImage /\ KeptNotImage
      /\ bitmaps[1].page = pages_bitmap0
  BY DEF ImageInv
<1>2. /\ 1 \in 1..Len(bitmaps)
      /\ at = 1 => TOINDEX(op.page) = op.page
  <2>1. 1 \in 1..Len(bitmaps)
    BY <1>0 DEF WellFormed
  <2>2. ASSUME at = 1  PROVE TOINDEX(op.page) = op.page
    <3>1. op.page < BITMAP_SIZE /\ op.page \in Nat
      BY <1>0, <2>2
    <3> QED  BY <3>1, PageSplit
  <2> QED  BY <2>1, <2>2
<1>3. CreatesBooted' /\ (halted' = "no" => KeptNotImage')
  BY <1>1 DEF CreatesBooted, NoCreation, KeptNotImage
<1>4. CASE LockIn(at) /\ op.name \in {"lock", "take"}
  <2>1. PICK s \in pm_try_lock_page(bitmaps, first_free_bitmap, at, op.page) :
             bitmaps' = s.bitmaps /\ op' = NextPage(s.ok)
    BY <1>4 DEF LockIn
  <2>2. Locked(bitmaps, first_free_bitmap, at, op.page, s)
    <3>1. Len(bitmaps) = 1 => /\ TOBITMAP(op.page) = 0
                              /\ \A i \in 0..(bitmaps[1].first_free - 1) :
                                   i \in bitmaps[1].map \cup {TOINDEX(op.page)}
      BY <1>0 DEF Exact, BelowLocked, Single
    <3> QED  BY <1>0, <2>1, <3>1, LockPageSound, Zenon
  <2>3. /\ s.ok \in BOOLEAN /\ (s.ok <=> TOINDEX(op.page) \notin bitmaps[at].map)
        /\ s.ok => BitSet(bitmaps, bitmaps', at, TOINDEX(op.page))
        /\ ~s.ok => bitmaps' = bitmaps
    BY <2>1, <2>2, Zenon DEF Locked
  <2>4. /\ \A p \in bitmaps[1].map : p \in bitmaps'[1].map
        /\ bitmaps'[1].page = bitmaps[1].page
        /\ at = 1 => op.page \in bitmaps'[1].map
    <3>1. CASE s.ok
      BY <1>2, <2>3, <3>1 DEF BitSet, OthersKept
    <3>2. CASE ~s.ok
      BY <1>2, <2>3, <3>2
    <3> QED  BY <3>1, <3>2
  <2>5. /\ op'.name = op.name /\ op'.page = op.page + 1 /\ op'.left = op.left - 1
    BY <1>0, <2>1 DEF NextPage
  <2>6. LockingImage'
    <3> SUFFICES ASSUME boot = Len(mem_map) + 2
                 PROVE  /\ op'.name = "lock"
                        /\ op'.page + op'.left = LastImagePage + 1
                        /\ \A p \in ImagePages :
                             p < op'.page => p \in bitmaps'[1].map
      BY DEF LockingImage
    <3>1. /\ op.name = "lock" /\ op.page + op.left = LastImagePage + 1
          /\ \A p \in ImagePages : p < op.page => p \in bitmaps[1].map
          /\ at = 1
      BY <1>1, <1>4 DEF LockingImage
    <3>2. op'.page + op'.left = op.page + op.left
      BY <1>0, <2>5
    <3>3. ASSUME NEW p \in ImagePages, p < op.page + 1
          PROVE  p \in bitmaps'[1].map
      <4>1. p < op.page \/ p = op.page
        BY <1>0, <3>3
      <4> QED  BY <2>4, <3>1, <4>1
    <3> QED  BY <2>5, <3>1, <3>2, <3>3
  <2>7. ImageLocked' /\ ReleasesNoImage'
    BY <1>1, <1>4, <2>4, <2>5 DEF ImageLocked, ReleasesNoImage
  <2> QED  BY <1>1, <1>3, <2>4, <2>6, <2>7 DEF ImageInv
<1>5. CASE ReleaseIn(at) /\ op.name = "release"
  <2>1. PICK s \in pm_try_release_page(bitmaps, first_free_bitmap, at, op.page) :
             bitmaps' = s.bitmaps /\ op' = NextPage(s.ok)
    BY <1>5 DEF ReleaseIn
  <2>2. Released(bitmaps, at, op.page, s)
    BY <1>0, <2>1, ReleasePageSound, Zenon DEF Single
  <2>3. /\ s.ok \in BOOLEAN
        /\ s.ok => BitCleared(bitmaps, bitmaps', at, TOINDEX(op.page))
        /\ ~s.ok => bitmaps' = bitmaps
    BY <2>1, <2>2, Zenon DEF Released
  <2>4. /\ \A p \in bitmaps[1].map : p # op.page => p \in bitmaps'[1].map
        /\ bitmaps'[1].page = bitmaps[1].page
    <3>1. CASE s.ok
      BY <1>2, <2>3, <3>1 DEF BitCleared, OthersKept
    <3>2. CASE ~s.ok
      BY <2>3, <3>2
    <3> QED  BY <3>1, <3>2
  <2>5. /\ op'.name = "release" /\ op'.page = op.page + 1
        /\ op'.left = op.left - 1
    BY <1>0, <1>5, <2>1 DEF NextPage
  <2>6. /\ boot = Len(mem_map) + 3
        /\ \A p \in op.page..(op.page + op.left - 1) : p \notin ImagePages
    BY <1>1, <1>5 DEF ReleasesNoImage
  <2>7. op.page \notin ImagePages
    BY <1>0, <2>6
  <2>8. LockingImage' /\ ImageLocked'
    BY <1>1, <2>4, <2>6, <2>7 DEF LockingImage, ImageLocked
  <2>9. ReleasesNoImage'
    <3>1. \A p \in (op.page + 1)..((op.page + 1) + (op.left - 1) - 1) :
            p \in op.page..(op.page + op.left - 1)
      BY <1>0
    <3> QED  BY <2>5, <2>6, <3>1 DEF ReleasesNoImage
  <2> QED  BY <1>1, <1>3, <2>4, <2>8, <2>9 DEF ImageInv
<1> QED  BY <1>4, <1>5 DEF SetIn

(* Every step keeps the image locked and out of the manager's reach.       *)
LEMMA NextImage == IInv /\ OwnInv /\ ImageInv /\ [Next]_vars => ImageInv'
<1> SUFFICES ASSUME IInv, OwnInv, ImageInv, [Next]_vars PROVE ImageInv'
  OBVIOUS
<1> USE ImageRange
<1>0. /\ WellFormed(bitmaps) /\ mem_info \in Counters /\ op \in Op
      /\ op.page \in Nat /\ op.left \in Nat /\ 1 \in 1..Len(bitmaps)
      /\ boot \in 1..(Len(mem_map) + 3)
      /\ halted = "no" => /\ first_free_bitmap \in 1..Len(bitmaps)
                          /\ Len(bitmaps) = 1 => Exact(bitmaps[1])
  BY DEF IInv, TypeOK, ListInv, HintInv, Single, Op, WellFormed
<1>a. NoOp.name = "none" /\ NoCreation.phase = "none"
  BY OpRecords DEF NoCreation
<1>b. /\ bitmaps[1].page = pages_bitmap0
      /\ halted = "no" => /\ LockingImage /\ ImageLocked /\ ReleasesNoImage
                          /\ KeptNotImage /\ CreatesBooted
  BY DEF ImageInv
<1>c. ASSUME NEW s \in pm_request_page(bitmaps, first_free_bitmap, mem_info),
             bitmaps' = s.bitmaps, halted = "no"
      PROVE  /\ bitmaps'[1].page = bitmaps[1].page
             /\ \A p \in bitmaps[1].map : p \in bitmaps'[1].map
             /\ s.halted = "no" => s.page \notin bitmaps[1].map
  <2>1. Requested(bitmaps, mem_info, s)
    BY <1>0, <1>c, RequestPageSound
  <2>2. bitmaps'[1].page = bitmaps[1].page
    BY <1>0, <1>c, <2>1 DEF Requested, BitsKept, BitSet, OthersKept
  <2> QED  BY <1>0, <1>c, <2>1, <2>2, RequestOwn
<1>1. CASE compute_mem_size
  <2>1. /\ bitmaps' = bitmaps /\ creation' = creation /\ creation.phase = "none"
        /\ boot' = boot + 1 /\ boot <= Len(mem_map) /\ op'.name # "release"
    BY <1>1, <1>a DEF compute_mem_size, Idle, Running, LockOp
  <2> QED  BY <1>0, <1>b, <2>1 DEF ImageInv, LockingImage, ImageLocked,
           ReleasesNoImage, KeptNotImage, CreatesBooted
<1>2. CASE LockKernel
  <2>1. /\ bitmaps' = bitmaps /\ creation' = creation /\ creation.phase = "none"
        /\ boot' = Len(mem_map) + 2 /\ op'.name = "lock"
        /\ op'.page = PageOf(LAYOUT_PADDR_START)
        /\ op'.left = PagesOfCall(LAYOUT_PADDR_END - LAYOUT_PADDR_START)
    BY <1>2, <1>a DEF LockKernel, Idle, Running, LockOp
  <2>2. LockingImage'
    BY <2>1 DEF LockingImage, LastImagePage
  <2> QED  BY <1>b, <2>1, <2>2 DEF ImageInv, ImageLocked,
           ReleasesNoImage, KeptNotImage, CreatesBooted
<1>3. CASE KeepBitmapPage
  <2>1. PICK s \in pm_request_page(bitmaps, first_free_bitmap, mem_info) :
             /\ bitmaps' = s.bitmaps /\ halted' = s.halted
             /\ next_bitmap_page' = IF s.halted = "no" THEN s.page
                                    ELSE next_bitmap_page
    BY <1>3 DEF KeepBitmapPage
  <2>2. /\ halted = "no" /\ op' = op /\ op.name = "none" /\ creation' = creation
        /\ creation.phase = "none" /\ boot = Len(mem_map) + 2
        /\ boot' = Len(mem_map) + 3
    BY <1>3, <1>a DEF KeepBitmapPage, Idle, Running
  <2>3. ImagePages \subseteq bitmaps[1].map
    BY <1>b, <2>2 DEF ImageLocked
  <2>4. /\ bitmaps'[1].page = bitmaps[1].page
        /\ \A p \in bitmaps[1].map : p \in bitmaps'[1].map
        /\ s.halted = "no" => s.page \notin bitmaps[1].map
    BY <1>c, <2>1, <2>2
  <2> QED  BY <1>b, <2>1, <2>2, <2>3, <2>4 DEF ImageInv, LockingImage, ImageLocked,
           ReleasesNoImage, KeptNotImage, CreatesBooted
<1>4. CASE RequestPage \/ HeapRequest
  <2>1. PICK s \in pm_request_page(bitmaps, first_free_bitmap, mem_info) :
             bitmaps' = s.bitmaps
    BY <1>4 DEF RequestPage, HeapRequest
  <2>2. /\ halted = "no" /\ op' = op /\ boot' = boot
        /\ next_bitmap_page' = next_bitmap_page
    BY <1>4 DEF RequestPage, HeapRequest, Callable, Idle, Running
  <2>3. boot = Len(mem_map) + 3
    <3>1. CASE RequestPage
      BY <3>1 DEF RequestPage, Callable, Booted
    <3>2. CASE HeapRequest
      BY <1>b, <2>2, <3>2 DEF HeapRequest, CreatesBooted
    <3> QED  BY <1>4, <3>1, <3>2
  <2> QED  BY <1>0, <1>c, <2>1, <2>2, <2>3, GrowImage
<1>5. CASE \/ \E b \in Sizes : pm_request_bytes(b)
           \/ \E a \in Addrs, b \in Sizes : pm_try_lock_pages(a, b)
  <2>1. /\ halted = "no" /\ boot' = boot /\ bitmaps' = bitmaps
        /\ next_bitmap_page' = next_bitmap_page /\ boot = Len(mem_map) + 3
    BY <1>5 DEF pm_request_bytes, pm_request_pages, pm_try_lock_pages, Callable,
         Booted, Idle, Running
  <2>2. op'.name # "release"
    BY <1>5, <1>a DEF pm_request_bytes, pm_request_pages, pm_try_lock_pages,
         Callable, Idle, LockOp
  <2> QED  BY <1>0, <2>1, <2>2, GrowImage
<1>6. CASE \E a \in Addrs, b \in Sizes : pm_try_release_pages(a, b)
  <2>1. PICK a \in Addrs, b \in Sizes : pm_try_release_pages(a, b)
    BY <1>6
  <2>2. /\ halted = "no" /\ boot' = boot /\ bitmaps' = bitmaps
        /\ next_bitmap_page' = next_bitmap_page /\ boot = Len(mem_map) + 3
        /\ op'.name = "release" /\ op'.page = PageOf(a)
        /\ op'.left = PagesOfCall(b)
        /\ PagesAt(a, b) \cap (ImagePages \cup OwnPages) = {}
    BY <2>1 DEF pm_try_release_pages, Callable, Booted, Idle, Running, LockOp
  <2>3. \A p \in op'.page..(op'.page + op'.left - 1) : p \notin ImagePages
    BY <2>2 DEF PagesAt
  <2> QED  BY <1>0, <2>2, <2>3, GrowImage
<1>7. CASE Scan \/ ScanDone \/ Return \/ ReturnPages \/ CallHeap
  <2>1. /\ halted = "no" /\ boot' = boot /\ bitmaps' = bitmaps
        /\ next_bitmap_page' = next_bitmap_page /\ creation = NoCreation
    BY <1>7 DEF Scan, ScanDone, Return, ReturnPages, CallHeap, Running
  <2>2. creation'.phase # "none" => boot = Len(mem_map) + 3
    BY <1>7, <1>a, <2>1 DEF Scan, ScanDone, Return, ReturnPages, CallHeap, Booted
  <2>3. \/ op' = op
        \/ op'.name # "release" /\ op.name \in {"scan", "take"}
        \/ op'.name = "none" /\ op.left = 0
    BY <1>7, <1>a DEF Scan, ScanDone, Return, ReturnPages, CallHeap, LockOp
  <2> QED  BY <1>0, <2>1, <2>2, <2>3, GrowImage
<1>8. CASE SetPage
  <2>1. PICK at \in find_bitmap_by_index(bitmaps, TOBITMAP(op.page)) : SetIn(at)
    BY <1>8 DEF SetPage
  <2>2. at \in 1..Len(bitmaps) /\ at = 1 /\ TOBITMAP(op.page) = 0
        /\ op.page < BITMAP_SIZE
    BY <1>0, <2>1, FindIndex
  <2>3. halted = "no" /\ op.left > 0 /\ creation' = NoCreation /\ boot' = boot
        /\ next_bitmap_page' = next_bitmap_page
    BY <1>8 DEF SetPage, Running
  <2> QED  BY <2>1, <2>2, <2>3, SetImage
<1>9. CASE SetCreated
  <2>1. creation.phase = "set" /\ halted = "no" /\ creation' = NoCreation
        /\ SetIn(creation.at) /\ boot' = boot
        /\ next_bitmap_page' = next_bitmap_page
    BY <1>9 DEF SetCreated
  <2>2. creation.at \in 1..Len(bitmaps) /\ ~Single /\ op.left > 0
        /\ creation.at # 1 /\ boot = Len(mem_map) + 3
    BY <1>b, <2>1 DEF IInv, TypeOK, CreationInv, OwnInv, PlaceInv, CreatesBooted
  <2> QED  BY <2>1, <2>2, SetImage
<1>10. CASE create_bitmap
  <2>1. /\ halted = "no" /\ op' = op /\ boot' = boot
        /\ creation.phase = "heap"
        /\ Stopped \/ \E s : Extended(s)
        /\ WellFormed(Linked(bitmaps, next_bitmap_page))
    BY <1>10, CreateOutcome
  <2>2. boot = Len(mem_map) + 3
    <3>1. halted = "no" /\ creation.phase # "none"
      BY <1>10 DEF create_bitmap
    <3> QED  BY <1>b, <3>1, Zenon DEF CreatesBooted
  <2>3. CASE Stopped
    BY <1>0, <2>1, <2>2, <2>3, GrowImage DEF Stopped
  <2>4. CASE \E s : Extended(s)
    <3> DEFINE linked == Linked(bitmaps, next_bitmap_page)
    <3>1. PICK s :
            /\ Requested(linked, mem_info, s) /\ bitmaps' = s.bitmaps
            /\ halted' = s.halted
            /\ next_bitmap_page' = IF s.halted = "no" THEN s.page
                                   ELSE next_bitmap_page
      BY <2>4 DEF Extended
    <3>2. WellFormed(linked) /\ linked[1] = bitmaps[1] /\ 1 \in 1..Len(linked)
      BY <1>10, <2>1, FirstNotWiped DEF WellFormed
    <3> HIDE DEF linked
    <3>3. /\ \A p \in bitmaps[1].map : p \in bitmaps'[1].map
          /\ s.halted = "no" => s.page \notin bitmaps[1].map
      BY <3>1, <3>2, RequestOwn
    <3>4. bitmaps'[1].page = bitmaps[1].page
      BY <3>1, <3>2 DEF Requested, BitsKept, BitSet, OthersKept
    <3> QED  BY <1>0, <2>1, <2>2, <3>1, <3>3, <3>4, GrowImage
  <2> QED  BY <2>1, <2>3, <2>4
<1>11. CASE UNCHANGED vars
  BY <1>11, <1>b DEF vars, ImageInv, LockingImage, ImageLocked, ReleasesNoImage,
     KeptNotImage, CreatesBooted
<1> QED  BY <1>1, <1>2, <1>3, <1>4, <1>5, <1>6, <1>7, <1>8, <1>9, <1>10, <1>11
         DEF Next, Boot, Call, Continue

(* A page of the first region that was handed out stays locked until it is *)
(* released, and no run being handed out holds one, for every interleaving *)
(* of a run with the nested requests of create_bitmap.                     *)
THEOREM OwnershipCorrect == Spec => []Ownership
<1>1. Init => IInv /\ OwnInv /\ ImageInv
  BY InitInv, InitOwn
<1>2. (IInv /\ OwnInv /\ ImageInv) /\ [Next]_vars => (IInv /\ OwnInv /\ ImageInv)'
  BY NextInv, NextOwn, NextImage
<1>3. OwnInv => Ownership
  BY DEF OwnInv, GrantedInv, RunInv, Ownership
<1> QED  BY <1>1, <1>2, <1>3, PTL DEF Spec
-----------------------------------------------------------------------------
(* The manager implements PageAllocator while one region is tracked.  What *)
(* is locked as far as callers can tell, and what the search for a run has *)
(* established when the run is handed out: no run as long starts lower.    *)

Taken == bitmaps[1].map \ InFlight

FitInv ==
  InContract =>
    /\ op.name = "scan" => op.page <= BITMAP_SIZE
    /\ op.name = "take" =>
         /\ op.num >= 1 /\ op.start <= op.page /\ op.page <= BITMAP_SIZE
         /\ \A t \in 0..(op.start - 1) :
              \E i \in t..(t + op.num - 1) : i < op.start /\ i \in bitmaps[1].map

(* The steps of the contract, in terms of the manager's state.             *)
LEMMA ContractStutter ==
  ASSUME InContract, InContract', Taken' = Taken, granted' = granted
  PROVE  [Contract!Next]_Contract!absVars
BY DEF Contract!absVars, Taken

LEMMA ContractGrant ==
  ASSUME InContract, InContract', NEW s \in Nat, NEW n \in Nat \ {0},
         \A i \in s..(s + n - 1) : i < BITMAP_SIZE /\ i \notin Taken,
         \A t \in 0..(s - 1) : \E i \in t..(t + n - 1) : i \in Taken,
         Taken' = Taken \cup (s..(s + n - 1)),
         granted' = granted \cup (s..(s + n - 1))
  PROVE  Contract!Next
<1>1. s \in 0..(BITMAP_SIZE - 1) /\ n \in 1..BITMAP_SIZE
  OBVIOUS
<1>2. Contract!Grant(s, n)
  <2>1. Contract!FreeRun(s, n)
    BY DEF Contract!FreeRun, Contract!Run, Contract!Pages, Taken
  <2>2. ASSUME NEW t \in 0..(s - 1)  PROVE ~Contract!FreeRun(t, n)
    <3>1. PICK i \in t..(t + n - 1) : i \in Taken
      OBVIOUS
    <3> QED  BY <3>1 DEF Contract!FreeRun, Contract!Run, Contract!Pages, Taken
  <2> QED  BY <2>1, <2>2 DEF Contract!Grant, Contract!Run, Taken
<1> QED  BY <1>1, <1>2 DEF Contract!Next, Contract!Pages

LEMMA ContractLock ==
  ASSUME InContract, InContract', NEW p \in 0..(BITMAP_SIZE - 1),
         p \notin Taken, Taken' = Taken \cup {p}, granted' = granted
  PROVE  Contract!Next
BY DEF Contract!Next, Contract!Lock, Contract!Pages, Taken

LEMMA ContractRelease ==
  ASSUME InContract, InContract', NEW p \in 0..(BITMAP_SIZE - 1),
         p \in Taken, Taken' = Taken \ {p}, granted' = granted \ {p}
  PROVE  Contract!Next
BY DEF Contract!Next, Contract!Release, Contract!Pages, Taken

LEMMA ContractStop ==
  ASSUME InContract, ~InContract'
  PROVE  Contract!Next
BY DEF Contract!Next, Contract!Stop

LEMMA ContractOver ==
  ASSUME ~InContract, ~InContract'
  PROVE  [Contract!Next]_Contract!absVars
BY DEF Contract!absVars

(* Once a second region is tracked, or the kernel has stopped, it stays so.*)
LEMMA ContractEnds == IInv /\ [Next]_vars /\ ~InContract => ~InContract'
<1> SUFFICES ASSUME IInv, [Next]_vars, ~InContract PROVE ~InContract'
  OBVIOUS
<1>1. CASE halted # "no"
  <2>1. UNCHANGED vars
    BY <1>1 DEF Next, Boot, Call, Continue, compute_mem_size, LockKernel,
         KeepBitmapPage, RequestPage, pm_request_bytes, pm_request_pages,
         pm_try_lock_pages, pm_try_release_pages, Scan, ScanDone, SetPage,
         Return, ReturnPages, CallHeap, HeapRequest, create_bitmap, SetCreated,
         Callable, Idle, Running
  <2> QED  BY <1>1, <2>1 DEF vars, InContract
<1>2. CASE halted = "no" /\ ~Single
  <2>1. Len(bitmaps') # 1
    <3>1. /\ WellFormed(bitmaps) /\ mem_info \in Counters /\ op.page \in Nat
          /\ first_free_bitmap \in 1..Len(bitmaps) /\ Len(bitmaps) # 1
          /\ Len(bitmaps) \in Nat
      BY <1>2 DEF IInv, TypeOK, ListInv, Single, Op
    <3>2. ASSUME bitmaps' = bitmaps  PROVE Len(bitmaps') # 1
      BY <3>1, <3>2
    <3>3. ASSUME NEW s \in pm_request_page(bitmaps, first_free_bitmap, mem_info),
                 bitmaps' = s.bitmaps
          PROVE  Len(bitmaps') # 1
      <4>1. Requested(bitmaps, mem_info, s)
        BY <3>1, <3>3, RequestPageSound
      <4> QED  BY <3>1, <3>3, <4>1 DEF Requested
    <3>4. ASSUME NEW at \in 1..Len(bitmaps), SetIn(at)
          PROVE  Len(bitmaps') # 1
      <4>1. CASE LockIn(at)
        <5>1. PICK s \in pm_try_lock_page(bitmaps, first_free_bitmap, at, op.page) :
                   bitmaps' = s.bitmaps
          BY <4>1 DEF LockIn
        <5>3. Locked(bitmaps, first_free_bitmap, at, op.page, s)
          BY <3>1, <5>1, LockPageSound, Zenon
        <5>4. Len(s.bitmaps) = Len(bitmaps)
          BY <5>3, Zenon DEF Locked
        <5> QED  BY <3>1, <5>1, <5>4
      <4>2. CASE ReleaseIn(at)
        <5>1. PICK s \in pm_try_release_page(bitmaps, first_free_bitmap, at, op.page) :
                   bitmaps' = s.bitmaps
          BY <4>2 DEF ReleaseIn
        <5>3. Released(bitmaps, at, op.page, s)
          BY <3>1, <5>1, ReleasePageSound, Zenon
        <5>4. Len(s.bitmaps) = Len(bitmaps)
          BY <5>3, Zenon DEF Released
        <5> QED  BY <3>1, <5>1, <5>4
      <4> QED  BY <3>4, <4>1, <4>2 DEF SetIn
    <3>5. CASE SetPage \/ SetCreated
      <4>1. CASE SetPage
        BY <3>1, <3>4, <4>1, FindIndex DEF SetPage
      <4>2. CASE SetCreated
        BY <3>4, <4>2 DEF SetCreated, IInv, TypeOK
      <4> QED  BY <3>5, <4>1, <4>2
    <3>6. CASE create_bitmap
      <4>1. IInv'
        BY <3>6, CreateStep
      <4>2. CASE UNCHANGED bitmaps
        BY <3>2, <4>2
      <4>3. CASE creation'.phase = "set"
        <5>1. PICK k \in InsertPosition(bitmaps, TOBITMAP(op.page)) :
                creation'.at = k \/ UNCHANGED bitmaps
          BY <3>6, <4>3 DEF create_bitmap
        <5>2. k = Len(bitmaps) + 1
          BY <3>1, <5>1, InsertAtEnd
        <5> QED  BY <3>1, <4>1, <4>2, <4>3, <5>1, <5>2 DEF IInv, TypeOK
      <4> QED  BY <3>6, <4>2, <4>3 DEF create_bitmap
    <3>7. CASE \/ compute_mem_size \/ LockKernel \/ Scan \/ ScanDone \/ Return
               \/ ReturnPages \/ CallHeap \/ UNCHANGED vars
               \/ \E b \in Sizes : pm_request_bytes(b)
               \/ \E a \in Addrs, b \in Sizes : pm_try_lock_pages(a, b)
               \/ \E a \in Addrs, b \in Sizes : pm_try_release_pages(a, b)
      <4>1. bitmaps' = bitmaps
        BY <3>7 DEF compute_mem_size, LockKernel, Scan, ScanDone, Return,
             ReturnPages, CallHeap, vars, pm_request_bytes, pm_request_pages,
             pm_try_lock_pages, pm_try_release_pages
      <4> QED  BY <3>2, <4>1
    <3>8. CASE KeepBitmapPage \/ RequestPage \/ HeapRequest
      BY <3>3, <3>8 DEF KeepBitmapPage, RequestPage, HeapRequest
    <3> QED  BY <3>1, <3>5, <3>6, <3>7, <3>8 DEF Next, Boot, Call, Continue
  <2> QED  BY <2>1 DEF InContract, Single
<1> QED  BY <1>1, <1>2 DEF InContract

(* Requests, and one page of a lock loop, as the contract sees them.       *)
LEMMA ContractRequest ==
  ASSUME IInv, InContract, InContract',
         NEW s \in pm_request_page(bitmaps, first_free_bitmap, mem_info),
         bitmaps' = s.bitmaps, halted' = s.halted
  PROVE  /\ s.page = bitmaps[1].first_free /\ s.page \in 0..(BITMAP_SIZE - 1)
         /\ s.page \notin bitmaps[1].map
         /\ bitmaps'[1].map = bitmaps[1].map \cup {s.page}
         /\ \A i \in 0..(s.page - 1) : i \in bitmaps[1].map
<1>1. /\ WellFormed(bitmaps) /\ mem_info \in Counters /\ halted = "no"
      /\ first_free_bitmap = 1 /\ Len(bitmaps) = 1 /\ Exact(bitmaps[1])
      /\ s.halted = "no"
  BY DEF IInv, TypeOK, ListInv, HintInv, InContract, Single
<1>2. Requested(bitmaps, mem_info, s)
  <2>1. first_free_bitmap \in 1..Len(bitmaps)
    BY <1>1
  <2> QED  BY <1>1, <2>1, RequestPageSound
<1>3. BitSet(bitmaps, bitmaps', 1, s.page)
  BY <1>1, <1>2 DEF Requested
<1>4. s.page = bitmaps[1].first_free
  <2>1. s.page = TOPADDR(bitmaps[1].index, bitmaps[1].first_free)
    BY <1>1, RequestPageOf
  <2>2. bitmaps[1].index = 0 /\ bitmaps[1].first_free \in Nat
    BY <1>1 DEF WellFormed, Exact
  <2> QED  BY <2>1, <2>2 DEF TOPADDR
<1> QED  BY <1>1, <1>3, <1>4 DEF BitSet, Exact, BelowLocked

LEMMA ContractSet ==
  ASSUME IInv, InContract, InContract', SetPage
  PROVE  /\ op.page \in 0..(BITMAP_SIZE - 1) /\ op.left > 0
         /\ op'.name = op.name /\ op'.page = op.page + 1
         /\ op'.start = op.start /\ op'.num = op.num
         /\ \/ /\ op.name \in {"lock", "take"} /\ granted' = granted
               /\ bitmaps'[1].map = bitmaps[1].map \cup {op.page}
            \/ /\ op.name = "release" /\ granted' = granted \ {op.page}
               /\ bitmaps'[1].map = bitmaps[1].map \ {op.page}
<1>0. /\ WellFormed(bitmaps) /\ mem_info \in Counters /\ halted = "no"
      /\ first_free_bitmap = 1 /\ Len(bitmaps) = 1 /\ Exact(bitmaps[1])
      /\ op \in Op /\ op.page \in Nat
  BY DEF IInv, TypeOK, ListInv, HintInv, InContract, Single, Op
<1>1. PICK at \in find_bitmap_by_index(bitmaps, TOBITMAP(op.page)) : SetIn(at)
  BY DEF SetPage
<1>2. /\ at = 1 /\ TOBITMAP(op.page) = 0 /\ op.page < BITMAP_SIZE
      /\ TOINDEX(op.page) = op.page /\ at \in 1..Len(bitmaps)
  BY <1>0, <1>1, FindIndex
<1>3. op.left > 0
  BY DEF SetPage
<1>4. CASE op.name \in {"lock", "take"} /\ LockIn(at)
  <2>1. PICK s \in pm_try_lock_page(bitmaps, first_free_bitmap, at, op.page) :
             bitmaps' = s.bitmaps /\ op' = NextPage(s.ok) /\ granted' = granted
    BY <1>4 DEF LockIn
  <2>2. Locked(bitmaps, first_free_bitmap, at, op.page, s)
    <3>1. \A i \in 0..(bitmaps[1].first_free - 1) :
               i \in bitmaps[1].map \cup {TOINDEX(op.page)}
      BY <1>0 DEF Exact, BelowLocked
    <3>2. first_free_bitmap \in 1..Len(bitmaps)
      BY <1>0
    <3> QED  BY <1>0, <1>2, <2>1, <3>1, <3>2, LockPageSound, Zenon
  <2>3. bitmaps'[1].map = bitmaps[1].map \cup {op.page}
    <3>1. CASE s.ok
      <4>1. BitSet(bitmaps, bitmaps', 1, op.page)
        BY <1>2, <2>1, <2>2, <3>1, Zenon DEF Locked
      <4> QED  BY <4>1 DEF BitSet
    <3>2. CASE ~s.ok
      <4>1. bitmaps' = bitmaps /\ op.page \in bitmaps[1].map
        BY <1>2, <2>1, <2>2, <3>2, Zenon DEF Locked
      <4> QED  BY <4>1
    <3> QED  BY <3>1, <3>2
  <2>4. /\ op'.name = op.name /\ op'.page = op.page + 1
        /\ op'.start = op.start /\ op'.num = op.num
    BY <2>1 DEF NextPage
  <2> QED  BY <1>0, <1>2, <1>3, <1>4, <2>1, <2>3, <2>4
<1>5. CASE op.name = "release" /\ ReleaseIn(at)
  <2>1. PICK s \in pm_try_release_page(bitmaps, first_free_bitmap, at, op.page) :
             /\ bitmaps' = s.bitmaps /\ op' = NextPage(s.ok)
             /\ granted' = granted \ {op.page}
    BY <1>5 DEF ReleaseIn
  <2>2. Released(bitmaps, at, op.page, s)
    <3>1. first_free_bitmap \in 1..Len(bitmaps)
      BY <1>0
    <3> QED  BY <1>0, <1>2, <2>1, <3>1, ReleasePageSound, Zenon
  <2>3. bitmaps'[1].map = bitmaps[1].map \ {op.page}
    <3>1. CASE s.ok
      <4>1. BitCleared(bitmaps, bitmaps', 1, op.page)
        BY <1>2, <2>1, <2>2, <3>1, Zenon DEF Released
      <4> QED  BY <4>1 DEF BitCleared
    <3>2. CASE ~s.ok
      <4>1. bitmaps' = bitmaps /\ op.page \notin bitmaps[1].map
        BY <1>2, <2>1, <2>2, <3>2, Zenon DEF Released
      <4> QED  BY <4>1
    <3> QED  BY <3>1, <3>2
  <2>4. /\ op'.name = op.name /\ op'.page = op.page + 1
        /\ op'.start = op.start /\ op'.num = op.num
    BY <2>1 DEF NextPage
  <2> QED  BY <1>0, <1>2, <1>3, <1>5, <2>1, <2>3, <2>4
<1> QED  BY <1>1, <1>4, <1>5 DEF SetIn

(* What the search of a run establishes when it ends.                      *)
LEMMA ScanDoneFits ==
  ASSUME IInv, FitInv, InContract, ScanDone
  PROVE  /\ op'.name = "take" /\ op'.page = op.start /\ op'.start = op.start
         /\ op'.num \in Nat /\ op'.num >= 1 /\ op.start <= BITMAP_SIZE
         /\ \A t \in 0..(op.start - 1) :
              \E i \in t..(t + op'.num - 1) :
                i < op.start /\ i \in bitmaps[1].map
<1>0. /\ op.page \in Nat /\ op.left \in Nat /\ op.start \in Nat /\ op.num \in Nat
      /\ first_free_bitmap = 1 /\ halted = "no" /\ op.name = "scan"
      /\ WellFormed(bitmaps) /\ Exact(bitmaps[1])
      /\ op.left = 0 \/ op.page >= BITMAP_SIZE
  BY DEF IInv, TypeOK, Op, HintInv, ListInv, InContract, Single, ScanDone
<1> DEFINE bm == bitmaps[1]  n == IF op.num = 0 THEN 1 ELSE op.num
<1>1. bm.index = 0 /\ bm \in MemBitmap /\ bm.first_free \in Nat
      /\ bm.map \subseteq 0..(BITMAP_SIZE - 1)
  <2>1. bm.index = 0 /\ bm \in MemBitmap
    BY <1>0 DEF WellFormed
  <2> QED  BY <2>1 DEF MemBitmap
<1>2. /\ \A i \in op.start..(op.page - 1) : i \notin bm.map
      /\ op.left = op.num - (op.page - op.start)
      /\ \A s \in bm.first_free..(op.start - 1) :
           \E i \in s..(s + op.num - 1) : i \in bm.map
      /\ op.start <= op.page
      /\ op.num = 0 => op.start = bm.first_free
      /\ op.page <= BITMAP_SIZE
  BY <1>0 DEF IInv, ScanInv, ScanIsFirstFit, FitInv
<1>3. /\ op'.name = "take" /\ op'.page = op.start /\ op'.start = op.start
      /\ op'.num = n
  <2>1. TOPADDR(bm.index, op.start) = op.start
    BY <1>0, <1>1 DEF TOPADDR
  <2>2. op' = LockOp("take", op.start, n)
    BY <1>0, <2>1 DEF ScanDone
  <2> QED  BY <2>2 DEF LockOp
<1>4. n \in Nat /\ n >= 1 /\ op.start <= BITMAP_SIZE
  BY <1>0, <1>2
<1>5. ASSUME NEW t \in 0..(op.start - 1)
      PROVE  \E i \in t..(t + n - 1) : i < op.start /\ i \in bm.map
  <2>1. CASE t < bm.first_free
    <3>1. t \in bm.map /\ t < op.start /\ t \in t..(t + n - 1)
      BY <1>0, <1>1, <1>4, <2>1 DEF Exact, BelowLocked
    <3> QED  BY <3>1
  <2>2. CASE t >= bm.first_free
    <3>1. op.num # 0 /\ n = op.num
      BY <1>0, <1>1, <1>2, <2>2
    <3>2. PICK i \in t..(t + op.num - 1) : i \in bm.map
      BY <1>0, <1>1, <1>2, <2>2
    <3>3. i < op.page
      BY <1>0, <1>1, <1>2, <3>1, <3>2
    <3>4. i < op.start
      BY <1>0, <1>2, <3>2, <3>3
    <3> QED  BY <3>1, <3>2, <3>4
  <2> QED  BY <1>0, <1>1, <2>1, <2>2
<1> HIDE DEF n
<1> QED  BY <1>3, <1>4, <1>5

(* FitInv is inductive.                                                    *)
LEMMA NextFit == IInv /\ FitInv /\ [Next]_vars => FitInv'
<1> SUFFICES ASSUME IInv, FitInv, [Next]_vars, InContract' PROVE FitInv'
  BY DEF FitInv
<1>0. InContract
  BY ContractEnds
<1>a. /\ halted = "no" /\ Single /\ op \in Op /\ op.page \in Nat
      /\ op.start \in Nat /\ op.num \in Nat
      /\ NoOp.name = "none" /\ NoCreation.phase = "none"
  BY <1>0, OpRecords DEF InContract, IInv, TypeOK, Op, NoCreation
<1>1. ASSUME op'.name \notin {"scan", "take"}  PROVE FitInv'
  BY <1>1 DEF FitInv
<1>2. ASSUME op' = op, \A i \in bitmaps[1].map : i \in bitmaps'[1].map
      PROVE  FitInv'
  BY <1>0, <1>2 DEF FitInv
<1>3. CASE Boot \/ RequestPage
  <2>1. op'.name \in {"none", "lock"}
    BY <1>3, <1>a DEF Boot, compute_mem_size, LockKernel, KeepBitmapPage,
         RequestPage, LockOp, Callable, Idle
  <2> QED  BY <1>1, <2>1
<1>4. CASE \E b \in Sizes : pm_request_bytes(b)
  <2>1. /\ op'.name \in {"none", "scan"}
        /\ op'.name = "scan" => op'.page = bitmaps[first_free_bitmap].first_free
    BY <1>4, <1>a DEF pm_request_bytes, pm_request_pages, Callable, Idle
  <2>2. bitmaps[first_free_bitmap].first_free <= BITMAP_SIZE
    BY <1>a DEF IInv, TypeOK, HintInv, Single, Exact
  <2> QED  BY <2>1, <2>2 DEF FitInv
<1>5. CASE \/ \E a \in Addrs, b \in Sizes : pm_try_lock_pages(a, b)
           \/ \E a \in Addrs, b \in Sizes : pm_try_release_pages(a, b)
  BY <1>1, <1>5 DEF pm_try_lock_pages, pm_try_release_pages, LockOp
<1>6. CASE Scan
  <2>1. op'.name = "scan" /\ op'.page = op.page + 1 /\ op.page < BITMAP_SIZE
    BY <1>6 DEF Scan
  <2> QED  BY <1>a, <2>1 DEF FitInv
<1>7. CASE ScanDone
  <2>1. bitmaps' = bitmaps
    BY <1>7 DEF ScanDone
  <2> QED  BY <1>0, <1>7, <1>a, <2>1, ScanDoneFits DEF FitInv
<1>8. CASE Return \/ ReturnPages
  BY <1>1, <1>8, <1>a DEF Return, ReturnPages
<1>9. CASE CallHeap
  BY <1>2, <1>9 DEF CallHeap
<1>10. CASE HeapRequest
  <2>1. \A i \in bitmaps[1].map : i \in bitmaps'[1].map
    BY <1>0, <1>10, ContractRequest DEF HeapRequest
  <2> QED  BY <1>2, <1>10, <2>1 DEF HeapRequest
<1>11. CASE SetPage
  <2>1. /\ op.page \in 0..(BITMAP_SIZE - 1)
        /\ op'.name = op.name /\ op'.page = op.page + 1
        /\ op'.start = op.start /\ op'.num = op.num
        /\ op.name \in {"lock", "take", "release"}
        /\ op.name = "take" => bitmaps'[1].map = bitmaps[1].map \cup {op.page}
    BY <1>0, <1>11, ContractSet
  <2>2. CASE op.name = "take"
    BY <1>0, <1>a, <2>1, <2>2 DEF FitInv
  <2> QED  BY <1>1, <2>1, <2>2
<1>12. CASE SetCreated
  BY <1>12, <1>a DEF SetCreated, IInv, CreationInv
<1>13. CASE create_bitmap
  <2>1. IInv'
    BY <1>13, CreateStep
  <2>2. halted' = "no" => creation'.phase = "set"
    BY <1>13 DEF create_bitmap
  <2> QED  BY <2>1, <2>2 DEF InContract, IInv, CreationInv
<1>14. CASE UNCHANGED vars
  BY <1>2, <1>14 DEF vars
<1> QED  BY <1>3, <1>4, <1>5, <1>6, <1>7, <1>8, <1>9, <1>10, <1>11, <1>12, <1>13,
         <1>14 DEF Next, Call, Continue

(* Every step is a step of the contract or leaves what it sees alone.      *)
LEMMA NextContract ==
  IInv /\ OwnInv /\ FitInv /\ [Next]_vars => [Contract!Next]_Contract!absVars
<1> SUFFICES ASSUME IInv, OwnInv, FitInv, [Next]_vars
             PROVE  [Contract!Next]_Contract!absVars
  OBVIOUS
<1>1. CASE ~InContract
  BY <1>1, ContractEnds, ContractOver
<1>2. CASE InContract /\ ~InContract'
  BY <1>2, ContractStop
<1>3. CASE InContract /\ InContract'
  <2>0. /\ halted = "no" /\ Single /\ op \in Op /\ op.page \in Nat
        /\ op.start \in Nat /\ op.num \in Nat /\ op.left \in Nat
        /\ halted' = "no" /\ Single' /\ granted \subseteq Nat
        /\ NoOp.name = "none" /\ NoCreation.phase = "none"
        /\ bitmaps[1].map \subseteq 0..(BITMAP_SIZE - 1)
    <3>1. bitmaps[1] \in MemBitmap
      BY DEF IInv, TypeOK
    <3> QED  BY <1>3, <3>1, OpRecords
             DEF InContract, IInv, TypeOK, Op, NoCreation, MemBitmap
  <2>1. ASSUME bitmaps' = bitmaps, granted' = granted, InFlight' = InFlight
        PROVE  [Contract!Next]_Contract!absVars
    BY <1>3, <2>1, ContractStutter DEF Taken
  <2>2. CASE \/ compute_mem_size \/ LockKernel \/ Scan \/ ScanDone \/ Return
             \/ CallHeap \/ UNCHANGED vars
             \/ \E b \in Sizes : pm_request_bytes(b)
             \/ \E a \in Addrs, b \in Sizes : pm_try_lock_pages(a, b)
             \/ \E a \in Addrs, b \in Sizes : pm_try_release_pages(a, b)
    <3>1. bitmaps' = bitmaps /\ granted' = granted
      BY <2>2 DEF compute_mem_size, LockKernel, Scan, ScanDone, Return,
           CallHeap, vars, pm_request_bytes, pm_request_pages,
           pm_try_lock_pages, pm_try_release_pages
    <3>2. CASE ScanDone
      <4>1. op'.name = "take" /\ op'.page = op.start /\ op'.start = op.start
            /\ op.name = "scan"
        BY <1>3, <3>2, ScanDoneFits DEF ScanDone
      <4>2. InFlight = {} /\ InFlight' = {}
        BY <2>0, <4>1 DEF InFlight
      <4> QED  BY <2>1, <3>1, <4>2
    <3>3. CASE op' = op
      BY <2>1, <3>1, <3>3 DEF InFlight
    <3>4. CASE op.name # "take" /\ op'.name # "take"
      BY <2>1, <3>1, <3>4 DEF InFlight
    <3>5. CASE \/ compute_mem_size \/ LockKernel \/ Scan \/ Return
               \/ \E b \in Sizes : pm_request_bytes(b)
               \/ \E a \in Addrs, b \in Sizes : pm_try_lock_pages(a, b)
               \/ \E a \in Addrs, b \in Sizes : pm_try_release_pages(a, b)
      <4>1. op.name # "take" /\ op'.name # "take"
        BY <2>0, <3>5 DEF compute_mem_size, LockKernel, Scan, Return, LockOp,
             pm_request_bytes, pm_request_pages, pm_try_lock_pages,
             pm_try_release_pages, Callable, Idle
      <4> QED  BY <3>4, <4>1
    <3>6. CASE CallHeap \/ UNCHANGED vars
      BY <3>3, <3>6 DEF CallHeap, vars
    <3> QED  BY <2>2, <3>2, <3>5, <3>6
  <2>3. CASE KeepBitmapPage
    <3>1. PICK s \in pm_request_page(bitmaps, first_free_bitmap, mem_info) :
               bitmaps' = s.bitmaps /\ halted' = s.halted
      BY <2>3 DEF KeepBitmapPage
    <3>2. op' = op /\ op = NoOp /\ granted' = granted
      BY <2>3 DEF KeepBitmapPage, Idle
    <3>3. InFlight = {} /\ InFlight' = {}
      BY <2>0, <3>2 DEF InFlight
    <3>4. /\ s.page \in 0..(BITMAP_SIZE - 1) /\ s.page \notin bitmaps[1].map
          /\ bitmaps'[1].map = bitmaps[1].map \cup {s.page}
      BY <1>3, <3>1, ContractRequest
    <3>5. s.page \notin Taken /\ Taken' = Taken \cup {s.page}
      BY <3>3, <3>4 DEF Taken
    <3> QED  BY <1>3, <3>2, <3>4, <3>5, ContractLock
  <2>4. CASE RequestPage \/ HeapRequest
    <3>1. PICK s \in pm_request_page(bitmaps, first_free_bitmap, mem_info) :
               /\ bitmaps' = s.bitmaps /\ halted' = s.halted
               /\ granted' = IF s.halted = "no" THEN granted \cup {s.page}
                             ELSE granted
      BY <2>4 DEF RequestPage, HeapRequest
    <3>2. /\ s.page \in 0..(BITMAP_SIZE - 1) /\ s.page \notin bitmaps[1].map
          /\ bitmaps'[1].map = bitmaps[1].map \cup {s.page}
          /\ \A i \in 0..(s.page - 1) : i \in bitmaps[1].map
      BY <1>3, <3>1, ContractRequest
    <3>3. op' = op /\ granted' = granted \cup {s.page}
      BY <2>0, <2>4, <3>1 DEF RequestPage, HeapRequest
    <3>4. InFlight' = InFlight
      BY <3>3 DEF InFlight
    <3>5. \A i \in 0..s.page : i \notin InFlight
      <4>1. CASE op.name # "take"
        BY <4>1 DEF InFlight
      <4>2. CASE op.name = "take"
        <5>1. op.page >= BITMAP_SIZE /\ op.ok = TRUE
          <6>1. HeapRequest
            BY <2>0, <2>4, <4>2 DEF RequestPage, Callable, Idle
          <6> QED  BY <2>0, <4>2, <6>1 DEF HeapRequest, IInv, CreationInv, TakeInv
        <5>2. \A p \in op.start..(op.page - 1) :
                p < BITMAP_SIZE => p \in bitmaps[1].map
          BY <4>2, <5>1 DEF OwnInv, RunInv
        <5>3. s.page < op.start
          BY <2>0, <3>2, <5>1, <5>2
        <5> QED  BY <2>0, <3>2, <4>2, <5>3 DEF InFlight
      <4> QED  BY <4>1, <4>2
    <3>6. /\ s.page \notin Taken /\ Taken' = Taken \cup {s.page}
          /\ \A i \in 0..(s.page - 1) : i \in Taken
      BY <3>2, <3>4, <3>5 DEF Taken
    <3> DEFINE n == 1
    <3>7. s.page..(s.page + n - 1) = {s.page} /\ s.page \in Nat /\ n \in Nat \ {0}
      BY <3>2
    <3>8. \A t \in 0..(s.page - 1) : \E i \in t..(t + n - 1) : i \in Taken
      BY <3>2, <3>6
    <3>9. \A i \in s.page..(s.page + n - 1) : i < BITMAP_SIZE /\ i \notin Taken
      BY <3>2, <3>6
    <3> HIDE DEF n
    <3> QED  BY <1>3, <3>3, <3>6, <3>7, <3>8, <3>9, ContractGrant
  <2>5. CASE ReturnPages
    <3>1. /\ bitmaps' = bitmaps /\ op.name = "take" /\ op.left = 0 /\ op' = NoOp
          /\ granted' = granted \cup (op.start..(op.start + op.num - 1))
      BY <2>0, <2>5 DEF ReturnPages
    <3>2. /\ op.num >= 1 /\ op.start <= op.page /\ op.page <= BITMAP_SIZE
          /\ \A t \in 0..(op.start - 1) :
               \E i \in t..(t + op.num - 1) :
                 i < op.start /\ i \in bitmaps[1].map
      BY <1>3, <3>1 DEF FitInv
    <3>3. op.start + op.num - 1 = op.page - 1
      BY <2>0, <3>1 DEF OwnInv, RunInv
    <3>4. op.ok = TRUE
      BY <2>0, <3>1 DEF IInv, TakeInv
    <3>5. \A p \in op.start..(op.page - 1) :
            p < BITMAP_SIZE /\ p \in bitmaps[1].map
      BY <2>0, <3>1, <3>2, <3>4 DEF OwnInv, RunInv
    <3>6. InFlight = op.start..(op.start + op.num - 1) /\ InFlight' = {}
      BY <2>0, <3>1, <3>3 DEF InFlight
    <3>7. Taken' = Taken \cup (op.start..(op.start + op.num - 1))
      BY <3>1, <3>3, <3>5, <3>6 DEF Taken
    <3>8. \A i \in op.start..(op.start + op.num - 1) :
            i < BITMAP_SIZE /\ i \notin Taken
      BY <3>3, <3>5, <3>6 DEF Taken
    <3>9. ASSUME NEW t \in 0..(op.start - 1)
          PROVE  \E i \in t..(t + op.num - 1) : i \in Taken
      <4>1. PICK i \in t..(t + op.num - 1) : i < op.start /\ i \in bitmaps[1].map
        BY <3>2
      <4>2. i \notin InFlight
        BY <2>0, <3>6, <4>1
      <4> QED  BY <4>1, <4>2 DEF Taken
    <3> DEFINE s == op.start  n == op.num
    <3>10. /\ s \in Nat /\ n \in Nat \ {0}
           /\ \A i \in s..(s + n - 1) : i < BITMAP_SIZE /\ i \notin Taken
           /\ \A t \in 0..(s - 1) : \E i \in t..(t + n - 1) : i \in Taken
           /\ Taken' = Taken \cup (s..(s + n - 1))
           /\ granted' = granted \cup (s..(s + n - 1))
      BY <2>0, <3>1, <3>2, <3>7, <3>8, <3>9
    <3> HIDE DEF s, n
    <3> QED  BY <1>3, <3>10, ContractGrant, Zenon
  <2>6. CASE SetPage
    <3>1. /\ op.page \in 0..(BITMAP_SIZE - 1)
          /\ op'.name = op.name /\ op'.page = op.page + 1
          /\ op'.start = op.start
          /\ \/ /\ op.name \in {"lock", "take"} /\ granted' = granted
                /\ bitmaps'[1].map = bitmaps[1].map \cup {op.page}
             \/ /\ op.name = "release" /\ granted' = granted \ {op.page}
                /\ bitmaps'[1].map = bitmaps[1].map \ {op.page}
      BY <1>3, <2>6, ContractSet
    <3>2. CASE op.name = "take"
      <4>1. op.start <= op.page
        BY <1>3, <3>2 DEF FitInv
      <4>2. op.page \notin bitmaps[1].map
        <5>1. op.left > 0
          BY <2>6 DEF SetPage
        <5> QED  BY <2>0, <3>1, <3>2, <5>1 DEF IInv, TakeInv
      <4>3. InFlight' = InFlight \cup {op.page}
        BY <2>0, <3>1, <3>2, <4>1 DEF InFlight
      <4>4. Taken' = Taken
        BY <3>1, <3>2, <4>2, <4>3 DEF Taken
      <4> QED  BY <1>3, <3>1, <3>2, <4>4, ContractStutter
    <3>3. CASE op.name # "take"
      <4>1. InFlight = {} /\ InFlight' = {}
        BY <3>1, <3>3 DEF InFlight
      <4>2. Taken = bitmaps[1].map /\ Taken' = bitmaps'[1].map
        BY <4>1 DEF Taken
      <4>3. CASE op.name = "lock" /\ op.page \notin bitmaps[1].map
        BY <1>3, <3>1, <4>2, <4>3, ContractLock
      <4>4. CASE op.name = "lock" /\ op.page \in bitmaps[1].map
        <5>1. Taken' = Taken /\ granted' = granted
          BY <3>1, <4>2, <4>4
        <5> QED  BY <1>3, <5>1, ContractStutter
      <4>5. CASE op.name = "release" /\ op.page \in bitmaps[1].map
        BY <1>3, <3>1, <4>2, <4>5, ContractRelease
      <4>6. CASE op.name = "release" /\ op.page \notin bitmaps[1].map
        <5>1. op.page \notin granted
          BY <3>1, <4>6 DEF OwnInv, GrantedInv
        <5>2. Taken' = Taken /\ granted' = granted
          BY <3>1, <4>2, <4>6, <5>1
        <5> QED  BY <1>3, <5>2, ContractStutter
      <4> QED  BY <3>1, <3>3, <4>3, <4>4, <4>5, <4>6
    <3> QED  BY <3>2, <3>3
  <2>7. CASE SetCreated
    BY <2>0, <2>7 DEF SetCreated, IInv, CreationInv
  <2>8. CASE create_bitmap
    <3>1. IInv'
      BY <2>8, CreateStep
    <3>2. halted' = "no" => creation'.phase = "set"
      BY <2>8 DEF create_bitmap
    <3> QED  BY <2>0, <3>1, <3>2 DEF IInv, CreationInv
  <2> QED  BY <2>2, <2>3, <2>4, <2>5, <2>6, <2>7, <2>8
           DEF Next, Boot, Call, Continue
<1> QED  BY <1>1, <1>2, <1>3

(* While one region is tracked the manager implements PageAllocator for    *)
(* every region size, memory map and sequence of calls: runs are granted   *)
(* in one step, first fit, to one caller, although pm_request_pages locks  *)
(* them page by page and create_bitmap requests pages in between.          *)
THEOREM ContractImplemented == Spec => ImplementsContract
<1>1. Init => IInv /\ OwnInv /\ ImageInv /\ FitInv
  <2>1. Init => FitInv
    BY OpRecords DEF Init, FitInv
  <2> QED  BY <2>1, InitInv, InitOwn
<1>2. (IInv /\ OwnInv /\ ImageInv /\ FitInv) /\ [Next]_vars
        => (IInv /\ OwnInv /\ ImageInv /\ FitInv)'
  BY NextInv, NextOwn, NextImage, NextFit
<1>3. Init => Contract!Init
  <2> SUFFICES ASSUME Init PROVE Contract!Init
    OBVIOUS
  <2>1. /\ Len(bitmaps) = 1 /\ bitmaps[1] = bitmap_from(pages_bitmap0)
        /\ halted = "no" /\ granted = {} /\ bitmaps[1].map = {}
    BY DEF Init, bitmap_from
  <2>2. InContract
    BY <2>1 DEF InContract, Single
  <2> QED  BY <2>1, <2>2 DEF Contract!Init
<1>4. (IInv /\ OwnInv /\ FitInv) /\ [Next]_vars
        => [Contract!Next]_Contract!absVars
  BY NextContract
<1> QED  BY <1>1, <1>2, <1>3, <1>4, PTL DEF Spec, ImplementsContract, Contract!Spec
=============================================================================
