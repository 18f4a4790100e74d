--------------------------- MODULE SlabHeap_proofs ---------------------------
(***************************************************************************)
(* Proofs about the heap, for every set of object sizes and any number of  *)
(* pages: chunks are disjoint and mapped, none is lost, and growing a class *)
(* always works.                                                           *)
(***************************************************************************)
EXTENDS SlabHeap, SequenceTheorems, FiniteSetTheorems, TLAPS

USE HeapAssumption

-----------------------------------------------------------------------------
(* The size classes.                                                       *)

(* The shifts are the powers of two.                                       *)
LEMMA Bits ==
  /\ Bit(0) = 1 /\ Bit(1) = 2 /\ Bit(2) = 4 /\ Bit(3) = 8 /\ Bit(4) = 16
  /\ Bit(5) = 32 /\ Bit(6) = 64 /\ Bit(7) = 128 /\ Bit(8) = 256 /\ Bit(9) = 512
  /\ Bit(10) = 1024 /\ Bit(11) = 2048 /\ Bit(12) = 4096 /\ Bit(13) = 8192
BY DEF Bit

(* The size of every class.                                                *)
LEMMA ClassTable ==
  /\ slab_size(0) = 16 /\ slab_size(1) = 24 /\ slab_size(2) = 32 /\ slab_size(3) = 48
  /\ slab_size(4) = 64 /\ slab_size(5) = 96 /\ slab_size(6) = 128 /\ slab_size(7) = 192
  /\ slab_size(8) = 256 /\ slab_size(9) = 384 /\ slab_size(10) = 512 /\ slab_size(11) = 768
  /\ slab_size(12) = 1024 /\ slab_size(13) = 2048 /\ slab_size(14) = 3072 /\ slab_size(15) = 4096
<1>0. slab_size(0) = 16
  <2>1. 0 % 16 = 0 /\ 0 \div 2 + 4 = 4 /\ 0 % 2 = 0
    OBVIOUS
  <2> QED  BY <2>1, Bits DEF slab_size
<1>1. slab_size(1) = 24
  <2>1. 1 % 16 = 1 /\ 1 \div 2 + 4 = 4 /\ 1 % 2 = 1
    OBVIOUS
  <2> QED  BY <2>1, Bits DEF slab_size
<1>2. slab_size(2) = 32
  <2>1. 2 % 16 = 2 /\ 2 \div 2 + 4 = 5 /\ 2 % 2 = 0
    OBVIOUS
  <2> QED  BY <2>1, Bits DEF slab_size
<1>3. slab_size(3) = 48
  <2>1. 3 % 16 = 3 /\ 3 \div 2 + 4 = 5 /\ 3 % 2 = 1
    OBVIOUS
  <2> QED  BY <2>1, Bits DEF slab_size
<1>4. slab_size(4) = 64
  <2>1. 4 % 16 = 4 /\ 4 \div 2 + 4 = 6 /\ 4 % 2 = 0
    OBVIOUS
  <2> QED  BY <2>1, Bits DEF slab_size
<1>5. slab_size(5) = 96
  <2>1. 5 % 16 = 5 /\ 5 \div 2 + 4 = 6 /\ 5 % 2 = 1
    OBVIOUS
  <2> QED  BY <2>1, Bits DEF slab_size
<1>6. slab_size(6) = 128
  <2>1. 6 % 16 = 6 /\ 6 \div 2 + 4 = 7 /\ 6 % 2 = 0
    OBVIOUS
  <2> QED  BY <2>1, Bits DEF slab_size
<1>7. slab_size(7) = 192
  <2>1. 7 % 16 = 7 /\ 7 \div 2 + 4 = 7 /\ 7 % 2 = 1
    OBVIOUS
  <2> QED  BY <2>1, Bits DEF slab_size
<1>8. slab_size(8) = 256
  <2>1. 8 % 16 = 8 /\ 8 \div 2 + 4 = 8 /\ 8 % 2 = 0
    OBVIOUS
  <2> QED  BY <2>1, Bits DEF slab_size
<1>9. slab_size(9) = 384
  <2>1. 9 % 16 = 9 /\ 9 \div 2 + 4 = 8 /\ 9 % 2 = 1
    OBVIOUS
  <2> QED  BY <2>1, Bits DEF slab_size
<1>10. slab_size(10) = 512
  <2>1. 10 % 16 = 10 /\ 10 \div 2 + 4 = 9 /\ 10 % 2 = 0
    OBVIOUS
  <2> QED  BY <2>1, Bits DEF slab_size
<1>11. slab_size(11) = 768
  <2>1. 11 % 16 = 11 /\ 11 \div 2 + 4 = 9 /\ 11 % 2 = 1
    OBVIOUS
  <2> QED  BY <2>1, Bits DEF slab_size
<1>12. slab_size(12) = 1024
  <2>1. 12 % 16 = 12 /\ 12 \div 2 + 4 = 10 /\ 12 % 2 = 0
    OBVIOUS
  <2> QED  BY <2>1, Bits DEF slab_size
<1>13. slab_size(13) = 2048
  <2>1. 13 % 16 = 13 /\ 13 \div 2 + 4 = 10 /\ 13 % 2 = 1
    OBVIOUS
  <2> QED  BY <2>1, Bits DEF slab_size
<1>14. slab_size(14) = 3072
  <2>1. 14 % 16 = 14 /\ 14 \div 2 + 4 = 11 /\ 14 % 2 = 0
    OBVIOUS
  <2> QED  BY <2>1, Bits DEF slab_size
<1>15. slab_size(15) = 4096
  <2>1. 15 % 16 = 15 /\ 15 \div 2 + 4 = 11 /\ 15 % 2 = 1
    OBVIOUS
  <2> QED  BY <2>1, Bits DEF slab_size
<1> QED  BY <1>0, <1>1, <1>2, <1>3, <1>4, <1>5, <1>6, <1>7, <1>8, <1>9, <1>10, <1>11, <1>12, <1>13, <1>14, <1>15

(* A chunk has at least 16 bytes, and only one of the last class fills a   *)
(* page.                                                                   *)
LEMMA ClassSizes ==
  ASSUME NEW t \in SlabTypes
  PROVE  /\ slab_size(t) \in Nat /\ 16 <= slab_size(t) /\ slab_size(t) <= PAGE_SIZE
         /\ t # SLAB_MAX - 1 => slab_size(t) < PAGE_SIZE
<1>1. t \in {0,1,2,3,4,5,6,7,8,9,10,11,12,13,14,15}
  BY DEF SlabTypes, SLAB_MAX
<1> QED  BY <1>1, ClassTable DEF PAGE_SIZE, SLAB_MAX

(* Rounding up an object size that mm_alloc accepts.                       *)
LEMMA Ceil ==
  ASSUME NEW sz \in Nat, sz < 4096
  PROVE  ceil_to_power_of_2(sz) \in Nat /\ ceil_to_power_of_2(sz) <= 4096
<1> DEFINE P(k) == sz <= Bit(k) /\ (k = 0 \/ Bit(k - 1) < sz)
<1> DEFINE c == CHOOSE k \in 0..12 : P(k)
<1>1. \A k \in 0..12 : Bit(k) \in Nat /\ Bit(k) <= 4096
  <2> SUFFICES ASSUME NEW k \in 0..12 PROVE Bit(k) \in Nat /\ Bit(k) <= 4096
    OBVIOUS
  <2>1. k \in {0,1,2,3,4,5,6,7,8,9,10,11,12}
    OBVIOUS
  <2> QED  BY <2>1, Bits
<1>2. CASE sz = 0
  BY <1>2 DEF ceil_to_power_of_2
<1>3. CASE sz > 0
  <2>1. \E k \in 0..12 : P(k)
    <3>1. CASE sz <= 16
      <4>1. P(0) \/ P(1) \/ P(2) \/ P(3) \/ P(4)
        BY <1>3, <3>1, Bits
      <4> HIDE DEF P
      <4> QED  BY <4>1
    <3>2. CASE 16 < sz /\ sz <= 256
      <4>1. P(5) \/ P(6) \/ P(7) \/ P(8)
        BY <1>3, <3>2, Bits
      <4> HIDE DEF P
      <4> QED  BY <4>1
    <3>3. CASE 256 < sz
      <4>1. P(9) \/ P(10) \/ P(11) \/ P(12)
        BY <1>3, <3>3, Bits
      <4> HIDE DEF P
      <4> QED  BY <4>1
    <3> QED  BY <3>1, <3>2, <3>3
  <2>2. c \in 0..12
    <3> HIDE DEF P
    <3> QED  BY <2>1
  <2>3. ceil_to_power_of_2(sz) = Bit(c)
    BY <1>3 DEF ceil_to_power_of_2
  <2> HIDE DEF c
  <2> QED  BY <1>1, <2>2, <2>3
<1> HIDE DEF c
<1> QED  BY <1>2, <1>3

(* The halving loop of get_slab_from_size ends.                            *)
LEMMA HalvingEnds ==
  ASSUME NEW n \in 0..256
  PROVE  Halvings(n) \in 0..13
<1> DEFINE P(k) == n < Bit(k) /\ (k = 0 \/ Bit(k - 1) <= n)
<1>1. \/ P(0) \/ P(1) \/ P(2) \/ P(3) \/ P(4) \/ P(5) \/ P(6)
      \/ P(7) \/ P(8) \/ P(9)
  BY Bits
<1>2. Halvings(n) = CHOOSE k \in 0..13 : P(k)
  BY DEF Halvings
<1> HIDE DEF P
<1>3. \E k \in 0..13 : P(k)
  BY <1>1
<1> QED  BY <1>2, <1>3

(* The class search finds no class, or one whose chunks are smaller than a *)
(* page: SLAB_4096 is never chosen.                                        *)
LEMMA ClassSearch ==
  ASSUME NEW sz \in Nat, sz < slab_size(SLAB_MAX - 1)
  PROVE  get_slab_from_size(sz) \in 0..13 \cup {UINT_MAX}
<1>1. sz < 4096
  BY ClassTable DEF SLAB_MAX
<1> DEFINE n == ceil_to_power_of_2(sz) \div 16
<1>2. n \in 0..256
  <2>1. ceil_to_power_of_2(sz) \in Nat /\ ceil_to_power_of_2(sz) <= 4096
    BY <1>1, Ceil
  <2> QED  BY <2>1
<1>3. Halvings(n) \in 0..13
  BY <1>2, HalvingEnds
<1> DEFINE h == Halvings(n)
<1>4. Decrement(h) \in 0..13 \cup {UINT_MAX}
  BY <1>3 DEF Decrement
<1>5. get_slab_from_size(sz) = h \/ get_slab_from_size(sz) = Decrement(h)
  BY DEF get_slab_from_size
<1> QED  BY <1>3, <1>4, <1>5

(* Bits 36 to 51 of a heap address are never a class: mm_free refuses      *)
(* every chunk.                                                            *)
LEMMA FreeRefuses == \A t \in SlabTypes : SLABTYPE(t) >= SLAB_MAX
BY DEF SlabTypes, SLAB_MAX, SLABTYPE, HEAP_REGION
-----------------------------------------------------------------------------
(* The inductive invariant.                                                *)

(* All chunks lie below the end of their slab.                             *)
Below ==
  \A t \in SlabTypes :
    /\ \A i \in 1..Len(free[t]) : free[t][i] + slab_size(t) <= end[t]
    /\ \A a \in live[t] : a + slab_size(t) <= end[t]

(* The pages up to the end of a slab are mapped; outside the carving loop  *)
(* no page is mapped that begins at the end or above.                      *)
Covered == \A t \in SlabTypes : \A p \in Nat : p * PAGE_SIZE < end[t] => p \in pages[t]
Tight ==
  \A t \in SlabTypes :
    ~(call.pc = "carve" /\ call.type = t) =>
      \A p \in pages[t] : p * PAGE_SIZE < end[t]

(* Inside the loop the pages are those below top, and the page that was    *)
(* added leaves room for a chunk until one has been carved.                *)
Carving ==
  call.pc = "carve" =>
    /\ \A p \in Nat : p * PAGE_SIZE < call.top => p \in pages[call.type]
    /\ \A p \in pages[call.type] : (p + 1) * PAGE_SIZE <= call.top
    /\ Len(free[call.type]) > 0 \/ end[call.type] + slab_size(call.type) < call.top

(* A call works on a class that a page can be carved into, and has a chunk *)
(* to return when it comes to that.                                        *)
Called ==
  /\ call.pc # "none" => call.type # SLAB_MAX - 1
  /\ call.pc = "pop" => Len(free[call.type]) > 0

IInv ==
  /\ TypeOK /\ Below /\ ChunksDisjoint
  /\ Covered /\ Tight /\ Carving /\ Called /\ GrowthWorks

(* The initial state.                                                      *)
LEMMA InitIInv == Init => IInv
<1> SUFFICES ASSUME Init PROVE IInv
  OBVIOUS
<1>1. TypeOK
  BY DEF Init, TypeOK, NoCall, SlabTypes, SLAB_MAX
<1>2. \A t \in SlabTypes : free[t] = <<>> /\ live[t] = {} /\ pages[t] = {} /\ end[t] = 0
  BY DEF Init
<1>3. Below /\ ChunksDisjoint
  BY <1>2 DEF Below, ChunksDisjoint
<1>4. Covered /\ Tight
  BY <1>2 DEF Covered, Tight, PAGE_SIZE
<1>5. Carving /\ Called /\ GrowthWorks
  BY DEF Init, Carving, Called, GrowthWorks, NoCall
<1> QED  BY <1>1, <1>3, <1>4, <1>5 DEF IInv

(* Stopping outside the carving loop.                                      *)
LEMMA HaltIInv ==
  ASSUME IInv, call.pc # "carve", NEW why,
         why \in {"size", "class", "memory", "free"}, Halt(why)
  PROVE  IInv'
<1>1. /\ halted' = why /\ call' = NoCall
      /\ end' = end /\ free' = free /\ pages' = pages /\ live' = live
  BY DEF Halt
<1>2. TypeOK'
  <2>1. NoCall \in [pc : {"none", "grow", "carve", "pop"}, sz : Nat, type : SlabTypes, top : Nat]
    BY DEF NoCall, SlabTypes, SLAB_MAX
  <2>2. halted' \in {"no", "size", "class", "memory", "overlap", "head", "free"}
    BY <1>1
  <2> HIDE DEF NoCall
  <2> QED  BY <1>1, <2>1, <2>2 DEF IInv, TypeOK
<1>3. Below' /\ ChunksDisjoint' /\ Covered'
  BY <1>1 DEF IInv, Below, ChunksDisjoint, Apart, Covered
<1>4. Tight'
  BY <1>1 DEF IInv, Tight
<1>5. Carving' /\ Called' /\ GrowthWorks'
  BY <1>1 DEF Carving, Called, GrowthWorks, NoCall
<1> QED  BY <1>2, <1>3, <1>4, <1>5 DEF IInv

(* Entering mm_alloc.                                                      *)
LEMMA AllocIInv ==
  ASSUME IInv, NEW sz \in ObjectSizes, mm_alloc(sz)
  PROVE  IInv'
<1> DEFINE type == get_slab_from_size(sz)
<1>1. call = NoCall
  BY DEF mm_alloc, Idle
<1>2. call.pc # "carve"
  BY <1>1 DEF NoCall
<1>3. CASE \E why \in {"size", "class"} : Halt(why)
  BY <1>2, <1>3, HaltIInv
<1>4. CASE /\ sz < slab_size(SLAB_MAX - 1)
           /\ type < SLAB_MAX
           /\ call' = [pc |-> IF free[type] = <<>> THEN "grow" ELSE "pop",
                       sz |-> sz, type |-> type, top |-> 0]
           /\ UNCHANGED <<end, free, pages, live, halted>>
  <2>1. sz \in Nat
    BY HeapAssumption
  <2>2. type \in 0..13
    <3>1. type \in 0..13 \cup {UINT_MAX}
      BY <2>1, <1>4, ClassSearch
    <3> HIDE DEF type
    <3> QED  BY <3>1, <1>4 DEF UINT_MAX, SLAB_MAX
  <2> HIDE DEF type
  <2>3. type \in SlabTypes /\ type # SLAB_MAX - 1
    BY <2>2 DEF SlabTypes, SLAB_MAX
  <2>4. /\ call'.pc = IF free[type] = <<>> THEN "grow" ELSE "pop"
        /\ call'.type = type
        /\ call' \in [pc : {"none", "grow", "carve", "pop"}, sz : Nat, type : SlabTypes, top : Nat]
    BY <1>4, <2>1, <2>3
  <2>5. TypeOK'
    BY <1>4, <2>4 DEF IInv, TypeOK
  <2>6. Below' /\ ChunksDisjoint' /\ Covered' /\ GrowthWorks'
    BY <1>4 DEF IInv, Below, ChunksDisjoint, Apart, Covered, GrowthWorks
  <2>7. Tight'
    BY <1>2, <1>4, <2>4 DEF IInv, Tight
  <2>8. Carving'
    BY <2>4 DEF Carving
  <2>9. Called'
    <3>1. free[type] \in Seq(Nat)
      BY <2>3 DEF IInv, TypeOK
    <3>2. free[type] # <<>> => Len(free[type]) > 0
      BY <3>1
    <3> QED  BY <1>4, <2>3, <2>4, <3>2 DEF Called
  <2> QED  BY <2>5, <2>6, <2>7, <2>8, <2>9 DEF IInv
<1> QED  BY <1>3, <1>4 DEF mm_alloc

(* Growing: the page is a new one.                                         *)
LEMMA GrowIInv ==
  ASSUME IInv, alloc_slab
  PROVE  IInv'
<1> DEFINE t == call.type
           page == PAGEALIGNUP(end[t])
<1>1. call.pc = "grow" /\ t \in SlabTypes /\ end[t] \in Nat /\ t # SLAB_MAX - 1
  BY DEF alloc_slab, At, IInv, TypeOK, Called
<1>2. page \in Nat /\ end[t] <= page * PAGE_SIZE
      /\ \A p \in Nat : p * PAGE_SIZE < end[t] <=> p < page
  BY <1>1 DEF PAGEALIGNUP, PAGE_SIZE
<1>3. pages[t] \subseteq Nat /\ \A p \in pages[t] : p * PAGE_SIZE < end[t]
  BY <1>1 DEF IInv, TypeOK, Tight
<1>4. page \notin pages[t]
  BY <1>2, <1>3
<1>5. /\ pages' = [pages EXCEPT ![t] = @ \cup {page}]
      /\ call' = [pc |-> "carve", sz |-> call.sz, type |-> t,
                  top |-> (page + 1) * PAGE_SIZE]
      /\ UNCHANGED <<end, free, live, halted>>
  BY <1>4 DEF alloc_slab
<1> HIDE DEF page
<1>6. /\ call'.pc = "carve" /\ call'.type = t /\ call'.top = (page + 1) * PAGE_SIZE
      /\ call'.sz = call.sz
  BY <1>5
<1>7. /\ pages'[t] = pages[t] \cup {page}
      /\ \A u \in SlabTypes : u # t => pages'[u] = pages[u]
      /\ pages' \in [SlabTypes -> SUBSET Nat]
  BY <1>1, <1>2, <1>5 DEF IInv, TypeOK
<1>8. TypeOK'
  <2>1. (page + 1) * PAGE_SIZE \in Nat
    BY <1>2 DEF PAGE_SIZE
  <2>2. call' \in [pc : {"none", "grow", "carve", "pop"}, sz : Nat, type : SlabTypes, top : Nat]
    BY <1>1, <1>5, <2>1 DEF IInv, TypeOK
  <2> QED  BY <1>5, <1>7, <2>2 DEF IInv, TypeOK
<1>9. Below' /\ ChunksDisjoint' /\ GrowthWorks'
  BY <1>5 DEF IInv, Below, ChunksDisjoint, Apart, GrowthWorks
<1>10. Covered'
  BY <1>5, <1>7 DEF IInv, Covered
<1>11. Tight'
  BY <1>1, <1>5, <1>6, <1>7 DEF IInv, Tight
<1>12. Carving'
  <2>1. \A p \in Nat : p * PAGE_SIZE < (page + 1) * PAGE_SIZE => p < page \/ p = page
    BY <1>2 DEF PAGE_SIZE
  <2>2. \A p \in Nat : p < page => p \in pages[t]
    BY <1>1, <1>2 DEF IInv, Covered
  <2>3. \A p \in pages[t] : p < page
    BY <1>2, <1>3
  <2>4. \A p \in Nat : p <= page => (p + 1) * PAGE_SIZE <= (page + 1) * PAGE_SIZE
    BY <1>2 DEF PAGE_SIZE
  <2>5. \A p \in pages'[t] : (p + 1) * PAGE_SIZE <= (page + 1) * PAGE_SIZE
    BY <1>2, <1>3, <1>7, <2>3, <2>4
  <2>6. \A p \in Nat : p * PAGE_SIZE < (page + 1) * PAGE_SIZE => p \in pages'[t]
    BY <1>7, <2>1, <2>2
  <2>7. end[t] + slab_size(t) < (page + 1) * PAGE_SIZE
    <3>1. slab_size(t) \in Nat /\ slab_size(t) < PAGE_SIZE
      BY <1>1, ClassSizes
    <3> QED  BY <1>1, <1>2, <3>1 DEF PAGE_SIZE
  <2> QED  BY <1>5, <1>6, <2>5, <2>6, <2>7 DEF Carving
<1>13. Called'
  BY <1>1, <1>6 DEF Called
<1> QED  BY <1>8, <1>9, <1>10, <1>11, <1>12, <1>13 DEF IInv

(* Carving one chunk off, or ending the loop.                              *)
LEMMA CarveIInv ==
  ASSUME IInv, Carve
  PROVE  IInv'
<1> DEFINE t == call.type
           next == end[t] + slab_size(t)
<1>1. /\ call.pc = "carve" /\ t \in SlabTypes /\ end[t] \in Nat
      /\ t # SLAB_MAX - 1 /\ call.top \in Nat /\ call.sz \in Nat /\ free[t] \in Seq(Nat)
  BY DEF Carve, At, IInv, TypeOK, Called
<1>2. slab_size(t) \in Nat /\ 16 <= slab_size(t) /\ slab_size(t) < PAGE_SIZE
  BY <1>1, ClassSizes
<1>3. /\ \A p \in Nat : p * PAGE_SIZE < call.top => p \in pages[t]
      /\ \A p \in pages[t] : (p + 1) * PAGE_SIZE <= call.top
      /\ Len(free[t]) > 0 \/ next < call.top
  BY <1>1 DEF IInv, Carving
<1>4. CASE /\ next < call.top
           /\ free' = [free EXCEPT ![t] = Append(@, end[t])]
           /\ end' = [end EXCEPT ![t] = next]
           /\ UNCHANGED <<pages, live, call, halted>>
  <2>1. /\ end'[t] = next /\ next \in Nat
        /\ \A u \in SlabTypes : u # t => end'[u] = end[u]
        /\ end' \in [SlabTypes -> Nat]
    BY <1>1, <1>2, <1>4 DEF IInv, TypeOK
  <2>2. /\ free'[t] = Append(free[t], end[t])
        /\ \A u \in SlabTypes : u # t => free'[u] = free[u]
        /\ free' \in [SlabTypes -> Seq(Nat)]
    BY <1>1, <1>4 DEF IInv, TypeOK
  <2>3. /\ Len(free'[t]) = Len(free[t]) + 1
        /\ \A i \in 1..Len(free[t]) : free'[t][i] = free[t][i] /\ free[t][i] \in Nat
        /\ free'[t][Len(free[t]) + 1] = end[t]
        /\ Len(free[t]) \in Nat
    <3> DEFINE f == free[t]  e == end[t]
    <3>1. f \in Seq(Nat) /\ e \in Nat /\ free'[t] = Append(f, e)
      BY <1>1, <2>2
    <3> HIDE DEF f, e
    <3>2. /\ Len(Append(f, e)) = Len(f) + 1 /\ Len(f) \in Nat
          /\ \A i \in 1..Len(f) : Append(f, e)[i] = f[i] /\ f[i] \in Nat
          /\ Append(f, e)[Len(f) + 1] = e
      BY <3>1
    <3>3. /\ Len(free'[t]) = Len(f) + 1
          /\ \A i \in 1..Len(f) : free'[t][i] = f[i] /\ f[i] \in Nat
          /\ free'[t][Len(f) + 1] = e
      BY <3>1, <3>2, Zenon
    <3> QED  BY <3>2, <3>3 DEF f, e
  <2>4. TypeOK'
    BY <1>4, <2>1, <2>2 DEF IInv, TypeOK
  <2>5. \A u \in SlabTypes : live[u] \subseteq Nat /\ live'[u] = live[u]
    BY <1>4 DEF IInv, TypeOK
  <2>6. /\ \A i \in 1..Len(free[t]) : free[t][i] + slab_size(t) <= end[t]
        /\ \A a \in live[t] : a + slab_size(t) <= end[t]
    BY <1>1 DEF IInv, Below
  <2>7. \A i \in 1..Len(free'[t]) :
          i = Len(free[t]) + 1 \/ i \in 1..Len(free[t])
    BY <2>3
  <2>8. Below'
    <3> SUFFICES ASSUME NEW u \in SlabTypes
                 PROVE  /\ \A i \in 1..Len(free'[u]) : free'[u][i] + slab_size(u) <= end'[u]
                        /\ \A a \in live'[u] : a + slab_size(u) <= end'[u]
      BY DEF Below
    <3>1. CASE u # t
      BY <3>1, <2>1, <2>2, <2>5 DEF IInv, Below
    <3>2. CASE u = t
      <4> DEFINE s == slab_size(t)  e == end[t]  e2 == end'[t]
      <4>0. s \in Nat /\ e \in Nat /\ e2 \in Nat /\ e2 = e + s
        BY <1>1, <1>2, <2>1
      <4>a. \A a \in Nat : a + s <= e => a + s <= e2
        <5> HIDE DEF s, e, e2
        <5> QED  BY <4>0
      <4>b. e + s <= e2
        <5> HIDE DEF s, e, e2
        <5> QED  BY <4>0
      <4> HIDE DEF s, e, e2
      <4>1. \A i \in 1..Len(free'[t]) : free'[t][i] + s <= e2
        BY <4>a, <4>b, <2>3, <2>6, <2>7 DEF s, e
      <4>2. \A a \in live'[t] : a + s <= e2
        BY <4>a, <2>5, <2>6, <1>1 DEF s, e
      <4> USE DEF s, e, e2
      <4> QED  BY <3>2, <4>1, <4>2
    <3> QED  BY <3>1, <3>2
  <2>9. ChunksDisjoint'
    <3> SUFFICES ASSUME NEW u \in SlabTypes
                 PROVE  /\ \A i, j \in 1..Len(free'[u]) : i # j => Apart(u, free'[u][i], free'[u][j])
                        /\ \A i \in 1..Len(free'[u]), b \in live'[u] : Apart(u, free'[u][i], b)
                        /\ \A a, b \in live'[u] : a # b => Apart(u, a, b)
      BY DEF ChunksDisjoint, Apart
    <3>0. /\ \A i, j \in 1..Len(free[u]) : i # j => Apart(u, free[u][i], free[u][j])
          /\ \A i \in 1..Len(free[u]), b \in live[u] : Apart(u, free[u][i], b)
          /\ \A a, b \in live[u] : a # b => Apart(u, a, b)
      BY DEF IInv, ChunksDisjoint
    <3>1. CASE u # t
      BY <3>0, <3>1, <2>2, <2>5
    <3>2. CASE u = t
      <4>1. /\ \A i \in 1..Len(free[t]) : Apart(t, free[t][i], end[t]) /\ Apart(t, end[t], free[t][i])
            /\ \A b \in live[t] : Apart(t, end[t], b)
        BY <2>6 DEF Apart
      <4>2. \A i, j \in 1..Len(free'[t]) : i # j => Apart(t, free'[t][i], free'[t][j])
        BY <3>0, <3>2, <2>3, <2>7, <4>1
      <4>3. \A i \in 1..Len(free'[t]), b \in live'[t] : Apart(t, free'[t][i], b)
        BY <3>0, <3>2, <2>3, <2>5, <2>7, <4>1
      <4> QED  BY <3>0, <3>2, <2>5, <4>2, <4>3
    <3> QED  BY <3>1, <3>2
  <2>10. Covered'
    <3> SUFFICES ASSUME NEW u \in SlabTypes, NEW p \in Nat, p * PAGE_SIZE < end'[u]
                 PROVE  p \in pages'[u]
      BY DEF Covered
    <3>1. CASE u # t
      BY <3>1, <1>4, <2>1 DEF IInv, Covered
    <3>2. CASE u = t
      <4>1. p * PAGE_SIZE < call.top
        BY <3>2, <1>1, <1>4, <2>1 DEF PAGE_SIZE
      <4> QED  BY <3>2, <4>1, <1>3, <1>4
    <3> QED  BY <3>1, <3>2
  <2>11. Tight'
    BY <1>1, <1>4, <2>1 DEF IInv, Tight
  <2>12. Carving'
    BY <1>1, <1>3, <1>4, <2>3 DEF Carving
  <2>13. Called' /\ GrowthWorks'
    BY <1>1, <1>4 DEF IInv, Called, GrowthWorks
  <2> QED  BY <2>4, <2>8, <2>9, <2>10, <2>11, <2>12, <2>13 DEF IInv
<1>5. CASE /\ next >= call.top
           /\ call' = [pc |-> "pop", sz |-> call.sz, type |-> t, top |-> 0]
           /\ UNCHANGED <<end, free, pages, live, halted>>
  <2>1. /\ call'.pc = "pop" /\ call'.type = t
        /\ call' \in [pc : {"none", "grow", "carve", "pop"}, sz : Nat, type : SlabTypes, top : Nat]
    BY <1>1, <1>5
  <2>2. TypeOK'
    BY <1>5, <2>1 DEF IInv, TypeOK
  <2>3. Below' /\ ChunksDisjoint' /\ Covered' /\ GrowthWorks'
    BY <1>5 DEF IInv, Below, ChunksDisjoint, Apart, Covered, GrowthWorks
  <2>4. \A p \in pages[t] : p * PAGE_SIZE < end[t]
    <3>1. pages[t] \subseteq Nat
      BY <1>1 DEF IInv, TypeOK
    <3> SUFFICES ASSUME NEW p \in pages[t] PROVE p * PAGE_SIZE < end[t]
      OBVIOUS
    <3>2. p \in Nat /\ (p + 1) * PAGE_SIZE <= call.top
      BY <3>1, <1>3
    <3> QED  BY <3>2, <1>1, <1>2, <1>5 DEF PAGE_SIZE
  <2>5. Tight'
    BY <1>1, <1>5, <2>1, <2>4 DEF IInv, Tight
  <2>6. Carving'
    BY <2>1 DEF Carving
  <2>7. Called'
    <3>1. Len(free[t]) > 0
      BY <1>1, <1>2, <1>3, <1>5
    <3> QED  BY <1>1, <1>5, <2>1, <3>1 DEF Called
  <2> QED  BY <2>2, <2>3, <2>5, <2>6, <2>7 DEF IInv
<1> QED  BY <1>4, <1>5 DEF Carve

(* Taking a chunk off the free list: it changes owners, nothing more.      *)
LEMMA PopIInv ==
  ASSUME IInv, Pop
  PROVE  IInv'
<1> DEFINE t == call.type
           n == Len(free[t])
           c == free[t][n]
<1>1. call.pc = "pop" /\ t \in SlabTypes /\ free[t] \in Seq(Nat) /\ n \in Nat /\ n > 0
  BY DEF Pop, At, IInv, TypeOK, Called
<1>2. /\ free' = [free EXCEPT ![t] = SubSeq(@, 1, n - 1)]
      /\ live' = [live EXCEPT ![t] = @ \cup {c}]
      /\ call' = NoCall
      /\ UNCHANGED <<end, pages, halted>>
  BY <1>1 DEF Pop
<1>3. c \in Nat /\ n \in 1..Len(free[t])
  BY <1>1
<1>4. /\ free'[t] = SubSeq(free[t], 1, n - 1)
      /\ \A u \in SlabTypes : u # t => free'[u] = free[u]
      /\ live'[t] = live[t] \cup {c}
      /\ \A u \in SlabTypes : u # t => live'[u] = live[u]
  BY <1>1, <1>2 DEF IInv, TypeOK
<1>5. /\ free'[t] \in Seq(Nat) /\ Len(free'[t]) = n - 1
      /\ \A i \in 1..(n - 1) : free'[t][i] = free[t][i] /\ i \in 1..Len(free[t]) /\ i # n
  <2>1. SubSeq(free[t], 1, n - 1) \in Seq(Nat) /\ Len(SubSeq(free[t], 1, n - 1)) = n - 1
    BY <1>1
  <2>2. \A i \in 1..(n - 1) : SubSeq(free[t], 1, n - 1)[i] = free[t][i]
    BY <1>1
  <2>3. \A i \in 1..(n - 1) : i \in 1..n /\ i # n
    BY <1>1
  <2> QED  BY <1>4, <2>1, <2>2, <2>3
<1>6. TypeOK'
  <2>1. NoCall \in [pc : {"none", "grow", "carve", "pop"}, sz : Nat, type : SlabTypes, top : Nat]
    BY DEF NoCall, SlabTypes, SLAB_MAX
  <2>2. free' \in [SlabTypes -> Seq(Nat)] /\ live' \in [SlabTypes -> SUBSET Nat]
    <3> HIDE DEF c, n
    <3> QED  BY <1>1, <1>2, <1>3, <1>4, <1>5 DEF IInv, TypeOK
  <2> HIDE DEF NoCall
  <2> QED  BY <1>2, <2>1, <2>2 DEF IInv, TypeOK
<1>7. Below'
  <2> SUFFICES ASSUME NEW u \in SlabTypes
               PROVE  /\ \A i \in 1..Len(free'[u]) : free'[u][i] + slab_size(u) <= end'[u]
                      /\ \A a \in live'[u] : a + slab_size(u) <= end'[u]
    BY DEF Below
  <2>0. /\ \A i \in 1..Len(free[u]) : free[u][i] + slab_size(u) <= end[u]
        /\ \A a \in live[u] : a + slab_size(u) <= end[u]
        /\ end' = end
    BY <1>2 DEF IInv, Below
  <2>1. CASE u # t
    BY <2>0, <2>1, <1>4
  <2>2. CASE u = t
    BY <2>0, <2>2, <1>3, <1>4, <1>5
  <2> QED  BY <2>1, <2>2
<1>8. ChunksDisjoint'
  <2> SUFFICES ASSUME NEW u \in SlabTypes
               PROVE  /\ \A i, j \in 1..Len(free'[u]) : i # j => Apart(u, free'[u][i], free'[u][j])
                      /\ \A i \in 1..Len(free'[u]), b \in live'[u] : Apart(u, free'[u][i], b)
                      /\ \A a, b \in live'[u] : a # b => Apart(u, a, b)
    BY DEF ChunksDisjoint, Apart
  <2>0. /\ \A i, j \in 1..Len(free[u]) : i # j => Apart(u, free[u][i], free[u][j])
        /\ \A i \in 1..Len(free[u]), b \in live[u] : Apart(u, free[u][i], b)
        /\ \A a, b \in live[u] : a # b => Apart(u, a, b)
    BY DEF IInv, ChunksDisjoint
  <2>1. CASE u # t
    BY <2>0, <2>1, <1>4
  <2>2. CASE u = t
    <3>1. \A b \in live[t] : Apart(t, c, b) /\ Apart(t, b, c)
      <4>1. \A b \in live[t] : Apart(t, c, b)
        BY <2>0, <2>2, <1>3
      <4> QED  BY <4>1 DEF Apart
    <3>2. \A i, j \in 1..Len(free'[t]) : i # j => Apart(t, free'[t][i], free'[t][j])
      BY <2>0, <2>2, <1>5
    <3>3. \A i \in 1..Len(free'[t]) : Apart(t, free'[t][i], c)
      BY <2>0, <2>2, <1>3, <1>5
    <3>4. \A i \in 1..Len(free'[t]), b \in live[t] : Apart(t, free'[t][i], b)
      BY <2>0, <2>2, <1>5
    <3> HIDE DEF c
    <3>5. \A i \in 1..Len(free'[t]), b \in live'[t] : Apart(t, free'[t][i], b)
      BY <1>4, <3>3, <3>4
    <3>6. \A a, b \in live'[t] : a # b => Apart(t, a, b)
      BY <1>4, <2>0, <2>2, <3>1
    <3> QED  BY <2>2, <3>2, <3>5, <3>6
  <2> QED  BY <2>1, <2>2
<1>9. Covered' /\ GrowthWorks'
  BY <1>2 DEF IInv, Covered, GrowthWorks
<1>10. Tight'
  BY <1>1, <1>2 DEF IInv, Tight
<1>11. Carving' /\ Called'
  BY <1>2 DEF Carving, Called, NoCall
<1> QED  BY <1>6, <1>7, <1>8, <1>9, <1>10, <1>11 DEF IInv

(* The heap's invariant.                                                   *)
THEOREM Invariance == Spec => []IInv
<1>1. Init => IInv
  BY InitIInv
<1>2. IInv /\ [Next]_vars => IInv'
  <2> SUFFICES ASSUME IInv, [Next]_vars PROVE IInv'
    OBVIOUS
  <2>1. CASE UNCHANGED vars
    <3>1. /\ end' = end /\ free' = free /\ pages' = pages
          /\ live' = live /\ call' = call /\ halted' = halted
      BY <2>1 DEF vars
    <3> QED
      BY <3>1 DEF IInv, TypeOK, Below, ChunksDisjoint, Apart, Covered,
                  Tight, Carving, Called, GrowthWorks
  <2>2. CASE \E sz \in ObjectSizes : mm_alloc(sz)
    BY <2>2, AllocIInv
  <2>3. CASE alloc_slab
    BY <2>3, GrowIInv
  <2>4. CASE GrowFails
    BY <2>4, HaltIInv DEF GrowFails, At
  <2>5. CASE Carve
    BY <2>5, CarveIInv
  <2>6. CASE Pop
    BY <2>6, PopIInv
  <2>7. CASE \E t \in SlabTypes : mm_free(t)
    <3>1. call = NoCall /\ Halt("free")
      BY <2>7 DEF mm_free, Idle
    <3>2. call.pc # "carve"
      BY <3>1 DEF NoCall
    <3> QED  BY <3>1, <3>2, HaltIInv
  <2> QED  BY <2>1, <2>2, <2>3, <2>4, <2>5, <2>6, <2>7 DEF Next
<1> QED  BY <1>1, <1>2, PTL DEF Spec

(* The variables keep their types.                                         *)
THEOREM HeapTypeCorrect == Spec => []TypeOK
<1>1. IInv => TypeOK
  BY DEF IInv
<1> QED  BY <1>1, Invariance, PTL

(* Chunks never overlap, whatever sizes callers ask for: what alloc_slab   *)
(* carves and mm_alloc returns has one owner.                              *)
THEOREM ChunksNeverOverlap == Spec => []ChunksDisjoint
<1>1. IInv => ChunksDisjoint
  BY DEF IInv
<1> QED  BY <1>1, Invariance, PTL

(* The bytes of every chunk are mapped, in every class, also across pages. *)
THEOREM ChunksAreBacked == Spec => []ChunksBacked
<1>1. IInv => ChunksBacked
  <2> SUFFICES ASSUME IInv PROVE ChunksBacked
    OBVIOUS
  <2>1. ASSUME NEW t \in SlabTypes, NEW a \in Nat, a + slab_size(t) <= end[t]
        PROVE  Backed(t, a)
    <3> SUFFICES ASSUME NEW p \in (a \div PAGE_SIZE)..((a + slab_size(t) - 1) \div PAGE_SIZE)
                 PROVE  p \in pages[t]
      BY DEF Backed
    <3>1. slab_size(t) \in Nat /\ 16 <= slab_size(t) /\ end[t] \in Nat
      BY ClassSizes DEF IInv, TypeOK
    <3>2. p \in Nat /\ p * PAGE_SIZE < end[t]
      BY <2>1, <3>1 DEF PAGE_SIZE
    <3> QED  BY <3>2 DEF IInv, Covered
  <2>2. \A t \in SlabTypes : free[t] \in Seq(Nat) /\ live[t] \subseteq Nat
    BY DEF IInv, TypeOK
  <2>3. \A t \in SlabTypes : \A i \in 1..Len(free[t]) : free[t][i] \in Nat
    BY <2>2
  <2>4. \A t \in SlabTypes : \A i \in 1..Len(free[t]) : Backed(t, free[t][i])
    BY <2>1, <2>3 DEF IInv, Below
  <2>5. \A t \in SlabTypes : \A a \in live[t] : Backed(t, a)
    BY <2>1, <2>2 DEF IInv, Below
  <2> QED  BY <2>4, <2>5 DEF ChunksBacked
<1> QED  BY <1>1, Invariance, PTL

(* Growing a class never overlaps the page before and always yields a      *)
(* chunk, so that the list head is never handed out.                       *)
THEOREM GrowthAlwaysWorks == Spec => []GrowthWorks
<1>1. IInv => GrowthWorks
  BY DEF IInv
<1> QED  BY <1>1, Invariance, PTL

-----------------------------------------------------------------------------
(* The balance of chunks.                                                  *)

(* NoChunkLost counts the chunks that callers hold, so there are finitely  *)
(* many of them.                                                           *)
LostInv == NoChunkLost /\ \A t \in SlabTypes : IsFiniteSet(live[t])

(* One chunk more is slab_size more.                                       *)
LEMMA OneMore ==
  ASSUME NEW n \in Nat, NEW s \in Nat
  PROVE  (n + 1) * s = n * s + s
OBVIOUS

(* A step that moves no chunk keeps the balance.                           *)
LEMMA BalanceKept ==
  ASSUME LostInv, UNCHANGED <<end, free, live>>
  PROVE  LostInv'
BY DEF LostInv, NoChunkLost

(* Carving adds one chunk and its bytes.                                   *)
LEMMA CarveBalance ==
  ASSUME IInv, LostInv, Carve
  PROVE  LostInv'
<1> DEFINE t == call.type
           s == slab_size(t)
           e == end[t]
           f == free[t]
           c == Cardinality(live[t])
<1>1. CASE UNCHANGED <<end, free, pages, live, halted>>
  BY <1>1, BalanceKept
<1>2. CASE /\ free' = [free EXCEPT ![t] = Append(@, end[t])]
           /\ end' = [end EXCEPT ![t] = end[t] + slab_size(t)]
           /\ UNCHANGED <<pages, live, call, halted>>
  <2>1. t \in SlabTypes /\ e \in Nat /\ f \in Seq(Nat) /\ s \in Nat
    BY ClassSizes DEF IInv, TypeOK
  <2>2. free'[t] = Append(f, e) /\ end'[t] = e + s /\ live' = live
    BY <1>2, <2>1 DEF IInv, TypeOK
  <2>3. \A u \in SlabTypes : u # t => free'[u] = free[u] /\ end'[u] = end[u]
    BY <1>2, <2>1 DEF IInv, TypeOK
  <2>4. c \in Nat /\ (Len(f) + c) * s = e
    BY <2>1, FS_CardinalityType DEF LostInv, NoChunkLost
  <2>5. (Len(free'[t]) + c) * s = end'[t]
    <3> HIDE DEF t, s, e, f, c
    <3>1. Len(Append(f, e)) = Len(f) + 1 /\ Len(f) \in Nat
      BY <2>1
    <3>2. Len(f) + 1 + c = (Len(f) + c) + 1 /\ Len(f) + c \in Nat
      BY <2>4, <3>1
    <3>3. ((Len(f) + c) + 1) * s = (Len(f) + c) * s + s
      BY <2>1, <3>2, OneMore
    <3> QED  BY <2>2, <2>4, <3>1, <3>2, <3>3
  <2> QED  BY <2>2, <2>3, <2>5 DEF LostInv, NoChunkLost
<1> QED  BY <1>1, <1>2 DEF Carve

(* A chunk that is handed out was not held before, so it is counted once.  *)
LEMMA PopBalance ==
  ASSUME IInv, LostInv, Pop
  PROVE  LostInv'
<1> DEFINE t == call.type
           f == free[t]
           n == Len(f)
           a == f[n]
           c == Cardinality(live[t])
<1>1. /\ t \in SlabTypes /\ f \in Seq(Nat) /\ n \in Nat /\ n > 0
      /\ n \in 1..Len(free[t]) /\ live[t] \subseteq Nat
  BY DEF Pop, At, IInv, TypeOK, Called
<1>2. /\ free' = [free EXCEPT ![t] = SubSeq(@, 1, n - 1)]
      /\ live' = [live EXCEPT ![t] = @ \cup {a}]
      /\ end' = end
  BY <1>1 DEF Pop
<1>3. /\ free'[t] = SubSeq(f, 1, n - 1) /\ live'[t] = live[t] \cup {a}
      /\ \A u \in SlabTypes : u # t => free'[u] = free[u] /\ live'[u] = live[u]
  BY <1>1, <1>2 DEF IInv, TypeOK
<1>4. Len(free'[t]) = n - 1
  <2>1. Len(SubSeq(f, 1, n - 1)) = n - 1
    BY <1>1
  <2> QED  BY <1>3, <2>1
<1>5. a \notin live[t]
  <2>1. \A b \in live[t] : Apart(t, a, b)
    BY <1>1 DEF IInv, ChunksDisjoint
  <2>2. slab_size(t) \in Nat /\ 16 <= slab_size(t) /\ a \in Nat
    BY <1>1, ClassSizes
  <2> HIDE DEF a
  <2> QED  BY <2>1, <2>2 DEF Apart
<1>6. IsFiniteSet(live[t]) /\ c \in Nat
  BY <1>1, FS_CardinalityType DEF LostInv
<1>7. IsFiniteSet(live'[t]) /\ Cardinality(live'[t]) = c + 1
  <2> HIDE DEF a
  <2> QED  BY <1>3, <1>5, <1>6, FS_AddElement
<1>8. Len(free'[t]) + Cardinality(live'[t]) = n + c
  <2> HIDE DEF n, c
  <2> QED  BY <1>1, <1>4, <1>6, <1>7
<1> QED  BY <1>2, <1>3, <1>7, <1>8 DEF LostInv, NoChunkLost

(* Whatever callers ask for, every chunk that alloc_slab has carved is on  *)
(* its free list or in the hands of a caller, in every step of the carving *)
(* loop too.                                                               *)
THEOREM NoChunkIsLost == Spec => []NoChunkLost
<1>1. Init => LostInv
  <2> SUFFICES ASSUME Init PROVE LostInv
    OBVIOUS
  <2>1. \A t \in SlabTypes : free[t] = <<>> /\ live[t] = {} /\ end[t] = 0
    BY DEF Init
  <2>2. IsFiniteSet({}) /\ Cardinality({}) = 0 /\ Len(<<>>) = 0
    BY FS_EmptySet
  <2>3. \A t \in SlabTypes : (0 + 0) * slab_size(t) = 0
    BY ClassSizes
  <2> QED  BY <2>1, <2>2, <2>3 DEF LostInv, NoChunkLost
<1>2. IInv /\ LostInv /\ [Next]_vars => LostInv'
  <2> SUFFICES ASSUME IInv, LostInv, [Next]_vars PROVE LostInv'
    OBVIOUS
  <2>1. CASE UNCHANGED vars
    BY <2>1, BalanceKept DEF vars
  <2>2. CASE \E sz \in ObjectSizes : mm_alloc(sz)
    BY <2>2, BalanceKept DEF mm_alloc, Halt
  <2>3. CASE alloc_slab
    BY <2>3, BalanceKept DEF alloc_slab, Halt
  <2>4. CASE GrowFails
    BY <2>4, BalanceKept DEF GrowFails, Halt
  <2>5. CASE Carve
    BY <2>5, CarveBalance
  <2>6. CASE Pop
    BY <2>6, PopBalance
  <2>7. CASE \E t \in SlabTypes : mm_free(t)
    BY <2>7, BalanceKept DEF mm_free, Halt
  <2> QED  BY <2>1, <2>2, <2>3, <2>4, <2>5, <2>6, <2>7 DEF Next
<1>3. LostInv => NoChunkLost
  BY DEF LostInv
<1> QED  BY <1>1, <1>2, <1>3, Invariance, PTL DEF Spec
=============================================================================
