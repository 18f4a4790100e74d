------------------------------ MODULE SlabHeap ------------------------------
(***************************************************************************)
(* The kernel heap, src/mm/mm.c.  Every size class has a region of its own *)
(* 2^36 bytes apart; addresses are offsets into the region of a class.  A  *)
(* class that has run out of chunks grows by one page, which it carves up. *)
(* Reserving virtual pages and getting physical ones is the business of    *)
(* vm.c and pm.c: here a strict reservation of a page that is already      *)
(* mapped is refused, any other may succeed or may stop the kernel.        *)
(***************************************************************************)
EXTENDS SlabSize, Sequences, FiniteSets

CONSTANTS
  ObjectSizes,   \* the sizes that callers ask for
  MaxPages       \* bound on the pages of one class

ASSUME HeapAssumption == ObjectSizes \subseteq Nat /\ MaxPages \in Nat

VARIABLES
  end,      \* end[t]: slabs[t].end
  free,     \* free[t]: slabs[t].freelist, the chunk that is next last
  pages,    \* pages[t]: the pages of the region of t that are mapped
  live,     \* live[t]: the chunks of t that callers hold
  call,     \* the call of mm_alloc in progress
  halted    \* the assertion that stopped the kernel, or "no"
vars == <<end, free, pages, live, call, halted>>

(* LAYOUT_HEAP_START >> 36 and SLABTYPE of an address in the region of t.  *)
HEAP_REGION == 268433408
SLABTYPE(t) == (HEAP_REGION + t) % 65536

(* The number of the first page that starts at offset a or above it.       *)
PAGEALIGNUP(a) == (a + PAGE_SIZE - 1) \div PAGE_SIZE

NoCall == [pc |-> "none", sz |-> 0, type |-> 0, top |-> 0]
Idle == call = NoCall /\ halted = "no"
At(pc) == call.pc = pc /\ halted = "no"

Init ==
  /\ end = [t \in SlabTypes |-> 0]
  /\ free = [t \in SlabTypes |-> <<>>]
  /\ pages = [t \in SlabTypes |-> {}]
  /\ live = [t \in SlabTypes |-> {}]
  /\ call = NoCall
  /\ halted = "no"

Halt(why) ==
  /\ halted' = why
  /\ call' = NoCall
  /\ UNCHANGED <<end, free, pages, live>>

(* The entry of mm_alloc: two assertions, and the choice of the class.     *)
mm_alloc_Unchecked(sz) ==
  /\ Idle
  /\ sz < slab_size(SLAB_MAX - 1)
  /\ call' = [pc |-> "grow", sz |-> sz, type |-> get_slab_from_size(sz), top |-> 0]
  /\ UNCHANGED <<end, free, pages, live, halted>>

mm_alloc(sz) ==
  /\ Idle
  /\ LET type == get_slab_from_size(sz)
     IN  \/ sz >= slab_size(SLAB_MAX - 1) /\ Halt("size")
         \/ sz < slab_size(SLAB_MAX - 1) /\ type >= SLAB_MAX /\ Halt("class")
         \/ /\ sz < slab_size(SLAB_MAX - 1)
            /\ type < SLAB_MAX
            /\ call' = [pc |-> IF free[type] = <<>> THEN "grow" ELSE "pop",
                        sz |-> sz, type |-> type, top |-> 0]
            /\ UNCHANGED <<end, free, pages, live, halted>>

(* alloc_slab maps the page after the last one, strictly.                  *)
alloc_slab_SamePage ==
  LET t == call.type
      page == end[t] \div PAGE_SIZE
  IN  /\ At("grow")
      /\ page < MaxPages
      /\ IF page \in pages[t] THEN Halt("overlap")
         ELSE /\ pages' = [pages EXCEPT ![t] = @ \cup {page}]
              /\ call' = [pc |-> "carve", sz |-> call.sz, type |-> t,
                          top |-> (page + 1) * PAGE_SIZE]
              /\ UNCHANGED <<end, free, live, halted>>

alloc_slab ==
  LET t == call.type
      page == PAGEALIGNUP(end[t])
  IN  /\ At("grow")
      /\ page < MaxPages
      /\ IF page \in pages[t] THEN Halt("overlap")
         ELSE /\ pages' = [pages EXCEPT ![t] = @ \cup {page}]
              /\ call' = [pc |-> "carve", sz |-> call.sz, type |-> t,
                          top |-> (page + 1) * PAGE_SIZE]
              /\ UNCHANGED <<end, free, live, halted>>

(* No page: mm_map answers NULL, or stops the kernel itself.               *)
GrowFails == At("grow") /\ Halt("memory")

(* One turn of the carving loop, or its end.                               *)
Carve_Inclusive ==
  LET t == call.type
      next == end[t] + slab_size(t)
  IN  /\ At("carve")
      /\ \/ /\ end[t] < call.top
            /\ free' = [free EXCEPT ![t] = Append(@, end[t])]
            /\ end' = [end EXCEPT ![t] = next]
            /\ UNCHANGED <<pages, live, call, halted>>
         \/ /\ end[t] >= call.top
            /\ call' = [call EXCEPT !.pc = "pop"]
            /\ UNCHANGED <<end, free, pages, live, halted>>

Carve_KeepEnd ==
  LET t == call.type
      next == end[t] + slab_size(t)
  IN  /\ At("carve")
      /\ \/ /\ next < call.top
            /\ free' = [free EXCEPT ![t] = Append(@, end[t])]
            /\ end' = [end EXCEPT ![t] = next - 8]
            /\ UNCHANGED <<pages, live, call, halted>>
         \/ /\ next >= call.top
            /\ call' = [call EXCEPT !.pc = "pop"]
            /\ UNCHANGED <<end, free, pages, live, halted>>

Carve_Stuck ==
  LET t == call.type
      next == end[t] + slab_size(t)
  IN  /\ At("carve")
      /\ next < call.top
      /\ free' = [free EXCEPT ![t] = Append(@, end[t])]
      /\ end' = [end EXCEPT ![t] = next]
      /\ UNCHANGED <<pages, live, call, halted>>

Carve ==
  LET t == call.type
      next == end[t] + slab_size(t)
  IN  /\ At("carve")
      /\ \/ /\ next < call.top
            /\ free' = [free EXCEPT ![t] = Append(@, end[t])]
            /\ end' = [end EXCEPT ![t] = next]
            /\ UNCHANGED <<pages, live, call, halted>>
         \/ /\ next >= call.top
            /\ call' = [pc |-> "pop", sz |-> call.sz, type |-> t, top |-> 0]
            /\ UNCHANGED <<end, free, pages, live, halted>>

(* The end of mm_alloc: the first element of the list is removed and       *)
(* returned, even if it is the head of an empty list.                      *)
Pop_Keep ==
  LET t == call.type
      n == Len(free[t])
  IN  /\ At("pop")
      /\ n > 0
      /\ live' = [live EXCEPT ![t] = @ \cup {free[t][n]}]
      /\ call' = NoCall
      /\ UNCHANGED <<end, free, pages, halted>>

Pop ==
  LET t == call.type
      n == Len(free[t])
  IN  /\ At("pop")
      /\ IF n = 0 THEN Halt("head")
         ELSE /\ free' = [free EXCEPT ![t] = SubSeq(@, 1, n - 1)]
              /\ live' = [live EXCEPT ![t] = @ \cup {free[t][n]}]
              /\ call' = NoCall
              /\ UNCHANGED <<end, pages, halted>>

(* mm_free of a chunk.  get_slab_from_address takes the class from the     *)
(* bits 36 to 51 of the address, where every heap address has 0xf800 plus  *)
(* its class, so its first assertion stops the kernel; what follows it is  *)
(* never executed.                                                         *)
mm_free(t) ==
  /\ Idle
  /\ live[t] # {}
  /\ SLABTYPE(t) >= SLAB_MAX
  /\ Halt("free")

Next ==
  \/ \E sz \in ObjectSizes : mm_alloc(sz)
  \/ alloc_slab
  \/ GrowFails
  \/ Carve
  \/ Pop
  \/ \E t \in SlabTypes : mm_free(t)

Spec == Init /\ [][Next]_vars

(* A call that was entered goes on: nothing preempts the kernel for good.  *)
FairSpec == Spec /\ WF_vars(alloc_slab \/ GrowFails \/ Carve \/ Pop)

-----------------------------------------------------------------------------
(* The values of the variables.                                            *)
TypeOK ==
  /\ end \in [SlabTypes -> Nat]
  /\ free \in [SlabTypes -> Seq(Nat)]
  /\ pages \in [SlabTypes -> SUBSET Nat]
  /\ live \in [SlabTypes -> SUBSET Nat]
  /\ call \in [pc : {"none", "grow", "carve", "pop"}, sz : Nat, type : SlabTypes, top : Nat]
  /\ halted \in {"no", "size", "class", "memory", "overlap", "head", "free"}

(* Two chunks of a class never share a byte, be they on the free list or   *)
(* in the hands of callers, and no chunk is both or is listed twice: what  *)
(* alloc_slab carves and mm_alloc pops belongs to one owner.               *)
Apart(t, a, b) == a + slab_size(t) <= b \/ b + slab_size(t) <= a
ChunksDisjoint ==
  \A t \in SlabTypes :
    /\ \A i, j \in 1..Len(free[t]) : i # j => Apart(t, free[t][i], free[t][j])
    /\ \A i \in 1..Len(free[t]), b \in live[t] : Apart(t, free[t][i], b)
    /\ \A a, b \in live[t] : a # b => Apart(t, a, b)

(* Every byte of every chunk lies in a page that alloc_slab had mapped,    *)
(* also when the chunk crosses the end of the page before.                 *)
Backed(t, a) == \A p \in (a \div PAGE_SIZE)..((a + slab_size(t) - 1) \div PAGE_SIZE) : p \in pages[t]
ChunksBacked ==
  \A t \in SlabTypes :
    /\ \A i \in 1..Len(free[t]) : Backed(t, free[t][i])
    /\ \A a \in live[t] : Backed(t, a)

(* No chunk is lost: whenever no loop is under way, all that lies below    *)
(* the end of a slab is on its free list or held by a caller.              *)
NoChunkLost ==
  \A t \in SlabTypes :
    (Len(free[t]) + Cardinality(live[t])) * slab_size(t) = end[t]

(* Growing always brings at least one chunk and always a new page: neither *)
(* the head of an empty list is handed out (mm.c:133) nor does the strict  *)
(* reservation overlap the page before (mm.c:114).                         *)
GrowthWorks == halted \notin {"overlap", "head"}

(* Every call of mm_alloc comes to an end: a chunk, or a stopped kernel.   *)
AllocReturns == (call.pc # "none") ~> (call.pc = "none")

(* mm.c:93-95: the class that was chosen fits the object.                  *)
ObjectFits == call.pc = "pop" => slab_size(call.type) >= call.sz
=============================================================================
