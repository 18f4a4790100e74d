------------------------------ MODULE VirtMem ------------------------------
(***************************************************************************)
(* The kernel's page tables, src/arch/x86_64/mm/vm.c, with the translation *)
(* cache of the processor.  Memory is counted in pages: a virtual page is  *)
(* the number its indices form, a frame is a physical page.  The loader    *)
(* left one chain of tables, one for each level, whose last one maps the   *)
(* kernel image and what lies behind it; create_pt never gets to add       *)
(* another one, see below. Nobody cleared that last table (next_cleared_pt *)
(* gives back the page behind the one it clears, paging.S:85), so that its *)
(* other entries are whatever the memory held. The entries that lead to    *)
(* the same tables from low addresses, and to the window's, are out of the *)
(* reach of the calls modelled here. Every function runs to its end before *)
(* another one starts, so that one call is one step; the processor may     *)
(* cache a translation between any two.                                    *)
(***************************************************************************)
EXTENDS Integers, FiniteSets

CONSTANTS
  LEVELS,          \* PT_NUM_LEVELS, 4 in the code
  PT_LENGTH,       \* entries of a table, 512 in the code
  FRAMES,          \* frames an entry can name, 2^40 in the code
  KernelPath,      \* the entry of every table but the last on the way to the kernel
  FirstPage,       \* the entry of the last table that maps the first page of the image
  EntryPages, TextPages, RodataPages, DataPages,   \* the parts of the image, in order
  BootPages,       \* pages that the loader mapped behind it: bootinfo, tables
  Leftovers,       \* what memory that nobody cleared may be read as, as a table
  PAGE_SIZE,       \* bytes of a page
  MapFrames,       \* frames that callers map
  HeapFrames,      \* frames that pm_request_page hands out
  ByteSizes,       \* how many bytes callers map, unmap or remap
  Hints,           \* virtual pages where callers map or look
  Released,        \* virtual pages that callers unmap
  FlagSets,        \* flags that callers pass
  Touched,         \* virtual pages that the processor uses
  MaxCached,       \* bound on the translations in the cache
  MaxMapped        \* bound on the entries of the last table that are in use

Last == LEVELS - 1
Levels == 0..Last
Index == 0..(PT_LENGTH - 1)

ASSUME PathAssumption ==
  /\ LEVELS \in Nat \ {0, 1} /\ PT_LENGTH \in Nat \ {0}
  /\ KernelPath \in [0..(Last - 1) -> Index]
  /\ KernelPath[Last - 1] + 1 \in Index

ASSUME ImageAssumption ==
  /\ {FirstPage, EntryPages, TextPages, RodataPages, DataPages, BootPages} \subseteq Nat
  /\ EntryPages + TextPages + RodataPages + DataPages \in 1..(PT_LENGTH - FirstPage - BootPages)

(* Callers map and release at least one byte, and nothing for user space.  *)
ASSUME CallerAssumption ==
  /\ FRAMES \in Nat \ {0} /\ PT_LENGTH <= FRAMES /\ PAGE_SIZE \in Nat \ {0}
  /\ MaxMapped \in Nat /\ MaxCached \in Nat
  /\ MapFrames \subseteq 0..(FRAMES - MaxMapped)
  /\ HeapFrames \subseteq 0..(FRAMES - 1)
  /\ ByteSizes \subseteq Nat \ {0}
  /\ \A flags \in FlagSets : "USER" \notin flags

VARIABLES
  tables,   \* tables[l]: the entries of the table of level l
  leftover, \* the entries of the last table in use that nobody made
  tlb,      \* the cached translations, a function of some virtual pages
  boot,     \* "image" before kernel_remap, "run" after it
  backing,  \* the pages that mm_map has reserved and not yet backed
  last,     \* the last call and what it returned
  halted    \* "no", or what stopped the kernel
vars == <<tables, leftover, tlb, boot, backing, last, halted>>

Entry == [present : BOOLEAN, writable : BOOLEAN, user : BOOLEAN, no_execute : BOOLEAN,
          frame : 0..(FRAMES - 1)]
Tables == [Levels -> [Index -> Entry]]
ASSUME LeftoversAssumption == Leftovers \subseteq [Index -> Entry]

(* One index for each level.  A loop can leave one behind its table's end. *)
Paths == [Levels -> 0..PT_LENGTH]

get_pages_per_entry[l \in Levels] ==
  IF l = Last THEN 1 ELSE PT_LENGTH * get_pages_per_entry[l + 1]

(* union vaddr: the indices of a page, and the page of some indices.  An   *)
(* index can have run over the end of its table; 9 bits are kept.          *)
Indices(v) == [l \in Levels |-> (v \div get_pages_per_entry[l]) % PT_LENGTH]
Vaddr(index) ==
  LET sum[l \in Levels] ==
        (IF l = 0 THEN 0 ELSE sum[l - 1] * PT_LENGTH) + (index[l] % PT_LENGTH)
  IN  sum[Last]

NoEntry == [present |-> FALSE, writable |-> FALSE, user |-> FALSE,
            no_execute |-> FALSE, frame |-> 0]
set_pte(frame, flags) ==
  [present |-> TRUE, writable |-> "WRITABLE" \in flags, user |-> "USER" \in flags,
   no_execute |-> "EXECUTABLE" \notin flags, frame |-> frame % FRAMES]

(* Non-leaf entries take the permissions of the mapping made last.         *)
update_pt_pte_flags(entry, flags) ==
  [entry EXCEPT !.writable = "WRITABLE" \in flags, !.user = "USER" \in flags,
                !.no_execute = FALSE]

pte_flags_match(e, flags) ==
  /\ e.writable /\ "WRITABLE" \in flags
  /\ e.user /\ "USER" \in flags
  /\ e.no_execute /\ "EXECUTABLE" \notin flags

-----------------------------------------------------------------------------
(* find_space: from the given indices on, a run of entries with room for   *)
(* so many pages.  The answer is a status with the indices as the search   *)
(* left them.                                                              *)
Found(res, index) == [res |-> res, index |-> index]

(* The second loop: entries from i on that are free, or already as wanted. *)
CountFree(t, l, i, req) ==
  LET need == (req.pages + get_pages_per_entry[l] - 1) \div get_pages_per_entry[l]
      usable(k) == \/ ~t[l][i + k].present
                   \/ /\ t[l][i + k].frame = req.frame + k
                      /\ pte_flags_match(t[l][i + k], req.flags)
      runs == {n \in 0..need : i + n <= PT_LENGTH /\ \A k \in 0..(n - 1) : usable(k)}
  IN  CHOOSE n \in runs : \A m \in runs : m <= n

(* The first loop passes entries in use.  Its retry sets *index to ++i and *)
(* then falls into the ++i of the loop, so that i runs one ahead of        *)
(* *index; a table below is looked up by *index, and what comes back full  *)
(* leaves its own index behind its end.  A run that is too short ends a    *)
(* strict request; any other starts anew at the entry that ended the run,  *)
(* without end when that is the entry it began with.                       *)
Searches == [level : Levels, i : 0..(PT_LENGTH + 1), index : Paths]
find_space(t, req) ==
  LET scan[w \in Searches] ==
        LET l == w.level
            e == t[l][w.i]
            below == scan[[level |-> l + 1, i |-> w.index[l + 1], index |-> w.index]]
            n == CountFree(t, l, w.i, req)
            from(i, index, own) == scan[[level |-> l, i |-> i, index |-> [index EXCEPT ![l] = own]]]
        IN  CASE w.i >= PT_LENGTH -> Found("EFULL", w.index)
              [] w.i < PT_LENGTH /\ e.present /\ l = Last /\ "STRICT" \in req.flags ->
                   Found("EOVERLAP", w.index)
              [] /\ w.i < PT_LENGTH /\ e.present /\ l = Last /\ "STRICT" \notin req.flags
                 /\ ~pte_flags_match(e, req.flags) ->
                   from(w.i + 2, w.index, w.i + 1)
              [] w.i < PT_LENGTH /\ e.present /\ l # Last /\ ~t[l][w.index[l]].present ->
                   Found("wild", w.index)
              [] w.i < PT_LENGTH /\ e.present /\ l # Last /\ t[l][w.index[l]].present ->
                   IF below.res = "EFULL" THEN from(w.i + 2, below.index, w.i + 1) ELSE below
              [] OTHER ->
                   IF n * get_pages_per_entry[l] >= req.pages THEN Found("found", w.index)
                   ELSE IF "STRICT" \in req.flags THEN Found("EOVERLAP", w.index)
                   ELSE IF n = 0 THEN Found("forever", w.index)
                   ELSE from(w.i + n, w.index, w.i + n)
  IN  scan

-----------------------------------------------------------------------------
(* recurse_map fills the entries from the indices on.  A missing table has *)
(* to be created: create_pt clears it through the temporary mapping with   *)
(* mem_set, which writes the last seven eighths of its count again behind  *)
(* the page; the next temporary page is not mapped, so the kernel faults.  *)
MapWalks == [level : Levels, i : 0..PT_LENGTH, tables : Tables, frame : Int, pages : Nat,
             fault : BOOLEAN]
recurse_map(index, flags) ==
  LET fill[w \in MapWalks] ==
        LET l == w.level
            e == w.tables[l][w.i]
            next(x) == fill[[x EXCEPT !.level = l, !.i = w.i + 1]]
            flagged == [w EXCEPT !.tables[l][w.i] = update_pt_pte_flags(e, flags)]
        IN  IF w.i = PT_LENGTH \/ w.pages = 0 \/ w.fault THEN w
            ELSE IF l = Last
            THEN next(IF e.present THEN w
                      ELSE [w EXCEPT !.tables[l][w.i] = set_pte(w.frame, flags),
                                     !.frame = @ + 1, !.pages = @ - 1])
            ELSE IF e.present
            THEN next(fill[[flagged EXCEPT !.level = l + 1, !.i = index[l + 1]]])
            ELSE [w EXCEPT !.fault = TRUE]
  IN  fill

(* recurse_find: the frame of a page, or -1 (ENOMAP).                      *)
ENOMAP == -1
recurse_find(t, v) ==
  LET index == Indices(v)
  IN  IF \A l \in Levels : t[l][index[l]].present THEN t[Last][index[Last]].frame ELSE ENOMAP

(* recurse_flag: the flags of mapped pages, up to the first one missing.   *)
FlagWalks == [level : Levels, i : 0..PT_LENGTH, tables : Tables, pages : Nat,
              missing : BOOLEAN]
recurse_flag_Parent(index, flags) ==
  LET mark[w \in FlagWalks] ==
        LET l == w.level
            e == w.tables[l][w.i]
            next(x) == mark[[x EXCEPT !.level = l, !.i = w.i + 1]]
        IN  IF w.i = PT_LENGTH \/ w.pages = 0 \/ w.missing THEN w
            ELSE IF ~e.present THEN [w EXCEPT !.missing = TRUE]
            ELSE IF l = Last
            THEN next([w EXCEPT !.tables[l][w.i] = set_pte(0, flags), !.pages = @ - 1])
            ELSE next(mark[[w EXCEPT !.level = l + 1, !.i = index[l + 1]]])
  IN  mark

recurse_flag(index, flags) ==
  LET mark[w \in FlagWalks] ==
        LET l == w.level
            e == w.tables[l][w.i]
            next(x) == mark[[x EXCEPT !.level = l, !.i = w.i + 1]]
            flagged == [w EXCEPT !.tables[l][w.i] = update_pt_pte_flags(e, flags)]
        IN  IF w.i = PT_LENGTH \/ w.pages = 0 \/ w.missing THEN w
            ELSE IF ~e.present THEN [w EXCEPT !.missing = TRUE]
            ELSE IF l = Last
            THEN next([w EXCEPT !.tables[l][w.i] = set_pte(e.frame, flags), !.pages = @ - 1])
            ELSE next(mark[[flagged EXCEPT !.level = l + 1, !.i = index[l + 1]]])
  IN  mark

(* recurse_unmap: every level counts on its own towards the same number of *)
(* pages, and an index stays where the level below left it.  Each cleared  *)
(* leaf entry is invalidated at the address that is counted along.         *)
UnmapWalks == [level : Levels, n : Nat, tables : Tables, index : Paths, cursor : Nat,
               gone : SUBSET Nat]
recurse_unmap(pages) ==
  LET clear[w \in UnmapWalks] ==
        LET l == w.level
            i == w.index[l]
            below == IF l = Last
                     THEN [w EXCEPT !.tables[l][i] = NoEntry, !.n = 1, !.cursor = @ + 1,
                                    !.gone = @ \cup {w.cursor}]
                     ELSE IF w.tables[l][i].present
                     THEN clear[[w EXCEPT !.level = l + 1, !.n = 0]]
                     ELSE [w EXCEPT !.n = get_pages_per_entry[l],
                                    !.cursor = @ + get_pages_per_entry[l]]
            sum == [below EXCEPT !.level = l, !.n = w.n + @]
        IN  IF i = PT_LENGTH \/ w.n >= pages THEN w
            ELSE IF sum.n >= pages THEN sum
            ELSE clear[[sum EXCEPT !.index[l] = i + 1]]
  IN  clear
-----------------------------------------------------------------------------
(* The machine that kernel_main finds: setup_paging and map_higher_half    *)
(* made one path of tables, all writable and executable, to a last table   *)
(* with the image, the bootinfo and the tables themselves.  Only the low   *)
(* halves of these entries were written; the upper ones are taken to be    *)
(* zero, since otherwise the kernel is not where it is linked.             *)
ImagePages == EntryPages + TextPages + RodataPages + DataPages
BootMapped == FirstPage..(FirstPage + ImagePages + BootPages - 1)
KernelStart == Vaddr([l \in Levels |-> IF l = Last THEN 0 ELSE KernelPath[l]])
ImageStart == KernelStart + FirstPage
PagesFrom(v, n) == v..(v + n - 1)
DataStart == ImageStart + EntryPages + TextPages + RodataPages

(* The end of the image lies inside its last page: what a zero hint means, *)
(* rounded down by vm_map_bytes.                                           *)
DefaultHint == ImageStart + ImagePages - 1

Init ==
  /\ \E stale \in Leftovers :
       /\ tables = [l \in Levels |-> [i \in Index |->
            IF l = Last
            THEN IF i \in BootMapped THEN set_pte(i, {"WRITABLE", "EXECUTABLE"}) ELSE stale[i]
            ELSE IF i = KernelPath[l]
                 THEN set_pte(0, {"WRITABLE", "EXECUTABLE"}) ELSE NoEntry]]
       /\ leftover = {i \in Index \ BootMapped : stale[i].present}
  /\ tlb = <<>>
  /\ boot = "image"
  /\ backing = {}
  /\ last = [op |-> "none"]
  /\ halted = "no"

Idle == boot = "run" /\ backing = {} /\ halted = "no"
LastTable == tables[Last]
Mapped == {i \in Index : LastTable[i].present}

(* vm_flag_pages on the given tables.                                      *)
vm_flag_pages(t, v, pages, flags) ==
  LET index == Indices(v)
  IN  recurse_flag(index, flags)[[level |-> 0, i |-> index[0], tables |-> t, pages |-> pages,
                                  missing |-> FALSE]]

(* kernel_remap, four calls of which each is asserted to succeed.          *)
kernel_remap ==
  LET entry == vm_flag_pages(tables, ImageStart, EntryPages, {"WRITABLE"})
      text == vm_flag_pages(entry.tables, ImageStart + EntryPages, TextPages, {"EXECUTABLE"})
      rodata == vm_flag_pages(text.tables, ImageStart + EntryPages + TextPages, RodataPages, {})
      data == vm_flag_pages(rodata.tables, DataStart, DataPages, {"WRITABLE"})
  IN  /\ boot = "image"
      /\ halted = "no"
      /\ boot' = "run"
      /\ halted' = IF entry.missing \/ text.missing \/ rodata.missing \/ data.missing
                   THEN "remap" ELSE "no"
      /\ tables' = data.tables
      /\ UNCHANGED <<leftover, tlb, backing, last>>

(* vm_map_pages: what it does to the tables and what it returns.           *)
Stop(t, why) == [tables |-> t, res |-> why, v |-> 0]
vm_map_pages(t, frame, pages, v, flags) ==
  LET index == Indices(v)
      f == find_space(t, [frame |-> frame, pages |-> pages, flags |-> flags])
             [[level |-> 0, i |-> index[0], index |-> index]]
      m == recurse_map(f.index, flags)
             [[level |-> 0, i |-> f.index[0], tables |-> t, frame |-> frame, pages |-> pages,
               fault |-> FALSE]]
  IN  CASE f.res \in {"wild", "forever"} -> Stop(t, f.res)
        [] f.res \in {"EFULL", "EOVERLAP"} -> [tables |-> t, res |-> f.res, v |-> v]
        [] f.res = "found" /\ m.fault -> Stop(t, "fault")
        [] OTHER -> [tables |-> m.tables, res |-> "SUCCESS", v |-> Vaddr(f.index)]

(* vmk_map_bytes, as acpi.c and initfs.c call it with a hint of zero, and  *)
(* with it vmk_map_pages: bytes from an offset into a frame on.            *)
PagesOf(offset, bytes) == (offset + bytes + PAGE_SIZE - 1) \div PAGE_SIZE
vmk_map_bytes(frame, offset, bytes, hint, flags) ==
  LET pages == PagesOf(offset, bytes)
      m == vm_map_pages(tables, frame, pages, hint, flags)
  IN  /\ Idle
      /\ Cardinality(Mapped) + pages <= MaxMapped
      /\ tables' = m.tables
      /\ halted' = IF m.res \in {"wild", "forever", "fault"} THEN m.res ELSE "no"
      /\ last' = [op |-> "map", res |-> m.res, hint |-> hint, v |-> m.v,
                  frame |-> frame, pages |-> pages, flags |-> flags]
      /\ UNCHANGED <<leftover, tlb, boot, backing>>

(* mm_map reserves pages: it maps them to the frames below the end of the  *)
(* physical address space, and then gives them real ones one by one.       *)
RESERVED(pages) == FRAMES - pages
mm_map(pages, hint) ==
  LET flags == {"WRITABLE", "STRICT"}
      m == vm_map_pages(tables, RESERVED(pages), pages, hint, flags)
  IN  /\ Idle
      /\ Cardinality(Mapped) + pages <= MaxMapped
      /\ tables' = m.tables
      /\ halted' = IF m.res \in {"wild", "forever", "fault"} THEN m.res ELSE "no"
      /\ backing' = IF m.res = "SUCCESS" THEN PagesFrom(m.v, pages) ELSE {}
      /\ last' = [op |-> "reserve", res |-> m.res, hint |-> hint, v |-> m.v,
                  frame |-> RESERVED(pages), pages |-> pages, flags |-> flags]
      /\ UNCHANGED <<leftover, tlb, boot>>

(* One turn of its loop: recurse_set_backing replaces the frame and leaves *)
(* the flags and the translation cache alone.  The page manager gives a    *)
(* page that none of the kernel's own entries has.                         *)
Used == {LastTable[i].frame : i \in Mapped \ leftover}
vmk_set_backing(v, frame) == [tables EXCEPT ![Last][Indices(v)[Last]].frame = frame]

SetBacking_Skip ==
  LET v == CHOOSE x \in backing : \A y \in backing : x <= y
  IN  /\ backing # {}
      /\ halted = "no"
      /\ tables' = tables
      /\ halted' = "no"
      /\ backing' = backing \ {v}
      /\ UNCHANGED <<leftover, tlb, boot, last>>

SetBacking ==
  LET v == CHOOSE x \in backing : \A y \in backing : x <= y
      fresh == HeapFrames \ Used
  IN  /\ backing # {}
      /\ halted = "no"
      /\ IF fresh = {} \/ recurse_find(tables, v) = ENOMAP
         THEN halted' = "memory" /\ UNCHANGED <<tables, backing>>
         ELSE /\ tables' = vmk_set_backing(v, CHOOSE f \in fresh : \A g \in fresh : f <= g)
              /\ backing' = backing \ {v}
              /\ UNCHANGED halted
      /\ UNCHANGED <<leftover, tlb, boot, last>>

(* vmk_unmap_bytes, as initfs_release calls it.                            *)
vmk_unmap_bytes_Stale(v, offset, bytes) ==
  LET pages == PagesOf(offset, bytes)
      u == recurse_unmap(pages)[[level |-> 0, n |-> 0, tables |-> tables, index |-> Indices(v),
                                 cursor |-> v, gone |-> {}]]
  IN  /\ Idle
      /\ tables' = u.tables
      /\ leftover' = {i \in leftover : u.tables[Last][i].present}
      /\ tlb' = [w \in DOMAIN tlb \ {v} |-> tlb[w]]
      /\ last' = [op |-> "unmap", v |-> v, pages |-> pages]
      /\ UNCHANGED <<boot, backing, halted>>

vmk_unmap_bytes(v, offset, bytes) ==
  LET pages == PagesOf(offset, bytes)
      u == recurse_unmap(pages)[[level |-> 0, n |-> 0, tables |-> tables, index |-> Indices(v),
                                 cursor |-> v, gone |-> {}]]
  IN  /\ Idle
      /\ tables' = u.tables
      /\ leftover' = {i \in leftover : u.tables[Last][i].present}
      /\ tlb' = [w \in DOMAIN tlb \ u.gone |-> tlb[w]]
      /\ last' = [op |-> "unmap", v |-> v, pages |-> pages]
      /\ UNCHANGED <<boot, backing, halted>>

vmk_flag_pages(v, pages, flags) ==
  LET f == vm_flag_pages(tables, v, pages, flags)
  IN  /\ Idle
      /\ tables' = f.tables
      /\ last' = [op |-> "flag", v |-> v, pages |-> pages, flags |-> flags,
                  res |-> IF f.missing THEN "ENOMAP" ELSE "SUCCESS"]
      /\ UNCHANGED <<leftover, tlb, boot, backing, halted>>

(* The processor uses a page, or looks ahead at it: it walks the tables    *)
(* and caches what the whole path allows.                                  *)
Translation(t, v) ==
  LET index == Indices(v)
  IN  [frame |-> t[Last][index[Last]].frame,
       writable |-> \A l \in Levels : t[l][index[l]].writable,
       no_execute |-> \E l \in Levels : t[l][index[l]].no_execute]
Touch(v) ==
  /\ halted = "no"
  /\ recurse_find(tables, v) # ENOMAP
  /\ Cardinality(DOMAIN tlb \cup {v}) <= MaxCached
  /\ tlb' = [w \in DOMAIN tlb \cup {v} |-> IF w = v THEN Translation(tables, v) ELSE tlb[w]]
  /\ UNCHANGED <<tables, leftover, boot, backing, last, halted>>

KernelPages == PagesFrom(KernelStart, PT_LENGTH)

(* Addresses are canonical; what is released lies in or behind the kernel. *)
AddressEnd == PT_LENGTH * get_pages_per_entry[0]
ASSUME AddressAssumption ==
  /\ Hints \subseteq 0..(AddressEnd - 1)
  /\ Released \subseteq KernelStart..(AddressEnd - 1)
  /\ Touched \subseteq 0..(AddressEnd - 1)

Next ==
  \/ kernel_remap
  \/ \E frame \in MapFrames, offset \in 0..(PAGE_SIZE - 1), bytes \in ByteSizes,
        hint \in Hints \cup {DefaultHint}, flags \in FlagSets :
       vmk_map_bytes(frame, offset, bytes, hint, flags)
  \/ \E bytes \in ByteSizes, hint \in Hints : mm_map(PagesOf(0, bytes), hint)
  \/ SetBacking
  \/ \E v \in Released, offset \in 0..(PAGE_SIZE - 1), bytes \in ByteSizes :
       vmk_unmap_bytes(v, offset, bytes)
  \/ \E v \in Hints, bytes \in ByteSizes, flags \in FlagSets :
       vmk_flag_pages(v, PagesOf(0, bytes), flags)
  \/ \E v \in Touched : Touch(v)

Spec == Init /\ [][Next]_vars

-----------------------------------------------------------------------------
(* The page tables implement an address space: the search and the filling *)
(* of the tables (find_space, recurse_map), which skip entries by          *)
(* different rules, agree on one run of free pages, a strict mapping is    *)
(* where alloc_slab asked for it (mm.c:110), unmapping takes away the      *)
(* pages that were named and no other, new permissions stop at the first   *)
(* page that is missing and change no frame.                               *)
Abstract ==
  [v \in {w \in KernelPages : recurse_find(tables, w) # ENOMAP} |->
     LET e == LastTable[Indices(v)[Last]]
     IN  [frame |-> e.frame,
          perms |-> [writable |-> e.writable, user |-> e.user, no_execute |-> e.no_execute]]]
AS == INSTANCE AddressSpace WITH Pages <- KernelPages, space <- Abstract, call <- last
ImplementsAddressSpace == AS!Spec

(* The processor never holds on to a page that was unmapped: every entry   *)
(* that recurse_unmap clears is invalidated at its own address.            *)
UnmappedIsNotCached == \A v \in DOMAIN tlb : recurse_find(tables, v) # ENOMAP

(* Between calls no page is left with a placeholder for a frame: what      *)
(* mm_map returned is memory, and so is every other entry that the kernel  *)
(* or its loader made.                                                     *)
Memory == BootMapped \cup HeapFrames \cup {f + k : f \in MapFrames, k \in 0..MaxMapped}
ReservedIsBacked ==
  backing = {} /\ halted = "no" => \A i \in Mapped \ leftover : LastTable[i].frame \in Memory

(* acpi.c:121, 147, "map all the acpi tables": the address that comes back *)
(* is that of the frame that was mapped.                                   *)
MapReturnsItsPages ==
  last.op = "map" /\ last.res = "SUCCESS" => recurse_find(tables, last.v) = last.frame
=============================================================================
