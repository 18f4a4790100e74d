-------------------------------- MODULE Boot --------------------------------
(***************************************************************************)
(* From the loader to the initial file system: the parser of multiboot     *)
(* tags (boot/multiboot2/entry.S) writes strings, modules and the memory   *)
(* map into a data area behind the kernel image, setup_paging puts the     *)
(* first page tables behind that, _stub64 (boot/stub.S) turns the pointers *)
(* into addresses of the higher half, and kernel_parse_bootinfo (kernel.c) *)
(* mounts the first module with initfs_from_module (common/initfs.c).  In  *)
(* between the page manager hands out pages, and it knows of none of the   *)
(* areas behind the image.                                                 *)
(*                                                                         *)
(* Addresses are bytes.  What lies at an address in the data area is one   *)
(* object; an object that is written over, or whose page is handed out, is *)
(* gone.  The page manager is taken at its word (PageAllocator).           *)
(***************************************************************************)
EXTENDS Initfs, SequencesExt, FiniteSets

CONSTANTS
  PAGE_SIZE, NumPages, HIGHER_HALF,
  PADDR_START, PADDR_END,   \* the kernel image, LAYOUT_PADDR_START and _END
  TagLists,                 \* the tags that loaders pass
  StartTakes,               \* pages requested up to kernel_parse_bootinfo
  Paths                     \* names that are looked up

ASSUME LayoutAssumption ==
  /\ PAGE_SIZE \in Nat \ {0} /\ {NumPages, HIGHER_HALF, PADDR_START, PADDR_END} \subseteq Nat
  /\ PADDR_START % PAGE_SIZE = 0 /\ PADDR_START < PADDR_END
  /\ PADDR_END < HIGHER_HALF /\ StartTakes \in Nat \ {0}

(* What the loader passes.  The copying loops of a command line and of a   *)
(* memory map run at least once, so neither may be empty; the string of a  *)
(* module may.                                                             *)
TagTypes == {"end", "cmdline", "module", "mmap", "RSDP", "XSDP", "other"}
IsTag(t) ==
  /\ t.type \in TagTypes
  /\ t.type = "cmdline" => t.length \in Nat \ {0}
  /\ t.type = "module" =>
       /\ {t.length, t.start, t.end} \subseteq Nat /\ t.start < t.end
       /\ IsArchive(t.archive)
  /\ t.type = "mmap" =>
       /\ Len(t.entries) \in Nat \ {0}
       /\ \A k \in 1..Len(t.entries) :
            t.entries[k] \in [type : Nat, addr : Nat, length : Nat]
ASSUME TagsAssumption ==
  \A list \in TagLists :
    /\ Len(list) \in Nat \ {0} /\ DOMAIN list = 1..Len(list)
    /\ \A k \in DOMAIN list : IsTag(list[k]) /\ (list[k].type = "end" <=> k = Len(list))

(* The pages of a range as pm_try_lock_pages counts them: one, if the      *)
(* range is empty.                                                         *)
Pages(start, end) ==
  LET first == start \div PAGE_SIZE
  IN  first..(first + Max({1, (end - start + PAGE_SIZE - 1) \div PAGE_SIZE}) - 1)

(* A memory map as it is stored: everything that is not available becomes  *)
(* reserved.                                                               *)
Segment(e) == [e EXCEPT !.type = IF @ = 1 THEN "available" ELSE "reserved"]
Segments(entries) == [k \in 1..Len(entries) |-> Segment(entries[k])]
ReservedPages(list) ==
  UNION {Pages(list[k].addr, list[k].addr + list[k].length) :
           k \in {m \in DOMAIN list : list[m].type = "reserved"}}

(* The loader puts modules above the start of the image, and no memory map *)
(* takes away the pages below it that are requested before the first       *)
(* module is locked.                                                       *)
LowPages == 0..(PADDR_START \div PAGE_SIZE - 1)
ASSUME RoomAssumption ==
  /\ LowPages \subseteq 0..(NumPages - 1) /\ Cardinality(LowPages) >= StartTakes
  /\ \A list \in TagLists : \A k \in DOMAIN list :
       /\ list[k].type = "module" => list[k].start >= PADDR_START
       /\ list[k].type = "mmap" =>
            Cardinality(LowPages \ ReservedPages(Segments(list[k].entries))) >= StartTakes

VARIABLES
  tags,      \* the tags of this boot, the last one END
  tag,       \* the tag being parsed
  pc, ebx,
  info,      \* struct bootinfo
  objs,      \* the objects in the data area
  link,      \* the link that _stub64 relocates next, 0 for bootinfo.modules
  tables,    \* the pages of the boot page tables
  locked,    \* pages that are locked in the page manager
  taken,     \* pages that were requested and are in use
  fs,        \* K.fs, and whether its mapping succeeded
  answer     \* the last look-up and what it returned
vars == <<tags, tag, pc, ebx, info, objs, link, tables, locked, taken, fs, answer>>

Align8(a) == ALIGNUP(a, 8)
_bootinfo_data == Align8(PADDR_END)

(* Writing an object destroys what it overlaps.                            *)
Span(a, o) == a..(a + o.bytes - 1)
Write(a, o) ==
  LET kept == {b \in DOMAIN objs : Span(b, objs[b]) \cap Span(a, o) = {}} \ {a}
  IN  [b \in kept \cup {a} |-> IF b = a THEN o ELSE objs[b]]

NoFs == [start |-> 0, end |-> 0, of |-> 0, mapped |-> FALSE]
Init ==
  /\ tags \in TagLists /\ tag = 1 /\ pc = "parse" /\ ebx = _bootinfo_data
  /\ info = [cmdline |-> 0, modules |-> 0, entries |-> 0, segments |-> 0, acpi |-> "NONE"]
  /\ objs = <<>> /\ link = 0
  /\ tables = {} /\ locked = {} /\ taken = {}
  /\ fs = NoFs /\ answer = [path |-> "none", got |-> [res |-> "none"]]

Elsewhere == UNCHANGED <<tags, link, tables, locked, taken, fs, answer>>
NextTag(end) == tag' = tag + 1 /\ ebx' = Align8(end) /\ UNCHANGED pc
Parsing(type) == pc = "parse" /\ tags[tag].type = type /\ Elsewhere

ParseCmdline ==
  /\ Parsing("cmdline")
  /\ info' = [info EXCEPT !.cmdline = ebx]
  /\ objs' = Write(ebx, [kind |-> "text", bytes |-> tags[tag].length, of |-> tag])
  /\ NextTag(ebx + tags[tag].length)

(* A module goes to the end of the list.  Its command line is copied 32    *)
(* bytes behind its start.                                                 *)
LastModule ==
  LET from[a \in {b \in DOMAIN objs : objs[b].kind = "module"}] ==
        IF objs[a].next = 0 THEN a ELSE from[objs[a].next]
  IN  from[info.modules]
Module == [kind |-> "module", bytes |-> 32 + tags[tag].length, next |-> 0, of |-> tag,
           start |-> tags[tag].start, end |-> tags[tag].end]
ParseModule_Front ==
  /\ Parsing("module")
  /\ objs' = Write(ebx, [Module EXCEPT !.next = info.modules])
  /\ info' = [info EXCEPT !.modules = ebx]
  /\ NextTag(ebx + 32 + tags[tag].length)
ParseModule ==
  /\ Parsing("module")
  /\ IF info.modules = 0
     THEN info' = [info EXCEPT !.modules = ebx] /\ objs' = Write(ebx, Module)
     ELSE objs' = [Write(ebx, Module) EXCEPT ![LastModule].next = ebx] /\ UNCHANGED info
  /\ NextTag(ebx + 32 + tags[tag].length)

ParseMmap ==
  LET n == Len(tags[tag].entries)
  IN  /\ Parsing("mmap")
      /\ info' = [info EXCEPT !.entries = n, !.segments = ebx]
      /\ objs' = Write(ebx, [kind |-> "segments", bytes |-> 24 * n,
                             list |-> Segments(tags[tag].entries)])
      /\ NextTag(ebx + 24 * n)

ParseAcpi ==
  /\ \E type \in {"RSDP", "XSDP"} : Parsing(type) /\ info' = [info EXCEPT !.acpi = type]
  /\ UNCHANGED objs /\ NextTag(ebx)
SkipTag == Parsing("other") /\ UNCHANGED <<info, objs>> /\ NextTag(ebx)
EndTag == Parsing("end") /\ pc' = "paging" /\ UNCHANGED <<tag, ebx, info, objs>>

(* setup_paging clears the four pages behind the data.  The address moves  *)
(* on before it is kept, so the tables are the last three of them and the  *)
(* page behind, which maps everything between the start of the image and   *)
(* its own end.  That page is not cleared, and only the low halves of its  *)
(* entries are written: where the memory held anything but zeros in the    *)
(* upper halves, pages are mapped to memory that nobody wrote to.  Such a  *)
(* run is lost and is not followed any further.                            *)
setup_paging ==
  LET first == ALIGNUP(ebx, PAGE_SIZE) \div PAGE_SIZE
  IN  /\ pc = "paging"
      /\ tables' = (first + 1)..(first + 4)
      /\ pc' \in {"relocate", "halt"}
      /\ UNCHANGED <<tags, tag, ebx, info, objs, link, locked, taken, fs, answer>>
Mapped == (PADDR_START \div PAGE_SIZE)..Max(tables)

(* _stub64: two pointers at once, whether they are set or not, and then    *)
(* the links of the list one by one.                                       *)
Linked == IF link = 0 THEN info.modules ELSE objs[link].next
SetLink(p) ==
  IF link = 0 THEN info' = [info EXCEPT !.modules = p] /\ UNCHANGED objs
  ELSE objs' = [objs EXCEPT ![link].next = p] /\ UNCHANGED info
RelocatePointers ==
  /\ pc = "relocate"
  /\ info' = [info EXCEPT !.cmdline = @ + HIGHER_HALF, !.segments = @ + HIGHER_HALF]
  /\ pc' = "links"
  /\ UNCHANGED <<tags, tag, ebx, objs, link, tables, locked, taken, fs, answer>>
RelocateLink ==
  /\ pc = "links"
  /\ IF Linked = 0 THEN pc' = "pm_init" /\ UNCHANGED <<info, objs, link>>
     ELSE SetLink(Linked + HIGHER_HALF) /\ link' = Linked /\ UNCHANGED pc
  /\ UNCHANGED <<tags, tag, ebx, tables, locked, taken, fs, answer>>

-----------------------------------------------------------------------------
(* What the kernel finds behind a pointer: an object, if the pointer is    *)
(* mapped and the object is still there.                                   *)
Lost == [kind |-> "lost", next |-> 0, of |-> 0]
Deref(p) ==
  LET a == p - HIGHER_HALF
  IN  IF a \in DOMAIN objs /\ \A b \in Span(a, objs[a]) : b \div PAGE_SIZE \in Mapped
      THEN objs[a] ELSE Lost

(* The lowest free page is locked for a new owner, who writes to it.       *)
Grant(busy, next) ==
  LET page == Min(0..(NumPages - 1) \ busy)
      whole == {a \in DOMAIN objs : \A b \in Span(a, objs[a]) : b \div PAGE_SIZE # page}
  IN  /\ locked' = busy \cup {page} /\ taken' = taken \cup {page}
      /\ objs' = [a \in whole |-> objs[a]]
      /\ pc' = IF page \in tables THEN "halt" ELSE next

(* pm_init locks the reserved segments and the image, and requests         *)
(* next_bitmap_page.                                                       *)
pm_init ==
  LET seen == Deref(info.segments)
      busy == Pages(PADDR_START, PADDR_END)
                \cup (IF seen = Lost THEN {} ELSE ReservedPages(seen.list))
  IN  /\ pc = "pm_init"
      /\ Grant(busy \cap 0..(NumPages - 1), "start")
      /\ UNCHANGED <<tags, tag, ebx, info, link, tables, fs, answer>>

(* A page for a table or for the heap.                                     *)
pm_request_page ==
  /\ pc \in {"start", "run"} /\ 0..(NumPages - 1) \ locked # {}
  /\ pc = "start" => Cardinality(taken) < StartTakes
  /\ Grant(locked, pc)
  /\ UNCHANGED <<tags, tag, ebx, info, link, tables, fs, answer>>

(* initfs_from_module ignores what locking and mapping return.             *)
initfs_from_module_NoLock(mod) ==
  fs' = [start |-> mod.start, end |-> mod.end, of |-> mod.of, mapped |-> TRUE]
    /\ UNCHANGED locked
initfs_from_module(mod) ==
  /\ \E ok \in BOOLEAN :
       fs' = [start |-> mod.start, end |-> mod.end, of |-> mod.of, mapped |-> ok]
  /\ locked' = locked \cup Pages(mod.start, mod.end)

(* kernel_parse_bootinfo: the command line is read to its end, the first   *)
(* module is mounted.                                                      *)
kernel_parse_bootinfo ==
  LET mod == Deref(info.modules)
  IN  /\ pc = "start"
      /\ IF Deref(info.cmdline) = Lost \/ (info.modules # 0 /\ mod = Lost)
         THEN pc' = "halt" /\ UNCHANGED <<fs, locked>>
         ELSE /\ pc' = "run"
              /\ IF info.modules = 0 THEN UNCHANGED <<fs, locked>>
                 ELSE initfs_from_module(mod)
      /\ UNCHANGED <<tags, tag, ebx, info, objs, link, tables, taken, answer>>

(* initfs_lookup and initfs_release stop the kernel without a file system. *)
Lookup(path) ==
  LET got == CASE fs.start = 0 -> [res |-> "ASSERT"]
               [] fs.start # 0 /\ ~fs.mapped -> [res |-> "wild"]
               [] OTHER -> initfs_lookup(tags[fs.of].archive, path)
  IN  /\ pc = "run"
      /\ answer' = [path |-> path, got |-> got]
      /\ pc' = IF got.res \in {"ASSERT", "wild"} THEN "halt" ELSE "run"
      /\ UNCHANGED <<tags, tag, ebx, info, objs, link, tables, locked, taken, fs>>

initfs_release ==
  /\ pc = "run"
  /\ IF fs.start = 0 THEN pc' = "halt" /\ UNCHANGED <<fs, locked>>
     ELSE /\ locked' = locked \ Pages(fs.start, fs.end)
          /\ fs' = NoFs /\ UNCHANGED pc
  /\ UNCHANGED <<tags, tag, ebx, info, objs, link, tables, taken, answer>>

Next ==
  \/ ParseCmdline \/ ParseModule \/ ParseMmap \/ ParseAcpi \/ SkipTag \/ EndTag
  \/ setup_paging \/ RelocatePointers \/ RelocateLink \/ pm_init \/ pm_request_page
  \/ kernel_parse_bootinfo \/ (\E path \in Paths : Lookup(path)) \/ initfs_release

Spec == Init /\ [][Next]_vars

-----------------------------------------------------------------------------
(* The kernel finds in bootinfo what the loader passed, whatever the order *)
(* of the tags: the modules in their order, each once and the list ended,  *)
(* the last command line, the last memory map and the last ACPI pointer.   *)
(* Nothing has been written over, every pointer is mapped and in the       *)
(* higher half, and the pages requested on the way came from below the     *)
(* image.                                                                  *)
TagsOf(types) == {k \in DOMAIN tags : tags[k].type \in types}
BootinfoArrives ==
  LET mods == TagsOf({"module"})
      last(types) == Max(TagsOf(types))
  IN  pc \in {"pm_init", "start"} =>
        /\ \E place \in [mods -> DOMAIN objs] :
             LET ptr(ms) == IF ms = {} THEN 0 ELSE HIGHER_HALF + place[Min(ms)]
             IN  /\ info.modules = ptr(mods)
                 /\ \A k \in mods :
                      LET mod == Deref(HIGHER_HALF + place[k])
                      IN  /\ mod.of = k
                          /\ mod.start = tags[k].start /\ mod.end = tags[k].end
                          /\ mod.next = ptr({m \in mods : m > k})
        /\ TagsOf({"cmdline"}) # {} => Deref(info.cmdline).of = last({"cmdline"})
        /\ TagsOf({"mmap"}) # {} =>
             /\ info.entries = Len(tags[last({"mmap"})].entries)
             /\ \A k \in 1..info.entries :
                  LET e == tags[last({"mmap"})].entries[k]
                      s == Deref(info.segments).list[k]
                  IN  /\ s.addr = e.addr /\ s.length = e.length
                      /\ (s.type = "available") <=> (e.type = 1)
        /\ TagsOf({"RSDP", "XSDP"}) # {} => info.acpi = tags[last({"RSDP", "XSDP"})].type

(* A page has one owner: one that was requested stays locked, and none of  *)
(* the file system's is requested while it is mounted, although bootinfo   *)
(* and the modules are not known to the page manager before.               *)
PagesHaveOneOwner ==
  /\ taken \subseteq locked
  /\ fs.start # 0 => Pages(fs.start, fs.end) \subseteq locked \ taken

(* A look-up in a mounted archive answers with the first file of that      *)
(* name, at its place and with its size, and with ENOENT only if there is  *)
(* none.  On an archive as tar writes it the kernel stops instead, since   *)
(* the code numbers types from 1 and takes empty blocks for headers.       *)
LookupsAnswer ==
  answer.path # "none" /\ fs.mapped =>
    answer.got = LookupExpected(tags[fs.of].archive, answer.path)
=============================================================================
