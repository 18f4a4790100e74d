# Verification of the MIMIK kernel

TLA+ models of the MIMIK kernel (a small x86_64 kernel in C), model-checked
with TLC; their safety properties are proved with TLAPS.
Source paths are relative to the repository; "line" means a line of the file
named.

## 1. The system

| Part | Source | State | Operations |
|---|---|---|---|
| physical page manager | `mm/pm.c`, `structs/bitmap.c` | a list of bitmaps (one bit per page, a counter of clear bits, a hint), `first_free_bitmap`, `mem_info`, `next_bitmap_page` | `pm_init`, `pm_request_page(s)`, `pm_try_lock_*`, `pm_try_release_*` |
| kernel heap | `mm/mm.c` | sixteen slabs: end of the region, free list | `mm_init`, `mm_alloc`, `mm_free`, `mm_map` |
| page tables | `arch/x86_64/mm/vm.c` | the tables themselves; the processor's translation cache | `vm(k)_map_*`, `vm(k)_reserve_*`, `vm(k)_set_backing`, `vm(k)_unmap_*`, `vm(k)_flag_*`, `vm_vaddr_to_paddr` |
| temporary window | `arch/x86_64/mm/vm.c` | `tmp_pt`, `first_free_tmp_index` | `map_page_tmp`, `unmap_page_tmp`, `vm_init` |
| interrupts | `cpu/isr.c`, `isr.S`, `pic.c`, `pit.c` | gates, `isrs`, two 8259 controllers, the interrupt flag, the stack of frames | `isr_init`, `isr_register`, `isr_common`, `pic_*`, `pit_*` |
| start-up | `kernel.c`, `arch.c`, `assert.c` | where `kernel_main` is | `kernel_main`, `arch_init`, `kernel_remap` |
| lists | `structs/list.c` | two pointers per node | `list_init`, `list_insert`, `list_remove`, `list_join`, `list_length` |
| boot code | `boot/multiboot2/entry.S`, `stub.S`, `paging.S` | `bootinfo` and the data area behind the image, first page tables | multiboot parser, `setup_paging`, `map_higher_half`, relocation in `_stub64` |
| ACPI | `common/acpi.c` | `root`, `tbls` | `acpi_init`, `acpi_get_table`, `acpi_get_known_table` |
| initial file system | `common/initfs.c` | `K.fs`: physical and virtual range | `initfs_from_module`, `initfs_lookup`, `initfs_release` |
| kernel log | `log/printk.c`, `arch/x86_64/log/put.c` | `serial_initialized`; the serial port | `printk`, `init_serial`, `putc` |
| helpers | `mem/mem.c`, `mem/str.c` | none | clearing, copying, comparing |

How they interact.  `kernel_main` (kernel.c 67-82) runs `pm_init`, `vm_init`,
`mm_init`, `kernel_remap`, `isr_init`, `arch_init`, enables interrupts, looks at
the boot modules and ends in an assertion that always fails.  The heap asks the
page tables for virtual pages and the page manager for frames (`mm_map`); the
page tables ask the page manager for frames for new tables (`create_pt`), which
they reach through the temporary window; and the page manager asks the heap for
the descriptor of a new bitmap (`create_bitmap`), so the three call each other
in a circle.  The boot code leaves `bootinfo`, the modules and the first page
tables in pages the page manager does not know of; `acpi_init` and
`initfs_from_module` map physical memory that somebody else owns.  `printk` is
called from everywhere, `_assert_fail` in an interrupt handler included.  There
is one processor and no thread; what runs concurrently is
the devices, the interrupt handlers, and the processor's translation cache.

What is hard: the re-entry `pm -> heap -> vm, pm`; hints and counters that are
followed without being checked; the recursive walks over page tables, whose
levels count independently; translations that stay cached; the controllers,
whose state depends on a whole sequence of port writes; interrupts between any
two steps; start-up code that ignores what failed and goes on with what it has;
a log that is cut short by its own last message.  `PROJECT.json` lists each hazard at its line.

What makes each part correct.  Page manager: the hint is exact, the assertions
of the request functions hold, granted pages have one owner, the counters add
up, calls return.  Heap: chunks are disjoint, mapped, large enough, not lost.
Page tables: a mapping adds what was asked for, where it says, and touches
nothing else; unmapped means gone from the cache too.  Window: a walk sees the
table it opened.  Interrupts: no line without a handler, everything in service
is acknowledged exactly once, the timer never stops.  Lists: closed rings.
Boot: the kernel finds what the loader passed, and no page has two owners.
ACPI: no byte is read that is not mapped, success means all tables, a look-up
never returns a wrong one.  File system: the right file or none.  Log: every
byte is sent, once, in order.

## 2. Modules

| Module | Models | Proofs |
|---|---|---|
| `PhysMem` | pm.c and bitmap.c | `PhysMem_proofs` |
| `PageAllocator` | the contract of the page manager: atomic, first fit, exclusive | in `PhysMem_proofs` |
| `SlabSize` | the size classes of mm.c, as functions | in `SlabHeap_proofs` |
| `SlabHeap` | mm.c: slabs, growth, carving, free lists | `SlabHeap_proofs` |
| `VirtMem` | vm.c: page tables and translation cache; `mm_map`; `kernel_remap` | `VirtMem_proofs` |
| `AddressSpace` | the contract of the page tables: a map from pages to frames and permissions | in `VirtMem_proofs` |
| `TmpWindow` | vm.c: temporary mappings | in `VirtMem_proofs` |
| `Interrupts` | isr, pic, pit and the order of kernel_main | `Interrupts_proofs` |
| `List`, `Rings` | list.c, and the sequences it implements | `List_proofs` |
| `Boot` | entry.S, the relocation in stub.S, the mounting of the first module, over the page manager's view of the same pages | `Boot_proofs` |
| `Initfs` | initfs.c: look-ups in an archive, as operators; extended by `Boot` | in `Boot_proofs` |
| `Acpi` | acpi.c: discovery, mapping and look-up of tables | `Acpi_proofs` |
| `Klog` | printk.c and put.c, with the serial port | `Klog_proofs` |

The `MC*` modules give the constants values for TLC.  Definitions named
`X_Something` next to a definition `X` are mutants: forms of `X` that a
plausible slip would give, used to show that a property is able to fail.

### PhysMem

A page is a number; an address inside a page stands for the page, as in every
function of pm.c.  `bitmaps` is the list in list order; `first_free_bitmap` is a
position in it, 0 for a pointer to something that is no bitmap.  Loops over
pages take one step per page because `create_bitmap` can re-enter the manager in
the middle; what one page needs without re-entry is atomic.  The heap call
inside `create_bitmap` is modelled by contract: any number of page requests from
`HeapGrowth`, or a fault.  At this commit growing the heap into a table that
does not exist does fault (see VirtMem); the runs where it returns
(`pm_collide` with a chunk it has, `pm_pages` also after growing) say what the
manager itself does then.
Sizes wrap at `SIZE_MAX`.  `halted` says why the kernel stopped; `"lost"` stands
for a wild pointer, an unbounded recursion or memory of others overwritten.

Every bitmap has the page where its bits are.  `bitmap_from` clears a new one
with `mem_set`, which writes the last seven eighths of its count again behind
the page (mem.c 19).  Both the page kept for the bitmap and the one behind it
must therefore be in `IdentityMapped`, the pages the kernel reaches at their
physical address, or the kernel faults.  A bitmap in the page behind loses its
bits (`mem_set`, `Overrun`) while its counter stays; whatever else lies there is
unknown to the page manager, and the kernel goes on or is lost.  The first
bitmap is in .bss and never lies behind a kept page (`ImageAssumption`: the page
before it belongs to the image).  Two more clearings overrun in `pm_init`, of
`mem_info` (14 bytes) and of the first bitmap's storage (3584 bytes); what they
reach is what the linker placed behind, taken to be nothing that matters and not
modelled.  `pm_try_release_pages` has one caller, `initfs_release`, which gives
back a module; its pages are taken to be neither the image's nor ones that the
manager keeps for bitmaps.

### SlabSize, SlabHeap

The sizes are the code's own (sixteen classes, pages of 4096 bytes).  Addresses
are offsets in a class's region.  Mapping is by contract: a strict reservation
of a mapped page is refused, any other succeeds or stops the kernel; the other
side of it is `Map` of `AddressSpace`, which VirtMem implements.  `mm_free` stops at its first
assertion for every chunk, so there is nothing after it to model.

### VirtMem

One chain of tables, as paging.S leaves it, with `LEVELS` levels of `PT_LENGTH`
entries.  `next_cleared_pt` moves on to the page behind the one it cleared, so
the tables are the four pages from the second cleared one on, and the last of
them, which maps the image, was never cleared.  Beside the entries it writes
(`BootMapped`, from `ImageStart` on) it holds any of `Leftovers`: entries that
may be present, with any flags and frame.  `leftover` remembers them; only what
the kernel and its loader entered is claimed to be memory (`ReservedIsBacked`).
Only the low halves of the written entries are stored; their upper halves are
taken to be zero here, since the kernel would not be where it is linked
otherwise.  Two kinds of entries beside the chain are left out, because no
modelled call reaches them: the same tables entered at low addresses as well,
which `ISKVADDR` keeps callers from, and the window's table, which `vm_init`
enters behind the kernel's page directory and which only a run of about 1 GB
would get to.  One call is one step, since interrupt handlers do not touch tables;
`Touch` lets the processor cache a translation between any two calls.
`create_pt` never succeeds at this commit: it clears the new table with
`mem_set`, which writes past the page (mem.c line 19 subtracts words, not
bytes) into a window page that is not mapped.  A mapping that needs a new table
therefore stops the kernel in the model too.  Callers pass the flags and hints
that acpi.c, initfs.c, mm.c and kernel.c pass, as `Hints` and `FlagSets`;
`Released` are the addresses that `initfs_release` unmaps, which a mapping
returned and which therefore lie in or behind the kernel.  The recursion of
vm.c is that of the recursive functions in `find_space`, `recurse_map`,
`recurse_flag` and `recurse_unmap`: the argument of a call holds the level, the
index and what the call finds and leaves behind.  A search that restarts for
ever at one entry, as `find_space` can when pages have been mapped with other
flags, has the answer `"forever"` and stops the kernel.  Permissions are those of the tables: CR0.WP is not
set by the boot code, so a missing write permission is not a fault today.
`last` is the call that returned last; the refinement to `AddressSpace` reads
the call from it and the map from the last level of the tables.

### TmpWindow

`view` records what each walk believes it looks at; `cached` what the processor
may still use.  Pages are closed in any order.

### Interrupts

`pics` holds the two controllers with the initialisation word they wait for,
base vector, mask, requests and lines in service.  `Out` is a write to a port;
the driver's functions are the sequences of writes they make, so the wrong
address of `PIC2_DATA` (pic.c line 13) has the effect it has in the machine: the
first controller gets words meant for the second, and the second is left
waiting.  The model lets the first controller deliver vectors as in 8086 mode
although the mode word it ends up with (4) does not say so; chipsets and
emulators ignore that bit.  `frames` is the stack of interrupted contexts, each
with the step of `isr_common` it is at.  A failed assertion halts the context it
happens in and leaves the interrupt flag alone.  `has_apic` is negated in the
code (pic.c line 38): a processor without APIC takes the APIC path and stops.

### List, Rings

Each operation is its assignments in order, on pointers as the assignment before
has left them.  `inUse` is the caller's discipline: heads are initialised once,
elements are inserted when they are in no list.  The refinement maps the
pointers to the sequence a walk from the head meets.

### Boot, Initfs

One tag is one step.  The data area is a function from addresses to objects (a
string, a module, the segments); writing an object destroys what it overlaps,
and so does a page that is granted to a new owner.  `ebx` is the parser's moving
pointer, rounded up to 8 after every tag.  `setup_paging` is one step, because
only the place of its tables and what they map matter here: of the pages F, F+1,
... behind the data it clears F to F+3 and uses F+1 to F+4, and what is mapped
ends with F+4.  The entries that do so are in the page that nobody cleared; where
their upper halves are not zero the kernel is lost, and the model stops.  `_stub64` relocates
two pointers at once and the links of the list one by one.  The page manager is
its contract: the lowest free page.  `Deref` is what the kernel finds behind a
pointer: an object, if it is still there and mapped.  A look-up is one step; the
walk from header to header, the octal sizes and the rounding to blocks are
functions of `Initfs`.  Names are values, an archive is its members and how
many empty blocks follow them.

### Acpi

A pointer is the physical address it stands for and the end of the page up to
which it is mapped, `Bogus` for an address that nothing was mapped at, `Stale`
for what a heap chunk held before.  `wild` records that a byte was read or a
pointer followed that is not known to be mapped.  Every mapping may succeed,
fail or stop the kernel; look-ups come after success and after failure, since
`arch_init` ignores the result (arch.c).  A mapping that succeeds may also return
the address of the page before, which run `vm_returns` shows for just these
calls (vm.c 247): that page is mapped, and what is read there is any of `Others`,
a table of another name or length, or a root with entries of its own.  `stray`
remembers it.  What acpi.c then takes for tables is not the firmware's, so the
properties about the right tables are for runs without it; that nothing is
missing from the array is not.  In a real machine the page before may also be
one that is read as no table at all; `Others` is a parameter, and the theorems
hold for all.

### Klog

A call is a sequence of pieces from which both the format and the expected
output are made, along different definitions: `Scanned` and `Converted` follow
printk.c, `Expected` says what the piece calls for.  The serial port is a
process of its own with a queue and a shift register; a byte leaves with the
line settings of that moment.  The loader's last byte may be in the shift
register; bytes still in the queue, which `init_serial` clears, are not modelled.
`Trap` is the assertion of isr.c 184, which may
come between any two steps once the gates are loaded and prints a last message.

## 3. Runs

| Run | Result | Shows |
|---|---|---|
| `pm_pages` | pass | two regions of 6 pages, partial-page and empty ranges, nested page requests: ownership, termination, counters exact unless `mem_set` ran over the bitmap; with one region tracked exact hint and contract implemented |
| `pm_collide` | violation | pm.c 81: a bitmap of a higher region has index 0, requests collide |
| `heap_grow` | pass | two classes growing three pages each: disjoint, mapped, not lost, every call returns |
| `heap_fits` | violation | mm.c 93: 2000 bytes get a chunk of 256 |
| `vm_tables` | pass | whatever the loader left in the last table: maps, reserves, backs, unmaps and reflags in any order with the cache in between: an address space is implemented, nothing unmapped stays cached, nothing is left without a frame |
| `vm_returns` | violation | vm.c 247: the address returned is not the one mapped |
| `vm_window` | pass | the window in any order of opening and closing |
| `irq_boot` | pass | start-up and interrupts from any firmware state, with faults, NMIs and withdrawn requests; only an unhandled NMI or spurious interrupt stops the timer's handler |
| `lists` | pass | closed rings, sequences implemented |
| `boot` | pass | tags in every order: bootinfo arrives, pages have one owner, look-ups answer with the right file |
| `acpi` | pass | both kinds of root, with mappings that fail or return the page before: success is complete; unless a page before was returned, only mapped bytes are read and look-ups agree with the firmware |
| `klog` | pass | every conversion at its edges, with the port sending and an assertion cutting in: bytes arrive, text is right, all of it is heard |

Bounds.  `pm_pages`: six pages hold an image of two with the first bitmap in the
second, the kept page, a page reserved in part and room for fragmentation,
exhaustion and bitmaps in neighbouring pages; there is memory for requests to go
on in the second region; `MaxHint` and `MaxBitmaps` bound the states from which
a new call starts.  `pm_collide`: three pages below the image, as the kept page
is one of the lowest free ones.  `heap_grow`: 256 divides a page and 384 does not; three
pages let chunks cross a page boundary twice.  `vm_*`: tables of 9 entries, with
an image of four pages from the second entry on and one page behind it, leave
room for two runs and for running over the end of the table; one entry among the
free ones may be a leftover; `MaxMapped` stops callers at a full table,
`MaxCached` at one cached translation, which is enough because invalidation is
per page.  `vm_window`: six pages with nested walks and a full window.
`irq_boot`: a line below and one above the timer's controller, masks that leave
none, some or all lines open.  `lists`: two heads, four elements.  `boot`: pages
of 64 bytes, three of them below the image as sixteen are in the machine, with
`StartTakes` = 3 requests before the modules are looked at (about five in the
machine); blocks of 32 bytes and sizes of two octal digits; up to three modules,
repeated tags, archives that end with and without empty blocks.  `acpi`: pages
of 64 bytes, so that the real header of 36 can cross a page; tables inside a
page, across one and longer than one; up to four tables, two of one name; a page
before that is read as a table of another name, as one longer than what is mapped
or as a root of two entries.
`klog`: bytes of `BYTE` = 2 bits, so that an int has 8 and a long 16, and
arguments 0, in range, negative and wrapping; a queue of `DEPTH` = 2; the one
message before the gates (`GatesAfter`) stands for the three that kernel_main
prints.

Deadlock.  Runs that let the kernel stop say `CHECK_DEADLOCK FALSE`; in the
interrupt runs devices go on and in `lists` operations remain possible, and
deadlock is checked.

Fairness.  `PhysMem` and `SlabHeap`: weak fairness of the running call; there is
one processor and only interrupt handlers, which return, preempt it.
`Interrupts`: weak fairness of the processor's own steps and of accepting an
interrupt, and of the timer raising its line, which a free-running counter does.
`Klog`: weak fairness of the kernel's own steps and of the port, which sends
whenever it has something to send.  No fairness of callers or other devices is
assumed.

## 4. Proofs

The theorems hold for every value of the constants that the named assumptions
admit; TLC evaluates the same assumptions in the runs.  In every module the
properties are proved from one inductive invariant, in three parts: `Init`
establishes it, each action preserves it (one lemma per action), and it implies
the property.

* `PhysMem_proofs`.  `TypeCorrect`, `HintCorrect`, `RequestsCorrect`, `FirstFit`:
  the hint alone is not inductive, because `pm_request_pages` relies on pages it
  has scanned being still free when it locks them.  The invariant adds what the
  scan knows (`ScanInv`), that the pages still to be taken are free
  (`TakeInv`), that every bitmap carries index 0 (`ListInv`), and that a bitmap
  is created only for a page above the first region (`CreationInv`).
  `CountersCorrect` and `AccountingCorrect` (`UnsetExact`, `Accounting`) are
  inductive on top of that: every operation is shown to have one of the effects
  none, bit set, bit cleared, and the byte counters are followed modulo
  `SIZE_MAX`, the modulus of `size_t`.  A new bitmap is linked behind all others
  (each has index 0), so the bitmaps that its clearing may have run over are the
  ones before it (`Intact`); the overrun clears bits and counts none of them, so
  the counters of free pages can only be too low.  `OwnershipCorrect` needs to
  know which pages a run in the making has locked so far (`RunInv`), that a new
  bitmap is never the first (`PlaceInv`), and that the first one is never
  overrun: the image is locked before the first page is requested and not
  released, so a page that is kept for a bitmap is none of the image's, while
  the page before the first bitmap is (`ImageInv`).  `ContractImplemented` is the refinement `ImplementsContract`
  of `PageAllocator`: the pages of a run count as taken from the step at which
  `pm_request_pages` returns it, and first fit comes from `FitInv`, which
  carries what the search has excluded to that step.
* `SlabHeap_proofs`.  `HeapTypeCorrect`, `ChunksNeverOverlap`, `ChunksAreBacked`,
  `GrowthAlwaysWorks`: the invariant places all chunks below the slab's end
  (`Below`), says exactly which pages are mapped (`Covered`, `Tight`), and what
  holds inside the carving loop (`Carving`: a chunk was carved or still fits).
  That one always fits needs the lemma that the class search never selects the
  class of a whole page, proved by cases on the size.  `NoChunkIsLost` counts
  bytes below the end against chunks free or held, and needs that finitely many
  are held (`LostInv`) and that no chunk is both.
* `VirtMem_proofs`.  `UnmappedNeverCached`, `PlaceholdersReplaced` and the
  refinement `TablesImplementSpace` of `AddressSpace` (`ImplementsAddressSpace`),
  for every number of levels and size of a table.  The invariant: the tables
  stay one chain, with exactly one present entry in every table but the last
  (`Chain`), so that a page is mapped if and only if its entry in the last table
  is; what is cached is mapped; and while the kernel runs, a frame that is no
  memory belongs to a page still to be backed or to an entry that was left over
  (`Backed`).  What the last table held at the start is any function to entries.  The work is in what
  the four walks do to such a chain: `SearchResult`, `MapResult`, `UnmapResult`,
  `FlagResult`.  The search and the filling agree on one run of free entries
  although they skip others by different rules; what lies beside the path ends
  the walks before they reach a table; `recurse_unmap`, whose levels count on
  their own, clears the pages named, no others, and invalidates each at its own
  address.  In the same module, `FirstFreeCorrect`, `WalksCorrect` and the action
  property `TakenOnce` for `TmpWindow`, from its two invariants together plus:
  nobody looks through the window's own page, nothing closed is cached.
* `Interrupts_proofs`.  `LinesHaveHandlersTheorem`, `InServiceTheorem`,
  `LinesDoNotNestTheorem`, `OnlyTheTimerTheorem`, for every set of devices and
  exceptions and every mask that the firmware leaves.  The argument: interrupts
  are enabled, now or after some iretq (`EnabledOrDue`), only when the timer's
  line is the only one open and has its handler (`ArmedInv`); a frame of a line
  is therefore the timer's, and while it is on the stack only its own iretq sets
  the flag again (`LineInv`); and the first controller has the line in service
  exactly while a frame still owes the acknowledgement (`ServiceInv`).  What the
  driver's writes do to the first controller, the ones meant for the second
  included, is a set of lemmas.
* `List_proofs`.  `RingsClosed`, inductive together with the type invariant,
  whether or not the two lists joined are the same ring.
  `SequencesImplemented` is the refinement `ImplementsRings` of `Rings`.
  Its invariant says that there are sequences which the pointers lay out
  (`Layout`): every element in use is at one place of one of them, and `next`
  goes through them in order.  `NewLayout`, `PutLayout`, `DropLayout` and
  `JoinLayout` say which sequences an operation leaves, and `ContentsFound` that
  `list_length` and a walk from the head find them: the nodes before the head
  comes again are distinct, so there are fewer of them than nodes.
* `Acpi_proofs`.  `ReadsAreMappedTheorem`, `SuccessIsCompleteTheorem`,
  `LookupsAgreeTheorem`, for every page size and every firmware whose tables are
  as long as they say.  `ArrayInv` describes the array at every turn of the
  loop, with what is known of it once a page before was returned and without;
  that the length field lies in the mapped part of a header is
  `PagesCover`, arithmetic on the pages that a mapping takes.
* `Klog_proofs`.  `BytesAlwaysArrive`, for every program of calls and depth of
  the port's queue: at most one byte waits in the port (`Waiting`), since `putc`
  polls before it writes and nothing comes in between (`Polled`, whatever
  assertion cuts in), and `init_serial` has set the line before the first byte
  (`Settings`).  `LogSaysWhatIsDue` (`PrintsWhatIsDue`), for every width of a
  byte and every value of an argument: the characters printed are the ones the
  pieces call for.  The invariant (`ScanInv`) says that what is due is what has
  been said, what is ready to be put and what the pieces behind the scanning
  position are to print; inside a directive it says how many modifiers are left
  and which flags the others have set (`Scanning`).  When the conversion is
  reached the flags are those of the directive (`Flags`), and `ConvertedIsDue`
  compares the two texts: the buffer that the division loops fill and empty
  backwards is the numeral with its digits in place, `next_int` takes the
  argument modulo the width that the modifiers ask for, and a mask that runs
  down from the top bit meets the same bits (`NumeralPrinted`, `SignedDue`,
  `BinaryDue`).
* `Boot_proofs`.  `BootinfoIsRight` (`BootinfoArrives`), `PagesAreOwnedOnce`
  (`PagesHaveOneOwner`), `LookupsAreRight` (`LookupsAnswer`), for every list of
  tags.  The invariant says where the parser has put what: objects lie behind
  the image and below `ebx` (`AreaInv`), each pointer names the object of the
  last tag of its kind (`PointerInv`), and the list of modules is in the order
  of the tags with a number of its links relocated (`ListInv`); up to the start
  of the page manager's callers nothing of it can be overwritten, because
  requests are served from the pages below the image and there are enough of
  them (`PageInv`, `RoomAssumption`).  `LookupIsRight` compares the walk of
  `initfs_lookup` with a direct definition of the answer.

Functions defined by recursion (the walk from header to header, `Reached`, the
bytes of the segments, the walks of the page tables) are reasoned about without
an induction theorem: the set of arguments at which they could fail has a least
element, by the well-foundedness of the naturals (`HasLeast`, `WalkRule`,
`NatOrder`).  That a recursive function satisfies its own equation at all is
proved in `VirtMem_proofs` and `Klog_proofs`: `WFRec` builds the solution of a
recursion whose calls go down in rank, and `OneSolution` shows that there is no
other.  `FillRule`, `FlagRule`, `ClearRule` and `ScanRule` apply it to the four
walks, where a call is either one level down or further along the table
(`Rank`); `PowerRule`, `BufferRule` and `FlatRule` to powers, to the digits of
a number and to the joining of a list of sequences.

Assumptions.  Sizes are positive and addresses natural (`SizesAssumption`,
`PageAssumption`, `WindowAssumption`, `LayoutAssumption`, `BlockAssumption`,
`HeapAssumption`, `PortAssumption`, `PathAssumption`, `ImageAssumption`); devices, vectors and mask bytes are in
their ranges (`ConstantsAssumption`); nodes are finitely many and heads are no
elements (`NodesAssumption`).  Three say something of the environment:
`FirmwareAssumption` (a table is as long as its header says and the root lists
tables that exist), `TagsAssumption` (the loader ends the tags with END, and
passes no empty command line or memory map), `RoomAssumption` (below the image
there are as many free pages as start-up requests, and the loader puts modules
above).  `FormatAssumption` says that a call is made of text and of directives
that printk has, with the modifiers that mean something to it, an argument of
their kind and no string shorter than its width; the formats of the kernel are
of this form (`%s`, `%4s`, `%lu`), and section 5 says what printk does with
some that are not.  For these formats the assertions on `BUF_SIZE` cannot fire
and are left out; the most negative value of a type is covered by the theorem
and not by TLC.  Two say
what the page tables are called with: `CallerAssumption` (at least one byte,
nothing for user space, frames that do not run over the largest an entry can
hold, and no fewer of them than a table has entries) and `AddressAssumption` (addresses are canonical; what is unmapped lies in
or behind the kernel).  `PathAssumption` has the kernel's last
table followed by another entry one level up: paging.S enters it at 0 of the
page directory's 512 entries.

Only model-checked.  All liveness: TLAPS has no rule for fairness.

## 5. Findings

Each violation run corresponds to a finding in `PROJECT.json` with the line that
says otherwise.  The models show the following as well; they are certain from
the code alone and have no run:

* With a second region the bitmap of index 0 (pm.c 137) is never found again:
  besides the collision of `pm_collide`, `pm_request_pages` creates another
  bitmap for the same region and grants a page of it twice.  `Ownership` is
  therefore about the pages of the first region.
* The page that fills the last bitmap (pm.c 147): `find_first_free_bitmap`
  starts at the full bitmap's own link and reads the list head as a bitmap; the
  out-of-memory check (pm.c 78) is not reached.  `PhysMem` stops there as
  `"lost"`.
* A reserved segment that crosses the end of the first region (pm.c 51) makes
  `pm_init` call `mm_alloc` before `mm_init` has run (`"assert_heap"`).
* `mm_free` never returns (mm.c 142): `SLABTYPE` keeps sixteen bits above bit
  36, which hold 0xf800 plus the class.  `FreeRefuses` in `SlabHeap_proofs`.
* A mapping overwrites the permissions of the tables above it (vm.c 175): the
  first read-only one takes the write permission off the path of kernel data.
  Without effect while CR0.WP is clear.
* kernel.c 53 says "remap kernel bss and data as RW-": `recurse_flag` rewrites
  the entries without invalidating them (vm.c 595), and `vm_flush_tlb`, which
  nothing calls, moves rax to itself.  Translations that the processor has
  cached keep the loader's permissions.
* pic.c 113 says "mask all interrupts": with both data ports at one address
  (pic.c 13) the second controller still waits for its second initialisation
  word and has no line masked.  Nothing of it gets through, because the first
  controller masks the line it is connected to (`OnlyTheTimerIsOpen`).
* acpi.c 37 fears that the length of a table may lie behind the mapped header;
  `ReadsAreMapped` shows that it does not.  After a mapping that failed,
  though, `tbls` may hold an address that nothing was mapped at, and a look-up
  follows it.  A root table without entries stops the kernel: `mm_alloc(8)`
  has no class.
* A module's command line is copied to offset 32 (entry.S 109), while
  `struct bootinfo_module` has it at 24, where a zero was stored: C code reads
  an empty string.  Without a command-line tag `bootinfo.cmdline` becomes
  `HIGHER_HALF` itself, which is not mapped, and `kernel_parse_bootinfo` faults.
* initfs.c 9 numbers file types from 1 and takes every block for a header: a
  look-up in an archive as tar writes it (the makefile passes `initrd.tar`)
  stops the kernel at an assertion, at the file if it is there (type `'0'`) and
  at the empty blocks if it is not.
* The page manager does not know of bootinfo, the first page tables and the
  modules (`bootinfo_data_end` is passed to `kernel_main` and ignored).  They
  survive because requests take the pages below the image first and start-up
  needs fewer of them than there are.
* The copying loops of entry.S (60, 191) test their counter after the first
  turn: an empty command line or memory map would run 2^32 times
  (`TagsAssumption` of `Boot` excludes both).  `setup_paging` writes its tables
  behind bootinfo without looking at what the loader put there.
* `next_cleared_pt` (paging.S 85) returns the page behind the one it cleared.
  The last table, the one that maps the kernel, is therefore whatever memory
  held, except for the low halves of the entries in use: the rest may map
  anything (`Leftovers` of `VirtMem`), and dirt in an upper half moves or
  disables a page of the kernel.
* Clearing a bitmap at pm.c 138 overruns its page by 3584 bytes (mem.c 19): the
  bitmap in the next page, if there is one, loses bits, after which its locked
  pages are handed out again and its counter is too low (`Intact` in
  `UnsetExact` and `Accounting`).  Anything else there is overwritten with zeros.
* acpi.c takes the address that `vmk_map_bytes` returns for its table, which the
  retry at vm.c 247 can make the page before (`vm_returns`): `acpi_init` may then
  succeed with pointers to other contents, and look-ups answer from them
  (`stray` in `Acpi`).  initfs.c maps with the same call; in `Boot` a mounted
  module is one that is mapped at the address returned.
* printk prints nothing for 0 without a width, reads "%10s" as a width of 1,
  reads past the end of a format that ends in "%", and prints `%b` of an int or
  a long through a sign-extended mask.
* `has_apic` is negated; the timer's command byte and divisor go to port 0 and
  with a wrong access code, so the timer keeps the firmware's rate; periods
  below 19 us would be truncated; `mem_set`, `mem_copy` overrun;
  `mem_copy_reverse` is off by one.

## 6. Not modelled

The switch to long mode and the segment tables (straight-line register set-up),
the entries of the first page tables one by one, the stack protector, cpuid, the
timer's registers, `pic_mask` (no caller), APIC paths (TODO in the code),
address spaces other than the kernel's, `mem_copy` and `mem_copy_reverse` (the
second, off by one, has no caller), strings below the level of a value.  The
circle of heap and page manager inside one allocation is modelled from the page
manager's side only: the heap's side of it needs a request that fills the last
bitmap, after which the manager is lost (section 5).

## 7. Plan

1. Done: page manager, heap, page tables, window, interrupts, lists, boot,
   initial file system, ACPI, log; their runs and contracts.
2. Done: theorems for every safety property of the runs, and for the
   refinements of `PageAllocator`, `Rings` and `AddressSpace`.
3. Left: the parts named in section 6, as the code grows to use them.
