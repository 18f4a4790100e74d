-------------------------------- MODULE Acpi --------------------------------
(***************************************************************************)
(* Discovery of the ACPI tables, src/common/acpi.c.  The loader copied the *)
(* RSDP or XSDP into bootinfo; it names a root table, and the root names   *)
(* the others, all of them in physical memory that is not mapped yet.      *)
(* Addresses and lengths are bytes.  A table is mapped by whole pages, so  *)
(* a pointer to it is good for the bytes up to the end of its last page.   *)
(* vmk_map_bytes maps the pages it is asked for (AddressSpace), but the    *)
(* address that it returns may be that of the page before, which is mapped *)
(* to something else (MapReturnsItsPages of VirtMem is violated).  It may  *)
(* also fail or stop the kernel, and so may mm_alloc.                      *)
(***************************************************************************)
EXTENDS Integers, Sequences, FiniteSetsExt

CONSTANTS
  PAGE_SIZE,
  HEADER,      \* sizeof(struct acpi_sdt_header)
  Firmwares,   \* what the firmware may have left: the pointer and the tables
  Others,      \* tables that memory which is none may be read as
  Sigs         \* signatures that callers ask for

(* A firmware: type, checksum, signature and revision of the pointer, the  *)
(* address of the root, and at each address a table with its signature,    *)
(* its length, whether its bytes add up to zero and, in a root, the        *)
(* addresses that the bytes behind its header come to.  A table is at      *)
(* least its header, the root names tables, and no table is called "none", *)
(* which stands for no name, or by the two arguments of acpi_get_table     *)
(* that are no signature.                                                  *)
Width(type) == IF type = "RSDP" THEN 4 ELSE 8
ASSUME PageAssumption == PAGE_SIZE \in Nat \ {0} /\ HEADER \in Nat /\ HEADER >= 8
ASSUME FirmwareAssumption ==
  \A f \in Firmwares :
    /\ DOMAIN f.tables \subseteq Nat /\ f.root \in DOMAIN f.tables
    /\ \A a \in DOMAIN f.tables :
         /\ f.tables[a].length \in Nat /\ f.tables[a].length >= HEADER
         /\ f.tables[a].sig \notin {"none", "NULL", "short"}
    /\ f.tables[f.root].entries \in Seq(DOMAIN f.tables)
    /\ Len(f.tables[f.root].entries) = (f.tables[f.root].length - HEADER) \div Width(f.type)
ASSUME OthersAssumption ==
  \A t \in Others :
    /\ t.length \in Nat
    /\ t.entries \in Seq(Nat) /\ Len(t.entries) >= (t.length - HEADER) \div 4

VARIABLES
  fw,       \* the firmware of this machine
  pc,       \* where acpi_init is, "done" or "halt"
  root, tbls, i, res,
  stray,    \* the address of a page before was returned for a mapping
  wild,     \* a byte was read or followed that is not known to be mapped
  answer    \* the last look-up and what it returned
vars == <<fw, pc, root, tbls, i, res, stray, wild, answer>>

NULL == [kind |-> "null"]
Bogus == [kind |-> "bogus"]   \* a kernel address that nothing was mapped at
Stale == [kind |-> "stale"]   \* what the heap chunk held before

(* vmk_map_bytes: pointers to the pages of some bytes, with the table that *)
(* is read behind them, or to the page before and all of them.             *)
Contents(paddr) == IF paddr \in DOMAIN fw.tables THEN {fw.tables[paddr]} ELSE Others
Pointer(own, paddr, end, t) ==
  [kind |-> "mapped", own |-> own, paddr |-> paddr, end |-> end, table |-> t]
Mapping(paddr, bytes) ==
  LET end == PAGE_SIZE * ((paddr + bytes + PAGE_SIZE - 1) \div PAGE_SIZE)
  IN  {Pointer(TRUE, paddr, end, t) : t \in Contents(paddr)}
        \cup {Pointer(FALSE, paddr, end + PAGE_SIZE, t) : t \in Others}
Readable(ptr, bytes) == ptr.kind = "mapped" /\ ptr.paddr + bytes <= ptr.end
Table(ptr) == ptr.table

(* map_table: the header, and the whole table over again unless it ends in *)
(* the page in which it starts.  What *out holds when a call fails: after  *)
(* the first one the hint with the offset of the table, after the second   *)
(* one still the header.                                                   *)
Outcome(r, ptr, w, s) == [res |-> r, ptr |-> ptr, wild |-> w, stray |-> s]
Unmapped == {Outcome("EMAP", Bogus, FALSE, FALSE), Outcome("halt", NULL, FALSE, FALSE)}
MapWhole(head, paddr) ==
  LET w == ~Readable(head, 8)
      s == ~head.own
  IN  {Outcome("EMAP", head, w, s), Outcome("halt", head, w, s)} \cup
      {Outcome("SUCCESS", ptr, w, s \/ ~ptr.own) : ptr \in Mapping(paddr, Table(head).length)}

map_table_NoOffset(paddr) ==
  Unmapped \cup
  UNION {IF Table(head).length > PAGE_SIZE THEN MapWhole(head, paddr)
         ELSE {Outcome("SUCCESS", head, ~Readable(head, 8), ~head.own)} :
           head \in Mapping(paddr, HEADER)}

map_table(paddr) ==
  Unmapped \cup
  UNION {IF Table(head).length > PAGE_SIZE - (paddr % PAGE_SIZE) THEN MapWhole(head, paddr)
         ELSE {Outcome("SUCCESS", head, ~Readable(head, 8), ~head.own)} :
           head \in Mapping(paddr, HEADER)}

Init ==
  /\ fw \in Firmwares
  /\ pc = "start" /\ res = "none"
  /\ root = NULL /\ tbls = <<>> /\ i = 0
  /\ stray = FALSE /\ wild = FALSE /\ answer = [sig |-> "none", ptr |-> NULL]

Return(r) == pc' = "done" /\ res' = r
Halt == pc' = "halt" /\ res' = res

(* acpi_init and acpi_init_generic up to the mapping of the root.          *)
acpi_init ==
  /\ pc = "start"
  /\ IF fw.type \notin {"RSDP", "XSDP"} THEN Return("ENOTIMPL")
     ELSE IF \/ ~fw.sum \/ ~fw.sig
             \/ fw.revision # (IF fw.type = "RSDP" THEN 0 ELSE 2)
     THEN Return("EINVAL")
     ELSE pc' = "root" /\ UNCHANGED res
  /\ UNCHANGED <<fw, root, tbls, i, stray, wild, answer>>

acpi_init_generic ==
  /\ pc = "root"
  /\ \E o \in map_table(fw.root) :
       /\ root' = o.ptr /\ stray' = (stray \/ o.stray) /\ wild' = (wild \/ o.wild)
       /\ CASE o.res = "SUCCESS" -> pc' = "check" /\ UNCHANGED res
            [] o.res = "EMAP" -> Return("EMAP")
            [] OTHER -> Halt
  /\ UNCHANGED <<fw, tbls, i, answer>>

(* mem_set writes whole words and then, its count reduced by the number of *)
(* words, so many single bytes: the s bytes it was asked for and more.     *)
mem_set(s) == 8 * (s \div 8) + (s - s \div 8)

(* acpi_init_rsdp and acpi_init_xsdp: the root is checked and the array of *)
(* pointers allocated, one longer than the list, and cleared.  For an      *)
(* empty list it has 8 bytes, and for a page before that is read as a root *)
(* shorter than a header none or too many: mm_alloc has no class and stops.*)
n_tbls == (Table(root).length - HEADER) \div Width(fw.type)
CheckRoot ==
  LET tbls_sz == 8 * (n_tbls + 1)
  IN  /\ pc = "check"
      /\ IF Table(root).sig # (IF fw.type = "RSDP" THEN "RSDT" ELSE "XSDT")
         THEN Return("EINVAL") /\ UNCHANGED <<tbls, wild>>
         ELSE /\ wild' = (wild \/ ~Readable(root, Table(root).length))
              /\ IF ~Table(root).sum
                 THEN Return("EINTEGRITY") /\ UNCHANGED tbls
                 ELSE \/ /\ n_tbls > 0
                         /\ tbls' = [k \in 0..n_tbls |->
                                       IF 8 * (k + 1) <= mem_set(tbls_sz) THEN NULL ELSE Stale]
                         /\ pc' = "table" /\ UNCHANGED res
                      \/ Halt /\ UNCHANGED tbls
      /\ UNCHANGED <<fw, root, i, stray, answer>>

(* One turn of the loop that maps the tables, and its end.                 *)
MapNext_Stop ==
  /\ pc = "table"
  /\ IF i = n_tbls THEN Return("SUCCESS") /\ UNCHANGED <<tbls, i, stray, wild>>
     ELSE \E o \in map_table(Table(root).entries[i + 1]) :
            /\ tbls' = [tbls EXCEPT ![i] = o.ptr]
            /\ stray' = (stray \/ o.stray)
            /\ i' = i + 1 /\ pc' = pc /\ UNCHANGED <<res, wild>>
  /\ UNCHANGED <<fw, root, answer>>

MapNext ==
  /\ pc = "table"
  /\ IF i = n_tbls
     THEN tbls' = [tbls EXCEPT ![n_tbls] = NULL] /\ pc' = "log" /\ UNCHANGED <<i, res, stray, wild>>
     ELSE \E o \in map_table(Table(root).entries[i + 1]) :
            /\ tbls' = [tbls EXCEPT ![i] = o.ptr]
            /\ stray' = (stray \/ o.stray) /\ wild' = (wild \/ o.wild)
            /\ CASE o.res = "SUCCESS" -> i' = i + 1 /\ pc' = pc /\ UNCHANGED res
                 [] o.res = "EMAP" -> Return("EMAP") /\ UNCHANGED i
                 [] OTHER -> Halt /\ UNCHANGED i
  /\ UNCHANGED <<fw, root, answer>>

(* What walking the array up to its NULL comes to: the first entry that    *)
(* ends the walk or has the signature.  There is one, or it leaves tbls.   *)
Walk(sig) ==
  LET ends == {k \in DOMAIN tbls :
                 tbls[k].kind # "mapped" \/ Table(tbls[k]).sig = sig}
  IN  IF ends = {} THEN Bogus ELSE tbls[Min(ends)]

(* The rest of acpi_init prints the signature of every table.              *)
LogTables ==
  /\ pc = "log"
  /\ wild' = (wild \/ Walk("none") # NULL)
  /\ Return("SUCCESS")
  /\ UNCHANGED <<fw, root, tbls, i, stray, answer>>

(* acpi_get_table, and acpi_get_known_table with one of its own names or   *)
(* with a number out of range (sig = NULL).                                *)
acpi_get_table_Any(sig) ==
  LET fits == {k \in DOMAIN tbls : tbls[k].kind = "mapped" /\ Table(tbls[k]).sig = sig
                                     /\ Table(tbls[k]).sum}
  IN  /\ pc = "done" /\ tbls # <<>>
      /\ answer' = [sig |-> sig, ptr |-> IF fits = {} THEN NULL ELSE tbls[Min(fits)]]
      /\ UNCHANGED <<fw, pc, root, tbls, i, res, stray, wild>>

acpi_get_table(sig) ==
  LET ptr == Walk(sig)
      found == ptr.kind = "mapped"
  IN  /\ pc = "done"
      /\ IF tbls = <<>> THEN pc' = "halt" /\ UNCHANGED <<answer, wild>>
         ELSE IF sig \in {"NULL", "short"}
         THEN answer' = [sig |-> sig, ptr |-> NULL] /\ UNCHANGED <<pc, wild>>
         ELSE /\ wild' = (wild \/ ptr.kind \in {"bogus", "stale"}
                               \/ (found /\ ~Readable(ptr, Table(ptr).length)))
              /\ answer' = [sig |-> sig,
                            ptr |-> IF found /\ Table(ptr).sum THEN ptr ELSE NULL]
              /\ UNCHANGED pc
      /\ UNCHANGED <<fw, root, tbls, i, res, stray>>

Next ==
  \/ acpi_init \/ acpi_init_generic \/ CheckRoot \/ MapNext \/ LogTables
  \/ \E sig \in Sigs \cup {"NULL", "short"} : acpi_get_table(sig)

Spec == Init /\ [][Next]_vars

-----------------------------------------------------------------------------
(* The bytes that acpi.c reads are mapped.  The comment at acpi.c:37 fears *)
(* that the length of a table could lie behind the mapped header; it never *)
(* does, and neither does a byte that a checksum or a signature is read    *)
(* from, as long as every mapping succeeds and returns its own page.       *)
(* After one that failed a look-up may follow a pointer that nothing was   *)
(* mapped at; after one that returned the page before the second mapping   *)
(* is as long as that page says, and the table may be longer.              *)
ReadsAreMapped == wild => res = "EMAP" \/ stray

(* acpi_init's success means that the array has a mapped pointer for every *)
(* entry of the root and then NULL.  Unless a mapping returned the page    *)
(* before, the pointers are those of the tables that the firmware's root   *)
(* names, in their order, each one mapped to its last byte.                *)
SuccessIsComplete ==
  res = "SUCCESS" =>
    /\ DOMAIN tbls = 0..n_tbls /\ tbls[n_tbls] = NULL
    /\ \A k \in 0..(n_tbls - 1) : tbls[k].kind = "mapped"
    /\ ~stray =>
         /\ n_tbls = Len(fw.tables[fw.root].entries)
         /\ \A k \in 0..(n_tbls - 1) :
              LET a == fw.tables[fw.root].entries[k + 1]
              IN  tbls[k].paddr = a /\ Readable(tbls[k], fw.tables[a].length)

(* Unless a mapping returned the page before, a look-up answers with the   *)
(* first table of that name in the root if its checksum is right, and with *)
(* NULL if it is not, also where a later table of the same name would do.  *)
(* After a failure some tables are missing but no wrong one is returned.   *)
Expected(sig) ==
  LET entries == fw.tables[fw.root].entries
      same == {k \in DOMAIN entries : fw.tables[entries[k]].sig = sig}
  IN  IF same # {} /\ fw.tables[entries[Min(same)]].sum THEN entries[Min(same)] ELSE -1
LookupsAgree ==
  LET got == IF answer.ptr = NULL THEN -1 ELSE answer.ptr.paddr
  IN  answer.sig # "none" /\ ~stray =>
        got = Expected(answer.sig) \/ (res = "EMAP" /\ got = -1)
=============================================================================
