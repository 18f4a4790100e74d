---------------------------- MODULE Acpi_proofs ----------------------------
(***************************************************************************)
(* Proofs about Acpi, for every page size, every header of eight bytes or  *)
(* more, every set of firmwares that FirmwareAssumption admits and every   *)
(* set of tables that other memory may be read as.                         *)
(***************************************************************************)
EXTENDS Acpi, WellFoundedInduction, TLAPS

(* What pointer k of the array should be: the table that the root names at *)
(* that place, mapped to its last byte.                                    *)
Entry(k) == fw.tables[fw.root].entries[k + 1]
Listed == Len(fw.tables[fw.root].entries)
Right(ptr, a) == ptr.kind = "mapped" /\ ptr.paddr = a /\ ptr.table = fw.tables[a]
Whole(ptr, a) == Right(ptr, a) /\ Readable(ptr, fw.tables[a].length)

TypeInv ==
  /\ fw \in Firmwares
  /\ pc \in {"start", "root", "check", "table", "log", "done", "halt"}
  /\ res \in {"none", "SUCCESS", "EMAP", "EINVAL", "EINTEGRITY", "ENOTIMPL"}
  /\ wild \in BOOLEAN /\ stray \in BOOLEAN

(* A read of unmapped bytes comes after a mapping that failed, or that     *)
(* returned the page before.                                               *)
WildInv == wild => stray \/ (pc \in {"done", "halt"} /\ res = "EMAP")

(* The array exists once the root was found good, and stays.               *)
NoArrayInv ==
  /\ pc \in {"start", "root", "check"} => tbls = <<>>
  /\ pc \in {"table", "log"} => tbls # <<>>
  /\ pc \notin {"done", "halt"} => res = "none"
  /\ pc = "done" => res # "none"
  /\ res = "SUCCESS" => pc = "done" /\ tbls # <<>>

(* The root is a pointer to something that looks like a table, and to the  *)
(* firmware's root if every mapping returned its own page.                 *)
HasRoot == pc \in {"check", "table", "log"} \/ (pc = "done" /\ tbls # <<>>)
RootInv ==
  HasRoot =>
    /\ root.kind = "mapped" /\ root.table.length \in Nat
    /\ root.table.entries \in Seq(Nat) /\ n_tbls \in Int
    /\ n_tbls <= Len(root.table.entries)
    /\ ~stray => Whole(root, fw.root)

(* In an array all of the tables before i are mapped and nothing is behind *)
(* i.  What is at i itself tells whether the loop failed there.            *)
ShapeInv ==
  pc # "halt" /\ tbls # <<>> =>
    /\ DOMAIN tbls = 0..n_tbls /\ n_tbls > 0
    /\ i \in 0..n_tbls
    /\ \A k \in 0..n_tbls : k < i => tbls[k].kind = "mapped"
    /\ \A k \in 0..n_tbls : k > i => tbls[k] = NULL
    /\ pc \in {"log", "done"} => res = "EMAP" \/ i = n_tbls
    /\ pc = "done" => res \in {"SUCCESS", "EMAP"}
    /\ res # "EMAP" => tbls[i] = NULL
    /\ res = "EMAP" => i < n_tbls

(* The tables before i are the right ones if every mapping returned its    *)
(* own page.                                                               *)
ArrayInv ==
  pc # "halt" /\ tbls # <<>> /\ ~stray =>
    /\ \A k \in 0..n_tbls : k < i => Whole(tbls[k], Entry(k))
    /\ res = "EMAP" => tbls[i] = Bogus \/ Right(tbls[i], Entry(i))
CountInv == pc \in {"start", "root", "check"} => i = 0

AnswerInv ==
  answer.sig # "none" => pc = "done" /\ tbls # <<>> /\ LookupsAgree

IInv ==
  /\ TypeInv /\ WildInv /\ NoArrayInv /\ RootInv /\ ShapeInv /\ ArrayInv
  /\ CountInv /\ AnswerInv

-----------------------------------------------------------------------------
(* The order of the natural numbers, as a relation, is well-founded.       *)
LEMMA NatOrder ==
  \E R : IsWellFoundedOn(R, Nat) /\ \A x, y \in Nat : x < y => <<x, y>> \in R
<1> DEFINE R == OpToRel(<, Nat)
<1>1. \A x, y \in Nat : x < y => <<x, y>> \in R
  BY DEF OpToRel
<1>2. IsWellFoundedOn(R, Nat)
  BY NatLessThanWellFounded DEF R
<1> QED BY <1>1, <1>2, Zenon

(* Min, by which Walk finds the end of a walk, is what its name says.      *)
LEMMA MinIsLeast ==
  ASSUME NEW S \in SUBSET Nat, S # {}
  PROVE  Min(S) \in S /\ \A y \in S : Min(S) <= y
<1>1. PICK R : IsWellFoundedOn(R, Nat) /\ \A x, y \in Nat : x < y => <<x, y>> \in R
  BY NatOrder, Zenon
<1>2. IsWellFoundedOn(R, Nat)
  BY <1>1
<1>3. PICK x \in S : \A y \in S : ~(<<y, x>> \in R)
  BY <1>2, WFMin, Zenon
<1>4. ASSUME NEW y \in S PROVE x <= y
  <2>1. ~(y < x)
    BY <1>1, <1>3, Zenon
  <2> QED BY <2>1
<1> QED BY <1>4, Zenon DEF Min

(* The pages of some bytes reach to the last one, and the pages of at      *)
(* least one byte to the end of the page in which it is.                   *)
LEMMA PagesCover ==
  ASSUME NEW a \in Nat, NEW n \in Nat, n > 0
  PROVE  LET end == PAGE_SIZE * ((a + n + PAGE_SIZE - 1) \div PAGE_SIZE)
         IN  end \in Nat /\ a + n <= end /\ a + (PAGE_SIZE - (a % PAGE_SIZE)) <= end
<1> DEFINE q == (a + n + PAGE_SIZE - 1) \div PAGE_SIZE
           d == a \div PAGE_SIZE
<1>1. q \in Nat /\ d \in Nat /\ a + n <= PAGE_SIZE * q
  BY PageAssumption
<1>2. a = PAGE_SIZE * d + (a % PAGE_SIZE) /\ a % PAGE_SIZE \in 0..(PAGE_SIZE - 1)
  BY PageAssumption
<1>3. PAGE_SIZE * q > PAGE_SIZE * d
  BY <1>1, <1>2, PageAssumption
<1> HIDE DEF q, d
<1>4. q >= d + 1
  BY <1>1, <1>3, PageAssumption
<1>5. PAGE_SIZE * q >= PAGE_SIZE * (d + 1)
  BY <1>1, <1>4, PageAssumption
<1>6. PAGE_SIZE * q \in Nat /\ PAGE_SIZE * (d + 1) = PAGE_SIZE * d + PAGE_SIZE
  BY <1>1, PageAssumption
<1>7. a + n <= PAGE_SIZE * q /\ a + (PAGE_SIZE - (a % PAGE_SIZE)) <= PAGE_SIZE * q
  BY <1>1, <1>2, <1>5, <1>6, PageAssumption
<1> QED BY <1>6, <1>7 DEF q

(* What a table must look like for the loop over its entries.              *)
RootLike(t) ==
  /\ t.length \in Nat /\ t.entries \in Seq(Nat)
  /\ (t.length - HEADER) \div Width(fw.type) \in Int
  /\ (t.length - HEADER) \div Width(fw.type) <= Len(t.entries)

LEMMA OthersLikeRoot ==
  ASSUME NEW t \in Others
  PROVE  RootLike(t)
<1> DEFINE x == t.length - HEADER  n == Len(t.entries)
<1>1. x \in Int /\ n \in Nat /\ n >= x \div 4
  BY OthersAssumption, PageAssumption
<1> HIDE DEF x, n
<1>2. x \div 4 \in Int /\ x \div 8 \in Int /\ x \div 8 <= n
  BY <1>1
<1>3. x \div Width(fw.type) \in Int /\ x \div Width(fw.type) <= n
  BY <1>1, <1>2 DEF Width
<1> QED BY <1>3, OthersAssumption DEF RootLike, x, n

LEMMA FirmwareTables ==
  ASSUME fw \in Firmwares
  PROVE  /\ \A a \in DOMAIN fw.tables :
              a \in Nat /\ fw.tables[a].length \in Nat /\ fw.tables[a].length >= HEADER
         /\ fw.root \in DOMAIN fw.tables
         /\ RootLike(fw.tables[fw.root])
<1> DEFINE t == fw.tables[fw.root]
<1>1. /\ \A a \in DOMAIN fw.tables :
           a \in Nat /\ fw.tables[a].length \in Nat /\ fw.tables[a].length >= HEADER
      /\ fw.root \in DOMAIN fw.tables
      /\ t.entries \in Seq(DOMAIN fw.tables) /\ DOMAIN fw.tables \subseteq Nat
      /\ Len(t.entries) = (t.length - HEADER) \div Width(fw.type)
  BY FirmwareAssumption
<1>2. t.length \in Nat
  BY <1>1
<1> HIDE DEF t
<1>3. t.entries \in Seq(Nat) /\ Len(t.entries) \in Nat
  BY <1>1
<1> QED BY <1>1, <1>2, <1>3 DEF RootLike, t

(* So the bytes a mapping was made for can be read, and those up to the    *)
(* end of its first page.                                                  *)
LEMMA MappingReaches ==
  ASSUME fw \in Firmwares, NEW a \in Nat, NEW n \in Nat, n > 0, NEW ptr \in Mapping(a, n)
  PROVE  /\ ptr.kind = "mapped" /\ ptr.paddr = a /\ Readable(ptr, n)
         /\ \A m \in Nat : m <= PAGE_SIZE - (a % PAGE_SIZE) => Readable(ptr, m)
         /\ a = fw.root => RootLike(ptr.table)
         /\ a \in DOMAIN fw.tables => ptr.table.length \in Nat
         /\ ptr.own /\ a \in DOMAIN fw.tables => ptr.table = fw.tables[a]
         /\ ptr.own \in BOOLEAN /\ ptr.table.length \in Nat
<1> DEFINE end == PAGE_SIZE * ((a + n + PAGE_SIZE - 1) \div PAGE_SIZE)
           left == PAGE_SIZE - (a % PAGE_SIZE)
<1>1. end \in Nat /\ a + n <= end /\ a + left <= end
  BY PagesCover
<1>2. left \in Int /\ PAGE_SIZE \in Nat
  BY PageAssumption
<1>3. \/ \E t \in Contents(a) : ptr = Pointer(TRUE, a, end, t)
      \/ \E t \in Others : ptr = Pointer(FALSE, a, end + PAGE_SIZE, t)
  BY DEF Mapping
<1> HIDE DEF end, left
<1>4. /\ ptr.kind = "mapped" /\ ptr.paddr = a
      /\ ptr.end \in Nat /\ a + n <= ptr.end /\ a + left <= ptr.end
  BY <1>1, <1>2, <1>3 DEF Pointer
<1>5. \/ ptr.own = TRUE /\ ptr.table \in Contents(a)
      \/ ptr.own = FALSE /\ ptr.table \in Others
  BY <1>3 DEF Pointer
<1>6. Readable(ptr, n)
  BY <1>4 DEF Readable
<1>7. \A m \in Nat : m <= left => Readable(ptr, m)
  BY <1>2, <1>4 DEF Readable
<1>8. a \in DOMAIN fw.tables => ptr.table = fw.tables[a] \/ ptr.table \in Others
  BY <1>5 DEF Contents
<1>9. a = fw.root => RootLike(ptr.table)
  BY <1>8, OthersLikeRoot, FirmwareTables
<1>10. ptr.table.length \in Nat
  BY <1>5, OthersAssumption, FirmwareTables DEF Contents
<1>11. ptr.own /\ a \in DOMAIN fw.tables => ptr.table = fw.tables[a]
  BY <1>5 DEF Contents
<1> QED BY <1>4, <1>5, <1>6, <1>7, <1>9, <1>10, <1>11 DEF left

(* map_table: no byte that was not mapped is read.  If it succeeds what    *)
(* *out points to is mapped, and it is the table to its last byte if every *)
(* mapping returned its own page; if it fails *out may be anything but     *)
(* NULL.                                                                   *)
LEMMA MapTable ==
  ASSUME fw \in Firmwares, NEW a \in Nat, NEW o \in map_table(a)
  PROVE  /\ o.wild = FALSE /\ o.stray \in BOOLEAN
         /\ o.res \in {"SUCCESS", "EMAP", "halt"}
         /\ o.res = "SUCCESS" => o.ptr.kind = "mapped"
         /\ o.res = "SUCCESS" /\ a = fw.root => RootLike(o.ptr.table)
         /\ ~o.stray /\ a \in DOMAIN fw.tables =>
              /\ o.res = "SUCCESS" => Whole(o.ptr, a)
              /\ o.res = "EMAP" => o.ptr = Bogus \/ Right(o.ptr, a)
<1> DEFINE left == PAGE_SIZE - (a % PAGE_SIZE)
<1>0. HEADER \in Nat /\ HEADER > 0 /\ HEADER >= 8 /\ left \in Nat
  BY PageAssumption
<1>1. ASSUME o \in Unmapped
      PROVE  o = Outcome("EMAP", Bogus, FALSE, FALSE) \/ o = Outcome("halt", NULL, FALSE, FALSE)
  BY <1>1 DEF Unmapped
<1>2. CASE o \in Unmapped
  <2>1. /\ o.wild = FALSE /\ o.stray = FALSE /\ o.res \in {"EMAP", "halt"}
        /\ o.res = "EMAP" => o.ptr = Bogus
    BY <1>1, <1>2 DEF Outcome
  <2> HIDE DEF left
  <2> QED BY <2>1
<1>3. CASE o \notin Unmapped
  <2> DEFINE rest(head) ==
        IF head.table.length > left THEN MapWhole(head, a)
        ELSE {Outcome("SUCCESS", head, ~Readable(head, 8), ~head.own)}
  <2>1. PICK head \in Mapping(a, HEADER) : o \in rest(head)
    BY <1>3 DEF map_table, Table
  <2>2. /\ head.kind = "mapped" /\ head.paddr = a /\ Readable(head, HEADER)
        /\ \A m \in Nat : m <= left => Readable(head, m)
        /\ a = fw.root => RootLike(head.table)
        /\ head.own /\ a \in DOMAIN fw.tables => head.table = fw.tables[a]
        /\ head.own \in BOOLEAN /\ head.table.length \in Nat
    BY <1>0, MappingReaches
  <2>3. Readable(head, 8)
    <3>1. head.end \in Int
      <4>1. (PAGE_SIZE * ((a + HEADER + PAGE_SIZE - 1) \div PAGE_SIZE)) \in Nat
        BY <1>0, PagesCover
      <4> QED BY <4>1, PageAssumption DEF Mapping, Pointer
    <3> QED BY <1>0, <2>2, <3>1 DEF Readable
  <2> DEFINE long == head.table.length > left
  <2>4. CASE long
    <3>1. o \in MapWhole(head, a)
      BY <2>1, <2>4
    <3>2. \/ o = Outcome("EMAP", head, FALSE, ~head.own)
          \/ o = Outcome("halt", head, FALSE, ~head.own)
          \/ \E ptr \in Mapping(a, head.table.length) :
               o = Outcome("SUCCESS", ptr, FALSE, ~head.own \/ ~ptr.own)
      BY <2>3, <3>1 DEF MapWhole, Table
    <3>3. CASE o = Outcome("EMAP", head, FALSE, ~head.own)
      BY <2>2, <3>3 DEF Outcome, Right
    <3>4. CASE o = Outcome("halt", head, FALSE, ~head.own)
      BY <2>2, <3>4 DEF Outcome
    <3>5. ASSUME NEW ptr \in Mapping(a, head.table.length),
                 o = Outcome("SUCCESS", ptr, FALSE, ~head.own \/ ~ptr.own)
          PROVE  /\ o.wild = FALSE /\ o.stray \in BOOLEAN
                 /\ o.res = "SUCCESS" /\ o.ptr.kind = "mapped"
                 /\ a = fw.root => RootLike(o.ptr.table)
                 /\ ~o.stray /\ a \in DOMAIN fw.tables => Whole(o.ptr, a)
      <4>1. head.table.length > 0
        BY <1>0, <2>2, <2>4
      <4> DEFINE len == head.table.length
      <4>2. len \in Nat /\ len > 0
        BY <2>2, <4>1
      <4> HIDE DEF len
      <4>3. ptr \in Mapping(a, len)
        BY DEF len
      <4>4. /\ ptr.kind = "mapped" /\ ptr.paddr = a /\ Readable(ptr, len)
            /\ a = fw.root => RootLike(ptr.table)
            /\ ptr.own /\ a \in DOMAIN fw.tables => ptr.table = fw.tables[a]
            /\ ptr.own \in BOOLEAN
        BY <4>2, <4>3, MappingReaches
      <4>5. o.ptr = ptr /\ o.wild = FALSE /\ o.res = "SUCCESS" /\ o.stray = (~head.own \/ ~ptr.own)
        BY <3>5 DEF Outcome
      <4> QED BY <2>2, <4>4, <4>5 DEF Whole, Right, len
    <3> QED BY <3>2, <3>3, <3>4, <3>5
  <2>5. CASE ~long
    <3>1. o = Outcome("SUCCESS", head, FALSE, ~head.own)
      BY <2>1, <2>3, <2>5
    <3>2. head.table.length <= left
      BY <1>0, <2>2, <2>5
    <3>3. Readable(head, head.table.length)
      BY <2>2, <3>2
    <3>4. o.ptr = head /\ o.wild = FALSE /\ o.res = "SUCCESS" /\ o.stray = ~head.own
      BY <3>1 DEF Outcome
    <3> QED BY <2>2, <3>3, <3>4 DEF Whole, Right
  <2> QED BY <2>4, <2>5
<1> QED BY <1>2, <1>3

(* The list of a firmware's root, and its length as acpi.c computes it.    *)
LEMMA RootList ==
  ASSUME fw \in Firmwares
  PROVE  /\ fw.root \in DOMAIN fw.tables /\ fw.root \in Nat
         /\ Listed \in Nat
         /\ \A k \in 0..(Listed - 1) : Entry(k) \in DOMAIN fw.tables
         /\ Right(root, fw.root) => n_tbls = Listed
  BY FirmwareAssumption DEF Listed, Entry, n_tbls, Table, Right

(* mem_set clears the words that it is asked for.                          *)
LEMMA ClearsAll ==
  ASSUME NEW n \in Nat, NEW k \in 0..n
  PROVE  8 * (k + 1) <= mem_set(8 * (n + 1))
<1>1. (8 * (n + 1)) \div 8 = n + 1
  OBVIOUS
<1> QED BY <1>1 DEF mem_set

-----------------------------------------------------------------------------
(* One lemma per action.                                                   *)
LEMMA InitHolds == Init => IInv
<1> SUFFICES ASSUME Init PROVE IInv
  OBVIOUS
<1>1. answer.sig = "none"
  BY DEF Init
<1> QED BY <1>1 DEF Init, IInv, TypeInv, WildInv, NoArrayInv, RootInv, HasRoot, ShapeInv,
                    ArrayInv, CountInv, AnswerInv

LEMMA InitSteps == IInv /\ acpi_init => IInv'
  BY DEF acpi_init, Return, IInv, TypeInv, WildInv, NoArrayInv, RootInv, HasRoot, ShapeInv,
         ArrayInv, CountInv, AnswerInv

LEMMA GenericSteps == IInv /\ acpi_init_generic => IInv'
<1> SUFFICES ASSUME IInv, acpi_init_generic PROVE IInv'
  OBVIOUS
<1>1. fw \in Firmwares /\ fw.root \in DOMAIN fw.tables /\ fw.root \in Nat /\ pc = "root"
  BY RootList DEF IInv, TypeInv, acpi_init_generic
<1>2. PICK o \in map_table(fw.root) :
        /\ root' = o.ptr /\ stray' = (stray \/ o.stray) /\ wild' = (wild \/ o.wild)
        /\ CASE o.res = "SUCCESS" -> pc' = "check" /\ UNCHANGED res
             [] o.res = "EMAP" -> Return("EMAP")
             [] OTHER -> Halt
  BY DEF acpi_init_generic
<1>3. /\ o.wild = FALSE /\ o.stray \in BOOLEAN
      /\ o.res \in {"SUCCESS", "EMAP", "halt"}
      /\ o.res = "SUCCESS" => o.ptr.kind = "mapped" /\ RootLike(o.ptr.table)
      /\ ~o.stray => (o.res = "SUCCESS" => Whole(o.ptr, fw.root))
  BY <1>1, MapTable
<1>4. wild' \in BOOLEAN /\ stray' \in BOOLEAN /\ (wild' => stray')
  BY <1>1, <1>2, <1>3 DEF IInv, WildInv, TypeInv
<1>5. tbls = <<>> /\ tbls' = <<>> /\ fw' = fw /\ i' = i /\ answer' = answer /\ res = "none" /\ i = 0
  BY <1>1 DEF acpi_init_generic, IInv, NoArrayInv, CountInv
<1>6. \/ o.res = "SUCCESS" /\ pc' = "check" /\ res' = res
      \/ o.res = "EMAP" /\ pc' = "done" /\ res' = "EMAP"
      \/ o.res = "halt" /\ pc' = "halt" /\ res' = res
  BY <1>2, <1>3 DEF Return, Halt
<1>7. answer.sig = "none"
  BY <1>1 DEF IInv, AnswerInv
<1>8. RootInv'
  <2> SUFFICES ASSUME HasRoot' PROVE RootInv'
    BY DEF RootInv
  <2>1. o.res = "SUCCESS"
    BY <1>5, <1>6 DEF HasRoot
  <2>2. n_tbls' = (o.ptr.table.length - HEADER) \div Width(fw.type)
    BY <1>2, <1>5 DEF n_tbls, Table, Width
  <2>3. /\ root'.kind = "mapped" /\ root'.table.length \in Nat
        /\ root'.table.entries \in Seq(Nat) /\ n_tbls' \in Int
        /\ n_tbls' <= Len(root'.table.entries)
    BY <1>2, <1>3, <2>1, <2>2 DEF RootLike
  <2>4. ~stray' => Whole(root', fw.root)
    BY <1>2, <1>3, <2>1
  <2>5. ~stray' => Whole(root, fw.root)'
    BY <1>5, <2>4 DEF Whole, Right, Readable
  <2> QED BY <2>3, <2>5 DEF RootInv
<1> QED BY <1>1, <1>4, <1>5, <1>6, <1>7, <1>8
        DEF IInv, TypeInv, WildInv, NoArrayInv, ShapeInv, ArrayInv, CountInv, AnswerInv

(* What a step keeps that leaves the root alone.                           *)
LEMMA RootKept ==
  ASSUME IInv, HasRoot, fw' = fw, root' = root, stray' \/ stray' = stray
  PROVE  RootInv' /\ n_tbls' = n_tbls
<1>1. n_tbls' = n_tbls
  BY DEF n_tbls, Table, Width
<1>2. Whole(root, fw.root)' <=> Whole(root, fw.root)
  BY DEF Whole, Right, Readable
<1> QED BY <1>1, <1>2 DEF IInv, RootInv

LEMMA CheckSteps == IInv /\ CheckRoot => IInv'
<1> SUFFICES ASSUME IInv, CheckRoot PROVE IInv'
  OBVIOUS
<1>1. /\ pc = "check" /\ fw \in Firmwares /\ tbls = <<>> /\ i = 0 /\ res = "none" /\ HasRoot
      /\ wild \in BOOLEAN /\ stray \in BOOLEAN /\ (wild => stray) /\ answer.sig = "none"
      /\ n_tbls \in Int /\ (~stray => Whole(root, fw.root))
  BY DEF CheckRoot, IInv, TypeInv, NoArrayInv, CountInv, WildInv, RootInv, AnswerInv, HasRoot
<1>2. ~stray => Readable(root, Table(root).length)
  BY <1>1 DEF Whole, Right, Table
<1>3. wild' \in BOOLEAN /\ (wild' => stray)
  BY <1>1, <1>2 DEF CheckRoot
<1>4. fw' = fw /\ root' = root /\ i' = 0 /\ answer' = answer /\ stray' = stray
  BY <1>1 DEF CheckRoot
<1> DEFINE n == n_tbls
<1>5. \/ pc' = "done" /\ res' \in {"EINVAL", "EINTEGRITY"} /\ tbls' = <<>>
      \/ pc' = "halt" /\ res' = "none" /\ tbls' = <<>>
      \/ /\ pc' = "table" /\ res' = "none" /\ n > 0
         /\ tbls' = [k \in 0..n |-> NULL]
  <2> DEFINE clear(k) == 8 * (k + 1) <= mem_set(8 * (n + 1))
  <2>1. n > 0 => \A k \in 0..n : clear(k)
    <3> HIDE DEF n
    <3> QED BY <1>1, ClearsAll DEF n
  <2>2. n > 0 => [k \in 0..n |-> IF clear(k) THEN NULL ELSE Stale] = [k \in 0..n |-> NULL]
    BY <2>1
  <2>3. \/ pc' = "done" /\ res' \in {"EINVAL", "EINTEGRITY"} /\ tbls' = tbls
        \/ pc' = "halt" /\ res' = res /\ tbls' = tbls
        \/ /\ pc' = "table" /\ res' = res /\ n > 0
           /\ tbls' = [k \in 0..n |-> IF clear(k) THEN NULL ELSE Stale]
    BY Zenon DEF CheckRoot, Return, Halt
  <2> HIDE DEF clear, n
  <2> QED BY <1>1, <2>2, <2>3
<1>6. RootInv' /\ n_tbls' = n
  BY <1>1, <1>4, RootKept
<1> HIDE DEF n
<1>7. CASE /\ tbls' = <<>>
           /\ \/ pc' = "done" /\ res' \in {"EINVAL", "EINTEGRITY"}
              \/ pc' = "halt" /\ res' = "none"
  BY <1>1, <1>3, <1>4, <1>6, <1>7
     DEF IInv, TypeInv, WildInv, NoArrayInv, ShapeInv, ArrayInv, CountInv, AnswerInv
<1>8. CASE /\ pc' = "table" /\ res' = "none" /\ n > 0
           /\ tbls' = [k \in 0..n |-> NULL]
  <2>1. n \in Nat
    BY <1>1, <1>8 DEF n
  <2>2. tbls' # <<>>
    <3>1. 0 \in DOMAIN tbls' /\ 0 \notin DOMAIN <<>>
      BY <1>8, <2>1
    <3> QED BY <3>1
  <2>3. ShapeInv' /\ ArrayInv'
    BY <1>4, <1>6, <1>8, <2>1 DEF ShapeInv, ArrayInv
  <2> QED BY <1>1, <1>3, <1>4, <1>6, <1>8, <2>2, <2>3
          DEF IInv, TypeInv, WildInv, NoArrayInv, CountInv, AnswerInv
<1> QED BY <1>5, <1>7, <1>8

LEMMA MapSteps == IInv /\ MapNext => IInv'
<1> SUFFICES ASSUME IInv, MapNext PROVE IInv'
  OBVIOUS
<1> DEFINE n == n_tbls
<1>1. /\ pc = "table" /\ fw \in Firmwares /\ tbls # <<>> /\ res = "none" /\ HasRoot
      /\ wild \in BOOLEAN /\ stray \in BOOLEAN /\ (wild => stray) /\ answer.sig = "none"
      /\ ~stray => Whole(root, fw.root)
      /\ root.table.entries \in Seq(Nat) /\ n \in Int /\ n <= Len(root.table.entries)
  BY DEF MapNext, IInv, TypeInv, NoArrayInv, WildInv, RootInv, AnswerInv, HasRoot
<1>3. /\ DOMAIN tbls = 0..n /\ n > 0 /\ i \in 0..n
      /\ \A k \in 0..n : k < i => tbls[k].kind = "mapped"
      /\ \A k \in 0..n : k > i => tbls[k] = NULL
      /\ tbls[i] = NULL
      /\ ~stray => \A k \in 0..n : k < i => Whole(tbls[k], Entry(k))
  BY <1>1 DEF IInv, ShapeInv, ArrayInv
<1>4. fw' = fw /\ root' = root /\ answer' = answer
  BY <1>1 DEF MapNext
<1>7. ASSUME DOMAIN tbls' = 0..n PROVE tbls' # <<>>
  <2>1. 0 \in DOMAIN tbls' /\ 0 \notin DOMAIN <<>>
    BY <1>1, <1>3, <1>7
  <2> QED BY <2>1
<1>8. CASE i = n
  <2>1. /\ tbls' = [tbls EXCEPT ![n] = NULL] /\ pc' = "log"
        /\ i' = i /\ res' = res /\ wild' = wild /\ stray' = stray
    BY <1>8 DEF MapNext
  <2>6. RootInv' /\ n_tbls' = n
    BY <1>1, <1>4, <2>1, RootKept
  <2> HIDE DEF n
  <2>2. DOMAIN tbls' = 0..n /\ \A k \in 0..n : tbls'[k] = tbls[k]
    BY <1>3, <1>8, <2>1
  <2>3. ShapeInv'
    BY <1>1, <1>3, <1>8, <2>1, <2>2, <2>6 DEF ShapeInv
  <2>4. ArrayInv'
    BY <1>1, <1>3, <1>4, <1>8, <2>1, <2>2, <2>6 DEF ArrayInv, Whole, Right, Entry, Readable
  <2> QED BY <1>1, <1>4, <1>7, <2>1, <2>2, <2>3, <2>4, <2>6
          DEF IInv, TypeInv, WildInv, NoArrayInv, CountInv, AnswerInv
<1>9. CASE i # n
  <2> DEFINE a == Table(root).entries[i + 1]
  <2>1. a \in Nat
    <3>1. i + 1 \in 1..Len(root.table.entries)
      <4> HIDE DEF n
      <4> QED BY <1>1, <1>3, <1>9
    <3> QED BY <1>1, <3>1 DEF Table
  <2>0. ~stray => a = Entry(i) /\ a \in DOMAIN fw.tables
    <3>1. ~stray => n = Listed /\ i \in 0..(Listed - 1)
      <4>1. ~stray => n = Listed
        BY <1>1, RootList DEF Whole
      <4> HIDE DEF n
      <4> QED BY <1>1, <1>3, <1>9, <4>1
    <3> QED BY <1>1, <3>1, RootList DEF Whole, Right, Table, Entry
  <2>2. PICK o \in map_table(a) :
          /\ tbls' = [tbls EXCEPT ![i] = o.ptr]
          /\ stray' = (stray \/ o.stray) /\ wild' = (wild \/ o.wild)
          /\ CASE o.res = "SUCCESS" -> i' = i + 1 /\ pc' = pc /\ UNCHANGED res
               [] o.res = "EMAP" -> Return("EMAP") /\ UNCHANGED i
               [] OTHER -> Halt /\ UNCHANGED i
    BY <1>9 DEF MapNext
  <2> HIDE DEF a
  <2>3. /\ o.wild = FALSE /\ o.stray \in BOOLEAN
        /\ o.res \in {"SUCCESS", "EMAP", "halt"}
        /\ o.res = "SUCCESS" => o.ptr.kind = "mapped"
        /\ ~o.stray /\ a \in DOMAIN fw.tables =>
             /\ o.res = "SUCCESS" => Whole(o.ptr, a)
             /\ o.res = "EMAP" => o.ptr = Bogus \/ Right(o.ptr, a)
    BY <1>1, <2>1, <2>2, MapTable
  <2>4. wild' \in BOOLEAN /\ stray' \in BOOLEAN /\ (wild' => stray') /\ (~stray' => ~stray /\ ~o.stray)
    BY <1>1, <2>2, <2>3
  <2>5. \/ o.res = "SUCCESS" /\ i' = i + 1 /\ pc' = "table" /\ res' = "none"
        \/ o.res = "EMAP" /\ pc' = "done" /\ res' = "EMAP" /\ i' = i
        \/ o.res = "halt" /\ pc' = "halt" /\ res' = "none" /\ i' = i
    BY <1>1, <2>2, <2>3 DEF Return, Halt
  <2>r. RootInv' /\ n_tbls' = n
    BY <1>1, <1>4, <2>4, RootKept
  <2> HIDE DEF n
  <2>6. /\ DOMAIN tbls' = 0..n /\ tbls'[i] = o.ptr
        /\ \A k \in 0..n : k # i => tbls'[k] = tbls[k]
    BY <1>3, <2>2
  <2>7. n \in Nat /\ i \in 0..(n - 1)
    BY <1>1, <1>3, <1>9
  <2>8. ShapeInv'
    BY <1>3, <2>3, <2>5, <2>6, <2>7, <2>r DEF ShapeInv
  <2>9. ArrayInv'
    <3> SUFFICES ASSUME ~stray', pc' # "halt" PROVE ArrayInv'
      BY DEF ArrayInv
    <3>0. /\ \A k \in 0..n : k < i => Whole(tbls[k], Entry(k))
          /\ o.res = "SUCCESS" => Whole(o.ptr, Entry(i))
          /\ o.res = "EMAP" => o.ptr = Bogus \/ Right(o.ptr, Entry(i))
      BY <1>3, <2>0, <2>3, <2>4
    <3>1. CASE o.res = "SUCCESS"
      <4>1. \A k \in 0..n : k < i' => Whole(tbls'[k], Entry(k))
        BY <2>5, <2>6, <2>7, <3>0, <3>1
      <4>2. \A k \in 0..n : k < i' => Whole(tbls[k], Entry(k))'
        BY <1>4, <4>1 DEF Whole, Right, Entry, Readable
      <4> QED BY <2>5, <2>r, <3>1, <4>2 DEF ArrayInv
    <3>2. CASE o.res = "EMAP"
      <4>1. \A k \in 0..n : k < i' => Whole(tbls'[k], Entry(k))
        BY <2>5, <2>6, <2>7, <3>0, <3>2
      <4>2. \A k \in 0..n : k < i' => Whole(tbls[k], Entry(k))'
        BY <1>4, <4>1 DEF Whole, Right, Entry, Readable
      <4>3. tbls'[i'] = Bogus \/ Right(tbls'[i'], Entry(i))
        BY <2>5, <2>6, <3>0, <3>2
      <4>4. tbls'[i'] = Bogus \/ Right(tbls[i], Entry(i))'
        BY <1>4, <2>5, <3>2, <4>3 DEF Right, Entry
      <4> QED BY <2>r, <4>2, <4>4 DEF ArrayInv
    <3> QED BY <2>3, <2>5, <3>1, <3>2
  <2> QED BY <1>1, <1>4, <1>7, <2>4, <2>5, <2>6, <2>8, <2>9, <2>r
          DEF IInv, TypeInv, WildInv, NoArrayInv, CountInv, AnswerInv
<1> QED BY <1>8, <1>9

(* What a walk finds in an array.  The entries that it passed are tables   *)
(* of other names, so that it stops at the first one of the name sought,   *)
(* if it comes that far.                                                   *)
LEMMA WalkFinds ==
  ASSUME IInv, pc \in {"log", "done"}, tbls # <<>>, ~stray, NEW sig
  PROVE  \E m \in 0..Listed :
           /\ Walk(sig) = tbls[m]
           /\ \/ /\ m < Listed /\ Right(tbls[m], Entry(m))
                 /\ fw.tables[Entry(m)].sig = sig
                 /\ res = "EMAP" \/ Readable(tbls[m], fw.tables[Entry(m)].length)
              \/ tbls[m] = NULL /\ (res = "EMAP" \/ m = Listed)
              \/ tbls[m] = Bogus /\ res = "EMAP"
           /\ \A k \in 0..Listed : k < m => fw.tables[Entry(k)].sig # sig
<1> DEFINE ends == {k \in DOMAIN tbls : tbls[k].kind # "mapped" \/ Table(tbls[k]).sig = sig}
<1>0. HasRoot /\ fw \in Firmwares /\ Right(root, fw.root) /\ pc # "halt"
  BY DEF IInv, TypeInv, HasRoot, RootInv, Whole
<1>1. Listed \in Nat /\ n_tbls = Listed
  BY <1>0, RootList
<1>2. /\ DOMAIN tbls = 0..Listed /\ Listed > 0 /\ i \in 0..Listed
      /\ \A k \in 0..Listed : k < i => Whole(tbls[k], Entry(k))
      /\ \A k \in 0..Listed : k > i => tbls[k] = NULL
      /\ res = "EMAP" \/ i = Listed
      /\ IF res = "EMAP"
         THEN i < Listed /\ (tbls[i] = Bogus \/ Right(tbls[i], Entry(i)))
         ELSE tbls[i] = NULL
  BY <1>0, <1>1 DEF IInv, ArrayInv, ShapeInv
<1>3. NULL.kind = "null" /\ Bogus.kind = "bogus"
  BY DEF NULL, Bogus
<1>4. \A k \in 0..Listed :
        \/ k < Listed /\ Right(tbls[k], Entry(k)) /\ tbls[k].kind = "mapped"
           /\ (res = "EMAP" \/ k < i)
        \/ tbls[k] = NULL /\ k >= i
        \/ tbls[k] = Bogus /\ res = "EMAP"
  BY <1>1, <1>2 DEF Whole, Right
<1>5. tbls[Listed].kind # "mapped"
  BY <1>1, <1>2, <1>3
<1>6. ends \in SUBSET Nat /\ ends # {}
  BY <1>1, <1>2, <1>5
<1> DEFINE m == Min(ends)
<1>7. m \in ends /\ \A k \in ends : m <= k
  BY <1>6, MinIsLeast
<1>8. Walk(sig) = tbls[m]
  BY <1>6, Zenon DEF Walk
<1>9. m \in 0..Listed /\ (tbls[m].kind # "mapped" \/ tbls[m].table.sig = sig)
  BY <1>2, <1>7 DEF Table
<1>10. ASSUME NEW k \in 0..Listed, k < m PROVE fw.tables[Entry(k)].sig # sig
  <2> HIDE DEF m
  <2>1. k \notin ends
    <3> HIDE DEF ends
    <3> QED BY <1>1, <1>7, <1>9, <1>10
  <2>2. tbls[k].kind = "mapped" /\ tbls[k].table.sig # sig
    BY <1>2, <2>1 DEF Table
  <2> QED BY <1>3, <1>4, <2>2 DEF Right
<1> HIDE DEF m, ends
<1>11. CASE tbls[m].kind = "mapped"
  <2>1. /\ m < Listed /\ Right(tbls[m], Entry(m))
        /\ res = "EMAP" \/ m < i
    BY <1>3, <1>4, <1>9, <1>11
  <2>2. fw.tables[Entry(m)].sig = sig
    BY <1>9, <1>11, <2>1 DEF Right
  <2>3. res = "EMAP" \/ Readable(tbls[m], fw.tables[Entry(m)].length)
    BY <1>2, <1>9, <2>1 DEF Whole
  <2> QED BY <1>8, <1>9, <1>10, <2>1, <2>2, <2>3
<1>12. CASE tbls[m].kind # "mapped"
  <2>1. ASSUME tbls[m] = NULL PROVE res = "EMAP" \/ m = Listed
    BY <1>1, <1>2, <1>3, <1>4, <1>9, <2>1
  <2> QED BY <1>4, <1>8, <1>9, <1>10, <1>12, <2>1
<1> QED BY <1>11, <1>12

LEMMA LogSteps == IInv /\ LogTables => IInv'
<1> SUFFICES ASSUME IInv, LogTables PROVE IInv'
  OBVIOUS
<1>1. /\ pc = "log" /\ fw \in Firmwares /\ tbls # <<>> /\ res = "none" /\ HasRoot
      /\ wild \in BOOLEAN /\ stray \in BOOLEAN /\ (wild => stray) /\ answer.sig = "none"
  BY DEF LogTables, IInv, TypeInv, NoArrayInv, WildInv, RootInv, AnswerInv, HasRoot
<1>4. ~stray => Walk("none") = NULL
  <2> SUFFICES ASSUME ~stray PROVE Walk("none") = NULL
    OBVIOUS
  <2>1. PICK m \in 0..Listed :
          /\ Walk("none") = tbls[m]
          /\ \/ m < Listed /\ fw.tables[Entry(m)].sig = "none"
             \/ tbls[m] = NULL
    BY <1>1, WalkFinds
  <2>2. m < Listed => fw.tables[Entry(m)].sig # "none"
    BY <1>1, RootList, FirmwareAssumption
  <2> QED BY <2>1, <2>2
<1>5. /\ fw' = fw /\ root' = root /\ tbls' = tbls /\ i' = i /\ answer' = answer /\ stray' = stray
      /\ wild' \in BOOLEAN /\ (wild' => stray) /\ pc' = "done" /\ res' = "SUCCESS"
  BY <1>1, <1>4 DEF LogTables, Return
<1>6. RootInv' /\ n_tbls' = n_tbls
  BY <1>1, <1>5, RootKept
<1>7. ShapeInv'
  BY <1>1, <1>5, <1>6 DEF IInv, ShapeInv
<1>8. ArrayInv'
  BY <1>1, <1>5, <1>6 DEF IInv, ArrayInv, Entry, Whole, Right, Readable
<1> QED BY <1>1, <1>5, <1>6, <1>7, <1>8
        DEF IInv, TypeInv, WildInv, NoArrayInv, CountInv, AnswerInv

(* What a look-up returns is what the root's list says, if the whole list  *)
(* is in the array, and otherwise that or nothing.                         *)
LEMMA LookupAgrees ==
  ASSUME IInv, pc = "done", tbls # <<>>, ~stray, NEW sig
  PROVE  LET ptr == Walk(sig)
             got == IF ptr.kind = "mapped" /\ Table(ptr).sum THEN ptr.paddr ELSE -1
         IN  got = Expected(sig) \/ (res = "EMAP" /\ got = -1)
<1> DEFINE ptr == Walk(sig)
           entries == fw.tables[fw.root].entries
           same == {k \in DOMAIN entries : fw.tables[entries[k]].sig = sig}
<1>1. PICK m \in 0..Listed :
           /\ Walk(sig) = tbls[m]
           /\ \/ /\ m < Listed /\ Right(tbls[m], Entry(m))
                 /\ fw.tables[Entry(m)].sig = sig
              \/ tbls[m] = NULL /\ (res = "EMAP" \/ m = Listed)
              \/ tbls[m] = Bogus /\ res = "EMAP"
           /\ \A k \in 0..Listed : k < m => fw.tables[Entry(k)].sig # sig
  BY WalkFinds
<1>2. Listed \in Nat /\ DOMAIN entries = 1..Listed
  BY RootList, FirmwareAssumption DEF IInv, TypeInv, Listed
<1>3. same \in SUBSET Nat
  BY <1>2
<1>4. NULL.kind # "mapped" /\ Bogus.kind # "mapped"
  BY DEF NULL, Bogus
<1>5. CASE tbls[m].kind = "mapped"
  <2>1. /\ m < Listed /\ ptr.paddr = Entry(m) /\ ptr.table = fw.tables[Entry(m)]
        /\ fw.tables[Entry(m)].sig = sig
    BY <1>1, <1>4, <1>5 DEF Right
  <2>2. m + 1 \in same
    BY <1>2, <2>1 DEF Entry
  <2>3. \A k \in same : m + 1 <= k
    <3> SUFFICES ASSUME NEW k \in same, ~(m + 1 <= k) PROVE FALSE
      OBVIOUS
    <3>1. k \in 1..Listed /\ fw.tables[entries[k]].sig = sig
      BY <1>2
    <3>2. k - 1 \in 0..Listed /\ k - 1 < m /\ (k - 1) + 1 = k
      BY <1>2, <3>1
    <3>3. fw.tables[Entry(k - 1)].sig # sig
      BY <1>1, <3>2
    <3> QED BY <3>1, <3>2, <3>3 DEF Entry
  <2>4. Min(same) \in same /\ \A k \in same : Min(same) <= k
    BY <1>3, <2>2, MinIsLeast
  <2>5. Min(same) = m + 1
    <3> DEFINE s == Min(same)
    <3>1. s \in Nat /\ s <= m + 1 /\ m + 1 <= s
      BY <1>2, <1>3, <2>2, <2>3, <2>4
    <3> HIDE DEF s
    <3>2. s = m + 1
      BY <1>2, <3>1
    <3> QED BY <3>2 DEF s
  <2>6. Expected(sig) = IF fw.tables[Entry(m)].sum THEN Entry(m) ELSE -1
    BY <2>2, <2>5, Zenon DEF Expected, Entry
  <2>7. ptr.kind = "mapped" /\ Table(ptr).sum = fw.tables[Entry(m)].sum
    BY <1>1, <1>5, <2>1 DEF Table
  <2> QED BY <2>1, <2>6, <2>7
<1>6. CASE tbls[m].kind # "mapped" /\ res = "EMAP"
  BY <1>1, <1>6
<1>7. CASE tbls[m].kind # "mapped" /\ res # "EMAP"
  <2>1. m = Listed
    BY <1>1, <1>7 DEF Right
  <2>2. ASSUME NEW k \in 1..Listed PROVE fw.tables[entries[k]].sig # sig
    <3>1. k - 1 \in 0..Listed /\ k - 1 < Listed /\ (k - 1) + 1 = k
      BY <1>2
    <3>2. fw.tables[Entry(k - 1)].sig # sig
      BY <1>1, <2>1, <3>1
    <3> QED BY <3>1, <3>2 DEF Entry
  <2>3. same = {}
    BY <1>2, <2>2
  <2>4. Expected(sig) = -1
    BY <2>3, Zenon DEF Expected
  <2> QED BY <1>1, <1>7, <2>4
<1> QED BY <1>5, <1>6, <1>7

LEMMA GetSteps ==
  ASSUME NEW sig \in Sigs \cup {"NULL", "short"}
  PROVE  IInv /\ acpi_get_table(sig) => IInv'
<1> SUFFICES ASSUME IInv, acpi_get_table(sig) PROVE IInv'
  OBVIOUS
<1> DEFINE ptr == Walk(sig)
           found == ptr.kind = "mapped"
<1>1. /\ pc = "done" /\ fw' = fw /\ root' = root /\ tbls' = tbls /\ i' = i /\ res' = res
      /\ fw \in Firmwares /\ wild \in BOOLEAN /\ stray \in BOOLEAN /\ stray' = stray
  BY DEF acpi_get_table, IInv, TypeInv
<1>2. CASE tbls = <<>>
  <2>1. pc' = "halt" /\ answer' = answer /\ wild' = wild
    BY <1>2 DEF acpi_get_table
  <2>2. answer.sig = "none"
    BY <1>2 DEF IInv, AnswerInv
  <2> QED BY <1>1, <1>2, <2>1, <2>2
          DEF IInv, TypeInv, WildInv, NoArrayInv, RootInv, HasRoot, ShapeInv, ArrayInv, CountInv,
              AnswerInv
<1>3. CASE tbls # <<>>
  <2>1. pc' = "done"
    BY <1>1, <1>3 DEF acpi_get_table
  <2>2. TypeInv' /\ WildInv'
    <3>1. CASE sig \in {"NULL", "short"}
      <4>1. wild' = wild
        BY <1>3, <3>1 DEF acpi_get_table
      <4> QED BY <1>1, <2>1, <4>1 DEF IInv, TypeInv, WildInv
    <3>2. CASE sig \notin {"NULL", "short"}
      <4>1. wild' = (wild \/ ptr.kind \in {"bogus", "stale"}
                          \/ (found /\ ~Readable(ptr, Table(ptr).length)))
        BY <1>3, <3>2 DEF acpi_get_table
      <4>2. ~stray /\ res # "EMAP" =>
              /\ ptr.kind \notin {"bogus", "stale"}
              /\ found => Readable(ptr, Table(ptr).length)
        <5> SUFFICES ASSUME ~stray, res # "EMAP"
                     PROVE  /\ ptr.kind \notin {"bogus", "stale"}
                            /\ found => Readable(ptr, Table(ptr).length)
          OBVIOUS
        <5>1. PICK m \in 0..Listed :
                /\ Walk(sig) = tbls[m]
                /\ \/ /\ Right(tbls[m], Entry(m))
                      /\ Readable(tbls[m], fw.tables[Entry(m)].length)
                   \/ tbls[m] = NULL
          BY <1>1, <1>3, WalkFinds
        <5> QED BY <5>1 DEF Right, Table, NULL
      <4>3. wild' \in BOOLEAN /\ (wild' => wild \/ stray \/ res = "EMAP")
        BY <1>1, <4>1, <4>2
      <4> QED BY <1>1, <2>1, <4>3 DEF IInv, TypeInv, WildInv
    <3> QED BY <3>1, <3>2
  <2>3. RootInv' /\ ShapeInv' /\ ArrayInv' /\ NoArrayInv' /\ CountInv'
    <3>1. HasRoot
      BY <1>1, <1>3 DEF HasRoot
    <3>2. RootInv' /\ n_tbls' = n_tbls
      BY <1>1, <3>1, RootKept
    <3>3. ShapeInv'
      BY <1>1, <1>3, <2>1, <3>2 DEF IInv, ShapeInv
    <3>4. ArrayInv'
      BY <1>1, <1>3, <2>1, <3>2 DEF IInv, ArrayInv, Entry, Whole, Right, Readable
    <3> QED BY <1>1, <1>3, <2>1, <3>2, <3>3, <3>4 DEF IInv, NoArrayInv, CountInv
  <2>4. LookupsAgree'
    <3>1. CASE sig \in {"NULL", "short"}
      <4>1. answer' = [sig |-> sig, ptr |-> NULL]
        BY <1>3, <3>1 DEF acpi_get_table
      <4> DEFINE entries == fw.tables[fw.root].entries
      <4>2. \A k \in DOMAIN entries : fw.tables[entries[k]].sig # sig
        BY <1>1, <3>1, FirmwareAssumption
      <4>3. Expected(sig) = -1
        BY <4>2 DEF Expected
      <4>4. Expected(sig)' = Expected(sig)
        BY <1>1, Zenon DEF Expected
      <4> QED BY <4>1, <4>3, <4>4 DEF LookupsAgree
    <3>2. CASE sig \notin {"NULL", "short"}
      <4>1. answer' = [sig |-> sig, ptr |-> IF found /\ Table(ptr).sum THEN ptr ELSE NULL]
        BY <1>3, <3>2 DEF acpi_get_table
      <4>2. Expected(sig)' = Expected(sig)
        BY <1>1, Zenon DEF Expected
      <4> DEFINE got == IF found /\ Table(ptr).sum THEN ptr.paddr ELSE -1
      <4>3. ~stray => got = Expected(sig) \/ (res = "EMAP" /\ got = -1)
        BY <1>1, <1>3, LookupAgrees
      <4>4. (IF answer'.ptr = NULL THEN -1 ELSE answer'.ptr.paddr) = got
        BY <4>1 DEF NULL
      <4>5. answer'.sig = sig
        BY <4>1
      <4> HIDE DEF got
      <4> QED BY <1>1, <4>2, <4>3, <4>4, <4>5 DEF LookupsAgree
    <3> QED BY <3>1, <3>2
  <2> QED BY <1>1, <1>3, <2>1, <2>2, <2>3, <2>4 DEF IInv, AnswerInv
<1> QED BY <1>2, <1>3

-----------------------------------------------------------------------------
LEMMA Inductive == Spec => []IInv
<1>1. IInv /\ [Next]_vars => IInv'
  <2> SUFFICES ASSUME IInv, [Next]_vars PROVE IInv'
    OBVIOUS
  <2>1. CASE Next
    <3>1. CASE \E sig \in Sigs \cup {"NULL", "short"} : acpi_get_table(sig)
      BY <3>1, GetSteps
    <3> QED BY <2>1, <3>1, InitSteps, GenericSteps, CheckSteps, MapSteps, LogSteps DEF Next
  <2>2. CASE UNCHANGED vars
    <3>1. /\ fw' = fw /\ pc' = pc /\ root' = root /\ tbls' = tbls /\ i' = i /\ res' = res
          /\ stray' = stray /\ wild' = wild /\ answer' = answer
      BY <2>2 DEF vars
    <3>2. n_tbls' = n_tbls
      BY <3>1 DEF n_tbls, Table, Width
    <3>3. RootInv' /\ ShapeInv' /\ ArrayInv'
      BY <3>1, <3>2 DEF IInv, RootInv, HasRoot, ShapeInv, ArrayInv, Entry, Whole, Right, Readable
    <3> QED BY <3>1, <3>3 DEF IInv, TypeInv, WildInv, NoArrayInv, CountInv,
                AnswerInv, LookupsAgree, Expected
  <2> QED BY <2>1, <2>2
<1> QED BY <1>1, InitHolds, PTL DEF Spec

(* Whatever the firmware left: acpi.c reads no byte of a table that it did *)
(* not map, unless a mapping failed before or returned the page before.    *)
THEOREM ReadsAreMappedTheorem == Spec => []ReadsAreMapped
<1>1. IInv => ReadsAreMapped
  BY DEF IInv, WildInv, ReadsAreMapped
<1> QED BY <1>1, Inductive, PTL

(* Whatever the firmware left: when acpi_init succeeds, the array has a    *)
(* mapped pointer for every entry of the root and then NULL, and unless a  *)
(* mapping returned the page before it has every table of the firmware's   *)
(* root, in order, mapped to its last byte.                                *)
THEOREM SuccessIsCompleteTheorem == Spec => []SuccessIsComplete
<1>1. IInv => SuccessIsComplete
  <2> SUFFICES ASSUME IInv, res = "SUCCESS" PROVE SuccessIsComplete
    BY DEF SuccessIsComplete
  <2>1. tbls # <<>> /\ fw \in Firmwares /\ pc = "done" /\ HasRoot
    BY DEF IInv, NoArrayInv, TypeInv, HasRoot
  <2>2. n_tbls \in Int /\ (~stray => Whole(root, fw.root))
    BY <2>1 DEF IInv, RootInv
  <2>3. /\ DOMAIN tbls = 0..n_tbls /\ i = n_tbls /\ tbls[i] = NULL /\ n_tbls > 0
        /\ \A k \in 0..n_tbls : k < i => tbls[k].kind = "mapped"
        /\ ~stray => \A k \in 0..n_tbls : k < i => Whole(tbls[k], Entry(k))
    BY <2>1 DEF IInv, ShapeInv, ArrayInv
  <2>4. ~stray => n_tbls = Listed
    BY <2>1, <2>2, RootList DEF Whole
  <2>5. \A k \in 0..(n_tbls - 1) : k \in 0..n_tbls /\ k < i
    BY <2>2, <2>3
  <2> QED BY <2>3, <2>4, <2>5 DEF SuccessIsComplete, Whole, Right, Entry, Listed
<1> QED BY <1>1, Inductive, PTL

(* Whatever the firmware left: unless a mapping returned the page before,  *)
(* a look-up answers with the first table of its name in the root's list,  *)
(* if the checksum is right, and else with NULL; after a failure it may    *)
(* answer with NULL, but never with another.                               *)
THEOREM LookupsAgreeTheorem == Spec => []LookupsAgree
<1>1. IInv => LookupsAgree
  BY DEF IInv, AnswerInv, LookupsAgree
<1> QED BY <1>1, Inductive, PTL
=============================================================================
