----------------------------- MODULE Boot_proofs -----------------------------
(***************************************************************************)
(* Proofs about the boot: for every page size, every list of tags and any  *)
(* number of modules the kernel finds what the loader passed, no page has  *)
(* two owners, and look-ups in the file system answer with the right file. *)
(***************************************************************************)
EXTENDS Boot, FiniteSetTheorems, NaturalsInduction, WellFoundedInduction, TLAPS

-----------------------------------------------------------------------------
(* Numbers.                                                                *)

(* The order on the naturals is well founded, in a form without operators. *)
LEMMA WellOrdered ==
  \E R : IsWellFoundedOn(R, Nat) /\ \A x, y \in Nat : x < y => <<x, y>> \in R
<1> DEFINE R == OpToRel(<, Nat)
<1>1. \A x, y \in Nat : x < y => <<x, y>> \in R
  BY DEF OpToRel
<1>2. IsWellFoundedOn(R, Nat)
  BY NatLessThanWellFounded DEF R
<1> QED  BY <1>1, <1>2, Zenon

(* A set of numbers has a least element.                                   *)
LEMMA HasLeast ==
  ASSUME NEW S \in SUBSET Nat, S # {}
  PROVE  \E x \in S : \A y \in S : x <= y
<1>1. PICK R : IsWellFoundedOn(R, Nat) /\ \A x, y \in Nat : x < y => <<x, y>> \in R
  BY WellOrdered, Zenon
<1>a. IsWellFoundedOn(R, Nat)
  BY <1>1
<1>2. PICK x \in S : \A y \in S : ~(<<y, x>> \in R)
  BY <1>a, WFMin, Zenon
<1>3. ASSUME NEW y \in S PROVE x <= y
  <2>1. ~(y < x)
    BY <1>1, <1>2, Zenon
  <2> QED  BY <2>1
<1> QED  BY <1>3

(* A bounded one has a greatest.                                           *)
LEMMA HasGreatest ==
  ASSUME NEW n \in Nat, NEW S \in SUBSET (0..n), S # {}
  PROVE  \E x \in S : \A y \in S : y <= x
<1> DEFINE T == {n - x : x \in S}
<1>1. T \in SUBSET Nat /\ T # {}
  <2>1. \A x \in S : x \in 0..n
    OBVIOUS
  <2>2. \A x \in S : n - x \in Nat
    BY <2>1
  <2>3. PICK x \in S : TRUE
    OBVIOUS
  <2>4. n - x \in T
    BY <2>3
  <2> QED  BY <2>2, <2>4
<1>2. PICK t \in T : \A u \in T : t <= u
  <2> HIDE DEF T
  <2> QED  BY <1>1, HasLeast
<1>3. PICK x \in S : t = n - x
  BY <1>2
<1>4. \A y \in S : n - x <= n - y
  BY <1>2, <1>3
<1> QED  BY <1>3, <1>4

(* Min and Max are what their names say.                                   *)
LEMMA MinIsLeast ==
  ASSUME NEW S \in SUBSET Nat, S # {}
  PROVE  Min(S) \in S /\ \A y \in S : Min(S) <= y
<1>1. \E x \in S : \A y \in S : x <= y
  BY HasLeast
<1> QED  BY <1>1 DEF Min

LEMMA MaxIsGreatest ==
  ASSUME NEW n \in Nat, NEW S \in SUBSET (0..n), S # {}
  PROVE  Max(S) \in S /\ \A y \in S : y <= Max(S)
<1>1. \E x \in S : \A y \in S : x >= y
  <2>1. PICK x \in S : \A y \in S : y <= x
    BY HasGreatest
  <2> QED  BY <2>1
<1> QED  BY <1>1 DEF Max

(* Pages.                                                                  *)
LEMMA Division ==
  ASSUME NEW p \in Nat \ {0}, NEW a \in Nat, NEW b \in Nat, a <= b
  PROVE  a \div p \in Nat /\ b \div p \in Nat /\ a \div p <= b \div p
<1>1. /\ a \div p \in Nat /\ b \div p \in Nat
      /\ a = p * (a \div p) + (a % p) /\ a % p \in 0..(p - 1)
      /\ b = p * (b \div p) + (b % p) /\ b % p \in 0..(p - 1)
  OBVIOUS
<1> DEFINE q == a \div p  r == b \div p  x == a % p  y == b % p
<1> HIDE DEF q, r, x, y
<1>2. /\ q \in Nat /\ r \in Nat /\ a = p * q + x /\ x \in 0..(p - 1)
      /\ b = p * r + y /\ y \in 0..(p - 1)
  BY <1>1 DEF q, r, x, y
<1>3. q <= r
  <2> SUFFICES ASSUME r + 1 <= q PROVE FALSE
    BY <1>2
  <2>1. p * (r + 1) <= p * q
    BY <1>2
  <2>2. p * (r + 1) = p * r + p
    BY <1>2
  <2> QED  BY <1>2, <2>1, <2>2
<1> QED  BY <1>1, <1>3 DEF q, r

LEMMA Rounding ==
  ASSUME NEW p \in Nat \ {0}, NEW a \in Nat
  PROVE  ALIGNUP(a, p) \in Nat /\ a <= ALIGNUP(a, p)
<1> DEFINE q == (a + p - 1) \div p  x == (a + p - 1) % p
<1>1. q \in Nat /\ a + p - 1 = p * q + x /\ x \in 0..(p - 1)
  OBVIOUS
<1> HIDE DEF q, x
<1>2. p * q \in Nat /\ a <= p * q
  BY <1>1
<1> QED  BY <1>2 DEF ALIGNUP, q

-----------------------------------------------------------------------------
(* The inductive invariant.                                                *)

(* Up to kernel_parse_bootinfo nothing in the data area may be lost.       *)
Early == {"parse", "paging", "relocate", "links", "pm_init", "start"}
Relocated == pc \in {"links", "pm_init", "start"}
Shift == IF Relocated THEN HIGHER_HALF ELSE 0

(* The tags of some types that have been parsed, all of them in the end.   *)
Done(types) == {k \in DOMAIN tags : k < tag /\ tags[k].type \in types}

ScanInv ==
  /\ tags \in TagLists /\ tag \in 1..Len(tags)
  /\ pc \in Early \cup {"run", "halt"} /\ (pc # "parse" => tag = Len(tags))
  /\ ebx \in Nat /\ PADDR_END <= ebx
  /\ pc \in {"relocate", "links", "pm_init", "start"} =>
       \E first \in Nat : first = ALIGNUP(ebx, PAGE_SIZE) \div PAGE_SIZE /\ tables = (first + 1)..(first + 4)

InfoType == [cmdline : Nat, modules : Nat, entries : Nat, segments : Nat,
             acpi : {"NONE", "RSDP", "XSDP"}]

(* Objects lie behind the image and below ebx, where the next one goes.    *)
AreaInv ==
  pc \in Early =>
    /\ info \in InfoType
    /\ objs = [a \in DOMAIN objs |-> objs[a]] /\ DOMAIN objs \subseteq Nat
    /\ \A a \in DOMAIN objs :
         objs[a].bytes \in Nat \ {0} /\ PADDR_END <= a /\ a + objs[a].bytes <= ebx

(* The pointers to the command line and to the memory map, relocated at    *)
(* once, and the kind of root table: the last tag of each kind counts.     *)
CmdlineAt ==
  Done({"cmdline"}) # {} =>
    \E a \in DOMAIN objs :
      /\ info.cmdline = a + Shift /\ objs[a].kind = "text"
      /\ objs[a].of = Max(Done({"cmdline"}))
MapAt ==
  /\ Done({"mmap"}) = {} => info.segments = Shift
  /\ Done({"mmap"}) # {} =>
       LET entries == tags[Max(Done({"mmap"}))].entries
       IN  /\ info.entries = Len(entries)
           /\ \E a \in DOMAIN objs :
                /\ info.segments = a + Shift /\ objs[a].kind = "segments"
                /\ objs[a].list = Segments(entries)
AcpiAt ==
  Done({"RSDP", "XSDP"}) # {} => info.acpi = tags[Max(Done({"RSDP", "XSDP"}))].type
PointerInv == pc \in Early => CmdlineAt /\ MapAt /\ AcpiAt

(* The list of modules: place says where the entry of a tag is, and the    *)
(* links in entries before that of tag c, and the one in bootinfo, have    *)
(* been relocated.                                                         *)
Entry(k, next) ==
  [kind |-> "module", bytes |-> 32 + tags[k].length, next |-> next, of |-> k,
   start |-> tags[k].start, end |-> tags[k].end]
Ptr(place, ms, shift) == IF ms = {} THEN 0 ELSE shift + place[Min(ms)]
After(S, k) == {m \in S : m > k}
ShiftIf(b) == IF b THEN HIGHER_HALF ELSE 0
ListAt(place, c) ==
  LET mods == Done({"module"})
  IN  /\ place \in [mods -> DOMAIN objs]
      /\ \A a \in DOMAIN objs : objs[a].kind = "module" => \E k \in mods : a = place[k]
      /\ info.modules = Ptr(place, mods, ShiftIf(c # 0))
      /\ \A k \in mods : objs[place[k]] = Entry(k, Ptr(place, After(mods, k), ShiftIf(k < c)))
      /\ pc \in {"parse", "paging", "relocate"} => c = 0 /\ link = 0
      /\ pc = "links" => (c = 0 /\ link = 0) \/ (c \in mods /\ link = place[c])
      /\ pc \in {"pm_init", "start"} => c = Len(tags)
ListInv == pc \in Early => \E place : \E c \in Nat : ListAt(place, c)

(* Pages: before the first module is locked, all come from below the       *)
(* image, and there is one left as long as one may be requested.           *)
PageInv ==
  /\ taken \subseteq locked
  /\ fs.start # 0 => Pages(fs.start, fs.end) \subseteq locked \ taken
  /\ pc \in Early => fs = NoFs /\ answer.path = "none"
  /\ pc \in Early \ {"start"} => locked = {} /\ taken = {}
  /\ pc = "start" =>
       /\ taken \subseteq LowPages
       /\ \E reserved :
            /\ locked \cap LowPages \subseteq reserved \cup taken
            /\ Cardinality(LowPages \ reserved) >= StartTakes

(* What is mounted is a module.                                            *)
FsInv ==
  /\ fs.start = 0 => fs.mapped = FALSE
  /\ fs.start # 0 =>
       /\ fs.of \in DOMAIN tags /\ tags[fs.of].type = "module"
       /\ fs.start = tags[fs.of].start /\ fs.end = tags[fs.of].end

IInv == ScanInv /\ AreaInv /\ PointerInv /\ ListInv /\ PageInv /\ FsInv

-----------------------------------------------------------------------------
(* Facts about a state.                                                    *)

(* The list of tags.                                                       *)
LEMMA TagFacts ==
  ASSUME ScanInv
  PROVE  /\ Len(tags) \in Nat \ {0} /\ DOMAIN tags = 1..Len(tags)
         /\ \A k \in DOMAIN tags : IsTag(tags[k]) /\ (tags[k].type = "end" <=> k = Len(tags))
         /\ tag \in DOMAIN tags /\ tag \in Nat
BY TagsAssumption DEF ScanInv

(* The tags that were parsed.                                              *)
LEMMA DoneFacts ==
  ASSUME ScanInv, NEW types
  PROVE  /\ Done(types) \subseteq DOMAIN tags /\ Done(types) \subseteq Nat
         /\ Done(types) \subseteq 0..Len(tags) /\ \A k \in Done(types) : k < tag /\ k \in 1..Len(tags)
         /\ Done(types) # {} =>
              Max(Done(types)) \in Done(types) /\ \A k \in Done(types) : k <= Max(Done(types))
<1>1. Len(tags) \in Nat /\ DOMAIN tags = 1..Len(tags)
  BY TagFacts
<1>2. Done(types) \subseteq DOMAIN tags /\ \A k \in Done(types) : k < tag
  BY DEF Done
<1>3. Done(types) \in SUBSET (0..Len(tags)) /\ Done(types) \subseteq Nat
  BY <1>1, <1>2
<1>4. Done(types) # {} =>
        Max(Done(types)) \in Done(types) /\ \A k \in Done(types) : k <= Max(Done(types))
  BY <1>1, <1>3, MaxIsGreatest
<1> QED  BY <1>1, <1>2, <1>3, <1>4

(* When all tags are parsed, the parsed tags of a type are all of it.      *)
LEMMA AllDone ==
  ASSUME ScanInv, pc # "parse", NEW types, "end" \notin types
  PROVE  Done(types) = TagsOf(types)
<1>1. tag = Len(tags) /\ Len(tags) \in Nat /\ DOMAIN tags = 1..Len(tags)
  BY TagFacts DEF ScanInv
<1>2. \A k \in DOMAIN tags : tags[k].type \in types => k < tag
  BY <1>1, TagFacts
<1> QED  BY <1>2 DEF Done, TagsOf

(* One more tag.                                                           *)
LEMMA OneMoreDone ==
  ASSUME ScanInv, pc = "parse", tags[tag].type # "end", tags' = tags, tag' = tag + 1, NEW types
  PROVE  /\ tag' \in 1..Len(tags)
         /\ tags[tag].type \in types =>
              /\ Done(types)' = Done(types) \cup {tag}
              /\ Done(types)' # {} /\ Max(Done(types)') = tag
         /\ tags[tag].type \notin types => Done(types)' = Done(types)
<1> DEFINE n == Len(tags)
<1>1. n \in Nat /\ DOMAIN tags = 1..n /\ tag \in 1..n /\ tag # n
  BY TagFacts
<1> HIDE DEF n
<1>2. tag' \in 1..n
  BY <1>1
<1>3. \A k \in DOMAIN tags : k < tag + 1 <=> k < tag \/ k = tag
  BY <1>1
<1>4. tags[tag].type \notin types => Done(types)' = Done(types)
  BY <1>1, <1>3 DEF Done
<1>5. ASSUME tags[tag].type \in types
      PROVE  /\ Done(types)' = Done(types) \cup {tag}
             /\ Done(types)' # {} /\ Max(Done(types)') = tag
  <2>1. Done(types)' = Done(types) \cup {tag}
    BY <1>1, <1>3, <1>5 DEF Done
  <2> DEFINE S == Done(types) \cup {tag}
  <2>2. \A k \in Done(types) : k < tag /\ k \in 1..n
    BY DoneFacts DEF n
  <2>3. S \in SUBSET (0..n) /\ S # {}
    BY <1>1, <2>2
  <2>4. \A k \in S : k <= tag
    BY <1>1, <2>2
  <2>5. tag \in S
    OBVIOUS
  <2> HIDE DEF S
  <2>6. Max(S) \in S /\ \A y \in S : y <= Max(S)
    BY <1>1, <2>3, MaxIsGreatest
  <2>7. Max(S) = tag
    <3>1. Max(S) <= tag /\ tag <= Max(S)
      BY <2>4, <2>5, <2>6
    <3>2. Max(S) \in 0..n
      BY <2>3, <2>6
    <3> QED  BY <1>1, <3>1, <3>2
  <2> QED  BY <2>1, <2>3, <2>7 DEF S
<1> QED  BY <1>2, <1>4, <1>5 DEF n

(* A new object goes behind all the others.                                *)
LEMMA WriteAppends ==
  ASSUME ScanInv, AreaInv, pc \in Early, NEW o, o.bytes \in Nat \ {0}
  PROVE  /\ Write(ebx, o) = [a \in DOMAIN objs \cup {ebx} |-> IF a = ebx THEN o ELSE objs[a]]
         /\ ebx \notin DOMAIN objs
<1>1. ebx \in Nat
  BY DEF ScanInv
<1>2. \A a \in DOMAIN objs : /\ a \in Nat /\ objs[a].bytes \in Nat \ {0}
                             /\ a + objs[a].bytes <= ebx
  BY DEF AreaInv
<1>3. \A a \in DOMAIN objs : a # ebx /\ Span(a, objs[a]) \cap Span(ebx, o) = {}
  <2> TAKE a \in DOMAIN objs
  <2> DEFINE n == objs[a].bytes
  <2>1. a \in Nat /\ n \in Nat \ {0} /\ a + n <= ebx
    BY <1>2
  <2> HIDE DEF n
  <2>2. (a..(a + n - 1)) \cap (ebx..(ebx + o.bytes - 1)) = {} /\ a # ebx
    BY <1>1, <2>1
  <2> QED  BY <2>2 DEF Span, n
<1>4. ebx \notin DOMAIN objs
  BY <1>3
<1>5. {b \in DOMAIN objs : Span(b, objs[b]) \cap Span(ebx, o) = {}} \ {ebx} = DOMAIN objs
  BY <1>3, <1>4
<1> QED  BY <1>4, <1>5 DEF Write

-----------------------------------------------------------------------------
(* What a step leaves alone.                                               *)

(* Everything but the list of modules stays where it is.                   *)
OthersKept ==
  \A a \in DOMAIN objs : objs[a].kind # "module" => a \in DOMAIN objs' /\ objs'[a] = objs[a]
ObjectsKept == \A a \in DOMAIN objs : a \in DOMAIN objs' /\ objs'[a] = objs[a]

LEMMA ShiftType == Shift \in Nat /\ HIGHER_HALF \in Nat /\ PADDR_END \in Nat \ {0}
BY LayoutAssumption DEF Shift

LEMMA CmdlineKept ==
  ASSUME CmdlineAt, DOMAIN objs \subseteq Nat, OthersKept,
         Done({"cmdline"})' = Done({"cmdline"}),
         \A a \in Nat : info.cmdline = a + Shift => info'.cmdline = a + Shift'
  PROVE  CmdlineAt'
<1> SUFFICES ASSUME Done({"cmdline"})' # {}
             PROVE  \E a \in DOMAIN objs' :
                      /\ info'.cmdline = a + Shift' /\ objs'[a].kind = "text"
                      /\ objs'[a].of = Max(Done({"cmdline"})')
  BY DEF CmdlineAt
<1>1. PICK a \in DOMAIN objs :
        /\ info.cmdline = a + Shift /\ objs[a].kind = "text"
        /\ objs[a].of = Max(Done({"cmdline"}))
  BY DEF CmdlineAt
<1>2. a \in DOMAIN objs' /\ objs'[a] = objs[a]
  BY <1>1 DEF OthersKept
<1> QED  BY <1>1, <1>2

LEMMA MapKept ==
  ASSUME MapAt, DOMAIN objs \subseteq Nat, OthersKept, tags' = tags,
         Done({"mmap"})' = Done({"mmap"}), info'.entries = info.entries,
         \A a \in Nat : info.segments = a + Shift => info'.segments = a + Shift',
         Shift' \in Nat
  PROVE  MapAt'
<1>1. CASE Done({"mmap"}) = {}
  <2>1. info.segments = 0 + Shift
    BY <1>1, ShiftType DEF MapAt
  <2>2. info'.segments = 0 + Shift'
    BY <2>1
  <2>a. \A x \in Nat : 0 + x = x
    OBVIOUS
  <2>3. info'.segments = Shift'
    BY <2>2, <2>a, Zenon
  <2> QED  BY <1>1, <2>3 DEF MapAt
<1>2. CASE Done({"mmap"}) # {}
  <2> DEFINE entries == tags[Max(Done({"mmap"}))].entries
  <2>1. PICK a \in DOMAIN objs :
          /\ info.segments = a + Shift /\ objs[a].kind = "segments"
          /\ objs[a].list = Segments(entries)
    BY <1>2 DEF MapAt
  <2>2. a \in DOMAIN objs' /\ objs'[a] = objs[a]
    BY <2>1 DEF OthersKept
  <2>3. info.entries = Len(entries)
    BY <1>2 DEF MapAt
  <2>4. entries' = entries
    OBVIOUS
  <2>5. info'.segments = a + Shift'
    BY <2>1
  <2> HIDE DEF entries
  <2>6. /\ info'.entries = Len(entries)
        /\ \E b \in DOMAIN objs' :
             /\ info'.segments = b + Shift' /\ objs'[b].kind = "segments"
             /\ objs'[b].list = Segments(entries)
    BY <2>1, <2>2, <2>3, <2>5
  <2> QED  BY <1>2, <2>4, <2>6 DEF MapAt, entries
<1> QED  BY <1>1, <1>2

LEMMA AcpiKept ==
  ASSUME AcpiAt, tags' = tags, info'.acpi = info.acpi,
         Done({"RSDP", "XSDP"})' = Done({"RSDP", "XSDP"})
  PROVE  AcpiAt'
BY DEF AcpiAt

LEMMA ListKept ==
  ASSUME NEW place, NEW c, ListAt(place, c), tags' = tags,
         Done({"module"})' = Done({"module"}), info'.modules = info.modules, ObjectsKept,
         \A a \in DOMAIN objs' : objs'[a].kind = "module" => a \in DOMAIN objs,
         \/ pc' \in {"parse", "paging", "relocate", "links"} /\ c = 0 /\ link' = 0
         \/ pc' \in {"pm_init", "start"} /\ c = Len(tags)
  PROVE  ListAt(place, c)'
<1> DEFINE mods == Done({"module"})
<1>1. /\ place \in [mods -> DOMAIN objs]
      /\ \A a \in DOMAIN objs : objs[a].kind = "module" => \E k \in mods : a = place[k]
      /\ info.modules = Ptr(place, mods, ShiftIf(c # 0))
      /\ \A k \in mods : objs[place[k]] = Entry(k, Ptr(place, After(mods, k), ShiftIf(k < c)))
  BY DEF ListAt
<1>2. mods' = mods
  OBVIOUS
<1> HIDE DEF mods
<1>3. place \in [mods -> DOMAIN objs']
  BY <1>1 DEF ObjectsKept
<1>4. \A a \in DOMAIN objs' : objs'[a].kind = "module" => \E k \in mods : a = place[k]
  BY <1>1 DEF ObjectsKept
<1>5. \A k \in mods : objs'[place[k]] = Entry(k, Ptr(place, After(mods, k), ShiftIf(k < c)))
  BY <1>1 DEF ObjectsKept
<1>6. \A k, n : Entry(k, n)' = Entry(k, n)
  BY DEF Entry
<1>7. \A k \in mods : objs'[place[k]] = Entry(k, Ptr(place, After(mods, k), ShiftIf(k < c)))'
  BY <1>2, <1>5 DEF Entry, Ptr, After, ShiftIf
<1>8. info'.modules = Ptr(place, mods, ShiftIf(c # 0))
  BY <1>1
<1>9. /\ pc' \in {"parse", "paging", "relocate"} => c = 0 /\ link' = 0
      /\ pc' = "links" => (c = 0 /\ link' = 0) \/ (c \in mods /\ link' = place[c])
      /\ pc' \in {"pm_init", "start"} => c = Len(tags)
  OBVIOUS
<1> QED  BY <1>2, <1>3, <1>4, <1>7, <1>8, <1>9 DEF ListAt, mods, Ptr, After, ShiftIf

LEMMA PageKept ==
  ASSUME PageInv, UNCHANGED <<locked, taken, fs, answer>>,
         pc \in Early \ {"start"}, pc' \in Early \ {"start"}
  PROVE  PageInv'
<1>1. locked' = locked /\ taken' = taken /\ fs' = fs /\ answer' = answer
  OBVIOUS
<1>2. /\ taken \subseteq locked /\ fs = NoFs /\ answer.path = "none" /\ locked = {} /\ taken = {}
      /\ fs.start # 0 => Pages(fs.start, fs.end) \subseteq locked \ taken
  BY DEF PageInv
<1>3. pc' # "start"
  OBVIOUS
<1> QED  BY <1>1, <1>2, <1>3 DEF PageInv

LEMMA FsKept ==
  ASSUME FsInv, fs' = fs, tags' = tags
  PROVE  FsInv'
BY DEF FsInv

-----------------------------------------------------------------------------
(* Parsing the tags.                                                       *)

(* What all tags have in common.                                           *)
LEMMA ParseCommon ==
  ASSUME IInv, pc = "parse", tags[tag].type # "end", Elsewhere,
         NEW end \in Nat, ebx <= end, NextTag(end)
  PROVE  /\ ScanInv' /\ PageInv' /\ FsInv'
         /\ tags' = tags /\ tag' = tag + 1 /\ pc' = "parse" /\ link' = link
         /\ Shift = 0 /\ Shift' = 0 /\ ebx' \in Nat /\ end <= ebx'
<1>1. /\ tags' = tags /\ tag' = tag + 1 /\ pc' = "parse" /\ link' = link /\ fs' = fs
      /\ UNCHANGED <<locked, taken, fs, answer>> /\ ebx' = ALIGNUP(end, 8)
  BY DEF Elsewhere, NextTag, Align8
<1>2. ebx' \in Nat /\ end <= ebx'
  BY <1>1, Rounding
<1>3. tag' \in 1..Len(tags)
  BY <1>1, OneMoreDone DEF IInv
<1>4. ScanInv'
  <2>1. tags \in TagLists /\ ebx \in Nat /\ PADDR_END <= ebx
    BY DEF IInv, ScanInv
  <2>2. PADDR_END <= ebx'
    <3>1. PADDR_END \in Nat
      BY LayoutAssumption
    <3> QED  BY <1>2, <2>1, <3>1
  <2> QED  BY <1>1, <1>2, <1>3, <2>1, <2>2 DEF ScanInv, Early
<1>5. pc \in Early \ {"start"} /\ pc' \in Early \ {"start"}
  BY <1>1 DEF Early
<1>6. PageInv' /\ FsInv'
  BY <1>1, <1>5, PageKept, FsKept DEF IInv
<1>7. Shift = 0 /\ Shift' = 0
  BY <1>1 DEF Shift, Relocated
<1> QED  BY <1>1, <1>2, <1>4, <1>6, <1>7

(* Writing an object that is no module.                                    *)
LEMMA ParseObject ==
  ASSUME IInv, pc = "parse", pc' = "parse", NEW o, o.bytes \in Nat \ {0}, o.kind # "module",
         objs' = Write(ebx, o), ebx' \in Nat, ebx + o.bytes <= ebx',
         info' \in InfoType, info'.modules = info.modules,
         tags' = tags, link' = link, Done({"module"})' = Done({"module"})
  PROVE  /\ AreaInv' /\ ListInv' /\ OthersKept /\ DOMAIN objs \subseteq Nat
         /\ ebx \in DOMAIN objs' /\ objs'[ebx] = o
<1>0. pc \in Early /\ pc' \in Early
  BY DEF Early
<1>1. /\ objs' = [a \in DOMAIN objs \cup {ebx} |-> IF a = ebx THEN o ELSE objs[a]]
      /\ ebx \notin DOMAIN objs
  BY <1>0, WriteAppends DEF IInv
<1>2. /\ DOMAIN objs' = DOMAIN objs \cup {ebx} /\ objs'[ebx] = o
      /\ \A a \in DOMAIN objs : objs'[a] = objs[a] /\ a \in DOMAIN objs'
      /\ objs' = [a \in DOMAIN objs' |-> objs'[a]]
  BY <1>1
<1>3. /\ DOMAIN objs \subseteq Nat /\ ebx \in Nat /\ PADDR_END <= ebx
      /\ \A a \in DOMAIN objs :
           objs[a].bytes \in Nat \ {0} /\ PADDR_END <= a /\ a + objs[a].bytes <= ebx
  BY <1>0 DEF IInv, AreaInv, ScanInv
<1>4. \A a \in DOMAIN objs : a + objs[a].bytes <= ebx'
  BY <1>3
<1>5. \A a \in DOMAIN objs' :
        objs'[a].bytes \in Nat \ {0} /\ PADDR_END <= a /\ a + objs'[a].bytes <= ebx'
  BY <1>2, <1>3, <1>4
<1>6. DOMAIN objs' \subseteq Nat
  BY <1>2, <1>3
<1>7. AreaInv'
  BY <1>2, <1>5, <1>6 DEF AreaInv, InfoType
<1>8. OthersKept /\ ObjectsKept
  BY <1>2 DEF OthersKept, ObjectsKept
<1>9. ListInv'
  <2>a. PICK place : \E c \in Nat : ListAt(place, c)
    BY <1>0 DEF IInv, ListInv
  <2>1. PICK c \in Nat : ListAt(place, c)
    BY <2>a
  <2>2. c = 0 /\ link = 0
    BY <2>1 DEF ListAt
  <2>3. \A a \in DOMAIN objs' : objs'[a].kind = "module" => a \in DOMAIN objs
    BY <1>2
  <2>4. ListAt(place, c)'
    BY <1>8, <2>1, <2>2, <2>3, ListKept
  <2> QED  BY <2>1, <2>4 DEF ListInv
<1> QED  BY <1>2, <1>3, <1>7, <1>8, <1>9

(* A command line.                                                         *)
LEMMA CmdlineIInv ==
  ASSUME IInv, ParseCmdline
  PROVE  IInv'
<1> DEFINE o == [kind |-> "text", bytes |-> tags[tag].length, of |-> tag]
<1>1. /\ pc = "parse" /\ tags[tag].type = "cmdline" /\ Elsewhere
      /\ info' = [info EXCEPT !.cmdline = ebx] /\ objs' = Write(ebx, o)
      /\ NextTag(ebx + o.bytes)
  BY DEF ParseCmdline, Parsing
<1>2. o.bytes \in Nat \ {0} /\ o.kind = "text" /\ o.of = tag /\ ebx \in Nat
  BY <1>1, TagFacts DEF IInv, ScanInv, IsTag
<1> HIDE DEF o
<1>3. ebx + o.bytes \in Nat /\ ebx <= ebx + o.bytes
  BY <1>2
<1>4. /\ ScanInv' /\ PageInv' /\ FsInv'
      /\ tags' = tags /\ tag' = tag + 1 /\ pc' = "parse" /\ link' = link
      /\ Shift = 0 /\ Shift' = 0 /\ ebx' \in Nat /\ ebx + o.bytes <= ebx'
  BY <1>1, <1>3, ParseCommon
<1>5. /\ Done({"cmdline"})' # {} /\ Max(Done({"cmdline"})') = tag
      /\ Done({"module"})' = Done({"module"}) /\ Done({"mmap"})' = Done({"mmap"})
      /\ Done({"RSDP", "XSDP"})' = Done({"RSDP", "XSDP"})
  BY <1>1, <1>4, OneMoreDone DEF IInv
<1>6. info \in InfoType /\ CmdlineAt /\ MapAt /\ AcpiAt
  BY <1>1 DEF IInv, AreaInv, PointerInv, Early
<1>7. /\ info' \in InfoType /\ info'.cmdline = ebx
      /\ info'.modules = info.modules /\ info'.entries = info.entries
      /\ info'.segments = info.segments /\ info'.acpi = info.acpi
  BY <1>1, <1>2, <1>6 DEF InfoType
<1>8. /\ AreaInv' /\ ListInv' /\ OthersKept /\ DOMAIN objs \subseteq Nat
      /\ ebx \in DOMAIN objs' /\ objs'[ebx] = o
  BY <1>1, <1>2, <1>4, <1>5, <1>7, ParseObject
<1>9. CmdlineAt'
  <2>1. info'.cmdline = ebx + Shift'
    BY <1>2, <1>4, <1>7
  <2> QED  BY <1>2, <1>5, <1>8, <2>1 DEF CmdlineAt
<1>10. MapAt' /\ AcpiAt'
  BY <1>4, <1>5, <1>6, <1>7, <1>8, MapKept, AcpiKept
<1> QED  BY <1>4, <1>8, <1>9, <1>10 DEF IInv, PointerInv

(* A memory map.                                                           *)
LEMMA MmapIInv ==
  ASSUME IInv, ParseMmap
  PROVE  IInv'
<1> DEFINE n == Len(tags[tag].entries)
           o == [kind |-> "segments", bytes |-> 24 * n, list |-> Segments(tags[tag].entries)]
<1>1. /\ pc = "parse" /\ tags[tag].type = "mmap" /\ Elsewhere
      /\ info' = [info EXCEPT !.entries = n, !.segments = ebx] /\ objs' = Write(ebx, o)
      /\ NextTag(ebx + o.bytes)
  BY DEF ParseMmap, Parsing
<1>2. n \in Nat \ {0} /\ ebx \in Nat
  BY <1>1, TagFacts DEF IInv, ScanInv, IsTag
<1>3. o.bytes = 24 * n /\ o.kind = "segments" /\ o.list = Segments(tags[tag].entries)
  OBVIOUS
<1> HIDE DEF o
<1>4. o.bytes \in Nat \ {0} /\ ebx + o.bytes \in Nat /\ ebx <= ebx + o.bytes
  <2> HIDE DEF n
  <2> QED  BY <1>2, <1>3
<1>5. /\ ScanInv' /\ PageInv' /\ FsInv'
      /\ tags' = tags /\ tag' = tag + 1 /\ pc' = "parse" /\ link' = link
      /\ Shift = 0 /\ Shift' = 0 /\ ebx' \in Nat /\ ebx + o.bytes <= ebx'
  BY <1>1, <1>4, ParseCommon
<1>6. /\ Done({"mmap"})' # {} /\ Max(Done({"mmap"})') = tag
      /\ Done({"module"})' = Done({"module"}) /\ Done({"cmdline"})' = Done({"cmdline"})
      /\ Done({"RSDP", "XSDP"})' = Done({"RSDP", "XSDP"})
  BY <1>1, <1>5, OneMoreDone DEF IInv
<1>7. info \in InfoType /\ CmdlineAt /\ MapAt /\ AcpiAt
  BY <1>1 DEF IInv, AreaInv, PointerInv, Early
<1>8. /\ info' \in InfoType /\ info'.segments = ebx /\ info'.entries = n
      /\ info'.modules = info.modules /\ info'.cmdline = info.cmdline /\ info'.acpi = info.acpi
  <2> HIDE DEF n
  <2> QED  BY <1>1, <1>2, <1>7 DEF InfoType
<1>9. /\ AreaInv' /\ ListInv' /\ OthersKept /\ DOMAIN objs \subseteq Nat
      /\ ebx \in DOMAIN objs' /\ objs'[ebx] = o
  BY <1>1, <1>3, <1>4, <1>5, <1>6, <1>8, ParseObject
<1>10. MapAt'
  <2>1. info'.segments = ebx + Shift'
    BY <1>2, <1>5, <1>8
  <2>2. tags'[Max(Done({"mmap"})')].entries = tags[tag].entries
    BY <1>5, <1>6
  <2> QED  BY <1>3, <1>6, <1>8, <1>9, <2>1, <2>2 DEF MapAt
<1>11. CmdlineAt' /\ AcpiAt'
  BY <1>5, <1>6, <1>7, <1>8, <1>9, CmdlineKept, AcpiKept
<1> QED  BY <1>5, <1>9, <1>10, <1>11 DEF IInv, PointerInv
(* A tag that writes nothing into the data area.                           *)
LEMMA NothingWritten ==
  ASSUME IInv, pc \in {"parse", "paging"}, pc' \in {"parse", "paging", "relocate"},
         UNCHANGED objs, ebx' \in Nat, ebx <= ebx', info' \in InfoType,
         info'.modules = info.modules, tags' = tags, link' = link,
         Done({"module"})' = Done({"module"})
  PROVE  AreaInv' /\ ListInv' /\ OthersKept /\ DOMAIN objs \subseteq Nat
<1>0. pc \in Early /\ pc' \in Early
  BY DEF Early
<1>1. /\ objs' = objs /\ objs = [a \in DOMAIN objs |-> objs[a]]
      /\ DOMAIN objs \subseteq Nat /\ ebx \in Nat
      /\ \A a \in DOMAIN objs :
           objs[a].bytes \in Nat \ {0} /\ PADDR_END <= a /\ a + objs[a].bytes <= ebx
  BY <1>0 DEF IInv, AreaInv, ScanInv
<1>2. \A a \in DOMAIN objs : a + objs[a].bytes <= ebx'
  BY <1>1
<1>3. AreaInv'
  BY <1>1, <1>2 DEF AreaInv
<1>4. OthersKept /\ ObjectsKept
  BY <1>1 DEF OthersKept, ObjectsKept
<1>5. PICK place : \E c \in Nat : ListAt(place, c)
  BY <1>0 DEF IInv, ListInv
<1>6. PICK c \in Nat : ListAt(place, c)
  BY <1>5
<1>7. c = 0 /\ link = 0
  BY <1>6 DEF ListAt
<1>8. ListAt(place, c)'
  BY <1>1, <1>4, <1>6, <1>7, ListKept
<1> QED  BY <1>1, <1>3, <1>4, <1>6, <1>8 DEF ListInv

(* A pointer to an ACPI root table, and a tag that is not known.           *)
LEMMA AcpiIInv ==
  ASSUME IInv, ParseAcpi
  PROVE  IInv'
<1>1. PICK type \in {"RSDP", "XSDP"} : Parsing(type) /\ info' = [info EXCEPT !.acpi = type]
  BY DEF ParseAcpi
<1>2. pc = "parse" /\ tags[tag].type = type /\ Elsewhere /\ UNCHANGED objs /\ NextTag(ebx)
  BY <1>1 DEF Parsing, ParseAcpi
<1>3. ebx \in Nat /\ ebx <= ebx
  BY DEF IInv, ScanInv
<1>4. /\ ScanInv' /\ PageInv' /\ FsInv'
      /\ tags' = tags /\ tag' = tag + 1 /\ pc' = "parse" /\ link' = link
      /\ Shift = 0 /\ Shift' = 0 /\ ebx' \in Nat /\ ebx <= ebx'
  BY <1>2, <1>3, ParseCommon
<1>5. /\ Done({"RSDP", "XSDP"})' # {} /\ Max(Done({"RSDP", "XSDP"})') = tag
      /\ Done({"module"})' = Done({"module"}) /\ Done({"cmdline"})' = Done({"cmdline"})
      /\ Done({"mmap"})' = Done({"mmap"})
  BY <1>2, <1>4, OneMoreDone DEF IInv
<1>6. info \in InfoType /\ CmdlineAt /\ MapAt /\ AcpiAt
  BY <1>2 DEF IInv, AreaInv, PointerInv, Early
<1>7. /\ info' \in InfoType /\ info'.acpi = type /\ info'.segments = info.segments
      /\ info'.entries = info.entries
      /\ info'.modules = info.modules /\ info'.cmdline = info.cmdline
  BY <1>1, <1>6 DEF InfoType
<1>8. AreaInv' /\ ListInv' /\ OthersKept /\ DOMAIN objs \subseteq Nat
  BY <1>2, <1>4, <1>5, <1>7, NothingWritten
<1>9. AcpiAt'
  BY <1>2, <1>4, <1>5, <1>7 DEF AcpiAt
<1>10. CmdlineAt' /\ MapAt'
  BY <1>4, <1>5, <1>6, <1>7, <1>8, CmdlineKept, MapKept
<1> QED  BY <1>4, <1>8, <1>9, <1>10 DEF IInv, PointerInv

LEMMA SkipIInv ==
  ASSUME IInv, SkipTag
  PROVE  IInv'
<1>1. /\ pc = "parse" /\ tags[tag].type = "other" /\ Elsewhere /\ UNCHANGED <<info, objs>>
      /\ NextTag(ebx)
  BY DEF Parsing, SkipTag
<1>2. ebx \in Nat /\ ebx <= ebx
  BY DEF IInv, ScanInv
<1>3. /\ ScanInv' /\ PageInv' /\ FsInv'
      /\ tags' = tags /\ tag' = tag + 1 /\ pc' = "parse" /\ link' = link
      /\ Shift = 0 /\ Shift' = 0 /\ ebx' \in Nat /\ ebx <= ebx'
  BY <1>1, <1>2, ParseCommon
<1>4. /\ Done({"RSDP", "XSDP"})' = Done({"RSDP", "XSDP"})
      /\ Done({"module"})' = Done({"module"}) /\ Done({"cmdline"})' = Done({"cmdline"})
      /\ Done({"mmap"})' = Done({"mmap"})
  BY <1>1, <1>3, OneMoreDone DEF IInv
<1>5. info \in InfoType /\ info' = info /\ CmdlineAt /\ MapAt /\ AcpiAt
  BY <1>1 DEF IInv, AreaInv, PointerInv, Early
<1>6. AreaInv' /\ ListInv' /\ OthersKept /\ DOMAIN objs \subseteq Nat
  BY <1>1, <1>3, <1>4, <1>5, NothingWritten
<1>7. CmdlineAt' /\ MapAt' /\ AcpiAt'
  BY <1>3, <1>4, <1>5, <1>6, CmdlineKept, MapKept, AcpiKept
<1> QED  BY <1>3, <1>6, <1>7 DEF IInv, PointerInv

(* A step after the last tag that moves nothing.                           *)
LEMMA NoTagIInv ==
  ASSUME IInv, UNCHANGED <<tags, tag, ebx, info, objs, link, locked, taken, fs, answer>>,
         pc \in {"parse", "paging"}, pc' \in {"paging", "relocate"}, ScanInv'
  PROVE  IInv'
<1>1. /\ tags' = tags /\ tag' = tag /\ ebx' = ebx /\ info' = info /\ objs' = objs
      /\ link' = link /\ fs' = fs /\ UNCHANGED <<locked, taken, fs, answer>>
  OBVIOUS
<1>2. pc \in Early \ {"start"} /\ pc' \in Early \ {"start"} /\ Shift' = 0 /\ Shift = 0
  BY DEF Early, Shift, Relocated
<1>3. \A types : Done(types)' = Done(types)
  BY <1>1 DEF Done
<1>4. info \in InfoType /\ CmdlineAt /\ MapAt /\ AcpiAt /\ ebx \in Nat /\ ebx <= ebx
  BY <1>2 DEF IInv, AreaInv, PointerInv, ScanInv
<1>5. AreaInv' /\ ListInv' /\ OthersKept /\ DOMAIN objs \subseteq Nat
  BY <1>1, <1>3, <1>4, NothingWritten
<1>6. CmdlineAt' /\ MapAt' /\ AcpiAt'
  BY <1>1, <1>2, <1>3, <1>4, <1>5, CmdlineKept, MapKept, AcpiKept
<1>7. PageInv' /\ FsInv'
  BY <1>1, <1>2, PageKept, FsKept DEF IInv
<1> QED  BY <1>5, <1>6, <1>7 DEF IInv, PointerInv

LEMMA EndIInv ==
  ASSUME IInv, EndTag
  PROVE  IInv'
<1>1. /\ pc = "parse" /\ tags[tag].type = "end" /\ pc' = "paging"
      /\ UNCHANGED <<tags, tag, ebx, info, objs, link, locked, taken, fs, answer>>
  BY DEF EndTag, Parsing, Elsewhere
<1>2. tag = Len(tags)
  BY <1>1, TagFacts DEF IInv
<1>3. ScanInv'
  BY <1>1, <1>2 DEF IInv, ScanInv, Early
<1> QED  BY <1>1, <1>3, NoTagIInv

(* The entries of the list while tags are parsed.                          *)
LEMMA Entries ==
  ASSUME IInv, pc = "parse", NEW place, ListAt(place, 0), NEW k \in Done({"module"})
  PROVE  LET D == Done({"module"})
         IN  /\ place[k] \in DOMAIN objs /\ place[k] \in Nat /\ PADDR_END <= place[k] /\ place[k] # 0
             /\ objs[place[k]].kind = "module" /\ objs[place[k]].of = k
             /\ objs[place[k]].next =
                  IF After(D, k) = {} THEN 0 ELSE place[Min(After(D, k))]
             /\ After(D, k) # {} => Min(After(D, k)) \in D /\ k < Min(After(D, k))
             /\ After(D, k) = {} <=> k = Max(D)
             /\ Max(D) \in D /\ Max(D) \in Nat
             /\ objs[place[k]] = Entry(k, objs[place[k]].next)
<1> DEFINE D == Done({"module"})
<1>1. /\ place \in [D -> DOMAIN objs]
      /\ \A m \in D : objs[place[m]] = Entry(m, Ptr(place, After(D, m), ShiftIf(m < 0)))
  BY DEF ListAt
<1>2. /\ D \subseteq Nat /\ Max(D) \in D /\ \A m \in D : m <= Max(D)
  BY DoneFacts DEF IInv
<1> HIDE DEF D
<1>3. k \in D
  BY DEF D
<1>4. \A m \in D : /\ place[m] \in DOMAIN objs /\ place[m] \in Nat
                   /\ PADDR_END <= place[m] /\ place[m] # 0
  <2>1. DOMAIN objs \subseteq Nat /\ \A a \in DOMAIN objs : PADDR_END <= a
    BY DEF IInv, AreaInv, Early
  <2>2. PADDR_END \in Nat \ {0}
    BY ShiftType
  <2> QED  BY <1>1, <2>1, <2>2
<1>5. After(D, k) # {} => Min(After(D, k)) \in After(D, k)
  <2>1. After(D, k) \in SUBSET Nat
    BY <1>2 DEF After
  <2> QED  BY <2>1, MinIsLeast
<1>6. After(D, k) # {} => Min(After(D, k)) \in D /\ k < Min(After(D, k))
  BY <1>5 DEF After
<1>7. After(D, k) = {} <=> k = Max(D)
  <2> DEFINE x == Max(D)
  <2>0. /\ x \in D /\ x \in Nat /\ k \in Nat /\ k <= x
        /\ \A m \in D : m \in Nat /\ m <= x
    BY <1>2, <1>3
  <2> HIDE DEF x
  <2>1. k < x <=> x \in After(D, k)
    BY <2>0 DEF After
  <2>2. \A m \in D : ~(m > x)
    BY <2>0
  <2>3. k = x => After(D, k) = {}
    BY <2>2 DEF After
  <2>4. k # x => k < x
    BY <2>0
  <2> QED  BY <2>1, <2>3, <2>4 DEF x
<1>8. ShiftIf(k < 0) = 0
  BY <1>2, <1>3 DEF ShiftIf
<1>9. Ptr(place, After(D, k), 0) = IF After(D, k) = {} THEN 0 ELSE place[Min(After(D, k))]
  <2>1. After(D, k) # {} => place[Min(After(D, k))] \in Nat
    BY <1>4, <1>6
  <2>2. \A x \in Nat : 0 + x = x
    OBVIOUS
  <2> QED  BY <2>1, <2>2 DEF Ptr
<1>10. objs[place[k]] = Entry(k, Ptr(place, After(D, k), 0))
  BY <1>1, <1>3, <1>8
<1>11. \A n : /\ Entry(k, n).kind = "module" /\ Entry(k, n).of = k
              /\ Entry(k, n).next = n
  BY DEF Entry
<1>12. /\ objs[place[k]].kind = "module" /\ objs[place[k]].of = k
       /\ objs[place[k]].next = Ptr(place, After(D, k), 0)
       /\ objs[place[k]] = Entry(k, objs[place[k]].next)
  BY <1>10, <1>11, Zenon
<1> QED  BY <1>2, <1>3, <1>4, <1>6, <1>7, <1>9, <1>12 DEF D

(* Following the links leads to the module that was parsed last.           *)
LEMMA LastIsLast ==
  ASSUME IInv, pc = "parse", NEW place, ListAt(place, 0), Done({"module"}) # {}
  PROVE  /\ LastModule = place[Max(Done({"module"}))]
         /\ info.modules = place[Min(Done({"module"}))]
         /\ info.modules # 0
<1> DEFINE D == Done({"module"})
           M == {b \in DOMAIN objs : objs[b].kind = "module"}
           From(f) == f = [a \in M |-> IF objs[a].next = 0 THEN a ELSE f[objs[a].next]]
<1>1. D \in SUBSET Nat /\ D # {} /\ D \in SUBSET (0..Len(tags)) /\ Len(tags) \in Nat
  BY DoneFacts, TagFacts DEF IInv
<1>2. \A k \in D :
        /\ place[k] \in M /\ place[k] \in Nat /\ place[k] # 0
        /\ objs[place[k]].next = IF After(D, k) = {} THEN 0 ELSE place[Min(After(D, k))]
        /\ After(D, k) # {} => Min(After(D, k)) \in D /\ k < Min(After(D, k))
        /\ After(D, k) = {} <=> k = Max(D)
        /\ Max(D) \in D
  BY Entries
<1>3. \A a \in M : \E k \in D : a = place[k]
  BY DEF ListAt
<1>4. info.modules = Ptr(place, D, ShiftIf(0 # 0))
  BY DEF ListAt
<1> HIDE DEF D, M
<1>5. Min(D) \in D
  BY <1>1, MinIsLeast
<1>6. info.modules = place[Min(D)]
  <2>1. Ptr(place, D, ShiftIf(0 # 0)) = 0 + place[Min(D)]
    BY <1>1 DEF Ptr, ShiftIf
  <2>2. place[Min(D)] \in Nat
    BY <1>2, <1>5
  <2> QED  BY <1>4, <2>1, <2>2
<1>7. \E f : From(f)
  <2> DEFINE g == [a \in M |-> place[Max(D)]]
             h == [a \in M |-> IF objs[a].next = 0 THEN a ELSE g[objs[a].next]]
  <2>1. \A a \in M : h[a] = place[Max(D)]
    <3> TAKE a \in M
    <3>1. PICK k \in D : a = place[k]
      BY <1>3
    <3>2. CASE After(D, k) = {}
      BY <1>2, <3>1, <3>2
    <3>3. CASE After(D, k) # {}
      <4>1. /\ Min(After(D, k)) \in D /\ objs[a].next = place[Min(After(D, k))]
        BY <1>2, <3>1, <3>3
      <4>2. objs[a].next \in M /\ objs[a].next # 0
        BY <1>2, <4>1
      <4> QED  BY <4>2
    <3> QED  BY <3>2, <3>3
  <2>2. g = h
    BY <2>1
  <2>3. From(g)
    BY <2>2
  <2> QED  BY <2>3
<1>8. \A f : From(f) => \A k \in D : f[place[k]] = place[Max(D)]
  <2> SUFFICES ASSUME NEW f, From(f), \E k \in D : f[place[k]] # place[Max(D)] PROVE FALSE
    OBVIOUS
  <2> DEFINE S == {k \in D : f[place[k]] # place[Max(D)]}
  <2>1. S \in SUBSET (0..Len(tags)) /\ S # {}
    BY <1>1
  <2>2. PICK k \in S : \A m \in S : m <= k
    <3> HIDE DEF S
    <3> QED  BY <1>1, <2>1, HasGreatest
  <2>3. k \in D /\ f[place[k]] # place[Max(D)]
    BY <2>2
  <2>4. f[place[k]] = IF objs[place[k]].next = 0 THEN place[k] ELSE f[objs[place[k]].next]
    BY <1>2, <2>3
  <2>5. CASE After(D, k) = {}
    BY <1>2, <2>3, <2>4, <2>5
  <2>6. CASE After(D, k) # {}
    <3> DEFINE m == Min(After(D, k))
    <3>1. m \in D /\ k < m /\ objs[place[k]].next = place[m] /\ place[m] # 0
      BY <1>2, <2>3, <2>6
    <3> HIDE DEF m
    <3>2. m \notin S
      BY <1>1, <2>2, <2>3, <3>1
    <3>3. f[place[m]] = place[Max(D)]
      BY <3>1, <3>2
    <3> QED  BY <2>3, <2>4, <3>1, <3>3
  <2> QED  BY <2>5, <2>6
<1>9. LastModule = (CHOOSE f : From(f))[info.modules]
  BY DEF LastModule, M
<1> HIDE DEF From
<1>10. From(CHOOSE f : From(f))
  BY <1>7, Zenon
<1>11. (CHOOSE f : From(f))[place[Min(D)]] = place[Max(D)]
  BY <1>5, <1>8, <1>10
<1>12. LastModule = place[Max(D)]
  BY <1>6, <1>9, <1>11
<1>13. info.modules # 0
  BY <1>2, <1>5, <1>6
<1> QED  BY <1>6, <1>12, <1>13 DEF D

(* The least element, after a greater one has joined.                      *)
LEMMA MinJoined ==
  ASSUME NEW S \in SUBSET Nat, NEW t \in Nat, \A s \in S : s < t
  PROVE  Min(S \cup {t}) = IF S = {} THEN t ELSE Min(S)
<1> DEFINE U == S \cup {t}  x == Min(U)  y == Min(S)
<1>1. U \in SUBSET Nat /\ U # {} /\ t \in U /\ S \subseteq U /\ \A u \in U : u \in S \/ u = t
  OBVIOUS
<1> HIDE DEF U
<1>2. x \in U /\ \A u \in U : x <= u
  BY <1>1, MinIsLeast
<1>3. S # {} => y \in S /\ \A s \in S : y <= s
  BY MinIsLeast
<1> HIDE DEF x, y
<1>4. S = {} => x = t
  BY <1>1, <1>2
<1>5. ASSUME S # {} PROVE x = y
  <2>1. y \in S /\ y \in Nat /\ y \in U /\ y < t /\ x \in Nat
    BY <1>1, <1>2, <1>3, <1>5
  <2>2. x <= y
    BY <1>2, <2>1
  <2>3. x # t
    BY <2>1, <2>2
  <2>4. y <= x
    BY <1>1, <1>2, <1>3, <1>5, <2>3
  <2> QED  BY <2>1, <2>2, <2>4
<1> QED  BY <1>4, <1>5 DEF U, x, y

(* Parsing a module: an entry behind the others, and the link to it.       *)
LEMMA ModuleWritten ==
  ASSUME IInv, ParseModule, NEW place, ListAt(place, 0)
  PROVE  LET D == Done({"module"})
         IN  /\ DOMAIN objs' = DOMAIN objs \cup {ebx} /\ ebx \notin DOMAIN objs
             /\ objs' = [a \in DOMAIN objs' |-> objs'[a]]
             /\ objs'[ebx] = Entry(tag, 0)
             /\ \A a \in DOMAIN objs : objs[a].kind # "module" => objs'[a] = objs[a]
             /\ \A k \in D : objs'[place[k]] =
                  Entry(k, IF k = Max(D) THEN ebx ELSE objs[place[k]].next)
             /\ info' = [info EXCEPT !.modules = IF D = {} THEN ebx ELSE @]
<1> DEFINE D == Done({"module"})  o == Entry(tag, 0)
           new == [a \in DOMAIN objs \cup {ebx} |-> IF a = ebx THEN o ELSE objs[a]]
<1>0. pc = "parse" /\ pc \in Early /\ tags[tag].type = "module"
  BY DEF ParseModule, Parsing, Early
<1>1. o.bytes \in Nat \ {0}
  <2>1. tags[tag].length \in Nat
    BY <1>0, TagFacts DEF IInv, IsTag
  <2> QED  BY <2>1 DEF Entry
<1>2. Module = o
  BY DEF Module, Entry
<1>3. Write(ebx, Module) = new /\ ebx \notin DOMAIN objs
  <2> HIDE DEF o
  <2> QED  BY <1>0, <1>1, <1>2, WriteAppends DEF IInv
<1>4. DOMAIN new = DOMAIN objs \cup {ebx} /\ new[ebx] = o /\ \A a \in DOMAIN objs : new[a] = objs[a]
  BY <1>3
<1>5. \A k \in D : /\ place[k] \in DOMAIN objs /\ objs[place[k]].of = k
                   /\ objs[place[k]].kind = "module"
                   /\ objs[place[k]] = Entry(k, objs[place[k]].next) /\ Max(D) \in D
  BY <1>0, Entries
<1>6. info = [info EXCEPT !.modules = @]
  BY <1>0 DEF IInv, AreaInv, InfoType
<1> HIDE DEF o
<1>7. CASE D = {}
  <2>1. info.modules = 0
    BY <1>7 DEF ListAt, Ptr
  <2>2. info' = [info EXCEPT !.modules = ebx] /\ objs' = new
    BY <1>3, <2>1 DEF ParseModule
  <2>3. objs' = [a \in DOMAIN objs' |-> objs'[a]]
    BY <2>2
  <2> HIDE DEF D, new
  <2> QED  BY <1>3, <1>4, <1>7, <2>2, <2>3 DEF D, o
<1>8. CASE D # {}
  <2> DEFINE last == place[Max(D)]
  <2>1. LastModule = last /\ info.modules # 0
    BY <1>0, <1>8, LastIsLast
  <2>2. info' = info /\ objs' = [new EXCEPT ![last].next = ebx]
    BY <1>3, <2>1 DEF ParseModule
  <2>3. Max(D) \in D /\ last \in DOMAIN objs /\ last # ebx /\ objs[last].kind = "module"
    BY <1>3, <1>5, <1>8
  <2> HIDE DEF D, new, last
  <2>4. /\ DOMAIN objs' = DOMAIN new /\ objs' = [a \in DOMAIN objs' |-> objs'[a]]
        /\ \A a \in DOMAIN new : a # last => objs'[a] = new[a]
        /\ objs'[last] = [new[last] EXCEPT !.next = ebx]
    BY <1>4, <2>2, <2>3
  <2>5. \A k, m, n : [Entry(k, m) EXCEPT !.next = n] = Entry(k, n)
    BY DEF Entry
  <2>6. objs'[last] = Entry(Max(D), ebx)
    BY <1>4, <1>5, <2>3, <2>4, <2>5 DEF last
  <2>7. \A k \in D : k # Max(D) => place[k] # last
    BY <1>5, <2>3 DEF last
  <2>8. \A k \in D : k # Max(D) => objs'[place[k]] = Entry(k, objs[place[k]].next)
    BY <1>4, <1>5, <2>4, <2>7
  <2>9. \A k \in D : objs'[place[k]] =
                       Entry(k, IF k = Max(D) THEN ebx ELSE objs[place[k]].next)
    BY <2>6, <2>8 DEF last
  <2>10. \A a \in DOMAIN objs : objs[a].kind # "module" => objs'[a] = objs[a]
    BY <1>4, <2>3, <2>4
  <2>11. objs'[ebx] = o
    BY <1>4, <2>3, <2>4
  <2>12. info' = [info EXCEPT !.modules = IF D = {} THEN ebx ELSE @]
    BY <1>6, <1>8, <2>2
  <2> QED  BY <1>3, <1>4, <2>4, <2>9, <2>10, <2>11, <2>12 DEF D, o
<1> QED  BY <1>7, <1>8

LEMMA ModuleIInv ==
  ASSUME IInv, ParseModule
  PROVE  IInv'
<1> DEFINE D == Done({"module"})  N == D \cup {tag}  len == 32 + tags[tag].length
<1>1. pc = "parse" /\ tags[tag].type = "module" /\ Elsewhere /\ NextTag(ebx + len)
  <2>1. ebx \in Nat /\ tags[tag].length \in Nat
    BY TagFacts DEF IInv, IsTag, ParseModule, Parsing, ScanInv
  <2>2. ebx + 32 + tags[tag].length = ebx + len
    BY <2>1
  <2> QED  BY <2>2 DEF ParseModule, Parsing
<1>2. len \in Nat \ {0} /\ ebx \in Nat /\ PADDR_END <= ebx
  BY <1>1, TagFacts DEF IInv, IsTag, ScanInv
<1>a. PICK place : \E c \in Nat : ListAt(place, c)
  BY <1>1 DEF IInv, ListInv, Early
<1>b. PICK c \in Nat : ListAt(place, c)
  BY <1>a
<1>3. c = 0 /\ link = 0
  BY <1>1, <1>b DEF ListAt
<1>4. ListAt(place, 0)
  BY <1>3, <1>b
<1>5. /\ DOMAIN objs' = DOMAIN objs \cup {ebx} /\ ebx \notin DOMAIN objs
      /\ objs' = [a \in DOMAIN objs' |-> objs'[a]]
      /\ objs'[ebx] = Entry(tag, 0)
      /\ \A a \in DOMAIN objs : objs[a].kind # "module" => objs'[a] = objs[a]
      /\ \A k \in D : objs'[place[k]] =
           Entry(k, IF k = Max(D) THEN ebx ELSE objs[place[k]].next)
      /\ info' = [info EXCEPT !.modules = IF D = {} THEN ebx ELSE @]
  BY <1>4, ModuleWritten
<1> HIDE DEF len
<1>6. ebx + len \in Nat /\ ebx <= ebx + len
  BY <1>2
<1>7. /\ ScanInv' /\ PageInv' /\ FsInv'
      /\ tags' = tags /\ tag' = tag + 1 /\ pc' = "parse" /\ link' = link
      /\ Shift = 0 /\ Shift' = 0 /\ ebx' \in Nat /\ ebx + len <= ebx'
  BY <1>1, <1>6, ParseCommon
<1>8. /\ D' = N /\ Done({"cmdline"})' = Done({"cmdline"})
      /\ Done({"RSDP", "XSDP"})' = Done({"RSDP", "XSDP"}) /\ Done({"mmap"})' = Done({"mmap"})
  BY <1>1, <1>7, OneMoreDone DEF IInv
<1>9. info \in InfoType /\ CmdlineAt /\ MapAt /\ AcpiAt
  BY <1>1 DEF IInv, AreaInv, PointerInv, Early
<1>10. /\ info' \in InfoType /\ info'.segments = info.segments
       /\ info'.entries = info.entries /\ info'.acpi = info.acpi /\ info'.cmdline = info.cmdline
       /\ info'.modules = IF D = {} THEN ebx ELSE info.modules
  <2> HIDE DEF D
  <2> QED  BY <1>2, <1>5, <1>9 DEF InfoType
<1>11. /\ DOMAIN objs \subseteq Nat
       /\ \A a \in DOMAIN objs :
            objs[a].bytes \in Nat \ {0} /\ PADDR_END <= a /\ a + objs[a].bytes <= ebx
       /\ \A a \in DOMAIN objs : objs[a].kind = "module" => \E k \in D : a = place[k]
       /\ place \in [D -> DOMAIN objs]
       /\ info.modules = Ptr(place, D, ShiftIf(0 # 0))
  BY <1>1, <1>4 DEF IInv, AreaInv, Early, ListAt
<1>12. \A k \in D :
         /\ place[k] \in DOMAIN objs /\ place[k] \in Nat
         /\ objs[place[k]].next = IF After(D, k) = {} THEN 0 ELSE place[Min(After(D, k))]
         /\ After(D, k) # {} => Min(After(D, k)) \in D /\ k < Min(After(D, k))
         /\ After(D, k) = {} <=> k = Max(D)
         /\ objs[place[k]] = Entry(k, objs[place[k]].next)
  BY <1>1, <1>4, Entries
<1>13. \A k \in D : k \in Nat /\ k < tag
  BY DoneFacts DEF IInv
<1>14. tag \in Nat /\ tag \notin D
  BY <1>13, TagFacts DEF IInv
<1>c. D # {} => info.modules = place[Min(D)] /\ Min(D) \in D
  <2>1. D # {} => info.modules = place[Min(D)]
    BY <1>1, <1>4, LastIsLast
  <2> HIDE DEF D
  <2>2. D \in SUBSET Nat
    BY <1>13
  <2> QED  BY <2>1, <2>2, MinIsLeast
<1>15. \A k \in D : objs'[place[k]].bytes = objs[place[k]].bytes
  <2>1. \A k, m, n : Entry(k, m).bytes = Entry(k, n).bytes
    BY DEF Entry
  <2> HIDE DEF D
  <2> QED  BY <1>5, <1>12, <2>1
<1>e. Entry(tag, 0).bytes = len /\ Entry(tag, 0).kind = "module"
  BY DEF Entry, len
<1> HIDE DEF D
<1>16. AreaInv'
  <2>1. \A a \in DOMAIN objs : objs'[a].bytes = objs[a].bytes
    BY <1>5, <1>11, <1>15
  <2>2. \A a \in DOMAIN objs :
          objs'[a].bytes \in Nat \ {0} /\ PADDR_END <= a /\ a + objs'[a].bytes <= ebx'
    <3> TAKE a \in DOMAIN objs
    <3> DEFINE n == objs[a].bytes
    <3>1. n \in Nat \ {0} /\ a + n <= ebx /\ a \in Nat /\ PADDR_END <= a
      BY <1>11
    <3> HIDE DEF n
    <3>2. a + n <= ebx'
      BY <1>2, <1>7, <3>1
    <3> QED  BY <2>1, <3>1, <3>2 DEF n
  <2>3. objs'[ebx].bytes \in Nat \ {0} /\ PADDR_END <= ebx /\ ebx + objs'[ebx].bytes <= ebx'
    BY <1>2, <1>5, <1>7, <1>e
  <2>4. \A a \in DOMAIN objs' :
          objs'[a].bytes \in Nat \ {0} /\ PADDR_END <= a /\ a + objs'[a].bytes <= ebx'
    BY <1>5, <2>2, <2>3
  <2>5. DOMAIN objs' \subseteq Nat
    BY <1>2, <1>5, <1>11
  <2> QED  BY <1>5, <1>10, <2>4, <2>5 DEF AreaInv
<1>17. OthersKept
  BY <1>5 DEF OthersKept
<1>18. CmdlineAt' /\ MapAt' /\ AcpiAt'
  BY <1>7, <1>8, <1>9, <1>10, <1>11, <1>17, CmdlineKept, MapKept, AcpiKept
<1>19. ListInv'
  <2> DEFINE pl == [k \in N |-> IF k = tag THEN ebx ELSE place[k]]
  <2>1. /\ pl \in [N -> DOMAIN objs'] /\ pl[tag] = ebx /\ \A k \in D : pl[k] = place[k]
    BY <1>5, <1>11, <1>14
  <2>2. \A a \in DOMAIN objs' : objs'[a].kind = "module" => \E k \in N : a = pl[k]
    <3> TAKE a \in DOMAIN objs'
    <3> HAVE objs'[a].kind = "module"
    <3>1. CASE a = ebx
      BY <2>1, <3>1
    <3>2. CASE a # ebx
      <4>1. a \in DOMAIN objs /\ objs[a].kind = "module"
        BY <1>5, <3>2
      <4>2. PICK k \in D : a = place[k]
        BY <1>11, <4>1
      <4> QED  BY <2>1, <4>2
    <3> QED  BY <3>1, <3>2
  <2>3. \A k \in D : Min(After(N, k)) = IF k = Max(D) THEN tag ELSE Min(After(D, k))
    <3> TAKE k \in D
    <3>1. After(N, k) = After(D, k) \cup {tag}
      BY <1>13, <1>14 DEF After
    <3>2. After(D, k) \in SUBSET Nat /\ \A s \in After(D, k) : s < tag
      BY <1>13 DEF After
    <3> QED  BY <1>12, <1>14, <3>1, <3>2, MinJoined
  <2>4. \A k \in D : After(N, k) # {}
    BY <1>13, <1>14 DEF After
  <2>5. After(N, tag) = {}
    BY <1>13, <1>14 DEF After
  <2>6. Min(N) = IF D = {} THEN tag ELSE Min(D)
    <3>1. D \in SUBSET Nat
      BY <1>13
    <3> QED  BY <1>13, <1>14, <3>1, MinJoined
  <2>z. \A x \in Nat : 0 + x = x
    OBVIOUS
  <2> HIDE DEF pl
  <2>7. info'.modules = Ptr(pl, N, 0)
    <3>1. CASE D = {}
      <4>1. pl[Min(N)] = ebx
        BY <2>1, <2>6, <3>1
      <4> QED  BY <1>2, <1>10, <2>z, <3>1, <4>1 DEF Ptr
    <3>2. CASE D # {}
      <4>1. pl[Min(N)] = place[Min(D)] /\ place[Min(D)] \in Nat
        BY <1>c, <1>12, <2>1, <2>6, <3>2
      <4> QED  BY <1>c, <1>10, <2>z, <3>2, <4>1 DEF Ptr
    <3> QED  BY <3>1, <3>2
  <2>8. \A k \in D : objs'[pl[k]] = Entry(k, Ptr(pl, After(N, k), 0))
    <3> TAKE k \in D
    <3>1. Ptr(pl, After(N, k), 0) = 0 + pl[Min(After(N, k))]
      BY <2>4 DEF Ptr
    <3>2. CASE k = Max(D)
      <4>1. Ptr(pl, After(N, k), 0) = ebx
        BY <1>2, <2>1, <2>3, <2>z, <3>1, <3>2
      <4> QED  BY <1>5, <2>1, <3>2, <4>1
    <3>3. CASE k # Max(D)
      <4>1. After(D, k) # {} /\ Min(After(D, k)) \in D
        BY <1>12, <3>3
      <4>2. pl[Min(After(N, k))] = place[Min(After(D, k))] /\ place[Min(After(D, k))] \in Nat
        BY <1>12, <2>1, <2>3, <3>3, <4>1
      <4>3. Ptr(pl, After(N, k), 0) = objs[place[k]].next
        BY <1>12, <2>z, <3>1, <4>1, <4>2
      <4> QED  BY <1>5, <2>1, <3>3, <4>3
    <3> QED  BY <3>2, <3>3
  <2>9. objs'[pl[tag]] = Entry(tag, Ptr(pl, After(N, tag), 0))
    BY <1>5, <2>1, <2>5 DEF Ptr
  <2>10. \A k \in N : objs'[pl[k]] = Entry(k, Ptr(pl, After(N, k), 0))
    BY <2>8, <2>9
  <2>11. \A k \in N : objs'[pl[k]] = Entry(k, Ptr(pl, After(N, k), ShiftIf(k < 0)))
    <3>1. \A k \in N : k \in Nat
      BY <1>13, <1>14
    <3>2. \A k \in N : ShiftIf(k < 0) = 0
      BY <3>1 DEF ShiftIf
    <3> QED  BY <2>10, <3>2
  <2>12. info'.modules = Ptr(pl, N, ShiftIf(0 # 0))
    BY <2>7 DEF ShiftIf
  <2> HIDE DEF N
  <2>a. PICK q : q = pl
    OBVIOUS
  <2>b. PICK T : T = N
    OBVIOUS
  <2>13. \A k \in T : objs'[q[k]] = Entry(k, Ptr(q, After(T, k), ShiftIf(k < 0)))'
    <3>1. \A k, n : Entry(k, n)' = Entry(k, n)
      BY <1>7 DEF Entry
    <3>2. \A k \in T : objs'[q[k]] = Entry(k, Ptr(q, After(T, k), ShiftIf(k < 0)))
      BY <2>11, <2>a, <2>b
    <3> QED  BY <1>7, <3>2 DEF Entry, Ptr, After, ShiftIf
  <2>c. /\ q \in [T -> DOMAIN objs'] /\ D' = T
        /\ \A a \in DOMAIN objs' : objs'[a].kind = "module" => \E k \in T : a = q[k]
        /\ info'.modules = Ptr(q, T, ShiftIf(0 # 0))
    BY <1>8, <2>1, <2>2, <2>12, <2>a, <2>b
  <2>14. ListAt(q, 0)'
    BY <1>3, <1>7, <2>c, <2>13 DEF ListAt, D, Ptr, After, ShiftIf
  <2> QED  BY <2>14 DEF ListInv
<1> QED  BY <1>7, <1>16, <1>18, <1>19 DEF IInv, PointerInv

-----------------------------------------------------------------------------
(* The relocation of pointers and links.                                   *)

LEMMA PointersIInv ==
  ASSUME IInv, RelocatePointers
  PROVE  IInv'
<1>1. /\ pc = "relocate" /\ pc' = "links"
      /\ info' = [info EXCEPT !.cmdline = @ + HIGHER_HALF, !.segments = @ + HIGHER_HALF]
      /\ tags' = tags /\ tag' = tag /\ ebx' = ebx /\ objs' = objs /\ link' = link
      /\ tables' = tables /\ fs' = fs /\ UNCHANGED <<locked, taken, fs, answer>>
  BY DEF RelocatePointers
<1>2. /\ pc \in Early \ {"start"} /\ pc' \in Early \ {"start"}
      /\ Shift = 0 /\ Shift' = HIGHER_HALF /\ HIGHER_HALF \in Nat
  BY <1>1, LayoutAssumption DEF Early, Shift, Relocated
<1>3. \A types : Done(types)' = Done(types)
  BY <1>1 DEF Done
<1>4. info \in InfoType /\ CmdlineAt /\ MapAt /\ AcpiAt /\ AreaInv
  BY <1>2 DEF IInv, AreaInv, PointerInv
<1>5. /\ info' \in InfoType /\ info'.modules = info.modules /\ info'.entries = info.entries
      /\ info'.acpi = info.acpi /\ info'.cmdline = info.cmdline + HIGHER_HALF
      /\ info'.segments = info.segments + HIGHER_HALF
  <2> DEFINE x == info.cmdline + HIGHER_HALF  y == info.segments + HIGHER_HALF
  <2>1. info.cmdline \in Nat /\ info.segments \in Nat
    BY <1>4 DEF InfoType
  <2>2. x \in Nat /\ y \in Nat
    BY <1>2, <2>1
  <2>3. info' = [info EXCEPT !.cmdline = x, !.segments = y]
    BY <1>1
  <2> HIDE DEF x, y
  <2>4. /\ info' \in InfoType /\ info'.modules = info.modules /\ info'.entries = info.entries
        /\ info'.acpi = info.acpi /\ info'.cmdline = x /\ info'.segments = y
    BY <1>4, <2>2, <2>3 DEF InfoType
  <2> QED  BY <2>4 DEF x, y
<1>6. ScanInv'
  BY <1>1 DEF IInv, ScanInv, Early
<1>7. AreaInv'
  <2>1. AreaInv /\ pc \in Early
    BY <1>2 DEF IInv
  <2> QED  BY <1>1, <1>5, <2>1 DEF AreaInv
<1>8. OthersKept /\ ObjectsKept /\ DOMAIN objs \subseteq Nat
  BY <1>1, <1>2, <1>4 DEF OthersKept, ObjectsKept, AreaInv
<1>9. \A a \in Nat : /\ info.cmdline = a + Shift => info'.cmdline = a + Shift'
                     /\ info.segments = a + Shift => info'.segments = a + Shift'
  <2>1. info.cmdline \in Nat /\ info.segments \in Nat
    BY <1>4 DEF InfoType
  <2> QED  BY <1>2, <1>5, <2>1
<1>10. CmdlineAt' /\ MapAt' /\ AcpiAt'
  BY <1>1, <1>2, <1>3, <1>4, <1>5, <1>8, <1>9, CmdlineKept, MapKept, AcpiKept
<1>11. PageInv' /\ FsInv'
  BY <1>1, <1>2, PageKept, FsKept DEF IInv
<1>12. ListInv'
  <2>1. PICK place : \E c \in Nat : ListAt(place, c)
    BY <1>2 DEF IInv, ListInv
  <2>2. PICK c \in Nat : ListAt(place, c)
    BY <2>1
  <2>3. c = 0 /\ link = 0
    BY <1>1, <2>2 DEF ListAt
  <2>4. ListAt(place, c)'
    BY <1>1, <1>3, <1>5, <1>8, <2>2, <2>3, ListKept
  <2> QED  BY <2>2, <2>4 DEF ListInv
<1> QED  BY <1>6, <1>7, <1>10, <1>11, <1>12 DEF IInv, PointerInv

(* The entries of the list at any time.                                    *)
LEMMA Placed ==
  ASSUME IInv, pc \in Early, NEW place, NEW c \in Nat, ListAt(place, c), NEW k \in Done({"module"})
  PROVE  LET D == Done({"module"})
         IN  /\ k \in Nat \ {0} /\ k < Len(tags) /\ tags[k].type = "module" /\ k \in DOMAIN tags
             /\ place[k] \in DOMAIN objs /\ place[k] \in Nat /\ PADDR_END <= place[k] /\ place[k] # 0
             /\ objs[place[k]] = Entry(k, Ptr(place, After(D, k), ShiftIf(k < c)))
             /\ objs[place[k]].kind = "module" /\ objs[place[k]].of = k
             /\ After(D, k) # {} =>
                  /\ Min(After(D, k)) \in D /\ k < Min(After(D, k))
                  /\ \A m \in D : m > k => Min(After(D, k)) <= m
<1> DEFINE D == Done({"module"})
<1>1. place \in [D -> DOMAIN objs]
  BY DEF ListAt
<1>2. objs[place[k]] = Entry(k, Ptr(place, After(D, k), ShiftIf(k < c)))
  BY DEF ListAt
<1>3. /\ D \subseteq Nat /\ D \subseteq DOMAIN tags
      /\ k \in Nat \ {0} /\ k < Len(tags) /\ tags[k].type = "module" /\ k \in DOMAIN tags
  <2>1. /\ D \subseteq Nat /\ k < tag /\ k \in 1..Len(tags) /\ D \subseteq DOMAIN tags
    BY DoneFacts DEF IInv
  <2>2. tag \in 1..Len(tags) /\ Len(tags) \in Nat
    BY TagFacts DEF IInv, ScanInv
  <2>3. k < Len(tags)
    BY <2>1, <2>2
  <2>4. tags[k].type = "module"
    BY DEF Done
  <2> QED  BY <2>1, <2>3, <2>4
<1> HIDE DEF D
<1>4. place[k] \in DOMAIN objs /\ place[k] \in Nat /\ PADDR_END <= place[k] /\ place[k] # 0
  <2>1. DOMAIN objs \subseteq Nat /\ \A a \in DOMAIN objs : PADDR_END <= a
    BY DEF IInv, AreaInv
  <2>2. PADDR_END \in Nat \ {0} /\ k \in D
    BY ShiftType DEF D
  <2> QED  BY <1>1, <2>1, <2>2
<1>5. \A n : Entry(k, n).kind = "module" /\ Entry(k, n).of = k
  BY DEF Entry
<1>6. objs[place[k]].kind = "module" /\ objs[place[k]].of = k
  BY <1>2, <1>5, Zenon
<1>7. ASSUME After(D, k) # {}
      PROVE  /\ Min(After(D, k)) \in D /\ k < Min(After(D, k))
             /\ \A m \in D : m > k => Min(After(D, k)) <= m
  <2>1. After(D, k) \in SUBSET Nat
    BY <1>3 DEF After
  <2>2. /\ Min(After(D, k)) \in After(D, k)
        /\ \A m \in After(D, k) : Min(After(D, k)) <= m
    BY <1>7, <2>1, MinIsLeast
  <2> QED  BY <2>2 DEF After
<1> QED  BY <1>2, <1>3, <1>4, <1>6, <1>7 DEF D

(* The link that is relocated next, and the module it leads to.            *)
LEMMA LinkedIs ==
  ASSUME IInv, pc = "links", NEW place, NEW c \in Nat, ListAt(place, c)
  PROVE  LET D == Done({"module"})
             R == IF c = 0 THEN D ELSE After(D, c)
         IN  /\ (c = 0 /\ link = 0) \/ (c \in D /\ link = place[c] /\ link # 0)
             /\ R = {} => Linked = 0
             /\ R # {} => /\ Min(R) \in D /\ Linked = place[Min(R)] /\ Linked # 0 /\ Linked \in Nat
                          /\ \A m \in D : m > c => Min(R) <= m
<1> DEFINE D == Done({"module"})
           R == IF c = 0 THEN D ELSE After(D, c)
<1>0. pc \in Early
  BY DEF Early
<1>1. \A k \in D : place[k] \in Nat /\ place[k] # 0 /\ k \in Nat \ {0}
  BY <1>0, Placed
<1>2. (c = 0 /\ link = 0) \/ (c \in D /\ link = place[c] /\ link # 0)
  BY <1>1 DEF ListAt
<1>3. info.modules = Ptr(place, D, ShiftIf(c # 0))
  BY DEF ListAt
<1>4. \A k \in D : objs[place[k]] = Entry(k, Ptr(place, After(D, k), ShiftIf(k < c)))
  BY DEF ListAt
<1> HIDE DEF D
<1>5. Linked = Ptr(place, R, 0)
  <2>1. CASE c = 0 /\ link = 0
    BY <1>3, <2>1 DEF Linked, ShiftIf
  <2>2. CASE c \in D /\ link = place[c] /\ link # 0
    <3>1. Linked = objs[place[c]].next /\ c # 0
      BY <1>1, <2>2 DEF Linked
    <3>2. ~(c < c)
      OBVIOUS
    <3>3. objs[place[c]] = Entry(c, Ptr(place, After(D, c), 0))
      BY <1>4, <2>2, <3>2 DEF ShiftIf
    <3>4. \A n : Entry(c, n).next = n
      BY DEF Entry
    <3> QED  BY <3>1, <3>3, <3>4
  <2> QED  BY <1>2, <2>1, <2>2
<1>6. R = {} => Linked = 0
  BY <1>5 DEF Ptr
<1>7. ASSUME R # {}
      PROVE  /\ Min(R) \in D /\ Linked = place[Min(R)] /\ Linked # 0 /\ Linked \in Nat
             /\ \A m \in D : m > c => Min(R) <= m
  <2>1. R \in SUBSET Nat /\ R \subseteq D
    BY <1>1 DEF After
  <2>2. \A m \in D : m > c => m \in R
    BY DEF After
  <2> HIDE DEF R
  <2>3. Min(R) \in R /\ \A m \in R : Min(R) <= m
    BY <1>7, <2>1, MinIsLeast
  <2>4. Linked = 0 + place[Min(R)] /\ place[Min(R)] \in Nat /\ place[Min(R)] # 0
    BY <1>1, <1>5, <1>7, <2>1, <2>3 DEF Ptr
  <2>5. Linked = place[Min(R)]
    BY <2>4
  <2> QED  BY <2>1, <2>2, <2>3, <2>4, <2>5
<1> QED  BY <1>2, <1>6, <1>7 DEF D

(* One step along the list.                                                *)
LEMMA LinkMoves ==
  ASSUME IInv, RelocateLink, NEW place, NEW c \in Nat, ListAt(place, c)
  PROVE  LET D == Done({"module"})
         IN  /\ DOMAIN objs' = DOMAIN objs /\ objs' = [a \in DOMAIN objs' |-> objs'[a]]
             /\ \A a \in DOMAIN objs : /\ objs'[a].bytes = objs[a].bytes
                                       /\ objs'[a].kind = objs[a].kind
                                       /\ objs[a].kind # "module" => objs'[a] = objs[a]
             /\ info \in InfoType /\ info' \in InfoType
             /\ info'.segments = info.segments /\ info'.entries = info.entries
             /\ info'.acpi = info.acpi /\ info'.cmdline = info.cmdline
             /\ \E d \in Nat :
                  /\ info'.modules = Ptr(place, D, ShiftIf(d # 0))
                  /\ \A k \in D : objs'[place[k]] =
                                    Entry(k, Ptr(place, After(D, k), ShiftIf(k < d)))
                  /\ pc' = "links" => d \in D /\ link' = place[d]
                  /\ pc' = "pm_init" => d = Len(tags)
<1> DEFINE D == Done({"module"})
           R == IF c = 0 THEN D ELSE After(D, c)
<1>0. pc = "links" /\ pc \in Early
  BY DEF RelocateLink, Early
<1>1. /\ (c = 0 /\ link = 0) \/ (c \in D /\ link = place[c] /\ link # 0)
      /\ R = {} => Linked = 0
      /\ R # {} => /\ Min(R) \in D /\ Linked = place[Min(R)] /\ Linked # 0 /\ Linked \in Nat
                   /\ \A m \in D : m > c => Min(R) <= m
  BY <1>0, LinkedIs
<1>2. \A k \in D : /\ k \in Nat \ {0} /\ k < Len(tags)
                   /\ place[k] \in DOMAIN objs
                   /\ objs[place[k]] = Entry(k, Ptr(place, After(D, k), ShiftIf(k < c)))
                   /\ objs[place[k]].kind = "module" /\ objs[place[k]].of = k
  BY <1>0, Placed
<1>3. /\ info \in InfoType /\ objs = [a \in DOMAIN objs |-> objs[a]]
      /\ info.modules = Ptr(place, D, ShiftIf(c # 0)) /\ Len(tags) \in Nat \ {0}
  BY <1>0, TagFacts DEF IInv, AreaInv, ListAt
<1>h. HIGHER_HALF \in Nat
  BY LayoutAssumption
<1> HIDE DEF D
<1>4. CASE R = {}
  <2> DEFINE d == Len(tags)
  <2>1. pc' = "pm_init" /\ info' = info /\ objs' = objs
    BY <1>1, <1>4 DEF RelocateLink
  <2> HIDE DEF d
  <2>2. d \in Nat \ {0} /\ \A k \in D : k < d
    BY <1>2, <1>3 DEF d
  <2>3. info'.modules = Ptr(place, D, ShiftIf(d # 0))
    <3>1. CASE c = 0
      BY <1>3, <1>4, <2>1, <3>1 DEF Ptr
    <3>2. CASE c # 0
      BY <1>3, <2>1, <2>2, <3>2 DEF ShiftIf
    <3> QED  BY <3>1, <3>2
  <2>4. \A k \in D : objs'[place[k]] = Entry(k, Ptr(place, After(D, k), ShiftIf(k < d)))
    <3> TAKE k \in D
    <3>1. c # 0 /\ c \in D /\ After(D, c) = {}
      BY <1>1, <1>2, <1>4
    <3>2. k \in Nat /\ ~(k > c)
      BY <1>2, <3>1 DEF After
    <3>3. CASE k = c
      <4>1. Ptr(place, After(D, k), ShiftIf(k < d)) = Ptr(place, After(D, k), ShiftIf(k < c))
        BY <3>1, <3>3 DEF Ptr
      <4> QED  BY <1>2, <2>1, <4>1
    <3>4. CASE k < c
      <4>1. ShiftIf(k < d) = ShiftIf(k < c)
        BY <2>2, <3>4 DEF ShiftIf
      <4> QED  BY <1>2, <2>1, <4>1
    <3> QED  BY <3>2, <3>3, <3>4
  <2>5. \E e \in Nat : /\ info'.modules = Ptr(place, D, ShiftIf(e # 0))
                       /\ \A k \in D : objs'[place[k]] =
                                         Entry(k, Ptr(place, After(D, k), ShiftIf(k < e)))
                       /\ pc' = "links" => e \in D /\ link' = place[e]
                       /\ pc' = "pm_init" => e = Len(tags)
    BY <2>1, <2>2, <2>3, <2>4 DEF d
  <2> QED  BY <1>3, <2>1, <2>5 DEF D
<1>5. CASE R # {}
  <2> DEFINE d == Min(R)  p == Linked + HIGHER_HALF
  <2>1. /\ SetLink(p) /\ link' = Linked /\ pc' = "links"
    BY <1>0, <1>1, <1>5 DEF RelocateLink
  <2>2. d \in D /\ Linked = place[d] /\ Linked \in Nat /\ \A m \in D : m > c => d <= m
    BY <1>1, <1>5
  <2>r. c = 0 => \A m \in D : d <= m
    BY <1>2, <2>2
  <2>s. c # 0 => c \in D /\ After(D, c) = R /\ link = place[c] /\ link # 0
    BY <1>1
  <2>t. c # 0 => d \in After(D, c)
    <3>1. R \in SUBSET Nat
      BY <1>2 DEF After
    <3> HIDE DEF R
    <3> QED  BY <1>5, <2>s, <3>1, MinIsLeast
  <2>x. p \in Nat /\ p = HIGHER_HALF + place[d]
    BY <1>h, <2>2
  <2>y. c = 0 => p = Ptr(place, D, HIGHER_HALF)
    BY <1>5, <2>x DEF Ptr
  <2>w. c # 0 => p = Ptr(place, After(D, c), HIGHER_HALF)
    BY <1>5, <2>s, <2>x DEF Ptr
  <2> HIDE DEF d, p, R
  <2>3. d \in Nat \ {0}
    BY <1>2, <2>2
  <2>4. CASE c = 0
    <3>1. info' = [info EXCEPT !.modules = p] /\ objs' = objs
      BY <1>1, <1>2, <2>1, <2>4 DEF SetLink
    <3>2. /\ info' \in InfoType /\ info'.segments = info.segments /\ info'.entries = info.entries
          /\ info'.acpi = info.acpi /\ info'.cmdline = info.cmdline /\ info'.modules = p
      BY <1>3, <2>x, <3>1 DEF InfoType
    <3>3. info'.modules = Ptr(place, D, ShiftIf(d # 0))
      BY <2>3, <2>4, <2>y, <3>2 DEF ShiftIf
    <3>4. \A k \in D : ~(k < d) /\ ~(k < c)
      BY <1>2, <2>3, <2>4, <2>r
    <3>5. \A k \in D : ShiftIf(k < d) = ShiftIf(k < c)
      BY <3>4 DEF ShiftIf
    <3>6. \A k \in D : objs'[place[k]] = Entry(k, Ptr(place, After(D, k), ShiftIf(k < d)))
      BY <1>2, <3>1, <3>5
    <3>7. \E e \in Nat : /\ info'.modules = Ptr(place, D, ShiftIf(e # 0))
                         /\ \A k \in D : objs'[place[k]] =
                                           Entry(k, Ptr(place, After(D, k), ShiftIf(k < e)))
                         /\ pc' = "links" => e \in D /\ link' = place[e]
                         /\ pc' = "pm_init" => e = Len(tags)
      BY <2>1, <2>2, <2>3, <3>3, <3>6
    <3> QED  BY <1>3, <3>1, <3>2, <3>7 DEF D
  <2>5. CASE c # 0
    <3>1. /\ c \in D /\ place[c] \in DOMAIN objs
          /\ objs' = [objs EXCEPT ![place[c]].next = p] /\ info' = info
      BY <1>2, <2>1, <2>5, <2>s DEF SetLink
    <3> DEFINE a0 == place[c]
    <3> HIDE DEF a0
    <3>2. /\ DOMAIN objs' = DOMAIN objs /\ objs' = [a \in DOMAIN objs' |-> objs'[a]]
          /\ \A a \in DOMAIN objs : a # a0 => objs'[a] = objs[a]
          /\ objs'[a0] = [objs[a0] EXCEPT !.next = p]
      BY <1>3, <3>1 DEF a0
    <3>3. \A k, m, n : /\ [Entry(k, m) EXCEPT !.next = n] = Entry(k, n)
                       /\ Entry(k, m).bytes = Entry(k, n).bytes
                       /\ Entry(k, m).kind = "module"
      BY DEF Entry
    <3>4. objs'[a0] = Entry(c, p) /\ objs[a0] = Entry(c, Ptr(place, After(D, c), ShiftIf(c < c)))
      BY <1>2, <3>1, <3>2, <3>3 DEF a0
    <3>5. \A a \in DOMAIN objs : /\ objs'[a].bytes = objs[a].bytes
                                 /\ objs'[a].kind = objs[a].kind
                                 /\ objs[a].kind # "module" => objs'[a] = objs[a]
      BY <3>2, <3>3, <3>4
    <3>6. \A k \in D : k # c => place[k] # a0
      BY <1>2, <3>1 DEF a0
    <3>7. c < d
      BY <2>5, <2>t DEF After
    <3>8. \A k \in D : k # c => ShiftIf(k < d) = ShiftIf(k < c)
      <4>1. \A k \in D : k # c => (k < d <=> k < c)
        BY <1>2, <2>2, <2>3, <3>7
      <4> QED  BY <4>1 DEF ShiftIf
    <3>9. \A k \in D : objs'[place[k]] = Entry(k, Ptr(place, After(D, k), ShiftIf(k < d)))
      <4> TAKE k \in D
      <4>1. CASE k = c
        <5>1. ShiftIf(k < d) = HIGHER_HALF
          BY <3>7, <4>1 DEF ShiftIf
        <5> QED  BY <2>5, <2>w, <3>4, <4>1, <5>1 DEF a0
      <4>2. CASE k # c
        BY <1>2, <3>2, <3>6, <3>8, <4>2
      <4> QED  BY <4>1, <4>2
    <3>10. info'.modules = Ptr(place, D, ShiftIf(d # 0))
      BY <1>3, <2>3, <2>5, <3>1 DEF ShiftIf
    <3>11. \E e \in Nat : /\ info'.modules = Ptr(place, D, ShiftIf(e # 0))
                          /\ \A k \in D : objs'[place[k]] =
                                            Entry(k, Ptr(place, After(D, k), ShiftIf(k < e)))
                          /\ pc' = "links" => e \in D /\ link' = place[e]
                          /\ pc' = "pm_init" => e = Len(tags)
      BY <2>1, <2>2, <2>3, <3>9, <3>10
    <3> QED  BY <1>3, <3>1, <3>2, <3>5, <3>11 DEF D
  <2> QED  BY <2>4, <2>5
<1> QED  BY <1>4, <1>5

LEMMA LinkIInv ==
  ASSUME IInv, RelocateLink
  PROVE  IInv'
<1> DEFINE D == Done({"module"})
<1>0. /\ pc = "links" /\ pc' \in {"links", "pm_init"}
      /\ tags' = tags /\ tag' = tag /\ ebx' = ebx /\ tables' = tables /\ fs' = fs
      /\ UNCHANGED <<locked, taken, fs, answer>>
  BY DEF RelocateLink
<1>1. /\ pc \in Early \ {"start"} /\ pc' \in Early \ {"start"} /\ pc \in Early /\ pc' \in Early
      /\ Shift = HIGHER_HALF /\ Shift' = HIGHER_HALF /\ HIGHER_HALF \in Nat
  BY <1>0, LayoutAssumption DEF Early, Shift, Relocated
<1>a. PICK place : \E c \in Nat : ListAt(place, c)
  BY <1>1 DEF IInv, ListInv
<1>b. PICK c \in Nat : ListAt(place, c)
  BY <1>a
<1>2. /\ DOMAIN objs' = DOMAIN objs /\ objs' = [a \in DOMAIN objs' |-> objs'[a]]
      /\ \A a \in DOMAIN objs : /\ objs'[a].bytes = objs[a].bytes
                                /\ objs'[a].kind = objs[a].kind
                                /\ objs[a].kind # "module" => objs'[a] = objs[a]
      /\ info \in InfoType /\ info' \in InfoType
      /\ info'.segments = info.segments /\ info'.entries = info.entries
      /\ info'.acpi = info.acpi /\ info'.cmdline = info.cmdline
      /\ \E d \in Nat :
           /\ info'.modules = Ptr(place, D, ShiftIf(d # 0))
           /\ \A k \in D : objs'[place[k]] =
                             Entry(k, Ptr(place, After(D, k), ShiftIf(k < d)))
           /\ pc' = "links" => d \in D /\ link' = place[d]
           /\ pc' = "pm_init" => d = Len(tags)
  BY <1>b, LinkMoves
<1>3. PICK d \in Nat :
           /\ info'.modules = Ptr(place, D, ShiftIf(d # 0))
           /\ \A k \in D : objs'[place[k]] =
                             Entry(k, Ptr(place, After(D, k), ShiftIf(k < d)))
           /\ pc' = "links" => d \in D /\ link' = place[d]
           /\ pc' = "pm_init" => d = Len(tags)
  BY <1>2
<1>4. \A types : Done(types)' = Done(types)
  BY <1>0 DEF Done
<1>5. CmdlineAt /\ MapAt /\ AcpiAt /\ AreaInv
  BY <1>1 DEF IInv, PointerInv
<1>6. ScanInv'
  BY <1>0 DEF IInv, ScanInv, Early
<1>7. AreaInv'
  BY <1>0, <1>1, <1>2, <1>5 DEF AreaInv
<1>8. OthersKept /\ DOMAIN objs \subseteq Nat
  BY <1>1, <1>2, <1>5 DEF OthersKept, AreaInv
<1>9. CmdlineAt' /\ MapAt' /\ AcpiAt'
  BY <1>0, <1>1, <1>2, <1>4, <1>5, <1>8, CmdlineKept, MapKept, AcpiKept
<1>10. PageInv' /\ FsInv'
  BY <1>0, <1>1, PageKept, FsKept DEF IInv
<1>11. ListAt(place, d)'
  <2>1. /\ place \in [D -> DOMAIN objs'] /\ D' = D
        /\ \A a \in DOMAIN objs' : objs'[a].kind = "module" => \E k \in D : a = place[k]
    BY <1>2, <1>4, <1>b DEF ListAt
  <2> HIDE DEF D
  <2>2. \A k \in D : objs'[place[k]] = Entry(k, Ptr(place, After(D, k), ShiftIf(k < d)))'
    BY <1>0, <1>3, <2>1 DEF Entry, Ptr, After, ShiftIf
  <2>3. info'.modules = Ptr(place, D, ShiftIf(d # 0))'
    BY <1>3, <2>1 DEF Ptr, ShiftIf
  <2> QED  BY <1>0, <1>3, <2>1, <2>2, <2>3 DEF ListAt, D, Ptr, After, ShiftIf
<1> QED  BY <1>6, <1>7, <1>9, <1>10, <1>11 DEF IInv, PointerInv, ListInv

-----------------------------------------------------------------------------
(* The page manager.                                                       *)

(* The first page of the image.                                            *)
LEMMA ImagePage ==
  /\ PAGE_SIZE \in Nat \ {0} /\ {NumPages, HIGHER_HALF, PADDR_START, PADDR_END} \subseteq Nat
  /\ PADDR_START \div PAGE_SIZE \in Nat /\ PADDR_START < PADDR_END
  /\ \A a \in Nat : PADDR_START <= a =>
       a \div PAGE_SIZE \in Nat /\ PADDR_START \div PAGE_SIZE <= a \div PAGE_SIZE
<1>1. /\ PAGE_SIZE \in Nat \ {0} /\ {NumPages, HIGHER_HALF, PADDR_START, PADDR_END} \subseteq Nat
      /\ PADDR_START < PADDR_END
  BY LayoutAssumption
<1>2. \A a \in Nat : PADDR_START <= a =>
        /\ a \div PAGE_SIZE \in Nat /\ PADDR_START \div PAGE_SIZE \in Nat
        /\ PADDR_START \div PAGE_SIZE <= a \div PAGE_SIZE
  BY <1>1, Division
<1>3. PADDR_START \div PAGE_SIZE \in Nat
  BY <1>1, <1>2
<1> QED  BY <1>1, <1>2, <1>3

(* The pages of a range start with that of its first byte.                 *)
LEMMA PagesFollow ==
  ASSUME NEW start \in Nat, NEW end \in Nat
  PROVE  \A p \in Pages(start, end) : p \in Int /\ start \div PAGE_SIZE <= p
<1> DEFINE first == start \div PAGE_SIZE
           x == (end - start + PAGE_SIZE - 1) \div PAGE_SIZE
           n == Max({1, x})
<1>1. PAGE_SIZE \in Nat \ {0}
  BY LayoutAssumption
<1>2. first \in Int /\ x \in Int
  BY <1>1
<1> HIDE DEF first, x
<1>3. n \in Int
  <2>1. \E m \in {1, x} : \A y \in {1, x} : m >= y
    BY <1>2
  <2>2. n \in {1, x}
    BY <2>1 DEF Max
  <2> QED  BY <1>2, <2>2
<1> HIDE DEF n
<1>4. Pages(start, end) = first..(first + n - 1)
  BY DEF Pages, first, x, n
<1>5. \A p \in first..(first + n - 1) : p \in Int /\ first <= p
  BY <1>2, <1>3
<1> QED  BY <1>4, <1>5 DEF first

(* None of the pages below the image holds data of the boot.               *)
LEMMA HighRanges ==
  ASSUME NEW start \in Nat, NEW end \in Nat, PADDR_START <= start
  PROVE  Pages(start, end) \cap LowPages = {}
<1> DEFINE f == PADDR_START \div PAGE_SIZE  s == start \div PAGE_SIZE
<1>1. f \in Nat /\ s \in Nat /\ f <= s
  BY ImagePage
<1>2. \A p \in Pages(start, end) : p \in Int /\ s <= p
  BY PagesFollow
<1>3. LowPages = 0..(f - 1)
  BY DEF LowPages
<1> HIDE DEF f, s
<1> QED  BY <1>1, <1>2, <1>3

LEMMA ObjectPages ==
  ASSUME ScanInv, AreaInv, pc \in Early, NEW a \in DOMAIN objs, NEW b \in Span(a, objs[a])
  PROVE  /\ b \in Nat /\ b < ebx /\ PADDR_START <= b
         /\ b \div PAGE_SIZE \in Nat /\ b \div PAGE_SIZE \notin LowPages
         /\ PADDR_START \div PAGE_SIZE <= b \div PAGE_SIZE
<1> DEFINE n == objs[a].bytes
<1>1. /\ a \in Nat /\ n \in Nat \ {0} /\ PADDR_END <= a /\ a + n <= ebx /\ ebx \in Nat
      /\ b \in a..(a + n - 1)
  BY DEF AreaInv, ScanInv, Span
<1> HIDE DEF n
<1>2. b \in Nat /\ b < ebx /\ PADDR_START <= b
  BY <1>1, ImagePage
<1> DEFINE q == b \div PAGE_SIZE  f == PADDR_START \div PAGE_SIZE
<1>3. q \in Nat /\ f \in Nat /\ f <= q
  BY <1>2, ImagePage
<1>4. q \notin 0..(f - 1)
  <2> HIDE DEF q, f
  <2> QED  BY <1>3
<1> QED  BY <1>2, <1>3, <1>4 DEF LowPages

(* Behind a relocated pointer lies its object.                             *)
LEMMA Found ==
  ASSUME IInv, pc \in {"pm_init", "start"}, NEW a \in DOMAIN objs, NEW p, p = a + HIGHER_HALF
  PROVE  Deref(p) = objs[a]
<1>0. pc \in Early /\ ScanInv /\ AreaInv
  BY DEF IInv, Early
<1>1. PICK first \in Nat : first = ALIGNUP(ebx, PAGE_SIZE) \div PAGE_SIZE /\ tables = (first + 1)..(first + 4)
  BY DEF IInv, ScanInv
<1>2. Max(tables) = first + 4
  <2>1. first + 4 \in Nat /\ tables \in SUBSET (0..(first + 4)) /\ tables # {} /\ first + 4 \in tables
    BY <1>1
  <2> DEFINE m == Max(tables)
  <2>2. m \in tables /\ \A y \in tables : y <= m
    BY <2>1, MaxIsGreatest
  <2> HIDE DEF m
  <2>3. m = first + 4
    BY <1>1, <2>1, <2>2
  <2> QED  BY <2>3 DEF m
<1>3. \A b \in Span(a, objs[a]) : b \div PAGE_SIZE \in Mapped
  <2> TAKE b \in Span(a, objs[a])
  <2> DEFINE q == b \div PAGE_SIZE  f == PADDR_START \div PAGE_SIZE
  <2>1. /\ b \in Nat /\ b < ebx /\ q \in Nat /\ f <= q
    BY <1>0, ObjectPages
  <2>2. ebx \in Nat /\ PAGE_SIZE \in Nat \ {0} /\ f \in Nat
    BY ImagePage DEF IInv, ScanInv
  <2>3. ALIGNUP(ebx, PAGE_SIZE) \in Nat /\ ebx <= ALIGNUP(ebx, PAGE_SIZE)
    BY <2>2, Rounding
  <2>4. b <= ALIGNUP(ebx, PAGE_SIZE)
    BY <2>1, <2>2, <2>3
  <2>5. q <= first
    BY <1>1, <2>1, <2>2, <2>3, <2>4, Division
  <2> HIDE DEF q, f
  <2>6. q \in f..(first + 4)
    BY <2>1, <2>2, <2>5
  <2> QED  BY <1>2, <2>6 DEF Mapped, q, f
<1>4. p - HIGHER_HALF = a
  <2>1. a \in Nat /\ HIGHER_HALF \in Nat
    BY <1>0, LayoutAssumption DEF AreaInv
  <2> QED  BY <2>1
<1> QED  BY <1>3, <1>4 DEF Deref

(* As long as a page below the image is free, the lowest free page is one, *)
(* and nothing is lost by handing it out.                                  *)
LEMMA LowGrant ==
  ASSUME IInv, pc \in {"pm_init", "start"}, NEW busy, NEW low \in LowPages, low \notin busy,
         Grant(busy, "start")
  PROVE  \E page \in LowPages \ busy :
           /\ locked' = busy \cup {page} /\ taken' = taken \cup {page}
           /\ objs' = objs /\ pc' = "start"
<1> DEFINE S == 0..(NumPages - 1) \ busy  page == Min(S)
           f == PADDR_START \div PAGE_SIZE
           whole == {a \in DOMAIN objs : \A b \in Span(a, objs[a]) : b \div PAGE_SIZE # page}
<1>0. pc \in Early /\ ScanInv /\ AreaInv
  BY DEF IInv, Early
<1>1. NumPages \in Nat /\ f \in Nat
  BY ImagePage
<1>2. S \in SUBSET Nat /\ low \in S
  BY <1>1, RoomAssumption
<1>3. page \in S /\ page <= low
  <2> HIDE DEF S
  <2> QED  BY <1>2, MinIsLeast
<1> HIDE DEF f, page
<1>4. page \in LowPages /\ page \notin busy
  <2>1. low \in 0..(f - 1) /\ page \in Nat /\ page \notin busy
    BY <1>2, <1>3 DEF LowPages, f
  <2>2. page \in 0..(f - 1)
    BY <1>1, <1>3, <2>1
  <2> QED  BY <2>1, <2>2 DEF LowPages, f
<1>5. /\ locked' = busy \cup {page} /\ taken' = taken \cup {page}
      /\ objs' = [a \in whole |-> objs[a]]
      /\ pc' = IF page \in tables THEN "halt" ELSE "start"
  BY DEF Grant, page
<1>6. whole = DOMAIN objs
  BY <1>0, <1>4, ObjectPages
<1>7. objs' = objs
  BY <1>0, <1>5, <1>6 DEF AreaInv
<1>8. page \notin tables
  <2>1. PICK first \in Nat : first = ALIGNUP(ebx, PAGE_SIZE) \div PAGE_SIZE /\ tables = (first + 1)..(first + 4)
    BY DEF IInv, ScanInv
  <2>2. /\ ebx \in Nat /\ PAGE_SIZE \in Nat \ {0} /\ PADDR_START <= ebx
    <3>1. ebx \in Nat /\ PADDR_END <= ebx
      BY <1>0 DEF ScanInv
    <3> QED  BY <3>1, ImagePage
  <2>3. ALIGNUP(ebx, PAGE_SIZE) \in Nat /\ ebx <= ALIGNUP(ebx, PAGE_SIZE)
    BY <2>2, Rounding
  <2>4. PADDR_START <= ALIGNUP(ebx, PAGE_SIZE)
    BY <2>2, <2>3, ImagePage
  <2>5. f <= first
    BY <2>1, <2>3, <2>4, ImagePage DEF f
  <2>6. page \in 0..(f - 1)
    BY <1>4 DEF LowPages, f
  <2> QED  BY <1>1, <2>1, <2>5, <2>6
<1>9. pc' = "start"
  BY <1>5, <1>8
<1> QED  BY <1>4, <1>5, <1>7, <1>9

(* A page was handed out and nothing was lost.                             *)
LEMMA GrantIInv ==
  ASSUME IInv, pc \in {"pm_init", "start"}, pc' = "start", objs' = objs, PageInv',
         UNCHANGED <<tags, tag, ebx, info, link, tables, fs, answer>>
  PROVE  IInv'
<1>1. /\ tags' = tags /\ tag' = tag /\ ebx' = ebx /\ info' = info /\ link' = link
      /\ tables' = tables /\ fs' = fs
  OBVIOUS
<1>2. /\ pc \in Early /\ pc' \in Early
      /\ Shift = HIGHER_HALF /\ Shift' = HIGHER_HALF /\ HIGHER_HALF \in Nat
  BY LayoutAssumption DEF Early, Shift, Relocated
<1>3. \A types : Done(types)' = Done(types)
  BY <1>1 DEF Done
<1>4. CmdlineAt /\ MapAt /\ AcpiAt /\ AreaInv /\ info \in InfoType
  BY <1>2 DEF IInv, PointerInv, AreaInv
<1>5. ScanInv'
  BY <1>1 DEF IInv, ScanInv, Early
<1>6. AreaInv'
  BY <1>1, <1>2, <1>4 DEF AreaInv
<1>7. OthersKept /\ ObjectsKept /\ DOMAIN objs \subseteq Nat
  BY <1>1, <1>2, <1>4 DEF OthersKept, ObjectsKept, AreaInv
<1>8. CmdlineAt' /\ MapAt' /\ AcpiAt'
  BY <1>1, <1>2, <1>3, <1>4, <1>7, CmdlineKept, MapKept, AcpiKept
<1>9. FsInv'
  BY <1>1, FsKept DEF IInv
<1>10. PICK place : \E c \in Nat : ListAt(place, c)
  BY <1>2 DEF IInv, ListInv
<1>11. PICK c \in Nat : ListAt(place, c)
  BY <1>10
<1>12. c = Len(tags)
  BY <1>11 DEF ListAt
<1>13. ListAt(place, c)'
  BY <1>1, <1>3, <1>7, <1>11, <1>12, ListKept
<1> QED  BY <1>5, <1>6, <1>8, <1>9, <1>11, <1>13 DEF IInv, PointerInv, ListInv

(* A set of pages below the image that is too large for another one.       *)
LEMMA LowLeft ==
  ASSUME NEW reserved, Cardinality(LowPages \ reserved) >= StartTakes,
         NEW used, used \subseteq LowPages, Cardinality(used) < StartTakes
  PROVE  \E low \in LowPages : low \notin reserved /\ low \notin used
<1> DEFINE f == PADDR_START \div PAGE_SIZE
<1>1. f \in Nat /\ StartTakes \in Nat
  BY ImagePage, LayoutAssumption
<1>2. IsFiniteSet(0..(f - 1))
  <2>1. 0 \in Int /\ f - 1 \in Int
    BY <1>1
  <2> HIDE DEF f
  <2> QED  BY <2>1, FS_Interval
<1>3. IsFiniteSet(LowPages)
  BY <1>2 DEF LowPages
<1>4. IsFiniteSet(used)
  BY <1>3, FS_Subset
<1>5. ASSUME LowPages \ reserved \subseteq used PROVE FALSE
  <2> DEFINE T == LowPages \ reserved
  <2>0. T \in SUBSET used
    BY <1>5
  <2>t. Cardinality(T) >= StartTakes
    OBVIOUS
  <2> HIDE DEF T
  <2>1. IsFiniteSet(T) /\ Cardinality(T) <= Cardinality(used)
    BY <1>4, <2>0, FS_Subset
  <2>2. Cardinality(T) \in Nat /\ Cardinality(used) \in Nat
    BY <1>4, <2>1, FS_CardinalityType
  <2> QED  BY <1>1, <2>1, <2>2, <2>t
<1> QED  BY <1>5

LEMMA PmInitIInv ==
  ASSUME IInv, pm_init
  PROVE  IInv'
<1> DEFINE seen == Deref(info.segments)
           reserved == IF seen = Lost THEN {} ELSE ReservedPages(seen.list)
           all == Pages(PADDR_START, PADDR_END) \cup reserved
           busy == all \cap 0..(NumPages - 1)
<1>1. /\ pc = "pm_init" /\ Grant(busy, "start")
      /\ UNCHANGED <<tags, tag, ebx, info, link, tables, fs, answer>>
  BY DEF pm_init
<1>2. /\ pc \in Early /\ pc \in Early \ {"start"} /\ Shift = HIGHER_HALF /\ HIGHER_HALF \in Nat
  BY <1>1, LayoutAssumption DEF Early, Shift, Relocated
<1>3. MapAt /\ AreaInv /\ ScanInv
  BY <1>2 DEF IInv, PointerInv
<1>4. Cardinality(LowPages \ reserved) >= StartTakes
  <2>0. Cardinality(LowPages \ {}) >= StartTakes
    <3>1. LowPages \ {} = LowPages
      OBVIOUS
    <3> QED  BY <3>1, RoomAssumption
  <2>1. CASE Done({"mmap"}) = {}
    <3>1. info.segments - HIGHER_HALF = 0
      BY <1>2, <1>3, <2>1 DEF MapAt
    <3>2. 0 \notin DOMAIN objs
      <4>1. \A a \in DOMAIN objs : PADDR_END <= a
        BY <1>2, <1>3 DEF AreaInv
      <4> QED  BY <4>1, ShiftType
    <3>3. seen = Lost
      BY <3>1, <3>2 DEF Deref
    <3> QED  BY <2>0, <3>3
  <2>2. CASE Done({"mmap"}) # {}
    <3> DEFINE m == Max(Done({"mmap"}))
    <3>1. m \in Done({"mmap"})
      BY <1>3, <2>2, DoneFacts
    <3>2. m \in DOMAIN tags /\ tags[m].type = "mmap" /\ tags \in TagLists
      BY <1>3, <3>1 DEF Done, ScanInv
    <3>3. PICK a \in DOMAIN objs :
            /\ info.segments = a + Shift /\ objs[a].kind = "segments"
            /\ objs[a].list = Segments(tags[m].entries)
      BY <1>3, <2>2 DEF MapAt
    <3>4. seen = objs[a]
      BY <1>1, <1>2, <3>3, Found
    <3>5. reserved = ReservedPages(Segments(tags[m].entries))
      <4>1. seen # Lost
        BY <3>3, <3>4 DEF Lost
      <4> HIDE DEF seen, m
      <4> QED  BY <3>3, <3>4, <4>1
    <3>6. Cardinality(LowPages \ ReservedPages(Segments(tags[m].entries))) >= StartTakes
      <4> HIDE DEF m
      <4> QED  BY <3>2, RoomAssumption
    <3> HIDE DEF reserved, m
    <3> QED  BY <3>5, <3>6
  <2> QED  BY <2>1, <2>2
<1> HIDE DEF reserved
<1>5. Pages(PADDR_START, PADDR_END) \cap LowPages = {}
  <2>1. PADDR_START \in Nat /\ PADDR_END \in Nat /\ PADDR_START <= PADDR_START
    BY ImagePage
  <2> QED  BY <2>1, HighRanges
<1>6. PICK low \in LowPages : low \notin reserved
  <2>1. Cardinality({}) < StartTakes
    BY FS_EmptySet, LayoutAssumption
  <2> QED  BY <1>4, <2>1, LowLeft
<1>7. low \notin busy
  BY <1>5, <1>6
<1> HIDE DEF busy
<1>8. PICK page \in LowPages \ busy :
        /\ locked' = busy \cup {page} /\ taken' = taken \cup {page}
        /\ objs' = objs /\ pc' = "start"
  BY <1>1, <1>6, <1>7, LowGrant
<1>9. taken = {} /\ fs = NoFs /\ answer.path = "none"
  BY <1>2 DEF IInv, PageInv
<1>10. /\ taken' \subseteq LowPages /\ taken' \subseteq locked'
       /\ locked' \cap LowPages \subseteq reserved \cup taken'
  <2>1. busy \cap LowPages \subseteq reserved
    BY <1>5 DEF busy
  <2> QED  BY <1>8, <1>9, <2>1
<1>11. fs' = NoFs /\ answer' = answer /\ fs'.start = 0
  BY <1>1, <1>9 DEF NoFs
<1>12. \E r : /\ locked' \cap LowPages \subseteq r \cup taken'
              /\ Cardinality(LowPages \ r) >= StartTakes
  BY <1>4, <1>10
<1>13. PageInv'
  <2>1. /\ fs'.start # 0 => Pages(fs'.start, fs'.end) \subseteq locked' \ taken'
        /\ pc' \notin Early \ {"start"}
    BY <1>8, <1>11
  <2> QED  BY <1>8, <1>9, <1>10, <1>11, <1>12, <2>1 DEF PageInv, LowPages
<1> QED  BY <1>1, <1>8, <1>13, GrantIInv

LEMMA RequestIInv ==
  ASSUME IInv, pm_request_page
  PROVE  IInv'
<1>0. /\ pc \in {"start", "run"} /\ 0..(NumPages - 1) \ locked # {}
      /\ pc = "start" => Cardinality(taken) < StartTakes
      /\ Grant(locked, pc)
      /\ UNCHANGED <<tags, tag, ebx, info, link, tables, fs, answer>>
  BY DEF pm_request_page
<1>1. CASE pc = "start"
  <2>1. /\ taken \subseteq LowPages /\ taken \subseteq locked /\ fs = NoFs /\ answer.path = "none"
    BY <1>1 DEF IInv, PageInv, Early
  <2>2. PICK reserved : /\ locked \cap LowPages \subseteq reserved \cup taken
                        /\ Cardinality(LowPages \ reserved) >= StartTakes
    BY <1>1 DEF IInv, PageInv
  <2>3. PICK low \in LowPages : low \notin reserved /\ low \notin taken
    BY <1>0, <1>1, <2>1, <2>2, LowLeft
  <2>4. low \notin locked
    BY <2>2, <2>3
  <2>5. PICK page \in LowPages \ locked :
          /\ locked' = locked \cup {page} /\ taken' = taken \cup {page}
          /\ objs' = objs /\ pc' = "start"
    BY <1>0, <1>1, <2>3, <2>4, LowGrant
  <2>6. /\ taken' \subseteq LowPages /\ taken' \subseteq locked'
        /\ locked' \cap LowPages \subseteq reserved \cup taken'
    BY <2>1, <2>2, <2>5
  <2>7. fs' = NoFs /\ answer' = answer /\ fs'.start = 0
    BY <1>0, <2>1 DEF NoFs
  <2>8. \E r : /\ locked' \cap LowPages \subseteq r \cup taken'
               /\ Cardinality(LowPages \ r) >= StartTakes
    BY <2>2, <2>6
  <2>9. /\ fs'.start # 0 => Pages(fs'.start, fs'.end) \subseteq locked' \ taken'
        /\ pc' \notin Early \ {"start"}
    BY <2>5, <2>7
  <2>10. PageInv'
    BY <2>1, <2>5, <2>6, <2>7, <2>8, <2>9 DEF PageInv, LowPages
  <2> QED  BY <1>0, <1>1, <2>5, <2>10, GrantIInv
<1>2. CASE pc = "run"
  <2> DEFINE S == 0..(NumPages - 1) \ locked  page == Min(S)
  <2>1. S \in SUBSET Nat /\ S # {}
    BY <1>0, ImagePage
  <2>2. page \notin locked
    <3>1. page \in S
      <4> HIDE DEF S
      <4> QED  BY <2>1, MinIsLeast
    <3> QED  BY <3>1
  <2> HIDE DEF page
  <2>3. /\ locked' = locked \cup {page} /\ taken' = taken \cup {page} /\ pc' \in {"halt", "run"}
    BY <1>0, <1>2 DEF Grant, page
  <2>4. pc' \notin Early /\ fs' = fs /\ tags' = tags /\ tag' = tag /\ ebx' = ebx
    BY <1>0, <2>3 DEF Early
  <2>5. ScanInv'
    BY <1>2, <2>3, <2>4 DEF IInv, ScanInv
  <2>6. PageInv'
    <3>1. /\ taken \subseteq locked
          /\ fs.start # 0 => Pages(fs.start, fs.end) \subseteq locked \ taken
      BY DEF IInv, PageInv
    <3>2. taken' \subseteq locked'
      BY <2>3, <3>1
    <3>3. fs.start # 0 => Pages(fs.start, fs.end) \subseteq locked' \ taken'
      BY <2>2, <2>3, <3>1
    <3>4. pc' # "start"
      BY <2>3
    <3> QED  BY <2>4, <3>2, <3>3, <3>4 DEF PageInv, Pages
  <2>7. FsInv'
    BY <2>4, FsKept DEF IInv
  <2> QED  BY <2>4, <2>5, <2>6, <2>7 DEF IInv, AreaInv, PointerInv, ListInv, Early
<1> QED  BY <1>0, <1>1, <1>2

-----------------------------------------------------------------------------
(* The kernel and its file system.                                         *)

(* A module lies above the start of the image, and so at no address 0.     *)
LEMMA ModuleRange ==
  ASSUME ScanInv, NEW k \in DOMAIN tags, tags[k].type = "module"
  PROVE  /\ tags[k].start \in Nat \ {0} /\ tags[k].end \in Nat /\ PADDR_START <= tags[k].start
         /\ IsArchive(tags[k].archive)
<1>1. tags \in TagLists /\ IsTag(tags[k])
  BY TagFacts DEF ScanInv
<1>2. tags[k].start \in Nat /\ tags[k].end \in Nat /\ IsArchive(tags[k].archive)
  BY <1>1 DEF IsTag
<1>3. tags[k].start >= PADDR_START
  BY <1>1, RoomAssumption
<1>4. PADDR_START # 0
  <2> SUFFICES ASSUME PADDR_START = 0 PROVE FALSE
    OBVIOUS
  <2>1. 0 \div PAGE_SIZE = 0
    BY ImagePage
  <2>2. LowPages = {}
    BY <2>1 DEF LowPages
  <2> QED  BY <2>2, FS_EmptySet, RoomAssumption, LayoutAssumption
<1> QED  BY <1>2, <1>3, <1>4, ImagePage

(* In bootinfo the first module.                                           *)
LEMMA FirstModule ==
  ASSUME IInv, pc \in {"pm_init", "start"}, info.modules # 0
  PROVE  \E k \in DOMAIN tags :
           /\ tags[k].type = "module" /\ Deref(info.modules).of = k
           /\ Deref(info.modules).start = tags[k].start /\ Deref(info.modules).end = tags[k].end
<1> DEFINE D == Done({"module"})  k == Min(D)
<1>0. pc \in Early
  BY DEF Early
<1>1. PICK place : \E c \in Nat : ListAt(place, c)
  BY <1>0 DEF IInv, ListInv
<1>2. PICK c \in Nat : ListAt(place, c)
  BY <1>1
<1>3. c = Len(tags) /\ c # 0
  BY <1>2, TagFacts DEF ListAt, IInv
<1>4. info.modules = Ptr(place, D, HIGHER_HALF)
  BY <1>2, <1>3 DEF ListAt, ShiftIf
<1>5. D # {}
  BY <1>4 DEF Ptr
<1>6. D \in SUBSET Nat
  BY DoneFacts DEF IInv
<1>7. k \in D
  BY <1>5, <1>6, MinIsLeast
<1>8. /\ k \in DOMAIN tags /\ tags[k].type = "module" /\ place[k] \in DOMAIN objs /\ place[k] \in Nat
      /\ objs[place[k]] = Entry(k, Ptr(place, After(D, k), ShiftIf(k < c)))
  BY <1>0, <1>2, <1>7, Placed
<1>9. info.modules = HIGHER_HALF + place[k]
  BY <1>4, <1>5 DEF Ptr
<1>10. info.modules = place[k] + HIGHER_HALF
  BY <1>8, <1>9, ImagePage
<1>11. Deref(info.modules) = objs[place[k]]
  BY <1>8, <1>10, Found
<1>12. \A n : /\ Entry(k, n).of = k /\ Entry(k, n).start = tags[k].start
              /\ Entry(k, n).end = tags[k].end
  BY DEF Entry
<1> HIDE DEF k, D
<1>13. /\ Deref(info.modules).of = k
       /\ Deref(info.modules).start = tags[k].start /\ Deref(info.modules).end = tags[k].end
  BY <1>8, <1>11, <1>12
<1> QED  BY <1>8, <1>13

(* After the start only the pages and the file system matter.              *)
LEMMA LateIInv ==
  ASSUME ScanInv, tags' = tags, tag' = tag, ebx' = ebx, pc # "parse", pc' \in {"run", "halt"},
         PageInv', FsInv'
  PROVE  IInv'
<1>1. pc' \notin Early /\ pc' # "parse"
  BY DEF Early
<1>2. ScanInv'
  BY DEF ScanInv
<1> QED  BY <1>1, <1>2 DEF IInv, AreaInv, PointerInv, ListInv, Early

LEMMA PagingIInv ==
  ASSUME IInv, setup_paging
  PROVE  IInv'
<1> DEFINE first == ALIGNUP(ebx, PAGE_SIZE) \div PAGE_SIZE
<1>1. /\ pc = "paging" /\ pc' \in {"relocate", "halt"} /\ tables' = (first + 1)..(first + 4)
      /\ UNCHANGED <<tags, tag, ebx, info, objs, link, locked, taken, fs, answer>>
  BY DEF setup_paging
<1>2. first \in Nat
  <2>1. ALIGNUP(ebx, PAGE_SIZE) \in Nat /\ PAGE_SIZE \in Nat \ {0}
    BY Rounding, LayoutAssumption DEF IInv, ScanInv
  <2> QED  BY <2>1, Division
<1>3. first' = first
  BY <1>1
<1> HIDE DEF first
<1>4. \E f \in Nat : f = first /\ tables' = (f + 1)..(f + 4)
  BY <1>1, <1>2
<1>5. ScanInv'
  BY <1>1, <1>3, <1>4 DEF IInv, ScanInv, Early, first
<1>6. CASE pc' = "relocate"
  BY <1>1, <1>5, <1>6, NoTagIInv
<1>7. CASE pc' = "halt"
  <2>1. /\ taken \subseteq locked /\ pc' # "start" /\ pc' \notin Early /\ fs.start = 0
        /\ taken' = taken /\ locked' = locked /\ fs' = fs
    BY <1>1, <1>7 DEF IInv, PageInv, Early, NoFs
  <2>2. PageInv'
    BY <2>1 DEF PageInv
  <2>3. FsInv'
    BY <1>1, FsKept DEF IInv
  <2> QED  BY <1>1, <1>7, <2>2, <2>3, LateIInv DEF IInv
<1> QED  BY <1>1, <1>6, <1>7

LEMMA BootinfoIInv ==
  ASSUME IInv, kernel_parse_bootinfo
  PROVE  IInv'
<1> DEFINE mod == Deref(info.modules)
<1>1. /\ pc = "start" /\ pc' \in {"run", "halt"}
      /\ \/ fs' = fs /\ locked' = locked
         \/ info.modules # 0 /\ initfs_from_module(mod)
      /\ tags' = tags /\ tag' = tag /\ ebx' = ebx /\ taken' = taken /\ answer' = answer
  BY DEF kernel_parse_bootinfo
<1>2. /\ taken \subseteq locked /\ taken \subseteq LowPages /\ fs = NoFs /\ fs.start = 0
      /\ pc' \notin Early /\ pc' # "start"
  BY <1>1 DEF IInv, PageInv, Early, NoFs
<1>3. CASE fs' = fs /\ locked' = locked
  <2>1. PageInv'
    BY <1>1, <1>2, <1>3 DEF PageInv
  <2>2. FsInv'
    BY <1>1, <1>3, FsKept DEF IInv
  <2> QED  BY <1>1, <2>1, <2>2, LateIInv DEF IInv
<1>4. CASE info.modules # 0 /\ initfs_from_module(mod)
  <2>1. PICK k \in DOMAIN tags :
          /\ tags[k].type = "module" /\ mod.of = k
          /\ mod.start = tags[k].start /\ mod.end = tags[k].end
    BY <1>1, <1>4, FirstModule
  <2>2. PICK ok \in BOOLEAN :
          fs' = [start |-> mod.start, end |-> mod.end, of |-> mod.of, mapped |-> ok]
    BY <1>4 DEF initfs_from_module
  <2>3. fs'.start = tags[k].start /\ fs'.end = tags[k].end /\ fs'.of = k
    BY <2>1, <2>2
  <2>4. locked' = locked \cup Pages(tags[k].start, tags[k].end)
    BY <1>4, <2>1 DEF initfs_from_module
  <2>5. /\ tags[k].start \in Nat \ {0} /\ tags[k].end \in Nat /\ PADDR_START <= tags[k].start
    BY <2>1, ModuleRange DEF IInv
  <2>6. Pages(tags[k].start, tags[k].end) \cap LowPages = {}
    BY <2>5, HighRanges
  <2> DEFINE P == Pages(tags[k].start, tags[k].end)
  <2>7. Pages(fs'.start, fs'.end) = P
    BY <2>3
  <2> HIDE DEF P
  <2>8. P \subseteq locked' \ taken' /\ taken' \subseteq locked'
    BY <1>1, <1>2, <2>4, <2>6 DEF P
  <2>9. PageInv'
    BY <1>2, <2>7, <2>8 DEF PageInv, Pages
  <2>10. FsInv'
    BY <1>1, <2>1, <2>3, <2>5 DEF FsInv
  <2> QED  BY <1>1, <2>9, <2>10, LateIInv DEF IInv
<1> QED  BY <1>1, <1>3, <1>4

LEMMA LookupIInv ==
  ASSUME IInv, NEW path \in Paths, Lookup(path)
  PROVE  IInv'
<1>1. /\ pc = "run" /\ pc' \in {"run", "halt"} /\ tags' = tags /\ tag' = tag /\ ebx' = ebx
      /\ locked' = locked /\ taken' = taken /\ fs' = fs
  BY DEF Lookup
<1>2. pc' \notin Early /\ pc' # "start"
  BY <1>1 DEF Early
<1>3. PageInv'
  <2>1. /\ taken \subseteq locked
        /\ fs.start # 0 => Pages(fs.start, fs.end) \subseteq locked \ taken
    BY DEF IInv, PageInv
  <2> QED  BY <1>1, <1>2, <2>1 DEF PageInv, Pages
<1>4. FsInv'
  BY <1>1, FsKept DEF IInv
<1> QED  BY <1>1, <1>3, <1>4, LateIInv DEF IInv

LEMMA ReleaseIInv ==
  ASSUME IInv, initfs_release
  PROVE  IInv'
<1>1. /\ pc = "run" /\ pc' \in {"run", "halt"} /\ tags' = tags /\ tag' = tag /\ ebx' = ebx
      /\ taken' = taken
      /\ \/ fs' = fs /\ locked' = locked
         \/ fs.start # 0 /\ fs' = NoFs /\ locked' = locked \ Pages(fs.start, fs.end)
  BY DEF initfs_release
<1>2. pc' \notin Early /\ pc' # "start"
  BY <1>1 DEF Early
<1>3. /\ taken \subseteq locked
      /\ fs.start # 0 => Pages(fs.start, fs.end) \subseteq locked \ taken
  BY DEF IInv, PageInv
<1>4. CASE fs' = fs /\ locked' = locked
  <2>1. PageInv' /\ FsInv'
    BY <1>1, <1>2, <1>3, <1>4, FsKept DEF IInv, PageInv, Pages
  <2> QED  BY <1>1, <2>1, LateIInv DEF IInv
<1>5. CASE fs.start # 0 /\ fs' = NoFs /\ locked' = locked \ Pages(fs.start, fs.end)
  <2>1. fs'.start = 0 /\ fs'.mapped = FALSE
    BY <1>5 DEF NoFs
  <2>2. taken' \subseteq locked'
    BY <1>1, <1>3, <1>5
  <2>3. PageInv'
    BY <1>2, <2>1, <2>2 DEF PageInv
  <2>4. FsInv'
    BY <2>1 DEF FsInv
  <2> QED  BY <1>1, <2>3, <2>4, LateIInv DEF IInv
<1> QED  BY <1>1, <1>4, <1>5

-----------------------------------------------------------------------------
(* The invariant holds.                                                    *)

LEMMA InitIInv == Init => IInv
<1> SUFFICES ASSUME Init PROVE IInv
  OBVIOUS
<1>1. /\ tags \in TagLists /\ tag = 1 /\ pc = "parse" /\ ebx = _bootinfo_data
      /\ info = [cmdline |-> 0, modules |-> 0, entries |-> 0, segments |-> 0, acpi |-> "NONE"]
      /\ objs = <<>> /\ link = 0 /\ locked = {} /\ taken = {} /\ fs = NoFs
      /\ answer.path = "none"
  BY DEF Init
<1>2. ScanInv
  <2>1. Len(tags) \in Nat \ {0}
    BY <1>1, TagsAssumption
  <2>2. ebx \in Nat /\ PADDR_END <= ebx
    BY <1>1, Rounding, ShiftType DEF _bootinfo_data, Align8
  <2>3. tag \in 1..Len(tags)
    BY <1>1, <2>1
  <2> QED  BY <1>1, <2>2, <2>3 DEF ScanInv, Early
<1>3. \A types : Done(types) = {}
  <2>1. DOMAIN tags = 1..Len(tags) /\ Len(tags) \in Nat
    BY <1>2, TagFacts
  <2>2. \A k \in DOMAIN tags : ~(k < tag)
    BY <1>1, <2>1
  <2> QED  BY <2>2 DEF Done
<1>4. DOMAIN objs = {} /\ objs = [a \in DOMAIN objs |-> objs[a]]
  BY <1>1
<1>5. AreaInv
  <2>1. info \in InfoType
    BY <1>1 DEF InfoType
  <2> QED  BY <1>4, <2>1 DEF AreaInv
<1>6. Shift = 0
  BY <1>1 DEF Shift, Relocated
<1>7. PointerInv
  <2>1. info.segments = 0
    BY <1>1
  <2> QED  BY <1>3, <1>6, <2>1 DEF PointerInv, CmdlineAt, MapAt, AcpiAt
<1>8. ListAt(<<>>, 0)
  <2>1. info.modules = 0 /\ <<>> \in [{} -> DOMAIN objs]
    BY <1>1, <1>4
  <2>2. Done({"module"}) = {}
    BY <1>3
  <2> QED  BY <1>1, <1>4, <2>1, <2>2 DEF ListAt, Ptr
<1>9. PageInv /\ FsInv
  BY <1>1 DEF PageInv, FsInv, NoFs
<1> QED  BY <1>2, <1>5, <1>7, <1>8, <1>9 DEF IInv, ListInv

LEMMA NextIInv == IInv /\ [Next]_vars => IInv'
<1> SUFFICES ASSUME IInv, [Next]_vars PROVE IInv'
  OBVIOUS
<1>1. CASE ParseCmdline
  BY <1>1, CmdlineIInv
<1>2. CASE ParseModule
  BY <1>2, ModuleIInv
<1>3. CASE ParseMmap
  BY <1>3, MmapIInv
<1>4. CASE ParseAcpi
  BY <1>4, AcpiIInv
<1>5. CASE SkipTag
  BY <1>5, SkipIInv
<1>6. CASE EndTag
  BY <1>6, EndIInv
<1>7. CASE setup_paging
  BY <1>7, PagingIInv
<1>8. CASE RelocatePointers
  BY <1>8, PointersIInv
<1>9. CASE RelocateLink
  BY <1>9, LinkIInv
<1>10. CASE pm_init
  BY <1>10, PmInitIInv
<1>11. CASE pm_request_page
  BY <1>11, RequestIInv
<1>12. CASE kernel_parse_bootinfo
  BY <1>12, BootinfoIInv
<1>13. CASE \E path \in Paths : Lookup(path)
  BY <1>13, LookupIInv
<1>14. CASE initfs_release
  BY <1>14, ReleaseIInv
<1>15. CASE UNCHANGED vars
  <2>1. /\ tags' = tags /\ tag' = tag /\ pc' = pc /\ ebx' = ebx /\ info' = info /\ objs' = objs
        /\ link' = link /\ tables' = tables /\ locked' = locked /\ taken' = taken /\ fs' = fs
        /\ answer' = answer
    BY <1>15 DEF vars
  <2>2. ScanInv' /\ AreaInv'
    BY <2>1 DEF IInv, ScanInv, AreaInv
  <2>3. PointerInv'
    BY <2>1 DEF IInv, PointerInv, CmdlineAt, MapAt, AcpiAt, Done, Shift, Relocated
  <2>4. ListInv'
    <3> SUFFICES ASSUME pc \in Early PROVE \E place : \E c \in Nat : ListAt(place, c)'
      BY <2>1 DEF ListInv
    <3>1. PICK place : \E c \in Nat : ListAt(place, c)
      BY DEF IInv, ListInv
    <3>2. PICK c \in Nat : ListAt(place, c)
      BY <3>1
    <3>3. Done({"module"})' = Done({"module"})
      BY <2>1 DEF Done
    <3>4. ListAt(place, c)'
      BY <2>1, <3>2, <3>3 DEF ListAt, Entry, Ptr, After, ShiftIf
    <3> QED  BY <3>2, <3>4
  <2>5. PageInv' /\ FsInv'
    BY <2>1 DEF IInv, PageInv, FsInv, Pages, LowPages
  <2> QED  BY <2>2, <2>3, <2>4, <2>5 DEF IInv
<1> QED  BY <1>1, <1>2, <1>3, <1>4, <1>5, <1>6, <1>7, <1>8, <1>9, <1>10, <1>11, <1>12, <1>13,
            <1>14, <1>15 DEF Next

LEMMA Invariance == Spec => []IInv
<1>1. Init => IInv
  BY InitIInv
<1>2. IInv /\ [Next]_vars => IInv'
  BY NextIInv
<1> QED  BY <1>1, <1>2, PTL DEF Spec

(* A page has one owner for every memory map that leaves the pages which   *)
(* the start needs below the image, wherever the loader puts the modules   *)
(* above it: pm_init, pm_request_page, initfs_from_module, initfs_release. *)
THEOREM PagesAreOwnedOnce == Spec => []PagesHaveOneOwner
<1>1. IInv => PagesHaveOneOwner
  BY DEF IInv, PageInv, PagesHaveOneOwner
<1> QED  BY <1>1, Invariance, PTL

(* What the kernel reads in the list of modules.                           *)
LEMMA ModulesArrive ==
  ASSUME IInv, pc \in {"pm_init", "start"}
  PROVE  LET mods == TagsOf({"module"})
         IN  \E place \in [mods -> DOMAIN objs] :
               LET ptr(ms) == IF ms = {} THEN 0 ELSE HIGHER_HALF + place[Min(ms)]
               IN  /\ info.modules = ptr(mods)
                   /\ \A k \in mods :
                        LET mod == Deref(HIGHER_HALF + place[k])
                        IN  /\ mod.of = k
                            /\ mod.start = tags[k].start /\ mod.end = tags[k].end
                            /\ mod.next = ptr({m \in mods : m > k})
<1> DEFINE D == TagsOf({"module"})
<1>0. pc \in Early /\ pc # "parse"
  BY DEF Early
<1>1. PICK place : \E c \in Nat : ListAt(place, c)
  BY <1>0 DEF IInv, ListInv
<1>2. PICK c \in Nat : ListAt(place, c)
  BY <1>1
<1>3. c = Len(tags) /\ c # 0
  BY <1>2, TagFacts DEF ListAt, IInv
<1>4. Done({"module"}) = D
  BY <1>0, AllDone DEF IInv
<1>5. place \in [D -> DOMAIN objs] /\ info.modules = Ptr(place, D, HIGHER_HALF)
  BY <1>2, <1>3, <1>4 DEF ListAt, ShiftIf
<1>6. \A k \in D :
        /\ k < Len(tags) /\ place[k] \in DOMAIN objs /\ place[k] \in Nat
        /\ objs[place[k]] = Entry(k, Ptr(place, After(D, k), ShiftIf(k < c)))
  BY <1>0, <1>2, <1>4, Placed
<1>7. \A k \in D : Deref(HIGHER_HALF + place[k]) = objs[place[k]]
  <2> TAKE k \in D
  <2>a. \A x, y \in Nat : x + y = y + x
    OBVIOUS
  <2>b. place[k] \in Nat /\ HIGHER_HALF \in Nat
    BY <1>6, ImagePage
  <2>1. HIGHER_HALF + place[k] = place[k] + HIGHER_HALF
    BY <2>a, <2>b, Zenon
  <2> QED  BY <1>6, <2>1, Found
<1>8. \A k, n : /\ Entry(k, n).of = k /\ Entry(k, n).start = tags[k].start
                /\ Entry(k, n).end = tags[k].end /\ Entry(k, n).next = n
  BY DEF Entry
<1>9. \A k \in D : ShiftIf(k < c) = HIGHER_HALF
  BY <1>3, <1>6 DEF ShiftIf
<1> HIDE DEF D
<1>10. \A k \in D :
         /\ objs[place[k]].of = k /\ objs[place[k]].start = tags[k].start
         /\ objs[place[k]].end = tags[k].end
         /\ objs[place[k]].next = Ptr(place, After(D, k), HIGHER_HALF)
  <2> TAKE k \in D
  <2>1. objs[place[k]] = Entry(k, Ptr(place, After(D, k), HIGHER_HALF))
    BY <1>6, <1>9
  <2> QED  BY <1>8, <2>1
<1>11. \A k \in D :
         /\ Deref(HIGHER_HALF + place[k]).of = k
         /\ Deref(HIGHER_HALF + place[k]).start = tags[k].start
         /\ Deref(HIGHER_HALF + place[k]).end = tags[k].end
         /\ Deref(HIGHER_HALF + place[k]).next = Ptr(place, {m \in D : m > k}, HIGHER_HALF)
  BY <1>7, <1>10 DEF After
<1> QED  BY <1>5, <1>11 DEF Ptr, D

(* The kernel finds in bootinfo what the loader passed, for every list of  *)
(* tags: multiboot_entry parses them, setup_paging maps the data area,     *)
(* _stub64 relocates the pointers and nothing is overwritten or handed out *)
(* before kernel_parse_bootinfo reads it.                                  *)
THEOREM BootinfoIsRight == Spec => []BootinfoArrives
<1>1. ASSUME IInv, pc \in {"pm_init", "start"} PROVE BootinfoArrives
  <2>0. /\ ScanInv /\ AreaInv /\ CmdlineAt /\ MapAt /\ AcpiAt /\ pc # "parse"
        /\ Shift = HIGHER_HALF
    BY <1>1 DEF IInv, PointerInv, Early, Shift, Relocated
  <2>1. /\ Done({"cmdline"}) = TagsOf({"cmdline"}) /\ Done({"mmap"}) = TagsOf({"mmap"})
        /\ Done({"RSDP", "XSDP"}) = TagsOf({"RSDP", "XSDP"})
    BY <2>0, AllDone
  <2>2. TagsOf({"cmdline"}) # {} => Deref(info.cmdline).of = Max(TagsOf({"cmdline"}))
    <3> SUFFICES ASSUME TagsOf({"cmdline"}) # {}
                 PROVE  Deref(info.cmdline).of = Max(TagsOf({"cmdline"}))
      OBVIOUS
    <3>1. PICK a \in DOMAIN objs :
            info.cmdline = a + HIGHER_HALF /\ objs[a].of = Max(TagsOf({"cmdline"}))
      BY <2>0, <2>1 DEF CmdlineAt
    <3>2. Deref(info.cmdline) = objs[a]
      BY <1>1, <3>1, Found
    <3> QED  BY <3>1, <3>2
  <2>3. ASSUME TagsOf({"mmap"}) # {}
        PROVE  /\ info.entries = Len(tags[Max(TagsOf({"mmap"}))].entries)
               /\ \A k \in 1..info.entries :
                    LET e == tags[Max(TagsOf({"mmap"}))].entries[k]
                        s == Deref(info.segments).list[k]
                    IN  /\ s.addr = e.addr /\ s.length = e.length
                        /\ (s.type = "available") <=> (e.type = 1)
    <3> DEFINE m == Max(TagsOf({"mmap"}))  entries == tags[m].entries
    <3>1. m \in DOMAIN tags /\ tags[m].type = "mmap"
      <4>1. m \in Done({"mmap"})
        BY <2>0, <2>1, <2>3, DoneFacts
      <4> QED  BY <4>1 DEF Done
    <3>2. IsTag(tags[m])
      BY <2>0, <3>1, TagFacts
    <3>3. \A k \in 1..Len(entries) : entries[k] \in [type : Nat, addr : Nat, length : Nat]
      <4> HIDE DEF m
      <4> QED  BY <3>1, <3>2 DEF IsTag
    <3>4. info.entries = Len(entries)
      BY <2>0, <2>1, <2>3 DEF MapAt
    <3>5. PICK a \in DOMAIN objs :
            info.segments = a + HIGHER_HALF /\ objs[a].list = Segments(entries)
      BY <2>0, <2>1, <2>3 DEF MapAt
    <3>6. Deref(info.segments).list = Segments(entries)
      BY <1>1, <3>5, Found
    <3> HIDE DEF m, entries
    <3>7. \A k \in 1..Len(entries) : Segments(entries)[k] = Segment(entries[k])
      BY DEF Segments
    <3>8. \A e \in [type : Nat, addr : Nat, length : Nat] :
            /\ Segment(e).addr = e.addr /\ Segment(e).length = e.length
            /\ (Segment(e).type = "available") <=> (e.type = 1)
      BY DEF Segment
    <3>9. \A k \in 1..info.entries :
            /\ Deref(info.segments).list[k].addr = entries[k].addr
            /\ Deref(info.segments).list[k].length = entries[k].length
            /\ (Deref(info.segments).list[k].type = "available") <=> (entries[k].type = 1)
      BY <3>3, <3>4, <3>6, <3>7, <3>8
    <3> QED  BY <3>4, <3>9 DEF m, entries
  <2>4. TagsOf({"RSDP", "XSDP"}) # {} => info.acpi = tags[Max(TagsOf({"RSDP", "XSDP"}))].type
    BY <2>0, <2>1 DEF AcpiAt
  <2>5. LET mods == TagsOf({"module"})
        IN  \E place \in [mods -> DOMAIN objs] :
              LET ptr(ms) == IF ms = {} THEN 0 ELSE HIGHER_HALF + place[Min(ms)]
              IN  /\ info.modules = ptr(mods)
                  /\ \A k \in mods :
                       LET mod == Deref(HIGHER_HALF + place[k])
                       IN  /\ mod.of = k
                           /\ mod.start = tags[k].start /\ mod.end = tags[k].end
                           /\ mod.next = ptr({m \in mods : m > k})
    BY <1>1, ModulesArrive
  <2> QED  BY <2>2, <2>3, <2>4, <2>5, Zenon DEF BootinfoArrives
<1>2. pc \notin {"pm_init", "start"} => BootinfoArrives
  BY DEF BootinfoArrives
<1>3. IInv => BootinfoArrives
  BY <1>1, <1>2
<1> QED  BY <1>3, Invariance, PTL

-----------------------------------------------------------------------------
(* Look-ups in an archive.                                                 *)

(* A quotient is unique, and rounding up leaves whole blocks alone.        *)
LEMMA OneQuotient ==
  ASSUME NEW p \in Nat \ {0}, NEW q \in Int, NEW r \in Int,
         NEW x \in 0..(p - 1), NEW y \in 0..(p - 1), p * q + x = p * r + y
  PROVE  q = r
<1>1. ASSUME NEW u \in Int, NEW v \in Int, u + 1 <= v PROVE p * u + p <= p * v
  <2>1. p * (u + 1) <= p * v
    BY <1>1
  <2>2. p * (u + 1) = p * u + p
    OBVIOUS
  <2> QED  BY <2>1, <2>2
<1> DEFINE a == p * q  b == p * r
<1>2. a \in Int /\ b \in Int /\ a + x = b + y
  OBVIOUS
<1>3. (q + 1 <= r => a + p <= b) /\ (r + 1 <= q => b + p <= a)
  BY <1>1
<1> HIDE DEF a, b
<1>4. ~(q + 1 <= r) /\ ~(r + 1 <= q)
  BY <1>2, <1>3
<1> QED  BY <1>4

LEMMA RoundingAdds ==
  ASSUME NEW p \in Nat \ {0}, NEW q \in Nat, NEW a \in Nat
  PROVE  ALIGNUP(p * q + a, p) = p * q + ALIGNUP(a, p)
<1> DEFINE b == a + p - 1  c == p * q + a + p - 1
<1>1. /\ b \in Nat /\ c \in Nat /\ c = p * q + b
  <2>1. p * q \in Nat
    OBVIOUS
  <2> QED  BY <2>1
<1> HIDE DEF b, c
<1> DEFINE u == b \div p  v == c \div p  x == b % p  y == c % p
<1>2. /\ u \in Int /\ x \in 0..(p - 1) /\ b = p * u + x
      /\ v \in Int /\ y \in 0..(p - 1) /\ c = p * v + y
  BY <1>1
<1> HIDE DEF u, v, x, y
<1>3. p * (q + u) = p * q + p * u
  BY <1>2
<1>4. p * (q + u) + x = p * v + y
  <2> DEFINE k == p * q  l == p * u  m == p * v  n == p * (q + u)
  <2>1. k \in Int /\ l \in Int /\ m \in Int /\ n \in Int /\ n = k + l
    BY <1>2, <1>3
  <2>2. c = k + b /\ b = l + x /\ c = m + y
    BY <1>1, <1>2
  <2> HIDE DEF k, l, m, n
  <2>3. n + x = m + y
    BY <1>2, <2>1, <2>2
  <2> QED  BY <2>3 DEF m, n
<1>5. q + u = v
  <2>1. q + u \in Int
    BY <1>2
  <2> QED  BY <1>2, <1>4, <2>1, OneQuotient
<1>6. p * v = p * q + p * u
  BY <1>3, <1>5
<1> QED  BY <1>6 DEF ALIGNUP, u, v, b, c

(* The digits of a size: what remains when they are cut off one by one.    *)
LEMMA CutRule ==
  ASSUME NEW n \in Nat
  PROVE  /\ Cut(n)[0] = n
         /\ \A k \in 0..SIZE_DIGITS : Cut(n)[k] \in Nat
         /\ \A k \in 1..SIZE_DIGITS : Cut(n)[k] = Cut(n)[k - 1] \div 8
<1> DEFINE Rec(g, m) == g = [k \in 0..m |-> IF k = 0 THEN n ELSE g[k - 1] \div 8]
           S == {m \in Nat : ~ \E g : Rec(g, m)}
<1>0. SIZE_DIGITS \in Nat
  BY BlockAssumption
<1>1. S = {}
  <2> SUFFICES ASSUME S # {} PROVE FALSE
    OBVIOUS
  <2>1. PICK m \in S : \A y \in S : m <= y
    <3> HIDE DEF S
    <3>1. S \in SUBSET Nat
      BY DEF S
    <3> QED  BY <3>1, HasLeast
  <2>2. m \in Nat /\ ~ \E g : Rec(g, m)
    BY <2>1
  <2>3. CASE m = 0
    <3> DEFINE g == [k \in 0..0 |-> n]
    <3>1. Rec(g, 0)
      OBVIOUS
    <3> QED  BY <2>2, <2>3, <3>1
  <2>4. CASE m # 0
    <3>1. m - 1 \in Nat /\ ~(m <= m - 1)
      BY <2>2, <2>4
    <3>2. PICK g : Rec(g, m - 1)
      BY <2>1, <3>1
    <3> DEFINE h == [k \in 0..m |-> IF k = m THEN g[m - 1] \div 8 ELSE g[k]]
    <3>3. \A k \in 0..m : h[k] = IF k = 0 THEN n ELSE h[k - 1] \div 8
      <4> TAKE k \in 0..m
      <4>1. CASE k = m
        <5>1. h[k] = g[m - 1] \div 8 /\ h[m - 1] = g[m - 1]
          BY <2>2, <3>1, <4>1
        <5> QED  BY <2>4, <4>1, <5>1
      <4>2. CASE k # m
        <5>1. k \in 0..(m - 1) /\ h[k] = g[k]
          BY <2>2, <4>2
        <5>2. g[k] = IF k = 0 THEN n ELSE g[k - 1] \div 8
          BY <3>2, <5>1
        <5>3. k # 0 => h[k - 1] = g[k - 1]
          BY <2>2, <5>1
        <5> QED  BY <5>1, <5>2, <5>3
      <4> QED  BY <4>1, <4>2
    <3>4. h = [k \in 0..m |-> h[k]]
      OBVIOUS
    <3> HIDE DEF h
    <3>5. Rec(h, m)
      BY <3>3, <3>4
    <3> QED  BY <2>2, <3>5
  <2> QED  BY <2>3, <2>4
<1>2. \E g : Rec(g, SIZE_DIGITS)
  BY <1>0, <1>1
<1>3. Cut(n) = CHOOSE g : Rec(g, SIZE_DIGITS)
  BY DEF Cut
<1> DEFINE c == Cut(n)
<1>4. Rec(c, SIZE_DIGITS)
  <2> HIDE DEF Rec
  <2> QED  BY <1>2, <1>3, Zenon
<1> HIDE DEF c
<1>5. \A k \in 0..SIZE_DIGITS : c[k] = IF k = 0 THEN n ELSE c[k - 1] \div 8
  BY <1>4
<1>6. c[0] = n /\ \A k \in 1..SIZE_DIGITS : c[k] = c[k - 1] \div 8
  BY <1>0, <1>5
<1>7. \A k \in 0..SIZE_DIGITS : c[k] \in Nat
  <2> DEFINE U == {k \in 0..SIZE_DIGITS : c[k] \notin Nat}
  <2> SUFFICES ASSUME U # {} PROVE FALSE
    OBVIOUS
  <2>1. U \in SUBSET Nat
    BY <1>0
  <2>2. PICK k \in U : \A y \in U : k <= y
    <3> HIDE DEF U
    <3> QED  BY <2>1, HasLeast
  <2>3. k \in 1..SIZE_DIGITS /\ c[k] \notin Nat
    BY <1>0, <1>6, <2>2
  <2>4. k - 1 \in 0..SIZE_DIGITS /\ ~(k <= k - 1)
    BY <1>0, <2>3
  <2>5. c[k - 1] \in Nat
    BY <2>2, <2>4
  <2>6. \A z \in Nat : z \div 8 \in Nat
    OBVIOUS
  <2> QED  BY <1>6, <2>3, <2>5, <2>6
<1> QED  BY <1>6, <1>7 DEF c

(* Reading a size gives back what was written, if its digits suffice.      *)
LEMMA SizesAreRead ==
  ASSUME NEW n \in Nat, Cut(n)[SIZE_DIGITS] = 0
  PROVE  oct_str_to_num(Octal(n)) = n
<1> DEFINE str == Octal(n)  L == SIZE_DIGITS  c == Cut(n)
           g == [k \in 0..L |-> c[L - k]]
           Rec(f, m) == f = [k \in 0..m |-> IF k = 0 THEN 0 ELSE 8 * f[k - 1] + str[k]]
<1>0. L \in Nat \ {0}
  BY BlockAssumption
<1>1. /\ c[0] = n /\ c[L] = 0 /\ \A k \in 0..L : c[k] \in Nat
      /\ \A k \in 1..L : c[k] = c[k - 1] \div 8
  BY CutRule
<1>2. Len(str) = L /\ \A k \in 1..L : str[k] = c[L - k] % 8
  <2>1. str = [k \in 1..L |-> c[L - k] % 8]
    BY DEF Octal
  <2> HIDE DEF str, c, L
  <2>2. \A k \in 1..L : c[L - k] % 8 \in Int
    <3> TAKE k \in 1..L
    <3>1. L - k \in 0..L
      BY <1>0
    <3>2. \A z \in Nat : (z % 8) \in Int
      OBVIOUS
    <3> QED  BY <1>1, <3>1, <3>2
  <2>3. str \in [1..L -> Int]
    BY <2>1, <2>2
  <2>4. Len(str) = L
    BY <1>0, <2>3
  <2> QED  BY <2>1, <2>4
<1> HIDE DEF str, c, L
<1>3. \A k \in 1..L : 8 * c[L - (k - 1)] + str[k] = c[L - k]
  <2> TAKE k \in 1..L
  <2>1. L - k \in 0..L /\ L - (k - 1) \in 1..L /\ (L - (k - 1)) - 1 = L - k
    BY <1>0
  <2> DEFINE z == c[L - k]
  <2>2. c[L - (k - 1)] = z \div 8 /\ str[k] = z % 8 /\ z \in Nat
    BY <1>1, <1>2, <2>1
  <2> HIDE DEF z
  <2>3. 8 * (z \div 8) + (z % 8) = z
    BY <2>2
  <2> QED  BY <2>2, <2>3 DEF z
<1>4. Rec(g, L)
  <2>1. \A k \in 0..L : g[k] = IF k = 0 THEN 0 ELSE 8 * g[k - 1] + str[k]
    <3> TAKE k \in 0..L
    <3>1. CASE k = 0
      <4>1. L - 0 = L
        BY <1>0
      <4> QED  BY <1>0, <1>1, <3>1, <4>1
    <3>2. CASE k # 0
      <4>1. k \in 1..L /\ k - 1 \in 0..L
        BY <1>0, <3>2
      <4>2. g[k - 1] = c[L - (k - 1)] /\ g[k] = c[L - k]
        BY <4>1
      <4> QED  BY <1>3, <3>2, <4>1, <4>2
    <3> QED  BY <3>1, <3>2
  <2>2. g = [k \in 0..L |-> g[k]]
    OBVIOUS
  <2> HIDE DEF g
  <2> QED  BY <2>1, <2>2
<1>5. \A f : Rec(f, L) => \A k \in 0..L : f[k] = c[L - k]
  <2> SUFFICES ASSUME NEW f, Rec(f, L), \E k \in 0..L : f[k] # c[L - k] PROVE FALSE
    OBVIOUS
  <2> DEFINE U == {k \in 0..L : f[k] # c[L - k]}
  <2>a. PICK j \in 0..L : f[j] # c[L - j]
    OBVIOUS
  <2>b. j \in U
    BY <2>a
  <2>c. 0..L \in SUBSET Nat
    BY <1>0
  <2>1. U \in SUBSET Nat /\ U # {}
    BY <2>b, <2>c
  <2>2. PICK k \in U : \A y \in U : k <= y
    <3> HIDE DEF U
    <3> QED  BY <2>1, HasLeast
  <2>3. k \in 0..L /\ f[k] # c[L - k]
    BY <2>2
  <2>4. f[k] = IF k = 0 THEN 0 ELSE 8 * f[k - 1] + str[k]
    BY <2>3
  <2>5. k # 0
    <3>1. L - 0 = L
      BY <1>0
    <3> QED  BY <1>1, <2>3, <2>4, <3>1
  <2>6. k \in 1..L /\ k - 1 \in 0..L /\ ~(k <= k - 1)
    BY <1>0, <2>3, <2>5
  <2>7. f[k - 1] = c[L - (k - 1)]
    BY <2>2, <2>6
  <2> QED  BY <1>3, <2>3, <2>4, <2>5, <2>6, <2>7
<1>6. oct_str_to_num(str) = (CHOOSE f : Rec(f, L))[L]
  BY <1>2 DEF oct_str_to_num
<1> HIDE DEF Rec
<1>7. Rec(CHOOSE f : Rec(f, L), L)
  BY <1>4, Zenon
<1>8. (CHOOSE f : Rec(f, L))[L] = c[L - L]
  <2>1. L \in 0..L
    BY <1>0
  <2> QED  BY <1>5, <1>7, <2>1
<1>9. L - L = 0
  BY <1>0
<1> QED  BY <1>1, <1>6, <1>8, <1>9 DEF str

(* Where the members of an archive lie: one behind the other, each at the  *)
(* start of a block.                                                       *)
LEMMA OffsetRule ==
  ASSUME NEW archive, IsArchive(archive)
  PROVE  LET n == Len(archive.members)
             at(k) == Offset(archive, k)
         IN  /\ at(1) = 0
             /\ \A k \in 1..(n + 1) : at(k) \in Nat /\ \E q \in Nat : at(k) = BLOCK * q
             /\ \A k \in 1..n :
                  /\ at(k + 1) = at(k) + BLOCK + ALIGNUP(archive.members[k].size, BLOCK)
                  /\ at(k) < at(k + 1)
<1> DEFINE n == Len(archive.members)
           Rec(g, m) == g = [i \in 1..m |->
                               IF i = 1 THEN 0
                               ELSE g[i - 1] + BLOCK + ALIGNUP(archive.members[i - 1].size, BLOCK)]
           Step(g, m) == \A i \in 1..m :
                           g[i] = IF i = 1 THEN 0
                                  ELSE g[i - 1] + BLOCK
                                         + ALIGNUP(archive.members[i - 1].size, BLOCK)
           S == {m \in Nat : ~ \E g : Rec(g, m)}
<1>0. n \in Nat /\ BLOCK \in Nat \ {0}
  BY BlockAssumption DEF IsArchive
<1>1. S = {}
  <2> SUFFICES ASSUME S # {} PROVE FALSE
    OBVIOUS
  <2>1. PICK m \in S : \A y \in S : m <= y
    <3> HIDE DEF S
    <3>1. S \in SUBSET Nat
      BY DEF S
    <3> QED  BY <3>1, HasLeast
  <2>2. m \in Nat /\ ~ \E g : Rec(g, m)
    BY <2>1
  <2>3. CASE m = 0
    <3>1. 1..0 = {}
      OBVIOUS
    <3>2. Rec([i \in {} |-> 0], 0)
      BY <3>1
    <3> QED  BY <2>2, <2>3, <3>2
  <2>4. CASE m # 0
    <3>1. m - 1 \in Nat /\ ~(m <= m - 1)
      BY <2>2, <2>4
    <3>2. PICK g : Rec(g, m - 1)
      BY <2>1, <3>1
    <3> DEFINE z == g[m - 1] + BLOCK + ALIGNUP(archive.members[m - 1].size, BLOCK)
               h == [i \in 1..m |-> IF i = m THEN (IF m = 1 THEN 0 ELSE z) ELSE g[i]]
    <3>3. Step(h, m)
      <4> SUFFICES ASSUME NEW i \in 1..m
                   PROVE  h[i] = IF i = 1 THEN 0
                                 ELSE h[i - 1] + BLOCK
                                        + ALIGNUP(archive.members[i - 1].size, BLOCK)
        OBVIOUS
      <4>1. CASE i = m
        <5>1. h[i] = (IF m = 1 THEN 0 ELSE z)
          BY <2>2, <4>1
        <5>2. m # 1 => h[m - 1] = g[m - 1]
          BY <2>2, <3>1
        <5> QED  BY <4>1, <5>1, <5>2
      <4>2. CASE i # m
        <5>1. i \in 1..(m - 1) /\ h[i] = g[i]
          BY <2>2, <4>2
        <5>2. g[i] = IF i = 1 THEN 0
                     ELSE g[i - 1] + BLOCK + ALIGNUP(archive.members[i - 1].size, BLOCK)
          <6> HIDE DEF h
          <6> QED  BY <3>2, <5>1
        <5>3. i # 1 => h[i - 1] = g[i - 1]
          BY <2>2, <5>1
        <5> HIDE DEF h
        <5> QED  BY <5>1, <5>2, <5>3
      <4> QED  BY <4>1, <4>2
    <3>4. h = [i \in 1..m |-> h[i]]
      OBVIOUS
    <3> HIDE DEF h
    <3>5. Rec(h, m)
      BY <3>3, <3>4
    <3> QED  BY <2>2, <3>5
  <2> QED  BY <2>3, <2>4
<1>2. \A m \in Nat : Rec(CHOOSE g : Rec(g, m), m)
  <2> TAKE m \in Nat
  <2>1. \E g : Rec(g, m)
    BY <1>1
  <2> HIDE DEF Rec
  <2> QED  BY <2>1, Zenon
<1> DEFINE f(m) == CHOOSE g : Rec(g, m)
<1>3. \A m \in Nat : Offset(archive, m) = f(m)[m]
  BY DEF Offset
<1>4. \A m \in Nat : Step(f(m), m)
  <2> TAKE m \in Nat
  <2> DEFINE g == f(m)
  <2>1. Rec(g, m)
    BY <1>2
  <2> HIDE DEF g
  <2>2. Step(g, m)
    BY <2>1
  <2> QED  BY <2>2 DEF g
<1> HIDE DEF f, Rec
<1>5. ASSUME NEW k \in 1..n
      PROVE  f(k + 1)[k] = f(k)[k]
  <2> DEFINE g == f(k + 1)  h == f(k)  U == {i \in 1..k : g[i] # h[i]}
  <2>1. Step(g, k + 1) /\ Step(h, k)
    <3>1. k \in Nat /\ k + 1 \in Nat
      BY <1>0
    <3> QED  BY <1>4, <3>1
  <2> HIDE DEF g, h
  <2>2. U = {}
    <3> SUFFICES ASSUME U # {} PROVE FALSE
      OBVIOUS
    <3>1. U \in SUBSET Nat
      BY <1>0
    <3>2. PICK i \in U : \A y \in U : i <= y
      <4> HIDE DEF U
      <4> QED  BY <3>1, HasLeast
    <3>3. i \in 1..k /\ i \in 1..(k + 1) /\ g[i] # h[i]
      BY <1>0, <3>2
    <3>4. CASE i = 1
      BY <2>1, <3>3, <3>4
    <3>5. CASE i # 1
      <4>1. i - 1 \in 1..k /\ ~(i <= i - 1)
        BY <1>0, <3>3, <3>5
      <4>2. g[i - 1] = h[i - 1]
        BY <3>2, <4>1
      <4>3. g[i] = g[i - 1] + BLOCK + ALIGNUP(archive.members[i - 1].size, BLOCK)
        BY <2>1, <3>3, <3>5
      <4>4. h[i] = h[i - 1] + BLOCK + ALIGNUP(archive.members[i - 1].size, BLOCK)
        BY <2>1, <3>3, <3>5
      <4> QED  BY <3>3, <4>2, <4>3, <4>4
    <3> QED  BY <3>4, <3>5
  <2>3. k \in 1..k
    BY <1>0
  <2> QED  BY <2>2, <2>3 DEF g, h
<1> DEFINE at(k) == Offset(archive, k)
<1>6. at(1) = 0
  <2>1. Step(f(1), 1) /\ at(1) = f(1)[1]
    BY <1>3, <1>4
  <2>2. 1 \in 1..1
    OBVIOUS
  <2> HIDE DEF at
  <2> QED  BY <2>1, <2>2
<1>7. \A k \in 1..n : at(k + 1) = at(k) + BLOCK + ALIGNUP(archive.members[k].size, BLOCK)
  <2> TAKE k \in 1..n
  <2>1. k \in Nat /\ k + 1 \in Nat /\ k + 1 \in 1..(k + 1) /\ k + 1 # 1 /\ (k + 1) - 1 = k
    BY <1>0
  <2>2. at(k + 1) = f(k + 1)[k + 1] /\ at(k) = f(k)[k]
    BY <1>3, <2>1
  <2>3. Step(f(k + 1), k + 1)
    BY <1>4, <2>1
  <2> DEFINE g == f(k + 1)
  <2> HIDE DEF g, at
  <2>4. g[k + 1] = g[k] + BLOCK + ALIGNUP(archive.members[k].size, BLOCK)
    <3>1. Step(g, k + 1)
      BY <2>3 DEF g
    <3> QED  BY <2>1, <3>1
  <2>5. at(k + 1) = g[k + 1] /\ at(k) = g[k]
    BY <1>5, <2>2 DEF g
  <2> QED  BY <2>4, <2>5
<1> HIDE DEF at, Step
<1>8. \A k \in 1..n : archive.members[k].size \in Nat
  BY DEF IsArchive
<1>9. \A k \in 1..(n + 1) : \E q \in Nat : at(k) = BLOCK * q
  <2> DEFINE U == {k \in 1..(n + 1) : ~ \E q \in Nat : at(k) = BLOCK * q}
  <2> SUFFICES ASSUME U # {} PROVE FALSE
    OBVIOUS
  <2>1. U \in SUBSET Nat
    BY <1>0
  <2>2. PICK k \in U : \A y \in U : k <= y
    <3> HIDE DEF U
    <3> QED  BY <2>1, HasLeast
  <2>3. k \in 1..(n + 1) /\ ~ \E q \in Nat : at(k) = BLOCK * q
    BY <2>2
  <2>4. k # 1
    <3>1. 0 = BLOCK * 0
      BY <1>0
    <3> QED  BY <1>6, <2>3, <3>1
  <2> DEFINE j == k - 1
  <2>5. j \in 1..n /\ j \in 1..(n + 1) /\ ~(k <= j) /\ k = j + 1
    BY <1>0, <2>3, <2>4
  <2> HIDE DEF j
  <2>6. PICK q \in Nat : at(j) = BLOCK * q
    BY <2>2, <2>5
  <2> DEFINE r == (archive.members[j].size + BLOCK - 1) \div BLOCK
  <2>7. r \in Nat /\ ALIGNUP(archive.members[j].size, BLOCK) = BLOCK * r
    <3>1. archive.members[j].size + BLOCK - 1 \in Nat
      BY <1>0, <1>8, <2>5
    <3>2. \A x \in Nat : x \div BLOCK \in Nat
      BY <1>0
    <3> QED  BY <3>1, <3>2 DEF ALIGNUP
  <2> HIDE DEF r
  <2>8. at(k) = BLOCK * q + BLOCK + BLOCK * r
    BY <1>7, <2>5, <2>6, <2>7
  <2>9. BLOCK * (q + 1 + r) = BLOCK * q + BLOCK + BLOCK * r
    BY <1>0, <2>7
  <2>10. q + 1 + r \in Nat
    BY <2>7
  <2> QED  BY <2>3, <2>8, <2>9, <2>10
<1>10. \A k \in 1..(n + 1) : at(k) \in Nat
  <2>1. \A q \in Nat : BLOCK * q \in Nat
    BY <1>0
  <2> QED  BY <1>9, <2>1
<1>11. \A k \in 1..n : at(k) < at(k + 1)
  <2> TAKE k \in 1..n
  <2> DEFINE r == ALIGNUP(archive.members[k].size, BLOCK)
  <2>1. r \in Nat
    BY <1>0, <1>8, Rounding
  <2>2. k \in 1..(n + 1) /\ at(k + 1) = at(k) + BLOCK + r
    BY <1>0, <1>7
  <2> HIDE DEF r
  <2> QED  BY <1>0, <1>10, <2>1, <2>2
<1> QED  BY <1>6, <1>7, <1>9, <1>10, <1>11 DEF at

(* No two members lie at the same place.                                   *)
LEMMA OffsetsGrow ==
  ASSUME NEW archive, IsArchive(archive)
  PROVE  LET n == Len(archive.members)
         IN  \A j, k \in 1..(n + 1) : j < k => Offset(archive, j) < Offset(archive, k)
<1> DEFINE n == Len(archive.members)  at(k) == Offset(archive, k)
<1>0. n \in Nat
  BY DEF IsArchive
<1>1. \A k \in 1..(n + 1) : at(k) \in Nat
  BY OffsetRule
<1>2. \A k \in 1..n : at(k) < at(k + 1)
  BY OffsetRule
<1> HIDE DEF n, at
<1>3. \A j, k \in 1..(n + 1) : j < k => at(j) < at(k)
  <2> SUFFICES ASSUME NEW j \in 1..(n + 1)
               PROVE  \A k \in 1..(n + 1) : j < k => at(j) < at(k)
    OBVIOUS
  <2> DEFINE U == {k \in 1..(n + 1) : j < k /\ ~(at(j) < at(k))}
  <2> SUFFICES ASSUME U # {} PROVE FALSE
    OBVIOUS
  <2>1. U \in SUBSET Nat
    BY <1>0
  <2>2. PICK k \in U : \A y \in U : k <= y
    <3> HIDE DEF U
    <3> QED  BY <2>1, HasLeast
  <2>3. k \in 1..(n + 1) /\ j < k /\ ~(at(j) < at(k))
    BY <2>2
  <2> DEFINE i == k - 1
  <2>4. i \in 1..n /\ i \in 1..(n + 1) /\ k = i + 1 /\ ~(k <= i) /\ j <= i /\ i \in Nat /\ j \in Nat
    BY <1>0, <2>3
  <2> HIDE DEF i
  <2>5. at(i) < at(k) /\ at(i) \in Nat /\ at(k) \in Nat /\ at(j) \in Nat
    BY <1>1, <1>2, <2>3, <2>4
  <2>6. CASE j = i
    BY <2>3, <2>5, <2>6
  <2>7. CASE j < i
    <3>1. at(j) < at(i)
      BY <2>2, <2>4, <2>7
    <3> QED  BY <2>3, <2>5, <3>1
  <2> QED  BY <2>4, <2>6, <2>7
<1> QED  BY <1>3 DEF n, at

(* What is found at the offsets: a header for each member, and none        *)
(* anywhere else.                                                          *)
LEMMA HeaderRule ==
  ASSUME NEW archive, IsArchive(archive)
  PROVE  LET n == Len(archive.members)
         IN  /\ \A k \in 1..n :
                  LET m == archive.members[k]
                  IN  Header(archive, Offset(archive, k)) =
                        [ustar |-> TRUE, name |-> m.name, type |-> m.type,
                         file_size |-> Octal(m.size)]
             /\ \A offset : (\A k \in 1..n : Offset(archive, k) # offset) =>
                              Header(archive, offset) = [ustar |-> FALSE]
<1> DEFINE n == Len(archive.members)  at(k) == Offset(archive, k)
           here(offset) == {k \in DOMAIN archive.members : at(k) = offset}
<1>0. n \in Nat /\ DOMAIN archive.members = 1..n
  BY DEF IsArchive
<1>1. \A j, k \in 1..(n + 1) : j < k => at(j) < at(k)
  BY OffsetsGrow
<1>2. \A k \in 1..(n + 1) : at(k) \in Nat
  BY OffsetRule
<1>3. \A offset : Header(archive, offset) =
        IF here(offset) = {} THEN [ustar |-> FALSE]
        ELSE LET m == archive.members[Min(here(offset))]
             IN  [ustar |-> TRUE, name |-> m.name, type |-> m.type, file_size |-> Octal(m.size)]
  BY DEF Header
<1> HIDE DEF n, at
<1>4. ASSUME NEW k \in 1..n
      PROVE  LET m == archive.members[k]
             IN  Header(archive, at(k)) =
                   [ustar |-> TRUE, name |-> m.name, type |-> m.type, file_size |-> Octal(m.size)]
  <2>1. \A j \in 1..n : at(j) = at(k) => j = k
    <3> TAKE j \in 1..n
    <3>1. j \in 1..(n + 1) /\ k \in 1..(n + 1) /\ j \in Nat /\ k \in Nat
      BY <1>0
    <3>2. j < k => at(j) # at(k)
      BY <1>1, <1>2, <3>1
    <3>3. k < j => at(j) # at(k)
      BY <1>1, <1>2, <3>1
    <3> QED  BY <3>1, <3>2, <3>3
  <2>2. here(at(k)) = {k}
    BY <1>0, <2>1
  <2>3. Min({k}) = k
    <3>1. {k} \in SUBSET Nat /\ {k} # {}
      BY <1>0
    <3> QED  BY <3>1, MinIsLeast
  <2> HIDE DEF here
  <2>4. here(at(k)) # {} /\ Min(here(at(k))) = k
    BY <2>2, <2>3
  <2> QED  BY <1>3, <2>4
<1>5. \A offset : (\A k \in 1..n : at(k) # offset) => Header(archive, offset) = [ustar |-> FALSE]
  <2> TAKE offset
  <2> HAVE \A k \in 1..n : at(k) # offset
  <2>1. here(offset) = {}
    BY <1>0
  <2> HIDE DEF here
  <2> QED  BY <1>3, <2>1
<1> QED  BY <1>4, <1>5 DEF n, at

(* A look-up answers as it should.                                         *)
LEMMA LookupIsRight ==
  ASSUME NEW archive, IsArchive(archive), NEW path
  PROVE  initfs_lookup(archive, path) = LookupExpected(archive, path)
<1> DEFINE n == Len(archive.members)
           at(k) == Offset(archive, k)
           end == Bytes(archive)
           mem(k) == archive.members[k]
           Body(f, offset) ==
             LET hdr == Header(archive, offset)
                 sz == oct_str_to_num(hdr.file_size)
             IN  CASE offset >= Bytes(archive) -> [res |-> "ENOENT"]
                   [] offset < Bytes(archive) /\ ~hdr.ustar -> [res |-> "ASSERT"]
                   [] OTHER ->
                        IF hdr.name # path THEN f[ALIGNUP(offset + BLOCK + sz, BLOCK)]
                        ELSE IF hdr.type # TYPE_FLAG_FILE THEN [res |-> "ASSERT"]
                        ELSE [res |-> "SUCCESS", ptr |-> offset + BLOCK, size |-> sz]
           Rec(f) == f = [offset \in Nat |-> Body(f, offset)]
           Stop == [res |-> "ASSERT"]
           None == IF archive.empty = 0 THEN [res |-> "ENOENT"] ELSE Stop
           Hit(k) == IF mem(k).type # TYPE_FLAG_FILE THEN Stop
                     ELSE [res |-> "SUCCESS", ptr |-> at(k) + BLOCK, size |-> mem(k).size]
           same(k) == {j \in 1..n : j >= k /\ mem(j).name = path}
           Result(k) == IF same(k) = {} THEN None ELSE Hit(Min(same(k)))
<1>0. /\ n \in Nat /\ DOMAIN archive.members = 1..n /\ archive.empty \in Nat
      /\ BLOCK \in Nat \ {0}
      /\ \A k \in 1..n : mem(k).size \in Nat /\ Cut(mem(k).size)[SIZE_DIGITS] = 0
  BY BlockAssumption DEF IsArchive
<1>1. /\ at(1) = 0 /\ \A k \in 1..(n + 1) : at(k) \in Nat /\ \E q \in Nat : at(k) = BLOCK * q
      /\ \A k \in 1..n : at(k + 1) = at(k) + BLOCK + ALIGNUP(mem(k).size, BLOCK)
  BY OffsetRule
<1>2. \A j, k \in 1..(n + 1) : j < k => at(j) < at(k)
  BY OffsetsGrow
<1>3. /\ \A k \in 1..n : Header(archive, at(k)) =
           [ustar |-> TRUE, name |-> mem(k).name, type |-> mem(k).type,
            file_size |-> Octal(mem(k).size)]
      /\ \A offset : (\A k \in 1..n : at(k) # offset) => Header(archive, offset) = [ustar |-> FALSE]
  BY HeaderRule
<1>4. \A k \in 1..n : oct_str_to_num(Octal(mem(k).size)) = mem(k).size
  BY <1>0, SizesAreRead
<1>5. end = at(n + 1) + BLOCK * archive.empty
  BY DEF Bytes
<1>l. initfs_lookup(archive, path) = (CHOOSE f : Rec(f))[0]
  BY DEF initfs_lookup
<1>e. LookupExpected(archive, path) =
        LET all == {k \in DOMAIN archive.members : mem(k).name = path}
            m == mem(Min(all))
        IN  CASE all # {} /\ m.type = TYPE_FLAG_FILE ->
                   [res |-> "SUCCESS", ptr |-> at(Min(all)) + BLOCK, size |-> m.size]
              [] all = {} /\ archive.empty = 0 -> [res |-> "ENOENT"]
              [] OTHER -> [res |-> "ASSERT"]
  BY DEF LookupExpected
<1> HIDE DEF n, at, mem
<1>6. /\ end \in Nat /\ at(n + 1) <= end /\ (at(n + 1) = end <=> archive.empty = 0)
      /\ \A k \in 1..n : at(k) < end
  <2> DEFINE b == BLOCK * archive.empty
  <2>1. b \in Nat /\ (b = 0 <=> archive.empty = 0)
    <3>1. archive.empty # 0 => BLOCK * archive.empty >= BLOCK
      BY <1>0
    <3> QED  BY <1>0, <3>1
  <2>2. n + 1 \in 1..(n + 1) /\ at(n + 1) \in Nat
    BY <1>0, <1>1
  <2>3. \A k \in 1..n : k \in 1..(n + 1) /\ k < n + 1
    BY <1>0
  <2>4. \A k \in 1..n : at(k) \in Nat /\ at(k) < at(n + 1)
    BY <1>1, <1>2, <2>2, <2>3
  <2> HIDE DEF b, end
  <2>5. end = at(n + 1) + b
    BY <1>5 DEF b
  <2> QED  BY <2>1, <2>2, <2>4, <2>5
<1>7. \A k \in 1..n : ALIGNUP(at(k) + BLOCK + mem(k).size, BLOCK) = at(k + 1)
  <2> TAKE k \in 1..n
  <2>1. k \in 1..(n + 1)
    BY <1>0
  <2>2. PICK q \in Nat : at(k) = BLOCK * q
    BY <1>1, <2>1
  <2>3. BLOCK * (q + 1) = BLOCK * q + BLOCK
    BY <1>0
  <2>4. ALIGNUP(BLOCK * (q + 1) + mem(k).size, BLOCK)
          = BLOCK * (q + 1) + ALIGNUP(mem(k).size, BLOCK)
    <3>1. q + 1 \in Nat
      OBVIOUS
    <3> QED  BY <1>0, <3>1, RoundingAdds
  <2> QED  BY <1>1, <2>2, <2>3, <2>4
<1>8. ASSUME NEW k \in 1..n, NEW f
      PROVE  Body(f, at(k)) = IF mem(k).name # path THEN f[at(k + 1)] ELSE Hit(k)
  <2> DEFINE hdr == Header(archive, at(k))
  <2>1. /\ hdr.ustar = TRUE /\ hdr.name = mem(k).name /\ hdr.type = mem(k).type
        /\ hdr.file_size = Octal(mem(k).size)
    BY <1>3
  <2> HIDE DEF hdr
  <2>2. oct_str_to_num(hdr.file_size) = mem(k).size
    BY <1>4, <2>1
  <2>3. ~(at(k) >= end) /\ at(k) < end
    <3>1. k \in 1..(n + 1)
      BY <1>0
    <3> HIDE DEF end
    <3> QED  BY <1>1, <1>6, <3>1
  <2>4. Body(f, at(k)) =
          IF hdr.name # path THEN f[ALIGNUP(at(k) + BLOCK + oct_str_to_num(hdr.file_size), BLOCK)]
          ELSE IF hdr.type # TYPE_FLAG_FILE THEN [res |-> "ASSERT"]
          ELSE [res |-> "SUCCESS", ptr |-> at(k) + BLOCK, size |-> oct_str_to_num(hdr.file_size)]
    BY <2>1, <2>3 DEF hdr
  <2> HIDE DEF Body
  <2> QED  BY <1>7, <2>1, <2>2, <2>4
<1>9. ASSUME NEW offset \in Nat, \A k \in 1..n : at(k) # offset, NEW f
      PROVE  Body(f, offset) = IF offset >= end THEN [res |-> "ENOENT"] ELSE Stop
  <2> DEFINE hdr == Header(archive, offset)
  <2>1. hdr.ustar = FALSE
    BY <1>3, <1>9
  <2> HIDE DEF hdr
  <2>2. offset >= end => ~(offset < end)
    <3> HIDE DEF end
    <3> QED  BY <1>6
  <2>3. ~(offset >= end) => offset < end
    <3> HIDE DEF end
    <3> QED  BY <1>6
  <2>4. CASE offset >= end
    BY <2>2, <2>4
  <2>5. CASE ~(offset >= end)
    BY <2>1, <2>3, <2>5 DEF hdr
  <2> QED  BY <2>4, <2>5
<1> HIDE DEF Body, end
<1>10. Result(n + 1) = None
  <2>1. same(n + 1) = {}
    BY <1>0
  <2> HIDE DEF same
  <2> QED  BY <2>1
<1>11. ASSUME NEW k \in 1..n
       PROVE  Result(k) = IF mem(k).name # path THEN Result(k + 1) ELSE Hit(k)
  <2>1. CASE mem(k).name # path
    <3>1. \A j \in 1..n : mem(j).name = path => (j >= k <=> j >= k + 1)
      <4> TAKE j \in 1..n
      <4> HAVE mem(j).name = path
      <4>1. j # k
        BY <2>1
      <4> QED  BY <1>0, <4>1
    <3>2. same(k) = same(k + 1)
      BY <3>1
    <3> HIDE DEF same, Hit
    <3> QED  BY <2>1, <3>2
  <2>2. CASE mem(k).name = path
    <3>1. k \in same(k) /\ same(k) \in SUBSET Nat /\ \A j \in same(k) : j >= k
      BY <1>0, <2>2
    <3> HIDE DEF same, Hit
    <3>2. Min(same(k)) \in same(k) /\ Min(same(k)) <= k
      BY <3>1, MinIsLeast
    <3>3. Min(same(k)) = k
      BY <1>0, <3>1, <3>2
    <3> QED  BY <2>2, <3>1, <3>3
  <2> QED  BY <2>1, <2>2
<1> HIDE DEF Hit, same
<1>12. n + 1 \in 1..(n + 1) /\ at(n + 1) \in Nat /\ \A k \in 1..n : at(k) # at(n + 1)
  <2>1. \A k \in 1..n : k \in 1..(n + 1) /\ k < n + 1
    BY <1>0
  <2>2. n + 1 \in 1..(n + 1)
    BY <1>0
  <2> QED  BY <1>1, <1>2, <2>1, <2>2
<1>13. \A f : Body(f, at(n + 1)) = None
  <2> TAKE f
  <2>1. Body(f, at(n + 1)) = IF at(n + 1) >= end THEN [res |-> "ENOENT"] ELSE Stop
    BY <1>9, <1>12
  <2>2. CASE archive.empty = 0
    BY <1>6, <1>12, <2>1, <2>2
  <2>3. CASE archive.empty # 0
    BY <1>6, <1>12, <2>1, <2>3
  <2> QED  BY <2>2, <2>3
<1> HIDE DEF Result, None
<1>14. \E f : Rec(f)
  <2> DEFINE who(offset) == CHOOSE k \in 1..n : at(k) = offset
             g == [offset \in Nat |->
                     IF \E k \in 1..n : at(k) = offset THEN Result(who(offset))
                     ELSE IF offset >= end THEN [res |-> "ENOENT"] ELSE Stop]
  <2>1. \A k \in 1..n : who(at(k)) = k
    <3> TAKE k \in 1..n
    <3> DEFINE j == who(at(k))
    <3>1. j \in 1..n /\ at(j) = at(k)
      OBVIOUS
    <3> HIDE DEF j
    <3>2. j \in 1..(n + 1) /\ k \in 1..(n + 1) /\ j \in Nat /\ k \in Nat
      BY <1>0, <3>1
    <3>3. ~(j < k) /\ ~(k < j)
      BY <1>1, <1>2, <3>1, <3>2
    <3>4. j = k
      BY <3>2, <3>3
    <3> QED  BY <3>4 DEF j
  <2> HIDE DEF who
  <2>2. \A k \in 1..n : at(k) \in Nat /\ g[at(k)] = Result(k)
    <3> TAKE k \in 1..n
    <3>1. k \in 1..(n + 1)
      BY <1>0
    <3>2. at(k) \in Nat
      BY <1>1, <3>1
    <3> QED  BY <2>1, <3>2
  <2>3. \A offset \in Nat : (\A k \in 1..n : at(k) # offset) =>
          g[offset] = IF offset >= end THEN [res |-> "ENOENT"] ELSE Stop
    OBVIOUS
  <2>d. g = [offset \in Nat |-> g[offset]]
    OBVIOUS
  <2> HIDE DEF g, Stop
  <2>4. g[at(n + 1)] = Result(n + 1)
    <3>1. g[at(n + 1)] = IF at(n + 1) >= end THEN [res |-> "ENOENT"] ELSE Stop
      BY <1>12, <2>3
    <3>2. at(n + 1) >= end <=> archive.empty = 0
      BY <1>6, <1>12
    <3> QED  BY <1>10, <3>1, <3>2 DEF None
  <2>5. \A k \in 1..(n + 1) : g[at(k)] = Result(k)
    <3>1. \A k \in 1..(n + 1) : k \in 1..n \/ k = n + 1
      BY <1>0
    <3> QED  BY <2>2, <2>4, <3>1
  <2>6. \A offset \in Nat : g[offset] = Body(g, offset)
    <3> TAKE offset \in Nat
    <3>1. CASE \E k \in 1..n : at(k) = offset
      <4>1. PICK k \in 1..n : at(k) = offset
        BY <3>1
      <4>2. k + 1 \in 1..(n + 1)
        BY <1>0
      <4>3. g[at(k + 1)] = Result(k + 1) /\ g[at(k)] = Result(k)
        BY <2>2, <2>5, <4>2
      <4>4. Body(g, at(k)) = IF mem(k).name # path THEN g[at(k + 1)] ELSE Hit(k)
        BY <1>8
      <4> QED  BY <1>11, <4>1, <4>3, <4>4
    <3>2. CASE ~ \E k \in 1..n : at(k) = offset
      <4>1. \A k \in 1..n : at(k) # offset
        BY <3>2
      <4>2. Body(g, offset) = IF offset >= end THEN [res |-> "ENOENT"] ELSE Stop
        BY <1>9, <4>1
      <4>3. g[offset] = IF offset >= end THEN [res |-> "ENOENT"] ELSE Stop
        BY <2>3, <4>1
      <4> QED  BY <4>2, <4>3
    <3> QED  BY <3>1, <3>2
  <2>7. Rec(g)
    BY <2>6, <2>d
  <2> QED  BY <2>7
<1>15. \A f : Rec(f) => \A k \in 1..(n + 1) : f[at(k)] = Result(k)
  <2> SUFFICES ASSUME NEW f, Rec(f) PROVE \A k \in 1..(n + 1) : f[at(k)] = Result(k)
    OBVIOUS
  <2>1. \A offset \in Nat : f[offset] = Body(f, offset)
    OBVIOUS
  <2> HIDE DEF Rec
  <2> DEFINE U == {k \in 1..(n + 1) : f[at(k)] # Result(k)}
  <2> SUFFICES ASSUME U # {} PROVE FALSE
    OBVIOUS
  <2>2. U \in SUBSET (0..(n + 1)) /\ n + 1 \in Nat
    BY <1>0
  <2>3. PICK k \in U : \A y \in U : y <= k
    <3> HIDE DEF U
    <3> QED  BY <2>2, HasGreatest
  <2>4. k \in 1..(n + 1) /\ f[at(k)] # Result(k)
    BY <2>3
  <2>5. k # n + 1
    BY <1>10, <1>12, <1>13, <2>1, <2>4
  <2>6. k \in 1..n /\ k + 1 \in 1..(n + 1) /\ ~(k + 1 <= k)
    BY <1>0, <2>4, <2>5
  <2>7. f[at(k + 1)] = Result(k + 1)
    BY <2>3, <2>6
  <2>8. f[at(k)] = IF mem(k).name # path THEN f[at(k + 1)] ELSE Hit(k)
    <3>1. at(k) \in Nat
      BY <1>1, <2>4
    <3> QED  BY <1>8, <2>1, <2>6, <3>1
  <2> QED  BY <1>11, <2>4, <2>6, <2>7, <2>8
<1> HIDE DEF Rec
<1>16. Rec(CHOOSE f : Rec(f))
  BY <1>14, Zenon
<1>17. initfs_lookup(archive, path) = Result(1)
  <2>1. 1 \in 1..(n + 1)
    BY <1>0
  <2>2. (CHOOSE f : Rec(f))[at(1)] = Result(1)
    BY <1>15, <1>16, <2>1
  <2> QED  BY <1>1, <1>l, <2>2
<1>18. LookupExpected(archive, path) = Result(1)
  <2>1. {k \in DOMAIN archive.members : mem(k).name = path} = same(1)
    BY <1>0 DEF same
  <2> DEFINE m == Min(same(1))
  <2>2. LookupExpected(archive, path) =
          CASE same(1) # {} /\ mem(m).type = TYPE_FLAG_FILE ->
                 [res |-> "SUCCESS", ptr |-> at(m) + BLOCK, size |-> mem(m).size]
            [] same(1) = {} /\ archive.empty = 0 -> [res |-> "ENOENT"]
            [] OTHER -> [res |-> "ASSERT"]
    BY <1>e, <2>1
  <2> HIDE DEF m
  <2>3. Result(1) = IF same(1) = {} THEN None ELSE Hit(m)
    BY DEF Result, m
  <2> QED  BY <2>2, <2>3 DEF None, Hit
<1> QED  BY <1>17, <1>18

(* Look-ups in the inductive invariant: what was answered last is right    *)
(* for what is mounted.                                                    *)
LEMMA LookupStep ==
  ASSUME IInv, LookupsAnswer, [Next]_vars
  PROVE  LookupsAnswer'
<1>1. ASSUME NEW path \in Paths, Lookup(path) PROVE LookupsAnswer'
  <2>1. tags' = tags /\ fs' = fs
    BY <1>1 DEF Lookup
  <2> SUFFICES ASSUME fs.mapped
               PROVE  answer'.got = LookupExpected(tags[fs.of].archive, answer'.path)
    BY <2>1 DEF LookupsAnswer
  <2>2. fs.start # 0
    BY DEF IInv, FsInv
  <2>3. answer' = [path |-> path, got |-> initfs_lookup(tags[fs.of].archive, path)]
    BY <1>1, <2>2 DEF Lookup
  <2>4. fs.of \in DOMAIN tags /\ tags[fs.of].type = "module"
    BY <2>2 DEF IInv, FsInv
  <2>5. IsArchive(tags[fs.of].archive)
    BY <2>4, ModuleRange DEF IInv
  <2>6. initfs_lookup(tags[fs.of].archive, path) = LookupExpected(tags[fs.of].archive, path)
    BY <2>5, LookupIsRight
  <2> QED  BY <2>3, <2>6
<1>2. CASE kernel_parse_bootinfo
  <2>1. answer' = answer /\ answer.path = "none"
    BY <1>2 DEF kernel_parse_bootinfo, IInv, PageInv, Early
  <2> QED  BY <2>1 DEF LookupsAnswer
<1>3. CASE initfs_release
  <2>1. /\ tags' = tags /\ answer' = answer /\ (fs' = fs \/ fs' = NoFs)
    BY <1>3 DEF initfs_release
  <2>2. NoFs.mapped = FALSE
    BY DEF NoFs
  <2>3. CASE fs' = fs
    BY <2>1, <2>3 DEF LookupsAnswer
  <2>4. CASE fs' = NoFs
    <3>1. fs'.mapped = FALSE
      BY <2>2, <2>4
    <3> QED  BY <3>1 DEF LookupsAnswer
  <2> QED  BY <2>1, <2>3, <2>4
<1>4. ASSUME tags' = tags, fs' = fs, answer' = answer PROVE LookupsAnswer'
  BY <1>4 DEF LookupsAnswer
<1>5. \/ \E path \in Paths : Lookup(path)
      \/ kernel_parse_bootinfo \/ initfs_release
      \/ tags' = tags /\ fs' = fs /\ answer' = answer
  BY DEF Next, vars, ParseCmdline, ParseModule, ParseMmap, ParseAcpi, SkipTag, EndTag, Parsing,
         Elsewhere, setup_paging, RelocatePointers, RelocateLink, pm_init, pm_request_page
<1> QED  BY <1>1, <1>2, <1>3, <1>4, <1>5

(* For every archive whose sizes fit their digits, whatever its members    *)
(* and their order, initfs_lookup finds the first file of a name, at its   *)
(* place and with its size.                                                *)
THEOREM LookupsAreRight == Spec => []LookupsAnswer
<1>1. Init => LookupsAnswer
  <2> SUFFICES ASSUME Init PROVE answer.path = "none"
    BY DEF LookupsAnswer
  <2> QED  BY DEF Init
<1>2. IInv /\ LookupsAnswer /\ [Next]_vars => LookupsAnswer'
  BY LookupStep
<1> QED  BY <1>1, <1>2, Invariance, PTL DEF Spec
=============================================================================
