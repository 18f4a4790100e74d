------------------------------- MODULE Initfs -------------------------------
(***************************************************************************)
(* Look-ups in the initial file system, src/common/initfs.c: an archive in *)
(* ustar format, one header block for each member, followed by its data.   *)
(* Offsets count bytes from the start of the archive, which lies at the    *)
(* start of a page.                                                        *)
(***************************************************************************)
EXTENDS Integers, Sequences, FiniteSetsExt

CONSTANTS
  BLOCK,        \* sizeof(struct ustar_header), 512 in the code
  SIZE_DIGITS   \* octal digits of file_size, 11 in the code

ASSUME BlockAssumption == BLOCK \in Nat \ {0} /\ SIZE_DIGITS \in Nat \ {0}

TYPE_FLAG_FILE == 1
ALIGNUP(a, to) == to * ((a + to - 1) \div to)

(* An archive: members with a name, a type flag and a size, and how many   *)
(* empty blocks follow the last one.  tar writes the character '0' for a   *)
(* file and two empty blocks at the end.  A size is written in octal, and  *)
(* nothing of it is left when all its digits have been cut off.            *)
TAR_FILE == 48
Cut(n) ==
  LET rest[k \in 0..SIZE_DIGITS] == IF k = 0 THEN n ELSE rest[k - 1] \div 8
  IN  rest
Octal(n) == [k \in 1..SIZE_DIGITS |-> Cut(n)[SIZE_DIGITS - k] % 8]
Offset(archive, k) ==
  LET at[m \in 1..k] ==
        IF m = 1 THEN 0
        ELSE at[m - 1] + BLOCK + ALIGNUP(archive.members[m - 1].size, BLOCK)
  IN  at[k]
Bytes(archive) == Offset(archive, Len(archive.members) + 1) + BLOCK * archive.empty
IsArchive(archive) ==
  /\ archive.empty \in Nat
  /\ Len(archive.members) \in Nat /\ DOMAIN archive.members = 1..Len(archive.members)
  /\ \A k \in DOMAIN archive.members :
       archive.members[k].size \in Nat /\ Cut(archive.members[k].size)[SIZE_DIGITS] = 0

(* What a block holds: a header, data or zeros.                            *)
Header(archive, offset) ==
  LET here == {k \in DOMAIN archive.members : Offset(archive, k) = offset}
  IN  IF here = {} THEN [ustar |-> FALSE]
      ELSE LET m == archive.members[Min(here)]
           IN  [ustar |-> TRUE, name |-> m.name, type |-> m.type, file_size |-> Octal(m.size)]

oct_str_to_num(str) ==
  LET num[k \in 0..Len(str)] == IF k = 0 THEN 0 ELSE 8 * num[k - 1] + str[k]
  IN  num[Len(str)]

(* initfs_lookup: headers one after the other up to the end of the module. *)
(* A block that is no header, or a member that is not a file, fails an     *)
(* assertion.                                                              *)
initfs_lookup_ExtraBlock(archive, path) ==
  LET at[offset \in Nat] ==
        LET hdr == Header(archive, offset)
            sz == oct_str_to_num(hdr.file_size)
        IN  CASE offset >= Bytes(archive) -> [res |-> "ENOENT"]
              [] offset < Bytes(archive) /\ ~hdr.ustar -> [res |-> "ASSERT"]
              [] OTHER ->
                   IF hdr.name # path THEN at[ALIGNUP(offset + BLOCK + sz + 1, BLOCK)]
                   ELSE IF hdr.type # TYPE_FLAG_FILE THEN [res |-> "ASSERT"]
                   ELSE [res |-> "SUCCESS", ptr |-> offset + BLOCK, size |-> sz]
  IN  at[0]

initfs_lookup(archive, path) ==
  LET at[offset \in Nat] ==
        LET hdr == Header(archive, offset)
            sz == oct_str_to_num(hdr.file_size)
        IN  CASE offset >= Bytes(archive) -> [res |-> "ENOENT"]
              [] offset < Bytes(archive) /\ ~hdr.ustar -> [res |-> "ASSERT"]
              [] OTHER ->
                   IF hdr.name # path THEN at[ALIGNUP(offset + BLOCK + sz, BLOCK)]
                   ELSE IF hdr.type # TYPE_FLAG_FILE THEN [res |-> "ASSERT"]
                   ELSE [res |-> "SUCCESS", ptr |-> offset + BLOCK, size |-> sz]
  IN  at[0]

(* What a look-up should answer: the first member of that name, if it is a *)
(* file as the code numbers types; no entry, if the members fill the       *)
(* module.  In every other case the kernel stops.                          *)
LookupExpected(archive, path) ==
  LET same == {k \in DOMAIN archive.members : archive.members[k].name = path}
      m == archive.members[Min(same)]
  IN  CASE same # {} /\ m.type = TYPE_FLAG_FILE ->
             [res |-> "SUCCESS", ptr |-> Offset(archive, Min(same)) + BLOCK, size |-> m.size]
        [] same = {} /\ archive.empty = 0 -> [res |-> "ENOENT"]
        [] OTHER -> [res |-> "ASSERT"]
=============================================================================
