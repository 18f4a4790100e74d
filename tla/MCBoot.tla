------------------------------- MODULE MCBoot -------------------------------
(* Boots for model checking Boot: pages of 64 bytes, of which three lie    *)
(* below the kernel image, and blocks of 32 bytes.  Tags come in every     *)
(* order, with up to three modules, with and without a command line, and   *)
(* with two memory maps.                                                   *)
EXTENDS Boot

File(name, type, size) == [name |-> name, type |-> type, size |-> size]
Own == [members |-> <<File("a", 1, 32), File("b", 1, 5), File("a", 1, 0)>>, empty |-> 0]
Tar == [members |-> <<File("a", TAR_FILE, 0)>>, empty |-> 2]
End == [type |-> "end"]
Cmdline(n) == [type |-> "cmdline", length |-> n]
Mod(page, archive, n) ==
  [type |-> "module", start |-> page * PAGE_SIZE,
   end |-> page * PAGE_SIZE + Bytes(archive), archive |-> archive, length |-> n]
Entry(type, addr, length) == [type |-> type, addr |-> addr, length |-> length]
Mmap(list) == [type |-> "mmap", entries |-> list]
Map1 == Mmap(<<Entry(1, 0, 1600), Entry(2, 1600, 100)>>)
Map2 == Mmap(<<Entry(3, 1540, 20)>>)
Acpi(type) == [type |-> type]

Sets == {{Cmdline(1), Map1, Mod(20, Own, 4), Mod(16, Tar, 9)},
         {Cmdline(7), Map1, Map2, Mod(16, Tar, 1), Acpi("RSDP")},
         {Cmdline(1), Mod(16, Own, 1), Mod(20, Tar, 2), Mod(22, Tar, 8)},
         {Cmdline(3), Cmdline(10), Map2, Acpi("RSDP"), Acpi("XSDP")},
         {Map1, Mod(16, Own, 1), [type |-> "other"]}}
AllTagLists == {Append(s, End) : s \in UNION {SetToAllKPermutations(t) : t \in Sets}}
=============================================================================
