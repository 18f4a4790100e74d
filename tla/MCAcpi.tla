------------------------------ MODULE MCAcpi ------------------------------
(* Machines for model checking Acpi, with pages of 64 bytes.  The root is  *)
(* at the start of a page, or so close to its end that its header crosses  *)
(* into the next one.  Behind it come a table inside a page, one longer    *)
(* than a page, one that crosses a page although it is short, and one with *)
(* a wrong checksum, under two names.  A page that is returned in place of *)
(* a table's looks like a table of another name, like one longer than what *)
(* is mapped, or like a root that names two addresses.                     *)
EXTENDS Acpi, TLC

Tbl(sig, length, sum) == [sig |-> sig, length |-> length, sum |-> sum, entries |-> <<>>]
Named == (256 :> Tbl("APIC", 40, TRUE)) @@ (320 :> Tbl("APIC", 100, TRUE))
            @@ (532 :> Tbl("FACP", 60, TRUE)) @@ (640 :> Tbl("FACP", 36, FALSE))
Lists == {<<>>} \cup {<<a>> : a \in DOMAIN Named} \cup {<<a, b>> : a, b \in DOMAIN Named}
           \cup {<<532, 640, 320>>, <<256, 320, 532, 640>>}
Strays == {Tbl("MCFG", 10, TRUE), [Tbl("APIC", 150, TRUE) EXCEPT !.entries = [k \in 1..28 |-> 256]],
           [Tbl("RSDT", 44, TRUE) EXCEPT !.entries = <<320, 900>>]}
Root(type, name, entries, sum, rest) ==
  [sig |-> name, length |-> HEADER + Width(type) * Len(entries) + rest,
   sum |-> sum, entries |-> entries]
Machine(type, ok, revision, where, table) ==
  [type |-> type, sum |-> ok, sig |-> TRUE, revision |-> revision, root |-> where,
   tables |-> (where :> table) @@ Named]

Machines ==
  {Machine(type, TRUE, IF type = "RSDP" THEN 0 ELSE 2, where,
           Root(type, IF type = "RSDP" THEN "RSDT" ELSE "XSDT", list, TRUE, rest)) :
     type \in {"RSDP", "XSDP"}, where \in {64, 100}, list \in Lists, rest \in {0, 3}}
  \cup {Machine(type, ok, 0, 64, Root(type, name, <<256>>, sum, 0)) :
          type \in {"NONE", "RSDP", "XSDP"}, ok \in BOOLEAN,
          name \in {"RSDT", "XSDT"}, sum \in BOOLEAN}
=============================================================================
