----------------------------- MODULE MCPhysMem -----------------------------
(* Memory maps and callers for model checking PhysMem.  Pages are of two   *)
(* bytes, so that a segment can end inside a page.                         *)
EXTENDS PhysMem

Seg(type, addr, length) == [type |-> type, addr |-> addr, length |-> length]

(* A PC with memory in two regions of six pages: page 0 is reserved in     *)
(* part, and a reserved device lies far above.                             *)
MapPC == <<Seg("reserved", 0, 1), Seg("available", 1, 19), Seg("reserved", 64, 2)>>
=============================================================================
