----------------------------- MODULE MCSlabHeap -----------------------------
(* Model checking SlabHeap, with the sizes of the code.                    *)
EXTENDS SlabHeap

(* Sizes refused at either end, one object of the class of 256 bytes,      *)
(* which divides a page, and one of the class of 384 bytes, which does not.*)
LargeObjects == {8, 2000, 4000, 4096}
=============================================================================
