----------------------------- MODULE MCVirtMem -----------------------------
(* A small kernel for model checking VirtMem: three levels of tables with  *)
(* nine entries, pages of two bytes.  The image starts at the second entry *)
(* of its table and has four pages, and the loader mapped one more.  An    *)
(* entry among the free ones behind it may be in use already.              *)
EXTENDS VirtMem, TLC

PathToKernel == (0 :> 6) @@ (1 :> 0)

(* Pages in the kernel's table, the last of them and a page of the next    *)
(* table, which does not exist.                                            *)
FreeHints == {KernelStart + 6, KernelStart + 8, KernelStart + 9}

Callers == {{}, {"EXECUTABLE", "STRICT"}}
TouchedPages == {KernelStart + 4, KernelStart + 6, KernelStart + 7}
Holding(i) == [j \in Index |-> IF j = i THEN set_pte(50, {"WRITABLE", "USER"}) ELSE NoEntry]
Stale == {[j \in Index |-> NoEntry], Holding(7)}
=============================================================================
