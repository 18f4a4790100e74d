--------------------------- MODULE PageAllocator ---------------------------
(***************************************************************************)
(* What the physical page manager promises its callers while one bitmap    *)
(* covers all the memory there is: pages are free or locked, a request is  *)
(* answered in one step with the lowest run of free pages that is long     *)
(* enough, and a run that was granted is granted to nobody else before it  *)
(* is released.  The manager may stop the kernel at any point; a stopped   *)
(* kernel has no pages.                                                    *)
(***************************************************************************)
EXTENDS Integers

CONSTANT NumPages

VARIABLES locked, granted, down
absVars == <<locked, granted, down>>

Pages == 0..(NumPages - 1)
Run(s, n) == s..(s + n - 1)
FreeRun(s, n) == Run(s, n) \subseteq Pages \ locked

Init == locked = {} /\ granted = {} /\ down = FALSE

(* A request for n pages: first fit.                                       *)
Grant(s, n) ==
  /\ ~down
  /\ FreeRun(s, n)
  /\ \A t \in 0..(s - 1) : ~FreeRun(t, n)
  /\ locked' = locked \cup Run(s, n)
  /\ granted' = granted \cup Run(s, n)
  /\ UNCHANGED down

Lock(p) ==
  /\ ~down
  /\ p \in Pages \ locked
  /\ locked' = locked \cup {p}
  /\ UNCHANGED <<granted, down>>

Release(p) ==
  /\ ~down
  /\ p \in locked
  /\ locked' = locked \ {p}
  /\ granted' = granted \ {p}
  /\ UNCHANGED down

Stop == ~down /\ locked' = {} /\ granted' = {} /\ down' = TRUE

Next ==
  \/ \E s \in Pages, n \in 1..NumPages : Grant(s, n)
  \/ \E p \in Pages : Lock(p) \/ Release(p)
  \/ Stop

Spec == Init /\ [][Next]_absVars
=============================================================================
