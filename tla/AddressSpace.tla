---------------------------- MODULE AddressSpace ----------------------------
(***************************************************************************)
(* What the page tables promise their callers: an address space is a map   *)
(* from pages to a frame and permissions, and a call changes it in one     *)
(* step and in one place.  The call that is returning is in the variable   *)
(* call; a call that does not change it (kernel_remap and the backing of   *)
(* reserved pages) is a step of its own.  Where a mapping without a place  *)
(* of its own goes is left open.                                           *)
(***************************************************************************)
EXTENDS Integers

CONSTANTS Pages, FRAMES

VARIABLES space, call
absVars == <<space, call>>

Run(v, n) == v..(v + n - 1)
Permissions(flags) ==
  [writable |-> "WRITABLE" \in flags, user |-> "USER" \in flags,
   no_execute |-> "EXECUTABLE" \notin flags]
Target(frame, flags) == [frame |-> frame % FRAMES, perms |-> Permissions(flags)]

(* A run of free pages gets consecutive frames; a strict mapping is made   *)
(* where it was asked for and says so.                                     *)
Map(v) ==
  /\ call'.op \in {"map", "reserve"} /\ call'.res = "SUCCESS"
  /\ "STRICT" \in call'.flags => v = call'.hint /\ call'.v = v
  /\ Run(v, call'.pages) \cap DOMAIN space = {}
  /\ space' = [w \in DOMAIN space \cup Run(v, call'.pages) |->
                 IF w \in DOMAIN space THEN space[w]
                 ELSE Target(call'.frame + w - v, call'.flags)]

(* A mapping that fails, or in which the kernel stops, changes nothing.    *)
MapNothing ==
  call'.op \in {"map", "reserve"} /\ call'.res # "SUCCESS" /\ UNCHANGED space

Unmap ==
  /\ call'.op = "unmap"
  /\ space' = [w \in DOMAIN space \ Run(call'.v, call'.pages) |-> space[w]]

(* New permissions for the pages in front of the first one missing; the    *)
(* call succeeds when none is missing.                                     *)
Flag ==
  /\ call'.op = "flag"
  /\ \E n \in 0..call'.pages :
       /\ Run(call'.v, n) \subseteq DOMAIN space
       /\ n < call'.pages => call'.v + n \notin DOMAIN space
       /\ (call'.res = "SUCCESS") <=> (n = call'.pages)
       /\ space' = [w \in DOMAIN space |->
                      IF w \in Run(call'.v, n)
                      THEN [space[w] EXCEPT !.perms = Permissions(call'.flags)]
                      ELSE space[w]]

(* One reserved page gets its frame.                                       *)
Back(v) ==
  /\ v \in DOMAIN space /\ UNCHANGED call
  /\ \E frame \in 0..(FRAMES - 1) : space' = [space EXCEPT ![v].frame = frame]

Remap ==
  /\ call.op = "none" /\ UNCHANGED call
  /\ DOMAIN space' = DOMAIN space
  /\ \A v \in DOMAIN space : space'[v].frame = space[v].frame

Init == call = [op |-> "none"]
Next ==
  \/ \E v \in Pages : Map(v) \/ Back(v)
  \/ MapNothing \/ Unmap \/ Flag \/ Remap

Spec == Init /\ [][Next]_absVars
=============================================================================
