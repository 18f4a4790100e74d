------------------------------ MODULE TmpWindow ------------------------------
(***************************************************************************)
(* The temporary mappings of src/arch/x86_64/mm/vm.c: page tables are      *)
(* reached through a window of virtual pages whose own page table, tmp_pt, *)
(* is mapped into itself at its last entry.  The walks of the page tables  *)
(* open and close pages of the window while they descend, one of them      *)
(* inside another where a page table has to be allocated on the way.       *)
(***************************************************************************)
EXTENDS Integers

CONSTANTS
  TMP_LENGTH,   \* entries of tmp_pt, PT_LENGTH in the code (512)
  Frames,       \* frames that are looked at
  None, Self    \* an entry that is not present, and the one that maps tmp_pt

ASSUME WindowAssumption ==
  /\ TMP_LENGTH \in Nat /\ TMP_LENGTH > 1
  /\ None \notin Frames /\ Self \notin Frames /\ None # Self

VARIABLES
  entries,                \* tmp_pt: the frame behind every page of the window
  first_free_tmp_index,
  cached,                 \* the translations that the processor may still use
  view,                   \* what the callers believe that they look at
  full                    \* whether the assertion on a full window has failed
windowVars == <<entries, first_free_tmp_index, cached, view, full>>

Slots == 0..(TMP_LENGTH - 1)
(* The pdp and pd index of the window's address, which are the same.       *)
SelfIndex == TMP_LENGTH - 1

(* vm_init clears tmp_pt, enters it into itself and looks for a free entry.*)
WindowInit ==
  /\ entries = [i \in Slots |-> IF i = SelfIndex THEN Self ELSE None]
  /\ first_free_tmp_index = 0
  /\ cached = {}
  /\ view = [i \in Slots |-> None]
  /\ full = FALSE

(* Where the loop of map_page_tmp stops: the next entry that is not        *)
(* present, stepping over the entry of tmp_pt itself, or the end.          *)
Stops_Next(e, i) == {i + 1}

Stops(e, i) ==
  {k \in (i + 1)..TMP_LENGTH :
     /\ k < TMP_LENGTH => e[k] = None
     /\ \A j \in (i + 1)..(k - 1) : e[j] # None}

map_page_tmp(frame) ==
  LET i == first_free_tmp_index
  IN  /\ ~full
      /\ IF i >= TMP_LENGTH
         THEN full' = TRUE /\ UNCHANGED <<entries, first_free_tmp_index, cached, view>>
         ELSE /\ entries' = [entries EXCEPT ![i] = frame]
              /\ first_free_tmp_index' \in Stops([entries EXCEPT ![i] = frame], i)
              /\ view' = [view EXCEPT ![i] = frame]
              /\ UNCHANGED <<cached, full>>

(* The processor reads through a page of the window.                       *)
Look(i) ==
  /\ ~full
  /\ view[i] # None
  /\ \A c \in cached : c[1] # i
  /\ cached' = cached \cup {<<i, entries[i]>>}
  /\ UNCHANGED <<entries, first_free_tmp_index, view, full>>

unmap_page_tmp_KeepHint(i) ==
  /\ ~full
  /\ view[i] # None
  /\ entries' = [entries EXCEPT ![i] = None]
  /\ cached' = {c \in cached : c[1] # i}
  /\ view' = [view EXCEPT ![i] = None]
  /\ UNCHANGED <<first_free_tmp_index, full>>

unmap_page_tmp_Stale(i) ==
  /\ ~full
  /\ view[i] # None
  /\ entries' = [entries EXCEPT ![i] = None]
  /\ view' = [view EXCEPT ![i] = None]
  /\ first_free_tmp_index' = IF i < first_free_tmp_index THEN i ELSE first_free_tmp_index
  /\ UNCHANGED <<cached, full>>

unmap_page_tmp(i) ==
  /\ ~full
  /\ view[i] # None
  /\ entries' = [entries EXCEPT ![i] = None]
  /\ cached' = {c \in cached : c[1] # i}
  /\ view' = [view EXCEPT ![i] = None]
  /\ first_free_tmp_index' = IF i < first_free_tmp_index THEN i ELSE first_free_tmp_index
  /\ UNCHANGED full

WindowNext ==
  \/ \E frame \in Frames : map_page_tmp(frame)
  \/ \E i \in Slots : Look(i) \/ unmap_page_tmp(i)

WindowSpec == WindowInit /\ [][WindowNext]_windowVars

-----------------------------------------------------------------------------
(* The values of the variables.                                            *)
WindowTypeOK ==
  /\ entries \in [Slots -> Frames \cup {None, Self}]
  /\ first_free_tmp_index \in 0..TMP_LENGTH
  /\ cached \subseteq Slots \X (Frames \cup {None, Self})
  /\ view \in [Slots -> Frames \cup {None}]
  /\ full \in BOOLEAN

(* The index is the lowest free page of the window or its end: no page is  *)
(* lost for good, in whatever order the walks close theirs, and the window *)
(* is found full (vm.c:87) only when it is.                                *)
FirstFreeIsExact ==
  /\ \A j \in Slots : j < first_free_tmp_index => entries[j] # None
  /\ first_free_tmp_index < TMP_LENGTH => entries[first_free_tmp_index] = None

(* A walk sees the table it opened, also through the processor's cache:    *)
(* no other walk is given its page, a page that was closed is forgotten by *)
(* the processor, and the window stays mapped into itself.                 *)
WalksSeeTheirTables ==
  /\ \A i \in Slots : view[i] # None => entries[i] = view[i]
  /\ \A c \in cached : c[2] = view[c[1]]
  /\ entries[SelfIndex] = Self

(* No page of the window is taken while somebody looks through it.         *)
NeverTakenTwice ==
  [][ \A i \in Slots : view[i] # None => view'[i] \in {view[i], None} ]_windowVars
=============================================================================
