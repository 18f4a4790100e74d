-------------------------------- MODULE List --------------------------------
(***************************************************************************)
(* The intrusive doubly linked lists of structs/list.c, on which the       *)
(* bitmaps of the physical memory manager and the free lists of the heap   *)
(* are kept.  Each operation is its assignments, one after the other on    *)
(* the pointers as the assignment before has left them: the nodes they     *)
(* name coincide when a list is empty or has one element.                  *)
(***************************************************************************)
EXTENDS Naturals, Sequences, FiniteSets

CONSTANTS
    Heads,      \* nodes that head a list
    Elems,      \* nodes embedded in the objects that are listed
    NULL

ASSUME NodesAssumption ==
    /\ Heads \cap Elems = {}
    /\ NULL \notin Heads \cup Elems
    /\ IsFiniteSet(Heads \cup Elems)

Nodes == Heads \cup Elems

VARIABLES
    next, prev,     \* the two pointers of every node
    inUse           \* heads that were initialised, elements that are listed

vars == <<next, prev, inUse>>

-----------------------------------------------------------------------------
(* Pointers: a pair of functions, and assignments to one field of one node *)

Ptrs == [next |-> next, prev |-> prev]

SetNext(p, n, to) == [next |-> [p.next EXCEPT ![n] = to], prev |-> p.prev]
SetPrev(p, n, to) == [next |-> p.next, prev |-> [p.prev EXCEPT ![n] = to]]

Store(p) == next' = p.next /\ prev' = p.prev

list_is_empty(list) == next[list] = list

\* The node reached by following next k times; a list has no more steps
\* than there are nodes.
Reached(list) ==
    LET at[k \in 0..Cardinality(Nodes)] ==
            IF k = 0 THEN list
            ELSE IF at[k - 1] = NULL THEN NULL ELSE next[at[k - 1]]
    IN  at

\* The steps at which a walk is back at the head.
Returns(list) == {k \in 1..Cardinality(Nodes) : Reached(list)[k] = list}

list_length(list) ==
    (CHOOSE k \in Returns(list) : \A j \in Returns(list) : k <= j) - 1

-----------------------------------------------------------------------------

Init ==
    /\ next = [n \in Nodes |-> NULL]
    /\ prev = [n \in Nodes |-> NULL]
    /\ inUse = {}

list_init(list) ==
    /\ list \notin inUse
    /\ LET p1 == SetNext(Ptrs, list, list)
           p2 == SetPrev(p1, list, list)
       IN  Store(p2)
    /\ inUse' = inUse \cup {list}

\* Mutant: the old first element keeps its prev.
list_insert_OneWay(list, elem) ==
    /\ list \in inUse /\ elem \notin inUse
    /\ LET p1 == SetPrev(Ptrs, elem, list)
           p2 == SetNext(p1, elem, p1.next[list])
           p3 == SetNext(p2, list, elem)
       IN  Store(p3)
    /\ inUse' = inUse \cup {elem}

list_insert(list, elem) ==
    /\ list \in inUse /\ elem \notin inUse
    /\ LET p1 == SetPrev(Ptrs, elem, list)
           p2 == SetNext(p1, elem, p1.next[list])
           p3 == SetNext(p2, list, elem)
           p4 == SetPrev(p3, p3.next[elem], elem)
       IN  Store(p4)
    /\ inUse' = inUse \cup {elem}

list_remove(elem) ==
    /\ elem \in inUse
    /\ LET p1 == SetNext(Ptrs, prev[elem], next[elem])
           p2 == SetPrev(p1, p1.next[elem], p1.prev[elem])
           p3 == SetPrev(p2, elem, NULL)
           p4 == SetNext(p3, elem, NULL)
       IN  Store(p4)
    /\ inUse' = inUse \ {elem}

\* Mutant: the other list goes behind the last element.
list_join_AtEnd(list, other) ==
    /\ {list, other} \subseteq inUse /\ list # other
    /\ IF list_is_empty(other)
       THEN UNCHANGED vars
       ELSE /\ LET p1 == SetNext(Ptrs, prev[other], list)
                   p2 == SetPrev(p1, p1.next[other], p1.prev[list])
                   p3 == SetNext(p2, p2.prev[list], p2.next[other])
                   p4 == SetPrev(p3, list, p3.prev[other])
               IN  Store(p4)
            /\ inUse' = inUse \ {other}

\* The other list's head keeps its pointers and is no list any more; an
\* empty one stays as it is.
list_join(list, other) ==
    /\ {list, other} \subseteq inUse /\ list # other
    /\ IF list_is_empty(other)
       THEN UNCHANGED vars
       ELSE /\ LET p1 == SetPrev(Ptrs, next[other], list)
                   p2 == SetNext(p1, p1.prev[other], p1.next[list])
                   p3 == SetPrev(p2, p2.next[list], p2.prev[other])
                   p4 == SetNext(p3, list, p3.next[other])
               IN  Store(p4)
            /\ inUse' = inUse \ {other}

Next ==
    \/ \E list \in Heads : list_init(list)
    \/ \E list \in Nodes, elem \in Elems : list_insert(list, elem)
    \/ \E elem \in Elems : list_remove(elem)
    \/ \E list, other \in Heads : list_join(list, other)

Spec == Init /\ [][Next]_vars

-----------------------------------------------------------------------------
(* Properties                                                              *)

\* Pointers are NULL or nodes.
TypeOK ==
    /\ next \in [Nodes -> Nodes \cup {NULL}]
    /\ prev \in [Nodes -> Nodes \cup {NULL}]
    /\ inUse \subseteq Nodes

\* Whatever sequence of operations has run, the nodes in use form closed
\* rings: both pointers of each stay among them, and going forward and back
\* leads to where one started (list_insert, list_remove and list_join change
\* up to four pointers each, of nodes that may be the same one).
RingsAreClosed ==
    \A n \in inUse :
        /\ next[n] \in inUse /\ prev[n] \in inUse
        /\ prev[next[n]] = n /\ next[prev[n]] = n

\* The elements of a list: what list_length and list_for_each go over.
Contents(list) == [i \in 1..list_length(list) |-> Reached(list)[i]]

R == INSTANCE Rings
        WITH lists <- [h \in inUse \cap Heads |-> Contents(h)]

\* The pointer operations implement operations on sequences.
ImplementsRings == R!Spec
=============================================================================
