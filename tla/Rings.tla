------------------------------- MODULE Rings -------------------------------
(***************************************************************************)
(* What the list operations of structs/list.c promise: each list is a      *)
(* sequence of elements, an element is in at most one list, and an         *)
(* operation changes one place of one list (or, joining, moves a whole     *)
(* list to the front of another, whose head is then no list any more).     *)
(***************************************************************************)
EXTENDS Naturals, Sequences, SequencesExt

CONSTANTS Heads, Elems

VARIABLE lists      \* head |-> its elements in order, for the heads in use

Held == UNION {ToSet(lists[h]) : h \in DOMAIN lists}

Init == lists = [h \in {} |-> <<>>]

New(h) ==
    /\ h \notin DOMAIN lists
    /\ lists' = [g \in DOMAIN lists \cup {h} |-> IF g = h THEN <<>> ELSE lists[g]]

\* Insertion in front of position i; the end is the position after the last.
Put(h, i, e) ==
    /\ e \notin Held
    /\ lists' = [lists EXCEPT ![h] = InsertAt(@, i, e)]

Drop(h, i) == lists' = [lists EXCEPT ![h] = RemoveAt(@, i)]

Join(h, g) ==
    /\ h # g
    /\ lists' = [k \in DOMAIN lists \ {g} |->
                    IF k = h THEN lists[g] \o lists[h] ELSE lists[k]]

Next ==
    \/ \E h \in Heads : New(h)
    \/ \E h \in DOMAIN lists :
          \/ \E i \in 1..(Len(lists[h]) + 1), e \in Elems : Put(h, i, e)
          \/ \E i \in 1..Len(lists[h]) : Drop(h, i)
          \/ \E g \in DOMAIN lists : Join(h, g)

Spec == Init /\ [][Next]_lists
=============================================================================
