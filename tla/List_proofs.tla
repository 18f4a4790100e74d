---------------------------- MODULE List_proofs ----------------------------
(***************************************************************************)
(* The pointers of list.c, for every set of heads and elements.            *)
(***************************************************************************)
EXTENDS List, FiniteSetTheorems, FunctionTheorems, SequenceTheorems, NaturalsInduction,
        WellFoundedInduction, TLAPS

\* The invariant is inductive as the two properties stand together.
Inv == TypeOK /\ RingsAreClosed

\* A fresh head is a ring by itself (list_init).
LEMMA InitStep ==
    ASSUME Inv, NEW list \in Heads, list_init(list)
    PROVE  Inv'
<1> USE NodesAssumption DEF Nodes
<1>1. TypeOK'
  BY DEF Inv, TypeOK, list_init, Store, SetNext, SetPrev, Ptrs
<1>2. RingsAreClosed'
  BY DEF Inv, TypeOK, RingsAreClosed, list_init, Store, SetNext, SetPrev, Ptrs
<1> QED BY <1>1, <1>2 DEF Inv

\* An insertion opens a ring behind one node and closes it again around the
\* new one (list_insert).
LEMMA InsertPtrs ==
    ASSUME Inv, NEW list \in Nodes, NEW elem \in Elems, list_insert(list, elem)
    PROVE  /\ list \in inUse /\ elem \notin inUse /\ elem \in Nodes
           /\ inUse' = inUse \cup {elem}
           /\ next[list] \in inUse /\ next[list] \in Nodes
           /\ next' = [[next EXCEPT ![elem] = next[list]] EXCEPT ![list] = elem]
           /\ prev' = [[prev EXCEPT ![elem] = list] EXCEPT ![next[list]] = elem]
<1> USE NodesAssumption
<1>1. /\ list \in inUse /\ elem \notin inUse /\ elem \in Nodes
      /\ inUse' = inUse \cup {elem}
      /\ next[list] \in inUse /\ next[list] \in Nodes
  BY DEF Inv, TypeOK, RingsAreClosed, list_insert, Nodes
<1>2. next' = [[next EXCEPT ![elem] = next[list]] EXCEPT ![list] = elem]
  BY <1>1 DEF list_insert, Store, SetNext, SetPrev, Ptrs
<1>3. prev' = [[prev EXCEPT ![elem] = list] EXCEPT ![next[list]] = elem]
  BY <1>1 DEF Inv, TypeOK, list_insert, Store, SetNext, SetPrev, Ptrs
<1> QED BY <1>1, <1>2, <1>3

LEMMA InsertStep ==
    ASSUME Inv, NEW list \in Nodes, NEW elem \in Elems, list_insert(list, elem)
    PROVE  Inv'
<1>1. /\ list \in inUse /\ elem \notin inUse /\ elem \in Nodes
      /\ inUse' = inUse \cup {elem}
      /\ next[list] \in inUse /\ next[list] \in Nodes
      /\ next' = [[next EXCEPT ![elem] = next[list]] EXCEPT ![list] = elem]
      /\ prev' = [[prev EXCEPT ![elem] = list] EXCEPT ![next[list]] = elem]
  BY InsertPtrs
<1>2. TypeOK'
  BY <1>1 DEF Inv, TypeOK
<1>3. RingsAreClosed'
  BY <1>1 DEF Inv, TypeOK, RingsAreClosed
<1> QED BY <1>2, <1>3 DEF Inv

\* A removal links the neighbours of a node with each other (list_remove).
LEMMA RemovePtrs ==
    ASSUME Inv, NEW elem \in Elems, list_remove(elem)
    PROVE  /\ elem \in inUse /\ elem \in Nodes /\ inUse' = inUse \ {elem}
           /\ next[elem] \in inUse /\ prev[elem] \in inUse
           /\ next[elem] \in Nodes /\ prev[elem] \in Nodes
           /\ next' = [[next EXCEPT ![prev[elem]] = next[elem]] EXCEPT ![elem] = NULL]
           /\ prev' = [[prev EXCEPT ![next[elem]] = prev[elem]] EXCEPT ![elem] = NULL]
<1> USE NodesAssumption
<1>1. /\ elem \in inUse /\ elem \in Nodes /\ inUse' = inUse \ {elem}
      /\ next[elem] \in inUse /\ prev[elem] \in inUse
      /\ next[elem] \in Nodes /\ prev[elem] \in Nodes
  BY DEF Inv, TypeOK, RingsAreClosed, list_remove, Nodes
<1>2. next' = [[next EXCEPT ![prev[elem]] = next[elem]] EXCEPT ![elem] = NULL]
  BY <1>1 DEF list_remove, Store, SetNext, SetPrev, Ptrs
<1>3. prev' = [[prev EXCEPT ![next[elem]] = prev[elem]] EXCEPT ![elem] = NULL]
  <2>1. [next EXCEPT ![prev[elem]] = next[elem]][elem] = next[elem]
    BY <1>1 DEF Inv, TypeOK
  <2> QED BY <1>1, <2>1 DEF list_remove, Store, SetNext, SetPrev, Ptrs
<1> QED BY <1>1, <1>2, <1>3

LEMMA RemoveStep ==
    ASSUME Inv, NEW elem \in Elems, list_remove(elem)
    PROVE  Inv'
<1> USE NodesAssumption
<1>1. /\ elem \in inUse /\ elem \in Nodes /\ inUse' = inUse \ {elem}
      /\ next[elem] \in inUse /\ prev[elem] \in inUse
      /\ next[elem] \in Nodes /\ prev[elem] \in Nodes
      /\ next' = [[next EXCEPT ![prev[elem]] = next[elem]] EXCEPT ![elem] = NULL]
      /\ prev' = [[prev EXCEPT ![next[elem]] = prev[elem]] EXCEPT ![elem] = NULL]
  BY RemovePtrs
<1>2. TypeOK'
  BY <1>1 DEF Inv, TypeOK
<1>3. RingsAreClosed'
  BY <1>1 DEF Inv, TypeOK, RingsAreClosed
<1> QED BY <1>2, <1>3 DEF Inv

\* Joining cuts the other ring open at its head and the list open behind its
\* own, and links the ends crosswise (list_join).
LEMMA JoinPtrs ==
    ASSUME Inv, NEW list \in Heads, NEW other \in Heads, list_join(list, other),
           ~list_is_empty(other)
    PROVE  LET first == next[other]
               last == prev[other]
           IN  /\ list \in inUse /\ other \in inUse /\ list # other
               /\ list \in Nodes /\ other \in Nodes
               /\ inUse' = inUse \ {other}
               /\ first \in inUse /\ last \in inUse /\ next[list] \in inUse
               /\ first \in Nodes /\ last \in Nodes /\ next[list] \in Nodes
               /\ first # other /\ last # other
               /\ next' = [[next EXCEPT ![last] = next[list]] EXCEPT ![list] = first]
               /\ prev' = [[prev EXCEPT ![first] = list] EXCEPT ![next[list]] = last]
<1> USE NodesAssumption
<1> DEFINE first == next[other]
           last == prev[other]
<1>1. /\ list \in inUse /\ other \in inUse /\ list # other
      /\ list \in Nodes /\ other \in Nodes
      /\ inUse' = inUse \ {other}
      /\ first \in inUse /\ last \in inUse /\ next[list] \in inUse
      /\ first \in Nodes /\ last \in Nodes /\ next[list] \in Nodes
      /\ first # other /\ last # other
  BY DEF Inv, TypeOK, RingsAreClosed, list_join, list_is_empty, Nodes
<1> DEFINE p1 == SetPrev(Ptrs, first, list)
           p2 == SetNext(p1, p1.prev[other], p1.next[list])
           p3 == SetPrev(p2, p2.next[list], p2.prev[other])
           p4 == SetNext(p3, list, p3.next[other])
<1>2. p1.next = next /\ p1.prev = [prev EXCEPT ![first] = list]
  BY DEF SetPrev, Ptrs
<1> HIDE DEF p1
<1>3. p1.prev[other] = last /\ p1.next[list] = next[list]
  BY <1>1, <1>2 DEF Inv, TypeOK
<1>4. /\ p2.next = [next EXCEPT ![last] = next[list]]
      /\ p2.prev = [prev EXCEPT ![first] = list]
  BY <1>2, <1>3 DEF SetNext
<1> HIDE DEF p2
<1>5. p2.next[list] = next[list] /\ p2.prev[other] = last
  BY <1>1, <1>4 DEF Inv, TypeOK, RingsAreClosed
<1>6. /\ p3.next = [next EXCEPT ![last] = next[list]]
      /\ p3.prev = [[prev EXCEPT ![first] = list] EXCEPT ![next[list]] = last]
  BY <1>4, <1>5 DEF SetPrev
<1>7. p3.next[other] = first
  BY <1>1, <1>6 DEF Inv, TypeOK
<1>8. /\ p4.next = [[next EXCEPT ![last] = next[list]] EXCEPT ![list] = first]
      /\ p4.prev = [[prev EXCEPT ![first] = list] EXCEPT ![next[list]] = last]
  BY <1>6, <1>7 DEF SetNext
<1>9. next' = p4.next /\ prev' = p4.prev
  BY DEF list_join, Store, p1, p2
<1> HIDE DEF p3, p4
<1> QED BY <1>1, <1>8, <1>9

LEMMA JoinStep ==
    ASSUME Inv, NEW list \in Heads, NEW other \in Heads, list_join(list, other)
    PROVE  Inv'
<1> USE NodesAssumption
<1>1. CASE list_is_empty(other)
  BY <1>1 DEF list_join, Inv, TypeOK, RingsAreClosed, vars
<1>2. CASE ~list_is_empty(other)
  <2> DEFINE first == next[other]
             last == prev[other]
  <2>1. /\ list \in inUse /\ other \in inUse /\ list # other
        /\ list \in Nodes /\ other \in Nodes
        /\ inUse' = inUse \ {other}
        /\ first \in inUse /\ last \in inUse /\ next[list] \in inUse
        /\ first \in Nodes /\ last \in Nodes /\ next[list] \in Nodes
        /\ first # other /\ last # other
        /\ next' = [[next EXCEPT ![last] = next[list]] EXCEPT ![list] = first]
        /\ prev' = [[prev EXCEPT ![first] = list] EXCEPT ![next[list]] = last]
    BY <1>2, JoinPtrs
  <2>2. TypeOK'
    BY <2>1 DEF Inv, TypeOK
  <2>3. RingsAreClosed'
    <3>0. inUse' = inUse \ {other}
      BY <2>1
    <3> HIDE DEF first, last
    <3> SUFFICES ASSUME NEW n \in inUse, n # other
                 PROVE  /\ next'[n] \in inUse \ {other}
                        /\ prev'[n] \in inUse \ {other}
                        /\ prev'[next'[n]] = n
                        /\ next'[prev'[n]] = n
      BY <3>0 DEF RingsAreClosed
    <3> USE DEF first, last
    <3>1. n \in Nodes /\ next[n] \in inUse /\ prev[n] \in inUse
          /\ next[n] \in Nodes /\ prev[n] \in Nodes
          /\ prev[next[n]] = n /\ next[prev[n]] = n
          /\ next[last] = other /\ prev[first] = other
          /\ prev[next[list]] = list
      BY <2>1 DEF Inv, TypeOK, RingsAreClosed
    <3>2. /\ next'[n] \in inUse \ {other}
          /\ prev'[n] \in inUse \ {other}
      BY <2>1, <3>1 DEF Inv, TypeOK
    <3>3. prev'[next'[n]] = n
      BY <2>1, <3>1 DEF Inv, TypeOK, RingsAreClosed
    <3>4. next'[prev'[n]] = n
      BY <2>1, <3>1 DEF Inv, TypeOK, RingsAreClosed
    <3> QED BY <3>2, <3>3, <3>4
  <2> QED BY <2>2, <2>3 DEF Inv
<1> QED BY <1>1, <1>2

LEMMA Inductive ==
    ASSUME Inv, [Next]_vars
    PROVE  Inv'
<1>1. CASE UNCHANGED vars
  BY <1>1 DEF Inv, TypeOK, RingsAreClosed, vars
<1>2. CASE Next
  BY <1>2, InitStep, InsertStep, RemoveStep, JoinStep DEF Next
<1> QED BY <1>1, <1>2

\* The invariant holds before the first list_init and after every operation.
THEOREM Invariance == Spec => []Inv
<1>1. Init => Inv
  BY DEF Init, Inv, TypeOK, RingsAreClosed
<1>2. Inv /\ [Next]_vars => Inv'
  BY Inductive
<1> QED BY <1>1, <1>2, PTL DEF Spec

\* However many heads and elements there are and whatever sequence of
\* list_init, list_insert, list_remove and list_join has run, the nodes in
\* use form closed rings whose two directions agree.
THEOREM RingsClosed == Spec => []RingsAreClosed
BY Invariance, PTL DEF Inv

-----------------------------------------------------------------------------
\* What the rings stand for.

\* The nodes of a ring, the head before the first and behind the last.
At(ls, h, i) == IF i \in 1..Len(ls[h]) THEN ls[h][i] ELSE h

\* Every element in use is in one list, at one place, and following next
\* goes through the lists in their order.
Layout(ls) ==
    /\ ls \in [inUse \cap Heads -> Seq(Elems)]
    /\ \A h \in inUse \cap Heads :
          /\ \A i \in 1..Len(ls[h]) : ls[h][i] \in inUse
          /\ \A i \in 0..Len(ls[h]) : next[At(ls, h, i)] = At(ls, h, i + 1)
    /\ \A h, g \in inUse \cap Heads :
          \A i \in 1..Len(ls[h]), j \in 1..Len(ls[g]) :
              ls[h][i] = ls[g][j] => h = g /\ i = j
    /\ \A e \in inUse \cap Elems :
          \E h \in inUse \cap Heads : \E i \in 1..Len(ls[h]) : ls[h][i] = e

\* A set of numbers has a least element.
LEMMA HasLeast ==
    ASSUME NEW S \in SUBSET Nat, S # {}
    PROVE  \E x \in S : \A y \in S : x <= y
<1>1. PICK R0 : IsWellFoundedOn(R0, Nat) /\ \A x, y \in Nat : x < y => <<x, y>> \in R0
  <2> DEFINE R0 == OpToRel(<, Nat)
  <2>1. \A x, y \in Nat : x < y => <<x, y>> \in R0
    BY DEF OpToRel
  <2>2. IsWellFoundedOn(R0, Nat)
    BY NatLessThanWellFounded DEF R0
  <2> QED BY <2>1, <2>2, Zenon
<1>a. IsWellFoundedOn(R0, Nat)
  BY <1>1
<1>2. PICK x \in S : \A y \in S : ~(<<y, x>> \in R0)
  BY <1>a, WFMin, Zenon
<1>3. ASSUME NEW y \in S PROVE x <= y
  <2>1. ~(y < x)
    BY <1>1, <1>2, Zenon
  <2> QED BY <2>1
<1> QED BY <1>3

\* A walk along next is well defined.
LEMMA WalkRule ==
    ASSUME NEW list
    PROVE  /\ Cardinality(Nodes) \in Nat
           /\ Reached(list)[0] = list
           /\ \A k \in 1..Cardinality(Nodes) :
                 Reached(list)[k] = IF Reached(list)[k - 1] = NULL THEN NULL
                                    ELSE next[Reached(list)[k - 1]]
<1> DEFINE N == Cardinality(Nodes)
           Rec(g, m) == g = [k \in 0..m |-> IF k = 0 THEN list
                                            ELSE IF g[k - 1] = NULL THEN NULL
                                            ELSE next[g[k - 1]]]
           S == {m \in Nat : ~ \E g : Rec(g, m)}
<1>0. N \in Nat
  BY NodesAssumption, FS_CardinalityType DEF Nodes
<1>1. S = {}
  <2> SUFFICES ASSUME S # {} PROVE FALSE
    OBVIOUS
  <2>1. PICK m \in S : \A y \in S : m <= y
    <3> HIDE DEF S
    <3>1. S \in SUBSET Nat
      BY DEF S
    <3> QED BY <3>1, HasLeast
  <2>2. m \in Nat /\ ~ \E g : Rec(g, m)
    BY <2>1
  <2>3. CASE m = 0
    <3> DEFINE g == [k \in 0..0 |-> list]
    <3>1. Rec(g, 0)
      OBVIOUS
    <3> QED BY <2>2, <2>3, <3>1
  <2>4. CASE m # 0
    <3>1. m - 1 \in Nat /\ ~(m <= m - 1)
      BY <2>2, <2>4
    <3>2. PICK g : Rec(g, m - 1)
      BY <2>1, <3>1
    <3> DEFINE last == IF g[m - 1] = NULL THEN NULL ELSE next[g[m - 1]]
               h == [k \in 0..m |-> IF k = m THEN last ELSE g[k]]
    <3>3. \A k \in 0..m : h[k] = IF k = 0 THEN list
                                 ELSE IF h[k - 1] = NULL THEN NULL ELSE next[h[k - 1]]
      <4> TAKE k \in 0..m
      <4>1. CASE k = m
        <5>1. h[k] = last /\ h[m - 1] = g[m - 1]
          BY <2>2, <3>1, <4>1
        <5> QED BY <2>4, <4>1, <5>1
      <4>2. CASE k # m
        <5>1. k \in 0..(m - 1) /\ h[k] = g[k]
          BY <2>2, <4>2
        <5>2. g[k] = IF k = 0 THEN list
                     ELSE IF g[k - 1] = NULL THEN NULL ELSE next[g[k - 1]]
          <6> HIDE DEF h
          <6> QED BY <3>2, <5>1
        <5>3. k # 0 => h[k - 1] = g[k - 1]
          BY <2>2, <5>1
        <5> HIDE DEF h
        <5> QED BY <5>1, <5>2, <5>3
      <4> QED BY <4>1, <4>2
    <3>4. h = [k \in 0..m |-> h[k]]
      OBVIOUS
    <3> HIDE DEF h
    <3>5. Rec(h, m)
      BY <3>3, <3>4
    <3> QED BY <2>2, <3>5
  <2> QED BY <2>3, <2>4
<1>2. \E g : Rec(g, N)
  BY <1>0, <1>1
<1>3. Reached(list) = CHOOSE g : Rec(g, N)
  BY DEF Reached
<1> DEFINE r == Reached(list)
<1>4. Rec(r, N)
  <2> HIDE DEF Rec
  <2> QED BY <1>2, <1>3, Zenon
<1> HIDE DEF r
<1>5. \A k \in 0..N : r[k] = IF k = 0 THEN list
                             ELSE IF r[k - 1] = NULL THEN NULL ELSE next[r[k - 1]]
  BY <1>4
<1> HIDE DEF N
<1>6. /\ r[0] = list
      /\ \A k \in 1..N : r[k] = IF r[k - 1] = NULL THEN NULL ELSE next[r[k - 1]]
  BY <1>0, <1>5
<1> QED BY <1>0, <1>6 DEF r, N

\* A list has fewer elements than there are nodes.
LEMMA Fits ==
    ASSUME NEW ls, Layout(ls), NEW h \in inUse \cap Heads
    PROVE  Len(ls[h]) \in Nat /\ Len(ls[h]) + 1 <= Cardinality(Nodes)
<1> DEFINE n == Len(ls[h])
           S == 1..(n + 1)
           f == [i \in S |-> At(ls, h, i)]
<1>1. n \in Nat /\ ls[h] \in Seq(Elems) /\ \A i \in 1..n : ls[h][i] \in Elems
  BY DEF Layout
<1>2. \A i, j \in 1..n : ls[h][i] = ls[h][j] => i = j
  BY DEF Layout
<1> HIDE DEF n
<1>3. /\ \A i \in 1..n : At(ls, h, i) = ls[h][i]
      /\ At(ls, h, n + 1) = h
      /\ \A i \in S : i \in 1..n \/ i = n + 1
  BY <1>1 DEF At, n
<1>4. f \in [S -> Nodes] /\ \A i, j \in S : f[i] = f[j] => i = j
  <2>1. \A i \in 1..n : ls[h][i] # h
    BY <1>1, NodesAssumption
  <2>2. \A i \in S : At(ls, h, i) \in Nodes
    BY <1>1, <1>3 DEF Nodes
  <2>3. \A i, j \in S : At(ls, h, i) = At(ls, h, j) => i = j
    BY <1>2, <1>3, <2>1
  <2> QED BY <2>2, <2>3
<1>5. IsFiniteSet(Nodes)
  BY NodesAssumption DEF Nodes
<1> HIDE DEF f
<1>6. f \in Injection(S, Nodes)
  <2> HIDE DEF S
  <2> QED BY <1>4 DEF Injection, IsInjective
<1>7. Cardinality(S) <= Cardinality(Nodes)
  <2> HIDE DEF S
  <2> QED BY <1>5, <1>6, FS_Injection
<1>8. Cardinality(S) = n + 1
  <2>1. 1 \in Int /\ n + 1 \in Int /\ ~(1 > n + 1) /\ (n + 1) - 1 + 1 = n + 1
    BY <1>1
  <2> QED BY <2>1, FS_Interval
<1> QED BY <1>1, <1>7, <1>8 DEF n

\* So list_length and a walk with list_for_each find the list.
LEMMA ContentsFound ==
    ASSUME NEW ls, Layout(ls), NEW h \in inUse \cap Heads
    PROVE  Contents(h) = ls[h]
<1> DEFINE n == Len(ls[h])
           N == Cardinality(Nodes)
           r == Reached(h)
<1>1. n \in Nat /\ N \in Nat /\ n + 1 <= N
  BY Fits, WalkRule
<1>2. /\ ls[h] \in Seq(Elems) /\ \A i \in 1..n : ls[h][i] \in Elems
      /\ \A i \in 0..n : next[At(ls, h, i)] = At(ls, h, i + 1)
  BY DEF Layout
<1>3. r[0] = h /\ \A k \in 1..N : r[k] = IF r[k - 1] = NULL THEN NULL ELSE next[r[k - 1]]
  BY WalkRule
<1>d. ls[h] = [i \in 1..n |-> ls[h][i]]
  BY <1>2
<1> HIDE DEF n, N, r
<1>4. /\ \A i \in 1..n : At(ls, h, i) = ls[h][i]
      /\ At(ls, h, n + 1) = h /\ At(ls, h, 0) = h
  BY <1>1 DEF At, n
<1>5. \A k \in 0..(n + 1) : At(ls, h, k) # NULL
  <2>1. \A k \in 0..(n + 1) : k = 0 \/ k \in 1..n \/ k = n + 1
    BY <1>1
  <2> QED BY <1>2, <1>4, <2>1, NodesAssumption
<1>6. \A k \in 0..(n + 1) : r[k] = At(ls, h, k)
  <2> DEFINE U == {k \in 0..(n + 1) : r[k] # At(ls, h, k)}
  <2> SUFFICES ASSUME U # {} PROVE FALSE
    OBVIOUS
  <2>1. U \in SUBSET Nat
    BY <1>1
  <2>2. PICK k \in U : \A y \in U : k <= y
    <3> HIDE DEF U
    <3> QED BY <2>1, HasLeast
  <2>3. k \in 0..(n + 1) /\ r[k] # At(ls, h, k)
    BY <2>2
  <2>4. k # 0
    BY <1>3, <1>4, <2>3
  <2> DEFINE j == k - 1
  <2>5. j \in 0..n /\ j \in 0..(n + 1) /\ ~(k <= j) /\ k = j + 1 /\ k \in 1..N
    BY <1>1, <2>3, <2>4
  <2>6. r[k] = IF r[j] = NULL THEN NULL ELSE next[r[j]]
    BY <1>3, <2>5
  <2> HIDE DEF j
  <2>7. r[j] = At(ls, h, j)
    BY <2>2, <2>5
  <2>8. next[At(ls, h, j)] = At(ls, h, k)
    BY <1>2, <2>5
  <2> QED BY <1>5, <2>3, <2>5, <2>6, <2>7, <2>8
<1>7. \A i \in 1..n : r[i] = ls[h][i] /\ r[i] # h
  <2>1. \A i \in 1..n : i \in 0..(n + 1)
    BY <1>1
  <2> QED BY <1>2, <1>4, <1>6, <2>1, NodesAssumption
<1>8. r[n + 1] = h
  <2>1. n + 1 \in 0..(n + 1)
    BY <1>1
  <2> QED BY <1>4, <1>6, <2>1
<1> DEFINE B == Returns(h)
           m == CHOOSE k \in B : \A j \in B : k <= j
<1>9. B = {k \in 1..N : r[k] = h}
  BY DEF Returns, N, r
<1>10. n + 1 \in B /\ \A j \in B : n + 1 <= j
  <2>1. n + 1 \in 1..N
    BY <1>1
  <2>2. \A j \in 1..N : j \in 1..n \/ n + 1 <= j
    BY <1>1
  <2> QED BY <1>7, <1>8, <1>9, <2>1, <2>2
<1>11. B \in SUBSET Nat
  BY <1>1, <1>9
<1> HIDE DEF B
<1>12. m \in B /\ \A j \in B : m <= j
  BY <1>10
<1> HIDE DEF m
<1>13. m = n + 1
  BY <1>1, <1>10, <1>11, <1>12
<1>14. list_length(h) = n
  <2>1. list_length(h) = m - 1
    BY DEF list_length, m, B
  <2> QED BY <1>1, <1>13, <2>1
<1>15. Contents(h) = [i \in 1..n |-> r[i]]
  BY <1>14 DEF Contents, r
<1> QED BY <1>7, <1>15, <1>d

-----------------------------------------------------------------------------
\* The operations on sequences.

LEMMA Inserted ==
    ASSUME NEW s \in Seq(Elems), NEW i \in 1..(Len(s) + 1), NEW e \in Elems
    PROVE  /\ R!InsertAt(s, i, e) \in Seq(Elems)
           /\ Len(R!InsertAt(s, i, e)) = Len(s) + 1
           /\ \A j \in 1..(Len(s) + 1) :
                 R!InsertAt(s, i, e)[j] = IF j < i THEN s[j] ELSE IF j = i THEN e ELSE s[j - 1]
<1> DEFINE n == Len(s)
           a == SubSeq(s, 1, i - 1)
           b == <<e>>
           c == SubSeq(s, i, n)
<1>1. n \in Nat /\ i \in 1..(n + 1) /\ \A j \in 1..n : s[j] \in Elems
  OBVIOUS
<1> HIDE DEF n
<1>2. /\ a \in Seq(Elems) /\ Len(a) = i - 1 /\ \A j \in 1..(i - 1) : a[j] = s[j]
  <2>1. 1 \in Int /\ i - 1 \in Int /\ \A j \in 1..(i - 1) : s[j] \in Elems
    BY <1>1
  <2>2. /\ a \in Seq(Elems) /\ Len(a) = (IF 1 <= i - 1 THEN (i - 1) - 1 + 1 ELSE 0)
        /\ \A j \in 1..((i - 1) - 1 + 1) : a[j] = s[1 + j - 1]
    BY <2>1, SubSeqProperties
  <2> HIDE DEF a
  <2>3. /\ Len(a) = i - 1 /\ (i - 1) - 1 + 1 = i - 1
        /\ \A j \in 1..(i - 1) : 1 + j - 1 = j
    BY <1>1, <2>2
  <2> QED BY <2>2, <2>3
<1>3. /\ c \in Seq(Elems) /\ Len(c) = n - i + 1
      /\ \A j \in 1..(n - i + 1) : c[j] = s[i + j - 1]
  <2>1. i \in Int /\ n \in Int /\ \A j \in i..n : s[j] \in Elems
    BY <1>1
  <2>2. /\ c \in Seq(Elems) /\ Len(c) = (IF i <= n THEN n - i + 1 ELSE 0)
        /\ \A j \in 1..(n - i + 1) : c[j] = s[i + j - 1]
    BY <2>1, SubSeqProperties
  <2> HIDE DEF c
  <2> QED BY <1>1, <2>2
<1>4. b \in Seq(Elems) /\ Len(b) = 1 /\ b[1] = e
  OBVIOUS
<1> HIDE DEF a, b, c
<1>5. /\ a \o b \in Seq(Elems) /\ Len(a \o b) = i
      /\ \A j \in 1..i : (a \o b)[j] = IF j < i THEN s[j] ELSE e
  <2>1. /\ a \o b \in Seq(Elems) /\ Len(a \o b) = Len(a) + Len(b)
        /\ \A j \in 1..(Len(a) + Len(b)) :
              (a \o b)[j] = IF j <= Len(a) THEN a[j] ELSE b[j - Len(a)]
    BY <1>2, <1>4, ConcatProperties
  <2>2. Len(a) + Len(b) = i
    BY <1>1, <1>2, <1>4
  <2>3. \A j \in 1..i : IF j < i THEN j \in 1..(i - 1) /\ j <= i - 1
                        ELSE ~(j <= i - 1) /\ j - (i - 1) = 1
    BY <1>1
  <2> QED BY <1>2, <1>4, <2>1, <2>2, <2>3
<1> DEFINE ab == a \o b
<1> HIDE DEF ab
<1>6. /\ ab \o c \in Seq(Elems) /\ Len(ab \o c) = n + 1
      /\ \A j \in 1..(n + 1) : (ab \o c)[j] = IF j <= i THEN ab[j] ELSE c[j - i]
  <2>1. ab \in Seq(Elems) /\ Len(ab) = i
    BY <1>5 DEF ab
  <2>2. /\ ab \o c \in Seq(Elems) /\ Len(ab \o c) = Len(ab) + Len(c)
        /\ \A j \in 1..(Len(ab) + Len(c)) :
              (ab \o c)[j] = IF j <= Len(ab) THEN ab[j] ELSE c[j - Len(ab)]
    BY <1>3, <2>1, ConcatProperties
  <2>3. Len(ab) + Len(c) = n + 1
    BY <1>1, <1>3, <2>1
  <2> QED BY <2>1, <2>2, <2>3
<1>7. R!InsertAt(s, i, e) = ab \o c
  BY DEF R!InsertAt, ab, a, b, c, n
<1>8. \A j \in 1..(n + 1) :
        (ab \o c)[j] = IF j < i THEN s[j] ELSE IF j = i THEN e ELSE s[j - 1]
  <2> TAKE j \in 1..(n + 1)
  <2>1. CASE j <= i
    <3>1. j \in 1..i
      BY <1>1, <2>1
    <3>2. (ab \o c)[j] = IF j < i THEN s[j] ELSE e
      BY <1>5, <1>6, <2>1, <3>1 DEF ab
    <3>3. ~(j < i) => j = i
      BY <1>1, <2>1
    <3>4. j < i => j # i
      BY <1>1
    <3> QED BY <3>2, <3>3, <3>4
  <2>2. CASE ~(j <= i)
    <3>1. j - i \in 1..(n - i + 1) /\ i + (j - i) - 1 = j - 1 /\ ~(j < i) /\ j # i
      BY <1>1, <2>2
    <3> QED BY <1>3, <1>6, <2>2, <3>1
  <2> QED BY <2>1, <2>2
<1> QED BY <1>6, <1>7, <1>8 DEF n

LEMMA Removed ==
    ASSUME NEW s \in Seq(Elems), NEW i \in 1..Len(s)
    PROVE  /\ R!RemoveAt(s, i) \in Seq(Elems)
           /\ Len(R!RemoveAt(s, i)) = Len(s) - 1
           /\ \A j \in 1..(Len(s) - 1) :
                 R!RemoveAt(s, i)[j] = IF j < i THEN s[j] ELSE s[j + 1]
<1> DEFINE n == Len(s)
           a == SubSeq(s, 1, i - 1)
           c == SubSeq(s, i + 1, n)
<1>1. n \in Nat /\ i \in 1..n /\ \A j \in 1..n : s[j] \in Elems
  OBVIOUS
<1> HIDE DEF n
<1>2. /\ a \in Seq(Elems) /\ Len(a) = i - 1 /\ \A j \in 1..(i - 1) : a[j] = s[j]
  <2>1. 1 \in Int /\ i - 1 \in Int /\ \A j \in 1..(i - 1) : s[j] \in Elems
    BY <1>1
  <2>2. /\ a \in Seq(Elems) /\ Len(a) = (IF 1 <= i - 1 THEN (i - 1) - 1 + 1 ELSE 0)
        /\ \A j \in 1..((i - 1) - 1 + 1) : a[j] = s[1 + j - 1]
    BY <2>1, SubSeqProperties
  <2> HIDE DEF a
  <2>3. /\ Len(a) = i - 1 /\ (i - 1) - 1 + 1 = i - 1
        /\ \A j \in 1..(i - 1) : 1 + j - 1 = j
    BY <1>1, <2>2
  <2> QED BY <2>2, <2>3
<1>3. /\ c \in Seq(Elems) /\ Len(c) = n - i
      /\ \A j \in 1..(n - i) : c[j] = s[i + j]
  <2>1. i + 1 \in Int /\ n \in Int /\ \A j \in (i + 1)..n : s[j] \in Elems
    BY <1>1
  <2>2. /\ c \in Seq(Elems) /\ Len(c) = (IF i + 1 <= n THEN n - (i + 1) + 1 ELSE 0)
        /\ \A j \in 1..(n - (i + 1) + 1) : c[j] = s[(i + 1) + j - 1]
    BY <2>1, SubSeqProperties
  <2> HIDE DEF c
  <2>3. Len(c) = n - i /\ n - (i + 1) + 1 = n - i /\ \A j \in 1..(n - i) : (i + 1) + j - 1 = i + j
    BY <1>1, <2>2
  <2> QED BY <2>2, <2>3
<1> HIDE DEF a, c
<1>4. /\ a \o c \in Seq(Elems) /\ Len(a \o c) = n - 1
      /\ \A j \in 1..(n - 1) : (a \o c)[j] = IF j <= i - 1 THEN a[j] ELSE c[j - (i - 1)]
  <2>1. /\ a \o c \in Seq(Elems) /\ Len(a \o c) = Len(a) + Len(c)
        /\ \A j \in 1..(Len(a) + Len(c)) :
              (a \o c)[j] = IF j <= Len(a) THEN a[j] ELSE c[j - Len(a)]
    BY <1>2, <1>3, ConcatProperties
  <2>2. Len(a) + Len(c) = n - 1
    BY <1>1, <1>2, <1>3
  <2> QED BY <1>2, <2>1, <2>2
<1>5. R!RemoveAt(s, i) = a \o c
  BY DEF R!RemoveAt, a, c, n
<1>6. \A j \in 1..(n - 1) : (a \o c)[j] = IF j < i THEN s[j] ELSE s[j + 1]
  <2> TAKE j \in 1..(n - 1)
  <2>1. CASE j < i
    <3>1. j <= i - 1 /\ j \in 1..(i - 1)
      BY <1>1, <2>1
    <3> QED BY <1>2, <1>4, <2>1, <3>1
  <2>2. CASE ~(j < i)
    <3>1. ~(j <= i - 1) /\ j - (i - 1) \in 1..(n - i) /\ i + (j - (i - 1)) = j + 1
      BY <1>1, <2>2
    <3> QED BY <1>3, <1>4, <2>2, <3>1
  <2> QED BY <2>1, <2>2
<1> QED BY <1>4, <1>5, <1>6 DEF n

\* Where the nodes of a ring are, and that they are there once.
LEMMA Ring ==
    ASSUME NEW ls, Layout(ls), NEW h \in inUse \cap Heads
    PROVE  LET n == Len(ls[h])
           IN  /\ n \in Nat /\ ls[h] \in Seq(Elems)
               /\ At(ls, h, 0) = h /\ At(ls, h, n + 1) = h
               /\ \A i \in 1..n : At(ls, h, i) = ls[h][i] /\ ls[h][i] \in Elems
               /\ \A i \in 0..(n + 1) : At(ls, h, i) \in inUse
               /\ \A i \in 0..n : next[At(ls, h, i)] = At(ls, h, i + 1)
<1> DEFINE n == Len(ls[h])
<1>1. /\ ls[h] \in Seq(Elems) /\ \A i \in 1..n : ls[h][i] \in inUse
      /\ \A i \in 0..n : next[At(ls, h, i)] = At(ls, h, i + 1)
  BY DEF Layout
<1>2. n \in Nat /\ \A i \in 1..n : ls[h][i] \in Elems
  BY <1>1
<1> HIDE DEF n
<1>3. /\ At(ls, h, 0) = h /\ At(ls, h, n + 1) = h
      /\ \A i \in 1..n : At(ls, h, i) = ls[h][i]
  BY <1>2 DEF At, n
<1>4. \A i \in 0..(n + 1) : i = 0 \/ i = n + 1 \/ i \in 1..n
  BY <1>2
<1>5. \A i \in 0..(n + 1) : At(ls, h, i) \in inUse
  BY <1>1, <1>3, <1>4
<1> QED BY <1>1, <1>2, <1>3, <1>5 DEF n

LEMMA Once ==
    ASSUME NEW ls, Layout(ls), NEW h \in inUse \cap Heads, NEW g \in inUse \cap Heads,
           NEW i \in 0..Len(ls[h]), NEW j \in 0..Len(ls[g]), At(ls, h, i) = At(ls, g, j)
    PROVE  h = g /\ i = j
<1> DEFINE m == Len(ls[h])
           n == Len(ls[g])
<1>1. /\ m \in Nat /\ At(ls, h, 0) = h
      /\ \A k \in 1..m : At(ls, h, k) = ls[h][k] /\ ls[h][k] \in Elems
  BY Ring
<1>2. /\ n \in Nat /\ At(ls, g, 0) = g
      /\ \A k \in 1..n : At(ls, g, k) = ls[g][k] /\ ls[g][k] \in Elems
  BY Ring
<1>3. \A k \in 1..m, l \in 1..n : ls[h][k] = ls[g][l] => h = g /\ k = l
  BY DEF Layout
<1> HIDE DEF m, n
<1>4. (i = 0 \/ i \in 1..m) /\ (j = 0 \/ j \in 1..n)
  BY <1>1, <1>2 DEF m, n
<1> QED BY <1>1, <1>2, <1>3, <1>4, NodesAssumption

LEMMA Somewhere ==
    ASSUME NEW ls, Layout(ls), inUse \subseteq Nodes, NEW x \in inUse
    PROVE  \E h \in inUse \cap Heads : \E i \in 0..Len(ls[h]) : x = At(ls, h, i)
<1>1. CASE x \in Heads
  <2>1. x = At(ls, x, 0) /\ Len(ls[x]) \in Nat
    BY <1>1, Ring
  <2>2. 0 \in 0..Len(ls[x])
    BY <2>1
  <2> QED BY <1>1, <2>1, <2>2
<1>2. CASE x \in Elems
  <2>1. PICK h \in inUse \cap Heads : \E i \in 1..Len(ls[h]) : ls[h][i] = x
    BY <1>2 DEF Layout
  <2>2. PICK i \in 1..Len(ls[h]) : ls[h][i] = x
    BY <2>1
  <2>3. At(ls, h, i) = x /\ i \in 0..Len(ls[h])
    BY <2>2, Ring
  <2> QED BY <2>3
<1> QED BY <1>1, <1>2 DEF Nodes

-----------------------------------------------------------------------------
\* Every operation changes the lists as Rings says.

\* list_init adds an empty list.
LEMMA NewLayout ==
    ASSUME Inv, NEW ls, Layout(ls), NEW list \in Heads, list_init(list)
    PROVE  \E ls2 : /\ Layout(ls2)'
                    /\ list \notin DOMAIN ls
                    /\ ls2 = [g \in DOMAIN ls \cup {list} |->
                                 IF g = list THEN <<>> ELSE ls[g]]
<1> DEFINE H == inUse \cap Heads
<1>0. PICK ls2 : ls2 = [g \in H \cup {list} |-> IF g = list THEN <<>> ELSE ls[g]]
  OBVIOUS
<1>1. /\ list \notin inUse /\ inUse' = inUse \cup {list}
      /\ next' = [next EXCEPT ![list] = list]
      /\ inUse \subseteq Nodes /\ list \in Nodes
      /\ next \in [Nodes -> Nodes \cup {NULL}]
  BY DEF Inv, TypeOK, list_init, Store, SetNext, SetPrev, Ptrs, Nodes
<1>2. /\ inUse' \cap Heads = H \cup {list} /\ inUse' \cap Elems = inUse \cap Elems
      /\ next'[list] = list /\ \A x \in inUse : next'[x] = next[x]
  BY <1>1, NodesAssumption
<1>3. ls \in [H -> Seq(Elems)] /\ DOMAIN ls = H
  BY DEF Layout
<1>4. ls2[list] = <<>> /\ \A g \in H : ls2[g] = ls[g]
  BY <1>1, <1>0
<1>5. ls2 \in [H \cup {list} -> Seq(Elems)]
  BY <1>3, <1>0
<1>6. \A g \in H : \A i : At(ls2, g, i) = At(ls, g, i)
  BY <1>4 DEF At
<1>7. Len(ls2[list]) = 0 /\ \A i : At(ls2, list, i) = list
  BY <1>4 DEF At
<1>8. ASSUME NEW h \in H \cup {list}
      PROVE  /\ \A i \in 1..Len(ls2[h]) : ls2[h][i] \in inUse'
             /\ \A i \in 0..Len(ls2[h]) : next'[At(ls2, h, i)] = At(ls2, h, i + 1)
  <2>1. CASE h = list
    BY <1>2, <1>7, <2>1
  <2>2. CASE h # list
    <3>1. h \in H /\ ls2[h] = ls[h] /\ Len(ls[h]) \in Nat
      BY <1>3, <1>4, <2>2
    <3>2. /\ \A i \in 1..Len(ls[h]) : ls[h][i] \in inUse
          /\ \A i \in 0..Len(ls[h]) : next[At(ls, h, i)] = At(ls, h, i + 1)
      BY <3>1 DEF Layout
    <3>3. \A i \in 0..Len(ls[h]) : At(ls, h, i) \in inUse
      <4>1. \A i \in 0..Len(ls[h]) : i \in 0..(Len(ls[h]) + 1)
        BY <3>1
      <4> QED BY <3>1, <4>1, Ring
    <3> QED BY <1>1, <1>2, <1>6, <3>1, <3>2, <3>3
  <2> QED BY <2>1, <2>2
<1>9. \A h, g \in H \cup {list} :
         \A i \in 1..Len(ls2[h]), j \in 1..Len(ls2[g]) :
             ls2[h][i] = ls2[g][j] => h = g /\ i = j
  <2> SUFFICES ASSUME NEW h \in H \cup {list}, NEW g \in H \cup {list},
                      NEW i \in 1..Len(ls2[h]), NEW j \in 1..Len(ls2[g]),
                      ls2[h][i] = ls2[g][j]
               PROVE  h = g /\ i = j
    OBVIOUS
  <2>1. h # list /\ g # list
    BY <1>7
  <2>2. h \in H /\ g \in H /\ ls2[h] = ls[h] /\ ls2[g] = ls[g]
    BY <1>4, <2>1
  <2> QED BY <2>2 DEF Layout
<1>10. \A e \in inUse \cap Elems : \E h \in H \cup {list} : \E i \in 1..Len(ls2[h]) : ls2[h][i] = e
  <2> TAKE e \in inUse \cap Elems
  <2>1. PICK h \in H : \E i \in 1..Len(ls[h]) : ls[h][i] = e
    BY DEF Layout
  <2> QED BY <1>4, <2>1
<1>11. Layout(ls2)'
  <2> HIDE DEF H
  <2> QED BY <1>2, <1>5, <1>8, <1>9, <1>10 DEF Layout
<1> QED BY <1>1, <1>3, <1>11, <1>0

\* list_insert(x, elem) puts elem behind x, the next list_insert in front of
\* it; called with the head of a list, it is the first.
LEMMA PutLayout ==
    ASSUME Inv, NEW ls, Layout(ls), NEW list \in Nodes, NEW elem \in Elems,
           list_insert(list, elem)
    PROVE  \E ls2 : /\ Layout(ls2)'
                    /\ \A g \in DOMAIN ls : \A i \in 1..Len(ls[g]) : ls[g][i] # elem
                    /\ \E h \in DOMAIN ls : \E i \in 1..(Len(ls[h]) + 1) :
                          ls2 = [ls EXCEPT ![h] = R!InsertAt(@, i, elem)]
<1> DEFINE H == inUse \cap Heads
<1>1. /\ list \in inUse /\ elem \notin inUse /\ elem \in Nodes
      /\ inUse' = inUse \cup {elem}
      /\ next[list] \in inUse /\ next[list] \in Nodes
      /\ next' = [[next EXCEPT ![elem] = next[list]] EXCEPT ![list] = elem]
  BY InsertPtrs
<1>2. inUse \subseteq Nodes /\ next \in [Nodes -> Nodes \cup {NULL}]
  BY DEF Inv, TypeOK
<1>3. /\ inUse' \cap Heads = H /\ inUse' \cap Elems = (inUse \cap Elems) \cup {elem}
      /\ next'[list] = elem /\ next'[elem] = next[list]
      /\ \A x \in inUse : x # list => next'[x] = next[x]
  BY <1>1, <1>2, NodesAssumption
<1>4. ls \in [H -> Seq(Elems)] /\ DOMAIN ls = H
  BY DEF Layout
<1>5. PICK h \in H : \E p \in 0..Len(ls[h]) : list = At(ls, h, p)
  BY <1>1, <1>2, Somewhere
<1>6. PICK p \in 0..Len(ls[h]) : list = At(ls, h, p)
  BY <1>5
<1> DEFINE s == ls[h]
           n == Len(s)
           t == R!InsertAt(s, p + 1, elem)
           ls2 == [ls EXCEPT ![h] = t]
           A(q) == At(ls, h, q)
           B(q) == At(ls2, h, q)
<1>7. /\ n \in Nat /\ s \in Seq(Elems) /\ p \in 0..n /\ p + 1 \in 1..(n + 1)
      /\ A(0) = h /\ A(n + 1) = h
      /\ \A i \in 1..n : A(i) = s[i] /\ s[i] \in Elems
      /\ \A i \in 0..(n + 1) : A(i) \in inUse
      /\ \A i \in 0..n : next[A(i)] = A(i + 1)
  BY <1>6, Ring
<1>8. /\ t \in Seq(Elems) /\ Len(t) = n + 1
      /\ \A j \in 1..(n + 1) :
            t[j] = IF j < p + 1 THEN s[j] ELSE IF j = p + 1 THEN elem ELSE s[j - 1]
  <2>1. s \in Seq(Elems) /\ p + 1 \in 1..(Len(s) + 1)
    BY <1>7
  <2> HIDE DEF s, A, B
  <2> QED BY <2>1, Inserted
<1> HIDE DEF t
<1>9. ls2[h] = t /\ \A g \in H : g # h => ls2[g] = ls[g]
  BY <1>4
<1>10. ls2 \in [H -> Seq(Elems)]
  BY <1>4, <1>8
<1> HIDE DEF ls2
<1>11. /\ \A q \in 0..p : B(q) = A(q)
       /\ B(p + 1) = elem
       /\ \A q \in (p + 2)..(n + 2) : B(q) = A(q - 1)
  <2>1. \A q : B(q) = IF q \in 1..(n + 1) THEN t[q] ELSE h
    BY <1>8, <1>9 DEF At
  <2>2. \A q \in 0..p : B(q) = A(q)
    <3> TAKE q \in 0..p
    <3>1. q = 0 \/ (q \in 1..(n + 1) /\ q \in 1..n /\ q < p + 1)
      BY <1>7
    <3>2. 0 \notin 1..(n + 1)
      OBVIOUS
    <3> HIDE DEF A, B
    <3> QED BY <1>7, <1>8, <2>1, <3>1, <3>2
  <2>3. B(p + 1) = elem
    <3>1. ~(p + 1 < p + 1)
      BY <1>7
    <3> QED BY <1>7, <1>8, <2>1, <3>1
  <2>4. \A q \in (p + 2)..(n + 2) : B(q) = A(q - 1)
    <3> TAKE q \in (p + 2)..(n + 2)
    <3>1. \/ q = n + 2 /\ q \notin 1..(n + 1) /\ q - 1 = n + 1
          \/ q \in 1..(n + 1) /\ q - 1 \in 1..n /\ ~(q < p + 1) /\ q # p + 1
      BY <1>7
    <3> HIDE DEF A, B
    <3> QED BY <1>7, <1>8, <2>1, <3>1
  <2> QED BY <2>2, <2>3, <2>4
<1>12. \A i \in 0..n : A(i) = list => i = p
  BY <1>6, Once
<1>13. ASSUME NEW g \in H, NEW i \in 1..Len(ls2[g])
       PROVE  \/ g = h /\ i = p + 1 /\ ls2[g][i] = elem
              \/ \E c \in 1..Len(ls[g]) : /\ ls2[g][i] = ls[g][c]
                                          /\ i = IF g = h /\ c > p THEN c + 1 ELSE c
  <2>1. CASE g # h
    BY <1>9, <2>1
  <2>2. CASE g = h
    <3>1. i \in 1..(n + 1) /\ ls2[g][i] = t[i]
      BY <1>8, <1>9, <2>2
    <3>2. CASE i < p + 1
      <4>1. i \in 1..n /\ ~(i > p) /\ t[i] = s[i]
        BY <1>7, <1>8, <3>1, <3>2
      <4> QED BY <2>2, <3>1, <4>1
    <3>3. CASE i = p + 1
      <4>1. ~(i < p + 1)
        BY <1>7, <3>3
      <4> QED BY <1>8, <2>2, <3>1, <3>3, <4>1
    <3>4. CASE i > p + 1
      <4>1. i - 1 \in 1..n /\ i - 1 > p /\ i = (i - 1) + 1 /\ t[i] = s[i - 1]
        BY <1>7, <1>8, <3>1, <3>4
      <4> QED BY <2>2, <3>1, <4>1
    <3> QED BY <1>7, <3>1, <3>2, <3>3, <3>4
  <2> QED BY <2>1, <2>2
<1>14. \A g \in H : \A i \in 1..Len(ls[g]) : ls[g][i] \in inUse
  BY DEF Layout
<1>21. \A f, g \in H :
         \A i \in 1..Len(ls[f]), j \in 1..Len(ls[g]) : ls[f][i] = ls[g][j] => f = g /\ i = j
  BY DEF Layout
<1>15. ASSUME NEW g \in H
       PROVE  /\ \A i \in 1..Len(ls2[g]) : ls2[g][i] \in inUse'
              /\ \A i \in 0..Len(ls2[g]) : next'[At(ls2, g, i)] = At(ls2, g, i + 1)
  <2>1. \A i \in 1..Len(ls2[g]) : ls2[g][i] \in inUse'
    BY <1>1, <1>13, <1>14
  <2>2. CASE g # h
    <3>1. \A i : At(ls2, g, i) = At(ls, g, i)
      BY <1>9, <2>2 DEF At
    <3>2. Len(ls2[g]) = Len(ls[g]) /\ Len(ls[g]) \in Nat
      BY <1>9, <2>2, Ring
    <3>3. ASSUME NEW i \in 0..Len(ls[g]) PROVE next'[At(ls, g, i)] = At(ls, g, i + 1)
      <4>1. i \in 0..(Len(ls[g]) + 1)
        BY <3>2
      <4>2. At(ls, g, i) \in inUse /\ next[At(ls, g, i)] = At(ls, g, i + 1)
        BY <4>1, Ring
      <4>3. At(ls, g, i) # list
        BY <1>6, <2>2, Once
      <4> QED BY <1>3, <4>2, <4>3
    <3> QED BY <2>1, <3>1, <3>2, <3>3
  <2>3. CASE g = h
    <3>1. ASSUME NEW i \in 0..(n + 1) PROVE next'[B(i)] = B(i + 1)
      <4> HIDE DEF A, B, n
      <4>1. CASE i < p
        <5>1. i \in 0..n /\ i \in 0..(n + 1) /\ i # p /\ i \in 0..p /\ i + 1 \in 0..p
          BY <1>7, <4>1
        <5> QED BY <1>3, <1>7, <1>11, <1>12, <5>1
      <4>2. CASE i = p
        <5>1. A(p) = list
          BY <1>6 DEF A
        <5>2. p \in 0..p
          BY <1>7
        <5> QED BY <1>3, <1>11, <4>2, <5>1, <5>2
      <4>3. CASE i = p + 1
        <5>1. A(p) = list
          BY <1>6 DEF A
        <5>2. p + 2 \in (p + 2)..(n + 2) /\ (p + 2) - 1 = p + 1 /\ i + 1 = p + 2
          BY <1>7, <4>3
        <5>3. next[A(p)] = A(p + 1)
          BY <1>7
        <5> QED BY <1>3, <1>11, <4>3, <5>1, <5>2, <5>3
      <4>4. CASE i > p + 1
        <5>1. /\ i \in (p + 2)..(n + 2) /\ i + 1 \in (p + 2)..(n + 2)
              /\ i - 1 \in 0..n /\ i - 1 \in 0..(n + 1) /\ i - 1 # p
              /\ (i - 1) + 1 = i /\ (i + 1) - 1 = i
          BY <1>7, <4>4
        <5>2. B(i) = A(i - 1) /\ B(i + 1) = A(i)
          BY <1>11, <5>1
        <5>3. A(i - 1) \in inUse /\ next[A(i - 1)] = A(i) /\ A(i - 1) # list
          BY <1>7, <1>12, <5>1
        <5> QED BY <1>3, <5>2, <5>3
      <4> QED BY <1>7, <4>1, <4>2, <4>3, <4>4
    <3>2. Len(ls2[h]) = n + 1
      BY <1>8, <1>9
    <3> QED BY <2>1, <2>3, <3>1, <3>2
  <2> QED BY <2>2, <2>3
<1>16. \A f, g \in H :
         \A i \in 1..Len(ls2[f]), j \in 1..Len(ls2[g]) :
             ls2[f][i] = ls2[g][j] => f = g /\ i = j
  <2> SUFFICES ASSUME NEW f \in H, NEW g \in H,
                      NEW i \in 1..Len(ls2[f]), NEW j \in 1..Len(ls2[g]),
                      ls2[f][i] = ls2[g][j]
               PROVE  f = g /\ i = j
    OBVIOUS
  <2>1. CASE ls2[f][i] = elem
    <3>1. \A k \in H : \A c \in 1..Len(ls[k]) : ls[k][c] # elem
      BY <1>1, <1>14
    <3>2. f = h /\ i = p + 1
      BY <1>13, <2>1, <3>1
    <3>3. ls2[g][j] = elem
      BY <2>1
    <3>4. g = h /\ j = p + 1
      BY <1>13, <3>1, <3>3
    <3> QED BY <3>2, <3>4
  <2>2. CASE ls2[f][i] # elem
    <3>1. PICK c \in 1..Len(ls[f]) : /\ ls2[f][i] = ls[f][c]
                                     /\ i = IF f = h /\ c > p THEN c + 1 ELSE c
      BY <1>13, <2>2
    <3>2. PICK d \in 1..Len(ls[g]) : /\ ls2[g][j] = ls[g][d]
                                     /\ j = IF g = h /\ d > p THEN d + 1 ELSE d
      BY <1>13, <2>2
    <3>3. ls[f][c] = ls[g][d]
      BY <3>1, <3>2
    <3>4. f = g /\ c = d
      <4> HIDE DEF H
      <4> QED BY <1>21, <3>3
    <3> QED BY <3>1, <3>2, <3>4
  <2> QED BY <2>1, <2>2
<1>17. \A e \in (inUse \cap Elems) \cup {elem} :
           \E g \in H : \E i \in 1..Len(ls2[g]) : ls2[g][i] = e
  <2> TAKE e \in (inUse \cap Elems) \cup {elem}
  <2>1. CASE e = elem
    <3>1. p + 1 \in 1..(n + 1) /\ t[p + 1] = elem
      <4>1. ~(p + 1 < p + 1)
        BY <1>7
      <4> QED BY <1>7, <1>8, <4>1
    <3> QED BY <1>8, <1>9, <2>1, <3>1
  <2>2. CASE e # elem
    <3>1. PICK g \in H : \E c \in 1..Len(ls[g]) : ls[g][c] = e
      BY <2>2 DEF Layout
    <3>2. PICK c \in 1..Len(ls[g]) : ls[g][c] = e
      BY <3>1
    <3>3. CASE g # h
      BY <1>9, <3>2, <3>3
    <3>4. CASE g = h
      <4>0. c \in 1..n /\ s[c] = e
        BY <3>2, <3>4
      <4>1. CASE c > p
        <5>1. /\ c + 1 \in 1..(n + 1) /\ ~(c + 1 < p + 1) /\ c + 1 # p + 1
              /\ (c + 1) - 1 = c
          BY <1>7, <4>0, <4>1
        <5>2. t[c + 1] = e
          BY <1>8, <4>0, <5>1
        <5> QED BY <1>8, <1>9, <5>1, <5>2
      <4>2. CASE ~(c > p)
        <5>1. c \in 1..(n + 1) /\ c < p + 1
          BY <1>7, <4>0, <4>2
        <5>2. t[c] = e
          BY <1>8, <4>0, <5>1
        <5> QED BY <1>8, <1>9, <5>1, <5>2
      <4> QED BY <4>1, <4>2
    <3> QED BY <3>3, <3>4
  <2> QED BY <2>1, <2>2
<1>18. Layout(ls2)'
  <2> HIDE DEF H, s, n, A, B
  <2> QED BY <1>3, <1>10, <1>15, <1>16, <1>17 DEF Layout
<1>19. \A g \in DOMAIN ls : \A i \in 1..Len(ls[g]) : ls[g][i] # elem
  BY <1>1, <1>4, <1>14
<1>20. \E i \in 1..(Len(ls[h]) + 1) : ls2 = [ls EXCEPT ![h] = R!InsertAt(@, i, elem)]
  <2>1. ls2 = [ls EXCEPT ![h] = R!InsertAt(@, p + 1, elem)]
    BY <1>4 DEF ls2, t
  <2> QED BY <1>7, <2>1
<1> QED BY <1>4, <1>18, <1>19, <1>20

\* list_remove takes the element out of the list it is in.
LEMMA DropLayout ==
    ASSUME Inv, NEW ls, Layout(ls), NEW elem \in Elems, list_remove(elem)
    PROVE  \E ls2 : /\ Layout(ls2)'
                    /\ \E h \in DOMAIN ls : \E i \in 1..Len(ls[h]) :
                          ls2 = [ls EXCEPT ![h] = R!RemoveAt(@, i)]
<1> DEFINE H == inUse \cap Heads
<1>1. /\ elem \in inUse /\ elem \in Nodes /\ inUse' = inUse \ {elem}
      /\ next[elem] \in inUse /\ prev[elem] \in inUse
      /\ next[elem] \in Nodes /\ prev[elem] \in Nodes
      /\ next' = [[next EXCEPT ![prev[elem]] = next[elem]] EXCEPT ![elem] = NULL]
  BY RemovePtrs
<1>2. /\ inUse \subseteq Nodes /\ next \in [Nodes -> Nodes \cup {NULL}]
      /\ \A x \in inUse : prev[next[x]] = x
  BY DEF Inv, TypeOK, RingsAreClosed
<1>3. ls \in [H -> Seq(Elems)] /\ DOMAIN ls = H
  BY DEF Layout
<1>4. PICK h \in H : \E i \in 1..Len(ls[h]) : ls[h][i] = elem
  BY <1>1 DEF Layout
<1>5. PICK p \in 1..Len(ls[h]) : ls[h][p] = elem
  BY <1>4
<1> DEFINE s == ls[h]
           n == Len(s)
           t == R!RemoveAt(s, p)
           ls2 == [ls EXCEPT ![h] = t]
           A(q) == At(ls, h, q)
           B(q) == At(ls2, h, q)
<1>6. /\ n \in Nat /\ s \in Seq(Elems) /\ p \in 1..n
      /\ A(0) = h /\ A(n + 1) = h /\ A(p) = elem
      /\ \A i \in 1..n : A(i) = s[i] /\ s[i] \in Elems
      /\ \A i \in 0..(n + 1) : A(i) \in inUse
      /\ \A i \in 0..n : next[A(i)] = A(i + 1)
  BY <1>5, Ring
<1>7. /\ t \in Seq(Elems) /\ Len(t) = n - 1
      /\ \A j \in 1..(n - 1) : t[j] = IF j < p THEN s[j] ELSE s[j + 1]
  <2>1. s \in Seq(Elems) /\ p \in 1..Len(s)
    BY <1>6
  <2> HIDE DEF s, A, B
  <2> QED BY <2>1, Removed
<1> HIDE DEF t
<1>8. ls2[h] = t /\ \A g \in H : g # h => ls2[g] = ls[g]
  BY <1>3
<1>9. ls2 \in [H -> Seq(Elems)]
  BY <1>3, <1>7
<1> HIDE DEF ls2
<1>10. /\ \A q \in 0..(p - 1) : B(q) = A(q)
       /\ \A q \in p..n : B(q) = A(q + 1)
  <2>1. \A q : B(q) = IF q \in 1..(n - 1) THEN t[q] ELSE h
    BY <1>7, <1>8 DEF At
  <2>2. \A q \in 0..(p - 1) : B(q) = A(q)
    <3> TAKE q \in 0..(p - 1)
    <3>1. q = 0 \/ (q \in 1..(n - 1) /\ q \in 1..n /\ q < p)
      BY <1>6
    <3>2. 0 \notin 1..(n - 1)
      BY <1>6
    <3> HIDE DEF A, B
    <3> QED BY <1>6, <1>7, <2>1, <3>1, <3>2
  <2>3. \A q \in p..n : B(q) = A(q + 1)
    <3> TAKE q \in p..n
    <3>1. \/ q = n /\ q \notin 1..(n - 1)
          \/ q \in 1..(n - 1) /\ q + 1 \in 1..n /\ ~(q < p)
      BY <1>6
    <3> HIDE DEF A, B
    <3> QED BY <1>6, <1>7, <2>1, <3>1
  <2> QED BY <2>2, <2>3
<1>11. \A i, j \in 0..n : A(i) = A(j) => i = j
  BY Once
<1>12. /\ p - 1 \in 0..n /\ p \in 0..n /\ (p - 1) + 1 = p
       /\ prev[elem] = A(p - 1) /\ next[elem] = A(p + 1) /\ A(p - 1) # elem
  <2>1. p - 1 \in 0..n /\ p \in 0..n /\ (p - 1) + 1 = p /\ p - 1 # p /\ p - 1 \in 0..(n + 1)
    BY <1>6
  <2> HIDE DEF A
  <2>2. next[A(p - 1)] = elem /\ next[elem] = A(p + 1) /\ A(p - 1) \in inUse
    BY <1>6, <2>1
  <2>3. prev[elem] = A(p - 1)
    BY <1>2, <2>2
  <2>4. A(p - 1) # elem
    BY <1>6, <1>11, <2>1
  <2> QED BY <2>1, <2>2, <2>3, <2>4
<1>13. /\ inUse' \cap Heads = H /\ inUse' \cap Elems = (inUse \cap Elems) \ {elem}
       /\ next'[A(p - 1)] = A(p + 1)
       /\ \A x \in inUse : x # elem /\ x # A(p - 1) => next'[x] = next[x]
  <2> HIDE DEF A
  <2> QED BY <1>1, <1>2, <1>12, NodesAssumption
<1>14. \A g \in H : \A i \in 1..Len(ls[g]) : ls[g][i] \in inUse
  BY DEF Layout
<1>15. \A f, g \in H :
          \A i \in 1..Len(ls[f]), j \in 1..Len(ls[g]) : ls[f][i] = ls[g][j] => f = g /\ i = j
  BY DEF Layout
<1>16. ASSUME NEW g \in H, NEW i \in 1..Len(ls2[g])
       PROVE  \E c \in 1..Len(ls[g]) : /\ ls2[g][i] = ls[g][c]
                                       /\ c = IF g = h /\ i >= p THEN i + 1 ELSE i
                                       /\ g = h => c # p
  <2>1. CASE g # h
    BY <1>8, <2>1
  <2>2. CASE g = h
    <3>1. i \in 1..(n - 1) /\ ls2[g][i] = t[i]
      BY <1>7, <1>8, <2>2
    <3>2. CASE i < p
      <4>1. i \in 1..n /\ ~(i >= p) /\ i # p /\ t[i] = s[i]
        BY <1>6, <1>7, <3>1, <3>2
      <4> QED BY <2>2, <3>1, <4>1
    <3>3. CASE ~(i < p)
      <4>1. i + 1 \in 1..n /\ i >= p /\ i + 1 # p /\ t[i] = s[i + 1]
        BY <1>6, <1>7, <3>1, <3>3
      <4> QED BY <2>2, <3>1, <4>1
    <3> QED BY <3>2, <3>3
  <2> QED BY <2>1, <2>2
<1>17. ASSUME NEW g \in H
       PROVE  /\ \A i \in 1..Len(ls2[g]) : ls2[g][i] \in inUse'
              /\ \A i \in 0..Len(ls2[g]) : next'[At(ls2, g, i)] = At(ls2, g, i + 1)
  <2>1. ASSUME NEW i \in 1..Len(ls2[g]) PROVE ls2[g][i] \in inUse'
    <3>1. PICK c \in 1..Len(ls[g]) : ls2[g][i] = ls[g][c] /\ (g = h => c # p)
      BY <1>16
    <3>2. ls[g][c] # ls[h][p]
      BY <1>15, <3>1
    <3>3. ls[g][c] \in inUse
      BY <1>14
    <3> QED BY <1>1, <1>5, <3>1, <3>2, <3>3
  <2>2. CASE g # h
    <3>1. \A i : At(ls2, g, i) = At(ls, g, i)
      BY <1>8, <2>2 DEF At
    <3>2. Len(ls2[g]) = Len(ls[g]) /\ Len(ls[g]) \in Nat
      BY <1>8, <2>2, Ring
    <3>3. ASSUME NEW i \in 0..Len(ls[g]) PROVE next'[At(ls, g, i)] = At(ls, g, i + 1)
      <4>1. i \in 0..(Len(ls[g]) + 1)
        BY <3>2
      <4>2. At(ls, g, i) \in inUse /\ next[At(ls, g, i)] = At(ls, g, i + 1)
        BY <4>1, Ring
      <4>3. At(ls, g, i) # A(p)
        BY <1>12, <2>2, Once
      <4>4. At(ls, g, i) # A(p - 1)
        BY <1>12, <2>2, Once
      <4> QED BY <1>6, <1>13, <4>2, <4>3, <4>4
    <3> QED BY <2>1, <3>1, <3>2, <3>3
  <2>3. CASE g = h
    <3>1. ASSUME NEW i \in 0..(n - 1) PROVE next'[B(i)] = B(i + 1)
      <4> HIDE DEF A, B, n
      <4>1. CASE i < p - 1
        <5>1. /\ i \in 0..n /\ i \in 0..(n + 1) /\ i # p /\ i # p - 1
              /\ i \in 0..(p - 1) /\ i + 1 \in 0..(p - 1)
          BY <1>6, <4>1
        <5>2. A(i) # elem /\ A(i) # A(p - 1)
          BY <1>6, <1>11, <1>12, <5>1
        <5> QED BY <1>6, <1>10, <1>13, <5>1, <5>2
      <4>2. CASE i = p - 1
        <5>1. p \in p..n /\ i + 1 = p /\ i \in 0..(p - 1)
          BY <1>6, <4>2
        <5> QED BY <1>10, <1>13, <4>2, <5>1
      <4>3. CASE i > p - 1
        <5>1. /\ i \in p..n /\ i + 1 \in p..n /\ i + 1 \in 0..n /\ i + 1 \in 0..(n + 1)
              /\ i + 1 # p /\ i + 1 # p - 1
          BY <1>6, <4>3
        <5>2. B(i) = A(i + 1) /\ B(i + 1) = A((i + 1) + 1)
          BY <1>10, <5>1
        <5>3. A(i + 1) # elem /\ A(i + 1) # A(p - 1)
          BY <1>6, <1>11, <1>12, <5>1
        <5> QED BY <1>6, <1>13, <5>1, <5>2, <5>3
      <4> QED BY <1>6, <4>1, <4>2, <4>3
    <3>2. Len(ls2[h]) = n - 1
      BY <1>7, <1>8
    <3> QED BY <2>1, <2>3, <3>1, <3>2
  <2> QED BY <2>2, <2>3
<1>18. \A f, g \in H :
         \A i \in 1..Len(ls2[f]), j \in 1..Len(ls2[g]) :
             ls2[f][i] = ls2[g][j] => f = g /\ i = j
  <2> SUFFICES ASSUME NEW f \in H, NEW g \in H,
                      NEW i \in 1..Len(ls2[f]), NEW j \in 1..Len(ls2[g]),
                      ls2[f][i] = ls2[g][j]
               PROVE  f = g /\ i = j
    OBVIOUS
  <2>1. PICK c \in 1..Len(ls[f]) : /\ ls2[f][i] = ls[f][c]
                                   /\ c = IF f = h /\ i >= p THEN i + 1 ELSE i
    BY <1>16
  <2>2. PICK d \in 1..Len(ls[g]) : /\ ls2[g][j] = ls[g][d]
                                   /\ d = IF g = h /\ j >= p THEN j + 1 ELSE j
    BY <1>16
  <2>3. ls[f][c] = ls[g][d]
    BY <2>1, <2>2
  <2>4. f = g /\ c = d
    <3> HIDE DEF H
    <3> QED BY <1>15, <2>3
  <2>5. i \in Nat /\ j \in Nat
    BY <1>9
  <2> QED BY <1>6, <2>1, <2>2, <2>4, <2>5
<1>19. \A e \in (inUse \cap Elems) \ {elem} :
           \E g \in H : \E i \in 1..Len(ls2[g]) : ls2[g][i] = e
  <2> TAKE e \in (inUse \cap Elems) \ {elem}
  <2>1. PICK g \in H : \E c \in 1..Len(ls[g]) : ls[g][c] = e
    BY DEF Layout
  <2>2. PICK c \in 1..Len(ls[g]) : ls[g][c] = e
    BY <2>1
  <2>3. CASE g # h
    BY <1>8, <2>2, <2>3
  <2>4. CASE g = h
    <3>1. c \in 1..n /\ s[c] = e /\ c # p
      BY <1>5, <2>2, <2>4
    <3>2. CASE c > p
      <4>1. c - 1 \in 1..(n - 1) /\ ~(c - 1 < p) /\ (c - 1) + 1 = c
        BY <1>6, <3>1, <3>2
      <4>2. t[c - 1] = e
        BY <1>7, <3>1, <4>1
      <4> QED BY <1>7, <1>8, <4>1, <4>2
    <3>3. CASE ~(c > p)
      <4>1. c \in 1..(n - 1) /\ c < p
        BY <1>6, <3>1, <3>3
      <4>2. t[c] = e
        BY <1>7, <3>1, <4>1
      <4> QED BY <1>7, <1>8, <4>1, <4>2
    <3> QED BY <3>2, <3>3
  <2> QED BY <2>3, <2>4
<1>20. Layout(ls2)'
  <2> HIDE DEF H, s, n, A, B
  <2> QED BY <1>9, <1>13, <1>17, <1>18, <1>19 DEF Layout
<1>21. ls2 = [ls EXCEPT ![h] = R!RemoveAt(@, p)]
  BY <1>3 DEF ls2, t
<1> QED BY <1>3, <1>5, <1>20, <1>21

\* list_join puts the elements of the other list in front of the list's own
\* and its head is no list any more; if there are none, it stays one.
LEMMA JoinLayout ==
    ASSUME Inv, NEW ls, Layout(ls), NEW list \in Heads, NEW other \in Heads,
           list_join(list, other), ~list_is_empty(other)
    PROVE  \E ls2 : /\ Layout(ls2)'
                    /\ list \in DOMAIN ls /\ other \in DOMAIN ls /\ list # other
                    /\ ls2 = [k \in DOMAIN ls \ {other} |->
                                 IF k = list THEN ls[other] \o ls[list] ELSE ls[k]]
<1> DEFINE H == inUse \cap Heads
           first == next[other]
           last == prev[other]
<1>1. /\ list \in inUse /\ other \in inUse /\ list # other
      /\ list \in Nodes /\ other \in Nodes
      /\ inUse' = inUse \ {other}
      /\ first \in inUse /\ last \in inUse /\ next[list] \in inUse
      /\ first \in Nodes /\ last \in Nodes /\ next[list] \in Nodes
      /\ first # other /\ last # other
      /\ next' = [[next EXCEPT ![last] = next[list]] EXCEPT ![list] = first]
  BY JoinPtrs
<1>2. /\ inUse \subseteq Nodes /\ next \in [Nodes -> Nodes \cup {NULL}]
      /\ \A x \in inUse : prev[next[x]] = x
  BY DEF Inv, TypeOK, RingsAreClosed
<1>3. ls \in [H -> Seq(Elems)] /\ DOMAIN ls = H /\ list \in H /\ other \in H
  BY <1>1 DEF Layout
<1> DEFINE s == ls[other]
           t == ls[list]
           m == Len(s)
           n == Len(t)
           C(q) == At(ls, other, q)
           A(q) == At(ls, list, q)
<1>4. /\ m \in Nat /\ s \in Seq(Elems) /\ C(0) = other /\ C(m + 1) = other
      /\ \A i \in 1..m : C(i) = s[i] /\ s[i] \in Elems
      /\ \A i \in 0..(m + 1) : C(i) \in inUse
      /\ \A i \in 0..m : next[C(i)] = C(i + 1)
  BY <1>3, Ring
<1>5. /\ n \in Nat /\ t \in Seq(Elems) /\ A(0) = list /\ A(n + 1) = list
      /\ \A i \in 1..n : A(i) = t[i] /\ t[i] \in Elems
      /\ \A i \in 0..(n + 1) : A(i) \in inUse
      /\ \A i \in 0..n : next[A(i)] = A(i + 1)
  BY <1>3, Ring
<1> DEFINE u == s \o t
<1>6. /\ u \in Seq(Elems) /\ Len(u) = m + n
      /\ \A j \in 1..(m + n) : u[j] = IF j <= m THEN s[j] ELSE t[j - m]
  BY <1>4, <1>5, ConcatProperties
<1>22. m \in Nat /\ n \in Nat
  BY <1>4, <1>5
<1> HIDE DEF u
<1>7. PICK ls2 : ls2 = [k \in H \ {other} |-> IF k = list THEN u ELSE ls[k]]
  OBVIOUS
<1>8. /\ ls2[list] = u
      /\ \A g \in H \ {other} : g # list => ls2[g] = ls[g]
      /\ ls2 \in [H \ {other} -> Seq(Elems)]
  BY <1>1, <1>3, <1>6, <1>7
<1> DEFINE B(q) == At(ls2, list, q)
<1>9. B(0) = list /\ \A q \in 1..m : B(q) = C(q)
  <2>1. \A q : B(q) = IF q \in 1..(m + n) THEN u[q] ELSE list
    BY <1>6, <1>8 DEF At
  <2>2. \A q \in 1..m : q \in 1..(m + n) /\ q <= m
    <3> HIDE DEF m, n
    <3> QED BY <1>22
  <2>3. 0 \notin 1..(m + n)
    BY <1>4, <1>5
  <2> HIDE DEF B, C
  <2> QED BY <1>4, <1>6, <2>1, <2>2, <2>3
<1>10. \A q \in (m + 1)..(m + n + 1) : B(q) = A(q - m)
  <2>1. \A q : B(q) = IF q \in 1..(m + n) THEN u[q] ELSE list
    BY <1>6, <1>8 DEF At
  <2> TAKE q \in (m + 1)..(m + n + 1)
  <2>2. \/ q = m + n + 1 /\ q \notin 1..(m + n) /\ q - m = n + 1
        \/ q \in 1..(m + n) /\ q - m \in 1..n /\ ~(q <= m)
    <3> HIDE DEF m, n
    <3> QED BY <1>22
  <2> HIDE DEF A, B
  <2> QED BY <1>5, <1>6, <2>1, <2>2
<1>11. /\ \A i, j \in 0..m : C(i) = C(j) => i = j
       /\ \A i, j \in 0..n : A(i) = A(j) => i = j
       /\ \A i \in 0..m, j \in 0..n : C(i) # A(j)
  BY <1>1, <1>3, Once
<1>12. m # 0 /\ first = C(1) /\ last = C(m)
  <2>1. 0 \in 0..m /\ m \in 0..m /\ m \in 0..(m + 1)
    BY <1>4
  <2> HIDE DEF C, m
  <2>2. first = C(1)
    BY <1>4, <2>1
  <2>3. next[C(m)] = other /\ C(m) \in inUse
    BY <1>4, <2>1
  <2>4. last = C(m)
    BY <1>2, <2>3
  <2>5. m # 0
    BY <1>1, <1>4, <2>4
  <2> QED BY <2>2, <2>4, <2>5
<1>13. /\ inUse' \cap Heads = H \ {other} /\ inUse' \cap Elems = inUse \cap Elems
       /\ next'[list] = C(1) /\ next'[C(m)] = A(1)
       /\ \A x \in inUse : x # list /\ x # C(m) => next'[x] = next[x]
  <2>1. C(m) # list
    <3>1. m \in 0..m /\ 0 \in 0..n
      BY <1>4, <1>5
    <3> HIDE DEF A, C
    <3> QED BY <1>5, <1>11, <3>1
  <2>2. next[list] = A(1)
    <3>1. 0 \in 0..n /\ 0 + 1 = 1
      BY <1>5
    <3> HIDE DEF A
    <3> QED BY <1>5, <3>1
  <2> HIDE DEF A, C, first, last
  <2>3. next'[list] = first /\ next'[last] = next[list]
    BY <1>1, <1>2, <1>12, <2>1
  <2>4. \A x \in inUse : x # list /\ x # last => next'[x] = next[x]
    BY <1>1, <1>2
  <2>5. inUse' \cap Heads = H \ {other} /\ inUse' \cap Elems = inUse \cap Elems
    BY <1>1, NodesAssumption
  <2> QED BY <1>12, <2>2, <2>3, <2>4, <2>5
<1>14. \A g \in H : \A i \in 1..Len(ls[g]) : ls[g][i] \in inUse /\ ls[g][i] \in Elems
  BY DEF Layout
<1>15. \A f, g \in H :
          \A i \in 1..Len(ls[f]), j \in 1..Len(ls[g]) : ls[f][i] = ls[g][j] => f = g /\ i = j
  BY DEF Layout
\* Where an element comes from.
<1>16. ASSUME NEW g \in H \ {other}, NEW i \in 1..Len(ls2[g])
       PROVE  \E k \in H : \E c \in 1..Len(ls[k]) :
                 /\ ls2[g][i] = ls[k][c]
                 /\ g = IF k = other THEN list ELSE k
                 /\ i = IF k = list THEN c + m ELSE c
                 /\ k = other => c <= m
  <2>1. CASE g # list
    BY <1>8, <2>1
  <2>2. CASE g = list
    <3>1. i \in 1..(m + n) /\ ls2[g][i] = u[i]
      BY <1>6, <1>8, <2>2
    <3>2. CASE i <= m
      <4>1. i \in 1..m /\ u[i] = s[i]
        <5> HIDE DEF m, n, s, t
        <5> QED BY <1>22, <1>6, <3>1, <3>2
      <4> QED BY <1>1, <1>3, <2>2, <3>1, <3>2, <4>1
    <3>3. CASE ~(i <= m)
      <4>1. i - m \in 1..n /\ u[i] = t[i - m] /\ i = (i - m) + m
        <5> HIDE DEF m, n, s, t
        <5> QED BY <1>22, <1>6, <3>1, <3>3
      <4> QED BY <1>1, <1>3, <2>2, <3>1, <4>1
    <3> QED BY <3>2, <3>3
  <2> QED BY <2>1, <2>2
<1>17. ASSUME NEW g \in H \ {other}
       PROVE  /\ \A i \in 1..Len(ls2[g]) : ls2[g][i] \in inUse'
              /\ \A i \in 0..Len(ls2[g]) : next'[At(ls2, g, i)] = At(ls2, g, i + 1)
  <2>1. ASSUME NEW i \in 1..Len(ls2[g]) PROVE ls2[g][i] \in inUse'
    <3>1. PICK k \in H : \E c \in 1..Len(ls[k]) : ls2[g][i] = ls[k][c]
      BY <1>16
    <3>2. ls2[g][i] \in inUse /\ ls2[g][i] \in Elems
      BY <1>14, <3>1
    <3> QED BY <1>1, <3>2, NodesAssumption
  <2>2. CASE g # list
    <3>1. \A i : At(ls2, g, i) = At(ls, g, i)
      BY <1>8, <2>2 DEF At
    <3>2. Len(ls2[g]) = Len(ls[g]) /\ Len(ls[g]) \in Nat
      BY <1>8, <2>2, Ring
    <3>3. ASSUME NEW i \in 0..Len(ls[g]) PROVE next'[At(ls, g, i)] = At(ls, g, i + 1)
      <4>1. i \in 0..(Len(ls[g]) + 1) /\ m \in 0..m /\ 0 \in 0..n
        BY <1>4, <1>5, <3>2
      <4>2. At(ls, g, i) \in inUse /\ next[At(ls, g, i)] = At(ls, g, i + 1)
        BY <4>1, Ring
      <4>3. At(ls, g, i) # A(0)
        BY <1>3, <2>2, <4>1, Once
      <4>4. At(ls, g, i) # C(m)
        BY <1>3, <2>2, <4>1, Once
      <4> QED BY <1>5, <1>13, <4>2, <4>3, <4>4
    <3> QED BY <2>1, <3>1, <3>2, <3>3
  <2>3. CASE g = list
    <3>1. ASSUME NEW i \in 0..(m + n) PROVE next'[B(i)] = B(i + 1)
      <4> HIDE DEF A, B, C, m, n
      <4>1. CASE i = 0
        <5>1. 1 \in 1..m /\ i + 1 = 1
          BY <1>4, <1>12, <4>1
        <5> QED BY <1>9, <1>13, <4>1, <5>1
      <4>2. CASE i > 0 /\ i < m
        <5>1. /\ i \in 1..m /\ i + 1 \in 1..m /\ i \in 0..m /\ i \in 0..(m + 1)
              /\ m \in 0..m /\ i # m /\ 0 \in 0..n
          BY <1>4, <1>5, <4>2
        <5>2. C(i) # list /\ C(i) # C(m)
          BY <1>5, <1>11, <5>1
        <5> QED BY <1>4, <1>9, <1>13, <5>1, <5>2
      <4>3. CASE i = m
        <5>1. i \in 1..m /\ i + 1 \in (m + 1)..(m + n + 1) /\ (i + 1) - m = 1
          BY <1>4, <1>5, <1>12, <4>3
        <5> QED BY <1>9, <1>10, <1>13, <4>3, <5>1
      <4>4. CASE i > m
        <5>1. /\ i \in (m + 1)..(m + n + 1) /\ i + 1 \in (m + 1)..(m + n + 1)
              /\ i - m \in 0..n /\ i - m \in 0..(n + 1) /\ i - m # 0 /\ 0 \in 0..n
              /\ (i + 1) - m = (i - m) + 1 /\ m \in 0..m
          BY <1>4, <1>5, <4>4
        <5>2. A(i - m) # list /\ A(i - m) # C(m)
          BY <1>5, <1>11, <5>1
        <5>3. B(i) = A(i - m) /\ B(i + 1) = A((i - m) + 1)
          BY <1>10, <5>1
        <5> QED BY <1>5, <1>13, <5>1, <5>2, <5>3
      <4> QED BY <1>4, <1>5, <4>1, <4>2, <4>3, <4>4
    <3>2. Len(ls2[list]) = m + n
      BY <1>6, <1>8
    <3> QED BY <2>1, <2>3, <3>1, <3>2
  <2> QED BY <2>2, <2>3
<1>18. \A f, g \in H \ {other} :
         \A i \in 1..Len(ls2[f]), j \in 1..Len(ls2[g]) :
             ls2[f][i] = ls2[g][j] => f = g /\ i = j
  <2> SUFFICES ASSUME NEW f \in H \ {other}, NEW g \in H \ {other},
                      NEW i \in 1..Len(ls2[f]), NEW j \in 1..Len(ls2[g]),
                      ls2[f][i] = ls2[g][j]
               PROVE  f = g /\ i = j
    OBVIOUS
  <2> DEFINE From(x, k, e, v, c) == /\ v = ls[k][c]
                                    /\ e = IF k = other THEN list ELSE k
                                    /\ x = IF k = list THEN c + m ELSE c
  <2>1. PICK k \in H : \E c \in 1..Len(ls[k]) : From(i, k, f, ls2[f][i], c)
    BY <1>16
  <2>2. PICK c \in 1..Len(ls[k]) : From(i, k, f, ls2[f][i], c)
    BY <2>1
  <2>3. PICK l \in H : \E d \in 1..Len(ls[l]) : From(j, l, g, ls2[g][j], d)
    BY <1>16
  <2>4. PICK d \in 1..Len(ls[l]) : From(j, l, g, ls2[g][j], d)
    BY <2>3
  <2>5. ls[k][c] = ls[l][d]
    BY <2>2, <2>4
  <2>6. k = l /\ c = d
    <3> HIDE DEF H
    <3> QED BY <1>15, <2>5
  <2> QED BY <2>2, <2>4, <2>6
<1>19. \A e \in inUse \cap Elems :
           \E g \in H \ {other} : \E i \in 1..Len(ls2[g]) : ls2[g][i] = e
  <2> TAKE e \in inUse \cap Elems
  <2>1. PICK g \in H : \E c \in 1..Len(ls[g]) : ls[g][c] = e
    BY DEF Layout
  <2>2. PICK c \in 1..Len(ls[g]) : ls[g][c] = e
    BY <2>1
  <2>3. CASE g # list /\ g # other
    BY <1>8, <2>2, <2>3
  <2>4. CASE g = other
    <3>0. c \in 1..m /\ s[c] = e
      BY <2>2, <2>4
    <3>1. c \in 1..(m + n) /\ c <= m /\ s[c] = e
      <4> HIDE DEF m, n, s
      <4> QED BY <1>22, <3>0
    <3>2. u[c] = e
      BY <1>6, <3>1
    <3> QED BY <1>1, <1>3, <1>6, <1>8, <3>1, <3>2
  <2>5. CASE g = list
    <3>0. c \in 1..n /\ t[c] = e
      BY <2>2, <2>5
    <3>1. c + m \in 1..(m + n) /\ ~(c + m <= m) /\ (c + m) - m = c /\ t[c] = e
      <4> HIDE DEF m, n, t
      <4> QED BY <1>22, <3>0
    <3>2. u[c + m] = e
      BY <1>6, <3>1
    <3> QED BY <1>1, <1>3, <1>6, <1>8, <3>1, <3>2
  <2> QED BY <2>3, <2>4, <2>5
<1>20. Layout(ls2)'
  <2> HIDE DEF H, s, n, t, m, A, B, C, first, last
  <2> QED BY <1>8, <1>13, <1>17, <1>18, <1>19 DEF Layout
<1>21. ls2 = [k \in DOMAIN ls \ {other} |->
                 IF k = list THEN ls[other] \o ls[list] ELSE ls[k]]
  BY <1>3, <1>7 DEF u
<1> QED BY <1>1, <1>3, <1>20, <1>21

\* A step of the lists themselves.
Steps(ls, ls2) ==
    \/ \E h \in Heads : /\ h \notin DOMAIN ls
                        /\ ls2 = [g \in DOMAIN ls \cup {h} |->
                                     IF g = h THEN <<>> ELSE ls[g]]
    \/ \E e \in Elems : /\ \A g \in DOMAIN ls : \A i \in 1..Len(ls[g]) : ls[g][i] # e
                        /\ \E h \in DOMAIN ls : \E i \in 1..(Len(ls[h]) + 1) :
                              ls2 = [ls EXCEPT ![h] = R!InsertAt(@, i, e)]
    \/ \E h \in DOMAIN ls : \E i \in 1..Len(ls[h]) :
          ls2 = [ls EXCEPT ![h] = R!RemoveAt(@, i)]
    \/ \E h, g \in DOMAIN ls : /\ h # g
                               /\ ls2 = [k \in DOMAIN ls \ {g} |->
                                            IF k = h THEN ls[g] \o ls[h] ELSE ls[k]]

LEMMA LayoutStep ==
    ASSUME Inv, NEW ls, Layout(ls), [Next]_vars
    PROVE  \E ls2 : Layout(ls2)' /\ (ls2 = ls \/ Steps(ls, ls2))
<1>1. ASSUME UNCHANGED vars PROVE Layout(ls)'
  BY <1>1 DEF vars, Layout
<1>2. ASSUME NEW list \in Heads, list_init(list)
      PROVE  \E ls2 : Layout(ls2)' /\ Steps(ls, ls2)
  <2>1. PICK ls2 : /\ Layout(ls2)'
                   /\ list \notin DOMAIN ls
                   /\ ls2 = [g \in DOMAIN ls \cup {list} |->
                                IF g = list THEN <<>> ELSE ls[g]]
    BY <1>2, NewLayout
  <2>2. Steps(ls, ls2)
    BY <2>1 DEF Steps
  <2> QED BY <2>1, <2>2
<1>3. ASSUME NEW list \in Nodes, NEW elem \in Elems, list_insert(list, elem)
      PROVE  \E ls2 : Layout(ls2)' /\ Steps(ls, ls2)
  <2>1. PICK ls2 : /\ Layout(ls2)'
                   /\ \A g \in DOMAIN ls : \A i \in 1..Len(ls[g]) : ls[g][i] # elem
                   /\ \E h \in DOMAIN ls : \E i \in 1..(Len(ls[h]) + 1) :
                         ls2 = [ls EXCEPT ![h] = R!InsertAt(@, i, elem)]
    BY <1>3, PutLayout
  <2>2. Steps(ls, ls2)
    BY <2>1, Zenon DEF Steps
  <2> QED BY <2>1, <2>2
<1>4. ASSUME NEW elem \in Elems, list_remove(elem)
      PROVE  \E ls2 : Layout(ls2)' /\ Steps(ls, ls2)
  <2>1. PICK ls2 : /\ Layout(ls2)'
                   /\ \E h \in DOMAIN ls : \E i \in 1..Len(ls[h]) :
                         ls2 = [ls EXCEPT ![h] = R!RemoveAt(@, i)]
    BY <1>4, DropLayout
  <2>2. Steps(ls, ls2)
    BY <2>1, Zenon DEF Steps
  <2> QED BY <2>1, <2>2
<1>5. ASSUME NEW list \in Heads, NEW other \in Heads, list_join(list, other),
             ~list_is_empty(other)
      PROVE  \E ls2 : Layout(ls2)' /\ Steps(ls, ls2)
  <2>1. PICK ls2 : /\ Layout(ls2)'
                   /\ list \in DOMAIN ls /\ other \in DOMAIN ls /\ list # other
                   /\ ls2 = [k \in DOMAIN ls \ {other} |->
                                IF k = list THEN ls[other] \o ls[list] ELSE ls[k]]
    BY <1>5, JoinLayout
  <2>2. Steps(ls, ls2)
    BY <2>1, Zenon DEF Steps
  <2> QED BY <2>1, <2>2
<1>6. ASSUME NEW list \in Heads, NEW other \in Heads, list_join(list, other),
             list_is_empty(other)
      PROVE  UNCHANGED vars
  BY <1>6 DEF list_join
<1> QED BY <1>1, <1>2, <1>3, <1>4, <1>5, <1>6 DEF Next

\* What list_length and list_for_each see of the heads in use.
Walks == [h \in inUse \cap Heads |-> Contents(h)]

Seen == \A ls : Layout(ls) => Walks = ls

LEMMA SeenAsLaidOut == Seen
<1> SUFFICES ASSUME NEW ls, Layout(ls) PROVE Walks = ls
  BY DEF Seen
<1>1. \A h \in inUse \cap Heads : Contents(h) = ls[h]
  BY ContentsFound
<1>2. ls = [h \in inUse \cap Heads |-> ls[h]]
  BY DEF Layout
<1> QED BY <1>1, <1>2 DEF Walks

LEMMA StepsAreRings ==
    ASSUME Steps(Walks, Walks')
    PROVE  R!Next
<1>1. ASSUME NEW h \in Heads, h \notin DOMAIN Walks,
             Walks' = [g \in DOMAIN Walks \cup {h} |-> IF g = h THEN <<>> ELSE Walks[g]]
      PROVE  R!Next
  BY <1>1, Zenon DEF R!Next, R!New, Walks
<1>2. ASSUME NEW e \in Elems,
             \A g \in DOMAIN Walks : \A i \in 1..Len(Walks[g]) : Walks[g][i] # e,
             NEW h \in DOMAIN Walks, NEW i \in 1..(Len(Walks[h]) + 1),
             Walks' = [Walks EXCEPT ![h] = R!InsertAt(@, i, e)]
      PROVE  R!Next
  <2>1. e \notin R!Held
    BY <1>2 DEF R!Held, R!ToSet, Walks
  <2>2. R!Put(h, i, e)
    BY <1>2, <2>1, Zenon DEF R!Put, Walks
  <2> QED BY <2>2, Zenon DEF R!Next, Walks
<1>3. ASSUME NEW h \in DOMAIN Walks, NEW i \in 1..Len(Walks[h]),
             Walks' = [Walks EXCEPT ![h] = R!RemoveAt(@, i)]
      PROVE  R!Next
  BY <1>3, Zenon DEF R!Next, R!Drop, Walks
<1>4. ASSUME NEW h \in DOMAIN Walks, NEW g \in DOMAIN Walks, h # g,
             Walks' = [k \in DOMAIN Walks \ {g} |-> IF k = h THEN Walks[g] \o Walks[h] ELSE Walks[k]]
      PROVE  R!Next
  BY <1>4, Zenon DEF R!Next, R!Join, Walks
<1> QED BY <1>1, <1>2, <1>3, <1>4 DEF Steps

\* However many heads and elements there are and whatever sequence of
\* operations has run, a walk from a head finds exactly the elements that
\* inserting, removing and joining at the places named would leave in a
\* sequence, in that order, and no element is in two lists.
THEOREM SequencesImplemented == Spec => ImplementsRings
<1> DEFINE LInv == Inv /\ \E ls : Layout(ls)
<1>1. Init => LInv /\ R!Init
  <2> SUFFICES ASSUME Init PROVE LInv /\ R!Init
    OBVIOUS
  <2>1. Inv
    BY DEF Init, Inv, TypeOK, RingsAreClosed
  <2>2. Layout([h \in {} |-> <<>>])
    BY DEF Init, Layout
  <2>3. Walks = [h \in {} |-> <<>>]
    BY <2>2, SeenAsLaidOut DEF Seen
  <2> QED BY <2>1, <2>2, <2>3 DEF R!Init, Walks
<1>2. LInv /\ [Next]_vars /\ Seen' => LInv' /\ [R!Next]_Walks
  <2> SUFFICES ASSUME LInv, [Next]_vars, Seen' PROVE LInv' /\ [R!Next]_Walks
    OBVIOUS
  <2>1. Inv'
    BY Inductive
  <2>2. PICK ls : Layout(ls)
    OBVIOUS
  <2>3. PICK ls2 : Layout(ls2)' /\ (ls2 = ls \/ Steps(ls, ls2))
    BY <2>2, LayoutStep
  <2>4. Walks = ls
    BY <2>2, SeenAsLaidOut DEF Seen
  <2>5. Walks' = ls2
    BY <2>3 DEF Seen
  <2>6. Walks' = Walks \/ Steps(Walks, Walks')
    BY <2>3, <2>4, <2>5
  <2>7. [R!Next]_Walks
    BY <2>6, StepsAreRings
  <2> QED BY <2>1, <2>3, <2>7
<1>3. Seen
  BY SeenAsLaidOut
<1> HIDE DEF LInv
<1> QED BY <1>1, <1>2, <1>3, PTL DEF Spec, ImplementsRings, R!Spec, Walks
=============================================================================
