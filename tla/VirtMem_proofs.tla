--------------------------- MODULE VirtMem_proofs ---------------------------
(***************************************************************************)
(* Proofs about vm.c: the page tables, for every number of levels and      *)
(* every size of a table, and behind them the window of temporary mappings *)
(* through which the code reaches the tables.  First the walks get rules:  *)
(* every recursive function is the only one that satisfies its equation,   *)
(* because each call it makes has a lower rank.  Then indices and pages:   *)
(* where an address leaves the path to the kernel.  Then what each walk    *)
(* does to a chain of tables, by well-founded induction: SearchResult,     *)
(* MapResult, UnmapResult and FlagResult.  Last the invariant, one lemma   *)
(* for each action, and the theorems.                                      *)
(***************************************************************************)
EXTENDS VirtMem, TmpWindow, FiniteSetTheorems, WellFoundedInduction, TLAPS

-----------------------------------------------------------------------------
(* A set of numbers has a least element.                                   *)
LEMMA HasLeast ==
  ASSUME NEW S \in SUBSET Nat, S # {}
  PROVE  \E x \in S : \A y \in S : x <= y
<1>1. PICK R0 : IsWellFoundedOn(R0, Nat) /\ \A x, y \in Nat : x < y => <<x, y>> \in R0
  <2> DEFINE R0 == OpToRel(<, Nat)
  <2>1. \A x, y \in Nat : x < y => <<x, y>> \in R0
    BY DEF OpToRel
  <2>2. IsWellFoundedOn(R0, Nat)
    BY NatLessThanWellFounded DEF R0
  <2> QED BY <2>1, <2>2, Zenon
<1>a. IsWellFoundedOn(R0, Nat)
  BY <1>1
<1>2. PICK x \in S : \A y \in S : ~(<<y, x>> \in R0)
  BY <1>a, WFMin, Zenon
<1>3. ASSUME NEW y \in S PROVE x <= y
  <2>1. ~(y < x)
    BY <1>1, <1>2, Zenon
  <2> QED BY <2>1
<1> QED BY <1>3

(* What fails somewhere fails at a place of least rank.                    *)
LEMMA LeastBad ==
  ASSUME NEW D, NEW rank \in [D -> Nat], NEW Bad \in SUBSET D, Bad # {}
  PROVE  \E p \in Bad : \A q \in D : rank[q] < rank[p] => q \notin Bad
<1> DEFINE S == {rank[p] : p \in Bad}
<1>1. S \in SUBSET Nat /\ S # {}
  OBVIOUS
<1>2. PICK x \in S : \A y \in S : x <= y
  <2> HIDE DEF S
  <2> QED BY <1>1, HasLeast
<1>3. PICK p \in Bad : rank[p] = x
  OBVIOUS
<1>4. ASSUME NEW q \in D, rank[q] < rank[p], q \in Bad PROVE FALSE
  <2>1. rank[q] \in S /\ rank[q] \in Nat /\ rank[p] \in Nat
    BY <1>4
  <2> QED BY <1>2, <1>3, <1>4, <2>1
<1> QED BY <1>4

(* A recursion that only looks at arguments of lower rank has a solution.  *)
Recursion(D, V, rank, F) ==
  /\ D # {} => V # {}
  /\ rank \in [D -> Nat]
  /\ F \in [[D -> V] -> [D -> V]]
  /\ \A g, h \in [D -> V], p \in D :
       (\A q \in D : rank[q] < rank[p] => g[q] = h[q]) => F[g][p] = F[h][p]
Solves(D, V, F, f) == f \in [D -> V] /\ f = F[f]

LEMMA WFRec ==
  ASSUME NEW D, NEW V, NEW rank, NEW F, Recursion(D, V, rank, F)
  PROVE  \E f : Solves(D, V, F, f)
<1>a. (D # {} => V # {}) /\ rank \in [D -> Nat] /\ F \in [[D -> V] -> [D -> V]]
  BY DEF Recursion
<1> USE <1>a
<1>0. \A g, h \in [D -> V], p \in D :
        (\A q \in D : rank[q] < rank[p] => g[q] = h[q]) => F[g][p] = F[h][p]
  BY DEF Recursion
<1> DEFINE Upto(g, m) == \A p \in D : rank[p] < m => g[p] = F[g][p]
           Has(m) == \E g \in [D -> V] : Upto(g, m)
           N == {m \in Nat : ~Has(m)}
<1>1. \A m \in Nat : Has(m)
  <2> SUFFICES ASSUME N # {} PROVE FALSE
    OBVIOUS
  <2>1. PICK m \in N : \A y \in N : m <= y
    <3>1. N \in SUBSET Nat
      OBVIOUS
    <3> HIDE DEF N
    <3> QED BY <3>1, HasLeast
  <2>2. m \in Nat /\ ~Has(m)
    OBVIOUS
  <2>3. CASE m = 0
    <3>0. PICK g : g \in [D -> V]
      <4>1. CASE D = {}
        <5>1. [p \in D |-> p] \in [D -> V]
          BY <4>1
        <5> QED BY <5>1
      <4>2. CASE D # {}
        <5>1. PICK v0 : v0 \in V
          BY <4>2
        <5>2. [p \in D |-> v0] \in [D -> V]
          BY <5>1
        <5> QED BY <5>2
      <4> QED BY <4>1, <4>2
    <3>1. g \in [D -> V]
      BY <3>0
    <3>2. Upto(g, 0)
      OBVIOUS
    <3> QED BY <2>2, <2>3, <3>1, <3>2
  <2>4. CASE m # 0
    <3>1. m - 1 \in Nat /\ ~(m <= m - 1)
      BY <2>2, <2>4
    <3>2. PICK g \in [D -> V] : Upto(g, m - 1)
      BY <2>1, <3>1
    <3>3. PICK h : h = F[g]
      OBVIOUS
    <3>4. h \in [D -> V]
      BY <3>3
    <3>5. ASSUME NEW p \in D, rank[p] < m PROVE h[p] = F[h][p]
      <4>1. \A q \in D : rank[q] < rank[p] => g[q] = h[q]
        BY <2>2, <3>2, <3>3, <3>5
      <4>2. F[g][p] = F[h][p]
        BY <1>0, <3>4, <4>1
      <4> QED BY <3>3, <4>2
    <3>6. Upto(h, m)
      BY <3>5
    <3> QED BY <2>2, <3>4, <3>6
  <2> QED BY <2>3, <2>4
<1>2. ASSUME NEW g \in [D -> V], NEW h \in [D -> V], NEW m \in Nat, NEW k \in Nat,
             Upto(g, m), Upto(h, k), NEW p \in D, rank[p] < m, rank[p] < k
      PROVE  g[p] = h[p]
  <2> DEFINE Bad == {q \in D : rank[q] < m /\ rank[q] < k /\ g[q] # h[q]}
  <2> SUFFICES ASSUME Bad # {} PROVE FALSE
    BY <1>2
  <2>1. PICK b \in Bad : \A q \in D : rank[q] < rank[b] => q \notin Bad
    <3>1. Bad \in SUBSET D
      OBVIOUS
    <3> HIDE DEF Bad
    <3> QED BY <3>1, LeastBad
  <2>2. \A q \in D : rank[q] < rank[b] => g[q] = h[q]
    BY <2>1
  <2>3. F[g][b] = F[h][b]
    BY <1>0, <2>2
  <2> QED BY <1>2, <2>3
<1> DEFINE G(m) == CHOOSE g \in [D -> V] : Upto(g, m)
           f == [p \in D |-> G(rank[p] + 1)[p]]
<1>3. \A m \in Nat : G(m) \in [D -> V] /\ Upto(G(m), m)
  BY <1>1
<1> HIDE DEF G
<1>4. f \in [D -> V]
  BY <1>3
<1>5. ASSUME NEW p \in D PROVE f[p] = F[f][p]
  <2>1. PICK g \in [D -> V] : g = G(rank[p] + 1) /\ Upto(g, rank[p] + 1)
    BY <1>3
  <2>2. \A q \in D : rank[q] < rank[p] + 1 => f[q] = g[q]
    <3> TAKE q \in D
    <3> HAVE rank[q] < rank[p] + 1
    <3>1. f[q] = G(rank[q] + 1)[q] /\ rank[q] + 1 \in Nat /\ rank[p] + 1 \in Nat
      OBVIOUS
    <3>2. G(rank[q] + 1) \in [D -> V] /\ Upto(G(rank[q] + 1), rank[q] + 1)
      BY <1>3, <3>1
    <3>3. rank[q] < rank[q] + 1
      OBVIOUS
    <3> HIDE DEF Upto, f
    <3> QED BY <1>2, <2>1, <3>1, <3>2, <3>3
  <2>3. \A q \in D : rank[q] < rank[p] => f[q] = g[q]
    BY <2>2
  <2>4. F[f][p] = F[g][p]
    <3> HIDE DEF f
    <3> QED BY <1>0, <1>4, <2>3
  <2> QED BY <2>1, <2>2, <2>4
<1>6. F[f] = f
  <2> HIDE DEF f
  <2>1. F[f] \in [D -> V]
    BY <1>4
  <2> QED BY <1>4, <1>5, <2>1
<1>7. \E x : x \in [D -> V] /\ x = F[x]
  BY <1>4, <1>6
<1> HIDE DEF f
<1> QED BY <1>7 DEF Solves

(* It has only one.                                                        *)
AgreesUp(D, rank, e, f) ==
  \A p \in D : (\A q \in D : rank[q] < rank[p] => f[q] = e[q]) => f[p] = e[p]

LEMMA OneSolution ==
  ASSUME NEW D, NEW rank \in [D -> Nat], NEW e, NEW f,
         e = [p \in D |-> e[p]], f = [p \in D |-> f[p]], AgreesUp(D, rank, e, f)
  PROVE  f = e
<1> DEFINE Bad == {p \in D : f[p] # e[p]}
<1>1. Bad = {}
  <2> SUFFICES ASSUME Bad # {} PROVE FALSE
    OBVIOUS
  <2>1. Bad \in SUBSET D
    OBVIOUS
  <2>2. PICK p \in Bad : \A q \in D : rank[q] < rank[p] => q \notin Bad
    <3> HIDE DEF Bad
    <3> QED BY <2>1, LeastBad
  <2> QED BY <2>2 DEF AgreesUp
<1>2. \A p \in D : f[p] = e[p]
  BY <1>1
<1> QED BY <1>2

-----------------------------------------------------------------------------
(* Levels, entries and the places of a walk.                               *)
LEMMA LevelFacts ==
  /\ Last \in Nat /\ Last # 0 /\ 0 \in Levels /\ Last \in Levels /\ Last - 1 \in Levels
  /\ Last = LEVELS - 1 /\ Last - 1 \in 0..(Last - 1)
  /\ PT_LENGTH \in Nat /\ PT_LENGTH # 0 /\ 0 \in Index
  /\ \A l \in Levels : l \in Nat /\ l <= Last /\ (l # Last => l + 1 \in Levels /\ l \in 0..(Last - 1))
  /\ \A l \in Levels : l # 0 => l - 1 \in Levels /\ l - 1 # Last
  /\ \A i \in Index : i \in Nat /\ i < PT_LENGTH /\ i \in 0..PT_LENGTH /\ i + 1 \in 0..PT_LENGTH
  /\ \A i \in 0..PT_LENGTH : i # PT_LENGTH => i \in Index
  /\ \A i \in Nat : i < PT_LENGTH => i \in Index
BY PathAssumption DEF Last, Levels, Index

Rank(l, i) == (Last - l) * (PT_LENGTH + 2) + (PT_LENGTH + 1 - i)

LEMMA RankDown ==
  ASSUME NEW l \in Levels, NEW i \in 0..(PT_LENGTH + 1)
  PROVE  /\ Rank(l, i) \in Nat
         /\ \A j \in 0..(PT_LENGTH + 1) : j > i => Rank(l, j) < Rank(l, i)
         /\ l # Last => \A j \in 0..(PT_LENGTH + 1) : Rank(l + 1, j) < Rank(l, i)
<1> DEFINE W == PT_LENGTH + 2
           a == (Last - l) * W
           b == (Last - (l + 1)) * W
<1>1. W \in Nat /\ PT_LENGTH \in Nat /\ l \in Nat /\ Last - l \in Nat
  BY LevelFacts
<1>2. a \in Nat
  <2> HIDE DEF W
  <2> QED BY <1>1
<1>3. a = b + W
  <2>1. \A x \in Int : x * W = (x - 1) * W + W
    <3> HIDE DEF W
    <3> QED BY <1>1
  <2>2. Last - (l + 1) = (Last - l) - 1
    BY <1>1, LevelFacts
  <2> HIDE DEF W
  <2> QED BY <1>1, <2>1, <2>2
<1>4. b \in Int
  <2> HIDE DEF W
  <2> QED BY <1>1, LevelFacts
<1>5. \A j \in 0..(PT_LENGTH + 1) : Rank(l, j) = a + (PT_LENGTH + 1 - j) /\ Rank(l + 1, j) = b + (PT_LENGTH + 1 - j)
  BY DEF Rank
<1> HIDE DEF a, b
<1> QED BY <1>1, <1>2, <1>3, <1>4, <1>5

Put(t, l, i, e) == [t EXCEPT ![l][i] = e]

LEMMA PutFacts ==
  ASSUME NEW t \in Tables, NEW l \in Levels, NEW i \in Index, NEW e \in Entry
  PROVE  /\ Put(t, l, i, e) \in Tables
         /\ \A k \in Levels, j \in Index :
              Put(t, l, i, e)[k][j] = IF k = l /\ j = i THEN e ELSE t[k][j]
<1> HIDE DEF Entry, Levels, Index
<1> QED BY DEF Put, Tables

LEMMA EntryFacts ==
  /\ \A frame \in Int : \A flags : set_pte(frame, flags) \in Entry
  /\ \A e \in Entry : \A flags : update_pt_pte_flags(e, flags) \in Entry
  /\ NoEntry \in Entry
<1>1. FRAMES \in Nat /\ FRAMES # 0
  BY CallerAssumption
<1>2. \A frame \in Int : frame % FRAMES \in 0..(FRAMES - 1)
  BY <1>1
<1>3. \A frame \in Int : \A flags : set_pte(frame, flags) \in Entry
  BY <1>2 DEF set_pte, Entry
<1>4. \A e \in Entry : \A flags : update_pt_pte_flags(e, flags) \in Entry
  <2>1. \A e \in Entry, a, b \in BOOLEAN :
          [e EXCEPT !.writable = a, !.user = b, !.no_execute = FALSE] \in Entry
    BY DEF Entry
  <2>2. \A flags : ("WRITABLE" \in flags) \in BOOLEAN /\ ("USER" \in flags) \in BOOLEAN
    OBVIOUS
  <2> QED BY <2>1, <2>2, Zenon DEF update_pt_pte_flags
<1>5. NoEntry \in Entry
  BY <1>1 DEF NoEntry, Entry
<1> QED BY <1>3, <1>4, <1>5

-----------------------------------------------------------------------------
(* recurse_map as a recursion.                                             *)
FillBody(f, index, flags, w) ==
  LET l == w.level
      e == w.tables[l][w.i]
      next(x) == f[[x EXCEPT !.level = l, !.i = w.i + 1]]
      flagged == [w EXCEPT !.tables[l][w.i] = update_pt_pte_flags(e, flags)]
  IN  IF w.i = PT_LENGTH \/ w.pages = 0 \/ w.fault THEN w
      ELSE IF l = Last
      THEN next(IF e.present THEN w
                ELSE [w EXCEPT !.tables[l][w.i] = set_pte(w.frame, flags),
                               !.frame = @ + 1, !.pages = @ - 1])
      ELSE IF e.present
      THEN next(f[[flagged EXCEPT !.level = l + 1, !.i = index[l + 1]]])
      ELSE [w EXCEPT !.fault = TRUE]

LEMMA FillBodyIs ==
  ASSUME NEW index, NEW flags
  PROVE  recurse_map(index, flags) = CHOOSE f : f = [w \in MapWalks |-> FillBody(f, index, flags, w)]
BY DEF recurse_map, FillBody

LEMMA FillArgs ==
  ASSUME NEW index \in Paths, NEW flags, NEW w \in MapWalks,
         ~(w.i = PT_LENGTH \/ w.pages = 0 \/ w.fault)
  PROVE  LET l == w.level
             e == w.tables[l][w.i]
             flagged == [w EXCEPT !.tables[l][w.i] = update_pt_pte_flags(e, flags)]
             filled == [w EXCEPT !.tables[l][w.i] = set_pte(w.frame, flags), !.frame = @ + 1, !.pages = @ - 1]
         IN  /\ l \in Levels /\ w.i \in Index /\ e \in Entry /\ w.i + 1 \in 0..PT_LENGTH
             /\ flagged = [w EXCEPT !.tables = Put(w.tables, l, w.i, update_pt_pte_flags(e, flags))]
             /\ filled = [w EXCEPT !.tables = Put(w.tables, l, w.i, set_pte(w.frame, flags)), !.frame = @ + 1, !.pages = @ - 1]
             /\ filled \in MapWalks /\ flagged \in MapWalks
             /\ [w EXCEPT !.fault = TRUE] \in MapWalks
             /\ l # Last => [flagged EXCEPT !.level = l + 1, !.i = index[l + 1]] \in MapWalks
             /\ \A x \in MapWalks : [x EXCEPT !.level = l, !.i = w.i + 1] \in MapWalks
<1> DEFINE l == w.level
           e == w.tables[l][w.i]
           a == update_pt_pte_flags(e, flags)
           b == set_pte(w.frame, flags)
<1>1. /\ l \in Levels /\ w.i \in Index /\ w.tables \in Tables /\ w.i + 1 \in 0..PT_LENGTH
      /\ w.frame \in Int /\ w.pages \in Nat /\ w.pages # 0
  BY LevelFacts DEF MapWalks
<1>2. e \in Entry
  BY <1>1 DEF Tables
<1>3. a \in Entry /\ b \in Entry
  BY <1>1, <1>2, EntryFacts
<1>4. Put(w.tables, l, w.i, a) \in Tables /\ Put(w.tables, l, w.i, b) \in Tables
  BY <1>1, <1>3, PutFacts
<1>5. /\ [w EXCEPT !.tables[l][w.i] = a] = [w EXCEPT !.tables = Put(w.tables, l, w.i, a)]
      /\ [w EXCEPT !.tables[l][w.i] = b, !.frame = @ + 1, !.pages = @ - 1]
         = [w EXCEPT !.tables = Put(w.tables, l, w.i, b), !.frame = @ + 1, !.pages = @ - 1]
  <2> HIDE DEF a, b
  <2> QED BY DEF Put, MapWalks
<1>6. \A t \in Tables : /\ [w EXCEPT !.tables = t, !.frame = @ + 1, !.pages = @ - 1] \in MapWalks
                        /\ [w EXCEPT !.tables = t] \in MapWalks
  <2>1. w.frame + 1 \in Int /\ w.pages - 1 \in Nat
    BY <1>1
  <2> HIDE DEF Tables, Levels
  <2>2. \A t \in Tables : [w EXCEPT !.tables = t] \in MapWalks
    BY DEF MapWalks
  <2>3. \A t \in Tables : [w EXCEPT !.tables = t, !.frame = @ + 1, !.pages = @ - 1] \in MapWalks
    BY <2>1 DEF MapWalks
  <2> QED BY <2>2, <2>3
<1>7. [w EXCEPT !.fault = TRUE] \in MapWalks
  BY DEF MapWalks
<1>8. \A x \in MapWalks, k \in Levels, i \in 0..PT_LENGTH : [x EXCEPT !.level = k, !.i = i] \in MapWalks
  BY DEF MapWalks
<1>9. l # Last => l + 1 \in Levels /\ index[l + 1] \in 0..PT_LENGTH
  BY <1>1, LevelFacts DEF Paths
<1> HIDE DEF a, b
<1>10. \A x \in MapWalks : [x EXCEPT !.level = l, !.i = w.i + 1] \in MapWalks
  BY <1>1, <1>8
<1>11. /\ [w EXCEPT !.tables[l][w.i] = a] \in MapWalks
       /\ [w EXCEPT !.tables[l][w.i] = b, !.frame = @ + 1, !.pages = @ - 1] \in MapWalks
  BY <1>4, <1>5, <1>6, Zenon
<1>12. l # Last => [[w EXCEPT !.tables[l][w.i] = a] EXCEPT !.level = l + 1, !.i = index[l + 1]] \in MapWalks
  BY <1>8, <1>9, <1>11, Zenon
<1> QED BY <1>1, <1>2, <1>5, <1>7, <1>10, <1>11, <1>12, Zenon DEF a, b

LEMMA FillCong ==
  ASSUME NEW index \in Paths, NEW flags, NEW w \in MapWalks, NEW g, NEW h \in [MapWalks -> MapWalks],
         \A q \in MapWalks : Rank(q.level, q.i) < Rank(w.level, w.i) => g[q] = h[q]
  PROVE  /\ FillBody(h, index, flags, w) \in MapWalks
         /\ FillBody(g, index, flags, w) = FillBody(h, index, flags, w)
<1>1. CASE w.i = PT_LENGTH \/ w.pages = 0 \/ w.fault
  BY <1>1 DEF FillBody
<1>2. CASE ~(w.i = PT_LENGTH \/ w.pages = 0 \/ w.fault)
  <2> DEFINE l == w.level
             e == w.tables[l][w.i]
             flagged == [w EXCEPT !.tables[l][w.i] = update_pt_pte_flags(e, flags)]
             filled == [w EXCEPT !.tables[l][w.i] = set_pte(w.frame, flags), !.frame = @ + 1, !.pages = @ - 1]
             next(x) == [x EXCEPT !.level = l, !.i = w.i + 1]
             down == [flagged EXCEPT !.level = l + 1, !.i = index[l + 1]]
             fault == [w EXCEPT !.fault = TRUE]
  <2>1. /\ l \in Levels /\ w.i \in Index /\ w.i + 1 \in 0..PT_LENGTH
        /\ filled \in MapWalks /\ flagged \in MapWalks /\ fault \in MapWalks
        /\ l # Last => down \in MapWalks
        /\ \A x \in MapWalks : next(x) \in MapWalks
    BY <1>2, FillArgs, Zenon
  <2>2. \A x \in MapWalks : next(x).level = l /\ next(x).i = w.i + 1
    BY DEF MapWalks
  <2>3. l # Last => down.level = l + 1 /\ down.i = index[l + 1] /\ index[l + 1] \in 0..PT_LENGTH
    <3> HIDE DEF flagged
    <3>1. flagged \in MapWalks
      BY <2>1
    <3>2. l # Last => index[l + 1] \in 0..PT_LENGTH
      BY <2>1, LevelFacts DEF Paths
    <3> QED BY <3>1, <3>2 DEF MapWalks
  <2> HIDE DEF l, e, flagged, filled, down, fault
  <2>4. w.level = l /\ w.i \in 0..(PT_LENGTH + 1) /\ w.i + 1 \in 0..(PT_LENGTH + 1) /\ w.i + 1 > w.i
    <3>1. w.level = l
      BY DEF l
    <3>2. w.i \in Nat /\ w.i < PT_LENGTH /\ PT_LENGTH \in Nat
      BY <2>1, LevelFacts
    <3> QED BY <3>1, <3>2
  <2>5. \A x \in MapWalks : Rank(next(x).level, next(x).i) < Rank(w.level, w.i)
    BY <2>1, <2>2, <2>4, RankDown
  <2>6. l # Last => Rank(down.level, down.i) < Rank(w.level, w.i)
    <3>1. \A j \in 0..PT_LENGTH : j \in 0..(PT_LENGTH + 1)
      BY LevelFacts
    <3> QED BY <2>1, <2>3, <2>4, <3>1, RankDown
  <2>7. \A x \in MapWalks : g[next(x)] = h[next(x)] /\ h[next(x)] \in MapWalks
    BY <2>1, <2>5
  <2>8. l # Last => g[down] = h[down] /\ h[down] \in MapWalks
    BY <2>1, <2>6
  <2>9. \A f : FillBody(f, index, flags, w) =
                 IF l = Last THEN f[next(IF e.present THEN w ELSE filled)]
                 ELSE IF e.present THEN f[next(f[down])] ELSE fault
    BY <1>2 DEF FillBody, l, e, flagged, filled, down, fault
  <2> HIDE DEF next
  <2> QED BY <2>1, <2>7, <2>8, <2>9
<1> QED BY <1>1, <1>2

LEMMA FillRule ==
  ASSUME NEW index \in Paths, NEW flags
  PROVE  /\ recurse_map(index, flags) \in [MapWalks -> MapWalks]
         /\ \A w \in MapWalks :
              recurse_map(index, flags)[w] = FillBody(recurse_map(index, flags), index, flags, w)
<1> DEFINE rank == [w \in MapWalks |-> Rank(w.level, w.i)]
           F == [g \in [MapWalks -> MapWalks] |-> [w \in MapWalks |-> FillBody(g, index, flags, w)]]
           Eq(f) == f = [w \in MapWalks |-> FillBody(f, index, flags, w)]
<1>1. rank \in [MapWalks -> Nat]
  <2>1. \A w \in MapWalks : w.level \in Levels /\ w.i \in 0..(PT_LENGTH + 1)
    BY LevelFacts DEF MapWalks
  <2> QED BY <2>1, RankDown
<1>2. ASSUME NEW w \in MapWalks, NEW g, NEW h \in [MapWalks -> MapWalks],
             \A q \in MapWalks : rank[q] < rank[w] => g[q] = h[q]
      PROVE  FillBody(h, index, flags, w) \in MapWalks
             /\ FillBody(g, index, flags, w) = FillBody(h, index, flags, w)
  <2>1. \A q \in MapWalks : Rank(q.level, q.i) < Rank(w.level, w.i) => g[q] = h[q]
    BY <1>2
  <2> QED BY <2>1, FillCong
<1>3. F \in [[MapWalks -> MapWalks] -> [MapWalks -> MapWalks]]
  <2>1. ASSUME NEW g \in [MapWalks -> MapWalks], NEW w \in MapWalks
        PROVE  FillBody(g, index, flags, w) \in MapWalks
    BY <1>2
  <2> QED BY <2>1
<1>4. PICK e : e \in [MapWalks -> MapWalks] /\ e = F[e]
  <2>1. Recursion(MapWalks, MapWalks, rank, F)
    <3> HIDE DEF rank
    <3> QED BY <1>1, <1>2, <1>3 DEF Recursion
  <2> HIDE DEF rank, F
  <2>2. PICK e : Solves(MapWalks, MapWalks, F, e)
    BY <2>1, WFRec, Zenon
  <2> QED BY <2>2 DEF Solves
<1>5. Eq(e)
  BY <1>4
<1>6. PICK f : f = recurse_map(index, flags)
  OBVIOUS
<1>7. Eq(f)
  <2> HIDE DEF Eq
  <2>1. recurse_map(index, flags) = CHOOSE x : Eq(x)
    BY FillBodyIs DEF Eq
  <2> QED BY <1>5, <1>6, <2>1
<1>8. f = e
  <2>1. AgreesUp(MapWalks, rank, e, f)
    <3> HIDE DEF rank
    <3> QED BY <1>2, <1>4, <1>5, <1>7 DEF AgreesUp
  <2>2. e = [w \in MapWalks |-> e[w]] /\ f = [w \in MapWalks |-> f[w]]
    BY <1>5, <1>7
  <2> HIDE DEF rank, F, Eq
  <2> QED BY <1>1, <2>1, <2>2, OneSolution, Zenon
<1> QED BY <1>4, <1>5, <1>6, <1>8

-----------------------------------------------------------------------------
(* recurse_flag as a recursion.                                            *)
FlagBody(f, index, flags, w) ==
  LET l == w.level
      e == w.tables[l][w.i]
      next(x) == f[[x EXCEPT !.level = l, !.i = w.i + 1]]
      flagged == [w EXCEPT !.tables[l][w.i] = update_pt_pte_flags(e, flags)]
  IN  IF w.i = PT_LENGTH \/ w.pages = 0 \/ w.missing THEN w
      ELSE IF ~e.present THEN [w EXCEPT !.missing = TRUE]
      ELSE IF l = Last
      THEN next([w EXCEPT !.tables[l][w.i] = set_pte(e.frame, flags), !.pages = @ - 1])
      ELSE next(f[[flagged EXCEPT !.level = l + 1, !.i = index[l + 1]]])

LEMMA FlagBodyIs ==
  ASSUME NEW index, NEW flags
  PROVE  recurse_flag(index, flags) = CHOOSE f : f = [w \in FlagWalks |-> FlagBody(f, index, flags, w)]
BY DEF recurse_flag, FlagBody

LEMMA FlagArgs ==
  ASSUME NEW index \in Paths, NEW flags, NEW w \in FlagWalks,
         ~(w.i = PT_LENGTH \/ w.pages = 0 \/ w.missing)
  PROVE  LET l == w.level
             e == w.tables[l][w.i]
             flagged == [w EXCEPT !.tables[l][w.i] = update_pt_pte_flags(e, flags)]
             done == [w EXCEPT !.tables[l][w.i] = set_pte(e.frame, flags), !.pages = @ - 1]
         IN  /\ l \in Levels /\ w.i \in Index /\ e \in Entry /\ w.i + 1 \in 0..PT_LENGTH
             /\ flagged = [w EXCEPT !.tables = Put(w.tables, l, w.i, update_pt_pte_flags(e, flags))]
             /\ done = [w EXCEPT !.tables = Put(w.tables, l, w.i, set_pte(e.frame, flags)), !.pages = @ - 1]
             /\ done \in FlagWalks /\ flagged \in FlagWalks
             /\ [w EXCEPT !.missing = TRUE] \in FlagWalks
             /\ l # Last => [flagged EXCEPT !.level = l + 1, !.i = index[l + 1]] \in FlagWalks
             /\ \A x \in FlagWalks : [x EXCEPT !.level = l, !.i = w.i + 1] \in FlagWalks
<1> DEFINE l == w.level
           e == w.tables[l][w.i]
           a == update_pt_pte_flags(e, flags)
           b == set_pte(e.frame, flags)
<1>1. /\ l \in Levels /\ w.i \in Index /\ w.tables \in Tables /\ w.i + 1 \in 0..PT_LENGTH
      /\ w.pages \in Nat /\ w.pages # 0
  BY LevelFacts DEF FlagWalks
<1>2. e \in Entry /\ e.frame \in Int
  <2>1. e \in Entry
    BY <1>1 DEF Tables
  <2> QED BY <2>1, CallerAssumption DEF Entry
<1>3. a \in Entry /\ b \in Entry
  BY <1>1, <1>2, EntryFacts
<1>4. Put(w.tables, l, w.i, a) \in Tables /\ Put(w.tables, l, w.i, b) \in Tables
  BY <1>1, <1>3, PutFacts
<1>5. /\ [w EXCEPT !.tables[l][w.i] = a] = [w EXCEPT !.tables = Put(w.tables, l, w.i, a)]
      /\ [w EXCEPT !.tables[l][w.i] = b, !.pages = @ - 1]
         = [w EXCEPT !.tables = Put(w.tables, l, w.i, b), !.pages = @ - 1]
  <2> HIDE DEF a, b
  <2> QED BY DEF Put, FlagWalks
<1>6. \A t \in Tables : /\ [w EXCEPT !.tables = t, !.pages = @ - 1] \in FlagWalks
                        /\ [w EXCEPT !.tables = t] \in FlagWalks
  <2>1. w.pages - 1 \in Nat
    BY <1>1
  <2> HIDE DEF Tables, Levels
  <2>2. \A t \in Tables : [w EXCEPT !.tables = t] \in FlagWalks
    BY DEF FlagWalks
  <2>3. \A t \in Tables : [w EXCEPT !.tables = t, !.pages = @ - 1] \in FlagWalks
    BY <2>1 DEF FlagWalks
  <2> QED BY <2>2, <2>3
<1>7. [w EXCEPT !.missing = TRUE] \in FlagWalks
  BY DEF FlagWalks
<1>8. \A x \in FlagWalks, k \in Levels, i \in 0..PT_LENGTH : [x EXCEPT !.level = k, !.i = i] \in FlagWalks
  BY DEF FlagWalks
<1>9. l # Last => l + 1 \in Levels /\ index[l + 1] \in 0..PT_LENGTH
  BY <1>1, LevelFacts DEF Paths
<1> HIDE DEF a, b
<1>10. \A x \in FlagWalks : [x EXCEPT !.level = l, !.i = w.i + 1] \in FlagWalks
  BY <1>1, <1>8
<1>11. /\ [w EXCEPT !.tables[l][w.i] = a] \in FlagWalks
       /\ [w EXCEPT !.tables[l][w.i] = b, !.pages = @ - 1] \in FlagWalks
  BY <1>4, <1>5, <1>6, Zenon
<1>12. l # Last => [[w EXCEPT !.tables[l][w.i] = a] EXCEPT !.level = l + 1, !.i = index[l + 1]] \in FlagWalks
  BY <1>8, <1>9, <1>11, Zenon
<1> QED BY <1>1, <1>2, <1>5, <1>7, <1>10, <1>11, <1>12, Zenon DEF a, b

LEMMA FlagCong ==
  ASSUME NEW index \in Paths, NEW flags, NEW w \in FlagWalks, NEW g, NEW h \in [FlagWalks -> FlagWalks],
         \A q \in FlagWalks : Rank(q.level, q.i) < Rank(w.level, w.i) => g[q] = h[q]
  PROVE  /\ FlagBody(h, index, flags, w) \in FlagWalks
         /\ FlagBody(g, index, flags, w) = FlagBody(h, index, flags, w)
<1>1. CASE w.i = PT_LENGTH \/ w.pages = 0 \/ w.missing
  BY <1>1 DEF FlagBody
<1>2. CASE ~(w.i = PT_LENGTH \/ w.pages = 0 \/ w.missing)
  <2> DEFINE l == w.level
             e == w.tables[l][w.i]
             flagged == [w EXCEPT !.tables[l][w.i] = update_pt_pte_flags(e, flags)]
             done == [w EXCEPT !.tables[l][w.i] = set_pte(e.frame, flags), !.pages = @ - 1]
             next(x) == [x EXCEPT !.level = l, !.i = w.i + 1]
             down == [flagged EXCEPT !.level = l + 1, !.i = index[l + 1]]
             missing == [w EXCEPT !.missing = TRUE]
  <2>1. /\ l \in Levels /\ w.i \in Index /\ w.i + 1 \in 0..PT_LENGTH
        /\ done \in FlagWalks /\ flagged \in FlagWalks /\ missing \in FlagWalks
        /\ l # Last => down \in FlagWalks
        /\ \A x \in FlagWalks : next(x) \in FlagWalks
    BY <1>2, FlagArgs, Zenon
  <2>2. \A x \in FlagWalks : next(x).level = l /\ next(x).i = w.i + 1
    BY DEF FlagWalks
  <2>3. l # Last => down.level = l + 1 /\ down.i = index[l + 1] /\ index[l + 1] \in 0..PT_LENGTH
    <3> HIDE DEF flagged
    <3>1. flagged \in FlagWalks
      BY <2>1
    <3>2. l # Last => index[l + 1] \in 0..PT_LENGTH
      BY <2>1, LevelFacts DEF Paths
    <3> QED BY <3>1, <3>2 DEF FlagWalks
  <2> HIDE DEF l, e, flagged, done, down, missing
  <2>4. w.level = l /\ w.i \in 0..(PT_LENGTH + 1) /\ w.i + 1 \in 0..(PT_LENGTH + 1) /\ w.i + 1 > w.i
    <3>1. w.level = l
      BY DEF l
    <3>2. w.i \in Nat /\ w.i < PT_LENGTH /\ PT_LENGTH \in Nat
      BY <2>1, LevelFacts
    <3> QED BY <3>1, <3>2
  <2>5. \A x \in FlagWalks : Rank(next(x).level, next(x).i) < Rank(w.level, w.i)
    BY <2>1, <2>2, <2>4, RankDown
  <2>6. l # Last => Rank(down.level, down.i) < Rank(w.level, w.i)
    <3>1. \A j \in 0..PT_LENGTH : j \in 0..(PT_LENGTH + 1)
      BY LevelFacts
    <3> QED BY <2>1, <2>3, <2>4, <3>1, RankDown
  <2>7. \A x \in FlagWalks : g[next(x)] = h[next(x)] /\ h[next(x)] \in FlagWalks
    BY <2>1, <2>5
  <2>8. l # Last => g[down] = h[down] /\ h[down] \in FlagWalks
    BY <2>1, <2>6
  <2>9. \A f : FlagBody(f, index, flags, w) =
                 IF ~e.present THEN missing
                 ELSE IF l = Last THEN f[next(done)] ELSE f[next(f[down])]
    BY <1>2 DEF FlagBody, l, e, flagged, done, down, missing
  <2> HIDE DEF next
  <2> QED BY <2>1, <2>7, <2>8, <2>9
<1> QED BY <1>1, <1>2

LEMMA FlagRule ==
  ASSUME NEW index \in Paths, NEW flags
  PROVE  /\ recurse_flag(index, flags) \in [FlagWalks -> FlagWalks]
         /\ \A w \in FlagWalks :
              recurse_flag(index, flags)[w] = FlagBody(recurse_flag(index, flags), index, flags, w)
<1> DEFINE rank == [w \in FlagWalks |-> Rank(w.level, w.i)]
           F == [g \in [FlagWalks -> FlagWalks] |-> [w \in FlagWalks |-> FlagBody(g, index, flags, w)]]
           Eq(f) == f = [w \in FlagWalks |-> FlagBody(f, index, flags, w)]
<1>1. rank \in [FlagWalks -> Nat]
  <2>1. \A w \in FlagWalks : w.level \in Levels /\ w.i \in 0..(PT_LENGTH + 1)
    BY LevelFacts DEF FlagWalks
  <2> QED BY <2>1, RankDown
<1>2. ASSUME NEW w \in FlagWalks, NEW g, NEW h \in [FlagWalks -> FlagWalks],
             \A q \in FlagWalks : rank[q] < rank[w] => g[q] = h[q]
      PROVE  FlagBody(h, index, flags, w) \in FlagWalks
             /\ FlagBody(g, index, flags, w) = FlagBody(h, index, flags, w)
  <2>1. \A q \in FlagWalks : Rank(q.level, q.i) < Rank(w.level, w.i) => g[q] = h[q]
    BY <1>2
  <2> QED BY <2>1, FlagCong
<1>3. F \in [[FlagWalks -> FlagWalks] -> [FlagWalks -> FlagWalks]]
  <2>1. ASSUME NEW g \in [FlagWalks -> FlagWalks], NEW w \in FlagWalks
        PROVE  FlagBody(g, index, flags, w) \in FlagWalks
    BY <1>2
  <2> QED BY <2>1
<1>4. PICK e : e \in [FlagWalks -> FlagWalks] /\ e = F[e]
  <2>1. Recursion(FlagWalks, FlagWalks, rank, F)
    <3> HIDE DEF rank
    <3> QED BY <1>1, <1>2, <1>3 DEF Recursion
  <2> HIDE DEF rank, F
  <2>2. PICK e : Solves(FlagWalks, FlagWalks, F, e)
    BY <2>1, WFRec, Zenon
  <2> QED BY <2>2 DEF Solves
<1>5. Eq(e)
  BY <1>4
<1>6. PICK f : f = recurse_flag(index, flags)
  OBVIOUS
<1>7. Eq(f)
  <2> HIDE DEF Eq
  <2>1. recurse_flag(index, flags) = CHOOSE x : Eq(x)
    BY FlagBodyIs DEF Eq
  <2> QED BY <1>5, <1>6, <2>1
<1>8. f = e
  <2>1. AgreesUp(FlagWalks, rank, e, f)
    <3> HIDE DEF rank
    <3> QED BY <1>2, <1>4, <1>5, <1>7 DEF AgreesUp
  <2>2. e = [w \in FlagWalks |-> e[w]] /\ f = [w \in FlagWalks |-> f[w]]
    BY <1>5, <1>7
  <2> HIDE DEF rank, F, Eq
  <2> QED BY <1>1, <2>1, <2>2, OneSolution, Zenon
<1> QED BY <1>4, <1>5, <1>6, <1>8

-----------------------------------------------------------------------------
(* recurse_unmap as a recursion; the parts of a turn of its loop.          *)
Cleared(w) == [w EXCEPT !.tables[w.level][w.index[w.level]] = NoEntry, !.n = 1, !.cursor = @ + 1,
                        !.gone = @ \cup {w.cursor}]
Stepped(w) == [w EXCEPT !.n = get_pages_per_entry[w.level],
                        !.cursor = @ + get_pages_per_entry[w.level]]
Lower(w) == [w EXCEPT !.level = w.level + 1, !.n = 0]
Below(f, w) == IF w.level = Last THEN Cleared(w)
               ELSE IF w.tables[w.level][w.index[w.level]].present THEN f[Lower(w)]
               ELSE Stepped(w)
Summed(w, b) == [b EXCEPT !.level = w.level, !.n = w.n + @]
Turned(w, s) == [s EXCEPT !.index[w.level] = w.index[w.level] + 1]

ClearBody(f, pages, w) ==
  IF w.index[w.level] = PT_LENGTH \/ w.n >= pages THEN w
  ELSE IF Summed(w, Below(f, w)).n >= pages THEN Summed(w, Below(f, w))
  ELSE f[Turned(w, Summed(w, Below(f, w)))]

LEMMA ClearBodyIs ==
  ASSUME NEW pages
  PROVE  recurse_unmap(pages) = CHOOSE f : f = [w \in UnmapWalks |-> ClearBody(f, pages, w)]
BY DEF recurse_unmap, ClearBody, Below, Cleared, Stepped, Lower, Summed, Turned

(* get_pages_per_entry counts the entries of the last level.               *)
LEMMA PagesPerEntry ==
  /\ get_pages_per_entry \in [Levels -> Nat \ {0}]
  /\ get_pages_per_entry[Last] = 1
  /\ \A l \in Levels : l # Last => get_pages_per_entry[l] = PT_LENGTH * get_pages_per_entry[l + 1]
<1> DEFINE V == Nat \ {0}
           Body(g, l) == IF l = Last THEN 1 ELSE PT_LENGTH * g[l + 1]
           rank == [l \in Levels |-> Last - l]
           F == [g \in [Levels -> V] |-> [l \in Levels |-> Body(g, l)]]
           Eq(f) == f = [l \in Levels |-> Body(f, l)]
<1>0. \A a, b \in V : a * b \in V
  <2> SUFFICES ASSUME NEW a \in V, NEW b \in V PROVE a * b \in Nat /\ a * b # 0
    OBVIOUS
  <2> QED OBVIOUS
<1>1. rank \in [Levels -> Nat] /\ \A l \in Levels : l # Last => l + 1 \in Levels /\ rank[l + 1] < rank[l]
  BY LevelFacts
<1>2. F \in [[Levels -> V] -> [Levels -> V]]
  <2>1. ASSUME NEW g \in [Levels -> V], NEW l \in Levels PROVE Body(g, l) \in V
    <3>1. CASE l = Last
      BY <3>1
    <3>2. CASE l # Last
      <4>1. g[l + 1] \in V /\ PT_LENGTH \in V
        BY <3>2, LevelFacts
      <4> HIDE DEF V
      <4> QED BY <1>0, <3>2, <4>1
    <3> QED BY <3>1, <3>2
  <2> HIDE DEF V, Body
  <2> QED BY <2>1
<1>3. PICK e : e \in [Levels -> V] /\ e = F[e]
  <2>1. \A g, h \in [Levels -> V], p \in Levels :
          (\A q \in Levels : rank[q] < rank[p] => g[q] = h[q]) => F[g][p] = F[h][p]
    <3> HIDE DEF V, rank
    <3> QED BY <1>1
  <2>2. V # {}
    OBVIOUS
  <2>3. Recursion(Levels, V, rank, F)
    <3> HIDE DEF rank, F, V
    <3> QED BY <1>1, <1>2, <2>1, <2>2 DEF Recursion
  <2> HIDE DEF rank, F, V
  <2>4. PICK e : Solves(Levels, V, F, e)
    BY <2>3, WFRec, Zenon
  <2> QED BY <2>4 DEF Solves
<1>4. Eq(e)
  BY <1>3
<1>5. PICK f : f = get_pages_per_entry
  OBVIOUS
<1>6. Eq(f)
  <2>1. get_pages_per_entry = CHOOSE x : Eq(x)
    BY DEF get_pages_per_entry
  <2> HIDE DEF Eq
  <2> QED BY <1>4, <1>5, <2>1
<1>7. f = e
  <2>1. AgreesUp(Levels, rank, e, f)
    <3> HIDE DEF rank
    <3> QED BY <1>1, <1>4, <1>6 DEF AgreesUp
  <2>2. e = [w \in Levels |-> e[w]] /\ f = [w \in Levels |-> f[w]]
    BY <1>4, <1>6
  <2> HIDE DEF rank, F, Eq
  <2> QED BY <1>1, <2>1, <2>2, OneSolution, Zenon
<1> QED BY <1>3, <1>4, <1>5, <1>7, LevelFacts

LEMMA ClearArgs ==
  ASSUME NEW w \in UnmapWalks, w.index[w.level] # PT_LENGTH
  PROVE  /\ w.level \in Levels /\ w.index[w.level] \in Index
         /\ Cleared(w) = [w EXCEPT !.tables = Put(w.tables, w.level, w.index[w.level], NoEntry),
                                   !.n = 1, !.cursor = @ + 1, !.gone = @ \cup {w.cursor}]
         /\ Cleared(w) \in UnmapWalks /\ Stepped(w) \in UnmapWalks
         /\ w.level # Last => Lower(w) \in UnmapWalks
         /\ \A b \in UnmapWalks : /\ Summed(w, b) \in UnmapWalks
                                  /\ Turned(w, b) \in UnmapWalks
                                  /\ Turned(w, b).index[w.level] = w.index[w.level] + 1
                                  /\ Turned(w, b).level = b.level
                                  /\ Summed(w, b).level = w.level
<1>1. /\ w.level \in Levels /\ w.index \in Paths /\ w.index[w.level] \in Index /\ w.tables \in Tables
      /\ w.n \in Nat /\ w.cursor \in Nat /\ w.gone \in SUBSET Nat
      /\ w.index[w.level] + 1 \in 0..PT_LENGTH
  <2>1. w.level \in Levels /\ w.index \in Paths /\ w.tables \in Tables
        /\ w.n \in Nat /\ w.cursor \in Nat /\ w.gone \in SUBSET Nat
    BY DEF UnmapWalks
  <2>2. w.index[w.level] \in 0..PT_LENGTH
    BY <2>1 DEF Paths
  <2> QED BY <2>1, <2>2, LevelFacts
<1>2. Cleared(w) = [w EXCEPT !.tables = Put(w.tables, w.level, w.index[w.level], NoEntry),
                             !.n = 1, !.cursor = @ + 1, !.gone = @ \cup {w.cursor}]
  BY DEF Put, Cleared, UnmapWalks
<1>3. Put(w.tables, w.level, w.index[w.level], NoEntry) \in Tables
  BY <1>1, EntryFacts, PutFacts
<1>4. Cleared(w) \in UnmapWalks
  <2>1. w.cursor + 1 \in Nat /\ w.gone \cup {w.cursor} \in SUBSET Nat /\ 1 \in Nat
    BY <1>1
  <2>2. \A t \in Tables, c \in Nat, g \in SUBSET Nat :
          [w EXCEPT !.tables = t, !.n = 1, !.cursor = c, !.gone = g] \in UnmapWalks
    <3> HIDE DEF Tables, Paths, Levels
    <3> QED BY DEF UnmapWalks
  <2>3. Cleared(w) = [w EXCEPT !.tables = Put(w.tables, w.level, w.index[w.level], NoEntry),
                               !.n = 1, !.cursor = w.cursor + 1, !.gone = w.gone \cup {w.cursor}]
    BY <1>2, Zenon DEF UnmapWalks
  <2>4. \A t \in Tables, g \in SUBSET Nat :
          [w EXCEPT !.tables = t, !.n = 1, !.cursor = w.cursor + 1, !.gone = g] \in UnmapWalks
    BY <2>1, <2>2, Zenon
  <2>5. \A t \in Tables :
          [w EXCEPT !.tables = t, !.n = 1, !.cursor = w.cursor + 1, !.gone = w.gone \cup {w.cursor}]
            \in UnmapWalks
    <3> DEFINE g == w.gone \cup {w.cursor}
    <3>1. g \in SUBSET Nat
      BY <2>1
    <3> HIDE DEF g
    <3>2. \A t \in Tables : [w EXCEPT !.tables = t, !.n = 1, !.cursor = w.cursor + 1, !.gone = g] \in UnmapWalks
      BY <2>4, <3>1
    <3> QED BY <3>2 DEF g
  <2> QED BY <1>3, <2>3, <2>5, Zenon
<1>5. Stepped(w) \in UnmapWalks
  <2>1. get_pages_per_entry[w.level] \in Nat /\ w.cursor + get_pages_per_entry[w.level] \in Nat
    BY <1>1, PagesPerEntry
  <2> HIDE DEF Tables, Paths, Levels
  <2> QED BY <2>1 DEF UnmapWalks, Stepped
<1>6. w.level # Last => Lower(w) \in UnmapWalks
  <2>1. w.level # Last => w.level + 1 \in Levels
    BY <1>1, LevelFacts
  <2> HIDE DEF Tables, Paths, Levels
  <2> QED BY <2>1 DEF UnmapWalks, Lower
<1>7. ASSUME NEW b \in UnmapWalks
      PROVE  /\ Summed(w, b) \in UnmapWalks /\ Summed(w, b).level = w.level
             /\ Turned(w, b) \in UnmapWalks
             /\ Turned(w, b).index[w.level] = w.index[w.level] + 1
             /\ Turned(w, b).level = b.level
  <2>1. w.n + b.n \in Nat
    BY <1>1 DEF UnmapWalks
  <2>2. Summed(w, b) \in UnmapWalks /\ Summed(w, b).level = w.level
    <3> HIDE DEF Tables, Paths, Levels
    <3> QED BY <1>1, <2>1 DEF UnmapWalks, Summed
  <2>3. b.index \in Paths
    BY DEF UnmapWalks
  <2>4. /\ [b.index EXCEPT ![w.level] = w.index[w.level] + 1] \in Paths
        /\ [b.index EXCEPT ![w.level] = w.index[w.level] + 1][w.level] = w.index[w.level] + 1
    BY <1>1, <2>3 DEF Paths
  <2>5. Turned(w, b) = [b EXCEPT !.index = [b.index EXCEPT ![w.level] = w.index[w.level] + 1]]
    BY DEF Turned
  <2>6. \A x \in Paths : /\ [b EXCEPT !.index = x] \in UnmapWalks
                         /\ [b EXCEPT !.index = x].index = x
                         /\ [b EXCEPT !.index = x].level = b.level
    <3> HIDE DEF Tables, Paths, Levels
    <3> QED BY DEF UnmapWalks
  <2> QED BY <2>2, <2>4, <2>5, <2>6
<1> QED BY <1>1, <1>2, <1>4, <1>5, <1>6, <1>7

LEMMA ClearCong ==
  ASSUME NEW pages, NEW w \in UnmapWalks, NEW g, NEW h \in [UnmapWalks -> UnmapWalks],
         \A q \in UnmapWalks : Rank(q.level, q.index[q.level]) < Rank(w.level, w.index[w.level])
                               => g[q] = h[q]
  PROVE  /\ ClearBody(h, pages, w) \in UnmapWalks
         /\ ClearBody(g, pages, w) = ClearBody(h, pages, w)
<1>1. CASE w.index[w.level] = PT_LENGTH \/ w.n >= pages
  BY <1>1 DEF ClearBody
<1>2. CASE ~(w.index[w.level] = PT_LENGTH \/ w.n >= pages)
  <2> DEFINE l == w.level
             i == w.index[w.level]
  <2>1. /\ l \in Levels /\ i \in Index /\ i + 1 \in 0..(PT_LENGTH + 1) /\ i \in 0..(PT_LENGTH + 1)
        /\ i + 1 > i
    <3>1. l \in Levels /\ i \in Index
      BY <1>2, ClearArgs
    <3> HIDE DEF l, i
    <3>2. i \in Nat /\ i < PT_LENGTH /\ PT_LENGTH \in Nat
      BY <3>1, LevelFacts
    <3> QED BY <3>1, <3>2
  <2>2. l # Last => g[Lower(w)] = h[Lower(w)] /\ h[Lower(w)] \in UnmapWalks
    <3> SUFFICES ASSUME l # Last PROVE g[Lower(w)] = h[Lower(w)] /\ h[Lower(w)] \in UnmapWalks
      OBVIOUS
    <3>1. Lower(w) \in UnmapWalks /\ Lower(w).level = l + 1 /\ l + 1 \in Levels
      <4>1. Lower(w) \in UnmapWalks /\ l + 1 \in Levels
        BY <1>2, <2>1, ClearArgs, LevelFacts
      <4> QED BY <4>1 DEF Lower, UnmapWalks
    <3>2. Lower(w).index[l + 1] \in 0..(PT_LENGTH + 1)
      <4>1. Lower(w).index \in Paths
        BY <3>1 DEF UnmapWalks
      <4>2. \A k \in 0..PT_LENGTH : k \in 0..(PT_LENGTH + 1)
        BY LevelFacts
      <4>3. Lower(w).index[l + 1] \in 0..PT_LENGTH
        BY <3>1, <4>1, Zenon DEF Paths
      <4> QED BY <4>2, <4>3, Zenon
    <3>3. Rank(l + 1, Lower(w).index[l + 1]) < Rank(l, i)
      BY <2>1, <3>2, RankDown
    <3> QED BY <3>1, <3>3
  <2>3. Below(g, w) = Below(h, w) /\ Below(h, w) \in UnmapWalks
    BY <1>2, <2>2, ClearArgs DEF Below
  <2> DEFINE s == Summed(w, Below(h, w))
             t == Turned(w, s)
  <2>4. s \in UnmapWalks /\ t \in UnmapWalks /\ t.level = l /\ t.index[l] = i + 1
    <3>1. s \in UnmapWalks /\ s.level = l
      BY <1>2, <2>3, ClearArgs
    <3> HIDE DEF s
    <3> QED BY <1>2, <3>1, ClearArgs
  <2>5. Rank(t.level, t.index[t.level]) < Rank(w.level, w.index[w.level])
    <3>1. Rank(l, i + 1) < Rank(l, i)
      BY <2>1, RankDown
    <3> QED BY <2>4, <3>1
  <2>6. g[t] = h[t] /\ h[t] \in UnmapWalks
    <3> HIDE DEF t
    <3> QED BY <2>4, <2>5
  <2>7. /\ ClearBody(g, pages, w) = IF s.n >= pages THEN s ELSE g[t]
        /\ ClearBody(h, pages, w) = IF s.n >= pages THEN s ELSE h[t]
    BY <1>2, <2>3 DEF ClearBody
  <2> QED BY <2>4, <2>6, <2>7
<1> QED BY <1>1, <1>2

LEMMA ClearRule ==
  ASSUME NEW pages
  PROVE  /\ recurse_unmap(pages) \in [UnmapWalks -> UnmapWalks]
         /\ \A w \in UnmapWalks :
              recurse_unmap(pages)[w] = ClearBody(recurse_unmap(pages), pages, w)
<1> DEFINE rank == [w \in UnmapWalks |-> Rank(w.level, w.index[w.level])]
           F == [g \in [UnmapWalks -> UnmapWalks] |-> [w \in UnmapWalks |-> ClearBody(g, pages, w)]]
           Eq(f) == f = [w \in UnmapWalks |-> ClearBody(f, pages, w)]
<1>1. rank \in [UnmapWalks -> Nat]
  <2>1. \A w \in UnmapWalks : w.level \in Levels /\ w.index[w.level] \in 0..(PT_LENGTH + 1)
    <3>1. \A w \in UnmapWalks : w.level \in Levels /\ w.index \in Paths
      BY DEF UnmapWalks
    <3>2. \A w \in UnmapWalks : w.index[w.level] \in 0..PT_LENGTH
      <4> HIDE DEF Levels
      <4> QED BY <3>1 DEF Paths
    <3>3. \A k \in 0..PT_LENGTH : k \in 0..(PT_LENGTH + 1)
      BY LevelFacts
    <3> QED BY <3>1, <3>2, <3>3
  <2> QED BY <2>1, RankDown
<1>2. ASSUME NEW w \in UnmapWalks, NEW g, NEW h \in [UnmapWalks -> UnmapWalks],
             \A q \in UnmapWalks : rank[q] < rank[w] => g[q] = h[q]
      PROVE  ClearBody(h, pages, w) \in UnmapWalks
             /\ ClearBody(g, pages, w) = ClearBody(h, pages, w)
  <2>1. \A q \in UnmapWalks : Rank(q.level, q.index[q.level]) < Rank(w.level, w.index[w.level]) => g[q] = h[q]
    BY <1>2
  <2> QED BY <2>1, ClearCong
<1>3. F \in [[UnmapWalks -> UnmapWalks] -> [UnmapWalks -> UnmapWalks]]
  <2>1. ASSUME NEW g \in [UnmapWalks -> UnmapWalks], NEW w \in UnmapWalks
        PROVE  ClearBody(g, pages, w) \in UnmapWalks
    BY <1>2
  <2> QED BY <2>1
<1>4. PICK e : e \in [UnmapWalks -> UnmapWalks] /\ e = F[e]
  <2>1. Recursion(UnmapWalks, UnmapWalks, rank, F)
    <3> HIDE DEF rank
    <3> QED BY <1>1, <1>2, <1>3 DEF Recursion
  <2> HIDE DEF rank, F
  <2>2. PICK e : Solves(UnmapWalks, UnmapWalks, F, e)
    BY <2>1, WFRec, Zenon
  <2> QED BY <2>2 DEF Solves
<1>5. Eq(e)
  BY <1>4
<1>6. PICK f : f = recurse_unmap(pages)
  OBVIOUS
<1>7. Eq(f)
  <2> HIDE DEF Eq
  <2>1. recurse_unmap(pages) = CHOOSE x : Eq(x)
    BY ClearBodyIs DEF Eq
  <2> QED BY <1>5, <1>6, <2>1
<1>8. f = e
  <2>1. AgreesUp(UnmapWalks, rank, e, f)
    <3> HIDE DEF rank
    <3> QED BY <1>2, <1>4, <1>5, <1>7 DEF AgreesUp
  <2>2. e = [w \in UnmapWalks |-> e[w]] /\ f = [w \in UnmapWalks |-> f[w]]
    BY <1>5, <1>7
  <2> HIDE DEF rank, F, Eq
  <2> QED BY <1>1, <2>1, <2>2, OneSolution, Zenon
<1> QED BY <1>4, <1>5, <1>6, <1>8

-----------------------------------------------------------------------------
(* find_space as a recursion.                                              *)
LEMMA HasGreatest ==
  ASSUME NEW S \in SUBSET Nat, S # {}, NEW M \in Nat, \A x \in S : x <= M
  PROVE  \E x \in S : \A y \in S : y <= x
<1> DEFINE N == {M - x : x \in S}
<1>1. N \in SUBSET Nat /\ N # {}
  <2>1. \A x \in S : M - x \in Nat
    OBVIOUS
  <2> QED BY <2>1
<1>2. PICK z \in N : \A y \in N : z <= y
  <2> HIDE DEF N
  <2> QED BY <1>1, HasLeast
<1>3. PICK x \in S : z = M - x
  OBVIOUS
<1>4. ASSUME NEW y \in S PROVE y <= x
  <2>1. M - y \in N
    OBVIOUS
  <2> HIDE DEF N
  <2>2. M - x <= M - y
    BY <1>2, <1>3, <2>1
  <2> QED BY <2>2
<1> QED BY <1>4

Usable(t, l, i, req, k) ==
  \/ ~t[l][i + k].present
  \/ t[l][i + k].frame = req.frame + k /\ pte_flags_match(t[l][i + k], req.flags)
Need(l, req) == (req.pages + get_pages_per_entry[l] - 1) \div get_pages_per_entry[l]

LEMMA CountFreeFacts ==
  ASSUME NEW t \in Tables, NEW l \in Levels, NEW i \in Index, NEW req, req.pages \in Nat \ {0}
  PROVE  /\ CountFree(t, l, i, req) \in Nat
         /\ CountFree(t, l, i, req) <= Need(l, req)
         /\ i + CountFree(t, l, i, req) <= PT_LENGTH
         /\ \A k \in 0..(CountFree(t, l, i, req) - 1) : Usable(t, l, i, req, k)
<1> DEFINE need == Need(l, req)
           S == {n \in 0..need : i + n <= PT_LENGTH /\ \A k \in 0..(n - 1) : Usable(t, l, i, req, k)}
<1>1. CountFree(t, l, i, req) = CHOOSE n \in S : \A m \in S : m <= n
  BY DEF CountFree, Usable, Need
<1>2. need \in Nat
  <2>1. get_pages_per_entry[l] \in Nat \ {0}
    BY PagesPerEntry
  <2>2. \A a \in Nat, b \in Nat \ {0} : (a + b - 1) \div b \in Nat
    OBVIOUS
  <2> QED BY <2>1, <2>2 DEF Need
<1>3. 0 \in S
  <2>1. i \in Nat /\ i < PT_LENGTH /\ PT_LENGTH \in Nat
    BY LevelFacts
  <2> HIDE DEF need
  <2> QED BY <1>2, <2>1
<1>4. S \in SUBSET Nat /\ \A x \in S : x <= need
  BY <1>2
<1>5. \E n \in S : \A m \in S : m <= n
  <2> HIDE DEF S, need
  <2> QED BY <1>2, <1>3, <1>4, HasGreatest
<1>6. CountFree(t, l, i, req) \in S
  <2> HIDE DEF S
  <2> QED BY <1>1, <1>5
<1> HIDE DEF need
<1> QED BY <1>2, <1>6 DEF need

Answers == [res : {"EFULL", "EOVERLAP", "wild", "found", "forever"}, index : Paths]
AtLevel(w, i, index, own) == [level |-> w.level, i |-> i, index |-> [index EXCEPT ![w.level] = own]]
Deeper(w) == [level |-> w.level + 1, i |-> w.index[w.level + 1], index |-> w.index]

ScanBody(f, t, req, w) ==
  LET l == w.level
      e == t[l][w.i]
      n == CountFree(t, l, w.i, req)
  IN  CASE w.i >= PT_LENGTH -> Found("EFULL", w.index)
        [] w.i < PT_LENGTH /\ e.present /\ l = Last /\ "STRICT" \in req.flags ->
             Found("EOVERLAP", w.index)
        [] /\ w.i < PT_LENGTH /\ e.present /\ l = Last /\ "STRICT" \notin req.flags
           /\ ~pte_flags_match(e, req.flags) ->
             f[AtLevel(w, w.i + 2, w.index, w.i + 1)]
        [] w.i < PT_LENGTH /\ e.present /\ l # Last /\ ~t[l][w.index[l]].present ->
             Found("wild", w.index)
        [] w.i < PT_LENGTH /\ e.present /\ l # Last /\ t[l][w.index[l]].present ->
             IF f[Deeper(w)].res = "EFULL"
             THEN f[AtLevel(w, w.i + 2, f[Deeper(w)].index, w.i + 1)] ELSE f[Deeper(w)]
        [] OTHER ->
             IF n * get_pages_per_entry[l] >= req.pages THEN Found("found", w.index)
             ELSE IF "STRICT" \in req.flags THEN Found("EOVERLAP", w.index)
             ELSE IF n = 0 THEN Found("forever", w.index)
             ELSE f[AtLevel(w, w.i + n, w.index, w.i + n)]

LEMMA ScanBodyIs ==
  ASSUME NEW t, NEW req
  PROVE  find_space(t, req) = CHOOSE f : f = [w \in Searches |-> ScanBody(f, t, req, w)]
BY DEF find_space, ScanBody, AtLevel, Deeper

(* The same by cases, each of which leads to the next place of the search. *)
InUse(t, w) == w.i < PT_LENGTH /\ t[w.level][w.i].present
LEMMA ScanCases ==
  ASSUME NEW f, NEW t \in Tables, NEW req, NEW w \in Searches
  PROVE  LET l == w.level
             n == CountFree(t, l, w.i, req)
         IN  \/ /\ w.i >= PT_LENGTH
                /\ ScanBody(f, t, req, w) = Found("EFULL", w.index)
             \/ /\ InUse(t, w) /\ l = Last /\ "STRICT" \in req.flags
                /\ ScanBody(f, t, req, w) = Found("EOVERLAP", w.index)
             \/ /\ InUse(t, w) /\ l = Last /\ "STRICT" \notin req.flags
                /\ ~pte_flags_match(t[l][w.i], req.flags)
                /\ ScanBody(f, t, req, w) = f[AtLevel(w, w.i + 2, w.index, w.i + 1)]
             \/ /\ InUse(t, w) /\ l # Last /\ ~t[l][w.index[l]].present
                /\ ScanBody(f, t, req, w) = Found("wild", w.index)
             \/ /\ InUse(t, w) /\ l # Last /\ t[l][w.index[l]].present
                /\ ScanBody(f, t, req, w)
                   = IF f[Deeper(w)].res = "EFULL"
                     THEN f[AtLevel(w, w.i + 2, f[Deeper(w)].index, w.i + 1)] ELSE f[Deeper(w)]
             \/ /\ w.i < PT_LENGTH
                /\ InUse(t, w) => l = Last /\ "STRICT" \notin req.flags /\ pte_flags_match(t[l][w.i], req.flags)
                /\ ScanBody(f, t, req, w)
                   = IF n * get_pages_per_entry[l] >= req.pages THEN Found("found", w.index)
                     ELSE IF "STRICT" \in req.flags THEN Found("EOVERLAP", w.index)
                     ELSE IF n = 0 THEN Found("forever", w.index)
                     ELSE f[AtLevel(w, w.i + n, w.index, w.i + n)]
<1>1. w.i \in Nat /\ PT_LENGTH \in Nat
  BY LevelFacts DEF Searches
<1>2. w.i >= PT_LENGTH \/ w.i < PT_LENGTH
  BY <1>1
<1>3. ~(w.i >= PT_LENGTH /\ w.i < PT_LENGTH)
  BY <1>1
<1> QED BY <1>2, <1>3 DEF ScanBody, InUse

Request(req) == req.pages \in Nat \ {0}

LEMMA ScanArgs ==
  ASSUME NEW w \in Searches
  PROVE  /\ w.level \in Levels /\ w.index \in Paths /\ w.i \in Nat
         /\ \A i \in 0..(PT_LENGTH + 1), index \in Paths, own \in 0..PT_LENGTH :
              /\ AtLevel(w, i, index, own) \in Searches
              /\ AtLevel(w, i, index, own).level = w.level
              /\ AtLevel(w, i, index, own).i = i
              /\ AtLevel(w, i, index, own).index[w.level] = own
              /\ \A l \in Levels : l # w.level => AtLevel(w, i, index, own).index[l] = index[l]
         /\ w.level # Last =>
              /\ Deeper(w) \in Searches
              /\ Deeper(w).level = w.level + 1 /\ Deeper(w).level \in Levels
              /\ Deeper(w).i = w.index[w.level + 1] /\ Deeper(w).i \in 0..(PT_LENGTH + 1)
              /\ Deeper(w).index = w.index
         /\ \A r : Found(r, w.index).res = r /\ Found(r, w.index).index = w.index
         /\ \A r \in {"EFULL", "EOVERLAP", "wild", "found", "forever"} : Found(r, w.index) \in Answers
<1>1. w.level \in Levels /\ w.index \in Paths /\ w.i \in Nat
  <2>1. w.level \in Levels /\ w.index \in Paths /\ w.i \in 0..(PT_LENGTH + 1)
    BY DEF Searches
  <2> QED BY <2>1, LevelFacts
<1>2. ASSUME NEW i \in 0..(PT_LENGTH + 1), NEW index \in Paths, NEW own \in 0..PT_LENGTH
      PROVE  /\ AtLevel(w, i, index, own) \in Searches
             /\ AtLevel(w, i, index, own).level = w.level
             /\ AtLevel(w, i, index, own).i = i
             /\ AtLevel(w, i, index, own).index[w.level] = own
             /\ \A l \in Levels : l # w.level => AtLevel(w, i, index, own).index[l] = index[l]
  <2>1. /\ [index EXCEPT ![w.level] = own] \in Paths
        /\ [index EXCEPT ![w.level] = own][w.level] = own
        /\ \A l \in Levels : l # w.level => [index EXCEPT ![w.level] = own][l] = index[l]
    BY <1>1 DEF Paths
  <2> QED BY <1>1, <2>1 DEF AtLevel, Searches
<1>3. ASSUME w.level # Last
      PROVE  /\ Deeper(w) \in Searches
             /\ Deeper(w).level = w.level + 1 /\ Deeper(w).level \in Levels
             /\ Deeper(w).i = w.index[w.level + 1] /\ Deeper(w).i \in 0..(PT_LENGTH + 1)
             /\ Deeper(w).index = w.index
  <2>1. w.level + 1 \in Levels /\ w.index[w.level + 1] \in 0..PT_LENGTH
    BY <1>1, <1>3, LevelFacts DEF Paths
  <2>2. w.index[w.level + 1] \in 0..(PT_LENGTH + 1)
    <3>1. \A k \in 0..PT_LENGTH : k \in 0..(PT_LENGTH + 1)
      BY LevelFacts
    <3> QED BY <2>1, <3>1
  <2> QED BY <1>1, <2>1, <2>2 DEF Deeper, Searches
<1>4. \A r : Found(r, w.index).res = r /\ Found(r, w.index).index = w.index
  BY DEF Found
<1>5. \A r \in {"EFULL", "EOVERLAP", "wild", "found", "forever"} : Found(r, w.index) \in Answers
  BY <1>1 DEF Found, Answers
<1> QED BY <1>1, <1>2, <1>3, <1>4, <1>5

(* The next place in the loop of a level is a later one.                   *)
LEMMA ScanNext ==
  ASSUME NEW t \in Tables, NEW req, Request(req), NEW w \in Searches, w.i < PT_LENGTH
  PROVE  LET n == CountFree(t, w.level, w.i, req)
         IN  /\ w.i \in Index /\ w.i + 2 \in 0..(PT_LENGTH + 1) /\ w.i + 1 \in 0..PT_LENGTH
             /\ w.i + 2 > w.i
             /\ n \in Nat /\ w.i + n \in 0..PT_LENGTH /\ w.i + n \in 0..(PT_LENGTH + 1)
             /\ n # 0 => w.i + n > w.i
<1>1. w.i \in Nat /\ w.level \in Levels
  BY ScanArgs
<1>2. w.i \in Index
  BY <1>1, LevelFacts
<1>3. CountFree(t, w.level, w.i, req) \in Nat /\ w.i + CountFree(t, w.level, w.i, req) <= PT_LENGTH
  BY <1>1, <1>2, CountFreeFacts DEF Request
<1> QED BY <1>1, <1>2, <1>3, LevelFacts

LEMMA ScanCong ==
  ASSUME NEW t \in Tables, NEW req, Request(req), NEW w \in Searches,
         NEW g, NEW h \in [Searches -> Answers],
         \A q \in Searches : Rank(q.level, q.i) < Rank(w.level, w.i) => g[q] = h[q]
  PROVE  /\ ScanBody(h, t, req, w) \in Answers
         /\ ScanBody(g, t, req, w) = ScanBody(h, t, req, w)
<1> DEFINE l == w.level
           n == CountFree(t, l, w.i, req)
           Next1(index) == AtLevel(w, w.i + 2, index, w.i + 1)
           Next2 == AtLevel(w, w.i + n, w.index, w.i + n)
<1>0. w.level \in Levels /\ w.index \in Paths /\ w.i \in Nat /\ w.i \in 0..(PT_LENGTH + 1)
  BY ScanArgs DEF Searches
<1>1. ASSUME w.i < PT_LENGTH, NEW index \in Paths
      PROVE  g[Next1(index)] = h[Next1(index)] /\ h[Next1(index)] \in Answers
  <2>1. Next1(index) \in Searches /\ Next1(index).level = l /\ Next1(index).i = w.i + 2
    BY <1>1, ScanArgs, ScanNext
  <2>2. Rank(l, w.i + 2) < Rank(l, w.i)
    BY <1>0, <1>1, ScanNext, RankDown
  <2> HIDE DEF Next1
  <2> QED BY <2>1, <2>2
<1>2. ASSUME w.i < PT_LENGTH, n # 0
      PROVE  g[Next2] = h[Next2] /\ h[Next2] \in Answers
  <2>1. Next2 \in Searches /\ Next2.level = l /\ Next2.i = w.i + n
    BY <1>0, <1>2, ScanArgs, ScanNext
  <2>2. Rank(l, w.i + n) < Rank(l, w.i)
    BY <1>0, <1>2, ScanNext, RankDown
  <2> HIDE DEF Next2
  <2> QED BY <2>1, <2>2
<1>3. ASSUME l # Last
      PROVE  g[Deeper(w)] = h[Deeper(w)] /\ h[Deeper(w)] \in Answers
  <2>1. /\ Deeper(w) \in Searches /\ Deeper(w).level = l + 1
        /\ Deeper(w).i \in 0..(PT_LENGTH + 1)
    BY <1>3, ScanArgs
  <2>2. Rank(l + 1, Deeper(w).i) < Rank(l, w.i)
    BY <1>0, <1>3, <2>1, RankDown
  <2> QED BY <2>1, <2>2
<1>4. \A a \in Answers : a.index \in Paths
  BY DEF Answers
<1>5. \A r \in {"EFULL", "EOVERLAP", "wild", "found", "forever"} : Found(r, w.index) \in Answers
  BY ScanArgs
<1> HIDE DEF n
<1>6. \A f : \/ w.i >= PT_LENGTH /\ ScanBody(f, t, req, w) = Found("EFULL", w.index)
             \/ /\ InUse(t, w) /\ l = Last /\ "STRICT" \in req.flags
                /\ ScanBody(f, t, req, w) = Found("EOVERLAP", w.index)
             \/ /\ InUse(t, w) /\ l = Last /\ "STRICT" \notin req.flags
                /\ ~pte_flags_match(t[l][w.i], req.flags)
                /\ ScanBody(f, t, req, w) = f[Next1(w.index)]
             \/ /\ InUse(t, w) /\ l # Last /\ ~t[l][w.index[l]].present
                /\ ScanBody(f, t, req, w) = Found("wild", w.index)
             \/ /\ InUse(t, w) /\ l # Last /\ t[l][w.index[l]].present
                /\ ScanBody(f, t, req, w)
                   = IF f[Deeper(w)].res = "EFULL" THEN f[Next1(f[Deeper(w)].index)] ELSE f[Deeper(w)]
             \/ /\ w.i < PT_LENGTH
                /\ InUse(t, w) => l = Last /\ "STRICT" \notin req.flags /\ pte_flags_match(t[l][w.i], req.flags)
                /\ ScanBody(f, t, req, w)
                   = IF n * get_pages_per_entry[l] >= req.pages THEN Found("found", w.index)
                     ELSE IF "STRICT" \in req.flags THEN Found("EOVERLAP", w.index)
                     ELSE IF n = 0 THEN Found("forever", w.index)
                     ELSE f[Next2]
  BY ScanCases DEF n
<1>7. InUse(t, w) => w.i < PT_LENGTH
  BY DEF InUse
<1>8. ~(w.i >= PT_LENGTH /\ w.i < PT_LENGTH)
  BY <1>0, LevelFacts
<1> HIDE DEF Next1, Next2, l
<1> DEFINE a == n * get_pages_per_entry[l] >= req.pages
<1> HIDE DEF a
<1> QED BY <1>0, <1>1, <1>2, <1>3, <1>4, <1>5, <1>6, <1>7, <1>8 DEF a

LEMMA ScanRule ==
  ASSUME NEW t \in Tables, NEW req, Request(req)
  PROVE  /\ find_space(t, req) \in [Searches -> Answers]
         /\ \A w \in Searches :
              find_space(t, req)[w] = ScanBody(find_space(t, req), t, req, w)
<1> DEFINE rank == [w \in Searches |-> Rank(w.level, w.i)]
           F == [g \in [Searches -> Answers] |-> [w \in Searches |-> ScanBody(g, t, req, w)]]
           Eq(f) == f = [w \in Searches |-> ScanBody(f, t, req, w)]
<1>1. rank \in [Searches -> Nat]
  <2>1. \A w \in Searches : w.level \in Levels /\ w.i \in 0..(PT_LENGTH + 1)
    BY DEF Searches
  <2> QED BY <2>1, RankDown
<1>2. ASSUME NEW w \in Searches, NEW g, NEW h \in [Searches -> Answers],
             \A q \in Searches : rank[q] < rank[w] => g[q] = h[q]
      PROVE  ScanBody(h, t, req, w) \in Answers
             /\ ScanBody(g, t, req, w) = ScanBody(h, t, req, w)
  <2>1. \A q \in Searches : Rank(q.level, q.i) < Rank(w.level, w.i) => g[q] = h[q]
    BY <1>2
  <2> QED BY <2>1, ScanCong
<1>3. F \in [[Searches -> Answers] -> [Searches -> Answers]]
  <2>1. ASSUME NEW g \in [Searches -> Answers], NEW w \in Searches
        PROVE  ScanBody(g, t, req, w) \in Answers
    BY <1>2
  <2> QED BY <2>1
<1>4. PICK e : e \in [Searches -> Answers] /\ e = F[e]
  <2>1. Recursion(Searches, Answers, rank, F)
    <3> HIDE DEF rank
    <3>1. Searches # {} => Answers # {}
      BY ScanArgs
    <3> QED BY <1>1, <1>2, <1>3, <3>1 DEF Recursion
  <2> HIDE DEF rank, F
  <2>2. PICK e : Solves(Searches, Answers, F, e)
    BY <2>1, WFRec, Zenon
  <2> QED BY <2>2 DEF Solves
<1>5. Eq(e)
  BY <1>4
<1>6. PICK f : f = find_space(t, req)
  OBVIOUS
<1>7. Eq(f)
  <2> HIDE DEF Eq
  <2>1. find_space(t, req) = CHOOSE x : Eq(x)
    BY ScanBodyIs DEF Eq
  <2> QED BY <1>5, <1>6, <2>1
<1>8. f = e
  <2>1. AgreesUp(Searches, rank, e, f)
    <3> HIDE DEF rank
    <3> QED BY <1>2, <1>4, <1>5, <1>7 DEF AgreesUp
  <2>2. e = [w \in Searches |-> e[w]] /\ f = [w \in Searches |-> f[w]]
    BY <1>5, <1>7
  <2> HIDE DEF rank, F, Eq
  <2> QED BY <1>1, <2>1, <2>2, OneSolution, Zenon
<1> QED BY <1>4, <1>5, <1>6, <1>8

-----------------------------------------------------------------------------
(* What holds of one end of the levels and passes from each level to the   *)
(* next one holds of all of them.                                          *)
LEMMA LevelsUp ==
  ASSUME NEW G \in SUBSET Levels, 0 \in G, \A l \in G : l # Last => l + 1 \in G
  PROVE  G = Levels
<1> DEFINE rank == [l \in Levels |-> l]
           Bad == Levels \ G
<1> SUFFICES ASSUME Bad # {} PROVE FALSE
  OBVIOUS
<1>1. rank \in [Levels -> Nat] /\ Bad \in SUBSET Levels
  BY LevelFacts
<1>2. PICK p \in Bad : \A q \in Levels : rank[q] < rank[p] => q \notin Bad
  <2> HIDE DEF rank, Bad
  <2> QED BY <1>1, LeastBad
<1>3. p \in Levels /\ p # 0 /\ p - 1 \in Levels /\ p - 1 # Last /\ p \in Nat
  BY LevelFacts
<1>4. p - 1 \in G /\ (p - 1) + 1 = p
  BY <1>2, <1>3
<1> QED BY <1>3, <1>4

LEMMA LevelsDown ==
  ASSUME NEW G \in SUBSET Levels, Last \in G, \A l \in G : l # 0 => l - 1 \in G
  PROVE  G = Levels
<1> DEFINE rank == [l \in Levels |-> Last - l]
           Bad == Levels \ G
<1> SUFFICES ASSUME Bad # {} PROVE FALSE
  OBVIOUS
<1>1. rank \in [Levels -> Nat] /\ Bad \in SUBSET Levels
  BY LevelFacts
<1>2. PICK p \in Bad : \A q \in Levels : rank[q] < rank[p] => q \notin Bad
  <2> HIDE DEF rank, Bad
  <2> QED BY <1>1, LeastBad
<1>3. p \in Levels /\ p # Last /\ p + 1 \in Levels /\ p \in Nat /\ Last \in Nat
  BY LevelFacts
<1>4. p + 1 \in G /\ (p + 1) - 1 = p /\ p + 1 # 0
  BY <1>2, <1>3
<1> QED BY <1>3, <1>4

(* Division and remainder are the only numbers that satisfy their equation. *)
LEMMA DivUnique ==
  ASSUME NEW b \in Nat \ {0}, NEW q \in Int, NEW v \in Int, q * b <= v, v < q * b + b
  PROVE  v \div b = q /\ v % b = v - q * b
<1> DEFINE d == v \div b
<1>1. d \in Int /\ d * b <= v /\ v < d * b + b /\ v % b = v - d * b
  OBVIOUS
<1>2. \A x, y \in Int : x > y => x * b >= y * b + b
  <2>1. \A x, y \in Int : x > y => (x - y - 1) * b >= 0
    OBVIOUS
  <2>2. \A x, y \in Int : (x - y - 1) * b = x * b - y * b - b
    OBVIOUS
  <2> QED BY <2>1, <2>2
<1>3. q * b \in Int /\ d * b \in Int
  BY <1>1
<1> HIDE DEF d
<1>4. ~(d > q) /\ ~(q > d)
  BY <1>1, <1>2, <1>3
<1>5. d = q
  BY <1>1, <1>4
<1> QED BY <1>1, <1>5 DEF d

LEMMA DivTwice ==
  ASSUME NEW v \in Nat, NEW b \in Nat \ {0}, NEW c \in Nat \ {0}
  PROVE  v \div b = (v \div (c * b)) * c + ((v \div b) % c)
<1> DEFINE q == v \div b
           p == q \div c
<1>1. q \in Nat /\ q * b <= v /\ v < q * b + b
  OBVIOUS
<1> HIDE DEF q
<1> DEFINE r == q % c
<1>a. q \in Nat
  BY <1>1
<1>2. p \in Nat /\ r \in 0..(c - 1)
  BY <1>a
<1>4. q = p * c + r
  BY <1>a
<1> HIDE DEF p, r
<1>3. r \in Nat /\ r <= c - 1
  BY <1>2
<1>5. q * b = p * (c * b) + r * b
  BY <1>2, <1>3, <1>4
<1>6. r * b >= 0 /\ r * b + b <= c * b
  <2>1. (c - 1 - r) * b >= 0 /\ r * b >= 0
    BY <1>3
  <2>2. (c - 1 - r) * b = c * b - b - r * b
    BY <1>3
  <2> QED BY <1>3, <2>1, <2>2
<1>7. c * b \in Nat \ {0}
  <2>1. c * b >= b
    <3>1. (c - 1) * b >= 0 /\ (c - 1) * b = c * b - b
      OBVIOUS
    <3> QED BY <3>1
  <2> QED BY <2>1
<1> DEFINE m == c * b
<1>8. p * m <= v /\ v < p * m + m
  <2>1. p * m \in Int /\ r * b \in Int /\ q * b \in Int /\ m \in Int
    BY <1>1, <1>2, <1>3, <1>7
  <2> QED BY <1>1, <1>5, <1>6, <2>1
<1> HIDE DEF m
<1>9. v \div m = p
  <2>1. m \in Nat \ {0} /\ v \in Int /\ p \in Int
    BY <1>2, <1>7 DEF m
  <2> QED BY <1>8, <2>1, DivUnique, Zenon
<1> QED BY <1>4, <1>9 DEF m, q, r

-----------------------------------------------------------------------------
(* The page that some indices form, digit by digit.                        *)
Digit(f, index, l) == (IF l = 0 THEN 0 ELSE f[l - 1] * PT_LENGTH) + (index[l] % PT_LENGTH)
Prefix(index) == CHOOSE f : f = [l \in Levels |-> Digit(f, index, l)]

LEMMA PrefixRule ==
  ASSUME NEW index \in Paths
  PROVE  /\ Prefix(index) \in [Levels -> Nat]
         /\ \A l \in Levels : Prefix(index)[l] = Digit(Prefix(index), index, l)
         /\ Vaddr(index) = Prefix(index)[Last]
<1> DEFINE rank == [l \in Levels |-> l]
           F == [g \in [Levels -> Nat] |-> [l \in Levels |-> Digit(g, index, l)]]
           Eq(f) == f = [l \in Levels |-> Digit(f, index, l)]
<1>1. rank \in [Levels -> Nat] /\ \A l \in Levels : l # 0 => l - 1 \in Levels /\ rank[l - 1] < rank[l]
  BY LevelFacts
<1>2. F \in [[Levels -> Nat] -> [Levels -> Nat]]
  <2>1. ASSUME NEW g \in [Levels -> Nat], NEW l \in Levels PROVE Digit(g, index, l) \in Nat
    <3>1. index[l] \in Nat /\ PT_LENGTH \in Nat /\ PT_LENGTH # 0
      BY LevelFacts DEF Paths
    <3>2. index[l] % PT_LENGTH \in Nat
      BY <3>1
    <3>3. l # 0 => g[l - 1] \in Nat
      BY LevelFacts
    <3>4. l # 0 => g[l - 1] * PT_LENGTH \in Nat
      BY <3>1, <3>3
    <3> QED BY <3>2, <3>4 DEF Digit
  <2> QED BY <2>1
<1>3. PICK e : e \in [Levels -> Nat] /\ e = F[e]
  <2>1. \A g, h \in [Levels -> Nat], p \in Levels :
          (\A q \in Levels : rank[q] < rank[p] => g[q] = h[q]) => F[g][p] = F[h][p]
    <3> HIDE DEF rank
    <3> QED BY <1>1 DEF Digit
  <2>2. Recursion(Levels, Nat, rank, F)
    <3> HIDE DEF rank, F
    <3> QED BY <1>1, <1>2, <2>1 DEF Recursion
  <2> HIDE DEF rank, F
  <2>3. PICK e : Solves(Levels, Nat, F, e)
    BY <2>2, WFRec, Zenon
  <2> QED BY <2>3 DEF Solves
<1>4. Eq(e)
  BY <1>3
<1>5. PICK f : f = Prefix(index)
  OBVIOUS
<1>6. Eq(f)
  <2>1. Prefix(index) = CHOOSE x : Eq(x)
    BY DEF Prefix
  <2> HIDE DEF Eq
  <2> QED BY <1>4, <1>5, <2>1
<1>7. f = e
  <2>1. AgreesUp(Levels, rank, e, f)
    <3> HIDE DEF rank
    <3> QED BY <1>1, <1>4, <1>6 DEF AgreesUp, Digit
  <2>2. e = [w \in Levels |-> e[w]] /\ f = [w \in Levels |-> f[w]]
    BY <1>4, <1>6
  <2> HIDE DEF rank, F, Eq
  <2> QED BY <1>1, <2>1, <2>2, OneSolution, Zenon
<1>8. Vaddr(index) = Prefix(index)[Last]
  BY DEF Vaddr, Prefix, Digit
<1> QED BY <1>3, <1>4, <1>5, <1>7, <1>8

(* The indices of a page, read off its prefixes.                           *)
Full == [Levels -> Index]
Above(v, l) == v \div get_pages_per_entry[l]

LEMMA IndicesFacts ==
  ASSUME NEW v \in Nat
  PROVE  /\ Indices(v) \in Full /\ Indices(v) \in Paths
         /\ \A l \in Levels : Above(v, l) \in Nat
         /\ \A l \in Levels : l # 0 => Above(v, l) = Above(v, l - 1) * PT_LENGTH + Indices(v)[l]
         /\ v < AddressEnd => Above(v, 0) = Indices(v)[0]
         /\ Above(v, Last) = v
<1>1. \A l \in Levels : get_pages_per_entry[l] \in Nat \ {0}
  BY PagesPerEntry
<1>2. \A l \in Levels : Above(v, l) \in Nat
  <2>1. \A b \in Nat \ {0} : v \div b \in Nat
    OBVIOUS
  <2> QED BY <1>1, <2>1 DEF Above
<1>3. PT_LENGTH \in Nat \ {0}
  BY LevelFacts
<1>4. \A l \in Levels : Indices(v)[l] = Above(v, l) % PT_LENGTH /\ Indices(v)[l] \in Index
  <2>1. \A x \in Nat : x % PT_LENGTH \in Index
    BY <1>3 DEF Index
  <2> QED BY <1>2, <2>1 DEF Indices, Above
<1>5. Indices(v) \in Full /\ Indices(v) \in Paths
  <2>1. Indices(v) = [l \in Levels |-> Indices(v)[l]]
    BY DEF Indices
  <2>2. \A i \in Index : i \in 0..PT_LENGTH
    BY LevelFacts
  <2> QED BY <1>4, <2>1, <2>2 DEF Full, Paths
<1>6. ASSUME NEW l \in Levels, l # 0
      PROVE  Above(v, l) = Above(v, l - 1) * PT_LENGTH + Indices(v)[l]
  <2>1. l - 1 \in Levels /\ l - 1 # Last /\ (l - 1) + 1 = l
    BY <1>6, LevelFacts
  <2>2. get_pages_per_entry[l - 1] = PT_LENGTH * get_pages_per_entry[l]
    BY <2>1, PagesPerEntry
  <2>3. v \div get_pages_per_entry[l]
          = (v \div (PT_LENGTH * get_pages_per_entry[l])) * PT_LENGTH
            + ((v \div get_pages_per_entry[l]) % PT_LENGTH)
    BY <1>1, <1>3, DivTwice
  <2> QED BY <1>4, <2>2, <2>3 DEF Above
<1>7. ASSUME v < AddressEnd PROVE Above(v, 0) = Indices(v)[0]
  <2>1. 0 \in Levels
    BY LevelFacts
  <2> DEFINE b == get_pages_per_entry[0]
             q == v \div b
  <2>2. b \in Nat \ {0} /\ v < PT_LENGTH * b
    BY <1>1, <1>7, <2>1 DEF AddressEnd
  <2> HIDE DEF b
  <2>3. q \in Nat /\ q * b <= v
    BY <2>2
  <2> HIDE DEF q
  <2>4. q < PT_LENGTH
    <3> SUFFICES ASSUME ~(q < PT_LENGTH) PROVE FALSE
      OBVIOUS
    <3>1. (q - PT_LENGTH) * b >= 0
      BY <1>3, <2>2, <2>3
    <3>2. (q - PT_LENGTH) * b = q * b - PT_LENGTH * b
      BY <1>3, <2>2, <2>3
    <3>3. q * b \in Int /\ PT_LENGTH * b \in Int
      BY <1>3, <2>2, <2>3
    <3> QED BY <2>2, <2>3, <3>1, <3>2, <3>3
  <2>5. q % PT_LENGTH = q
    BY <1>3, <2>3, <2>4
  <2> QED BY <1>4, <2>1, <2>5 DEF Above, q, b
<1>8. Above(v, Last) = v
  BY PagesPerEntry DEF Above
<1> QED BY <1>2, <1>4, <1>5, <1>6, <1>7, <1>8

(* The two conversions undo each other.                                    *)
LEMMA VaddrOfIndices ==
  ASSUME NEW v \in 0..(AddressEnd - 1), AddressEnd \in Nat
  PROVE  Vaddr(Indices(v)) = v
<1> DEFINE index == Indices(v)
           G == {l \in Levels : Prefix(index)[l] = Above(v, l)}
<1>1. v \in Nat /\ v < AddressEnd
  OBVIOUS
<1>2. index \in Full /\ index \in Paths
  BY <1>1, IndicesFacts
<1>3. \A l \in Levels : index[l] % PT_LENGTH = index[l]
  <2>1. \A i \in Index : i % PT_LENGTH = i
    BY LevelFacts DEF Index
  <2> QED BY <1>2, <2>1 DEF Full
<1> HIDE DEF index
<1>4. 0 \in G
  <2>1. Prefix(index)[0] = index[0]
    <3>1. Prefix(index)[0] = 0 + index[0]
      BY <1>2, <1>3, PrefixRule, LevelFacts DEF Digit
    <3>2. index[0] \in Nat
      BY <1>2, LevelFacts DEF Full
    <3> QED BY <3>1, <3>2
  <2> QED BY <1>1, <2>1, IndicesFacts, LevelFacts DEF index
<1>5. ASSUME NEW l \in G, l # Last PROVE l + 1 \in G
  <2>1. l + 1 \in Levels /\ l + 1 # 0 /\ (l + 1) - 1 = l
    BY <1>5, LevelFacts
  <2>2. Prefix(index)[l + 1] = Prefix(index)[l] * PT_LENGTH + index[l + 1]
    BY <1>2, <1>3, <2>1, PrefixRule DEF Digit
  <2>3. Above(v, l + 1) = Above(v, l) * PT_LENGTH + index[l + 1]
    BY <1>1, <2>1, IndicesFacts DEF index
  <2> QED BY <2>1, <2>2, <2>3
<1>6. G = Levels
  <2> HIDE DEF G
  <2>1. G \in SUBSET Levels
    BY DEF G
  <2> QED BY <1>4, <1>5, <2>1, LevelsUp
<1> QED BY <1>1, <1>2, <1>6, PrefixRule, IndicesFacts, LevelFacts DEF index

LEMMA AddressEndFacts ==
  /\ AddressEnd \in Nat
  /\ \A l \in Levels : get_pages_per_entry[l] \in Nat \ {0}
BY PagesPerEntry, LevelFacts DEF AddressEnd

Span(index, l, v) == /\ Prefix(index)[l] * get_pages_per_entry[l] <= v
                     /\ v < Prefix(index)[l] * get_pages_per_entry[l] + get_pages_per_entry[l]

LEMMA VaddrSpan ==
  ASSUME NEW index \in Full
  PROVE  /\ Vaddr(index) \in 0..(AddressEnd - 1)
         /\ \A l \in Levels : Span(index, l, Vaddr(index)) /\ Above(Vaddr(index), l) = Prefix(index)[l]
         /\ Prefix(index)[0] = index[0]
         /\ \A l \in Levels : l # 0 => Prefix(index)[l] = Prefix(index)[l - 1] * PT_LENGTH + index[l]
<1> DEFINE v == Vaddr(index)
           G == {l \in Levels : Span(index, l, v)}
<1>1. index \in Paths /\ \A l \in Levels : index[l] \in Nat /\ index[l] < PT_LENGTH /\ index[l] % PT_LENGTH = index[l]
  <2>1. \A i \in Index : i \in Nat /\ i < PT_LENGTH /\ i % PT_LENGTH = i /\ i \in 0..PT_LENGTH
    BY LevelFacts DEF Index
  <2> QED BY <2>1 DEF Full, Paths
<1>2. v = Prefix(index)[Last] /\ \A l \in Levels : Prefix(index)[l] \in Nat
  BY <1>1, PrefixRule, LevelFacts
<1>3. Prefix(index)[0] = index[0]
  <2>1. Prefix(index)[0] = 0 + index[0]
    BY <1>1, PrefixRule, LevelFacts DEF Digit
  <2> QED BY <1>1, <2>1, LevelFacts
<1>4. ASSUME NEW l \in Levels, l # 0
      PROVE  Prefix(index)[l] = Prefix(index)[l - 1] * PT_LENGTH + index[l]
  BY <1>1, <1>4, PrefixRule DEF Digit
<1>5. \A l \in Levels : get_pages_per_entry[l] \in Nat \ {0}
  BY AddressEndFacts
<1>6. v \in Nat
  BY <1>2, LevelFacts
<1> HIDE DEF v
<1>7. Last \in G
  <2>1. Prefix(index)[Last] * get_pages_per_entry[Last] = v /\ get_pages_per_entry[Last] = 1
    BY <1>2, <1>6, PagesPerEntry
  <2> QED BY <1>6, <2>1, LevelFacts DEF Span
<1>8. \A a, c, d, b \in Nat : d < c =>
        /\ a * (c * b) <= (a * c + d) * b
        /\ (a * c + d) * b + b <= a * (c * b) + c * b
  <2> TAKE a, c, d, b \in Nat
  <2> HAVE d < c
  <2>1. (a * c + d) * b = a * (c * b) + d * b
    OBVIOUS
  <2>2. d * b >= 0 /\ (c - 1 - d) * b >= 0 /\ (c - 1 - d) * b = c * b - b - d * b
    OBVIOUS
  <2>3. a * (c * b) \in Int /\ d * b \in Int /\ c * b \in Int
    OBVIOUS
  <2> QED BY <2>1, <2>2, <2>3
<1>9. ASSUME NEW l \in G, l # 0 PROVE l - 1 \in G
  <2>1. l \in Levels /\ l - 1 \in Levels /\ l - 1 # Last /\ (l - 1) + 1 = l
    BY <1>9, LevelFacts
  <2>2. get_pages_per_entry[l - 1] = PT_LENGTH * get_pages_per_entry[l]
    BY <2>1, PagesPerEntry
  <2> DEFINE a == Prefix(index)[l - 1]
             b == get_pages_per_entry[l]
             d == index[l]
             p == a * (PT_LENGTH * b)
             q == (a * PT_LENGTH + d) * b
             m == PT_LENGTH * b
  <2>3. a \in Nat /\ b \in Nat /\ d \in Nat /\ d < PT_LENGTH /\ PT_LENGTH \in Nat
    BY <1>1, <1>2, <1>5, <2>1, LevelFacts
  <2>4. q <= v /\ v < q + b
    BY <1>4, <1>9, <2>1 DEF Span
  <2> HIDE DEF a, b, d
  <2>5. p <= q /\ q + b <= p + m
    BY <1>8, <2>3
  <2>6. p \in Int /\ q \in Int /\ m \in Int
    BY <2>3
  <2> HIDE DEF p, q, m
  <2>7. p <= v /\ v < p + m
    BY <1>6, <2>3, <2>4, <2>5, <2>6
  <2> QED BY <2>1, <2>2, <2>7 DEF Span, p, m, a, b
<1>10. G = Levels
  <2> HIDE DEF G
  <2>1. G \in SUBSET Levels
    BY DEF G
  <2> QED BY <1>7, <1>9, <2>1, LevelsDown
<1>11. ASSUME NEW l \in Levels PROVE Above(v, l) = Prefix(index)[l]
  <2>1. Span(index, l, v)
    BY <1>10
  <2> QED BY <1>2, <1>5, <1>6, <2>1, DivUnique DEF Span, Above
<1>12. v < AddressEnd
  <2> DEFINE b == get_pages_per_entry[0]
  <2>1. b \in Nat /\ index[0] \in Nat /\ index[0] < PT_LENGTH /\ PT_LENGTH \in Nat
    BY <1>1, <1>5, LevelFacts
  <2>2. v < index[0] * b + b
    BY <1>3, <1>10, LevelFacts DEF Span
  <2> HIDE DEF b
  <2>3. (PT_LENGTH - 1 - index[0]) * b >= 0 /\ (PT_LENGTH - 1 - index[0]) * b = PT_LENGTH * b - b - index[0] * b
    BY <2>1
  <2>4. index[0] * b \in Int /\ PT_LENGTH * b \in Int
    BY <2>1
  <2>5. AddressEnd = PT_LENGTH * b
    BY DEF AddressEnd, b
  <2> QED BY <1>6, <2>1, <2>2, <2>3, <2>4, <2>5
<1>13. AddressEnd \in Nat
  BY AddressEndFacts
<1> QED BY <1>3, <1>4, <1>6, <1>10, <1>11, <1>12, <1>13 DEF v

LEMMA IndicesOfVaddr ==
  ASSUME NEW index \in Full
  PROVE  Indices(Vaddr(index)) = index
<1> DEFINE v == Vaddr(index)
           digits == Indices(v)
<1>1. v \in Nat /\ v < AddressEnd /\ AddressEnd \in Nat
  <2>1. v \in 0..(AddressEnd - 1) /\ AddressEnd \in Nat
    BY VaddrSpan, AddressEndFacts
  <2> HIDE DEF v
  <2> QED BY <2>1
<1>2. \A l \in Levels : Above(v, l) = Prefix(index)[l] /\ Above(v, l) \in Nat
  BY <1>1, VaddrSpan, IndicesFacts
<1>3. digits \in Full /\ index \in Full
  BY <1>1, IndicesFacts
<1>4. digits[0] = index[0]
  BY <1>1, <1>2, VaddrSpan, IndicesFacts, LevelFacts
<1>5. ASSUME NEW l \in Levels, l # 0 PROVE digits[l] = index[l]
  <2>1. /\ Above(v, l) = Above(v, l - 1) * PT_LENGTH + digits[l]
        /\ Above(v, l) = Above(v, l - 1) * PT_LENGTH + index[l]
    <3>1. l - 1 \in Levels
      BY <1>5, LevelFacts
    <3>2. v \in Nat
      BY <1>1
    <3> HIDE DEF v
    <3>3. \A k \in Levels : k # 0 => Above(v, k) = Above(v, k - 1) * PT_LENGTH + Indices(v)[k]
      BY <3>2, IndicesFacts
    <3>4. Above(v, l) = Above(v, l - 1) * PT_LENGTH + digits[l]
      BY <1>5, <3>3
    <3>5. \A k \in Levels : k # 0 => Prefix(index)[k] = Prefix(index)[k - 1] * PT_LENGTH + index[k]
      BY VaddrSpan
    <3>6. Prefix(index)[l] = Prefix(index)[l - 1] * PT_LENGTH + index[l]
      BY <1>5, <3>5
    <3>7. Above(v, l) = Prefix(index)[l] /\ Above(v, l - 1) = Prefix(index)[l - 1]
      BY <1>2, <1>5, <3>1
    <3> QED BY <3>4, <3>6, <3>7
  <2>2. Above(v, l - 1) \in Nat /\ PT_LENGTH \in Nat
    BY <1>2, <1>5, LevelFacts
  <2>3. digits[l] \in Nat /\ index[l] \in Nat
    BY <1>3, LevelFacts DEF Full
  <2> DEFINE x == Above(v, l - 1) * PT_LENGTH
  <2>4. x \in Nat
    BY <2>2
  <2> HIDE DEF x, digits
  <2>5. x + digits[l] = x + index[l]
    BY <2>1 DEF x
  <2> QED BY <2>3, <2>4, <2>5
<1> HIDE DEF digits
<1>6. \A l \in Levels : digits[l] = index[l]
  BY <1>4, <1>5
<1>7. digits = index
  BY <1>3, <1>6 DEF Full
<1> QED BY <1>7 DEF digits

-----------------------------------------------------------------------------
(* The pages of the kernel's last table are the addresses whose indices    *)
(* follow its path.                                                        *)
AtEntry(j) == [l \in Levels |-> IF l = Last THEN j ELSE KernelPath[l]]
OnPath(index) == \A l \in Levels : l # Last => index[l] = KernelPath[l]
Agrees(index, l) == \A k \in Levels : k < l => index[k] = KernelPath[k]

LEMMA PathFacts ==
  /\ \A l \in Levels : l # Last => KernelPath[l] \in Index
  /\ \A j \in Index : AtEntry(j) \in Full /\ OnPath(AtEntry(j)) /\ AtEntry(j)[Last] = j
  /\ \A index \in Full : OnPath(index) => index = AtEntry(index[Last]) /\ index[Last] \in Index
  /\ \A index \in Full : index \in Paths
<1>1. \A l \in Levels : l # Last => KernelPath[l] \in Index
  BY PathAssumption, LevelFacts
<1>2. \A j \in Index : AtEntry(j) \in Full /\ OnPath(AtEntry(j)) /\ AtEntry(j)[Last] = j
  BY <1>1, LevelFacts DEF AtEntry, Full, OnPath
<1>3. \A index \in Full : OnPath(index) => index = AtEntry(index[Last]) /\ index[Last] \in Index
  <2> TAKE index \in Full
  <2> HAVE OnPath(index)
  <2>1. index = [l \in Levels |-> index[l]] /\ index[Last] \in Index
    BY LevelFacts DEF Full
  <2> QED BY <2>1 DEF AtEntry, OnPath
<1>4. \A index \in Full : index \in Paths
  <2>1. \A i \in Index : i \in 0..PT_LENGTH
    BY LevelFacts
  <2> QED BY <2>1 DEF Full, Paths
<1> QED BY <1>1, <1>2, <1>3, <1>4

LEMMA PathPages ==
  /\ KernelStart \in Nat /\ KernelStart < AddressEnd
  /\ \A j \in Index : Vaddr(AtEntry(j)) = KernelStart + j
<1>0. KernelStart = Vaddr(AtEntry(0)) /\ 0 \in Index
  BY LevelFacts DEF KernelStart, AtEntry
<1>1. KernelStart \in Nat /\ KernelStart < AddressEnd
  <2>1. Vaddr(AtEntry(0)) \in 0..(AddressEnd - 1) /\ AddressEnd \in Nat
    BY <1>0, PathFacts, VaddrSpan, AddressEndFacts
  <2> QED BY <1>0, <2>1
<1>2. ASSUME NEW j \in Index PROVE Vaddr(AtEntry(j)) = KernelStart + j
  <2> DEFINE a == AtEntry(0)
             b == AtEntry(j)
             G == {l \in Levels : l # Last => Prefix(a)[l] = Prefix(b)[l]}
  <2>1. a \in Full /\ b \in Full /\ a[Last] = 0 /\ b[Last] = j
        /\ \A l \in Levels : l # Last => a[l] = b[l]
    BY <1>0, PathFacts DEF OnPath
  <2>2. /\ Prefix(a)[0] = a[0] /\ Prefix(b)[0] = b[0]
        /\ \A l \in Levels : l # 0 => /\ Prefix(a)[l] = Prefix(a)[l - 1] * PT_LENGTH + a[l]
                                      /\ Prefix(b)[l] = Prefix(b)[l - 1] * PT_LENGTH + b[l]
    BY <2>1, VaddrSpan
  <2>3. a \in Paths /\ b \in Paths
    BY <2>1, PathFacts
  <2>4. \A l \in Levels : Prefix(a)[l] \in Nat /\ Prefix(b)[l] \in Nat
    BY <2>3, PrefixRule
  <2> HIDE DEF a, b
  <2>5. 0 \in G
    BY <2>1, <2>2, LevelFacts
  <2>6. ASSUME NEW l \in G, l # Last PROVE l + 1 \in G
    <3>1. l + 1 \in Levels /\ l + 1 # 0 /\ (l + 1) - 1 = l
      BY <2>6, LevelFacts
    <3> QED BY <2>1, <2>2, <2>6, <3>1
  <2>7. G = Levels
    <3>1. G \in SUBSET Levels
      OBVIOUS
    <3> HIDE DEF G
    <3> QED BY <2>5, <2>6, <3>1, LevelsUp
  <2>8. Last - 1 \in Levels /\ Last - 1 # Last /\ Last # 0 /\ Last \in Levels
    BY LevelFacts
  <2>9. Prefix(a)[Last] = Prefix(a)[Last - 1] * PT_LENGTH + 0
        /\ Prefix(b)[Last] = Prefix(a)[Last - 1] * PT_LENGTH + j
    BY <2>1, <2>2, <2>7, <2>8
  <2> DEFINE x == Prefix(a)[Last - 1] * PT_LENGTH
  <2>10. x \in Nat /\ j \in Nat
    <3>1. Prefix(a)[Last - 1] \in Nat /\ PT_LENGTH \in Nat
      BY <2>4, <2>8, LevelFacts
    <3> QED BY <3>1, LevelFacts
  <2> HIDE DEF x
  <2>11. Vaddr(a) = x + 0 /\ Vaddr(b) = x + j
    BY <2>3, <2>9, PrefixRule DEF x
  <2> QED BY <1>0, <2>10, <2>11 DEF a, b
<1> QED BY <1>1, <1>2

LEMMA KernelPageFacts ==
  /\ \A v \in KernelPages : /\ v - KernelStart \in Index /\ v \in Nat /\ v < AddressEnd
                            /\ Indices(v) = AtEntry(v - KernelStart)
  /\ \A j \in Index : KernelStart + j \in KernelPages
  /\ \A v \in 0..(AddressEnd - 1) : OnPath(Indices(v)) <=> v \in KernelPages
  /\ \A v \in 0..(AddressEnd - 1) : OnPath(Indices(v)) =>
       v = KernelStart + Indices(v)[Last] /\ Indices(v)[Last] \in Index
<1>1. \A j \in Int : KernelStart + j \in KernelPages <=> j \in Index
  BY PathPages, LevelFacts DEF KernelPages, PagesFrom, Index
<1>2. ASSUME NEW v \in KernelPages
      PROVE  /\ v - KernelStart \in Index /\ v \in Nat /\ v < AddressEnd
             /\ Indices(v) = AtEntry(v - KernelStart)
  <2> DEFINE j == v - KernelStart
  <2>1. v \in Int /\ v = KernelStart + j /\ j \in Int
    BY PathPages DEF KernelPages, PagesFrom
  <2> HIDE DEF j
  <2>2. j \in Index
    BY <1>1, <2>1
  <2>3. v = Vaddr(AtEntry(j)) /\ AtEntry(j) \in Full
    BY <2>1, <2>2, PathPages, PathFacts
  <2>4. v \in 0..(AddressEnd - 1) /\ Indices(v) = AtEntry(j)
    BY <2>3, VaddrSpan, IndicesOfVaddr
  <2>5. v \in Nat /\ v < AddressEnd
    BY <2>4, AddressEndFacts
  <2> QED BY <2>2, <2>4, <2>5 DEF j
<1>3. \A j \in Index : KernelStart + j \in KernelPages
  BY <1>1 DEF Index
<1>4. ASSUME NEW v \in 0..(AddressEnd - 1), OnPath(Indices(v))
      PROVE  v = KernelStart + Indices(v)[Last] /\ Indices(v)[Last] \in Index
  <2>1. v \in Nat
    BY AddressEndFacts
  <2>2. Indices(v) \in Full
    BY <2>1, IndicesFacts
  <2>3. Indices(v) = AtEntry(Indices(v)[Last]) /\ Indices(v)[Last] \in Index
    BY <1>4, <2>2, PathFacts
  <2>4. Vaddr(Indices(v)) = v
    BY VaddrOfIndices, AddressEndFacts
  <2> QED BY <2>3, <2>4, PathPages
<1>5. \A v \in KernelPages : OnPath(Indices(v))
  BY <1>2, PathFacts
<1> QED BY <1>2, <1>3, <1>4, <1>5

(* An address behind the start of the kernel either follows the path or    *)
(* leaves it upwards.                                                      *)
LEMMA LeavesPath ==
  ASSUME NEW index \in Full, ~OnPath(index)
  PROVE  \E m \in Levels : m # Last /\ Agrees(index, m) /\ index[m] # KernelPath[m]
<1> DEFINE rank == [l \in Levels |-> l]
           Bad == {l \in Levels : l # Last /\ index[l] # KernelPath[l]}
<1>1. rank \in [Levels -> Nat] /\ Bad \in SUBSET Levels /\ Bad # {}
  BY LevelFacts DEF OnPath
<1>2. PICK m \in Bad : \A q \in Levels : rank[q] < rank[m] => q \notin Bad
  <2> HIDE DEF rank, Bad
  <2> QED BY <1>1, LeastBad
<1>3. Agrees(index, m)
  <2> SUFFICES ASSUME NEW k \in Levels, k < m PROVE index[k] = KernelPath[k]
    BY DEF Agrees
  <2>1. k # Last
    BY LevelFacts
  <2> QED BY <1>2, <2>1
<1> QED BY <1>2, <1>3

LEMMA SameAbove ==
  ASSUME NEW v \in Nat, NEW w \in Nat, v < AddressEnd, w < AddressEnd, NEW m \in Levels,
         \A k \in Levels : k <= m => Indices(v)[k] = Indices(w)[k]
  PROVE  Above(v, m) = Above(w, m)
<1> DEFINE G == {l \in Levels : l <= m => Above(v, l) = Above(w, l)}
<1>1. 0 \in G
  BY IndicesFacts, LevelFacts
<1>2. ASSUME NEW l \in G, l # Last PROVE l + 1 \in G
  <2>1. l + 1 \in Levels /\ l + 1 # 0 /\ (l + 1) - 1 = l
    BY <1>2, LevelFacts
  <2>2. l + 1 <= m => l <= m
    BY <1>2, LevelFacts
  <2> QED BY <1>2, <2>1, <2>2, IndicesFacts
<1>3. G = Levels
  <2>1. G \in SUBSET Levels
    OBVIOUS
  <2> HIDE DEF G
  <2> QED BY <1>1, <1>2, <2>1, LevelsUp
<1>4. m <= m
  BY LevelFacts
<1> QED BY <1>3, <1>4

LEMMA LeavesUpwards ==
  ASSUME NEW v \in KernelStart..(AddressEnd - 1), NEW m \in Levels, m # Last,
         Agrees(Indices(v), m), Indices(v)[m] # KernelPath[m]
  PROVE  Indices(v)[m] > KernelPath[m]
<1> DEFINE w == KernelStart
           x == Indices(v)
           y == Indices(w)
<1>1. v \in Nat /\ w \in Nat /\ v < AddressEnd /\ w < AddressEnd /\ w <= v
  BY PathPages, AddressEndFacts
<1>2. x \in Full /\ y \in Full
  BY <1>1, IndicesFacts
<1>3. y = AtEntry(0)
  <2>1. w \in KernelPages /\ w - KernelStart = 0
    <3>1. KernelStart + 0 \in KernelPages
      BY KernelPageFacts, LevelFacts
    <3> QED BY <1>1, <3>1
  <2> QED BY <2>1, KernelPageFacts
<1>4. \A k \in Levels : k # Last => y[k] = KernelPath[k]
  BY <1>3, PathFacts, LevelFacts DEF OnPath
<1>5. x[m] \in Nat /\ y[m] \in Nat /\ y[m] = KernelPath[m]
  BY <1>2, <1>4, LevelFacts DEF Full
<1>6. Above(w, m) <= Above(v, m)
  <2> DEFINE b == get_pages_per_entry[m]
  <2>1. b \in Nat \ {0}
    BY AddressEndFacts
  <2> HIDE DEF b
  <2> DEFINE p == v \div b
             q == w \div b
  <2>2. p \in Nat /\ q \in Nat /\ v < p * b + b /\ q * b <= w
    BY <1>1, <2>1
  <2> HIDE DEF p, q
  <2>3. ~(q > p)
    <3> SUFFICES ASSUME q > p PROVE FALSE
      OBVIOUS
    <3>1. (q - p - 1) * b >= 0 /\ (q - p - 1) * b = q * b - p * b - b
      BY <2>1, <2>2
    <3>2. q * b \in Int /\ p * b \in Int
      BY <2>1, <2>2
    <3> QED BY <1>1, <2>1, <2>2, <3>1, <3>2
  <2> QED BY <2>2, <2>3 DEF p, q, b, Above
<1> SUFFICES ASSUME x[m] < y[m] PROVE FALSE
  BY <1>5
<1> HIDE DEF x, y, w
<1>7. CASE m = 0
  <2>1. Above(v, 0) = x[0] /\ Above(w, 0) = y[0]
    BY <1>1, IndicesFacts DEF x, y
  <2> QED BY <1>5, <1>6, <1>7, <2>1
<1>8. CASE m # 0
  <2>1. m - 1 \in Levels /\ m - 1 # Last /\ m \in Nat
    BY <1>8, LevelFacts
  <2>2. \A k \in Levels : k <= m - 1 => x[k] = y[k]
    <3> TAKE k \in Levels
    <3> HAVE k <= m - 1
    <3>1. k < m /\ k # Last
      BY <2>1, LevelFacts
    <3> QED BY <1>4, <3>1 DEF Agrees, x
  <2>3. Above(v, m - 1) = Above(w, m - 1)
    BY <1>1, <2>1, <2>2, SameAbove DEF x, y
  <2>4. /\ Above(v, m) = Above(v, m - 1) * PT_LENGTH + x[m]
        /\ Above(w, m) = Above(v, m - 1) * PT_LENGTH + y[m]
    BY <1>1, <1>8, <2>3, IndicesFacts DEF x, y
  <2> DEFINE a == Above(v, m - 1) * PT_LENGTH
  <2>5. a \in Nat
    <3>1. Above(v, m - 1) \in Nat /\ PT_LENGTH \in Nat
      BY <1>1, <2>1, IndicesFacts, LevelFacts
    <3> QED BY <3>1
  <2> HIDE DEF a
  <2>6. Above(v, m) = a + x[m] /\ Above(w, m) = a + y[m]
    BY <2>4 DEF a
  <2> QED BY <1>5, <1>6, <2>5, <2>6
<1> QED BY <1>7, <1>8

-----------------------------------------------------------------------------
(* The tables above the last one have a single entry, the one of the path. *)
Chain(t) ==
  /\ t \in Tables
  /\ \A l \in Levels, i \in Index : l # Last => (t[l][i].present <=> i = KernelPath[l])

(* Where the search can end: beside the path, where there is no table, or  *)
(* in the last table in front of a run of free entries.                    *)
Off(index) ==
  \E m \in Levels : m # Last /\ Agrees(index, m) /\ index[m] \in Index /\ index[m] # KernelPath[m]
FreeRun(t, s, n) ==
  /\ s \in Index /\ s + n <= PT_LENGTH
  /\ \A j \in Index : s <= j /\ j < s + n => ~t[Last][j].present
Ready(t, i, s, n) ==
  /\ i <= s /\ FreeRun(t, s, n)
  /\ \A j \in Index : i <= j /\ j < s => t[Last][j].present
Room(t, index, req) ==
  /\ OnPath(index)
  /\ \E s \in Index : /\ Ready(t, index[Last], s, req.pages)
                      /\ "STRICT" \in req.flags => s = index[Last]

Kernel(req) == req.pages \in Nat \ {0} /\ "USER" \notin req.flags
ScanPre(req, w) ==
  /\ Agrees(w.index, w.level)
  /\ w.level # Last => \/ w.index[w.level] = w.i
                       \/ w.index[w.level] = w.i - 1 /\ w.index[w.level] > KernelPath[w.level]
  /\ w.level = Last => \/ w.index[w.level] = w.i
                       \/ w.index[w.level] = w.i - 1 /\ "STRICT" \notin req.flags
ScanPost(t, req, w, r) ==
  /\ \A k \in Levels : k < w.level => r.index[k] = w.index[k]
  /\ r.res = "found" =>
       \/ Off(r.index)
       \/ /\ w.level = Last \/ w.i <= KernelPath[w.level]
          /\ Room(t, r.index, req)
          /\ "STRICT" \in req.flags => r.index = w.index

LEMMA RoomAt ==
  ASSUME NEW t \in Tables, NEW req, Kernel(req), NEW i \in Index, NEW index \in Paths, OnPath(index),
         \/ index[Last] = i
         \/ index[Last] = i - 1 /\ "STRICT" \notin req.flags,
         FreeRun(t, i, req.pages)
  PROVE  Room(t, index, req)
<1> DEFINE n == req.pages
           own == index[Last]
<1>1. n \in Nat \ {0} /\ i \in Nat /\ i < PT_LENGTH /\ PT_LENGTH \in Nat
  BY LevelFacts DEF Kernel
<1>2. own \in Nat
  BY LevelFacts DEF Paths
<1>3. \A j \in Index : j \in Nat
  BY LevelFacts
<1> HIDE DEF n
<1>4. CASE own = i
  <2>1. Ready(t, own, i, n)
    BY <1>1, <1>3, <1>4 DEF Ready, n
  <2> QED BY <1>4, <2>1 DEF Room, n
<1>5. CASE own = i - 1 /\ "STRICT" \notin req.flags
  <2>1. own \in Index
    BY <1>1, <1>2, <1>5, LevelFacts
  <2>2. CASE t[Last][own].present
    <3> HIDE DEF own
    <3>1. \A j \in Index : own <= j /\ j < i => j = own
      <4> SUFFICES ASSUME NEW j \in Index, own <= j, j < i PROVE j = own
        OBVIOUS
      <4>1. j \in Nat
        BY <1>3
      <4> QED BY <1>1, <1>2, <1>5, <4>1
    <3>2. Ready(t, own, i, n)
      <4>1. own <= i
        BY <1>1, <1>2, <1>5
      <4> QED BY <2>2, <3>1, <4>1 DEF Ready, n
    <3> QED BY <1>5, <3>2 DEF Room, n, own
  <2>3. CASE ~t[Last][own].present
    <3>1. \A j \in Index : own <= j /\ j < own + n => j = own \/ (i <= j /\ j < i + n)
      BY <1>1, <1>2, <1>3, <1>5
    <3>2. own + n <= PT_LENGTH
      BY <1>1, <1>2, <1>5 DEF FreeRun, n
    <3>3. FreeRun(t, own, n)
      BY <2>1, <2>3, <3>1, <3>2 DEF FreeRun, n
    <3>4. Ready(t, own, own, n)
      BY <1>2, <1>3, <3>3 DEF Ready
    <3> QED BY <2>1, <3>4 DEF Room, n
  <2> QED BY <2>2, <2>3
<1> QED BY <1>4, <1>5

LEMMA ScanStep ==
  ASSUME NEW t, Chain(t), NEW req, Kernel(req), NEW f \in [Searches -> Answers],
         NEW w \in Searches, ScanPre(req, w),
         \A q \in Searches : Rank(q.level, q.i) < Rank(w.level, w.i) /\ ScanPre(req, q)
                             => ScanPost(t, req, q, f[q])
  PROVE  ScanPost(t, req, w, ScanBody(f, t, req, w))
<1> DEFINE l == w.level
           n == CountFree(t, l, w.i, req)
           r == ScanBody(f, t, req, w)
<1>0. t \in Tables /\ Request(req)
  BY DEF Chain, Kernel, Request
<1>1. l \in Levels /\ w.index \in Paths /\ w.i \in Nat /\ l \in Nat /\ l <= Last /\ w.i \in 0..(PT_LENGTH + 1)
  BY ScanArgs, LevelFacts DEF Searches
<1>2. \A e, flags : "USER" \notin flags => ~pte_flags_match(e, flags)
  BY DEF pte_flags_match
<1>3. ASSUME NEW x, x # "found", r = Found(x, w.index)
      PROVE  ScanPost(t, req, w, r)
  BY <1>3 DEF ScanPost, Found
<1>4. l # Last => KernelPath[l] \in Nat
  BY <1>1, PathFacts, LevelFacts
<1>5. ASSUME InUse(t, w), l = Last, "STRICT" \notin req.flags,
             r = f[AtLevel(w, w.i + 2, w.index, w.i + 1)]
      PROVE  ScanPost(t, req, w, r)
  <2> DEFINE q == AtLevel(w, w.i + 2, w.index, w.i + 1)
  <2>1. w.i < PT_LENGTH
    BY <1>5 DEF InUse
  <2>2. /\ q \in Searches /\ q.level = l /\ q.i = w.i + 2 /\ q.index[l] = w.i + 1
        /\ \A k \in Levels : k # l => q.index[k] = w.index[k]
    <3>1. w.i + 2 \in 0..(PT_LENGTH + 1) /\ w.i + 1 \in 0..PT_LENGTH
      BY <1>0, <2>1, ScanNext
    <3>2. w.index \in Paths
      BY <1>1
    <3>3. \A i \in 0..(PT_LENGTH + 1), index \in Paths, own \in 0..PT_LENGTH :
            /\ AtLevel(w, i, index, own) \in Searches
            /\ AtLevel(w, i, index, own).level = w.level
            /\ AtLevel(w, i, index, own).i = i
            /\ AtLevel(w, i, index, own).index[w.level] = own
            /\ \A k \in Levels : k # w.level => AtLevel(w, i, index, own).index[k] = index[k]
      BY ScanArgs
    <3> QED BY <3>1, <3>2, <3>3
  <2>3. Rank(q.level, q.i) < Rank(w.level, w.i)
    BY <1>0, <1>1, <2>1, <2>2, ScanNext, RankDown
  <2> HIDE DEF q
  <2>4. \A k \in Levels : k < l => q.index[k] = w.index[k]
    BY <1>1, <2>2, LevelFacts
  <2>5. ScanPre(req, q)
    <3>1. Agrees(q.index, l)
      BY <2>4 DEF ScanPre, Agrees
    <3>2. q.index[l] = q.i - 1
      BY <1>1, <2>2
    <3> QED BY <1>5, <2>2, <3>1, <3>2 DEF ScanPre
  <2>6. ScanPost(t, req, q, f[q])
    BY <2>2, <2>3, <2>5
  <2>7. r = f[q]
    BY <1>5 DEF q
  <2> HIDE DEF r
  <2> QED BY <1>5, <2>2, <2>4, <2>6, <2>7 DEF ScanPost
<1>6. ASSUME InUse(t, w), l # Last,
             r = IF f[Deeper(w)].res = "EFULL"
                 THEN f[AtLevel(w, w.i + 2, f[Deeper(w)].index, w.i + 1)] ELSE f[Deeper(w)]
      PROVE  ScanPost(t, req, w, r)
  <2> DEFINE d == Deeper(w)
             b == f[d]
  <2>1. w.i < PT_LENGTH /\ w.i \in Index /\ w.i = KernelPath[l]
    <3>1. w.i < PT_LENGTH /\ t[l][w.i].present
      BY <1>6 DEF InUse
    <3>2. w.i \in Index
      BY <1>1, <3>1, LevelFacts
    <3> QED BY <1>1, <1>6, <3>1, <3>2 DEF Chain
  <2>2. w.index[l] = w.i
    BY <1>1, <1>6, <2>1 DEF ScanPre
  <2>3. /\ d \in Searches /\ d.level = l + 1 /\ d.level \in Levels
        /\ d.i = w.index[l + 1] /\ d.i \in 0..(PT_LENGTH + 1) /\ d.index = w.index
    BY <1>6, ScanArgs
  <2>4. Rank(d.level, d.i) < Rank(w.level, w.i)
    BY <1>1, <1>6, <2>3, RankDown
  <2> HIDE DEF d
  <2>5. \A k \in Levels : k < l + 1 => k < l \/ k = l
    BY <1>1, LevelFacts
  <2>6. ScanPre(req, d)
    <3>1. Agrees(d.index, l + 1)
      BY <2>1, <2>2, <2>3, <2>5 DEF ScanPre, Agrees
    <3> QED BY <2>3, <3>1 DEF ScanPre
  <2>7. ScanPost(t, req, d, b) /\ b \in Answers
    BY <2>3, <2>4, <2>6
  <2> HIDE DEF b
  <2>8. \A k \in Levels : k < l => k < l + 1
    BY <1>1, LevelFacts
  <2>9. b.index \in Paths /\ \A k \in Levels : k < l => b.index[k] = w.index[k]
    BY <2>3, <2>7, <2>8 DEF ScanPost, Answers
  <2>10. CASE b.res = "EFULL"
    <3> DEFINE q == AtLevel(w, w.i + 2, b.index, w.i + 1)
    <3>1. /\ q \in Searches /\ q.level = l /\ q.i = w.i + 2 /\ q.index[l] = w.i + 1
          /\ \A k \in Levels : k # l => q.index[k] = b.index[k]
      <4>1. w.i + 2 \in 0..(PT_LENGTH + 1) /\ w.i + 1 \in 0..PT_LENGTH
        BY <1>0, <2>1, ScanNext
      <4>2. b.index \in Paths
        BY <2>9
      <4>3. \A i \in 0..(PT_LENGTH + 1), index \in Paths, own \in 0..PT_LENGTH :
              /\ AtLevel(w, i, index, own) \in Searches
              /\ AtLevel(w, i, index, own).level = w.level
              /\ AtLevel(w, i, index, own).i = i
              /\ AtLevel(w, i, index, own).index[w.level] = own
              /\ \A k \in Levels : k # w.level => AtLevel(w, i, index, own).index[k] = index[k]
        BY ScanArgs
      <4> QED BY <4>1, <4>2, <4>3
    <3>2. Rank(q.level, q.i) < Rank(w.level, w.i)
      BY <1>0, <1>1, <2>1, <3>1, ScanNext, RankDown
    <3>3. r = f[q]
      BY <1>6, <2>10 DEF b, d
    <3> HIDE DEF q, r
    <3>4. \A k \in Levels : k < l => q.index[k] = w.index[k]
      BY <1>1, <2>9, <3>1, LevelFacts
    <3>5. q.index[l] = q.i - 1 /\ q.index[l] > KernelPath[l] /\ ~(q.i <= KernelPath[l])
      BY <1>1, <2>1, <3>1
    <3>6. ScanPre(req, q)
      <4>1. Agrees(q.index, l)
        BY <3>4 DEF ScanPre, Agrees
      <4> QED BY <1>6, <3>1, <3>5, <4>1 DEF ScanPre
    <3>7. ScanPost(t, req, q, f[q])
      BY <3>1, <3>2, <3>6
    <3> QED BY <1>6, <3>1, <3>3, <3>4, <3>5, <3>7 DEF ScanPost
  <2>11. CASE b.res # "EFULL"
    <3>1. r = b
      BY <1>6, <2>11 DEF b, d
    <3>2. w.i <= KernelPath[l]
      BY <1>1, <2>1
    <3> HIDE DEF r
    <3> QED BY <2>3, <2>7, <2>9, <3>1, <3>2 DEF ScanPost
  <2> QED BY <2>10, <2>11
<1>7. ASSUME w.i < PT_LENGTH, ~InUse(t, w), r = Found("found", w.index), n * get_pages_per_entry[l] >= req.pages
      PROVE  ScanPost(t, req, w, r)
  <2>1. w.i \in Index /\ ~t[l][w.i].present
    BY <1>1, <1>7, LevelFacts DEF InUse
  <2>2. r.index = w.index
    BY <1>7 DEF Found
  <2> HIDE DEF r
  <2>3. CASE l # Last
    <3>1. w.i # KernelPath[l]
      BY <1>1, <2>1, <2>3 DEF Chain
    <3>2. w.index[l] \in Nat /\ w.index[l] < PT_LENGTH /\ w.index[l] # KernelPath[l]
      <4>1. w.index[l] \in Nat
        BY <1>1, LevelFacts DEF Paths
      <4> QED BY <1>1, <1>4, <1>7, <2>3, <3>1, <4>1, LevelFacts DEF ScanPre
    <3>3. w.index[l] \in Index
      BY <3>2, LevelFacts
    <3>4. Off(w.index)
      BY <1>1, <2>3, <3>2, <3>3 DEF Off, ScanPre
    <3> QED BY <2>2, <3>4 DEF ScanPost
  <2>4. CASE l = Last
    <3>1. /\ n \in Nat /\ n <= Need(l, req) /\ w.i + n <= PT_LENGTH
          /\ \A k \in 0..(n - 1) : Usable(t, l, w.i, req, k)
      BY <1>0, <1>1, <2>1, CountFreeFacts DEF Request
    <3> HIDE DEF n
    <3>2. Need(l, req) = req.pages /\ n >= req.pages
      <4>1. get_pages_per_entry[l] = 1 /\ req.pages \in Nat
        BY <2>4, PagesPerEntry DEF Kernel
      <4>2. (req.pages + 1 - 1) \div 1 = req.pages /\ n * 1 = n
        BY <3>1, <4>1
      <4> QED BY <1>7, <4>1, <4>2 DEF Need
    <3>3. n = req.pages
      BY <3>1, <3>2 DEF Kernel
    <3>4. ASSUME NEW j \in Index, w.i <= j, j < w.i + n PROVE ~t[Last][j].present
      <4> DEFINE k == j - w.i
      <4>1. k \in 0..(n - 1) /\ w.i + k = j
        BY <1>1, <3>1, <3>4, LevelFacts
      <4> HIDE DEF k
      <4>2. Usable(t, l, w.i, req, k)
        BY <3>1, <4>1
      <4> QED BY <1>2, <2>4, <4>1, <4>2 DEF Usable, Kernel
    <3>5. FreeRun(t, w.i, req.pages)
      BY <2>1, <3>1, <3>3, <3>4 DEF FreeRun
    <3>6. OnPath(w.index)
      <4>1. \A k \in Levels : k # Last => k < Last
        BY LevelFacts
      <4> QED BY <2>4, <4>1 DEF OnPath, ScanPre, Agrees
    <3>7. \/ w.index[Last] = w.i
          \/ w.index[Last] = w.i - 1 /\ "STRICT" \notin req.flags
      BY <2>4 DEF ScanPre
    <3>8. Room(t, w.index, req)
      BY <1>0, <1>1, <2>1, <3>5, <3>6, <3>7, RoomAt
    <3> QED BY <2>2, <2>4, <3>8 DEF ScanPost
  <2> QED BY <2>3, <2>4
<1>8. ASSUME w.i < PT_LENGTH, "STRICT" \notin req.flags, n # 0,
             r = f[AtLevel(w, w.i + n, w.index, w.i + n)]
      PROVE  ScanPost(t, req, w, r)
  <2> DEFINE q == AtLevel(w, w.i + n, w.index, w.i + n)
  <2>1. /\ q \in Searches /\ q.level = l /\ q.i = w.i + n /\ q.index[l] = w.i + n
        /\ \A k \in Levels : k # l => q.index[k] = w.index[k]
    BY <1>0, <1>1, <1>8, ScanArgs, ScanNext
  <2>2. Rank(q.level, q.i) < Rank(w.level, w.i)
    BY <1>0, <1>1, <1>8, <2>1, ScanNext, RankDown
  <2>3. n \in Nat
    BY <1>0, <1>1, <1>8, ScanNext
  <2>4. r = f[q]
    BY <1>8
  <2> HIDE DEF q, r, n
  <2>5. \A k \in Levels : k < l => q.index[k] = w.index[k]
    BY <1>1, <2>1, LevelFacts
  <2>6. ScanPre(req, q)
    <3>1. Agrees(q.index, l)
      BY <2>5 DEF ScanPre, Agrees
    <3> QED BY <2>1, <3>1 DEF ScanPre
  <2>7. ScanPost(t, req, q, f[q])
    BY <2>1, <2>2, <2>6
  <2>8. l # Last /\ q.i <= KernelPath[l] => w.i <= KernelPath[l]
    BY <1>1, <1>4, <2>1, <2>3
  <2> QED BY <1>8, <2>1, <2>4, <2>5, <2>7, <2>8 DEF ScanPost
<1>9. \/ r = Found("EFULL", w.index)
      \/ r = Found("EOVERLAP", w.index)
      \/ r = Found("wild", w.index)
      \/ r = Found("forever", w.index)
      \/ InUse(t, w) /\ l = Last /\ "STRICT" \notin req.flags /\ r = f[AtLevel(w, w.i + 2, w.index, w.i + 1)]
      \/ /\ InUse(t, w) /\ l # Last
         /\ r = IF f[Deeper(w)].res = "EFULL"
                THEN f[AtLevel(w, w.i + 2, f[Deeper(w)].index, w.i + 1)] ELSE f[Deeper(w)]
      \/ /\ w.i < PT_LENGTH /\ ~InUse(t, w)
         /\ r = Found("found", w.index) /\ n * get_pages_per_entry[l] >= req.pages
      \/ /\ w.i < PT_LENGTH /\ "STRICT" \notin req.flags /\ n # 0
         /\ r = f[AtLevel(w, w.i + n, w.index, w.i + n)]
  <2>1. \A e : ~pte_flags_match(e, req.flags)
    BY <1>2 DEF Kernel
  <2> HIDE DEF n
  <2> DEFINE a == n * get_pages_per_entry[l] >= req.pages
  <2> HIDE DEF a
  <2> QED BY <1>0, <2>1, ScanCases DEF n, a
<1>10. "EFULL" # "found" /\ "EOVERLAP" # "found" /\ "wild" # "found" /\ "forever" # "found"
  OBVIOUS
<1> HIDE DEF r
<1>11. /\ r = Found("EFULL", w.index) => ScanPost(t, req, w, r)
       /\ r = Found("EOVERLAP", w.index) => ScanPost(t, req, w, r)
       /\ r = Found("wild", w.index) => ScanPost(t, req, w, r)
       /\ r = Found("forever", w.index) => ScanPost(t, req, w, r)
  BY <1>3, <1>10, Zenon
<1> HIDE DEF n
<1>12. ScanPost(t, req, w, r)
  BY <1>5, <1>6, <1>7, <1>8, <1>9, <1>11, Zenon
<1> QED BY <1>12 DEF r

LEMMA SearchResult ==
  ASSUME NEW t, Chain(t), NEW req, Kernel(req), NEW w \in Searches, ScanPre(req, w)
  PROVE  find_space(t, req)[w] \in Answers /\ ScanPost(t, req, w, find_space(t, req)[w])
<1> DEFINE rank == [x \in Searches |-> Rank(x.level, x.i)]
           f == find_space(t, req)
           Bad == {x \in Searches : ScanPre(req, x) /\ ~ScanPost(t, req, x, f[x])}
<1>0. t \in Tables /\ Request(req)
  BY DEF Chain, Kernel, Request
<1>1. f \in [Searches -> Answers] /\ \A x \in Searches : f[x] = ScanBody(f, t, req, x)
  BY <1>0, ScanRule
<1> HIDE DEF f
<1>2. rank \in [Searches -> Nat]
  <2>1. \A x \in Searches : x.level \in Levels /\ x.i \in 0..(PT_LENGTH + 1)
    BY DEF Searches
  <2> QED BY <2>1, RankDown
<1>3. Bad = {}
  <2> SUFFICES ASSUME Bad # {} PROVE FALSE
    OBVIOUS
  <2>1. Bad \in SUBSET Searches
    OBVIOUS
  <2>2. PICK b \in Bad : \A q \in Searches : rank[q] < rank[b] => q \notin Bad
    <3> HIDE DEF Bad, rank
    <3> QED BY <1>2, <2>1, LeastBad
  <2>3. \A q \in Searches : Rank(q.level, q.i) < Rank(b.level, b.i) /\ ScanPre(req, q)
                            => ScanPost(t, req, q, f[q])
    BY <2>2
  <2>4. ScanPost(t, req, b, ScanBody(f, t, req, b))
    BY <1>1, <2>3, ScanStep
  <2> QED BY <1>1, <2>4
<1> QED BY <1>1, <1>3 DEF f

-----------------------------------------------------------------------------
(* recurse_map from an answer of the search on.                            *)
LEMMA ChainPut ==
  ASSUME NEW t, Chain(t), NEW l \in Levels, NEW i \in Index, NEW e \in Entry,
         l # Last => e.present = t[l][i].present
  PROVE  /\ Chain(Put(t, l, i, e))
         /\ \A k \in Levels, j \in Index :
              Put(t, l, i, e)[k][j] = IF k = l /\ j = i THEN e ELSE t[k][j]
<1>1. t \in Tables
  BY DEF Chain
<1>2. /\ Put(t, l, i, e) \in Tables
      /\ \A k \in Levels, j \in Index :
           Put(t, l, i, e)[k][j] = IF k = l /\ j = i THEN e ELSE t[k][j]
  BY <1>1, PutFacts
<1> QED BY <1>2 DEF Chain

LEMMA EntryKept ==
  \A e \in Entry : \A flags : /\ update_pt_pte_flags(e, flags).present = e.present
                              /\ update_pt_pte_flags(e, flags).frame = e.frame
<1>1. \A e \in Entry, a, b \in BOOLEAN :
        /\ [e EXCEPT !.writable = a, !.user = b, !.no_execute = FALSE].present = e.present
        /\ [e EXCEPT !.writable = a, !.user = b, !.no_execute = FALSE].frame = e.frame
  BY DEF Entry
<1>2. \A flags : ("WRITABLE" \in flags) \in BOOLEAN /\ ("USER" \in flags) \in BOOLEAN
  OBVIOUS
<1> QED BY <1>1, <1>2, Zenon DEF update_pt_pte_flags

Filled(t, u, s, n, frame, flags) ==
  /\ Chain(u)
  /\ \A j \in Index : u[Last][j] = IF s <= j /\ j < s + n THEN set_pte(frame + (j - s), flags)
                                   ELSE t[Last][j]

FillStart(w, s) == /\ w.level = Last /\ ~w.fault /\ w.pages # 0 /\ Chain(w.tables)
                   /\ Ready(w.tables, w.i, s, w.pages)
FillDone(f, flags, w, s) == /\ Filled(w.tables, f[w].tables, s, w.pages, w.frame, flags)
                            /\ f[w].pages = 0 /\ ~f[w].fault

LEMMA LeafFillStep ==
  ASSUME NEW index \in Paths, NEW flags, NEW f \in [MapWalks -> MapWalks],
         \A x \in MapWalks : f[x] = FillBody(f, index, flags, x),
         NEW w \in MapWalks, NEW s \in Index, FillStart(w, s),
         \A q \in MapWalks : \A z \in Index :
           Rank(q.level, q.i) < Rank(w.level, w.i) /\ FillStart(q, z) => FillDone(f, flags, q, z)
  PROVE  FillDone(f, flags, w, s)
<1> USE DEF FillStart, FillDone
<1> DEFINE e == w.tables[Last][w.i]
           a == set_pte(w.frame, flags)
           filled == [w EXCEPT !.tables[Last][w.i] = a, !.frame = @ + 1, !.pages = @ - 1]
           next(x) == [x EXCEPT !.level = Last, !.i = w.i + 1]
           u == Put(w.tables, Last, w.i, a)
<1>1. w.i \in 0..PT_LENGTH /\ w.pages \in Nat /\ w.frame \in Int /\ w.i <= s
  BY DEF MapWalks, Ready
<1>2. s \in Nat /\ s < PT_LENGTH /\ PT_LENGTH \in Nat /\ s + w.pages <= PT_LENGTH
  BY LevelFacts DEF Ready, FreeRun
<1>3. w.i # PT_LENGTH /\ w.i \in Nat
  BY <1>1, <1>2
<1>4. /\ w.i \in Index /\ filled \in MapWalks
      /\ filled = [w EXCEPT !.tables = u, !.frame = @ + 1, !.pages = @ - 1]
      /\ \A x \in MapWalks : next(x) \in MapWalks
  <2>1. ~(w.i = PT_LENGTH \/ w.pages = 0 \/ w.fault)
    BY <1>3
  <2> DEFINE fill == [w EXCEPT !.tables[w.level][w.i] = a, !.frame = @ + 1, !.pages = @ - 1]
             step(x) == [x EXCEPT !.level = w.level, !.i = w.i + 1]
  <2>2. /\ w.i \in Index /\ fill \in MapWalks
        /\ fill = [w EXCEPT !.tables = Put(w.tables, w.level, w.i, a), !.frame = @ + 1, !.pages = @ - 1]
        /\ \A x \in MapWalks : step(x) \in MapWalks
    BY <2>1, FillArgs, Zenon
  <2>3. fill = filled /\ \A x : step(x) = next(x)
    OBVIOUS
  <2> QED BY <2>2, <2>3
<1>5. f[w] = f[next(IF e.present THEN w ELSE filled)]
  BY <1>3 DEF FillBody
<1>6. \A x \in MapWalks : /\ next(x).level = Last /\ next(x).i = w.i + 1
                          /\ next(x).tables = x.tables /\ next(x).pages = x.pages
                          /\ next(x).frame = x.frame /\ next(x).fault = x.fault
  BY DEF MapWalks
<1>7. Rank(Last, w.i + 1) < Rank(w.level, w.i)
  <2>1. w.i \in 0..(PT_LENGTH + 1) /\ w.i + 1 \in 0..(PT_LENGTH + 1) /\ w.i + 1 > w.i
    BY <1>1, <1>2, <1>3
  <2> QED BY <2>1, RankDown, LevelFacts
<1>8. \A j \in Index : j \in Nat
  BY LevelFacts
<1>9. CASE w.i < s
  <2> DEFINE q == next(w)
  <2>1. e.present
    <3>1. w.i <= w.i
      BY <1>3
    <3> QED BY <1>4, <1>9, <3>1 DEF Ready
  <2>2. /\ q \in MapWalks /\ q.level = Last /\ q.i = w.i + 1 /\ q.tables = w.tables
        /\ q.pages = w.pages /\ q.frame = w.frame /\ q.fault = w.fault
    BY <1>4, <1>6
  <2>3. f[w] = f[q]
    BY <1>5, <2>1
  <2> HIDE DEF q
  <2>4. Ready(w.tables, w.i + 1, s, w.pages)
    BY <1>1, <1>3, <1>8, <1>9, <1>2 DEF Ready
  <2> QED BY <1>7, <2>2, <2>3, <2>4
<1>10. CASE w.i = s
  <2> DEFINE q == next(filled)
             n == w.pages - 1
  <2>1. ~e.present
    <3>1. s <= w.i /\ w.i < s + w.pages
      BY <1>1, <1>2, <1>10
    <3> QED BY <1>4, <3>1 DEF Ready, FreeRun
  <2>2. /\ filled.tables = u /\ filled.frame = w.frame + 1 /\ filled.pages = n /\ filled.fault = w.fault
    BY <1>4 DEF MapWalks
  <2>3. /\ q \in MapWalks /\ q.level = Last /\ q.i = s + 1 /\ q.tables = u
        /\ q.pages = n /\ q.frame = w.frame + 1 /\ q.fault = w.fault
    BY <1>4, <1>6, <1>10, <2>2
  <2>4. f[w] = f[q]
    BY <1>5, <2>1
  <2>5. n \in Nat
    BY <1>1
  <2>6. a \in Entry
    BY <1>1, EntryFacts
  <2>7. /\ Chain(u)
        /\ \A j \in Index : u[Last][j] = IF j = s THEN a ELSE w.tables[Last][j]
    <3>1. /\ Chain(Put(w.tables, Last, w.i, a))
          /\ \A k \in Levels, j \in Index :
               Put(w.tables, Last, w.i, a)[k][j] = IF k = Last /\ j = w.i THEN a ELSE w.tables[k][j]
      <4>1. Last \in Levels /\ w.i \in Index
        BY <1>4, LevelFacts
      <4> HIDE DEF a
      <4> QED BY <2>6, <4>1, ChainPut
    <3> QED BY <1>10, <3>1, LevelFacts
  <2> HIDE DEF q, n, u, filled
  <2>8. \A v : Filled(u, v, s + 1, n, w.frame + 1, flags) => Filled(w.tables, v, s, w.pages, w.frame, flags)
    <3> SUFFICES ASSUME NEW v, Filled(u, v, s + 1, n, w.frame + 1, flags), NEW j \in Index
                 PROVE  v[Last][j] = IF s <= j /\ j < s + w.pages THEN set_pte(w.frame + (j - s), flags)
                                     ELSE w.tables[Last][j]
      BY DEF Filled
    <3>1. v[Last][j] = IF s + 1 <= j /\ j < s + 1 + n THEN set_pte(w.frame + 1 + (j - (s + 1)), flags)
                       ELSE u[Last][j]
      BY DEF Filled
    <3>2. w.frame + 1 + (j - (s + 1)) = w.frame + (j - s) /\ s + 1 + n = s + w.pages /\ j \in Nat
      BY <1>1, <1>2, <1>8 DEF n
    <3>3. CASE j = s
      <4>1. w.frame + (j - s) = w.frame /\ s <= j /\ j < s + w.pages /\ ~(s + 1 <= j)
        BY <1>1, <1>2, <3>3
      <4> QED BY <2>7, <3>1, <3>3, <4>1
    <3>4. CASE j # s
      <4>1. s + 1 <= j <=> s <= j
        BY <1>2, <3>2, <3>4
      <4> QED BY <2>7, <3>1, <3>2, <3>4, <4>1
    <3> QED BY <3>3, <3>4
  <2>9. CASE n = 0
    <3>1. f[q] = q
      BY <2>3, <2>9 DEF FillBody
    <3>2. Filled(u, u, s + 1, n, w.frame + 1, flags)
      <4>1. \A j \in Index : ~(s + 1 <= j /\ j < s + 1 + n)
        BY <1>2, <1>8, <2>9
      <4> QED BY <2>7, <4>1 DEF Filled
    <3> QED BY <2>3, <2>4, <2>8, <2>9, <3>1, <3>2
  <2>10. CASE n # 0
    <3>1. s + 1 \in Index
      <4>1. s + 1 \in Nat /\ s + 1 < PT_LENGTH
        BY <1>1, <1>2, <2>5, <2>10 DEF n
      <4> QED BY <4>1, LevelFacts
    <3>2. Ready(u, s + 1, s + 1, n)
      <4>1. s + 1 + n <= PT_LENGTH /\ s + 1 <= s + 1
        BY <1>1, <1>2 DEF n
      <4>2. ASSUME NEW j \in Index, s + 1 <= j, j < s + 1 + n PROVE ~u[Last][j].present
        <5>1. j # s /\ s <= j /\ j < s + w.pages
          BY <1>1, <1>2, <1>8, <4>2 DEF n
        <5> QED BY <2>7, <5>1 DEF Ready, FreeRun
      <4>3. \A j \in Index : ~(s + 1 <= j /\ j < s + 1)
        BY <1>2, <1>8
      <4> QED BY <3>1, <4>1, <4>2, <4>3 DEF Ready, FreeRun
    <3>3. Rank(q.level, q.i) < Rank(w.level, w.i)
      BY <1>7, <1>10, <2>3
    <3>4. Filled(u, f[q].tables, s + 1, n, w.frame + 1, flags) /\ f[q].pages = 0 /\ ~f[q].fault
      BY <2>3, <2>7, <2>10, <3>1, <3>2, <3>3
    <3> QED BY <2>4, <2>8, <3>4
  <2> QED BY <2>9, <2>10
<1> QED BY <1>1, <1>2, <1>3, <1>9, <1>10

LEMMA LeafFill ==
  ASSUME NEW index \in Paths, NEW flags, NEW w \in MapWalks, NEW s \in Index, FillStart(w, s)
  PROVE  FillDone(recurse_map(index, flags), flags, w, s)
<1> DEFINE f == recurse_map(index, flags)
           rank == [x \in MapWalks |-> Rank(x.level, x.i)]
           Bad == {x \in MapWalks : \E z \in Index : FillStart(x, z) /\ ~FillDone(f, flags, x, z)}
<1>1. f \in [MapWalks -> MapWalks] /\ \A x \in MapWalks : f[x] = FillBody(f, index, flags, x)
  BY FillRule
<1>2. rank \in [MapWalks -> Nat]
  <2>1. \A x \in MapWalks : x.level \in Levels /\ x.i \in 0..(PT_LENGTH + 1)
    BY LevelFacts DEF MapWalks
  <2> QED BY <2>1, RankDown
<1> HIDE DEF f
<1>3. Bad = {}
  <2> SUFFICES ASSUME Bad # {} PROVE FALSE
    OBVIOUS
  <2>1. Bad \in SUBSET MapWalks
    OBVIOUS
  <2>2. PICK b \in Bad : \A q \in MapWalks : rank[q] < rank[b] => q \notin Bad
    <3> HIDE DEF Bad, rank
    <3> QED BY <1>2, <2>1, LeastBad
  <2>3. PICK z \in Index : FillStart(b, z) /\ ~FillDone(f, flags, b, z)
    OBVIOUS
  <2>4. \A q \in MapWalks : \A y \in Index :
          Rank(q.level, q.i) < Rank(b.level, b.i) /\ FillStart(q, y) => FillDone(f, flags, q, y)
    BY <2>2
  <2>5. b \in MapWalks
    OBVIOUS
  <2> HIDE DEF Bad
  <2>6. FillDone(f, flags, b, z)
    BY <1>1, <2>3, <2>4, <2>5, LeafFillStep, Zenon
  <2> QED BY <2>3, <2>6
<1> QED BY <1>3 DEF f

(* A turn on the path: the walk goes down, and is over when it comes back. *)
LEMMA FillDown ==
  ASSUME NEW index \in Paths, NEW flags, NEW f, f = recurse_map(index, flags),
         NEW w \in MapWalks, w.level # Last, w.i = KernelPath[w.level], Chain(w.tables),
         ~w.fault, w.pages # 0
  PROVE  \E d \in MapWalks :
           /\ d.level = w.level + 1 /\ d.i = index[w.level + 1] /\ Chain(d.tables)
           /\ ~d.fault /\ d.pages = w.pages /\ d.frame = w.frame
           /\ \A j \in Index : d.tables[Last][j] = w.tables[Last][j]
           /\ f[d].pages = 0 \/ f[d].fault =>
                f[w].tables = f[d].tables /\ f[w].pages = f[d].pages /\ f[w].fault = f[d].fault
<1> DEFINE l == w.level
           e == w.tables[l][w.i]
           a == update_pt_pte_flags(e, flags)
           flagged == [w EXCEPT !.tables[l][w.i] = a]
           d == [flagged EXCEPT !.level = l + 1, !.i = index[l + 1]]
           next(x) == [x EXCEPT !.level = l, !.i = w.i + 1]
           u == Put(w.tables, l, w.i, a)
<1>0. f \in [MapWalks -> MapWalks] /\ \A x \in MapWalks : f[x] = FillBody(f, index, flags, x)
  BY FillRule
<1>1. l \in Levels /\ w.i \in Index /\ w.tables \in Tables
  BY PathFacts DEF MapWalks
<1>2. w.i # PT_LENGTH
  BY <1>1, LevelFacts
<1>3. /\ e \in Entry /\ flagged = [w EXCEPT !.tables = u] /\ flagged \in MapWalks
      /\ d \in MapWalks /\ \A x \in MapWalks : next(x) \in MapWalks
  <2>1. ~(w.i = PT_LENGTH \/ w.pages = 0 \/ w.fault)
    BY <1>2
  <2> QED BY <2>1, FillArgs, Zenon
<1>4. e.present
  BY <1>1 DEF Chain
<1>5. f[w] = f[next(f[d])]
  BY <1>0, <1>2, <1>4 DEF FillBody
<1>6. Chain(u) /\ \A j \in Index : u[Last][j] = w.tables[Last][j]
  <2>1. a \in Entry /\ a.present = e.present
    BY <1>3, EntryFacts, EntryKept
  <2> HIDE DEF a
  <2>2. /\ Chain(Put(w.tables, l, w.i, a))
        /\ \A k \in Levels, j \in Index :
             Put(w.tables, l, w.i, a)[k][j] = IF k = l /\ j = w.i THEN a ELSE w.tables[k][j]
    BY <1>1, <2>1, ChainPut
  <2> QED BY <2>2, LevelFacts
<1>7. /\ d.level = l + 1 /\ d.i = index[l + 1] /\ d.tables = u /\ d.fault = w.fault
      /\ d.pages = w.pages /\ d.frame = w.frame
  <2>1. d = [[w EXCEPT !.tables = u] EXCEPT !.level = l + 1, !.i = index[l + 1]]
    BY <1>3
  <2> HIDE DEF d, u
  <2> QED BY <2>1 DEF MapWalks
<1> HIDE DEF d, u, flagged
<1>8. ASSUME f[d].pages = 0 \/ f[d].fault
      PROVE  f[w].tables = f[d].tables /\ f[w].pages = f[d].pages /\ f[w].fault = f[d].fault
  <2> DEFINE x == f[d]
             q == next(x)
  <2>1. x \in MapWalks /\ q \in MapWalks
    BY <1>0, <1>3
  <2>2. q.tables = x.tables /\ q.pages = x.pages /\ q.fault = x.fault
    BY <2>1 DEF MapWalks
  <2> HIDE DEF x, q
  <2>3. q.pages = 0 \/ q.fault
    BY <1>8, <2>2 DEF x
  <2>4. f[q] = q
    BY <1>0, <2>1, <2>3 DEF FillBody
  <2> QED BY <1>5, <2>2, <2>4 DEF q, x
<1> QED BY <1>3, <1>6, <1>7, <1>8

(* On the path the walk fills the run.                                     *)
PathStart(index, w, l, s) ==
  /\ w.level = l /\ w.i = index[l] /\ Chain(w.tables) /\ ~w.fault /\ w.pages # 0
  /\ Ready(w.tables, index[Last], s, w.pages)

LEMMA FillPath ==
  ASSUME NEW index \in Paths, OnPath(index), NEW flags, NEW s \in Index,
         NEW w \in MapWalks, PathStart(index, w, 0, s)
  PROVE  FillDone(recurse_map(index, flags), flags, w, s)
<1> DEFINE f == recurse_map(index, flags)
           G == {l \in Levels : \A x \in MapWalks : PathStart(index, x, l, s) => FillDone(f, flags, x, s)}
<1>1. Last \in G
  <2> SUFFICES ASSUME NEW x \in MapWalks, PathStart(index, x, Last, s) PROVE FillDone(f, flags, x, s)
    BY LevelFacts
  <2>1. FillStart(x, s)
    BY DEF PathStart, FillStart
  <2> QED BY <2>1, LeafFill
<1>2. ASSUME NEW l \in G, l # 0 PROVE l - 1 \in G
  <2> SUFFICES ASSUME NEW x \in MapWalks, PathStart(index, x, l - 1, s) PROVE FillDone(f, flags, x, s)
    BY <1>2, LevelFacts
  <2>1. l \in Levels /\ l - 1 \in Levels /\ l - 1 # Last /\ (l - 1) + 1 = l
    BY <1>2, LevelFacts
  <2> HIDE DEF f
  <2>2. PICK d \in MapWalks :
           /\ d.level = x.level + 1 /\ d.i = index[x.level + 1] /\ Chain(d.tables)
           /\ ~d.fault /\ d.pages = x.pages /\ d.frame = x.frame
           /\ \A j \in Index : d.tables[Last][j] = x.tables[Last][j]
           /\ f[d].pages = 0 \/ f[d].fault =>
                f[x].tables = f[d].tables /\ f[x].pages = f[d].pages /\ f[x].fault = f[d].fault
    <3>1. /\ x.level # Last /\ x.i = KernelPath[x.level] /\ Chain(x.tables)
          /\ ~x.fault /\ x.pages # 0
      BY <2>1 DEF PathStart, OnPath
    <3>2. f = recurse_map(index, flags)
      BY DEF f
    <3> QED BY <3>1, <3>2, FillDown
  <2>3. x.level + 1 = l
    BY <2>1 DEF PathStart
  <2>4. Ready(d.tables, index[Last], s, d.pages)
    BY <2>2 DEF PathStart, Ready, FreeRun
  <2>5. PathStart(index, d, l, s)
    BY <2>2, <2>3, <2>4 DEF PathStart
  <2>6. FillDone(f, flags, d, s)
    BY <2>5
  <2> QED BY <2>2, <2>6 DEF FillDone, Filled
<1>3. G = Levels
  <2>1. G \in SUBSET Levels
    OBVIOUS
  <2> HIDE DEF G
  <2> QED BY <1>1, <1>2, <2>1, LevelsDown
<1> QED BY <1>3, LevelFacts

(* Beside the path it ends in a fault.                                     *)
FaultStart(index, w, l) ==
  w.level = l /\ w.i = index[l] /\ Chain(w.tables) /\ ~w.fault /\ w.pages # 0

LEMMA FillFaults ==
  ASSUME NEW index \in Paths, Off(index), NEW flags, NEW w \in MapWalks, FaultStart(index, w, 0)
  PROVE  recurse_map(index, flags)[w].fault
<1> DEFINE f == recurse_map(index, flags)
<1>1. PICK m \in Levels : m # Last /\ Agrees(index, m) /\ index[m] \in Index /\ index[m] # KernelPath[m]
  BY DEF Off
<1> DEFINE G == {l \in Levels : l <= m => \A x \in MapWalks : FaultStart(index, x, l) => f[x].fault}
<1>2. ASSUME NEW x \in MapWalks, FaultStart(index, x, m) PROVE f[x].fault
  <2>1. f[x] = FillBody(f, index, flags, x)
    BY FillRule
  <2>2. x.level = m /\ x.i \in Index /\ x.i # PT_LENGTH /\ ~x.tables[m][x.i].present
    BY <1>1, <1>2, LevelFacts DEF FaultStart, Chain
  <2> HIDE DEF f
  <2>3. f[x] = [x EXCEPT !.fault = TRUE]
    BY <1>1, <1>2, <2>1, <2>2 DEF FillBody, FaultStart
  <2> QED BY <2>3 DEF MapWalks
<1>3. ASSUME NEW l \in Levels, l < m, \A x \in MapWalks : FaultStart(index, x, l + 1) => f[x].fault,
             NEW x \in MapWalks, FaultStart(index, x, l)
      PROVE  f[x].fault
  <2>1. l # Last /\ l + 1 \in Levels
    BY <1>3, LevelFacts
  <2> HIDE DEF f
  <2>2. PICK d \in MapWalks :
           /\ d.level = x.level + 1 /\ d.i = index[x.level + 1] /\ Chain(d.tables)
           /\ ~d.fault /\ d.pages = x.pages /\ d.frame = x.frame
           /\ \A j \in Index : d.tables[Last][j] = x.tables[Last][j]
           /\ f[d].pages = 0 \/ f[d].fault =>
                f[x].tables = f[d].tables /\ f[x].pages = f[d].pages /\ f[x].fault = f[d].fault
    <3>1. /\ x.level # Last /\ x.i = KernelPath[x.level] /\ Chain(x.tables)
          /\ ~x.fault /\ x.pages # 0
      BY <1>1, <1>3, <2>1 DEF FaultStart, Agrees
    <3>2. f = recurse_map(index, flags)
      BY DEF f
    <3> QED BY <3>1, <3>2, FillDown
  <2>3. FaultStart(index, d, l + 1)
    BY <1>3, <2>2 DEF FaultStart
  <2> QED BY <1>3, <2>2, <2>3
<1> HIDE DEF f
<1>4. Last \in G
  BY <1>1, LevelFacts
<1>5. ASSUME NEW l \in G, l # 0 PROVE l - 1 \in G
  <2> SUFFICES ASSUME l - 1 <= m, NEW x \in MapWalks, FaultStart(index, x, l - 1) PROVE f[x].fault
    BY <1>5, LevelFacts
  <2>1. l - 1 \in Levels /\ (l - 1) + 1 = l /\ l \in Levels
    BY <1>5, LevelFacts
  <2>2. CASE l - 1 = m
    BY <1>2, <2>2
  <2>3. CASE l - 1 # m
    <3>1. l - 1 < m /\ l <= m
      BY <2>1, <2>3, LevelFacts
    <3>2. \A y \in MapWalks : FaultStart(index, y, (l - 1) + 1) => f[y].fault
      BY <2>1, <3>1
    <3> QED BY <1>3, <2>1, <3>1, <3>2
  <2> QED BY <2>2, <2>3
<1>6. G = Levels
  <2>1. G \in SUBSET Levels
    OBVIOUS
  <2> HIDE DEF G
  <2> QED BY <1>4, <1>5, <2>1, LevelsDown
<1> QED BY <1>6, LevelFacts DEF f

(* vm_map_pages as a whole: it maps one free run of the kernel's table, or *)
(* it changes nothing.                                                     *)
LEMMA MapResult ==
  ASSUME NEW t, Chain(t), NEW frame \in Int, NEW pages \in Nat \ {0}, NEW v \in 0..(AddressEnd - 1),
         NEW flags, "USER" \notin flags, NEW m, m = vm_map_pages(t, frame, pages, v, flags)
  PROVE  /\ m.res # "SUCCESS" => m.tables = t
         /\ m.res = "SUCCESS" =>
              \E s \in Index : /\ FreeRun(t, s, pages) /\ Filled(t, m.tables, s, pages, frame, flags)
                               /\ "STRICT" \in flags => m.v = v /\ v = KernelStart + s
<1> DEFINE index == Indices(v)
           req == [frame |-> frame, pages |-> pages, flags |-> flags]
           w == [level |-> 0, i |-> index[0], index |-> index]
           f == find_space(t, req)[w]
           x == [level |-> 0, i |-> f.index[0], tables |-> t, frame |-> frame, pages |-> pages,
                 fault |-> FALSE]
           r == recurse_map(f.index, flags)[x]
<1>1. index \in Full /\ index \in Paths
  <2>1. v \in Nat
    BY AddressEndFacts
  <2> QED BY <2>1, IndicesFacts
<1>2. w \in Searches /\ w.level = 0 /\ w.index = index /\ w.i = index[0]
  <2>1. index[0] \in 0..(PT_LENGTH + 1) /\ 0 \in Levels
    BY <1>1, LevelFacts DEF Full
  <2> HIDE DEF index
  <2> QED BY <1>1, <2>1 DEF Searches
<1>3. Kernel(req) /\ req.pages = pages /\ req.flags = flags
  BY DEF Kernel
<1>4. ScanPre(req, w)
  <2>1. \A k \in Levels : ~(k < 0)
    BY LevelFacts
  <2> HIDE DEF w, index
  <2> QED BY <1>2, <2>1, LevelFacts DEF ScanPre, Agrees
<1>5. f \in Answers /\ ScanPost(t, req, w, f)
  <2> HIDE DEF w, req
  <2> QED BY <1>2, <1>3, <1>4, SearchResult
<1>6. m = CASE f.res \in {"wild", "forever"} -> Stop(t, f.res)
            [] f.res \in {"EFULL", "EOVERLAP"} -> [tables |-> t, res |-> f.res, v |-> v]
            [] f.res = "found" /\ r.fault -> Stop(t, "fault")
            [] OTHER -> [tables |-> r.tables, res |-> "SUCCESS", v |-> Vaddr(f.index)]
  BY DEF vm_map_pages
<1> HIDE DEF f
<1>7. CASE f.res # "found"
  <2>1. f.res \in {"wild", "forever", "EFULL", "EOVERLAP"}
    BY <1>5, <1>7 DEF Answers
  <2> HIDE DEF r
  <2> QED BY <1>6, <2>1 DEF Stop
<1>8. CASE f.res = "found"
  <2>1. f.index \in Paths
    BY <1>5 DEF Answers
  <2>2. /\ x \in MapWalks /\ x.level = 0 /\ x.i = f.index[0] /\ x.tables = t /\ x.frame = frame
        /\ x.pages = pages /\ x.fault = FALSE
    <3>1. f.index[0] \in 0..PT_LENGTH /\ 0 \in Levels
      BY <2>1, LevelFacts DEF Paths
    <3>2. t \in Tables
      BY DEF Chain
    <3> HIDE DEF Tables, Levels
    <3> QED BY <3>1, <3>2 DEF MapWalks
  <2> HIDE DEF x
  <2>3. CASE Off(f.index)
    <3>1. FaultStart(f.index, x, 0)
      BY <2>2 DEF FaultStart
    <3>2. r.fault
      BY <2>1, <2>2, <2>3, <3>1, FillFaults
    <3> HIDE DEF r
    <3> QED BY <1>6, <1>8, <3>2 DEF Stop
  <2>4. CASE ~Off(f.index)
    <3>1. Room(t, f.index, req) /\ ("STRICT" \in flags => f.index = index)
      BY <1>2, <1>3, <1>5, <1>8, <2>4 DEF ScanPost
    <3>2. PICK s \in Index : /\ Ready(t, f.index[Last], s, pages)
                             /\ "STRICT" \in flags => s = f.index[Last]
      BY <1>3, <3>1 DEF Room
    <3>3. PathStart(f.index, x, 0, s)
      BY <2>2, <3>2 DEF PathStart
    <3>4. FillDone(recurse_map(f.index, flags), flags, x, s)
      BY <2>1, <2>2, <3>1, <3>3, FillPath DEF Room
    <3>5. ~r.fault /\ Filled(t, r.tables, s, pages, frame, flags)
      BY <2>2, <3>4 DEF FillDone
    <3> HIDE DEF r
    <3>6. m = [tables |-> r.tables, res |-> "SUCCESS", v |-> Vaddr(f.index)]
      BY <1>6, <1>8, <3>5
    <3>7. ASSUME "STRICT" \in flags PROVE m.v = v /\ v = KernelStart + s
      <4>1. f.index = index /\ OnPath(index) /\ s = index[Last]
        BY <3>1, <3>2, <3>7 DEF Room
      <4>2. v = KernelStart + index[Last]
        BY <4>1, KernelPageFacts
      <4>3. Vaddr(index) = v
        BY VaddrOfIndices, AddressEndFacts
      <4> HIDE DEF index
      <4> QED BY <3>6, <4>1, <4>2, <4>3
    <3>8. FreeRun(t, s, pages)
      BY <3>2 DEF Ready
    <3> QED BY <3>5, <3>6, <3>7, <3>8
  <2> QED BY <2>3, <2>4
<1> QED BY <1>7, <1>8

-----------------------------------------------------------------------------
(* recurse_unmap from a page of the kernel, or from one behind it, on.     *)
LEMMA ClearFields ==
  ASSUME NEW w \in UnmapWalks, w.index[w.level] # PT_LENGTH
  PROVE  /\ w.level = Last =>
              /\ Cleared(w).tables = Put(w.tables, Last, w.index[Last], NoEntry) /\ Cleared(w).n = 1
              /\ Cleared(w).cursor = w.cursor + 1 /\ Cleared(w).gone = w.gone \cup {w.cursor}
              /\ Cleared(w).index = w.index /\ Cleared(w).level = w.level
         /\ Stepped(w).tables = w.tables /\ Stepped(w).gone = w.gone /\ Stepped(w).index = w.index
         /\ Lower(w).level = w.level + 1 /\ Lower(w).n = 0 /\ Lower(w).tables = w.tables
         /\ Lower(w).index = w.index /\ Lower(w).cursor = w.cursor /\ Lower(w).gone = w.gone
         /\ \A b \in UnmapWalks :
              /\ Summed(w, b).tables = b.tables /\ Summed(w, b).gone = b.gone
              /\ Summed(w, b).index = b.index /\ Summed(w, b).cursor = b.cursor
              /\ Summed(w, b).level = w.level /\ Summed(w, b).n = w.n + b.n
              /\ Turned(w, b).tables = b.tables /\ Turned(w, b).gone = b.gone
              /\ Turned(w, b).cursor = b.cursor /\ Turned(w, b).level = b.level
              /\ Turned(w, b).n = b.n
              /\ Turned(w, b).index[w.level] = w.index[w.level] + 1
              /\ \A k \in Levels : k # w.level => Turned(w, b).index[k] = b.index[k]
<1> HIDE DEF Tables, Levels, Index
<1>1. w.level = Last =>
        /\ Cleared(w).tables = Put(w.tables, Last, w.index[Last], NoEntry) /\ Cleared(w).n = 1
        /\ Cleared(w).cursor = w.cursor + 1 /\ Cleared(w).gone = w.gone \cup {w.cursor}
        /\ Cleared(w).index = w.index /\ Cleared(w).level = w.level
  <2>1. Cleared(w) = [w EXCEPT !.tables = Put(w.tables, w.level, w.index[w.level], NoEntry),
                               !.n = 1, !.cursor = @ + 1, !.gone = @ \cup {w.cursor}]
    BY ClearArgs
  <2> HIDE DEF Cleared, Put
  <2> QED BY <2>1 DEF UnmapWalks
<1>2. /\ Stepped(w).tables = w.tables /\ Stepped(w).gone = w.gone /\ Stepped(w).index = w.index
      /\ Lower(w).level = w.level + 1 /\ Lower(w).n = 0 /\ Lower(w).tables = w.tables
      /\ Lower(w).index = w.index /\ Lower(w).cursor = w.cursor /\ Lower(w).gone = w.gone
  BY DEF UnmapWalks, Stepped, Lower
<1>3. ASSUME NEW b \in UnmapWalks
      PROVE  /\ Summed(w, b).tables = b.tables /\ Summed(w, b).gone = b.gone
             /\ Summed(w, b).index = b.index /\ Summed(w, b).cursor = b.cursor
             /\ Summed(w, b).level = w.level /\ Summed(w, b).n = w.n + b.n
  BY DEF UnmapWalks, Summed
<1>4. ASSUME NEW b \in UnmapWalks
      PROVE  /\ Turned(w, b).tables = b.tables /\ Turned(w, b).gone = b.gone
             /\ Turned(w, b).cursor = b.cursor /\ Turned(w, b).level = b.level
             /\ Turned(w, b).n = b.n
             /\ Turned(w, b).index[w.level] = w.index[w.level] + 1
             /\ \A k \in Levels : k # w.level => Turned(w, b).index[k] = b.index[k]
  <2> DEFINE y == [b.index EXCEPT ![w.level] = w.index[w.level] + 1]
  <2>1. Turned(w, b) = [b EXCEPT !.index = y]
    BY DEF Turned
  <2>2. w.level \in Levels /\ b.index \in Paths
    BY DEF UnmapWalks
  <2>3. y[w.level] = w.index[w.level] + 1 /\ \A k \in Levels : k # w.level => y[k] = b.index[k]
    BY <2>2 DEF Paths
  <2> HIDE DEF y
  <2>4. Turned(w, b).index = y
    BY <2>1 DEF UnmapWalks
  <2>5. /\ Turned(w, b).tables = b.tables /\ Turned(w, b).gone = b.gone
        /\ Turned(w, b).cursor = b.cursor /\ Turned(w, b).level = b.level
        /\ Turned(w, b).n = b.n
    BY <2>1 DEF UnmapWalks
  <2> QED BY <2>3, <2>4, <2>5
<1> QED BY <1>1, <1>2, <1>3, <1>4

(* Behind the path there is nothing left to clear.                         *)
SpentStart(w) == /\ w.level # Last /\ w.index[w.level] > KernelPath[w.level] /\ Chain(w.tables)
SpentDone(w, r) == /\ r.tables = w.tables /\ r.gone = w.gone
                   /\ \A k \in Levels : k < w.level => r.index[k] = w.index[k]

LEMMA SpentStep ==
  ASSUME NEW pages, NEW f \in [UnmapWalks -> UnmapWalks], NEW w \in UnmapWalks, SpentStart(w),
         f[w] = ClearBody(f, pages, w),
         \A q \in UnmapWalks :
           Rank(q.level, q.index[q.level]) < Rank(w.level, w.index[w.level]) /\ SpentStart(q)
             => SpentDone(q, f[q])
  PROVE  SpentDone(w, f[w])
<1> DEFINE l == w.level
           i == w.index[l]
<1>1. CASE i = PT_LENGTH \/ w.n >= pages
  BY <1>1 DEF ClearBody, SpentDone
<1>2. CASE ~(i = PT_LENGTH \/ w.n >= pages)
  <2>1. l \in Levels /\ i \in Index /\ Stepped(w) \in UnmapWalks
    BY <1>2, ClearArgs
  <2>2. i \in Nat /\ i < PT_LENGTH /\ PT_LENGTH \in Nat /\ KernelPath[l] \in Nat /\ i > KernelPath[l]
    BY <2>1, LevelFacts, PathFacts DEF SpentStart
  <2>3. ~w.tables[l][i].present
    BY <2>1, <2>2 DEF SpentStart, Chain
  <2> DEFINE s == Summed(w, Stepped(w))
             t == Turned(w, s)
  <2>4. f[w] = IF s.n >= pages THEN s ELSE f[t]
    BY <1>2, <2>3 DEF SpentStart, ClearBody, Below
  <2>5. /\ s \in UnmapWalks /\ s.tables = w.tables /\ s.gone = w.gone /\ s.index = w.index /\ s.level = l
    <3> DEFINE v == Stepped(w)
    <3>1. w.index[w.level] # PT_LENGTH
      BY <1>2
    <3>2. v \in UnmapWalks
      BY <2>1
    <3>3. v.tables = w.tables /\ v.gone = w.gone /\ v.index = w.index
      BY <3>1, ClearFields
    <3> HIDE DEF v
    <3>4. /\ Summed(w, v).tables = v.tables /\ Summed(w, v).gone = v.gone
          /\ Summed(w, v).index = v.index /\ Summed(w, v).level = w.level
      BY <3>1, <3>2, ClearFields
    <3>5. Summed(w, v) \in UnmapWalks
      BY <3>1, <3>2, ClearArgs
    <3> QED BY <3>3, <3>4, <3>5 DEF v
  <2>6. /\ t \in UnmapWalks /\ t.tables = w.tables /\ t.gone = w.gone /\ t.level = l
        /\ t.index[l] = i + 1 /\ \A k \in Levels : k # l => t.index[k] = w.index[k]
    <3> HIDE DEF s
    <3>1. w.index[w.level] # PT_LENGTH /\ s \in UnmapWalks
      BY <1>2, <2>5
    <3>2. t \in UnmapWalks
      BY <3>1, ClearArgs
    <3>3. /\ t.tables = s.tables /\ t.gone = s.gone /\ t.level = s.level
          /\ t.index[l] = i + 1 /\ \A k \in Levels : k # l => t.index[k] = s.index[k]
      BY <3>1, ClearFields
    <3> HIDE DEF t
    <3> QED BY <2>5, <3>2, <3>3
  <2> HIDE DEF s, t
  <2>7. Rank(t.level, t.index[t.level]) < Rank(w.level, w.index[w.level])
    <3>1. i \in 0..(PT_LENGTH + 1) /\ i + 1 \in 0..(PT_LENGTH + 1) /\ i + 1 > i
      BY <2>2
    <3>2. Rank(l, i + 1) < Rank(l, i)
      BY <2>1, <3>1, RankDown
    <3> QED BY <2>6, <3>2
  <2>8. SpentStart(t)
    BY <2>2, <2>6 DEF SpentStart
  <2>9. SpentDone(t, f[t])
    BY <2>6, <2>7, <2>8
  <2>10. \A k \in Levels : k < l => k # l
    BY <2>1, LevelFacts
  <2> QED BY <2>4, <2>5, <2>6, <2>9, <2>10 DEF SpentDone
<1> QED BY <1>1, <1>2

LEMMA UnmapRank ==
  /\ [x \in UnmapWalks |-> Rank(x.level, x.index[x.level])] \in [UnmapWalks -> Nat]
  /\ \A w \in UnmapWalks : w.level \in Levels /\ w.index \in Paths /\ w.index[w.level] \in 0..PT_LENGTH
<1>1. \A w \in UnmapWalks : w.level \in Levels /\ w.index \in Paths
  BY DEF UnmapWalks
<1>2. \A w \in UnmapWalks : w.index[w.level] \in 0..PT_LENGTH
  <2> HIDE DEF Levels
  <2> QED BY <1>1 DEF Paths
<1>3. \A k \in 0..PT_LENGTH : k \in 0..(PT_LENGTH + 1)
  BY LevelFacts
<1> QED BY <1>1, <1>2, <1>3, RankDown

LEMMA Spent ==
  ASSUME NEW pages, NEW w \in UnmapWalks, SpentStart(w)
  PROVE  SpentDone(w, recurse_unmap(pages)[w])
<1> DEFINE f == recurse_unmap(pages)
           rank == [x \in UnmapWalks |-> Rank(x.level, x.index[x.level])]
           Bad == {x \in UnmapWalks : SpentStart(x) /\ ~SpentDone(x, f[x])}
<1>1. f \in [UnmapWalks -> UnmapWalks] /\ \A x \in UnmapWalks : f[x] = ClearBody(f, pages, x)
  BY ClearRule
<1> HIDE DEF f
<1>2. rank \in [UnmapWalks -> Nat]
  BY UnmapRank
<1>3. Bad = {}
  <2> SUFFICES ASSUME Bad # {} PROVE FALSE
    OBVIOUS
  <2>1. Bad \in SUBSET UnmapWalks
    OBVIOUS
  <2>2. PICK b \in Bad : \A q \in UnmapWalks : rank[q] < rank[b] => q \notin Bad
    <3> HIDE DEF Bad, rank
    <3> QED BY <1>2, <2>1, LeastBad
  <2>3. b \in UnmapWalks /\ SpentStart(b) /\ ~SpentDone(b, f[b])
    OBVIOUS
  <2>4. \A q \in UnmapWalks :
          Rank(q.level, q.index[q.level]) < Rank(b.level, b.index[b.level]) /\ SpentStart(q)
            => SpentDone(q, f[q])
    BY <2>2
  <2> HIDE DEF Bad
  <2>5. SpentDone(b, f[b])
    BY <1>1, <2>3, <2>4, SpentStep, Zenon
  <2> QED BY <2>3, <2>5
<1> QED BY <1>3 DEF f

(* In the last table the entries from the index on are cleared, and their  *)
(* pages are named.                                                        *)
Cut(t, u, i, n) ==
  /\ Chain(u)
  /\ \A j \in Index : u[Last][j] = IF i <= j /\ j < i + n THEN NoEntry ELSE t[Last][j]
ClearStart(pages, w) ==
  /\ w.level = Last /\ Chain(w.tables) /\ w.cursor = KernelStart + w.index[Last] /\ w.n <= pages
ClearDone(pages, w, r) ==
  /\ Cut(w.tables, r.tables, w.index[Last], pages - w.n)
  /\ \A k \in Levels : k < w.level => r.index[k] = w.index[k]
  /\ \A j \in Index : w.index[Last] <= j /\ j < w.index[Last] + (pages - w.n) => KernelStart + j \in r.gone
  /\ w.gone \subseteq r.gone

LEMMA LeafClearStep ==
  ASSUME NEW pages \in Nat, NEW f \in [UnmapWalks -> UnmapWalks], NEW w \in UnmapWalks,
         ClearStart(pages, w), f[w] = ClearBody(f, pages, w),
         \A q \in UnmapWalks :
           Rank(q.level, q.index[q.level]) < Rank(w.level, w.index[w.level]) /\ ClearStart(pages, q)
             => ClearDone(pages, q, f[q])
  PROVE  ClearDone(pages, w, f[w])
<1> DEFINE i == w.index[Last]
           d == pages - w.n
<1>1. /\ w.level = Last /\ i \in 0..PT_LENGTH /\ w.n \in Nat /\ w.cursor \in Nat /\ d \in Nat
      /\ i \in Nat /\ PT_LENGTH \in Nat /\ KernelStart \in Nat /\ w.cursor = KernelStart + i
      /\ Chain(w.tables)
  <2>1. w.level = Last /\ w.n \in Nat /\ w.cursor \in Nat /\ w.n <= pages
    BY DEF UnmapWalks, ClearStart
  <2>2. i \in 0..PT_LENGTH
    BY <2>1, UnmapRank
  <2> QED BY <2>1, <2>2, LevelFacts, PathPages DEF ClearStart
<1>2. \A j \in Index : j \in Nat /\ j < PT_LENGTH
  BY LevelFacts
<1>3. CASE i = PT_LENGTH \/ w.n >= pages
  <2>1. f[w] = w
    BY <1>1, <1>3 DEF ClearBody
  <2>2. \A j \in Index : ~(i <= j /\ j < i + d)
    <3> SUFFICES ASSUME NEW j \in Index PROVE ~(i <= j /\ j < i + d)
      OBVIOUS
    <3>1. j \in Nat /\ j < PT_LENGTH
      BY <1>2
    <3> QED BY <1>1, <1>3, <3>1
  <2> HIDE DEF i, d
  <2>3. Cut(w.tables, w.tables, i, d)
    BY <1>1, <2>2 DEF Cut
  <2> QED BY <2>1, <2>2, <2>3 DEF ClearDone, i, d
<1>4. CASE ~(i = PT_LENGTH \/ w.n >= pages)
  <2> DEFINE c == Cleared(w)
             s == Summed(w, c)
             t == Turned(w, s)
             u == Put(w.tables, Last, i, NoEntry)
  <2>0. w.index[w.level] # PT_LENGTH
    BY <1>1, <1>4
  <2>1. i \in Index /\ c \in UnmapWalks
    BY <1>1, <2>0, ClearArgs
  <2>2. c.tables = u /\ c.n = 1 /\ c.cursor = w.cursor + 1 /\ c.gone = w.gone \cup {w.cursor} /\ c.index = w.index
    BY <1>1, <2>0, ClearFields
  <2>3. f[w] = IF s.n >= pages THEN s ELSE f[t]
    BY <1>1, <1>4 DEF ClearBody, Below
  <2> HIDE DEF c
  <2>4. /\ s \in UnmapWalks /\ s.tables = u /\ s.n = w.n + 1 /\ s.cursor = w.cursor + 1
        /\ s.gone = w.gone \cup {w.cursor} /\ s.index = w.index /\ s.level = Last
    <3>1. s \in UnmapWalks /\ s.level = w.level
      BY <2>0, <2>1, ClearArgs
    <3>2. /\ s.tables = c.tables /\ s.gone = c.gone /\ s.index = c.index /\ s.cursor = c.cursor
          /\ s.n = w.n + c.n
      BY <2>0, <2>1, ClearFields
    <3> HIDE DEF s
    <3> QED BY <1>1, <2>2, <3>1, <3>2
  <2> HIDE DEF s
  <2>5. /\ t \in UnmapWalks /\ t.tables = u /\ t.n = w.n + 1 /\ t.cursor = w.cursor + 1
        /\ t.gone = w.gone \cup {w.cursor} /\ t.level = Last /\ t.index[Last] = i + 1
        /\ \A k \in Levels : k # Last => t.index[k] = w.index[k]
    <3>1. t \in UnmapWalks
      BY <2>0, <2>4, ClearArgs
    <3>2. /\ t.tables = s.tables /\ t.n = s.n /\ t.cursor = s.cursor /\ t.gone = s.gone
          /\ t.level = s.level /\ t.index[w.level] = w.index[w.level] + 1
          /\ \A k \in Levels : k # w.level => t.index[k] = s.index[k]
      BY <2>0, <2>4, ClearFields
    <3> HIDE DEF t
    <3> QED BY <1>1, <2>4, <3>1, <3>2
  <2> HIDE DEF t
  <2>6. Chain(u) /\ \A j \in Index : u[Last][j] = IF j = i THEN NoEntry ELSE w.tables[Last][j]
    <3>1. Last \in Levels /\ NoEntry \in Entry
      BY LevelFacts, EntryFacts
    <3>2. /\ Chain(Put(w.tables, Last, i, NoEntry))
          /\ \A k \in Levels, j \in Index :
               Put(w.tables, Last, i, NoEntry)[k][j] = IF k = Last /\ j = i THEN NoEntry ELSE w.tables[k][j]
      <4>1. Chain(w.tables)
        BY <1>1
      <4> HIDE DEF i
      <4> QED BY <2>1, <3>1, <4>1, ChainPut
    <3> QED BY <3>1, <3>2
  <2>7. KernelStart + i = w.cursor
    BY <1>1
  <2> HIDE DEF u
  <2>8. ASSUME NEW r, NEW m \in Nat, d = m + 1, Cut(u, r.tables, i + 1, m),
               \A k \in Levels : k < Last => r.index[k] = w.index[k],
               \A j \in Index : i + 1 <= j /\ j < i + 1 + m => KernelStart + j \in r.gone,
               w.gone \cup {w.cursor} \subseteq r.gone
        PROVE  ClearDone(pages, w, r)
    <3> HIDE DEF i, d
    <3>1. \A j \in Index : (i <= j /\ j < i + d) <=> (j = i \/ (i + 1 <= j /\ j < i + 1 + m))
      <4> SUFFICES ASSUME NEW j \in Index
                   PROVE (i <= j /\ j < i + d) <=> (j = i \/ (i + 1 <= j /\ j < i + 1 + m))
        OBVIOUS
      <4>1. j \in Nat
        BY <1>2
      <4> QED BY <1>1, <2>8, <4>1
    <3>2. Cut(w.tables, r.tables, i, d)
      <4>1. \A j \in Index : r.tables[Last][j] = IF i <= j /\ j < i + d THEN NoEntry ELSE w.tables[Last][j]
        <5> SUFFICES ASSUME NEW j \in Index
                     PROVE  r.tables[Last][j] = IF i <= j /\ j < i + d THEN NoEntry ELSE w.tables[Last][j]
          OBVIOUS
        <5>1. r.tables[Last][j] = IF i + 1 <= j /\ j < i + 1 + m THEN NoEntry ELSE u[Last][j]
          BY <2>8 DEF Cut
        <5> QED BY <2>6, <3>1, <5>1
      <4> QED BY <2>8, <4>1 DEF Cut
    <3>3. \A j \in Index : i <= j /\ j < i + d => KernelStart + j \in r.gone
      BY <2>7, <2>8, <3>1
    <3> QED BY <1>1, <2>8, <3>2, <3>3 DEF ClearDone, i, d
  <2>9. CASE s.n >= pages
    <3>1. d = 0 + 1 /\ f[w] = s
      BY <1>1, <1>4, <2>3, <2>4, <2>9
    <3>2. \A j \in Index : ~(i + 1 <= j /\ j < i + 1 + 0)
      BY <1>1, <1>2
    <3>3. Cut(u, u, i + 1, 0)
      BY <2>6, <3>2 DEF Cut
    <3> HIDE DEF i, d
    <3> QED BY <2>4, <2>8, <3>1, <3>2, <3>3
  <2>10. CASE ~(s.n >= pages)
    <3> DEFINE m == pages - t.n
    <3>1. d = m + 1 /\ f[w] = f[t] /\ t.n <= pages /\ m \in Nat
      BY <1>1, <1>4, <2>3, <2>4, <2>5, <2>10
    <3>2. Rank(t.level, t.index[t.level]) < Rank(w.level, w.index[w.level])
      <4>1. i \in 0..(PT_LENGTH + 1) /\ i + 1 \in 0..(PT_LENGTH + 1) /\ i + 1 > i
        BY <1>1, <1>4
      <4>2. Rank(Last, i + 1) < Rank(Last, i)
        BY <4>1, RankDown, LevelFacts
      <4> QED BY <1>1, <2>5, <4>2
    <3>3. ClearStart(pages, t)
      BY <1>1, <2>5, <2>6, <3>1 DEF ClearStart
    <3>4. ClearDone(pages, t, f[t])
      BY <2>5, <3>2, <3>3
    <3>5. /\ Cut(u, f[t].tables, i + 1, m)
          /\ \A k \in Levels : k < Last => f[t].index[k] = t.index[k]
          /\ \A j \in Index : i + 1 <= j /\ j < i + 1 + m => KernelStart + j \in f[t].gone
          /\ w.gone \cup {w.cursor} \subseteq f[t].gone
      BY <2>5, <3>4 DEF ClearDone
    <3>6. \A k \in Levels : k < Last => k # Last
      BY LevelFacts
    <3> HIDE DEF i, d, m
    <3>7. \A k \in Levels : k < Last => f[t].index[k] = w.index[k]
      BY <2>5, <3>5, <3>6
    <3> QED BY <2>8, <3>1, <3>5, <3>7
  <2> QED BY <2>9, <2>10
<1> QED BY <1>3, <1>4

LEMMA LeafClear ==
  ASSUME NEW pages \in Nat, NEW w \in UnmapWalks, ClearStart(pages, w)
  PROVE  ClearDone(pages, w, recurse_unmap(pages)[w])
<1> DEFINE f == recurse_unmap(pages)
           rank == [x \in UnmapWalks |-> Rank(x.level, x.index[x.level])]
           Bad == {x \in UnmapWalks : ClearStart(pages, x) /\ ~ClearDone(pages, x, f[x])}
<1>1. f \in [UnmapWalks -> UnmapWalks] /\ \A x \in UnmapWalks : f[x] = ClearBody(f, pages, x)
  BY ClearRule
<1> HIDE DEF f
<1>2. rank \in [UnmapWalks -> Nat]
  BY UnmapRank
<1>3. Bad = {}
  <2> SUFFICES ASSUME Bad # {} PROVE FALSE
    OBVIOUS
  <2>1. Bad \in SUBSET UnmapWalks
    OBVIOUS
  <2>2. PICK b \in Bad : \A q \in UnmapWalks : rank[q] < rank[b] => q \notin Bad
    <3> HIDE DEF Bad, rank
    <3> QED BY <1>2, <2>1, LeastBad
  <2>3. b \in UnmapWalks /\ ClearStart(pages, b) /\ ~ClearDone(pages, b, f[b])
    OBVIOUS
  <2>4. \A q \in UnmapWalks :
          Rank(q.level, q.index[q.level]) < Rank(b.level, b.index[b.level]) /\ ClearStart(pages, q)
            => ClearDone(pages, q, f[q])
    BY <2>2
  <2> HIDE DEF Bad
  <2>5. ClearDone(pages, b, f[b])
    BY <1>1, <2>3, <2>4, LeafClearStep, Zenon
  <2> QED BY <2>3, <2>5
<1> QED BY <1>3 DEF f

(* A turn on the path above the last table.                                *)
LEMMA ClearDown ==
  ASSUME NEW pages \in Nat, NEW f, f = recurse_unmap(pages),
         NEW w \in UnmapWalks, w.level # Last, w.index[w.level] = KernelPath[w.level],
         Chain(w.tables), w.n < pages,
         Chain(f[Lower(w)].tables),
         \A k \in Levels : k < w.level + 1 => f[Lower(w)].index[k] = w.index[k]
  PROVE  /\ f[w].tables = f[Lower(w)].tables /\ f[w].gone = f[Lower(w)].gone
         /\ \A k \in Levels : k < w.level => f[w].index[k] = w.index[k]
<1> DEFINE l == w.level
           i == w.index[l]
           r == f[Lower(w)]
           s == Summed(w, r)
           t == Turned(w, s)
<1>1. f \in [UnmapWalks -> UnmapWalks] /\ \A x \in UnmapWalks : f[x] = ClearBody(f, pages, x)
  BY ClearRule
<1>2. /\ l \in Levels /\ l # Last /\ i \in Index /\ i # PT_LENGTH /\ i \in Nat /\ l \in Nat /\ w.n \in Nat
      /\ i = KernelPath[l]
  <2>1. l \in Levels /\ w.n \in Nat
    BY DEF UnmapWalks
  <2>2. i = KernelPath[l] /\ i \in Index
    BY <2>1, PathFacts
  <2>3. i # PT_LENGTH /\ i \in Nat /\ l \in Nat
    BY <2>1, <2>2, LevelFacts
  <2> QED BY <2>1, <2>2, <2>3
<1>3. w.tables[l][i].present
  BY <1>2 DEF Chain
<1>4. Lower(w) \in UnmapWalks /\ r \in UnmapWalks
  <2>1. Lower(w) \in UnmapWalks
    BY <1>2, ClearArgs
  <2> QED BY <1>1, <2>1
<1>5. f[w] = IF s.n >= pages THEN s ELSE f[t]
  <2>1. f[w] = ClearBody(f, pages, w) /\ ~(w.n >= pages)
    BY <1>1, <1>2
  <2> HIDE DEF s, t
  <2> QED BY <1>2, <1>3, <2>1 DEF ClearBody, Below, s, t
<1>6. \A k \in Levels : k < l => r.index[k] = w.index[k] /\ k # l
  <2>1. \A k \in Levels : k < l => k < l + 1 /\ k # l
    BY <1>2, LevelFacts
  <2> QED BY <2>1
<1> HIDE DEF r
<1>7. s \in UnmapWalks /\ s.tables = r.tables /\ s.gone = r.gone /\ s.index = r.index /\ s.level = l
  <2>1. s \in UnmapWalks /\ s.level = w.level
    BY <1>2, <1>4, ClearArgs
  <2>2. s.tables = r.tables /\ s.gone = r.gone /\ s.index = r.index
    BY <1>2, <1>4, ClearFields
  <2> QED BY <2>1, <2>2
<1> HIDE DEF s
<1>8. /\ t \in UnmapWalks /\ t.tables = r.tables /\ t.gone = r.gone /\ t.level = l
      /\ t.index[l] = i + 1 /\ \A k \in Levels : k # l => t.index[k] = r.index[k]
  <2>1. t \in UnmapWalks
    BY <1>2, <1>7, ClearArgs
  <2>2. /\ t.tables = s.tables /\ t.gone = s.gone /\ t.level = s.level
        /\ t.index[w.level] = w.index[w.level] + 1
        /\ \A k \in Levels : k # w.level => t.index[k] = s.index[k]
    BY <1>2, <1>7, ClearFields
  <2> HIDE DEF t
  <2> QED BY <1>7, <2>1, <2>2
<1> HIDE DEF t
<1>9. SpentDone(t, f[t])
  <2>1. SpentStart(t)
    BY <1>2, <1>8 DEF SpentStart, r
  <2> QED BY <1>8, <2>1, Spent
<1> HIDE DEF l, i
<1>10. f[w].tables = r.tables /\ f[w].gone = r.gone /\ \A k \in Levels : k < l => f[w].index[k] = w.index[k]
  BY <1>5, <1>6, <1>7, <1>8, <1>9 DEF SpentDone
<1> QED BY <1>10 DEF r, l

(* On the path the run of pages is cleared.                                *)
UnmapStart(w, l) ==
  /\ w.level = l /\ OnPath(w.index) /\ Chain(w.tables) /\ w.cursor = KernelStart + w.index[Last]
  /\ w.n = 0
LEMMA LowerFacts ==
  ASSUME NEW w \in UnmapWalks, w.level # Last
  PROVE  /\ Lower(w) \in UnmapWalks /\ Lower(w).level = w.level + 1 /\ Lower(w).n = 0
         /\ Lower(w).tables = w.tables /\ Lower(w).index = w.index
         /\ Lower(w).cursor = w.cursor /\ Lower(w).gone = w.gone
<1>1. w.level + 1 \in Levels
  BY LevelFacts DEF UnmapWalks
<1> HIDE DEF Tables, Paths, Levels
<1> QED BY <1>1 DEF UnmapWalks, Lower

LEMMA ClearPath ==
  ASSUME NEW pages \in Nat \ {0}, NEW w \in UnmapWalks, UnmapStart(w, 0)
  PROVE  ClearDone(pages, w, recurse_unmap(pages)[w])
<1> DEFINE f == recurse_unmap(pages)
           G == {l \in Levels : \A x \in UnmapWalks : UnmapStart(x, l) => ClearDone(pages, x, f[x])}
<1>1. Last \in G
  <2> SUFFICES ASSUME NEW x \in UnmapWalks, UnmapStart(x, Last) PROVE ClearDone(pages, x, f[x])
    BY LevelFacts
  <2>1. ClearStart(pages, x)
    BY DEF UnmapStart, ClearStart
  <2> QED BY <2>1, LeafClear
<1>2. ASSUME NEW l \in G, l # 0 PROVE l - 1 \in G
  <2> SUFFICES ASSUME NEW x \in UnmapWalks, UnmapStart(x, l - 1) PROVE ClearDone(pages, x, f[x])
    BY <1>2, LevelFacts
  <2>1. l \in Levels /\ l - 1 \in Levels /\ l - 1 # Last /\ (l - 1) + 1 = l
    BY <1>2, LevelFacts
  <2> DEFINE d == Lower(x)
  <2>2. /\ d \in UnmapWalks /\ d.level = x.level + 1 /\ d.n = 0 /\ d.tables = x.tables
        /\ d.index = x.index /\ d.cursor = x.cursor /\ d.gone = x.gone /\ x.level = l - 1
    BY <2>1, LowerFacts DEF UnmapStart
  <2>3. UnmapStart(d, l)
    BY <2>1, <2>2 DEF UnmapStart
  <2> HIDE DEF f
  <2>4. ClearDone(pages, d, f[d])
    BY <2>2, <2>3
  <2>5. /\ f[x].tables = f[d].tables /\ f[x].gone = f[d].gone
        /\ \A k \in Levels : k < x.level => f[x].index[k] = x.index[k]
    <3>1. x.level # Last /\ x.index[x.level] = KernelPath[x.level] /\ Chain(x.tables) /\ x.n < pages
      BY <2>1, <2>2 DEF UnmapStart, OnPath
    <3>2. Chain(f[d].tables) /\ \A k \in Levels : k < x.level + 1 => f[d].index[k] = x.index[k]
      BY <2>2, <2>4 DEF ClearDone, Cut
    <3>3. f = recurse_unmap(pages) /\ pages \in Nat
      BY DEF f
    <3> QED BY <3>1, <3>2, <3>3, ClearDown
  <2>6. x.n = d.n
    BY <2>2 DEF UnmapStart
  <2> HIDE DEF d
  <2> QED BY <2>2, <2>4, <2>5, <2>6 DEF ClearDone
<1>3. G = Levels
  <2>1. G \in SUBSET Levels
    OBVIOUS
  <2> HIDE DEF G
  <2> QED BY <1>1, <1>2, <2>1, LevelsDown
<1> QED BY <1>3, LevelFacts

(* Above it there is nothing to clear.                                     *)
AboveStart(w, l, m) ==
  /\ w.level = l /\ Agrees(w.index, m) /\ w.index[m] > KernelPath[m] /\ Chain(w.tables) /\ w.n = 0

LEMMA ClearAbove ==
  ASSUME NEW pages \in Nat \ {0}, NEW m \in Levels, m # Last,
         NEW w \in UnmapWalks, AboveStart(w, 0, m)
  PROVE  SpentDone(w, recurse_unmap(pages)[w])
<1> DEFINE f == recurse_unmap(pages)
           G == {l \in Levels : l <= m => \A x \in UnmapWalks : AboveStart(x, l, m) => SpentDone(x, f[x])}
<1>1. ASSUME NEW x \in UnmapWalks, AboveStart(x, m, m) PROVE SpentDone(x, f[x])
  <2>1. SpentStart(x)
    BY <1>1 DEF AboveStart, SpentStart
  <2> QED BY <2>1, Spent
<1>2. ASSUME NEW l \in Levels, l < m, \A x \in UnmapWalks : AboveStart(x, l + 1, m) => SpentDone(x, f[x]),
             NEW x \in UnmapWalks, AboveStart(x, l, m)
      PROVE  SpentDone(x, f[x])
  <2>1. l # Last /\ l \in Nat
    BY <1>2, LevelFacts
  <2> DEFINE d == Lower(x)
  <2>2. /\ d \in UnmapWalks /\ d.level = l + 1 /\ d.n = 0 /\ d.tables = x.tables
        /\ d.index = x.index /\ d.gone = x.gone /\ x.level = l
    BY <1>2, <2>1, LowerFacts DEF AboveStart
  <2>3. AboveStart(d, l + 1, m)
    BY <1>2, <2>2 DEF AboveStart
  <2> HIDE DEF f
  <2>4. SpentDone(d, f[d])
    BY <1>2, <2>2, <2>3
  <2>5. /\ f[x].tables = f[d].tables /\ f[x].gone = f[d].gone
        /\ \A k \in Levels : k < x.level => f[x].index[k] = x.index[k]
    <3>1. x.level # Last /\ x.index[x.level] = KernelPath[x.level] /\ Chain(x.tables) /\ x.n < pages
      BY <1>2, <2>1, <2>2 DEF AboveStart, Agrees
    <3>2. Chain(f[d].tables) /\ \A k \in Levels : k < x.level + 1 => f[d].index[k] = x.index[k]
      BY <2>2, <2>4, <3>1 DEF SpentDone
    <3>3. f = recurse_unmap(pages) /\ pages \in Nat
      BY DEF f
    <3> QED BY <3>1, <3>2, <3>3, ClearDown
  <2> HIDE DEF d
  <2> QED BY <2>2, <2>4, <2>5 DEF SpentDone
<1> HIDE DEF f
<1>3. Last \in G
  BY LevelFacts
<1>4. ASSUME NEW l \in G, l # 0 PROVE l - 1 \in G
  <2> SUFFICES ASSUME l - 1 <= m, NEW x \in UnmapWalks, AboveStart(x, l - 1, m) PROVE SpentDone(x, f[x])
    BY <1>4, LevelFacts
  <2>1. l - 1 \in Levels /\ (l - 1) + 1 = l /\ l \in Levels
    BY <1>4, LevelFacts
  <2>2. CASE l - 1 = m
    BY <1>1, <2>2
  <2>3. CASE l - 1 # m
    <3>1. l - 1 < m /\ l <= m
      BY <2>1, <2>3, LevelFacts
    <3>2. \A y \in UnmapWalks : AboveStart(y, (l - 1) + 1, m) => SpentDone(y, f[y])
      BY <2>1, <3>1
    <3> QED BY <1>2, <2>1, <3>1, <3>2
  <2> QED BY <2>2, <2>3
<1>5. G = Levels
  <2>1. G \in SUBSET Levels
    OBVIOUS
  <2> HIDE DEF G
  <2> QED BY <1>3, <1>4, <2>1, LevelsDown
<1> QED BY <1>5, LevelFacts DEF f

(* vmk_unmap_bytes as a whole: the named pages of the kernel's table go,   *)
(* every one of them is invalidated, and nothing else changes.             *)
LEMMA UnmapResult ==
  ASSUME NEW t, Chain(t), NEW v \in KernelStart..(AddressEnd - 1), NEW pages \in Nat \ {0}, NEW u,
         u = recurse_unmap(pages)[[level |-> 0, n |-> 0, tables |-> t, index |-> Indices(v),
                                   cursor |-> v, gone |-> {}]]
  PROVE  /\ Chain(u.tables)
         /\ \A j \in Index :
              LET w == KernelStart + j
              IN  /\ v <= w /\ w < v + pages => u.tables[Last][j] = NoEntry /\ w \in u.gone
                  /\ ~(v <= w /\ w < v + pages) => u.tables[Last][j] = t[Last][j]
<1> DEFINE index == Indices(v)
           x == [level |-> 0, n |-> 0, tables |-> t, index |-> index, cursor |-> v, gone |-> {}]
<1>1. v \in Nat /\ v \in 0..(AddressEnd - 1) /\ KernelStart \in Nat /\ v >= KernelStart
  BY PathPages, AddressEndFacts
<1>2. index \in Full /\ index \in Paths
  BY <1>1, IndicesFacts
<1>3. /\ x \in UnmapWalks /\ x.level = 0 /\ x.n = 0 /\ x.tables = t /\ x.index = index
      /\ x.cursor = v
  <2>1. t \in Tables /\ 0 \in Levels
    BY LevelFacts DEF Chain
  <2> HIDE DEF index, Tables, Paths, Levels
  <2> QED BY <1>1, <1>2, <2>1 DEF UnmapWalks
<1>4. u = recurse_unmap(pages)[x]
  OBVIOUS
<1> HIDE DEF x
<1>5. CASE OnPath(index)
  <2> DEFINE i == index[Last]
  <2>1. v = KernelStart + i /\ i \in Index
    BY <1>1, <1>5, KernelPageFacts
  <2>2. UnmapStart(x, 0)
    BY <1>3, <1>5, <2>1 DEF UnmapStart
  <2>3. ClearDone(pages, x, u)
    BY <1>3, <1>4, <2>2, ClearPath
  <2> HIDE DEF index
  <2> DEFINE p == pages - x.n
  <2>4. p = pages
    BY <1>3
  <2>5. /\ Chain(u.tables)
        /\ \A j \in Index : u.tables[Last][j] = IF i <= j /\ j < i + p THEN NoEntry ELSE t[Last][j]
        /\ \A j \in Index : i <= j /\ j < i + p => KernelStart + j \in u.gone
    BY <1>3, <2>3 DEF ClearDone, Cut
  <2>6. \A j \in Index : (v <= KernelStart + j /\ KernelStart + j < v + pages) <=> (i <= j /\ j < i + p)
    <3> SUFFICES ASSUME NEW j \in Index
                 PROVE (v <= KernelStart + j /\ KernelStart + j < v + pages) <=> (i <= j /\ j < i + p)
      OBVIOUS
    <3>1. j \in Nat /\ i \in Nat
      BY <2>1, LevelFacts
    <3> HIDE DEF p, i
    <3> QED BY <1>1, <2>1, <2>4, <3>1
  <2> HIDE DEF p, i
  <2> QED BY <2>5, <2>6
<1>6. CASE ~OnPath(index)
  <2>1. PICK m \in Levels : m # Last /\ Agrees(index, m) /\ index[m] # KernelPath[m]
    BY <1>2, <1>6, LeavesPath
  <2>2. index[m] > KernelPath[m]
    BY <2>1, LeavesUpwards
  <2>3. AboveStart(x, 0, m)
    BY <1>3, <2>1, <2>2 DEF AboveStart
  <2>4. SpentDone(x, u)
    BY <1>3, <1>4, <2>1, <2>3, ClearAbove
  <2>5. v \notin KernelPages
    BY <1>1, <1>6, KernelPageFacts
  <2>6. \A j \in Index : ~(v <= KernelStart + j)
    <3>1. v >= KernelStart + PT_LENGTH
      BY <1>1, <2>5, LevelFacts DEF KernelPages, PagesFrom
    <3>2. \A j \in Index : j \in Nat /\ j < PT_LENGTH
      BY LevelFacts
    <3> QED BY <1>1, <3>1, <3>2, LevelFacts
  <2> QED BY <1>3, <2>4, <2>6 DEF SpentDone
<1> QED BY <1>5, <1>6

-----------------------------------------------------------------------------
(* recurse_flag: entries of the last table are marked up to the first one  *)
(* that is missing.                                                        *)
Marked(t, u, i, n, flags) ==
  /\ Chain(u) /\ i + n <= PT_LENGTH
  /\ \A j \in Index : IF i <= j /\ j < i + n
                      THEN t[Last][j].present /\ u[Last][j] = set_pte(t[Last][j].frame, flags)
                      ELSE u[Last][j] = t[Last][j]
Ends(t, j) == j \notin Index \/ ~t[Last][j].present

FlagStart(w) == w.level = Last /\ ~w.missing /\ Chain(w.tables)
FlagLeaf(flags, w, r, n) ==
  /\ n \in Nat /\ n <= w.pages /\ r.pages = w.pages - n
  /\ Marked(w.tables, r.tables, w.i, n, flags)
  /\ n < w.pages => Ends(w.tables, w.i + n)
  /\ r.missing => n < w.pages

LEMMA LeafFlagStep ==
  ASSUME NEW index \in Paths, NEW flags, NEW f \in [FlagWalks -> FlagWalks],
         NEW w \in FlagWalks, FlagStart(w), f[w] = FlagBody(f, index, flags, w),
         \A q \in FlagWalks :
           Rank(q.level, q.i) < Rank(w.level, w.i) /\ FlagStart(q)
             => \E n \in Nat : FlagLeaf(flags, q, f[q], n)
  PROVE  \E n \in Nat : FlagLeaf(flags, w, f[w], n)
<1> DEFINE e == w.tables[Last][w.i]
           a == set_pte(e.frame, flags)
           u == Put(w.tables, Last, w.i, a)
<1>1. /\ w.level = Last /\ w.i \in 0..PT_LENGTH /\ w.pages \in Nat /\ ~w.missing /\ w.i \in Nat
      /\ PT_LENGTH \in Nat /\ Chain(w.tables)
  BY LevelFacts DEF FlagWalks, FlagStart
<1>2. \A j \in Index : j \in Nat /\ j < PT_LENGTH
  BY LevelFacts
<1>3. Marked(w.tables, w.tables, w.i, 0, flags)
  <2>1. w.i + 0 <= PT_LENGTH /\ \A j \in Index : ~(w.i <= j /\ j < w.i + 0)
    BY <1>1, <1>2
  <2> QED BY <1>1, <2>1 DEF Marked
<1>4. CASE w.i = PT_LENGTH \/ w.pages = 0
  <2>1. f[w] = w
    BY <1>4 DEF FlagBody
  <2>2. w.pages = w.pages - 0 /\ 0 <= w.pages /\ w.i + 0 = w.i
    BY <1>1
  <2>3. 0 < w.pages => Ends(w.tables, w.i + 0)
    BY <1>1, <1>2, <1>4, <2>2 DEF Ends
  <2>4. FlagLeaf(flags, w, w, 0)
    BY <1>1, <1>3, <2>2, <2>3 DEF FlagLeaf
  <2> QED BY <2>1, <2>4
<1>5. CASE ~(w.i = PT_LENGTH \/ w.pages = 0) /\ ~e.present
  <2>1. f[w] = [w EXCEPT !.missing = TRUE]
    BY <1>1, <1>5 DEF FlagBody
  <2>2. f[w].tables = w.tables /\ f[w].pages = w.pages
    BY <2>1 DEF FlagWalks
  <2>3. w.pages = w.pages - 0 /\ 0 < w.pages /\ 0 <= w.pages /\ w.i + 0 = w.i
    BY <1>1, <1>5
  <2>4. FlagLeaf(flags, w, f[w], 0)
    BY <1>3, <1>5, <2>2, <2>3 DEF FlagLeaf, Ends
  <2> QED BY <2>4
<1>6. CASE ~(w.i = PT_LENGTH \/ w.pages = 0) /\ e.present
  <2> DEFINE done == [w EXCEPT !.tables[w.level][w.i] = set_pte(w.tables[w.level][w.i].frame, flags), !.pages = @ - 1]
             q == [done EXCEPT !.level = w.level, !.i = w.i + 1]
  <2>1. /\ w.i \in Index /\ w.tables[w.level][w.i] \in Entry /\ done \in FlagWalks /\ q \in FlagWalks
        /\ done = [w EXCEPT !.tables = Put(w.tables, w.level, w.i, set_pte(w.tables[w.level][w.i].frame, flags)), !.pages = @ - 1]
    <3>1. ~(w.i = PT_LENGTH \/ w.pages = 0 \/ w.missing)
      BY <1>1, <1>6
    <3> QED BY <3>1, FlagArgs, Zenon
  <2>2. f[w] = f[q]
    <3>1. f[w] = f[[[w EXCEPT !.tables[w.level][w.i] = set_pte(w.tables[w.level][w.i].frame, flags), !.pages = @ - 1]
                    EXCEPT !.level = w.level, !.i = w.i + 1]]
      BY <1>1, <1>6 DEF FlagBody
    <3> QED BY <3>1
  <2>3. done = [w EXCEPT !.tables = u, !.pages = @ - 1] /\ e \in Entry
    BY <1>1, <2>1
  <2> HIDE DEF done, u
  <2>4. /\ q.level = Last /\ q.i = w.i + 1 /\ q.tables = u /\ q.pages = w.pages - 1 /\ ~q.missing
    <3>1. done.tables = u /\ done.pages = w.pages - 1 /\ done.missing = w.missing
      BY <2>3 DEF FlagWalks
    <3> QED BY <1>1, <2>1, <3>1 DEF FlagWalks
  <2> HIDE DEF q
  <2>5. Chain(u) /\ \A j \in Index : u[Last][j] = IF j = w.i THEN a ELSE w.tables[Last][j]
    <3>1. a \in Entry
      <4>1. e.frame \in Int
        BY <2>3, CallerAssumption DEF Entry
      <4> QED BY <4>1, EntryFacts
    <3>2. Last \in Levels
      BY LevelFacts
    <3> HIDE DEF a
    <3> QED BY <1>1, <2>1, <3>1, <3>2, ChainPut DEF u
  <2>6. Rank(q.level, q.i) < Rank(w.level, w.i)
    <3>1. w.i \in 0..(PT_LENGTH + 1) /\ w.i + 1 \in 0..(PT_LENGTH + 1) /\ w.i + 1 > w.i
      BY <1>1, <1>6
    <3>2. Rank(Last, w.i + 1) < Rank(Last, w.i)
      BY <3>1, RankDown, LevelFacts
    <3> QED BY <1>1, <2>4, <3>2
  <2>7. FlagStart(q)
    BY <2>4, <2>5 DEF FlagStart
  <2>8. PICK n \in Nat : FlagLeaf(flags, q, f[q], n)
    BY <2>1, <2>6, <2>7
  <2>9. /\ n <= w.pages - 1 /\ f[q].pages = w.pages - 1 - n
        /\ Marked(u, f[q].tables, w.i + 1, n, flags)
        /\ n < w.pages - 1 => Ends(u, w.i + 1 + n)
        /\ f[q].missing => n < w.pages - 1
    BY <2>4, <2>8 DEF FlagLeaf
  <2>10. Marked(w.tables, f[q].tables, w.i, n + 1, flags)
    <3>0. w.i + (n + 1) <= PT_LENGTH
      BY <1>1, <2>9 DEF Marked
    <3> SUFFICES ASSUME NEW j \in Index
                 PROVE  IF w.i <= j /\ j < w.i + (n + 1)
                        THEN w.tables[Last][j].present /\ f[q].tables[Last][j] = set_pte(w.tables[Last][j].frame, flags)
                        ELSE f[q].tables[Last][j] = w.tables[Last][j]
      BY <2>9, <3>0 DEF Marked
    <3>1. IF w.i + 1 <= j /\ j < w.i + 1 + n
          THEN u[Last][j].present /\ f[q].tables[Last][j] = set_pte(u[Last][j].frame, flags)
          ELSE f[q].tables[Last][j] = u[Last][j]
      BY <2>9 DEF Marked
    <3>2. (w.i <= j /\ j < w.i + (n + 1)) <=> (j = w.i \/ (w.i + 1 <= j /\ j < w.i + 1 + n))
      <4>1. j \in Nat
        BY <1>2
      <4> QED BY <1>1, <2>8, <4>1
    <3>3. j = w.i => ~(w.i + 1 <= j)
      BY <1>1
    <3> QED BY <1>6, <2>5, <3>1, <3>2, <3>3
  <2>11. n + 1 < w.pages => Ends(w.tables, w.i + (n + 1))
    <3> SUFFICES ASSUME n + 1 < w.pages PROVE Ends(w.tables, w.i + (n + 1))
      OBVIOUS
    <3> DEFINE k == w.i + (n + 1)
    <3>1. k = w.i + 1 + n /\ k # w.i /\ n < w.pages - 1
      BY <1>1
    <3> HIDE DEF k
    <3>2. Ends(u, k)
      BY <2>9, <3>1
    <3>3. k \in Index => u[Last][k] = w.tables[Last][k]
      BY <2>5, <3>1
    <3>4. Ends(w.tables, k)
      BY <3>2, <3>3 DEF Ends
    <3> QED BY <3>4 DEF k
  <2>12. /\ n + 1 \in Nat /\ n + 1 <= w.pages /\ f[q].pages = w.pages - (n + 1)
         /\ f[q].missing => n + 1 < w.pages
    BY <1>1, <2>9
  <2>13. FlagLeaf(flags, w, f[w], n + 1)
    BY <2>2, <2>10, <2>11, <2>12 DEF FlagLeaf
  <2> QED BY <2>12, <2>13
<1> QED BY <1>4, <1>5, <1>6

LEMMA LeafFlag ==
  ASSUME NEW index \in Paths, NEW flags, NEW w \in FlagWalks, FlagStart(w)
  PROVE  \E n \in Nat : FlagLeaf(flags, w, recurse_flag(index, flags)[w], n)
<1> DEFINE f == recurse_flag(index, flags)
           Done(x) == \E n \in Nat : FlagLeaf(flags, x, f[x], n)
           rank == [x \in FlagWalks |-> Rank(x.level, x.i)]
           Bad == {x \in FlagWalks : FlagStart(x) /\ ~Done(x)}
<1>1. f \in [FlagWalks -> FlagWalks] /\ \A x \in FlagWalks : f[x] = FlagBody(f, index, flags, x)
  BY FlagRule
<1> HIDE DEF f
<1>2. rank \in [FlagWalks -> Nat]
  <2>1. \A x \in FlagWalks : x.level \in Levels /\ x.i \in 0..(PT_LENGTH + 1)
    BY LevelFacts DEF FlagWalks
  <2> QED BY <2>1, RankDown
<1>3. Bad = {}
  <2> SUFFICES ASSUME Bad # {} PROVE FALSE
    OBVIOUS
  <2>1. Bad \in SUBSET FlagWalks
    OBVIOUS
  <2>2. PICK b \in Bad : \A q \in FlagWalks : rank[q] < rank[b] => q \notin Bad
    <3> HIDE DEF Bad, rank
    <3> QED BY <1>2, <2>1, LeastBad
  <2> HIDE DEF Done
  <2>3. b \in FlagWalks /\ FlagStart(b) /\ ~Done(b)
    OBVIOUS
  <2>4. \A q \in FlagWalks :
          Rank(q.level, q.i) < Rank(b.level, b.i) /\ FlagStart(q) => Done(q)
    BY <2>2
  <2> HIDE DEF Bad
  <2>5. Done(b)
    BY <1>1, <2>3, <2>4, LeafFlagStep, Zenon DEF Done
  <2> QED BY <2>3, <2>5
<1> QED BY <1>3 DEF f

(* A turn on the path goes down, and then to the entry behind the path.    *)
LEMMA FlagDown ==
  ASSUME NEW index \in Paths, NEW flags, NEW f, f = recurse_flag(index, flags),
         NEW w \in FlagWalks, w.level # Last, w.i = KernelPath[w.level], Chain(w.tables),
         ~w.missing, w.pages # 0
  PROVE  \E d \in FlagWalks, q \in FlagWalks :
           /\ d.level = w.level + 1 /\ d.i = index[w.level + 1] /\ Chain(d.tables)
           /\ ~d.missing /\ d.pages = w.pages
           /\ \A j \in Index : d.tables[Last][j] = w.tables[Last][j]
           /\ q.level = w.level /\ q.i = w.i + 1 /\ q.tables = f[d].tables
           /\ q.pages = f[d].pages /\ q.missing = f[d].missing
           /\ f[w] = f[q] /\ f[q] = FlagBody(f, index, flags, q)
<1> DEFINE l == w.level
           e == w.tables[l][w.i]
           a == update_pt_pte_flags(e, flags)
           flagged == [w EXCEPT !.tables[l][w.i] = a]
           d == [flagged EXCEPT !.level = l + 1, !.i = index[l + 1]]
           next(x) == [x EXCEPT !.level = l, !.i = w.i + 1]
           u == Put(w.tables, l, w.i, a)
           q == next(f[d])
<1>0. f \in [FlagWalks -> FlagWalks] /\ \A x \in FlagWalks : f[x] = FlagBody(f, index, flags, x)
  BY FlagRule
<1>1. l \in Levels /\ w.i \in Index /\ w.tables \in Tables
  BY PathFacts DEF FlagWalks
<1>2. w.i # PT_LENGTH
  BY <1>1, LevelFacts
<1>3. /\ e \in Entry /\ flagged = [w EXCEPT !.tables = u] /\ flagged \in FlagWalks
      /\ d \in FlagWalks /\ \A x \in FlagWalks : next(x) \in FlagWalks
  <2>1. ~(w.i = PT_LENGTH \/ w.pages = 0 \/ w.missing)
    BY <1>2
  <2> QED BY <2>1, FlagArgs, Zenon
<1>4. e.present
  BY <1>1 DEF Chain
<1>5. f[w] = f[q]
  BY <1>0, <1>2, <1>4 DEF FlagBody
<1>6. Chain(u) /\ \A j \in Index : u[Last][j] = w.tables[Last][j]
  <2>1. a \in Entry /\ a.present = e.present
    BY <1>3, EntryFacts, EntryKept
  <2> HIDE DEF a
  <2>2. /\ Chain(Put(w.tables, l, w.i, a))
        /\ \A k \in Levels, j \in Index :
             Put(w.tables, l, w.i, a)[k][j] = IF k = l /\ j = w.i THEN a ELSE w.tables[k][j]
    BY <1>1, <2>1, ChainPut
  <2> QED BY <2>2, LevelFacts
<1>7. /\ d.level = l + 1 /\ d.i = index[l + 1] /\ d.tables = u /\ d.missing = w.missing
      /\ d.pages = w.pages
  <2>1. d = [[w EXCEPT !.tables = u] EXCEPT !.level = l + 1, !.i = index[l + 1]]
    BY <1>3
  <2> HIDE DEF d, u
  <2> QED BY <2>1 DEF FlagWalks
<1> HIDE DEF d, u, flagged
<1>8. f[d] \in FlagWalks /\ q \in FlagWalks
  BY <1>0, <1>3
<1>9. /\ q.level = l /\ q.i = w.i + 1 /\ q.tables = f[d].tables
      /\ q.pages = f[d].pages /\ q.missing = f[d].missing
  <2> DEFINE x == f[d]
  <2>1. x \in FlagWalks
    BY <1>8
  <2> HIDE DEF x
  <2>2. /\ next(x).level = l /\ next(x).i = w.i + 1 /\ next(x).tables = x.tables
        /\ next(x).pages = x.pages /\ next(x).missing = x.missing
    BY <2>1 DEF FlagWalks
  <2> QED BY <2>2 DEF x
<1>10. f[q] = FlagBody(f, index, flags, q)
  BY <1>0, <1>8
<1> HIDE DEF q, l
<1>11. /\ ~d.missing /\ Chain(d.tables)
       /\ \A j \in Index : d.tables[Last][j] = w.tables[Last][j]
  BY <1>6, <1>7
<1> QED BY <1>3, <1>5, <1>7, <1>8, <1>9, <1>10, <1>11 DEF l

(* On the path.                                                            *)
FlagPathStart(index, w, l) ==
  w.level = l /\ w.i = index[l] /\ Chain(w.tables) /\ ~w.missing /\ w.pages # 0
FlagDone(index, flags, w, r, n) ==
  /\ n \in Nat /\ n <= w.pages
  /\ Marked(w.tables, r.tables, index[Last], n, flags)
  /\ n < w.pages => Ends(w.tables, index[Last] + n)
  /\ r.missing <=> n < w.pages
  /\ ~r.missing => r.pages = 0

LEMMA FlagPathTurn ==
  ASSUME NEW index \in Paths, OnPath(index), NEW flags, NEW f, f = recurse_flag(index, flags),
         NEW l \in Levels, l # Last, NEW x \in FlagWalks, FlagPathStart(index, x, l),
         \A d \in FlagWalks : FlagPathStart(index, d, l + 1) =>
           \/ l + 1 = Last
           \/ \E n \in Nat : FlagDone(index, flags, d, f[d], n)
  PROVE  \E n \in Nat : FlagDone(index, flags, x, f[x], n)
<1>0. f \in [FlagWalks -> FlagWalks]
  BY FlagRule
<1>1. PICK d \in FlagWalks, q \in FlagWalks :
           /\ d.level = x.level + 1 /\ d.i = index[x.level + 1] /\ Chain(d.tables)
           /\ ~d.missing /\ d.pages = x.pages
           /\ \A j \in Index : d.tables[Last][j] = x.tables[Last][j]
           /\ q.level = x.level /\ q.i = x.i + 1 /\ q.tables = f[d].tables
           /\ q.pages = f[d].pages /\ q.missing = f[d].missing
           /\ f[x] = f[q] /\ f[q] = FlagBody(f, index, flags, q)
  <2>1. /\ x.level # Last /\ x.i = KernelPath[x.level] /\ Chain(x.tables)
        /\ ~x.missing /\ x.pages # 0
    BY DEF FlagPathStart, OnPath
  <2> QED BY <2>1, FlagDown
<1>2. x.level = l /\ FlagPathStart(index, d, l + 1)
  BY <1>1 DEF FlagPathStart
<1>3. \A r, n : /\ Marked(d.tables, r, index[Last], n, flags) => Marked(x.tables, r, index[Last], n, flags)
                /\ \A j : Ends(d.tables, j) => Ends(x.tables, j)
  BY <1>1 DEF Marked, Ends
<1>4. CASE \E n \in Nat : FlagDone(index, flags, d, f[d], n)
  <2>1. PICK n \in Nat : FlagDone(index, flags, d, f[d], n)
    BY <1>4
  <2>2. f[q] = q
    BY <1>1, <2>1 DEF FlagDone, FlagBody
  <2>3. FlagDone(index, flags, x, f[x], n)
    BY <1>1, <1>3, <2>1, <2>2 DEF FlagDone
  <2> QED BY <2>3
<1>5. CASE l + 1 = Last
  <2>1. FlagStart(d) /\ d.i = index[Last]
    BY <1>1, <1>2, <1>5 DEF FlagStart
  <2>2. PICK n \in Nat : FlagLeaf(flags, d, f[d], n)
    BY <2>1, LeafFlag
  <2>3. /\ n <= x.pages /\ f[d].pages = x.pages - n
        /\ Marked(x.tables, f[d].tables, index[Last], n, flags)
        /\ n < x.pages => Ends(x.tables, index[Last] + n)
        /\ f[d].missing => n < x.pages
    BY <1>1, <1>3, <2>1, <2>2 DEF FlagLeaf
  <2>4. x.pages \in Nat
    BY DEF FlagWalks
  <2>5. CASE n = x.pages \/ f[d].missing
    <3>1. q.pages = 0 \/ q.missing
      BY <1>1, <2>3, <2>4, <2>5
    <3>2. f[q] = q
      BY <1>1, <3>1 DEF FlagBody
    <3>3. n < x.pages <=> f[d].missing
      BY <2>3, <2>4, <2>5
    <3>4. ~f[d].missing => f[d].pages = 0
      BY <2>3, <2>4, <2>5
    <3>5. FlagDone(index, flags, x, f[x], n)
      BY <1>1, <2>3, <3>2, <3>3, <3>4 DEF FlagDone
    <3> QED BY <3>5
  <2>6. CASE ~(n = x.pages \/ f[d].missing)
    <3>1. l = Last - 1 /\ x.i = KernelPath[Last - 1] /\ x.i + 1 \in Index /\ x.i \in Nat
      <4>1. l = Last - 1
        BY <1>5, LevelFacts
      <4>2. x.i = KernelPath[l]
        BY DEF FlagPathStart, OnPath
      <4>3. KernelPath[l] \in Index
        BY PathFacts
      <4>4. x.i \in Nat
        BY <4>2, <4>3, LevelFacts
      <4> QED BY <4>1, <4>2, <4>4, PathAssumption
    <3>2. Chain(q.tables)
      BY <1>1, <2>3 DEF Marked
    <3>3. ~q.tables[l][x.i + 1].present
      <4>1. x.i + 1 # KernelPath[l]
        BY <3>1
      <4> QED BY <3>1, <3>2, <4>1 DEF Chain
    <3>4. q.i # PT_LENGTH /\ q.i = x.i + 1 /\ q.pages # 0 /\ ~q.missing
      <4>1. x.i + 1 # PT_LENGTH
        BY <3>1, LevelFacts
      <4> QED BY <1>1, <2>3, <2>4, <2>6, <4>1
    <3>5. f[q] = [q EXCEPT !.missing = TRUE]
      BY <1>1, <1>2, <3>3, <3>4 DEF FlagBody
    <3>6. f[q].tables = q.tables /\ f[q].missing = TRUE
      BY <3>5 DEF FlagWalks
    <3>7. n < x.pages
      BY <2>3, <2>4, <2>6
    <3>8. FlagDone(index, flags, x, f[x], n)
      BY <1>1, <2>3, <3>6, <3>7 DEF FlagDone
    <3> QED BY <3>8
  <2> QED BY <2>5, <2>6
<1> QED BY <1>2, <1>4, <1>5

LEMMA FlagPath ==
  ASSUME NEW index \in Paths, OnPath(index), NEW flags,
         NEW w \in FlagWalks, FlagPathStart(index, w, 0)
  PROVE  \E n \in Nat : FlagDone(index, flags, w, recurse_flag(index, flags)[w], n)
<1> DEFINE f == recurse_flag(index, flags)
           G == {l \in Levels : l # Last => \A x \in FlagWalks : FlagPathStart(index, x, l) =>
                                \E n \in Nat : FlagDone(index, flags, x, f[x], n)}
<1>1. Last \in G
  BY LevelFacts
<1>2. ASSUME NEW l \in G, l # 0 PROVE l - 1 \in G
  <2> SUFFICES ASSUME NEW x \in FlagWalks, FlagPathStart(index, x, l - 1)
               PROVE  \E n \in Nat : FlagDone(index, flags, x, f[x], n)
    BY <1>2, LevelFacts
  <2>1. l \in Levels /\ l - 1 \in Levels /\ l - 1 # Last /\ (l - 1) + 1 = l
    BY <1>2, LevelFacts
  <2> HIDE DEF f
  <2>2. \A d \in FlagWalks : FlagPathStart(index, d, (l - 1) + 1) =>
          \/ (l - 1) + 1 = Last
          \/ \E n \in Nat : FlagDone(index, flags, d, f[d], n)
    BY <2>1
  <2>3. f = recurse_flag(index, flags)
    BY DEF f
  <2> HIDE DEF G
  <2> QED BY <2>1, <2>2, <2>3, FlagPathTurn
<1>3. G = Levels
  <2>1. G \in SUBSET Levels
    OBVIOUS
  <2> HIDE DEF G
  <2> QED BY <1>1, <1>2, <2>1, LevelsDown
<1> QED BY <1>3, LevelFacts

(* Beside it.                                                              *)
FlagMiss(w, r) == /\ r.missing /\ Chain(r.tables)
                  /\ \A j \in Index : r.tables[Last][j] = w.tables[Last][j]

LEMMA FlagBeside ==
  ASSUME NEW index \in Full, ~OnPath(index), NEW flags,
         NEW w \in FlagWalks, FlagPathStart(index, w, 0)
  PROVE  FlagMiss(w, recurse_flag(index, flags)[w])
<1> DEFINE f == recurse_flag(index, flags)
<1>0. index \in Paths
  BY PathFacts
<1>1. PICK m \in Levels : m # Last /\ Agrees(index, m) /\ index[m] # KernelPath[m]
  BY LeavesPath
<1>a. f \in [FlagWalks -> FlagWalks] /\ \A x \in FlagWalks : f[x] = FlagBody(f, index, flags, x)
  BY <1>0, FlagRule
<1>b. f = recurse_flag(index, flags)
  OBVIOUS
<1> HIDE DEF f
<1> DEFINE G == {l \in Levels : l <= m => \A x \in FlagWalks : FlagPathStart(index, x, l) => FlagMiss(x, f[x])}
<1>2. ASSUME NEW x \in FlagWalks, FlagPathStart(index, x, m) PROVE FlagMiss(x, f[x])
  <2>1. x.level = m /\ x.i \in Index /\ x.i # PT_LENGTH /\ ~x.tables[m][x.i].present
    <3>1. index[m] \in Index
      BY DEF Full
    <3> QED BY <1>1, <1>2, <3>1, LevelFacts DEF FlagPathStart, Chain
  <2>2. f[x] = [x EXCEPT !.missing = TRUE]
    BY <1>1, <1>2, <1>a, <2>1 DEF FlagBody, FlagPathStart
  <2>3. f[x].missing = TRUE /\ f[x].tables = x.tables
    BY <2>2 DEF FlagWalks
  <2> QED BY <1>2, <2>3 DEF FlagMiss, FlagPathStart
<1>3. ASSUME NEW l \in Levels, l < m,
             \A x \in FlagWalks : FlagPathStart(index, x, l + 1) => FlagMiss(x, f[x]),
             NEW x \in FlagWalks, FlagPathStart(index, x, l)
      PROVE  FlagMiss(x, f[x])
  <2>1. l # Last /\ l + 1 \in Levels
    BY <1>3, LevelFacts
  <2>2. PICK d \in FlagWalks, q \in FlagWalks :
           /\ d.level = x.level + 1 /\ d.i = index[x.level + 1] /\ Chain(d.tables)
           /\ ~d.missing /\ d.pages = x.pages
           /\ \A j \in Index : d.tables[Last][j] = x.tables[Last][j]
           /\ q.level = x.level /\ q.i = x.i + 1 /\ q.tables = f[d].tables
           /\ q.pages = f[d].pages /\ q.missing = f[d].missing
           /\ f[x] = f[q] /\ f[q] = FlagBody(f, index, flags, q)
    <3>1. /\ x.level # Last /\ x.i = KernelPath[x.level] /\ Chain(x.tables)
          /\ ~x.missing /\ x.pages # 0
      BY <1>1, <1>3, <2>1 DEF FlagPathStart, Agrees
    <3> QED BY <1>0, <1>b, <3>1, FlagDown
  <2>3. FlagPathStart(index, d, l + 1)
    BY <1>3, <2>2 DEF FlagPathStart
  <2>4. FlagMiss(d, f[d])
    BY <1>3, <2>2, <2>3
  <2>5. f[q] = q
    BY <2>2, <2>4 DEF FlagMiss, FlagBody
  <2> QED BY <2>2, <2>4, <2>5 DEF FlagMiss
<1>4. Last \in G
  BY <1>1, LevelFacts
<1>5. ASSUME NEW l \in G, l # 0 PROVE l - 1 \in G
  <2> SUFFICES ASSUME l - 1 <= m, NEW x \in FlagWalks, FlagPathStart(index, x, l - 1) PROVE FlagMiss(x, f[x])
    BY <1>5, LevelFacts
  <2>1. l - 1 \in Levels /\ (l - 1) + 1 = l /\ l \in Levels
    BY <1>5, LevelFacts
  <2>2. CASE l - 1 = m
    BY <1>2, <2>2
  <2>3. CASE l - 1 # m
    <3>1. l - 1 < m /\ l <= m
      BY <2>1, <2>3, LevelFacts
    <3>2. \A y \in FlagWalks : FlagPathStart(index, y, (l - 1) + 1) => FlagMiss(y, f[y])
      BY <2>1, <3>1
    <3> QED BY <1>3, <2>1, <3>1, <3>2
  <2> QED BY <2>2, <2>3
<1>6. G = Levels
  <2>1. G \in SUBSET Levels
    OBVIOUS
  <2> HIDE DEF G
  <2> QED BY <1>4, <1>5, <2>1, LevelsDown
<1> QED BY <1>6, LevelFacts DEF f

(* vm_flag_pages as a whole.                                               *)
LEMMA FlagResult ==
  ASSUME NEW t, Chain(t), NEW v \in Nat, NEW pages \in Nat, NEW flags,
         NEW r, r = vm_flag_pages(t, v, pages, flags)
  PROVE  \E n \in Nat :
           /\ n <= pages /\ Marked(t, r.tables, Indices(v)[Last], n, flags)
           /\ n > 0 => OnPath(Indices(v))
           /\ n < pages /\ OnPath(Indices(v)) => Ends(t, Indices(v)[Last] + n)
           /\ r.missing <=> n < pages
<1> DEFINE index == Indices(v)
           i == index[Last]
           x == [level |-> 0, i |-> index[0], tables |-> t, pages |-> pages, missing |-> FALSE]
<1>1. index \in Full /\ index \in Paths
  BY IndicesFacts
<1>2. /\ x \in FlagWalks /\ x.level = 0 /\ x.i = index[0] /\ x.tables = t /\ x.pages = pages
      /\ ~x.missing
  <2>1. t \in Tables /\ 0 \in Levels /\ index[0] \in 0..PT_LENGTH
    BY <1>1, LevelFacts DEF Chain, Paths
  <2> HIDE DEF index, Tables, Levels
  <2> QED BY <2>1 DEF FlagWalks
<1>3. r = recurse_flag(index, flags)[x]
  BY DEF vm_flag_pages
<1> HIDE DEF x
<1>4. \A j \in Index : j \in Nat
  BY LevelFacts
<1>5. i \in Nat /\ i + 0 <= PT_LENGTH
  <2>1. i \in Index
    BY <1>1, LevelFacts DEF Full
  <2> HIDE DEF i
  <2> QED BY <2>1, LevelFacts
<1> HIDE DEF index, i
<1>6. \A u : Chain(u) /\ (\A j \in Index : u[Last][j] = t[Last][j]) => Marked(t, u, i, 0, flags)
  <2>1. \A j \in Index : ~(i <= j /\ j < i + 0)
    BY <1>4, <1>5
  <2> QED BY <1>5, <2>1 DEF Marked
<1>7. CASE pages = 0
  <2>1. r = x
    <3>1. r = FlagBody(recurse_flag(index, flags), index, flags, x)
      BY <1>1, <1>2, <1>3, FlagRule
    <3> QED BY <1>2, <1>7, <3>1 DEF FlagBody
  <2>2. Marked(t, r.tables, i, 0, flags)
    BY <1>2, <1>6, <2>1
  <2>3. 0 <= pages /\ ~(0 < pages) /\ ~(0 > 0) /\ 0 \in Nat
    BY <1>7
  <2> QED BY <1>2, <2>1, <2>2, <2>3 DEF i, index
<1>8. CASE pages # 0 /\ OnPath(index)
  <2>1. FlagPathStart(index, x, 0)
    BY <1>2, <1>8 DEF FlagPathStart
  <2>2. PICK n \in Nat : FlagDone(index, flags, x, r, n)
    BY <1>1, <1>2, <1>3, <1>8, <2>1, FlagPath
  <2> QED BY <1>2, <1>8, <2>2 DEF FlagDone, index
<1>9. CASE pages # 0 /\ ~OnPath(index)
  <2>1. FlagPathStart(index, x, 0)
    BY <1>2, <1>9 DEF FlagPathStart
  <2>2. FlagMiss(x, r)
    BY <1>1, <1>2, <1>3, <1>9, <2>1, FlagBeside
  <2>3. Marked(t, r.tables, i, 0, flags)
    BY <1>2, <1>6, <2>2 DEF FlagMiss
  <2>4. 0 <= pages /\ 0 < pages /\ ~(0 > 0) /\ 0 \in Nat
    BY <1>9
  <2> QED BY <1>9, <2>2, <2>3, <2>4 DEF FlagMiss, i, index
<1> QED BY <1>7, <1>8, <1>9

-----------------------------------------------------------------------------
(* The pages that are mapped are those with an entry in the last table.    *)
Page(v) == v - KernelStart
Present(t) == {v \in KernelPages : t[Last][Page(v)].present}
Item(e) == [frame |-> e.frame,
            perms |-> [writable |-> e.writable, user |-> e.user, no_execute |-> e.no_execute]]
Space(t) == [v \in Present(t) |-> Item(t[Last][Page(v)])]

LEMMA ChainEntry ==
  ASSUME NEW t, Chain(t), NEW j \in Index
  PROVE  /\ t[Last][j] \in Entry /\ t[Last][j].frame \in 0..(FRAMES - 1)
         /\ t[Last][j].present \in BOOLEAN
<1>1. t[Last][j] \in Entry
  BY LevelFacts DEF Chain, Tables
<1> QED BY <1>1 DEF Entry

LEMMA FindPage ==
  ASSUME NEW t, Chain(t), NEW v \in 0..(AddressEnd - 1)
  PROVE  recurse_find(t, v) # ENOMAP <=> v \in Present(t)
<1> DEFINE index == Indices(v)
<1>1. v \in Nat
  BY AddressEndFacts
<1>2. index \in Full
  BY <1>1, IndicesFacts
<1>3. \A l \in Levels : index[l] \in Index
  BY <1>2 DEF Full
<1>4. (\A l \in Levels : t[l][index[l]].present) <=> OnPath(index) /\ t[Last][index[Last]].present
  BY <1>3, LevelFacts DEF Chain, OnPath
<1>5. OnPath(index) <=> v \in KernelPages
  BY KernelPageFacts
<1>6. v \in KernelPages => index[Last] = Page(v)
  BY KernelPageFacts, PathFacts DEF Page
<1>7. t[Last][index[Last]].frame # -1
  BY <1>3, ChainEntry, LevelFacts
<1> HIDE DEF index
<1>8. recurse_find(t, v) =
        IF \A l \in Levels : t[l][index[l]].present THEN t[Last][index[Last]].frame ELSE -1
  BY DEF recurse_find, ENOMAP, index
<1> QED BY <1>4, <1>5, <1>6, <1>7, <1>8, Zenon DEF Present, ENOMAP

LEMMA KernelAddresses ==
  /\ KernelPages \subseteq 0..(AddressEnd - 1)
  /\ \A v \in KernelPages : Page(v) \in Index /\ v = KernelStart + Page(v) /\ v \in Nat
  /\ \A j \in Index : KernelStart + j \in KernelPages /\ Page(KernelStart + j) = j
  /\ KernelStart \in Nat /\ AddressEnd \in Nat
<1>1. KernelStart \in Nat /\ AddressEnd \in Nat
  BY PathPages, AddressEndFacts
<1>2. \A v \in KernelPages : v - KernelStart \in Index /\ v \in Nat /\ v < AddressEnd
  BY KernelPageFacts
<1>3. \A v \in Nat : v < AddressEnd => v \in 0..(AddressEnd - 1)
  BY <1>1
<1>4. \A v \in Nat : v = KernelStart + (v - KernelStart)
  BY <1>1
<1>5. \A j \in Index : (KernelStart + j) - KernelStart = j
  BY <1>1, LevelFacts
<1> QED BY <1>1, <1>2, <1>3, <1>4, <1>5, KernelPageFacts DEF Page

(* What the abstract address space is for some tables.                     *)
AbstractOf(t) ==
  [v \in {w \in KernelPages : recurse_find(t, w) # ENOMAP} |-> Item(t[Last][Indices(v)[Last]])]

LEMMA AbstractIsSpace ==
  ASSUME NEW t, Chain(t)
  PROVE  AbstractOf(t) = Space(t)
<1>1. {w \in KernelPages : recurse_find(t, w) # ENOMAP} = Present(t)
  BY FindPage, KernelAddresses DEF Present
<1>2. \A v \in KernelPages : Indices(v)[Last] = Page(v)
  BY KernelPageFacts, PathFacts DEF Page
<1>3. \A v \in Present(t) : Indices(v)[Last] = Page(v)
  BY <1>2 DEF Present
<1> QED BY <1>1, <1>3, Zenon DEF AbstractOf, Space

(* What the four walks mean for the pages.                                 *)

LEMMA SetPteFacts ==
  ASSUME NEW frame, NEW flags
  PROVE  /\ set_pte(frame, flags).present /\ set_pte(frame, flags).frame = frame % FRAMES
         /\ Item(set_pte(frame, flags)) = AS!Target(frame, flags)
BY DEF set_pte, Item, AS!Target, AS!Permissions

LEMMA FrameFits ==
  ASSUME NEW f \in 0..(FRAMES - 1)
  PROVE  f % FRAMES = f
<1>1. FRAMES \in Nat
  BY CallerAssumption
<1> QED BY <1>1

(* The tables differ in the permissions of pages only.                     *)
SameFrames(t, u) ==
  \A j \in Index : /\ u[Last][j].present <=> t[Last][j].present
                   /\ u[Last][j].frame = t[Last][j].frame

LEMMA MarkedKeeps ==
  ASSUME NEW t, Chain(t), NEW u, NEW i \in Nat, NEW n \in Nat, NEW flags, Marked(t, u, i, n, flags)
  PROVE  Chain(u) /\ SameFrames(t, u)
<1>1. ASSUME NEW j \in Index, t[Last][j].present, u[Last][j] = set_pte(t[Last][j].frame, flags)
      PROVE  u[Last][j].present /\ u[Last][j].frame = t[Last][j].frame
  BY <1>1, SetPteFacts, FrameFits, ChainEntry
<1> QED BY <1>1 DEF Marked, SameFrames

LEMMA SamePresent ==
  ASSUME NEW t, NEW u, SameFrames(t, u)
  PROVE  /\ Present(u) = Present(t)
         /\ \A v \in Present(t) : Space(u)[v].frame = Space(t)[v].frame
<1>1. Present(u) = Present(t)
  BY KernelAddresses DEF Present, SameFrames
<1>2. \A v \in Present(t) : Page(v) \in Index
  BY KernelAddresses DEF Present
<1> QED BY <1>1, <1>2 DEF Space, SameFrames, Item

LEMMA SpaceFilled ==
  ASSUME NEW t, Chain(t), NEW s \in Index, NEW n \in Nat, FreeRun(t, s, n),
         NEW u, NEW frame \in Int, NEW flags, Filled(t, u, s, n, frame, flags)
  PROVE  LET run == AS!Run(KernelStart + s, n)
         IN  /\ run \subseteq KernelPages /\ run \cap Present(t) = {}
             /\ Present(u) = Present(t) \cup run
             /\ Space(u) = [w \in Present(t) \cup run |->
                              IF w \in Present(t) THEN Space(t)[w]
                              ELSE AS!Target(frame + w - (KernelStart + s), flags)]
<1> DEFINE v == KernelStart + s
           run == AS!Run(v, n)
<1>1. /\ KernelStart \in Nat /\ s \in Nat /\ v \in Nat /\ PT_LENGTH \in Nat
      /\ \A j \in Index : j \in Nat
  BY KernelAddresses, LevelFacts
<1>2. \A w \in KernelPages : w \in run <=> s <= Page(w) /\ Page(w) < s + n
  <2>1. \A w \in KernelPages : w = KernelStart + Page(w) /\ Page(w) \in Nat
    BY <1>1, KernelAddresses
  <2> QED BY <1>1, <2>1 DEF AS!Run
<1>3. run \subseteq KernelPages
  <2>1. s + n <= PT_LENGTH
    BY DEF FreeRun
  <2> QED BY <1>1, <2>1 DEF AS!Run, KernelPages, PagesFrom
<1>4. \A w \in KernelPages : Page(w) \in Index
  BY KernelAddresses
<1> HIDE DEF run
<1>5. \A w \in run : ~t[Last][Page(w)].present
  BY <1>2, <1>3, <1>4 DEF FreeRun
<1>6. run \cap Present(t) = {}
  BY <1>5 DEF Present
<1>7. \A w \in KernelPages : u[Last][Page(w)] = IF w \in run THEN set_pte(frame + (Page(w) - s), flags)
                                                ELSE t[Last][Page(w)]
  BY <1>2, <1>4 DEF Filled
<1>8. Present(u) = Present(t) \cup run
  <2>1. \A w \in run : u[Last][Page(w)].present
    BY <1>3, <1>7, SetPteFacts
  <2> QED BY <1>3, <1>7, <2>1 DEF Present
<1>9. \A w \in run : frame + (Page(w) - s) = frame + w - v
  <2>1. \A w \in run : w = KernelStart + Page(w) /\ Page(w) \in Nat
    BY <1>1, <1>3, <1>4, KernelAddresses
  <2> QED BY <1>1, <2>1
<1>10. \A w \in run : Item(u[Last][Page(w)]) = AS!Target(frame + w - v, flags)
  <2>1. \A w \in run : u[Last][Page(w)] = set_pte(frame + w - v, flags)
    BY <1>3, <1>7, <1>9
  <2> QED BY <2>1, SetPteFacts
<1>11. \A w \in Present(t) : w \notin run /\ w \in KernelPages /\ u[Last][Page(w)] = t[Last][Page(w)]
  BY <1>6, <1>7 DEF Present
<1>12. Space(u) = [w \in Present(t) \cup run |->
                     IF w \in Present(t) THEN Space(t)[w] ELSE AS!Target(frame + w - v, flags)]
  <2>1. \A w \in Present(t) : Item(u[Last][Page(w)]) = Space(t)[w]
    BY <1>11 DEF Space
  <2>2. \A w \in Present(t) \cup run :
          Item(u[Last][Page(w)]) = IF w \in Present(t) THEN Space(t)[w]
                                   ELSE AS!Target(frame + w - v, flags)
    BY <1>6, <1>10, <2>1
  <2>3. Space(u) = [w \in Present(t) \cup run |-> Item(u[Last][Page(w)])]
    BY <1>8 DEF Space
  <2> QED BY <2>2, <2>3, Zenon
<1> QED BY <1>3, <1>6, <1>8, <1>12 DEF run

Emptied(t, u, v, n) ==
  \A j \in Index : u[Last][j] = IF v <= KernelStart + j /\ KernelStart + j < v + n
                                THEN NoEntry ELSE t[Last][j]
Removed(t, u, v, n) ==
  /\ Present(u) = Present(t) \ AS!Run(v, n)
  /\ Space(u) = [w \in Present(t) \ AS!Run(v, n) |-> Space(t)[w]]

LEMMA SpaceCleared ==
  ASSUME NEW t, NEW u, NEW v \in Nat, NEW n \in Nat, Emptied(t, u, v, n)
  PROVE  Removed(t, u, v, n)
<1>1. \A w \in KernelPages : /\ Page(w) \in Index /\ KernelStart + Page(w) = w /\ w \in Nat
                             /\ w \in AS!Run(v, n) <=> v <= w /\ w < v + n
  BY KernelAddresses DEF AS!Run
<1>2. \A w \in KernelPages : u[Last][Page(w)] = IF w \in AS!Run(v, n) THEN NoEntry
                                                ELSE t[Last][Page(w)]
  BY <1>1 DEF Emptied
<1>3. Present(u) = Present(t) \ AS!Run(v, n)
  BY <1>2 DEF Present, NoEntry
<1>4. \A w \in Present(u) : Item(u[Last][Page(w)]) = Space(t)[w]
  BY <1>2, <1>3 DEF Present, Space
<1> QED BY <1>3, <1>4, Zenon DEF Space, Removed

LEMMA SpaceMarked ==
  ASSUME NEW t, Chain(t), NEW v \in KernelPages, NEW n \in Nat, NEW u, NEW flags,
         Marked(t, u, Page(v), n, flags), "USER" \notin flags
  PROVE  /\ AS!Run(v, n) \subseteq Present(t)
         /\ Space(u) = [w \in Present(t) |->
                          IF w \in AS!Run(v, n)
                          THEN [Space(t)[w] EXCEPT !.perms = AS!Permissions(flags)]
                          ELSE Space(t)[w]]
<1>1. /\ KernelStart \in Nat /\ Page(v) \in Nat /\ v = KernelStart + Page(v) /\ PT_LENGTH \in Nat
      /\ \A w \in KernelPages : Page(w) \in Index /\ w = KernelStart + Page(w) /\ Page(w) \in Nat
  BY KernelAddresses, LevelFacts
<1>2. AS!Run(v, n) \subseteq KernelPages
  <2>1. Page(v) + n <= PT_LENGTH
    BY DEF Marked
  <2> QED BY <1>1, <2>1 DEF AS!Run, KernelPages, PagesFrom
<1>3. \A w \in KernelPages : w \in AS!Run(v, n) <=> Page(v) <= Page(w) /\ Page(w) < Page(v) + n
  BY <1>1 DEF AS!Run
<1>4. \A w \in KernelPages :
        IF w \in AS!Run(v, n)
        THEN t[Last][Page(w)].present /\ u[Last][Page(w)] = set_pte(t[Last][Page(w)].frame, flags)
        ELSE u[Last][Page(w)] = t[Last][Page(w)]
  BY <1>1, <1>3 DEF Marked
<1>5. AS!Run(v, n) \subseteq Present(t)
  BY <1>2, <1>4 DEF Present
<1>6. SameFrames(t, u) /\ Present(u) = Present(t)
  BY <1>1, MarkedKeeps, SamePresent
<1>7. \A w \in Present(t) :
        Item(u[Last][Page(w)]) = IF w \in AS!Run(v, n)
                                 THEN [Space(t)[w] EXCEPT !.perms = AS!Permissions(flags)]
                                 ELSE Space(t)[w]
  <2> SUFFICES ASSUME NEW w \in Present(t)
               PROVE  Item(u[Last][Page(w)]) = IF w \in AS!Run(v, n)
                                               THEN [Space(t)[w] EXCEPT !.perms = AS!Permissions(flags)]
                                               ELSE Space(t)[w]
    OBVIOUS
  <2>1. w \in KernelPages /\ Page(w) \in Index /\ Space(t)[w] = Item(t[Last][Page(w)])
    BY <1>1 DEF Present, Space
  <2>2. CASE w \in AS!Run(v, n)
    <3> DEFINE e == t[Last][Page(w)]
    <3>1. u[Last][Page(w)] = set_pte(e.frame, flags) /\ e.frame % FRAMES = e.frame
      BY <1>4, <2>1, <2>2, ChainEntry, FrameFits
    <3>2. Item(u[Last][Page(w)]) = [frame |-> e.frame, perms |-> AS!Permissions(flags)]
      BY <3>1, SetPteFacts DEF AS!Target
    <3>3. [Space(t)[w] EXCEPT !.perms = AS!Permissions(flags)]
            = [frame |-> e.frame, perms |-> AS!Permissions(flags)]
      BY <2>1 DEF Item
    <3> QED BY <2>2, <3>2, <3>3
  <2>3. CASE w \notin AS!Run(v, n)
    BY <1>4, <2>1, <2>3
  <2> QED BY <2>2, <2>3
<1> QED BY <1>5, <1>6, <1>7, Zenon DEF Space

LEMMA SpaceBacked ==
  ASSUME NEW t, Chain(t), NEW v \in Present(t), NEW frame \in 0..(FRAMES - 1), NEW u,
         u = Put(t, Last, Page(v), [t[Last][Page(v)] EXCEPT !.frame = frame])
  PROVE  /\ Chain(u) /\ Present(u) = Present(t)
         /\ \A j \in Index : /\ u[Last][j].present = t[Last][j].present
                             /\ u[Last][j].frame = IF j = Page(v) THEN frame ELSE t[Last][j].frame
         /\ Space(u) = [Space(t) EXCEPT ![v].frame = frame]
<1> DEFINE j == Page(v)
           e == t[Last][j]
           a == [e EXCEPT !.frame = frame]
<1>1. j \in Index /\ v \in KernelPages /\ v = KernelStart + j /\ e \in Entry /\ Last \in Levels
  BY KernelAddresses, ChainEntry, LevelFacts DEF Present
<1>2. /\ a \in Entry /\ a.present = e.present /\ a.frame = frame
      /\ Item(a) = [Item(e) EXCEPT !.frame = frame]
  BY <1>1 DEF Entry, Item
<1>3. u = Put(t, Last, j, a)
  BY DEF a, e, j
<1> HIDE DEF a, e, j
<1>4. Chain(u) /\ \A k \in Index : u[Last][k] = IF k = j THEN a ELSE t[Last][k]
  <2>1. /\ Chain(Put(t, Last, j, a))
        /\ \A l \in Levels, k \in Index :
             Put(t, Last, j, a)[l][k] = IF l = Last /\ k = j THEN a ELSE t[l][k]
    BY <1>1, <1>2, ChainPut
  <2> QED BY <1>1, <1>3, <2>1
<1>5. \A k \in Index : /\ u[Last][k].present = t[Last][k].present
                       /\ u[Last][k].frame = IF k = j THEN frame ELSE t[Last][k].frame
  <2> SUFFICES ASSUME NEW k \in Index
               PROVE  /\ u[Last][k].present = t[Last][k].present
                      /\ u[Last][k].frame = IF k = j THEN frame ELSE t[Last][k].frame
    OBVIOUS
  <2>1. CASE k = j
    <3>1. u[Last][k] = a /\ t[Last][k] = e
      BY <1>4, <2>1 DEF e
    <3> QED BY <1>2, <2>1, <3>1
  <2>2. CASE k # j
    <3>1. u[Last][k] = t[Last][k]
      BY <1>4, <2>2
    <3> QED BY <2>2, <3>1
  <2> QED BY <2>1, <2>2
<1>6. Present(u) = Present(t)
  BY <1>5, KernelAddresses DEF Present
<1>7. \A w \in Present(t) : Page(w) \in Index /\ (Page(w) = j => w = v)
  BY <1>1, KernelAddresses DEF Present
<1>8. \A w \in Present(t) : Item(u[Last][Page(w)]) = IF w = v THEN Item(a) ELSE Item(t[Last][Page(w)])
  BY <1>4, <1>7 DEF j
<1>9. Space(u) = [Space(t) EXCEPT ![v].frame = frame]
  <2>1. Space(u) = [w \in Present(t) |-> IF w = v THEN Item(a) ELSE Item(t[Last][Page(w)])]
    BY <1>6, <1>8 DEF Space
  <2>2. Space(t) = [w \in Present(t) |-> Item(t[Last][Page(w)])] /\ Space(t)[v] = Item(e)
    BY DEF Space, e, j
  <2>3. [Space(t) EXCEPT ![v].frame = frame]
           = [w \in Present(t) |-> IF w = v THEN [Space(t)[v] EXCEPT !.frame = frame] ELSE Space(t)[w]]
    BY <2>2
  <2> QED BY <1>2, <2>1, <2>2, <2>3
<1> QED BY <1>4, <1>5, <1>6, <1>9 DEF j

-----------------------------------------------------------------------------
(* The inductive invariant.  The tables stay one chain: no call makes or   *)
(* removes an entry above the last table, so that a page is mapped if and  *)
(* only if its entry in the last table is.  What is cached is mapped.      *)
(* While the kernel runs, an entry whose frame is no memory belongs to a   *)
(* page that mm_map still has to give a frame, or nobody made it.          *)
Placed == {f + k : f \in MapFrames, k \in 0..MaxMapped}
Backed(t, b, left) ==
  \A j \in Index \ left :
    t[Last][j].present => t[Last][j].frame \in Memory \/ KernelStart + j \in b

IInv ==
  /\ Chain(tables)
  /\ DOMAIN tlb \subseteq Present(tables)
  /\ backing \subseteq KernelPages
  /\ boot = "image" => last = [op |-> "none"]
  /\ halted = "no" => Backed(tables, backing, leftover)

LEMMA IInvMeans ==
  ASSUME IInv
  PROVE  UnmappedIsNotCached /\ ReservedIsBacked /\ Abstract = Space(tables)
<1>1. UnmappedIsNotCached
  <2>1. Present(tables) \subseteq 0..(AddressEnd - 1)
    BY KernelAddresses DEF Present
  <2> QED BY <2>1, FindPage DEF IInv, UnmappedIsNotCached
<1>2. ReservedIsBacked
  BY DEF IInv, ReservedIsBacked, Backed, Mapped, LastTable
<1>3. Abstract = AbstractOf(tables)
  BY Zenon DEF Abstract, AbstractOf, Item, LastTable
<1>4. AbstractOf(tables) = Space(tables)
  BY AbstractIsSpace DEF IInv
<1> QED BY <1>1, <1>2, <1>3, <1>4

LEMMA IInvNext == IInv' => Abstract' = Space(tables')
<1> SUFFICES ASSUME IInv' PROVE Abstract' = Space(tables')
  OBVIOUS
<1>1. Abstract' = AbstractOf(tables')
  BY Zenon DEF Abstract, AbstractOf, Item, LastTable
<1>2. AbstractOf(tables') = Space(tables')
  BY AbstractIsSpace DEF IInv
<1> QED BY <1>1, <1>2

LEMMA InitIInv == Init => IInv
<1> SUFFICES ASSUME Init PROVE IInv
  OBVIOUS
<1> DEFINE flags == {"WRITABLE", "EXECUTABLE"}
<1>1. PICK stale \in Leftovers :
        /\ tables = [l \in Levels |-> [i \in Index |->
             IF l = Last
             THEN IF i \in BootMapped THEN set_pte(i, flags) ELSE stale[i]
             ELSE IF i = KernelPath[l] THEN set_pte(0, flags) ELSE NoEntry]]
        /\ leftover = {i \in Index \ BootMapped : stale[i].present}
  BY Zenon DEF Init
<1> HIDE DEF flags
<1>2. \A l \in Levels, i \in Index :
        tables[l][i] = IF l = Last
                       THEN IF i \in BootMapped THEN set_pte(i, flags) ELSE stale[i]
                       ELSE IF i = KernelPath[l] THEN set_pte(0, flags) ELSE NoEntry
  BY <1>1
<1>3. /\ \A i \in Index : set_pte(i, flags) \in Entry /\ stale[i] \in Entry
      /\ set_pte(0, flags) \in Entry /\ NoEntry \in Entry
  <2>1. stale \in [Index -> Entry]
    BY LeftoversAssumption
  <2> HIDE DEF Index
  <2>2. \A i \in Index : stale[i] \in Entry
    BY <2>1
  <2> USE DEF Index
  <2> QED BY <2>2, EntryFacts, LevelFacts
<1>4. \A l \in Levels, i \in Index : tables[l][i] \in Entry
  BY <1>2, <1>3
<1>5. tables \in Tables
  <2>1. tables = [l \in Levels |-> [i \in Index |-> tables[l][i]]]
    BY <1>1, <1>2, Zenon
  <2> HIDE DEF Entry, Levels, Index
  <2> QED BY <1>4, <2>1 DEF Tables
<1>6. \A l \in Levels, i \in Index : l # Last => (tables[l][i].present <=> i = KernelPath[l])
  BY <1>2, SetPteFacts DEF NoEntry
<1>7. Chain(tables)
  BY <1>5, <1>6 DEF Chain
<1>8. DOMAIN tlb \subseteq Present(tables) /\ backing \subseteq KernelPages
  BY DEF Init
<1>9. Backed(tables, backing, leftover)
  <2> SUFFICES ASSUME NEW j \in Index, j \notin leftover, tables[Last][j].present
               PROVE  tables[Last][j].frame \in BootMapped
    BY DEF Backed, Memory
  <2>1. j \in BootMapped /\ tables[Last][j] = set_pte(j, flags)
    BY <1>1, <1>2, LevelFacts
  <2>2. tables[Last][j].frame = j % FRAMES
    BY <2>1, SetPteFacts
  <2>3. j \in Nat /\ j < FRAMES
    BY LevelFacts, CallerAssumption
  <2>4. j % FRAMES = j
    BY <2>3, CallerAssumption, FrameFits
  <2> QED BY <2>1, <2>2, <2>4
<1> QED BY <1>7, <1>8, <1>9 DEF IInv, Init

LEMMA FlagKeeps ==
  ASSUME NEW t, Chain(t), NEW v \in Nat, NEW pages \in Nat, NEW flags
  PROVE  /\ Chain(vm_flag_pages(t, v, pages, flags).tables)
         /\ SameFrames(t, vm_flag_pages(t, v, pages, flags).tables)
<1> DEFINE r == vm_flag_pages(t, v, pages, flags)
<1>1. PICK n \in Nat : Marked(t, r.tables, Indices(v)[Last], n, flags)
  BY FlagResult
<1>2. Indices(v)[Last] \in Nat
  BY IndicesFacts, LevelFacts DEF Full
<1> HIDE DEF r
<1>3. Chain(r.tables) /\ SameFrames(t, r.tables)
  BY <1>1, <1>2, MarkedKeeps
<1> QED BY <1>3 DEF r

LEMMA BackedKept ==
  ASSUME NEW t, NEW u, SameFrames(t, u), NEW b, NEW left, Backed(t, b, left)
  PROVE  Backed(u, b, left)
BY DEF SameFrames, Backed

LEMMA RemapStep ==
  ASSUME IInv, kernel_remap
  PROVE  IInv' /\ AS!Next
<1> DEFINE entry == vm_flag_pages(tables, ImageStart, EntryPages, {"WRITABLE"})
           text == vm_flag_pages(entry.tables, ImageStart + EntryPages, TextPages, {"EXECUTABLE"})
           rodata == vm_flag_pages(text.tables, ImageStart + EntryPages + TextPages, RodataPages, {})
           data == vm_flag_pages(rodata.tables, DataStart, DataPages, {"WRITABLE"})
<1>1. /\ EntryPages \in Nat /\ TextPages \in Nat /\ RodataPages \in Nat /\ DataPages \in Nat
      /\ ImageStart \in Nat /\ ImageStart + EntryPages \in Nat
      /\ ImageStart + EntryPages + TextPages \in Nat /\ DataStart \in Nat
  BY ImageAssumption, KernelAddresses DEF DataStart, ImageStart
<1>2. tables' = data.tables /\ boot = "image" /\ boot' = "run" /\ UNCHANGED <<leftover, tlb, backing, last>> /\ halted = "no"
  BY DEF kernel_remap
<1>3. Chain(entry.tables) /\ SameFrames(tables, entry.tables)
  BY <1>1, FlagKeeps DEF IInv
<1> HIDE DEF entry
<1>4. Chain(text.tables) /\ SameFrames(entry.tables, text.tables)
  BY <1>1, <1>3, FlagKeeps
<1> HIDE DEF text
<1>5. Chain(rodata.tables) /\ SameFrames(text.tables, rodata.tables)
  BY <1>1, <1>4, FlagKeeps
<1> HIDE DEF rodata
<1>6. Chain(data.tables) /\ SameFrames(rodata.tables, data.tables)
  BY <1>1, <1>5, FlagKeeps
<1> HIDE DEF data
<1>7. Chain(tables') /\ SameFrames(tables, tables')
  BY <1>2, <1>3, <1>4, <1>5, <1>6 DEF SameFrames
<1>8. /\ Present(tables') = Present(tables)
      /\ \A v \in Present(tables) : Space(tables')[v].frame = Space(tables)[v].frame
  BY <1>7, SamePresent
<1>9. IInv'
  <2>1. Backed(tables', backing, leftover)
    BY <1>2, <1>7, BackedKept DEF IInv
  <2> QED BY <1>2, <1>7, <1>8, <2>1 DEF IInv
<1>10. Abstract = Space(tables) /\ Abstract' = Space(tables')
  BY <1>9, IInvMeans, IInvNext
<1>11. AS!Remap
  <2>1. last.op = "none"
    BY <1>2 DEF IInv
  <2>2. DOMAIN Space(tables) = Present(tables) /\ DOMAIN Space(tables') = Present(tables')
    BY DEF Space
  <2> QED BY <1>2, <1>8, <1>10, <2>1, <2>2 DEF AS!Remap
<1> QED BY <1>9, <1>11 DEF AS!Next

(* A mapping of either kind, in terms of the pages.                        *)
MapCall(frame, pages, hint, flags, m) ==
  /\ m = vm_map_pages(tables, frame, pages, hint, flags)
  /\ halted = "no" /\ boot = "run"
  /\ tables' = m.tables
  /\ halted' = IF m.res \in {"wild", "forever", "fault"} THEN m.res ELSE "no"
  /\ \E op \in {"map", "reserve"} :
       last' = [op |-> op, res |-> m.res, hint |-> hint, v |-> m.v,
                frame |-> frame, pages |-> pages, flags |-> flags]
  /\ UNCHANGED <<leftover, tlb, boot>>

LEMMA MapTables ==
  ASSUME IInv, NEW frame \in Int, NEW pages \in Nat \ {0}, NEW hint \in 0..(AddressEnd - 1),
         NEW flags, "USER" \notin flags, NEW m, MapCall(frame, pages, hint, flags, m)
  PROVE  /\ Chain(tables') /\ Present(tables) \subseteq Present(tables')
         /\ m.res # "SUCCESS" => tables' = tables
         /\ m.res = "SUCCESS" =>
              \E s \in Index : /\ FreeRun(tables, s, pages)
                               /\ Filled(tables, tables', s, pages, frame, flags)
                               /\ "STRICT" \in flags => m.v = hint /\ hint = KernelStart + s
<1>1. /\ m.res # "SUCCESS" => m.tables = tables
      /\ m.res = "SUCCESS" =>
           \E s \in Index : /\ FreeRun(tables, s, pages)
                            /\ Filled(tables, m.tables, s, pages, frame, flags)
                            /\ "STRICT" \in flags => m.v = hint /\ hint = KernelStart + s
  <2>1. m = vm_map_pages(tables, frame, pages, hint, flags) /\ Chain(tables)
    BY DEF MapCall, IInv
  <2> QED BY <2>1, MapResult
<1>2. tables' = m.tables
  BY DEF MapCall
<1>3. CASE m.res = "SUCCESS"
  <2>1. PICK s \in Index : FreeRun(tables, s, pages) /\ Filled(tables, tables', s, pages, frame, flags)
    BY <1>1, <1>2, <1>3
  <2>2. Chain(tables')
    BY <2>1 DEF Filled
  <2>3. Present(tables') = Present(tables) \cup AS!Run(KernelStart + s, pages)
    BY <2>1, SpaceFilled DEF IInv
  <2> QED BY <1>1, <1>2, <1>3, <2>2, <2>3
<1>4. CASE m.res # "SUCCESS"
  BY <1>1, <1>2, <1>4 DEF IInv
<1> QED BY <1>3, <1>4

LEMMA MapIsAbstract ==
  ASSUME IInv, IInv', NEW frame \in Int, NEW pages \in Nat \ {0}, NEW hint \in 0..(AddressEnd - 1),
         NEW flags, "USER" \notin flags, NEW m, MapCall(frame, pages, hint, flags, m)
  PROVE  AS!Next
<1>1. Abstract = Space(tables) /\ Abstract' = Space(tables')
  BY IInvMeans, IInvNext
<1>2. PICK op \in {"map", "reserve"} :
        last' = [op |-> op, res |-> m.res, hint |-> hint, v |-> m.v,
                 frame |-> frame, pages |-> pages, flags |-> flags]
  BY DEF MapCall
<1>3. /\ last'.op \in {"map", "reserve"} /\ last'.res = m.res /\ last'.hint = hint /\ last'.v = m.v
      /\ last'.frame = frame /\ last'.pages = pages /\ last'.flags = flags
  BY <1>2
<1>4. CASE m.res # "SUCCESS"
  <2>1. tables' = tables
    BY <1>4, MapTables
  <2>2. Abstract' = Abstract
    BY <1>1, <2>1
  <2>3. AS!MapNothing
    BY <1>3, <1>4, <2>2 DEF AS!MapNothing
  <2> QED BY <2>3 DEF AS!Next
<1>5. CASE m.res = "SUCCESS"
  <2>1. PICK s \in Index : /\ FreeRun(tables, s, pages)
                           /\ Filled(tables, tables', s, pages, frame, flags)
                           /\ "STRICT" \in flags => m.v = hint /\ hint = KernelStart + s
    BY <1>5, MapTables
  <2> DEFINE v == KernelStart + s
             run == AS!Run(v, pages)
  <2>2. /\ run \cap Present(tables) = {}
        /\ Space(tables') = [w \in Present(tables) \cup run |->
                               IF w \in Present(tables) THEN Space(tables)[w]
                               ELSE AS!Target(frame + w - v, flags)]
    BY <2>1, SpaceFilled DEF IInv
  <2>3. v \in KernelPages
    BY KernelAddresses
  <2> HIDE DEF v
  <2>4. "STRICT" \in flags => v = hint /\ m.v = v
    BY <2>1 DEF v
  <2>5. DOMAIN Abstract = Present(tables)
    BY <1>1 DEF Space
  <2>6. AS!Run(v, last'.pages) \cap DOMAIN Abstract = {}
    BY <1>3, <2>2, <2>5
  <2>7. Abstract' = [w \in DOMAIN Abstract \cup AS!Run(v, last'.pages) |->
                       IF w \in DOMAIN Abstract THEN Abstract[w]
                       ELSE AS!Target(last'.frame + w - v, last'.flags)]
    BY <1>1, <1>3, <2>2, <2>5, Zenon
  <2>8. AS!Map(v)
    BY <1>3, <1>5, <2>4, <2>6, <2>7, Zenon DEF AS!Map
  <2> QED BY <2>3, <2>8, Zenon DEF AS!Next
<1> QED BY <1>4, <1>5

LEMMA PagesOfBytes ==
  ASSUME NEW offset \in Nat, NEW bytes \in ByteSizes
  PROVE  PagesOf(offset, bytes) \in Nat \ {0}
<1>1. bytes \in Nat \ {0} /\ PAGE_SIZE \in Nat \ {0}
  BY CallerAssumption
<1> DEFINE b == offset + bytes + PAGE_SIZE - 1
<1>2. b \in Nat /\ b >= PAGE_SIZE
  BY <1>1
<1> HIDE DEF b
<1>3. b \div PAGE_SIZE \in Nat
  BY <1>1, <1>2
<1>4. b \div PAGE_SIZE # 0
  BY <1>1, <1>2
<1> QED BY <1>3, <1>4 DEF PagesOf, b

LEMMA FewMapped ==
  ASSUME IInv, NEW pages \in Nat, Cardinality(Mapped) + pages <= MaxMapped
  PROVE  pages <= MaxMapped
<1>1. IsFiniteSet(Index)
  BY FS_Interval, LevelFacts DEF Index
<1>2. Cardinality(Mapped) \in Nat
  BY <1>1, FS_Subset, FS_CardinalityType DEF Mapped
<1> QED BY <1>2, CallerAssumption

LEMMA HintFacts ==
  /\ \A hint \in Hints \cup {DefaultHint} : hint \in 0..(AddressEnd - 1)
  /\ \A v \in Hints : v \in Nat
<1>1. DefaultHint \in KernelPages
  <2>1. FirstPage + ImagePages - 1 \in Index
    BY ImageAssumption, LevelFacts DEF ImagePages
  <2>2. KernelStart + (FirstPage + ImagePages - 1) \in KernelPages
    BY <2>1, KernelAddresses
  <2>3. DefaultHint = KernelStart + (FirstPage + ImagePages - 1)
    BY KernelAddresses, ImageAssumption DEF DefaultHint, ImageStart, ImagePages
  <2> QED BY <2>2, <2>3
<1> QED BY <1>1, KernelAddresses, AddressAssumption

(* The frames of a mapping that vmk_map_bytes makes are those it was asked *)
(* for: they do not run over the end of what an entry can name.            *)
LEMMA MapStep ==
  ASSUME IInv, NEW frame \in MapFrames, NEW offset \in 0..(PAGE_SIZE - 1), NEW bytes \in ByteSizes,
         NEW hint \in Hints \cup {DefaultHint}, NEW flags \in FlagSets,
         vmk_map_bytes(frame, offset, bytes, hint, flags)
  PROVE  IInv' /\ AS!Next
<1> DEFINE pages == PagesOf(offset, bytes)
           m == vm_map_pages(tables, frame, pages, hint, flags)
<1>1. pages \in Nat \ {0} /\ frame \in Int /\ hint \in 0..(AddressEnd - 1) /\ "USER" \notin flags
  <2>1. offset \in Nat /\ frame \in Int
    BY CallerAssumption
  <2> QED BY <2>1, PagesOfBytes, HintFacts, CallerAssumption
<1>2. Cardinality(Mapped) + pages <= MaxMapped
  BY Zenon DEF vmk_map_bytes
<1>3. MapCall(frame, pages, hint, flags, m) /\ backing' = backing
  BY Zenon DEF vmk_map_bytes, MapCall, Idle
<1> HIDE DEF pages, m
<1>4. /\ Chain(tables') /\ Present(tables) \subseteq Present(tables')
      /\ m.res # "SUCCESS" => tables' = tables
      /\ m.res = "SUCCESS" =>
           \E s \in Index : /\ FreeRun(tables, s, pages)
                            /\ Filled(tables, tables', s, pages, frame, flags)
                            /\ "STRICT" \in flags => m.v = hint /\ hint = KernelStart + s
  BY <1>1, <1>3, MapTables
<1>5. pages <= MaxMapped
  BY <1>1, <1>2, FewMapped
<1>6. Backed(tables', backing, leftover)
  <2>1. Backed(tables, backing, leftover)
    BY <1>3 DEF IInv, MapCall
  <2>2. CASE m.res # "SUCCESS"
    BY <1>4, <2>1, <2>2
  <2>3. CASE m.res = "SUCCESS"
    <3>1. PICK s \in Index : Filled(tables, tables', s, pages, frame, flags)
      BY <1>4, <2>3
    <3> SUFFICES ASSUME NEW j \in Index \ leftover, tables'[Last][j].present
                 PROVE  tables'[Last][j].frame \in Memory \/ KernelStart + j \in backing
      BY DEF Backed
    <3>2. CASE s <= j /\ j < s + pages
      <4>1. tables'[Last][j] = set_pte(frame + (j - s), flags)
        BY <3>1, <3>2 DEF Filled
      <4>2. tables'[Last][j].frame = (frame + (j - s)) % FRAMES
        BY <4>1, SetPteFacts
      <4>3. j - s \in 0..MaxMapped /\ j - s < pages /\ frame \in 0..(FRAMES - MaxMapped)
        BY <1>1, <1>5, <3>2, LevelFacts, CallerAssumption
      <4>4. frame + (j - s) \in 0..(FRAMES - 1)
        BY <1>1, <1>5, <4>3, CallerAssumption
      <4>5. frame + (j - s) \in Placed
        BY <4>3 DEF Placed
      <4>6. tables'[Last][j].frame = frame + (j - s)
        BY <4>2, <4>4, FrameFits
      <4> QED BY <4>5, <4>6 DEF Memory, Placed
    <3>3. CASE ~(s <= j /\ j < s + pages)
      <4>1. tables'[Last][j] = tables[Last][j]
        BY <3>1, <3>3 DEF Filled
      <4> QED BY <2>1, <4>1 DEF Backed
    <3> QED BY <3>2, <3>3
  <2> QED BY <2>2, <2>3
<1>7. boot' = "run" /\ UNCHANGED <<leftover, tlb>>
  BY <1>3 DEF MapCall
<1>8. IInv'
  BY <1>3, <1>4, <1>6, <1>7 DEF IInv
<1> QED BY <1>1, <1>3, <1>8, MapIsAbstract

LEMMA ReserveStep ==
  ASSUME IInv, NEW bytes \in ByteSizes, NEW hint \in Hints, mm_map(PagesOf(0, bytes), hint)
  PROVE  IInv' /\ AS!Next
<1> DEFINE pages == PagesOf(0, bytes)
           flags == {"WRITABLE", "STRICT"}
           frame == RESERVED(pages)
           m == vm_map_pages(tables, frame, pages, hint, flags)
<1>1. pages \in Nat \ {0} /\ hint \in 0..(AddressEnd - 1)
  BY PagesOfBytes, HintFacts
<1>2. MapCall(frame, pages, hint, flags, m)
  BY Zenon DEF mm_map, MapCall, Idle
<1>3. backing = {} /\ backing' = IF m.res = "SUCCESS" THEN PagesFrom(m.v, pages) ELSE {}
  BY Zenon DEF mm_map, Idle
<1>a. "USER" \notin flags /\ "STRICT" \in flags
  OBVIOUS
<1> HIDE DEF pages, m, flags
<1>b. frame \in Int
  BY <1>1, CallerAssumption DEF RESERVED
<1> HIDE DEF frame
<1>4. /\ Chain(tables') /\ Present(tables) \subseteq Present(tables')
      /\ m.res # "SUCCESS" => tables' = tables
      /\ m.res = "SUCCESS" =>
           \E s \in Index : /\ FreeRun(tables, s, pages)
                            /\ Filled(tables, tables', s, pages, frame, flags)
                            /\ "STRICT" \in flags => m.v = hint /\ hint = KernelStart + s
  BY <1>1, <1>2, <1>a, <1>b, MapTables
<1>5. Backed(tables, {}, leftover)
  BY <1>2, <1>3 DEF IInv, MapCall
<1>6. Backed(tables', backing', leftover) /\ backing' \subseteq KernelPages
  <2>1. CASE m.res # "SUCCESS"
    BY <1>3, <1>4, <1>5, <2>1
  <2>2. CASE m.res = "SUCCESS"
    <3>1. PICK s \in Index : /\ FreeRun(tables, s, pages)
                             /\ Filled(tables, tables', s, pages, frame, flags)
                             /\ m.v = KernelStart + s
      BY <1>4, <1>a, <2>2
    <3>2. backing' = PagesFrom(KernelStart + s, pages)
      BY <1>3, <2>2, <3>1
    <3>3. /\ KernelStart \in Nat /\ s \in Nat /\ PT_LENGTH \in Nat /\ s + pages <= PT_LENGTH
      BY <3>1, KernelAddresses, LevelFacts DEF FreeRun
    <3>4. backing' \subseteq KernelPages
      BY <1>1, <3>2, <3>3 DEF PagesFrom, KernelPages
    <3>5. ASSUME NEW j \in Index \ leftover, tables'[Last][j].present
          PROVE  tables'[Last][j].frame \in Memory \/ KernelStart + j \in backing'
      <4>1. CASE s <= j /\ j < s + pages
        <5>1. KernelStart + j \in PagesFrom(KernelStart + s, pages)
          BY <1>1, <3>3, <4>1, LevelFacts DEF PagesFrom
        <5> QED BY <3>2, <5>1
      <4>2. CASE ~(s <= j /\ j < s + pages)
        <5>1. tables'[Last][j] = tables[Last][j]
          BY <3>1, <4>2 DEF Filled
        <5> QED BY <1>5, <3>5, <5>1 DEF Backed
      <4> QED BY <4>1, <4>2
    <3> QED BY <3>4, <3>5 DEF Backed
  <2> QED BY <2>1, <2>2
<1>7. boot' = "run" /\ UNCHANGED <<leftover, tlb>>
  BY <1>2 DEF MapCall
<1>8. IInv'
  BY <1>4, <1>6, <1>7 DEF IInv
<1> QED BY <1>1, <1>2, <1>8, <1>a, <1>b, MapIsAbstract

LEMMA BackingStep ==
  ASSUME IInv, SetBacking
  PROVE  IInv' /\ [AS!Next]_AS!absVars
<1> DEFINE v == CHOOSE x \in backing : \A y \in backing : x <= y
           fresh == HeapFrames \ Used
           frame == CHOOSE f \in fresh : \A g \in fresh : f <= g
<1>1. v \in backing /\ v \in KernelPages
  <2>1. backing \in SUBSET Nat /\ backing # {}
    BY KernelAddresses DEF IInv, SetBacking
  <2>2. \E x \in backing : \A y \in backing : x <= y
    BY <2>1, HasLeast
  <2> QED BY <2>2 DEF IInv
<1>2. /\ halted = "no" /\ UNCHANGED <<leftover, tlb, boot, last>>
      /\ IF fresh = {} \/ recurse_find(tables, v) = ENOMAP
         THEN halted' = "memory" /\ UNCHANGED <<tables, backing>>
         ELSE /\ tables' = vmk_set_backing(v, frame)
              /\ backing' = backing \ {v}
              /\ UNCHANGED halted
  BY Zenon DEF SetBacking
<1>3. CASE fresh = {} \/ recurse_find(tables, v) = ENOMAP
  <2>1. halted' = "memory" /\ UNCHANGED <<tables, backing, leftover, tlb, boot, last>>
    BY <1>2, <1>3
  <2>2. IInv'
    BY <2>1 DEF IInv
  <2>3. Abstract' = Abstract
    BY <2>1, <2>2, IInvMeans, IInvNext
  <2>4. UNCHANGED AS!absVars
    BY <2>1, <2>3 DEF AS!absVars
  <2> QED BY <2>2, <2>4
<1>4. CASE ~(fresh = {} \/ recurse_find(tables, v) = ENOMAP)
  <2>1. frame \in HeapFrames /\ frame \in 0..(FRAMES - 1)
    <3>a. \A f \in HeapFrames : f \in Nat
      BY CallerAssumption
    <3>b. fresh # {}
      BY <1>4, Zenon
    <3>1. fresh \in SUBSET Nat /\ fresh # {}
      BY <3>a, <3>b
    <3>2. \E f \in fresh : \A g \in fresh : f <= g
      BY <3>1, HasLeast
    <3>3. frame \in fresh
      BY <3>2
    <3> QED BY <3>3, CallerAssumption
  <2> HIDE DEF v, fresh, frame
  <2>2. v \in Present(tables)
    BY <1>1, <1>4, FindPage, KernelAddresses DEF IInv
  <2>3. tables' = Put(tables, Last, Page(v), [tables[Last][Page(v)] EXCEPT !.frame = frame])
    <3>1. Indices(v)[Last] = Page(v)
      BY <1>1, KernelPageFacts, PathFacts DEF Page
    <3>2. tables' = vmk_set_backing(v, frame)
      BY <1>2, <1>4
    <3> QED BY <3>1, <3>2, Zenon DEF vmk_set_backing, Put
  <2>4. /\ Chain(tables') /\ Present(tables') = Present(tables)
        /\ \A j \in Index :
             /\ tables'[Last][j].present = tables[Last][j].present
             /\ tables'[Last][j].frame = IF j = Page(v) THEN frame ELSE tables[Last][j].frame
        /\ Space(tables') = [Space(tables) EXCEPT ![v].frame = frame]
    BY <2>1, <2>2, <2>3, SpaceBacked DEF IInv
  <2>5. backing' = backing \ {v} /\ UNCHANGED <<halted, leftover, tlb, boot, last>>
    BY <1>2, <1>4
  <2>6. Backed(tables', backing', leftover)
    <3>1. Backed(tables, backing, leftover)
      BY <1>2 DEF IInv
    <3> SUFFICES ASSUME NEW j \in Index \ leftover, tables'[Last][j].present
                 PROVE  tables'[Last][j].frame \in Memory \/ KernelStart + j \in backing'
      BY DEF Backed
    <3>2. CASE j = Page(v)
      BY <2>1, <2>4, <3>2 DEF Memory
    <3>3. CASE j # Page(v)
      <4>1. KernelStart + j # v
        BY <1>1, <3>3, KernelAddresses
      <4>2. tables[Last][j].present /\ tables'[Last][j].frame = tables[Last][j].frame
        BY <2>4, <3>3
      <4> QED BY <2>5, <3>1, <4>1, <4>2 DEF Backed
    <3> QED BY <3>2, <3>3
  <2>7. IInv'
    BY <2>4, <2>5, <2>6 DEF IInv
  <2>8. Abstract = Space(tables) /\ Abstract' = Space(tables')
    BY <2>7, IInvMeans, IInvNext
  <2>9. AS!Back(v)
    <3>1. v \in DOMAIN Abstract /\ last' = last
      BY <2>2, <2>5, <2>8 DEF Space
    <3>2. Abstract' = [Abstract EXCEPT ![v].frame = frame]
      BY <2>4, <2>8
    <3> QED BY <2>1, <3>1, <3>2, Zenon DEF AS!Back
  <2> QED BY <1>1, <2>7, <2>9, Zenon DEF AS!Next
<1> QED BY <1>3, <1>4

LEMMA UnmapStep ==
  ASSUME IInv, NEW v \in Released, NEW offset \in 0..(PAGE_SIZE - 1), NEW bytes \in ByteSizes,
         vmk_unmap_bytes(v, offset, bytes)
  PROVE  IInv' /\ AS!Next
<1> DEFINE pages == PagesOf(offset, bytes)
           u == recurse_unmap(pages)[[level |-> 0, n |-> 0, tables |-> tables, index |-> Indices(v),
                                      cursor |-> v, gone |-> {}]]
<1>1. pages \in Nat \ {0} /\ v \in KernelStart..(AddressEnd - 1)
  <2>1. offset \in Nat
    BY CallerAssumption
  <2> QED BY <2>1, PagesOfBytes, AddressAssumption
<1>2. /\ tables' = u.tables /\ tlb' = [w \in DOMAIN tlb \ u.gone |-> tlb[w]]
      /\ leftover' = {i \in leftover : u.tables[Last][i].present}
      /\ last' = [op |-> "unmap", v |-> v, pages |-> pages]
      /\ UNCHANGED <<boot, backing, halted>> /\ boot = "run"
  BY Zenon DEF vmk_unmap_bytes, Idle
<1> HIDE DEF pages
<1>3. /\ Chain(u.tables)
      /\ \A j \in Index :
           LET w == KernelStart + j
           IN  /\ v <= w /\ w < v + pages => u.tables[Last][j] = NoEntry /\ w \in u.gone
               /\ ~(v <= w /\ w < v + pages) => u.tables[Last][j] = tables[Last][j]
  BY <1>1, UnmapResult DEF IInv
<1> HIDE DEF u
<1>4. Emptied(tables, tables', v, pages)
  BY <1>2, <1>3 DEF Emptied
<1>5. v \in Nat
  BY <1>1, KernelAddresses
<1>6. /\ Present(tables') = Present(tables) \ AS!Run(v, pages)
      /\ Space(tables') = [w \in Present(tables) \ AS!Run(v, pages) |-> Space(tables)[w]]
  <2>1. pages \in Nat
    BY <1>1
  <2>2. Removed(tables, tables', v, pages)
    BY <1>4, <1>5, <2>1, SpaceCleared
  <2> QED BY <2>2, Zenon DEF Removed
<1>7. DOMAIN tlb' \subseteq Present(tables')
  <2> SUFFICES ASSUME NEW w \in DOMAIN tlb, w \notin u.gone PROVE w \in Present(tables')
    BY <1>2
  <2>1. w \in Present(tables)
    BY DEF IInv
  <2>2. Page(w) \in Index /\ w = KernelStart + Page(w) /\ w \in Nat
    BY <2>1, KernelAddresses DEF Present
  <2>3. ~(v <= w /\ w < v + pages)
    BY <1>3, <2>2
  <2>4. w \notin AS!Run(v, pages)
    BY <1>1, <1>5, <2>2, <2>3 DEF AS!Run
  <2> QED BY <1>6, <2>1, <2>4
<1>8. halted = "no" => Backed(tables', backing, leftover')
  <2> SUFFICES ASSUME halted = "no", NEW j \in Index \ leftover', tables'[Last][j].present
               PROVE  tables'[Last][j].frame \in Memory \/ KernelStart + j \in backing
    BY DEF Backed
  <2>1. j \notin leftover
    BY <1>2
  <2>2. tables'[Last][j] = tables[Last][j]
    BY <1>4 DEF Emptied, NoEntry
  <2> QED BY <2>1, <2>2 DEF IInv, Backed
<1>9. IInv'
  BY <1>2, <1>3, <1>7, <1>8 DEF IInv
<1>10. Abstract = Space(tables) /\ Abstract' = Space(tables') /\ DOMAIN Space(tables) = Present(tables)
  BY <1>9, IInvMeans, IInvNext DEF Space
<1>11. last'.op = "unmap" /\ last'.v = v /\ last'.pages = pages
  BY <1>2
<1>12. AS!Unmap
  BY <1>6, <1>10, <1>11, Zenon DEF AS!Unmap
<1> QED BY <1>9, <1>12 DEF AS!Next

LEMMA FlagStep ==
  ASSUME IInv, NEW v \in Hints, NEW bytes \in ByteSizes, NEW flags \in FlagSets,
         vmk_flag_pages(v, PagesOf(0, bytes), flags)
  PROVE  IInv' /\ AS!Next
<1> DEFINE pages == PagesOf(0, bytes)
           f == vm_flag_pages(tables, v, pages, flags)
           i == Indices(v)[Last]
<1>1. pages \in Nat /\ v \in Nat /\ v \in 0..(AddressEnd - 1) /\ "USER" \notin flags
  BY PagesOfBytes, HintFacts, CallerAssumption
<1>2. /\ tables' = f.tables
      /\ last' = [op |-> "flag", v |-> v, pages |-> pages, flags |-> flags,
                  res |-> IF f.missing THEN "ENOMAP" ELSE "SUCCESS"]
      /\ UNCHANGED <<leftover, tlb, boot, backing, halted>> /\ boot = "run"
  BY Zenon DEF vmk_flag_pages, Idle
<1> HIDE DEF pages
<1>3. PICK n \in Nat :
           /\ n <= pages /\ Marked(tables, f.tables, Indices(v)[Last], n, flags)
           /\ n > 0 => OnPath(Indices(v))
           /\ n < pages /\ OnPath(Indices(v)) => Ends(tables, Indices(v)[Last] + n)
           /\ f.missing <=> n < pages
  BY <1>1, FlagResult DEF IInv
<1> HIDE DEF f
<1>4. i \in Nat
  BY <1>1, IndicesFacts, LevelFacts DEF Full
<1>5. Chain(tables') /\ SameFrames(tables, tables')
  BY <1>2, <1>3, <1>4, MarkedKeeps DEF IInv
<1>6. Present(tables') = Present(tables)
  BY <1>5, SamePresent
<1>7. halted = "no" => Backed(tables', backing, leftover)
  BY <1>5, BackedKept DEF IInv
<1>8. IInv'
  BY <1>2, <1>5, <1>6, <1>7 DEF IInv
<1>9. Abstract = Space(tables) /\ Abstract' = Space(tables') /\ DOMAIN Abstract = Present(tables)
  BY <1>8, IInvMeans, IInvNext DEF Space
<1>10. /\ last'.op = "flag" /\ last'.v = v /\ last'.pages = pages /\ last'.flags = flags
       /\ last'.res = IF f.missing THEN "ENOMAP" ELSE "SUCCESS"
  BY <1>2
<1>11. /\ AS!Run(v, n) \subseteq Present(tables)
       /\ Space(tables') = [w \in Present(tables) |->
                              IF w \in AS!Run(v, n)
                              THEN [Space(tables)[w] EXCEPT !.perms = AS!Permissions(flags)]
                              ELSE Space(tables)[w]]
       /\ n < pages => v + n \notin Present(tables)
  <2>1. CASE OnPath(Indices(v))
    <3>1. v \in KernelPages /\ i = Page(v) /\ v = KernelStart + i
      BY <1>1, <2>1, KernelPageFacts, PathFacts DEF Page
    <3>2. Marked(tables, tables', Page(v), n, flags)
      BY <1>2, <1>3, <3>1
    <3>3. ASSUME n < pages PROVE v + n \notin Present(tables)
      <4>1. Ends(tables, i + n)
        BY <1>3, <2>1, <3>3
      <4>2. v + n = KernelStart + (i + n) /\ Page(v + n) = i + n
        BY <1>4, <3>1, KernelAddresses DEF Page
      <4> QED BY <4>1, <4>2, KernelAddresses DEF Ends, Present
    <3> QED BY <1>1, <3>1, <3>2, <3>3, SpaceMarked DEF IInv
  <2>2. CASE ~OnPath(Indices(v))
    <3>1. n = 0 /\ v + n = v
      BY <1>1, <1>3, <2>2
    <3>2. v \notin KernelPages
      BY <1>1, <2>2, KernelPageFacts
    <3>3. AS!Run(v, n) = {}
      BY <1>1, <3>1 DEF AS!Run
    <3>4. \A j \in Index : tables'[Last][j] = tables[Last][j]
      <4>1. \A j \in Index : ~(i <= j /\ j < i + 0)
        BY <1>4, LevelFacts
      <4> QED BY <1>2, <1>3, <3>1, <4>1 DEF Marked
    <3>5. \A w \in Present(tables) : Page(w) \in Index
      BY KernelAddresses DEF Present
    <3>6. Space(tables') = [w \in Present(tables) |-> Space(tables)[w]]
      BY <1>6, <3>4, <3>5 DEF Space
    <3> QED BY <3>1, <3>2, <3>3, <3>6 DEF Present
  <2> QED BY <2>1, <2>2
<1>12. n \in 0..pages /\ ((IF f.missing THEN "ENOMAP" ELSE "SUCCESS") = "SUCCESS" <=> n = pages)
  BY <1>1, <1>3
<1>13. AS!Flag
  <2>1. /\ AS!Run(last'.v, n) \subseteq DOMAIN Abstract
        /\ n < last'.pages => last'.v + n \notin DOMAIN Abstract
        /\ (last'.res = "SUCCESS") <=> (n = last'.pages)
        /\ n \in 0..last'.pages
    BY <1>9, <1>10, <1>11, <1>12
  <2>2. Abstract' = [w \in DOMAIN Abstract |->
                       IF w \in AS!Run(last'.v, n)
                       THEN [Abstract[w] EXCEPT !.perms = AS!Permissions(last'.flags)]
                       ELSE Abstract[w]]
    BY <1>9, <1>10, <1>11, Zenon
  <2> QED BY <1>10, <2>1, <2>2, Zenon DEF AS!Flag
<1> QED BY <1>8, <1>13 DEF AS!Next

LEMMA TouchStep ==
  ASSUME IInv, NEW v \in Touched, Touch(v)
  PROVE  IInv' /\ UNCHANGED AS!absVars
<1>1. v \in Present(tables)
  BY FindPage, AddressAssumption DEF IInv, Touch
<1>2. UNCHANGED <<tables, leftover, boot, backing, last, halted>> /\ DOMAIN tlb' = DOMAIN tlb \cup {v}
  BY DEF Touch
<1>3. IInv'
  BY <1>1, <1>2 DEF IInv
<1>4. Abstract' = Abstract
  BY <1>2, <1>3, IInvMeans, IInvNext
<1> QED BY <1>2, <1>3, <1>4 DEF AS!absVars

LEMMA StepIInv ==
  ASSUME IInv, [Next]_vars
  PROVE  IInv' /\ [AS!Next]_AS!absVars
<1>1. CASE kernel_remap
  BY <1>1, RemapStep
<1>2. ASSUME NEW frame \in MapFrames, NEW offset \in 0..(PAGE_SIZE - 1), NEW bytes \in ByteSizes,
             NEW hint \in Hints \cup {DefaultHint}, NEW flags \in FlagSets,
             vmk_map_bytes(frame, offset, bytes, hint, flags)
      PROVE  IInv' /\ [AS!Next]_AS!absVars
  BY <1>2, MapStep
<1>3. ASSUME NEW bytes \in ByteSizes, NEW hint \in Hints, mm_map(PagesOf(0, bytes), hint)
      PROVE  IInv' /\ [AS!Next]_AS!absVars
  BY <1>3, ReserveStep
<1>4. CASE SetBacking
  BY <1>4, BackingStep
<1>5. ASSUME NEW v \in Released, NEW offset \in 0..(PAGE_SIZE - 1), NEW bytes \in ByteSizes,
             vmk_unmap_bytes(v, offset, bytes)
      PROVE  IInv' /\ [AS!Next]_AS!absVars
  BY <1>5, UnmapStep
<1>6. ASSUME NEW v \in Hints, NEW bytes \in ByteSizes, NEW flags \in FlagSets,
             vmk_flag_pages(v, PagesOf(0, bytes), flags)
      PROVE  IInv' /\ [AS!Next]_AS!absVars
  BY <1>6, FlagStep
<1>7. ASSUME NEW v \in Touched, Touch(v)
      PROVE  IInv' /\ [AS!Next]_AS!absVars
  BY <1>7, TouchStep
<1>8. CASE UNCHANGED vars
  <2>1. UNCHANGED <<tables, leftover, tlb, boot, backing, last, halted>>
    BY <1>8 DEF vars
  <2>2. IInv'
    BY <2>1 DEF IInv
  <2>3. Abstract' = Abstract
    BY <2>1, <2>2, IInvMeans, IInvNext
  <2> QED BY <2>1, <2>2, <2>3 DEF AS!absVars
<1> QED BY <1>1, <1>2, <1>3, <1>4, <1>5, <1>6, <1>7, <1>8, Zenon DEF Next

LEMMA Invariance == Spec => []IInv
<1>1. IInv /\ [Next]_vars => IInv'
  BY StepIInv
<1> QED BY <1>1, InitIInv, PTL DEF Spec

\* recurse_unmap invalidates every entry it clears at that entry's own
\* address: whatever was mapped, touched and unmapped before, the processor
\* never has a translation for a page that is not mapped.
THEOREM UnmappedNeverCached == Spec => []UnmappedIsNotCached
<1>1. IInv => UnmappedIsNotCached
  BY IInvMeans
<1> QED BY <1>1, Invariance, PTL

\* Between two calls every page that the kernel or its loader mapped has a
\* frame of memory, whatever the last table held beside them: the ones that
\* mm_map reserved, with frames from the end of the physical address space,
\* have all been given one from pm_request_page.
THEOREM PlaceholdersReplaced == Spec => []ReservedIsBacked
<1>1. IInv => ReservedIsBacked
  BY IInvMeans
<1> QED BY <1>1, Invariance, PTL

\* vm_map_pages, vm_flag_pages, recurse_unmap and recurse_set_backing, with
\* all they do to the tables of every level, change a map from pages to
\* frames and permissions in the one place that the call names.
THEOREM TablesImplementSpace == Spec => ImplementsAddressSpace
<1>1. Init => AS!Init
  BY DEF Init, AS!Init
<1>2. IInv /\ [Next]_vars => [AS!Next]_AS!absVars
  BY StepIInv
<1> QED BY <1>1, <1>2, Invariance, PTL DEF Spec, ImplementsAddressSpace, AS!Spec

-----------------------------------------------------------------------------
(* The window of temporary mappings, for every size of it.                 *)
USE WindowAssumption

(* The invariant: nobody looks through the page of the window's own table, *)
(* and what the processor has cached is a page that somebody looks through.*)
CachedIsOpen == \A c \in cached : c[2] # None
WindowInv ==
  /\ WindowTypeOK /\ FirstFreeIsExact /\ WalksSeeTheirTables
  /\ view[SelfIndex] = None
  /\ CachedIsOpen

(* The initial state.                                                      *)
LEMMA InitWindow == WindowInit => WindowInv
<1> SUFFICES ASSUME WindowInit PROVE WindowInv
  OBVIOUS
<1>1. SelfIndex \in Slots /\ 0 \in Slots /\ 0 # SelfIndex /\ 0 \in 0..TMP_LENGTH
  BY DEF SelfIndex, Slots
<1>2. WindowTypeOK
  BY <1>1 DEF WindowInit, WindowTypeOK
<1>3. FirstFreeIsExact
  <2>1. \A j \in Slots : ~(j < 0)
    BY DEF Slots
  <2>2. entries[0] = None
    BY <1>1 DEF WindowInit
  <2> QED  BY <2>1, <2>2 DEF WindowInit, FirstFreeIsExact
<1>4. WalksSeeTheirTables /\ view[SelfIndex] = None /\ CachedIsOpen
  BY <1>1 DEF WindowInit, WalksSeeTheirTables, CachedIsOpen
<1> QED  BY <1>2, <1>3, <1>4 DEF WindowInv

(* Opening a page: it is free, and the loop finds the next free one.       *)
LEMMA MapWindow ==
  ASSUME WindowInv, NEW frame \in Frames, map_page_tmp(frame)
  PROVE  /\ WindowInv'
         /\ \A i \in Slots : view[i] # None => view'[i] \in {view[i], None}
<1> DEFINE f == first_free_tmp_index
           e == [entries EXCEPT ![f] = frame]
<1>1. f \in Nat /\ f <= TMP_LENGTH /\ SelfIndex \in Slots
  BY DEF WindowInv, WindowTypeOK, SelfIndex, Slots
<1>2. CASE f >= TMP_LENGTH
  <2>1. /\ full' = TRUE
        /\ entries' = entries /\ first_free_tmp_index' = f
        /\ cached' = cached /\ view' = view
    BY <1>2 DEF map_page_tmp
  <2> QED
    BY <2>1 DEF WindowInv, WindowTypeOK, FirstFreeIsExact, WalksSeeTheirTables, CachedIsOpen
<1>3. CASE f < TMP_LENGTH
  <2>1. /\ entries' = e
        /\ first_free_tmp_index' \in Stops(e, f)
        /\ view' = [view EXCEPT ![f] = frame]
        /\ cached' = cached /\ full' = full
    BY <1>1, <1>3 DEF map_page_tmp
  <2>2. f \in Slots /\ entries[f] = None /\ f # SelfIndex
    BY <1>1, <1>3 DEF WindowInv, FirstFreeIsExact, WalksSeeTheirTables, Slots
  <2>3. view[f] = None
    BY <2>2 DEF WindowInv, WalksSeeTheirTables, WindowTypeOK
  <2>4. /\ entries' \in [Slots -> Frames \cup {None, Self}]
        /\ view' \in [Slots -> Frames \cup {None}]
        /\ entries'[f] = frame /\ view'[f] = frame
        /\ \A i \in Slots : i # f => entries'[i] = entries[i] /\ view'[i] = view[i]
    BY <2>1, <2>2 DEF WindowInv, WindowTypeOK
  <2> DEFINE g == first_free_tmp_index'
  <2>5. /\ g \in (f + 1)..TMP_LENGTH
        /\ g < TMP_LENGTH => entries'[g] = None
        /\ \A j \in (f + 1)..(g - 1) : entries'[j] # None
    BY <2>1 DEF Stops
  <2> HIDE DEF g
  <2>6. WindowTypeOK'
    <3>1. g \in 0..TMP_LENGTH
      BY <1>1, <2>5
    <3> QED  BY <2>1, <2>4, <3>1 DEF WindowInv, WindowTypeOK, g
  <2>7. FirstFreeIsExact'
    <3> SUFFICES ASSUME NEW j \in Slots, j < g PROVE entries'[j] # None
      BY <2>5 DEF FirstFreeIsExact, g
    <3>1. CASE j < f
      <4>1. entries[j] # None /\ j # f
        BY <1>1, <3>1 DEF WindowInv, FirstFreeIsExact
      <4> QED  BY <2>4, <4>1
    <3>2. CASE j = f
      BY <2>4, <3>2
    <3>3. CASE j > f
      <4>1. j \in (f + 1)..(g - 1)
        BY <1>1, <2>5, <3>3 DEF Slots
      <4> QED  BY <2>5, <4>1
    <3>4. j < f \/ j = f \/ j > f
      BY <1>1 DEF Slots
    <3> QED  BY <3>1, <3>2, <3>3, <3>4
  <2>8. WalksSeeTheirTables'
    <3>1. \A i \in Slots : view'[i] # None => entries'[i] = view'[i]
      BY <2>4 DEF WindowInv, WalksSeeTheirTables
    <3>2. \A c \in cached' : c[2] = view'[c[1]]
      <4> SUFFICES ASSUME NEW c \in cached PROVE c[2] = view'[c[1]]
        BY <2>1
      <4>1. c[1] \in Slots /\ c[2] = view[c[1]] /\ view[c[1]] # None
        BY DEF WindowInv, WindowTypeOK, WalksSeeTheirTables, CachedIsOpen
      <4> QED  BY <2>3, <2>4, <4>1
    <3>3. entries'[SelfIndex] = Self
      BY <1>1, <2>2, <2>4 DEF WindowInv, WalksSeeTheirTables
    <3> QED  BY <3>1, <3>2, <3>3 DEF WalksSeeTheirTables
  <2>9. view'[SelfIndex] = None
    BY <1>1, <2>2, <2>4 DEF WindowInv
  <2>10. \A i \in Slots : view[i] # None => view'[i] \in {view[i], None}
    BY <2>3, <2>4
  <2>11. CachedIsOpen'
    BY <2>1 DEF WindowInv, CachedIsOpen
  <2> QED  BY <2>6, <2>7, <2>8, <2>9, <2>10, <2>11 DEF WindowInv, SelfIndex
<1> QED  BY <1>1, <1>2, <1>3
(* Reading through an open page.                                           *)
LEMMA LookWindow ==
  ASSUME WindowInv, NEW i \in Slots, Look(i)
  PROVE  WindowInv' /\ view' = view
<1>1. /\ entries' = entries /\ first_free_tmp_index' = first_free_tmp_index
      /\ view' = view /\ full' = full
      /\ cached' = cached \cup {<<i, entries[i]>>} /\ view[i] # None
  BY DEF Look
<1>2. entries[i] = view[i] /\ entries[i] \in Frames \cup {None, Self}
  BY <1>1 DEF WindowInv, WalksSeeTheirTables, WindowTypeOK
<1>3. <<i, entries[i]>>[1] = i /\ <<i, entries[i]>>[2] = entries[i]
  OBVIOUS
<1>4. cached' \subseteq Slots \X (Frames \cup {None, Self})
  BY <1>1, <1>2 DEF WindowInv, WindowTypeOK
<1>5. WindowTypeOK' /\ FirstFreeIsExact'
  BY <1>1, <1>4 DEF WindowInv, WindowTypeOK, FirstFreeIsExact
<1>6. WalksSeeTheirTables' /\ CachedIsOpen'
  BY <1>1, <1>2, <1>3 DEF WindowInv, WalksSeeTheirTables, CachedIsOpen
<1> QED  BY <1>1, <1>5, <1>6 DEF WindowInv, SelfIndex

(* Closing a page, in whatever order: the processor forgets it, and the    *)
(* index goes back to it if it is the lowest.                              *)
LEMMA UnmapWindow ==
  ASSUME WindowInv, NEW i \in Slots, unmap_page_tmp(i)
  PROVE  /\ WindowInv'
         /\ \A j \in Slots : view[j] # None => view'[j] \in {view[j], None}
<1> DEFINE f == first_free_tmp_index
           g == IF i < f THEN i ELSE f
<1>1. /\ entries' = [entries EXCEPT ![i] = None]
      /\ cached' = {c \in cached : c[1] # i}
      /\ view' = [view EXCEPT ![i] = None]
      /\ first_free_tmp_index' = g
      /\ full' = full /\ view[i] # None
  BY DEF unmap_page_tmp
<1>2. i # SelfIndex /\ SelfIndex \in Slots
  BY <1>1 DEF WindowInv, SelfIndex, Slots
<1>3. /\ entries' \in [Slots -> Frames \cup {None, Self}]
      /\ view' \in [Slots -> Frames \cup {None}]
      /\ entries'[i] = None /\ view'[i] = None
      /\ \A j \in Slots : j # i => entries'[j] = entries[j] /\ view'[j] = view[j]
  BY <1>1 DEF WindowInv, WindowTypeOK
<1>4. f \in 0..TMP_LENGTH /\ i \in 0..TMP_LENGTH /\ i < TMP_LENGTH
  BY DEF WindowInv, WindowTypeOK, Slots
<1>5. WindowTypeOK'
  BY <1>1, <1>3, <1>4 DEF WindowInv, WindowTypeOK
<1>6. FirstFreeIsExact'
  <2>1. \A j \in Slots : j < f => entries[j] # None
    BY DEF WindowInv, FirstFreeIsExact
  <2>2. f < TMP_LENGTH => f \in Slots /\ entries[f] = None
    BY <1>4 DEF WindowInv, FirstFreeIsExact, Slots
  <2>3. CASE i < f
    <3>1. \A j \in Slots : j < i => j < f /\ j # i
      BY <1>4, <2>3 DEF Slots
    <3> QED  BY <1>1, <1>3, <2>1, <2>3, <3>1 DEF FirstFreeIsExact
  <2>4. CASE ~(i < f)
    <3>1. \A j \in Slots : j < f => j # i
      BY <2>4
    <3> QED  BY <1>1, <1>3, <2>1, <2>2, <2>4, <3>1 DEF FirstFreeIsExact
  <2> QED  BY <2>3, <2>4
<1>7. WalksSeeTheirTables'
  <2>1. \A c \in cached' : c[2] = view'[c[1]]
    <3> SUFFICES ASSUME NEW c \in cached, c[1] # i PROVE c[2] = view'[c[1]]
      BY <1>1
    <3>1. c[1] \in Slots /\ c[2] = view[c[1]]
      BY DEF WindowInv, WindowTypeOK, WalksSeeTheirTables
    <3> QED  BY <1>3, <3>1
  <2>2. \A j \in Slots : view'[j] # None => entries'[j] = view'[j]
    BY <1>3 DEF WindowInv, WalksSeeTheirTables
  <2>3. entries'[SelfIndex] = Self
    BY <1>2, <1>3 DEF WindowInv, WalksSeeTheirTables
  <2> QED  BY <2>1, <2>2, <2>3 DEF WalksSeeTheirTables
<1>8. view'[SelfIndex] = None /\ CachedIsOpen'
  BY <1>1, <1>2, <1>3 DEF WindowInv, CachedIsOpen
<1> QED  BY <1>3, <1>5, <1>6, <1>7, <1>8 DEF WindowInv, SelfIndex

(* What every step keeps, and what it may do to an open page.              *)
WindowStep == \A i \in Slots : view[i] # None => view'[i] \in {view[i], None}
LEMMA StepWindow == WindowInv /\ [WindowNext]_windowVars => WindowInv' /\ WindowStep
<1> SUFFICES ASSUME WindowInv, [WindowNext]_windowVars PROVE WindowInv' /\ WindowStep
  OBVIOUS
<1>1. CASE UNCHANGED windowVars
  <2>1. /\ entries' = entries /\ first_free_tmp_index' = first_free_tmp_index
        /\ cached' = cached /\ view' = view /\ full' = full
    BY <1>1 DEF windowVars
  <2> QED
    BY <2>1 DEF WindowInv, WindowTypeOK, FirstFreeIsExact, WalksSeeTheirTables, CachedIsOpen,
                SelfIndex, WindowStep
<1>2. CASE \E frame \in Frames : map_page_tmp(frame)
  BY <1>2, MapWindow DEF WindowStep
<1>3. CASE \E i \in Slots : Look(i)
  BY <1>3, LookWindow DEF WindowStep
<1>4. CASE \E i \in Slots : unmap_page_tmp(i)
  BY <1>4, UnmapWindow DEF WindowStep
<1> QED  BY <1>1, <1>2, <1>3, <1>4 DEF WindowNext

(* The invariant of the window.                                            *)
THEOREM WindowInvariance == WindowSpec => []WindowInv
BY InitWindow, StepWindow, PTL DEF WindowSpec

(* first_free_tmp_index is the lowest free page, or the end of the window. *)
THEOREM FirstFreeCorrect == WindowSpec => []FirstFreeIsExact
<1>1. WindowInv => FirstFreeIsExact
  BY DEF WindowInv
<1> QED  BY <1>1, WindowInvariance, PTL

(* A walk sees the table that it opened.                                   *)
THEOREM WalksCorrect == WindowSpec => []WalksSeeTheirTables
<1>1. WindowInv => WalksSeeTheirTables
  BY DEF WindowInv
<1> QED  BY <1>1, WindowInvariance, PTL

(* map_page_tmp never takes a page from a walk.                            *)
THEOREM TakenOnce == WindowSpec => NeverTakenTwice
<1>1. WindowInv /\ [WindowNext]_windowVars =>
        [\A i \in Slots : view[i] # None => view'[i] \in {view[i], None}]_windowVars
  BY StepWindow DEF WindowStep
<1> QED  BY <1>1, WindowInvariance, PTL DEF WindowSpec, NeverTakenTwice
=============================================================================
