---------------------------- MODULE Circuit_proofs ----------------------------
(***************************************************************************)
(* Proofs about Circuit: for all operations, qubits, keys and bounds, no   *)
(* sequence of edits leaves a stale cache or puts an operation twice, and  *)
(* in every circuit they lead to insert(), append(), the constructor and   *)
(* insert_at_frontier() do what Circuit's properties say.                  *)
(*                                                                         *)
(* The loops of Insertion are functions of the number of turns.  The first *)
(* part shows once that what every turn keeps holds in the end; a loop of  *)
(* the code then needs an invariant and a lemma about one turn.  The parts *)
(* after it follow an operation's place At(ms, x) through a growing        *)
(* circuit, for the strategies in turn, then for the cache and the         *)
(* constructor, and for the other edits.                                   *)
(***************************************************************************)
EXTENDS Circuit, SequenceTheorems, WellFoundedInduction, NaturalsInduction, TLAPS

----------------------------------------------------------------------------
(* Loops *)

\* A set of naturals that is not empty has a least element.
LEMMA LeastElement ==
    ASSUME NEW S \in SUBSET Nat, S # {}
    PROVE  \E m \in S : \A y \in S : m <= y
<1>. DEFINE R == OpToRel(<, Nat)
<1>1. PICK m \in S : \A y \in S : <<y, m>> \notin R
  BY NatLessThanWellFounded, WFMin
<1>2. \A y \in S : ~(y < m)
  BY <1>1 DEF OpToRel
<1>. QED
  BY <1>2

\* What holds before the first turn and is kept by every turn holds throughout.
LEMMA TurnInduction ==
    ASSUME NEW N \in Nat, NEW Good, 0 \in Good, \A n \in 1..N : n - 1 \in Good => n \in Good
    PROVE  0..N \subseteq Good
<1>. DEFINE Bad == {n \in 0..N : n \notin Good}
<1>. SUFFICES ASSUME Bad # {} PROVE FALSE
  OBVIOUS
<1>. Bad \in SUBSET Nat
  OBVIOUS
<1>1. PICK m \in Bad : \A y \in Bad : m <= y
  BY LeastElement
<1>2. m \in 0..N /\ m \notin Good /\ m # 0 /\ m - 1 \in 0..N /\ ~(m <= m - 1) /\ m \in 1..N
  BY <1>1
<1>3. m - 1 \in Good
  BY <1>1, <1>2
<1>. QED
  BY <1>2, <1>3

\* The same for the states of a loop.
LEMMA StatesStay ==
    ASSUME NEW N \in Nat, NEW f, NEW Good, f[0] \in Good[0],
           \A n \in 1..N : f[n - 1] \in Good[n - 1] => f[n] \in Good[n]
    PROVE  \A n \in 0..N : f[n] \in Good[n]
<1>. DEFINE S == {n \in 0..N : f[n] \in Good[n]}
<1>1. 0 \in S
  OBVIOUS
<1>2. \A n \in 1..N : n - 1 \in S => n \in S
  OBVIOUS
<1>3. 0..N \subseteq S
  <2>. HIDE DEF S
  <2>. QED
    BY <1>1, <1>2, TurnInduction
<1>. QED
  BY <1>3

\* g[n] is the state after turn n of a loop with the body F, and it is good.
IsRun(g, N, x0, F, Good) ==
    /\ g = [n \in 0..N |-> IF n = 0 THEN x0 ELSE F[n][g[n - 1]]]
    /\ \A n \in 0..N : g[n] \in Good[n]

\* A loop whose body is F[n] in turn n, on states that are good before it, has a state
\* after every turn, and it is good.
LEMMA LoopExists ==
    ASSUME NEW N \in Nat, NEW Good, NEW x0 \in Good[0], NEW F,
           \A n \in 1..N : \A c \in Good[n - 1] : F[n][c] \in Good[n]
    PROVE  \E g : IsRun(g, N, x0, F, Good)
<1>. DEFINE Runs(g, n) == /\ g = [k \in 0..n |-> IF k = 0 THEN x0 ELSE F[k][g[k - 1]]]
                          /\ \A k \in 0..n : g[k] \in Good[k]
            S == {n \in 0..N : \E g : Runs(g, n)}
<1>1. 0 \in S
  <2>1. Runs([k \in 0..0 |-> x0], 0)
    OBVIOUS
  <2>2. 0 \in 0..N
    OBVIOUS
  <2>. HIDE DEF Runs
  <2>. QED
    BY <2>1, <2>2
<1>2. ASSUME NEW n \in 1..N, n - 1 \in S PROVE n \in S
  <2>1. PICK m : m = n - 1
    OBVIOUS
  <2>2. PICK g : Runs(g, m)
    <3>1. m \in S
      BY <1>2, <2>1
    <3>. HIDE DEF Runs
    <3>. QED
      BY <3>1
  <2>3. m \in 0..N /\ n = m + 1 /\ m \in 0..m /\ g[m] \in Good[m]
    BY <2>1, <2>2
  <2>4. F[n][g[m]] \in Good[n]
    BY <2>1, <2>3
  <2>5. PICK h : h = [k \in 0..n |-> IF k = n THEN F[n][g[m]] ELSE g[k]]
    OBVIOUS
  <2>6. \A k \in 0..n : k = n \/ (k \in 0..m /\ k # n)
    BY <2>3
  <2>7. \A k \in 0..n : h[k] \in Good[k]
    BY <2>2, <2>4, <2>5, <2>6
  <2>8. ASSUME NEW k \in 0..n PROVE h[k] = IF k = 0 THEN x0 ELSE F[k][h[k - 1]]
    <3>1. CASE k = n
      <4>1. k # 0 /\ k - 1 = m /\ m \in 0..n /\ m # n
        BY <2>1, <2>3, <3>1
      <4>2. h[k - 1] = g[m] /\ h[k] = F[n][g[m]]
        BY <2>5, <3>1, <4>1
      <4>. QED
        BY <3>1, <4>1, <4>2
    <3>2. CASE k # n
      <4>1. k \in 0..m /\ h[k] = g[k]
        BY <2>5, <2>6, <3>2
      <4>2. CASE k = 0
        BY <2>2, <4>1, <4>2
      <4>3. CASE k # 0
        <5>1. PICK j : j = k - 1
          OBVIOUS
        <5>2. j \in 0..n /\ j # n
          BY <2>3, <4>1, <4>3, <5>1
        <5>3. h[j] = g[j]
          BY <2>5, <5>2
        <5>4. g[k] = F[k][g[j]]
          BY <2>2, <4>1, <4>3, <5>1
        <5>. QED
          BY <4>1, <4>3, <5>1, <5>3, <5>4
      <4>. QED
        BY <4>2, <4>3
    <3>. QED
      BY <3>1, <3>2
  <2>9. h = [k \in 0..n |-> IF k = 0 THEN x0 ELSE F[k][h[k - 1]]]
    BY <2>5, <2>8
  <2>10. Runs(h, n)
    BY <2>7, <2>9
  <2>. HIDE DEF Runs
  <2>. QED
    BY <2>10
<1>3. N \in S
  <2>1. N \in 0..N
    OBVIOUS
  <2>. HIDE DEF S
  <2>. QED
    BY <1>1, <1>2, <2>1, TurnInduction
<1>4. \E g : Runs(g, N)
  <2>. HIDE DEF Runs
  <2>. QED
    BY <1>3
<1>. QED
  BY <1>4 DEF IsRun

\* The turns of _group_into_moment_compatible().
LEMMA GroupLoop ==
    ASSUME NEW es, Len(es) \in Nat, NEW Good, <<>> \in Good[0],
           \A n \in 1..Len(es) : \A d \in Good[n - 1] : AddToBatches(d, es[n]) \in Good[n]
    PROVE  Group(es) \in Good[Len(es)]
<1>. DEFINE Def(f) == f = [n \in 0..Len(es) |-> IF n = 0 THEN <<>> ELSE AddToBatches(f[n - 1], es[n])]
<1>1. PICK F : F = [n \in 1..Len(es) |-> [d \in Good[n - 1] |-> AddToBatches(d, es[n])]]
  OBVIOUS
<1>2. \A n \in 1..Len(es) : \A d \in Good[n - 1] : F[n][d] = AddToBatches(d, es[n])
  BY <1>1
<1>3. PICK g : IsRun(g, Len(es), <<>>, F, Good)
  <2>1. \A n \in 1..Len(es) : \A d \in Good[n - 1] : F[n][d] \in Good[n]
    BY <1>2
  <2>. QED
    BY <2>1, LoopExists
<1>4. Def(g)
  <2>1. \A n \in 0..Len(es) : n # 0 => n \in 1..Len(es) /\ n - 1 \in 0..Len(es)
    OBVIOUS
  <2>2. \A n \in 0..Len(es) : n # 0 => F[n][g[n - 1]] = AddToBatches(g[n - 1], es[n])
    BY <1>2, <1>3, <2>1 DEF IsRun
  <2>. QED
    BY <1>3, <2>2 DEF IsRun
<1>5. PICK f : f = CHOOSE h : Def(h)
  OBVIOUS
<1>6. Def(f)
  <2>. HIDE DEF Def
  <2>. QED
    BY <1>4, <1>5
<1>7. Group(es) = f[Len(es)]
  BY <1>5 DEF Group
<1>8. f[0] = <<>> /\ \A n \in 1..Len(es) : f[n] = AddToBatches(f[n - 1], es[n])
  <2>1. 0 \in 0..Len(es) /\ \A n \in 1..Len(es) : n \in 0..Len(es) /\ n # 0
    OBVIOUS
  <2>. QED
    BY <1>6, <2>1
<1>9. \A n \in 0..Len(es) : f[n] \in Good[n]
  BY <1>8, StatesStay
<1>. QED
  BY <1>7, <1>8, <1>9

\* g holds the states of the inner loop, all of them good.
ElementsRun(g, c, b, Good) ==
    /\ g[0] = c
    /\ \A n \in 1..Len(b) : g[n] = InsertElement(g[n - 1], b[n])
    /\ \A n \in 0..Len(b) : g[n] \in Good[n]
    /\ InsertElements(c, b) = g[Len(b)]

\* The turns of the inner loop of insert().
LEMMA ElementsLoop ==
    ASSUME NEW c, NEW b, Len(b) \in Nat, NEW Good, c \in Good[0],
           \A n \in 1..Len(b) : \A d \in Good[n - 1] : InsertElement(d, b[n]) \in Good[n]
    PROVE  \E g : ElementsRun(g, c, b, Good)
<1>. DEFINE Def(f) == f = [n \in 0..Len(b) |-> IF n = 0 THEN c ELSE InsertElement(f[n - 1], b[n])]
<1>1. PICK F : F = [n \in 1..Len(b) |-> [d \in Good[n - 1] |-> InsertElement(d, b[n])]]
  OBVIOUS
<1>2. \A n \in 1..Len(b) : \A d \in Good[n - 1] : F[n][d] = InsertElement(d, b[n])
  BY <1>1
<1>3. PICK g : IsRun(g, Len(b), c, F, Good)
  <2>1. \A n \in 1..Len(b) : \A d \in Good[n - 1] : F[n][d] \in Good[n]
    BY <1>2
  <2>. QED
    BY <2>1, LoopExists
<1>4. Def(g)
  <2>1. \A n \in 0..Len(b) : n # 0 => n \in 1..Len(b) /\ n - 1 \in 0..Len(b)
    OBVIOUS
  <2>2. \A n \in 0..Len(b) : n # 0 => F[n][g[n - 1]] = InsertElement(g[n - 1], b[n])
    BY <1>2, <1>3, <2>1 DEF IsRun
  <2>. QED
    BY <1>3, <2>2 DEF IsRun
<1>5. PICK f : f = CHOOSE h : Def(h)
  OBVIOUS
<1>6. Def(f)
  <2>. HIDE DEF Def
  <2>. QED
    BY <1>4, <1>5
<1>7. InsertElements(c, b) = f[Len(b)]
  BY <1>5 DEF InsertElements
<1>8. f[0] = c /\ \A n \in 1..Len(b) : f[n] = InsertElement(f[n - 1], b[n])
  <2>1. 0 \in 0..Len(b) /\ \A n \in 1..Len(b) : n \in 0..Len(b) /\ n # 0
    OBVIOUS
  <2>. QED
    BY <1>6, <2>1
<1>9. \A n \in 0..Len(b) : f[n] \in Good[n]
  BY <1>8, StatesStay
<1>. QED
  BY <1>7, <1>8, <1>9 DEF ElementsRun

\* What holds after every turn holds in the end.
LEMMA ElementsStay ==
    ASSUME NEW c, NEW b, NEW N \in Nat, Len(b) = N, NEW Good, c \in Good[0],
           \A n \in 1..N : \A d \in Good[n - 1] : InsertElement(d, b[n]) \in Good[n]
    PROVE  InsertElements(c, b) \in Good[N]
<1>1. PICK g : ElementsRun(g, c, b, Good)
  BY ElementsLoop
<1>. QED
  BY <1>1 DEF ElementsRun

\* The turns of the outer loop of insert().
LEMMA BatchesLoop ==
    ASSUME NEW c, NEW bs, Len(bs) \in Nat, NEW Good, c \in Good[0],
           \A n \in 1..Len(bs) : \A d \in Good[n - 1] : InsertBatch(d, bs[n]) \in Good[n]
    PROVE  InsertAll(c, bs) \in Good[Len(bs)]
<1>. DEFINE Def(f) == f = [n \in 0..Len(bs) |-> IF n = 0 THEN c ELSE InsertBatch(f[n - 1], bs[n])]
<1>1. PICK F : F = [n \in 1..Len(bs) |-> [d \in Good[n - 1] |-> InsertBatch(d, bs[n])]]
  OBVIOUS
<1>2. \A n \in 1..Len(bs) : \A d \in Good[n - 1] : F[n][d] = InsertBatch(d, bs[n])
  BY <1>1
<1>3. PICK g : IsRun(g, Len(bs), c, F, Good)
  <2>1. \A n \in 1..Len(bs) : \A d \in Good[n - 1] : F[n][d] \in Good[n]
    BY <1>2
  <2>. QED
    BY <2>1, LoopExists
<1>4. Def(g)
  <2>1. \A n \in 0..Len(bs) : n # 0 => n \in 1..Len(bs) /\ n - 1 \in 0..Len(bs)
    OBVIOUS
  <2>2. \A n \in 0..Len(bs) : n # 0 => F[n][g[n - 1]] = InsertBatch(g[n - 1], bs[n])
    BY <1>2, <1>3, <2>1 DEF IsRun
  <2>. QED
    BY <1>3, <2>2 DEF IsRun
<1>5. PICK f : f = CHOOSE h : Def(h)
  OBVIOUS
<1>6. Def(f)
  <2>. HIDE DEF Def
  <2>. QED
    BY <1>4, <1>5
<1>7. InsertAll(c, bs) = f[Len(bs)]
  BY <1>5 DEF InsertAll
<1>8. f[0] = c /\ \A n \in 1..Len(bs) : f[n] = InsertBatch(f[n - 1], bs[n])
  <2>1. 0 \in 0..Len(bs) /\ \A n \in 1..Len(bs) : n \in 0..Len(bs) /\ n # 0
    OBVIOUS
  <2>. QED
    BY <1>6, <2>1
<1>9. \A n \in 0..Len(bs) : f[n] \in Good[n]
  BY <1>8, StatesStay
<1>. QED
  BY <1>7, <1>8, <1>9

\* The turns of the inner loop of _insert_latest().
LEMMA LatestElementsLoop ==
    ASSUME NEW c, NEW b, Len(b) \in Nat, NEW Good, c \in Good[0],
           \A n \in 1..Len(b) : \A d \in Good[n - 1] : InsertLatest(d, b[n]) \in Good[n]
    PROVE  InsertBatchLatest(c, b) \in Good[Len(b)]
<1>. DEFINE Def(f) == f = [n \in 0..Len(b) |-> IF n = 0 THEN c ELSE InsertLatest(f[n - 1], b[n])]
<1>1. PICK F : F = [n \in 1..Len(b) |-> [d \in Good[n - 1] |-> InsertLatest(d, b[n])]]
  OBVIOUS
<1>2. \A n \in 1..Len(b) : \A d \in Good[n - 1] : F[n][d] = InsertLatest(d, b[n])
  BY <1>1
<1>3. PICK g : IsRun(g, Len(b), c, F, Good)
  <2>1. \A n \in 1..Len(b) : \A d \in Good[n - 1] : F[n][d] \in Good[n]
    BY <1>2
  <2>. QED
    BY <2>1, LoopExists
<1>4. Def(g)
  <2>1. \A n \in 0..Len(b) : n # 0 => n \in 1..Len(b) /\ n - 1 \in 0..Len(b)
    OBVIOUS
  <2>2. \A n \in 0..Len(b) : n # 0 => F[n][g[n - 1]] = InsertLatest(g[n - 1], b[n])
    BY <1>2, <1>3, <2>1 DEF IsRun
  <2>. QED
    BY <1>3, <2>2 DEF IsRun
<1>5. PICK f : f = CHOOSE h : Def(h)
  OBVIOUS
<1>6. Def(f)
  <2>. HIDE DEF Def
  <2>. QED
    BY <1>4, <1>5
<1>7. InsertBatchLatest(c, b) = f[Len(b)]
  BY <1>5 DEF InsertBatchLatest
<1>8. f[0] = c /\ \A n \in 1..Len(b) : f[n] = InsertLatest(f[n - 1], b[n])
  <2>1. 0 \in 0..Len(b) /\ \A n \in 1..Len(b) : n \in 0..Len(b) /\ n # 0
    OBVIOUS
  <2>. QED
    BY <1>6, <2>1
<1>9. \A n \in 0..Len(b) : f[n] \in Good[n]
  BY <1>8, StatesStay
<1>. QED
  BY <1>7, <1>8, <1>9

\* The turns of the outer loop of _insert_latest().
LEMMA LatestBatchesLoop ==
    ASSUME NEW c, NEW bs, Len(bs) \in Nat, NEW Good, c \in Good[0],
           \A n \in 1..Len(bs) : \A d \in Good[n - 1] : InsertBatchLatest(d, bs[Len(bs) - n + 1]) \in Good[n]
    PROVE  InsertAllLatest(c, bs) \in Good[Len(bs)]
<1>. DEFINE Def(f) == f = [n \in 0..Len(bs) |-> IF n = 0 THEN c ELSE InsertBatchLatest(f[n - 1], bs[Len(bs) - n + 1])]
<1>1. PICK F : F = [n \in 1..Len(bs) |-> [d \in Good[n - 1] |-> InsertBatchLatest(d, bs[Len(bs) - n + 1])]]
  OBVIOUS
<1>2. \A n \in 1..Len(bs) : \A d \in Good[n - 1] : F[n][d] = InsertBatchLatest(d, bs[Len(bs) - n + 1])
  BY <1>1
<1>3. PICK g : IsRun(g, Len(bs), c, F, Good)
  <2>1. \A n \in 1..Len(bs) : \A d \in Good[n - 1] : F[n][d] \in Good[n]
    BY <1>2
  <2>. QED
    BY <2>1, LoopExists
<1>4. Def(g)
  <2>1. \A n \in 0..Len(bs) : n # 0 => n \in 1..Len(bs) /\ n - 1 \in 0..Len(bs)
    OBVIOUS
  <2>2. \A n \in 0..Len(bs) : n # 0 => F[n][g[n - 1]] = InsertBatchLatest(g[n - 1], bs[Len(bs) - n + 1])
    BY <1>2, <1>3, <2>1 DEF IsRun
  <2>. QED
    BY <1>3, <2>2 DEF IsRun
<1>5. PICK f : f = CHOOSE h : Def(h)
  OBVIOUS
<1>6. Def(f)
  <2>. HIDE DEF Def
  <2>. QED
    BY <1>4, <1>5
<1>7. InsertAllLatest(c, bs) = f[Len(bs)]
  BY <1>5 DEF InsertAllLatest
<1>8. f[0] = c /\ \A n \in 1..Len(bs) : f[n] = InsertBatchLatest(f[n - 1], bs[Len(bs) - n + 1])
  <2>1. 0 \in 0..Len(bs) /\ \A n \in 1..Len(bs) : n \in 0..Len(bs) /\ n # 0
    OBVIOUS
  <2>. QED
    BY <1>6, <2>1
<1>9. \A n \in 0..Len(bs) : f[n] \in Good[n]
  BY <1>8, StatesStay
<1>. QED
  BY <1>7, <1>8, <1>9

\* g holds the states of the search for places, all of them good.
PlacesRun(g, es, Good) ==
    /\ g[0] = [cache |-> EmptyCache, at |-> <<>>]
    /\ \A n \in 1..Len(es) : g[n] = FindPlace(g[n - 1], es[n])
    /\ \A n \in 0..Len(es) : g[n] \in Good[n]
    /\ Places(es) = g[Len(es)]

\* The turns of _load_contents_with_earliest_strategy().
LEMMA PlacesLoop ==
    ASSUME NEW es, Len(es) \in Nat, NEW Good, [cache |-> EmptyCache, at |-> <<>>] \in Good[0],
           \A n \in 1..Len(es) : \A d \in Good[n - 1] : FindPlace(d, es[n]) \in Good[n]
    PROVE  \E g : PlacesRun(g, es, Good)
<1>. DEFINE Def(f) == f = [n \in 0..Len(es) |-> IF n = 0 THEN [cache |-> EmptyCache, at |-> <<>>] ELSE FindPlace(f[n - 1], es[n])]
<1>1. PICK F : F = [n \in 1..Len(es) |-> [d \in Good[n - 1] |-> FindPlace(d, es[n])]]
  OBVIOUS
<1>2. \A n \in 1..Len(es) : \A d \in Good[n - 1] : F[n][d] = FindPlace(d, es[n])
  BY <1>1
<1>3. PICK g : IsRun(g, Len(es), [cache |-> EmptyCache, at |-> <<>>], F, Good)
  <2>1. \A n \in 1..Len(es) : \A d \in Good[n - 1] : F[n][d] \in Good[n]
    BY <1>2
  <2>. QED
    BY <2>1, LoopExists
<1>4. Def(g)
  <2>1. \A n \in 0..Len(es) : n # 0 => n \in 1..Len(es) /\ n - 1 \in 0..Len(es)
    OBVIOUS
  <2>2. \A n \in 0..Len(es) : n # 0 => F[n][g[n - 1]] = FindPlace(g[n - 1], es[n])
    BY <1>2, <1>3, <2>1 DEF IsRun
  <2>. QED
    BY <1>3, <2>2 DEF IsRun
<1>5. PICK f : f = CHOOSE h : Def(h)
  OBVIOUS
<1>6. Def(f)
  <2>. HIDE DEF Def
  <2>. QED
    BY <1>4, <1>5
<1>7. Places(es) = f[Len(es)]
  BY <1>5 DEF Places
<1>8. f[0] = [cache |-> EmptyCache, at |-> <<>>] /\ \A n \in 1..Len(es) : f[n] = FindPlace(f[n - 1], es[n])
  <2>1. 0 \in 0..Len(es) /\ \A n \in 1..Len(es) : n \in 0..Len(es) /\ n # 0
    OBVIOUS
  <2>. QED
    BY <1>6, <2>1
<1>9. \A n \in 0..Len(es) : f[n] \in Good[n]
  BY <1>8, StatesStay
<1>. QED
  BY <1>7, <1>8, <1>9 DEF PlacesRun

\* The turns of the forward pass of insert_into_range().
LEMMA FillLoop ==
    ASSUME NEW ms, NEW xs, NEW start, NEW end, Len(xs) \in Nat, NEW Good, [ms |-> ms, k |-> start, rest |-> <<>>] \in Good[0],
           \A n \in 1..Len(xs) : \A d \in Good[n - 1] : FillNext(d, xs[n], end) \in Good[n]
    PROVE  FillRange(ms, xs, start, end) \in Good[Len(xs)]
<1>. DEFINE Def(f) == f = [n \in 0..Len(xs) |-> IF n = 0 THEN [ms |-> ms, k |-> start, rest |-> <<>>] ELSE FillNext(f[n - 1], xs[n], end)]
<1>1. PICK F : F = [n \in 1..Len(xs) |-> [d \in Good[n - 1] |-> FillNext(d, xs[n], end)]]
  OBVIOUS
<1>2. \A n \in 1..Len(xs) : \A d \in Good[n - 1] : F[n][d] = FillNext(d, xs[n], end)
  BY <1>1
<1>3. PICK g : IsRun(g, Len(xs), [ms |-> ms, k |-> start, rest |-> <<>>], F, Good)
  <2>1. \A n \in 1..Len(xs) : \A d \in Good[n - 1] : F[n][d] \in Good[n]
    BY <1>2
  <2>. QED
    BY <2>1, LoopExists
<1>4. Def(g)
  <2>1. \A n \in 0..Len(xs) : n # 0 => n \in 1..Len(xs) /\ n - 1 \in 0..Len(xs)
    OBVIOUS
  <2>2. \A n \in 0..Len(xs) : n # 0 => F[n][g[n - 1]] = FillNext(g[n - 1], xs[n], end)
    BY <1>2, <1>3, <2>1 DEF IsRun
  <2>. QED
    BY <1>3, <2>2 DEF IsRun
<1>5. PICK f : f = CHOOSE h : Def(h)
  OBVIOUS
<1>6. Def(f)
  <2>. HIDE DEF Def
  <2>. QED
    BY <1>4, <1>5
<1>7. FillRange(ms, xs, start, end) = f[Len(xs)]
  BY <1>5 DEF FillRange
<1>8. f[0] = [ms |-> ms, k |-> start, rest |-> <<>>] /\ \A n \in 1..Len(xs) : f[n] = FillNext(f[n - 1], xs[n], end)
  <2>1. 0 \in 0..Len(xs) /\ \A n \in 1..Len(xs) : n \in 0..Len(xs) /\ n # 0
    OBVIOUS
  <2>. QED
    BY <1>6, <2>1
<1>9. \A n \in 0..Len(xs) : f[n] \in Good[n]
  BY <1>8, StatesStay
<1>. QED
  BY <1>7, <1>8, <1>9

\* The turns of _pick_inserted_ops_moment_indices().
LEMMA PickLoop ==
    ASSUME NEW xs, NEW start, NEW frontier, Len(xs) \in Nat, NEW Good, [at |-> <<>>, frontier |-> frontier] \in Good[0],
           \A n \in 1..Len(xs) : \A d \in Good[n - 1] : PickIndex(d, xs[n], start) \in Good[n]
    PROVE  PickIndices(xs, start, frontier) \in Good[Len(xs)]
<1>. DEFINE Def(f) == f = [n \in 0..Len(xs) |-> IF n = 0 THEN [at |-> <<>>, frontier |-> frontier] ELSE PickIndex(f[n - 1], xs[n], start)]
<1>1. PICK F : F = [n \in 1..Len(xs) |-> [d \in Good[n - 1] |-> PickIndex(d, xs[n], start)]]
  OBVIOUS
<1>2. \A n \in 1..Len(xs) : \A d \in Good[n - 1] : F[n][d] = PickIndex(d, xs[n], start)
  BY <1>1
<1>3. PICK g : IsRun(g, Len(xs), [at |-> <<>>, frontier |-> frontier], F, Good)
  <2>1. \A n \in 1..Len(xs) : \A d \in Good[n - 1] : F[n][d] \in Good[n]
    BY <1>2
  <2>. QED
    BY <2>1, LoopExists
<1>4. Def(g)
  <2>1. \A n \in 0..Len(xs) : n # 0 => n \in 1..Len(xs) /\ n - 1 \in 0..Len(xs)
    OBVIOUS
  <2>2. \A n \in 0..Len(xs) : n # 0 => F[n][g[n - 1]] = PickIndex(g[n - 1], xs[n], start)
    BY <1>2, <1>3, <2>1 DEF IsRun
  <2>. QED
    BY <1>3, <2>2 DEF IsRun
<1>5. PICK f : f = CHOOSE h : Def(h)
  OBVIOUS
<1>6. Def(f)
  <2>. HIDE DEF Def
  <2>. QED
    BY <1>4, <1>5
<1>7. PickIndices(xs, start, frontier) = f[Len(xs)]
  BY <1>5 DEF PickIndices
<1>8. f[0] = [at |-> <<>>, frontier |-> frontier] /\ \A n \in 1..Len(xs) : f[n] = PickIndex(f[n - 1], xs[n], start)
  <2>1. 0 \in 0..Len(xs) /\ \A n \in 1..Len(xs) : n \in 0..Len(xs) /\ n # 0
    OBVIOUS
  <2>. QED
    BY <1>6, <2>1
<1>9. \A n \in 0..Len(xs) : f[n] \in Good[n]
  BY <1>8, StatesStay
<1>. QED
  BY <1>7, <1>8, <1>9

\* The circuit with the moments _insert_operations() appends.
Lengthened(ms, at) == Start(ms \o Empties(1 + Max(ToSet(at)) - Len(ms)), 0, "INLINE", NoCache)

\* The turns of _insert_operations().
LEMMA OperationsLoop ==
    ASSUME NEW ms, NEW xs, NEW at, Len(xs) \in Nat, NEW Good, Lengthened(ms, at) \in Good[0],
           \A n \in 1..Len(xs) : \A d \in Good[n - 1] : Put(d, at[n] + 1, xs[n]) \in Good[n]
    PROVE  InsertOperations(ms, xs, at) \in Good[Len(xs)]
<1>. DEFINE Def(f) == f = [n \in 0..Len(xs) |-> IF n = 0 THEN Lengthened(ms, at) ELSE Put(f[n - 1], at[n] + 1, xs[n])]
<1>1. PICK F : F = [n \in 1..Len(xs) |-> [d \in Good[n - 1] |-> Put(d, at[n] + 1, xs[n])]]
  OBVIOUS
<1>2. \A n \in 1..Len(xs) : \A d \in Good[n - 1] : F[n][d] = Put(d, at[n] + 1, xs[n])
  BY <1>1
<1>3. PICK g : IsRun(g, Len(xs), Lengthened(ms, at), F, Good)
  <2>1. \A n \in 1..Len(xs) : \A d \in Good[n - 1] : F[n][d] \in Good[n]
    BY <1>2
  <2>. QED
    BY <2>1, LoopExists
<1>4. Def(g)
  <2>1. \A n \in 0..Len(xs) : n # 0 => n \in 1..Len(xs) /\ n - 1 \in 0..Len(xs)
    OBVIOUS
  <2>2. \A n \in 0..Len(xs) : n # 0 => F[n][g[n - 1]] = Put(g[n - 1], at[n] + 1, xs[n])
    BY <1>2, <1>3, <2>1 DEF IsRun
  <2>. QED
    BY <1>3, <2>2 DEF IsRun
<1>5. PICK f : f = CHOOSE h : Def(h)
  OBVIOUS
<1>6. Def(f)
  <2>. HIDE DEF Def
  <2>. QED
    BY <1>4, <1>5
<1>7. InsertOperations(ms, xs, at) = f[Len(xs)]
  BY <1>5 DEF InsertOperations, Lengthened
<1>8. f[0] = Lengthened(ms, at) /\ \A n \in 1..Len(xs) : f[n] = Put(f[n - 1], at[n] + 1, xs[n])
  <2>1. 0 \in 0..Len(xs) /\ \A n \in 1..Len(xs) : n \in 0..Len(xs) /\ n # 0
    OBVIOUS
  <2>. QED
    BY <1>6, <2>1
<1>9. \A n \in 0..Len(xs) : f[n] \in Good[n]
  BY <1>8, StatesStay
<1>. QED
  BY <1>7, <1>8, <1>9

\* The turns of batch_insert().
LEMMA ShiftedLoop ==
    ASSUME NEW ms, NEW ins, Len(ins) \in Nat, NEW Good, [ms |-> ms, raised |-> FALSE, shift |-> 0] \in Good[0],
           \A n \in 1..Len(ins) : \A d \in Good[n - 1] : InsertShifted(d, ins[n]) \in Good[n]
    PROVE  BatchInsert(ms, ins) \in Good[Len(ins)]
<1>. DEFINE Def(f) == f = [n \in 0..Len(ins) |-> IF n = 0 THEN [ms |-> ms, raised |-> FALSE, shift |-> 0] ELSE InsertShifted(f[n - 1], ins[n])]
<1>1. PICK F : F = [n \in 1..Len(ins) |-> [d \in Good[n - 1] |-> InsertShifted(d, ins[n])]]
  OBVIOUS
<1>2. \A n \in 1..Len(ins) : \A d \in Good[n - 1] : F[n][d] = InsertShifted(d, ins[n])
  BY <1>1
<1>3. PICK g : IsRun(g, Len(ins), [ms |-> ms, raised |-> FALSE, shift |-> 0], F, Good)
  <2>1. \A n \in 1..Len(ins) : \A d \in Good[n - 1] : F[n][d] \in Good[n]
    BY <1>2
  <2>. QED
    BY <2>1, LoopExists
<1>4. Def(g)
  <2>1. \A n \in 0..Len(ins) : n # 0 => n \in 1..Len(ins) /\ n - 1 \in 0..Len(ins)
    OBVIOUS
  <2>2. \A n \in 0..Len(ins) : n # 0 => F[n][g[n - 1]] = InsertShifted(g[n - 1], ins[n])
    BY <1>2, <1>3, <2>1 DEF IsRun
  <2>. QED
    BY <1>3, <2>2 DEF IsRun
<1>5. PICK f : f = CHOOSE h : Def(h)
  OBVIOUS
<1>6. Def(f)
  <2>. HIDE DEF Def
  <2>. QED
    BY <1>4, <1>5
<1>7. BatchInsert(ms, ins) = f[Len(ins)]
  BY <1>5 DEF BatchInsert
<1>8. f[0] = [ms |-> ms, raised |-> FALSE, shift |-> 0] /\ \A n \in 1..Len(ins) : f[n] = InsertShifted(f[n - 1], ins[n])
  <2>1. 0 \in 0..Len(ins) /\ \A n \in 1..Len(ins) : n \in 0..Len(ins) /\ n # 0
    OBVIOUS
  <2>. QED
    BY <1>6, <2>1
<1>9. \A n \in 0..Len(ins) : f[n] \in Good[n]
  BY <1>8, StatesStay
<1>. QED
  BY <1>7, <1>8, <1>9

----------------------------------------------------------------------------
(* Circuits *)

\* A circuit in which no operation occurs twice.
Circ(ms) == ms \in Seq(Moments) /\ \A i, j \in DOMAIN ms : i # j => ms[i] \cap ms[j] = {}

\* An operation of a circuit is in the one moment that At gives.
LEMMA AtFacts ==
    ASSUME NEW ms, Circ(ms)
    PROVE  /\ Len(ms) \in Nat /\ DOMAIN ms = 1..Len(ms)
           /\ \A x \in OpsIn(ms) : At(ms, x) \in 1..Len(ms) /\ x \in ms[At(ms, x)] /\ x \in Ops
           /\ \A n \in 1..Len(ms) : \A x \in ms[n] : x \in OpsIn(ms) /\ At(ms, x) = n
<1>1. Len(ms) \in Nat /\ DOMAIN ms = 1..Len(ms) /\ \A n \in 1..Len(ms) : ms[n] \in Moments
  BY DEF Circ
<1>2. \A x : x \in OpsIn(ms) <=> \E n \in DOMAIN ms : x \in ms[n]
  BY DEF OpsIn, ToSet
<1>3. ASSUME NEW x \in OpsIn(ms) PROVE At(ms, x) \in DOMAIN ms /\ x \in ms[At(ms, x)]
  BY <1>2 DEF At
<1>4. ASSUME NEW n \in DOMAIN ms, NEW x \in ms[n] PROVE x \in OpsIn(ms) /\ At(ms, x) = n
  <2>1. x \in OpsIn(ms)
    BY <1>2
  <2>2. At(ms, x) \in DOMAIN ms /\ x \in ms[At(ms, x)]
    BY <1>3, <2>1
  <2>. QED
    BY <2>1, <2>2 DEF Circ
<1>5. \A n \in 1..Len(ms) : ms[n] \subseteq Ops
  BY <1>1 DEF Moments
<1>. QED
  BY <1>1, <1>3, <1>4, <1>5

\* A moment blocks what clashes with one of its operations.
LEMMA BlocksClash ==
    ASSUME NEW m, NEW y
    PROVE  Blocks(m, y) <=> \E x \in m : Clash(x, y)
<1>1. \A x : /\ MomentQubits({x}) = QubitsOf[x] /\ MomentMKeys({x}) = MKeysOf[x]
             /\ MomentCKeys({x}) = CKeysOf[x]
  BY DEF MomentQubits, MomentMKeys, MomentCKeys
<1>2. \A x : Clash(x, y) <=> \/ QubitsOf[x] \cap QubitsOf[y] # {}
                             \/ MKeysOf[x] \cap (MKeysOf[y] \cup CKeysOf[y]) # {}
                             \/ CKeysOf[x] \cap MKeysOf[y] # {}
  BY <1>1 DEF Clash, Blocks, Overlaps
<1>3. MomentQubits(m) \cap QubitsOf[y] # {} <=> \E x \in m : QubitsOf[x] \cap QubitsOf[y] # {}
  BY DEF MomentQubits
<1>4. MomentMKeys(m) \cap (MKeysOf[y] \cup CKeysOf[y]) # {} <=>
         \E x \in m : MKeysOf[x] \cap (MKeysOf[y] \cup CKeysOf[y]) # {}
  BY DEF MomentMKeys
<1>5. MomentCKeys(m) \cap MKeysOf[y] # {} <=> \E x \in m : CKeysOf[x] \cap MKeysOf[y] # {}
  BY DEF MomentCKeys
<1>. QED
  BY <1>2, <1>3, <1>4, <1>5 DEF Blocks, Overlaps

\* What clashes does so both ways.
LEMMA ClashSymmetric ==
    ASSUME NEW x, NEW y, Clash(x, y)
    PROVE  Clash(y, x)
<1>1. \A z : /\ MomentQubits({z}) = QubitsOf[z] /\ MomentMKeys({z}) = MKeysOf[z]
             /\ MomentCKeys({z}) = CKeysOf[z]
  BY DEF MomentQubits, MomentMKeys, MomentCKeys
<1>. QED
  BY <1>1 DEF Clash, Blocks, Overlaps

\* The moment with number n blocks y.
LEMMA BlocksAt ==
    ASSUME NEW ms, Circ(ms), NEW n \in 1..Len(ms), NEW y
    PROVE  Blocks(ms[n], y) <=> \E x \in OpsIn(ms) : At(ms, x) = n /\ Clash(x, y)
BY AtFacts, BlocksClash

\* An operation joins a moment that does not overlap it.
LEMMA MomentWith ==
    ASSUME NEW m \in Moments, NEW x \in Ops, ~Overlaps(m, x)
    PROVE  m \cup {x} \in Moments
<1>1. \A y \in m : QubitsOf[y] \cap QubitsOf[x] = {}
  BY DEF Overlaps, MomentQubits
<1>. QED
  BY <1>1 DEF Moments, IsMoment

\* Single operations and no operations are moments.
LEMMA SmallMoments == {} \in Moments /\ \A x \in Ops : {x} \in Moments
BY DEF Moments, IsMoment

\* t is the circuit ms with the operations S in moment n, and what was after moment k
\* one moment later.
Grown(ms, t, S, n, k) ==
    /\ Circ(t) /\ OpsIn(t) = OpsIn(ms) \cup S
    /\ \A x \in S : At(t, x) = n
    /\ \A x \in OpsIn(ms) : At(t, x) = IF At(ms, x) > k THEN At(ms, x) + 1 ELSE At(ms, x)

\* What a moment that is inserted does to the places of the others.
LEMMA InsertAtElements ==
    ASSUME NEW T, NEW s \in Seq(T), NEW k \in 0..Len(s), NEW m \in T
    PROVE  /\ InsertAt(s, k + 1, m) \in Seq(T) /\ Len(InsertAt(s, k + 1, m)) = Len(s) + 1
           /\ \A i \in 1..(Len(s) + 1) : InsertAt(s, k + 1, m)[i] =
                 IF i <= k THEN s[i] ELSE IF i = k + 1 THEN m ELSE s[i - 1]
<1>1. PICK L, a, b : L = Len(s) /\ a = SubSeq(s, 1, k) /\ b = SubSeq(s, k + 1, L)
  OBVIOUS
<1>2. L \in Nat /\ k \in Nat /\ k <= L
  BY <1>1
<1>3. a \in Seq(T) /\ Len(a) = k /\ \A i \in 1..k : a[i] = s[i]
  BY <1>1, <1>2, SubSeqProperties
<1>4. b \in Seq(T) /\ Len(b) = L - k /\ \A i \in 1..(L - k) : b[i] = s[k + i]
  BY <1>1, <1>2, SubSeqProperties
<1>5. PICK c : c = a \o <<m>>
  OBVIOUS
<1>6. c \in Seq(T) /\ Len(c) = k + 1 /\ (\A i \in 1..k : c[i] = s[i]) /\ c[k + 1] = m
  <2>1. c = Append(a, m)
    BY <1>3, <1>5, AppendIsConcat
  <2>2. /\ Append(a, m) \in Seq(T) /\ Len(Append(a, m)) = Len(a) + 1
        /\ (\A i \in 1..Len(a) : Append(a, m)[i] = a[i]) /\ Append(a, m)[Len(a) + 1] = m
    BY <1>3, AppendProperties
  <2>. QED
    BY <1>2, <1>3, <2>1, <2>2
<1>7. PICK d : d = c \o b
  OBVIOUS
<1>8. d \in Seq(T) /\ Len(d) = L + 1
  <2>1. c \o b \in Seq(T) /\ Len(c \o b) = Len(c) + Len(b)
    BY <1>4, <1>6, ConcatProperties
  <2>. QED
    BY <1>2, <1>4, <1>6, <1>7, <2>1
<1>9. \A i \in 1..(L + 1) : d[i] = IF i <= k + 1 THEN c[i] ELSE b[i - (k + 1)]
  <2>1. \A i \in 1..(Len(c) + Len(b)) : (c \o b)[i] = IF i <= Len(c) THEN c[i] ELSE b[i - Len(c)]
    BY <1>4, <1>6, ConcatProperties
  <2>2. Len(c) + Len(b) = L + 1
    BY <1>2, <1>4, <1>6
  <2>. QED
    BY <1>6, <1>7, <2>1, <2>2
<1>10. ASSUME NEW i \in 1..(L + 1) PROVE d[i] = IF i <= k THEN s[i] ELSE IF i = k + 1 THEN m ELSE s[i - 1]
  <2>1. CASE i <= k + 1
    BY <1>2, <1>6, <1>9, <2>1
  <2>2. CASE ~(i <= k + 1)
    <3>1. PICK j : j = i - (k + 1)
      OBVIOUS
    <3>2. j \in 1..(L - k) /\ k + j = i - 1 /\ ~(i <= k) /\ i # k + 1
      BY <1>2, <2>2, <3>1
    <3>3. d[i] = b[j] /\ b[j] = s[i - 1]
      BY <1>4, <1>9, <2>2, <3>1, <3>2
    <3>. QED
      BY <3>2, <3>3
  <2>. QED
    BY <2>1, <2>2
<1>11. InsertAt(s, k + 1, m) = d
  <2>1. (k + 1) - 1 = k
    BY <1>2
  <2>. QED
    BY <1>1, <1>5, <1>7, <2>1 DEF InsertAt
<1>. QED
  BY <1>1, <1>8, <1>10, <1>11

\* A moment of new operations is inserted after moment k.
LEMMA InsertGrows ==
    ASSUME NEW ms, Circ(ms), NEW k \in 0..Len(ms), NEW m \in Moments, m \cap OpsIn(ms) = {}
    PROVE  /\ Grown(ms, InsertAt(ms, k + 1, m), m, k + 1, k)
           /\ Len(InsertAt(ms, k + 1, m)) = Len(ms) + 1
<1>1. PICK L, t : L = Len(ms) /\ t = InsertAt(ms, k + 1, m)
  OBVIOUS
<1>2. L \in Nat /\ DOMAIN ms = 1..L /\ k \in Nat /\ k <= L
  BY <1>1, AtFacts
<1>3. t \in Seq(Moments) /\ Len(t) = L + 1
  BY <1>1, InsertAtElements DEF Circ
<1>4. \A i \in 1..(L + 1) : t[i] = IF i <= k THEN ms[i] ELSE IF i = k + 1 THEN m ELSE ms[i - 1]
  <2>1. \A i \in 1..(Len(ms) + 1) : InsertAt(ms, k + 1, m)[i] =
            IF i <= k THEN ms[i] ELSE IF i = k + 1 THEN m ELSE ms[i - 1]
    BY InsertAtElements DEF Circ
  <2>. QED
    BY <1>1, <2>1
<1>5. DOMAIN t = 1..(L + 1)
  BY <1>3
<1>6. PICK old : old = [i \in 1..(L + 1) |-> IF i <= k THEN i ELSE i - 1]
  OBVIOUS
<1>7. \A i \in 1..(L + 1) : i # k + 1 => old[i] \in 1..L /\ t[i] = ms[old[i]]
  BY <1>2, <1>4, <1>6
<1>8. t[k + 1] = m /\ k + 1 \in 1..(L + 1)
  BY <1>2, <1>4
<1>9. \A i, j \in 1..(L + 1) : i # j /\ i # k + 1 /\ j # k + 1 => old[i] # old[j]
  BY <1>2, <1>6
<1>10. \A i \in 1..L : \A x \in ms[i] : x \in OpsIn(ms) /\ At(ms, x) = i /\ x \notin m
  BY <1>1, AtFacts
<1>11. ASSUME NEW i \in 1..(L + 1), NEW j \in 1..(L + 1), i # j PROVE t[i] \cap t[j] = {}
  <2>1. CASE i = k + 1
    BY <1>7, <1>8, <1>10, <1>11, <2>1
  <2>2. CASE j = k + 1
    BY <1>7, <1>8, <1>10, <1>11, <2>2
  <2>3. CASE i # k + 1 /\ j # k + 1
    BY <1>2, <1>7, <1>9, <1>11, <2>3 DEF Circ
  <2>. QED
    BY <2>1, <2>2, <2>3
<1>12. Circ(t)
  BY <1>3, <1>5, <1>11 DEF Circ
<1>13. ASSUME NEW x \in OpsIn(ms)
       PROVE  /\ x \in OpsIn(t)
              /\ At(t, x) = IF At(ms, x) > k THEN At(ms, x) + 1 ELSE At(ms, x)
  <2>1. PICK n : n = At(ms, x)
    OBVIOUS
  <2>2. n \in 1..L /\ x \in ms[n]
    BY <1>1, <2>1, AtFacts
  <2>3. PICK i : i = IF n > k THEN n + 1 ELSE n
    OBVIOUS
  <2>4. i \in 1..(L + 1) /\ i # k + 1 /\ old[i] = n
    BY <1>2, <1>6, <2>2, <2>3
  <2>5. x \in t[i]
    BY <1>7, <2>2, <2>4
  <2>6. x \in OpsIn(t) /\ At(t, x) = i
    BY <1>3, <1>12, <2>4, <2>5, AtFacts
  <2>. QED
    BY <2>1, <2>3, <2>6
<1>14. ASSUME NEW x \in m PROVE x \in OpsIn(t) /\ At(t, x) = k + 1
  BY <1>3, <1>8, <1>12, AtFacts
<1>15. ASSUME NEW x \in OpsIn(t) PROVE x \in OpsIn(ms) \cup m
  <2>1. PICK i \in 1..(L + 1) : x \in t[i]
    BY <1>3, <1>12, AtFacts
  <2>2. CASE i = k + 1
    BY <1>8, <2>1, <2>2
  <2>3. CASE i # k + 1
    BY <1>7, <1>10, <2>1, <2>3
  <2>. QED
    BY <2>2, <2>3
<1>16. OpsIn(t) = OpsIn(ms) \cup m
  BY <1>13, <1>14, <1>15
<1>17. Grown(ms, t, m, k + 1, k)
  BY <1>12, <1>13, <1>14, <1>16 DEF Grown
<1>. QED
  BY <1>1, <1>3, <1>17

\* An operation that is new joins moment n.
LEMMA JoinGrows ==
    ASSUME NEW ms, Circ(ms), NEW n \in 1..Len(ms), NEW x \in Ops, x \notin OpsIn(ms),
           ~Overlaps(ms[n], x)
    PROVE  /\ Grown(ms, [ms EXCEPT ![n] = @ \cup {x}], {x}, n, Len(ms))
           /\ Len([ms EXCEPT ![n] = @ \cup {x}]) = Len(ms)
<1>1. PICK L, t : L = Len(ms) /\ t = [ms EXCEPT ![n] = @ \cup {x}]
  OBVIOUS
<1>2. L \in Nat /\ DOMAIN ms = 1..L /\ ms \in Seq(Moments) /\ \A i \in 1..L : ms[i] \in Moments
  BY <1>1, AtFacts DEF Circ
<1>3. t[n] = ms[n] \cup {x} /\ \A i \in 1..L : i # n => t[i] = ms[i]
  BY <1>1, <1>2
<1>4. \A i \in 1..L : t[i] \in Moments
  BY <1>1, <1>2, <1>3, MomentWith
<1>5. t \in Seq(Moments) /\ Len(t) = L /\ DOMAIN t = 1..L
  <2>1. t \in [1..L -> Moments]
    BY <1>1, <1>2, <1>4
  <2>. QED
    BY <1>2, <2>1
<1>6. \A i \in 1..L : \A y \in ms[i] : y \in OpsIn(ms) /\ At(ms, y) = i /\ y # x
  BY <1>1, AtFacts
<1>7. \A i, j \in 1..L : i # j => ms[i] \cap ms[j] = {}
  BY <1>2 DEF Circ
<1>8. \A i, j \in 1..L : i # j => t[i] \cap t[j] = {}
  BY <1>3, <1>6, <1>7
<1>9. Circ(t)
  BY <1>5, <1>8 DEF Circ
<1>10. ASSUME NEW y \in OpsIn(ms) PROVE y \in OpsIn(t) /\ At(t, y) = At(ms, y) /\ ~(At(ms, y) > L)
  <2>1. At(ms, y) \in 1..L /\ y \in ms[At(ms, y)]
    BY <1>1, AtFacts
  <2>2. y \in t[At(ms, y)]
    BY <1>3, <2>1
  <2>. QED
    BY <1>2, <1>5, <1>9, <2>1, <2>2, AtFacts
<1>11. x \in OpsIn(t) /\ At(t, x) = n
  BY <1>1, <1>3, <1>5, <1>9, AtFacts
<1>12. \A y \in OpsIn(t) : y \in OpsIn(ms) \cup {x}
  <2>1. ASSUME NEW y \in OpsIn(t) PROVE y \in OpsIn(ms) \cup {x}
    <3>1. PICK i \in 1..L : y \in t[i]
      BY <1>5, <1>9, AtFacts
    <3>. QED
      BY <1>3, <1>6, <3>1
  <2>. QED
    BY <2>1
<1>13. OpsIn(t) = OpsIn(ms) \cup {x}
  BY <1>10, <1>11, <1>12
<1>14. Grown(ms, t, {x}, n, L)
  BY <1>9, <1>10, <1>11, <1>13 DEF Grown
<1>. QED
  BY <1>1, <1>5, <1>14

\* Appending is inserting at the end.
LEMMA AppendIsInsert ==
    ASSUME NEW T, NEW s \in Seq(T), NEW m \in T
    PROVE  Append(s, m) = InsertAt(s, Len(s) + 1, m)
<1>1. PICK L, t, u : L = Len(s) /\ t = InsertAt(s, L + 1, m) /\ u = Append(s, m)
  OBVIOUS
<1>2. L \in Nat /\ L \in 0..L
  BY <1>1
<1>3. /\ t \in Seq(T) /\ Len(t) = L + 1
      /\ \A i \in 1..(L + 1) : t[i] = IF i <= L THEN s[i] ELSE IF i = L + 1 THEN m ELSE s[i - 1]
  <2>1. PICK k \in 0..Len(s) : k = L
    BY <1>1, <1>2
  <2>2. /\ InsertAt(s, k + 1, m) \in Seq(T) /\ Len(InsertAt(s, k + 1, m)) = Len(s) + 1
        /\ \A i \in 1..(Len(s) + 1) : InsertAt(s, k + 1, m)[i] =
              IF i <= k THEN s[i] ELSE IF i = k + 1 THEN m ELSE s[i - 1]
    BY InsertAtElements
  <2>. QED
    BY <1>1, <2>1, <2>2
<1>4. u \in Seq(T) /\ Len(u) = L + 1 /\ \A i \in 1..(L + 1) : u[i] = IF i <= L THEN s[i] ELSE m
  BY <1>1, <1>2, AppendProperties
<1>5. \A i \in 1..(L + 1) : t[i] = u[i]
  BY <1>2, <1>3, <1>4
<1>6. t = u
  BY <1>2, <1>3, <1>4, <1>5, SeqEqual
<1>. QED
  BY <1>1, <1>6

----------------------------------------------------------------------------
(* What is inserted *)

\* What a call may be given, one at a time.
Elements == {Op(x) : x \in Ops} \cup {Whole(m) : m \in Moments}

\* An element is an operation or a whole moment.
LEMMA ElementFacts ==
    ASSUME NEW e \in Elements
    PROVE  /\ e.whole \in BOOLEAN /\ OpsOf(e) \in Moments /\ OpsOf(e) \subseteq Ops
           /\ e.whole => e.ops \in Moments /\ OpsOf(e) = e.ops
           /\ ~e.whole => e.op \in Ops /\ OpsOf(e) = {e.op}
<1>1. CASE \E x \in Ops : e = Op(x)
  <2>1. PICK x \in Ops : e = Op(x)
    BY <1>1
  <2>2. e.whole = FALSE /\ e.op = x
    BY <2>1 DEF Op
  <2>3. OpsOf(e) = {e.op}
    BY <2>2 DEF OpsOf
  <2>. QED
    BY <2>2, <2>3, SmallMoments
<1>2. CASE \E m \in Moments : e = Whole(m)
  <2>1. PICK m \in Moments : e = Whole(m)
    BY <1>2
  <2>2. e.whole = TRUE /\ e.ops = m
    BY <2>1 DEF Whole
  <2>3. OpsOf(e) = e.ops
    BY <2>2 DEF OpsOf
  <2>. QED
    BY <2>2, <2>3 DEF Moments
<1>. QED
  BY <1>1, <1>2 DEF Elements

\* The operations of the elements with the numbers in D.
New(es, D) == UNION {OpsOf(es[i]) : i \in D}

\* New elements, of operations that are not in ms.
Given(es, ms) ==
    /\ es \in Seq(Elements) /\ Proper(es)
    /\ \A i \in DOMAIN es : OpsOf(es[i]) \cap OpsIn(ms) = {}

\* t is the circuit ms with the elements D of es inserted at k, in order.
Ordered(ms, k, es, D, t) ==
    /\ Circ(t) /\ OpsIn(t) = OpsIn(ms) \cup New(es, D)
    /\ KeepsOld(ms, t)
    /\ FollowsEarlier(ms, k, New(es, D), t)
    /\ \A i, j \in D : i < j =>
          \A x \in OpsOf(es[i]), y \in OpsOf(es[j]) : Clash(x, y) => At(t, x) < At(t, y)

\* A circuit that grows changes the order of nothing in it.
LEMMA GrownOrder ==
    ASSUME NEW ms, Circ(ms), NEW t, NEW S, NEW n, NEW h \in Int, Grown(ms, t, S, n, h),
           NEW x \in OpsIn(ms), NEW y \in OpsIn(ms)
    PROVE  /\ x \in OpsIn(t) /\ y \in OpsIn(t)
           /\ At(ms, x) <= At(ms, y) <=> At(t, x) <= At(t, y)
           /\ At(ms, x) < At(ms, y) => At(t, x) < At(t, y)
<1>1. At(ms, x) \in Nat /\ At(ms, y) \in Nat
  BY AtFacts
<1>. QED
  BY <1>1 DEF Grown

\* Nothing is inserted yet.
LEMMA OrderedStart ==
    ASSUME NEW ms, Circ(ms), NEW k, NEW es
    PROVE  Ordered(ms, k, es, {}, ms)
<1>1. New(es, {}) = {}
  BY DEF New
<1>. QED
  BY <1>1 DEF Ordered, KeepsOld, FollowsEarlier

\* An empty moment is inserted.
LEMMA OrderedShift ==
    ASSUME NEW ms, Circ(ms), NEW k, NEW es, NEW D, NEW t, Ordered(ms, k, es, D, t),
           NEW t2, NEW n, NEW h \in Int, Grown(t, t2, {}, n, h)
    PROVE  Ordered(ms, k, es, D, t2)
<1>1. Circ(t) /\ Circ(t2) /\ OpsIn(t2) = OpsIn(t) /\ OpsIn(t) = OpsIn(ms) \cup New(es, D)
  BY DEF Ordered, Grown
<1>2. ASSUME NEW x \in OpsIn(t), NEW y \in OpsIn(t)
      PROVE  /\ At(t, x) <= At(t, y) <=> At(t2, x) <= At(t2, y)
             /\ At(t, x) < At(t, y) => At(t2, x) < At(t2, y)
  BY <1>1, GrownOrder
<1>3. KeepsOld(ms, t2)
  BY <1>1, <1>2 DEF Ordered, KeepsOld
<1>4. FollowsEarlier(ms, k, New(es, D), t2)
  BY <1>1, <1>2 DEF Ordered, FollowsEarlier
<1>5. ASSUME NEW i \in D, NEW j \in D, i < j, NEW x \in OpsOf(es[i]), NEW y \in OpsOf(es[j]), Clash(x, y)
      PROVE  At(t2, x) < At(t2, y)
  <2>1. x \in New(es, D) /\ y \in New(es, D)
    BY DEF New
  <2>2. At(t, x) < At(t, y)
    BY <1>5 DEF Ordered
  <2>. QED
    BY <1>1, <1>2, <2>1, <2>2
<1>. QED
  BY <1>1, <1>3, <1>4, <1>5 DEF Ordered

\* Element i is inserted into moment n, after all it must follow and before all it must
\* precede.
LEMMA OrderedStep ==
    ASSUME NEW ms, Circ(ms), NEW k, NEW es, NEW D \in SUBSET Int, NEW t, Ordered(ms, k, es, D, t),
           NEW i \in Int, i \notin D, NEW t2, NEW n, NEW h \in Int, Grown(t, t2, OpsOf(es[i]), n, h),
           \A x \in OpsIn(ms), y \in OpsOf(es[i]) : At(ms, x) <= k /\ Clash(x, y) => At(t2, x) < n,
           \A j \in D : \A x \in OpsOf(es[j]), y \in OpsOf(es[i]) :
              Clash(x, y) => (j < i => At(t2, x) < n) /\ (i < j => n < At(t2, x))
    PROVE  Ordered(ms, k, es, D \cup {i}, t2)
<1>1. PICK S, D2 : S = OpsOf(es[i]) /\ D2 = D \cup {i}
  OBVIOUS
<1>2. New(es, D2) = New(es, D) \cup S
  BY <1>1 DEF New
<1>3. /\ Circ(t) /\ Circ(t2) /\ OpsIn(t2) = OpsIn(t) \cup S /\ OpsIn(t) = OpsIn(ms) \cup New(es, D)
      /\ \A x \in S : At(t2, x) = n
  BY <1>1 DEF Ordered, Grown
<1>4. ASSUME NEW x \in OpsIn(t), NEW y \in OpsIn(t)
      PROVE  /\ At(t, x) <= At(t, y) <=> At(t2, x) <= At(t2, y)
             /\ At(t, x) < At(t, y) => At(t2, x) < At(t2, y)
  BY <1>3, GrownOrder
<1>5. KeepsOld(ms, t2)
  BY <1>3, <1>4 DEF Ordered, KeepsOld
<1>6. FollowsEarlier(ms, k, New(es, D2), t2)
  <2>. SUFFICES ASSUME NEW x \in OpsIn(ms), NEW y \in New(es, D2), Clash(x, y), At(ms, x) <= k
                PROVE  At(t2, x) < At(t2, y)
    BY DEF FollowsEarlier
  <2>1. CASE y \in S
    BY <1>1, <1>3, <2>1
  <2>2. CASE y \in New(es, D)
    <3>1. At(t, x) < At(t, y)
      BY <2>2 DEF Ordered, FollowsEarlier
    <3>. QED
      BY <1>3, <1>4, <2>2, <3>1
  <2>. QED
    BY <1>2, <2>1, <2>2
<1>7. ASSUME NEW a \in D2, NEW b \in D2, a < b, NEW x \in OpsOf(es[a]), NEW y \in OpsOf(es[b]), Clash(x, y)
      PROVE  At(t2, x) < At(t2, y)
  <2>1. CASE a = i
    <3>1. b \in D /\ At(t2, x) = n /\ i < b
      BY <1>1, <1>3, <1>7, <2>1
    <3>2. Clash(y, x)
      BY <1>7, ClashSymmetric
    <3>3. n < At(t2, y)
      BY <1>1, <2>1, <3>1, <3>2
    <3>. QED
      BY <3>1, <3>3
  <2>2. CASE b = i
    <3>1. a \in D /\ At(t2, y) = n /\ a < i
      BY <1>1, <1>3, <1>7, <2>2
    <3>2. At(t2, x) < n
      BY <1>1, <1>7, <2>2, <3>1
    <3>. QED
      BY <3>1, <3>2
  <2>3. CASE a \in D /\ b \in D
    <3>1. x \in New(es, D) /\ y \in New(es, D)
      BY <2>3 DEF New
    <3>2. At(t, x) < At(t, y)
      BY <1>7, <2>3 DEF Ordered
    <3>. QED
      BY <1>3, <1>4, <3>1, <3>2
  <2>. QED
    BY <1>1, <2>1, <2>2, <2>3
<1>8. Ordered(ms, k, es, D2, t2)
  BY <1>2, <1>3, <1>5, <1>6, <1>7 DEF Ordered
<1>. QED
  BY <1>1, <1>8
----------------------------------------------------------------------------
(* Finding a place *)

\* A bounded set of numbers has a greatest element.
LEMMA GreatestElement ==
    ASSUME NEW S \in SUBSET Nat, S # {}, NEW n \in Nat, \A s \in S : s <= n
    PROVE  \E m \in S : \A s \in S : s <= m
<1>1. PICK U : U = {u \in Nat : \A s \in S : s <= u}
  OBVIOUS
<1>2. U \in SUBSET Nat /\ n \in U
  BY <1>1
<1>3. PICK m \in U : \A y \in U : m <= y
  BY <1>2, LeastElement
<1>4. m \in Nat /\ \A s \in S : s <= m
  BY <1>1, <1>3
<1>5. m \in S
  <2>. SUFFICES ASSUME m \notin S PROVE FALSE
    OBVIOUS
  <2>1. PICK s \in S : TRUE
    OBVIOUS
  <2>2. s \in Nat /\ s <= m /\ s # m
    BY <1>4, <2>1
  <2>3. m - 1 \in Nat /\ \A u \in S : u <= m - 1
    BY <1>4, <2>2
  <2>4. m - 1 \in U
    BY <1>1, <2>3
  <2>. QED
    BY <1>3, <1>4, <2>4
<1>. QED
  BY <1>4, <1>5

\* MaxOf and Max give it, and Min the least one.
LEMMA Extremes ==
    ASSUME NEW S \in SUBSET Nat, S # {}
    PROVE  /\ \A n \in Nat : (\A s \in S : s <= n) =>
                 /\ MaxOf(S) \in S /\ \A s \in S : s <= MaxOf(S)
                 /\ Max(S) \in S /\ \A s \in S : s <= Max(S)
           /\ Min(S) \in S /\ \A s \in S : Min(S) <= s
<1>1. ASSUME NEW n \in Nat, \A s \in S : s <= n
      PROVE  /\ MaxOf(S) \in S /\ \A s \in S : s <= MaxOf(S)
             /\ Max(S) \in S /\ \A s \in S : s <= Max(S)
  <2>1. PICK m \in S : \A s \in S : s <= m
    BY <1>1, GreatestElement
  <2>2. \A s \in S : m >= s
    BY <2>1
  <2>. QED
    BY <2>1, <2>2 DEF MaxOf, Max
<1>2. PICK m \in S : \A s \in S : m <= s
  BY LeastElement
<1>3. Min(S) \in S /\ \A s \in S : Min(S) <= s
  BY <1>2 DEF Min
<1>. QED
  BY <1>1, <1>3

\* The scan finds the last blocking moment up to k.
LEMMA ScanFacts ==
    ASSUME NEW ms, Circ(ms), NEW k \in 0..Len(ms), NEW x
    PROVE  /\ EarliestAvailable(ms, x, k) \in 0..k
           /\ EarliestAvailable(ms, x, k) > 0 => Blocks(ms[EarliestAvailable(ms, x, k)], x)
           /\ \A i \in 1..k : Blocks(ms[i], x) => i <= EarliestAvailable(ms, x, k)
           /\ \A y \in OpsIn(ms) :
                 Clash(y, x) /\ At(ms, y) <= k => At(ms, y) <= EarliestAvailable(ms, x, k)
<1>1. PICK S : S = {0} \cup {n \in 1..k : Blocks(ms[n], x)}
  OBVIOUS
<1>2. k \in Nat /\ Len(ms) \in Nat
  BY AtFacts
<1>3. S \in SUBSET Nat /\ 0 \in S /\ \A s \in S : s <= k
  BY <1>1, <1>2
<1>4. MaxOf(S) \in S /\ \A s \in S : s <= MaxOf(S)
  BY <1>2, <1>3, Extremes
<1>5. PICK e : e = EarliestAvailable(ms, x, k)
  OBVIOUS
<1>6. e = MaxOf(S)
  BY <1>1, <1>5 DEF EarliestAvailable
<1>7. e \in 0..k /\ (e > 0 => Blocks(ms[e], x))
  BY <1>1, <1>2, <1>4, <1>6
<1>8. \A i \in 1..k : Blocks(ms[i], x) => i <= e
  BY <1>1, <1>4, <1>6
<1>9. \A y \in OpsIn(ms) : Clash(y, x) /\ At(ms, y) <= k => At(ms, y) <= e
  BY <1>2, <1>8, AtFacts, BlocksAt
<1>. QED
  BY <1>5, <1>7, <1>8, <1>9

----------------------------------------------------------------------------
(* One element *)

\* A call in progress.
State == [ms : Seq(Moments), k : Nat, strategy : Strategies, top : Nat,
          cache : Plain!CacheType, raised : BOOLEAN]

\* The call c goes on with the moments t, after an element went into moment n.
Turned(c, t, n) ==
    [c EXCEPT !.ms = t, !.top = Greater(n, @),
              !.strategy = IF @ = "NEW_THEN_INLINE" THEN "INLINE" ELSE @,
              !.k = IF c.strategy = "NEW_THEN_INLINE" THEN @ + 1 ELSE @]

\* Its fields.
LEMMA TurnedFields ==
    ASSUME NEW c \in State, NEW t \in Seq(Moments), NEW n \in Nat
    PROVE  /\ Turned(c, t, n) \in State
           /\ Turned(c, t, n).ms = t /\ Turned(c, t, n).top = Greater(n, c.top)
           /\ Turned(c, t, n).cache = c.cache /\ Turned(c, t, n).raised = c.raised
           /\ Turned(c, t, n).strategy = IF c.strategy = "NEW_THEN_INLINE" THEN "INLINE" ELSE c.strategy
           /\ Turned(c, t, n).k = IF c.strategy = "NEW_THEN_INLINE" THEN c.k + 1 ELSE c.k
<1>1. PICK s, k : /\ s = IF c.strategy = "NEW_THEN_INLINE" THEN "INLINE" ELSE c.strategy
                  /\ k = IF c.strategy = "NEW_THEN_INLINE" THEN c.k + 1 ELSE c.k
  OBVIOUS
<1>2. Turned(c, t, n) = [ms |-> t, k |-> k, strategy |-> s, top |-> Greater(n, c.top), cache |-> c.cache,
                         raised |-> c.raised]
  <2>1. Turned(c, t, n) = [c EXCEPT !.ms = t, !.top = Greater(n, c.top), !.strategy = s, !.k = k]
    BY <1>1 DEF Turned, State
  <2>. QED
    BY <2>1 DEF State
<1>3. s \in Strategies /\ k \in Nat /\ Greater(n, c.top) \in Nat
  BY <1>1 DEF State, Strategies, Greater
<1>4. c.cache \in Plain!CacheType /\ c.raised \in BOOLEAN
  BY DEF State
<1>. QED
  BY <1>1, <1>2, <1>3, <1>4 DEF State

\* The circuit ms with x in moment n, or in a new one at the end.
Joined(ms, n, x) == IF n = Len(ms) + 1 THEN Append(ms, {x}) ELSE [ms EXCEPT ![n] = @ \cup {x}]

\* An operation that overlaps nothing in moment n is put there.
LEMMA PutFacts ==
    ASSUME NEW c \in State, Circ(c.ms), NEW x \in Ops, x \notin OpsIn(c.ms),
           NEW n \in 1..(Len(c.ms) + 1), n <= Len(c.ms) => ~Overlaps(c.ms[n], x)
    PROVE  /\ Put(c, n, x) = [c EXCEPT !.ms = Joined(c.ms, n, x)]
           /\ Grown(c.ms, Joined(c.ms, n, x), {x}, n, Len(c.ms))
           /\ Len(Joined(c.ms, n, x)) = Greater(n, Len(c.ms))
<1>1. PICK L : L = Len(c.ms)
  OBVIOUS
<1>2. L \in Nat /\ c.ms \in Seq(Moments) /\ L \in 0..L
  BY <1>1, AtFacts DEF Circ
<1>3. CASE n = L + 1
  <2>1. PICK t : t = Append(c.ms, {x})
    OBVIOUS
  <2>2. {x} \in Moments /\ {x} \cap OpsIn(c.ms) = {}
    BY SmallMoments
  <2>3. t = InsertAt(c.ms, L + 1, {x})
    BY <1>1, <1>2, <2>1, <2>2, AppendIsInsert
  <2>4. Grown(c.ms, t, {x}, L + 1, L) /\ Len(t) = L + 1
    BY <1>1, <1>2, <2>2, <2>3, InsertGrows
  <2>5. Put(c, n, x) = [c EXCEPT !.ms = t]
    BY <1>1, <1>3, <2>1 DEF Put
  <2>6. Greater(n, L) = L + 1
    BY <1>2, <1>3 DEF Greater
  <2>. QED
    BY <1>1, <1>3, <2>1, <2>4, <2>5, <2>6 DEF Joined
<1>4. CASE n # L + 1
  <2>1. n \in 1..L
    BY <1>1, <1>2, <1>4
  <2>2. PICK t : t = [c.ms EXCEPT ![n] = @ \cup {x}]
    OBVIOUS
  <2>3. ~Overlaps(c.ms[n], x)
    BY <1>1, <2>1
  <2>4. Grown(c.ms, t, {x}, n, L) /\ Len(t) = L
    BY <1>1, <2>1, <2>2, <2>3, JoinGrows
  <2>5. Put(c, n, x) = [c EXCEPT !.ms = t]
    BY <1>1, <1>4, <2>2, <2>3 DEF Put, State
  <2>6. Greater(n, L) = L
    BY <1>2, <2>1 DEF Greater
  <2>. QED
    BY <1>1, <1>4, <2>2, <2>4, <2>5, <2>6 DEF Joined
<1>. QED
  BY <1>3, <1>4

\* The element gets a moment of its own after moment k.
LEMMA InsertsMoment ==
    ASSUME NEW c \in State, ~c.raised, ~c.cache.on, Circ(c.ms), c.k \in 0..Len(c.ms),
           NEW e \in Elements, OpsOf(e) \cap OpsIn(c.ms) = {},
           e.whole \/ c.strategy \in {"NEW", "NEW_THEN_INLINE"}
    PROVE  \E t : /\ InsertElement(c, e) = Turned(c, t, c.k + 1)
                  /\ Grown(c.ms, t, OpsOf(e), c.k + 1, c.k) /\ Len(t) = Len(c.ms) + 1
<1>1. PICK L, k : L = Len(c.ms) /\ k = c.k
  OBVIOUS
<1>2. L \in Nat /\ c.ms \in Seq(Moments) /\ k \in 0..L /\ k \in Nat
  BY <1>1, AtFacts DEF Circ
<1>3. CASE e.whole
  <2>1. PICK t : t = InsertAt(c.ms, k + 1, e.ops)
    OBVIOUS
  <2>2. e.ops \in Moments /\ OpsOf(e) = e.ops
    BY <1>3, ElementFacts
  <2>3. Grown(c.ms, t, OpsOf(e), k + 1, k) /\ Len(t) = L + 1
    BY <1>1, <1>2, <2>1, <2>2, InsertGrows
  <2>4. InsertElement(c, e) = Turned(c, t, k + 1)
    BY <1>1, <1>3, <2>1 DEF InsertElement, Turned, State
  <2>. QED
    BY <1>1, <2>3, <2>4
<1>4. CASE ~e.whole
  <2>1. PICK t1 : t1 = InsertAt(c.ms, k + 1, {})
    OBVIOUS
  <2>2. Grown(c.ms, t1, {}, k + 1, k) /\ Len(t1) = L + 1
    BY <1>1, <1>2, <2>1, SmallMoments, InsertGrows
  <2>3. t1[k + 1] = {} /\ t1 \in Seq(Moments)
    <3>1. k + 1 \in 1..(L + 1) /\ ~(k + 1 <= k)
      BY <1>2
    <3>2. PICK ms \in Seq(Moments) : ms = c.ms
      BY <1>2
    <3>3. PICK m \in Moments, j \in 0..Len(ms) : m = {} /\ j = k
      BY <1>1, <1>2, <3>2, SmallMoments
    <3>4. \A i \in 1..(Len(ms) + 1) : InsertAt(ms, j + 1, m)[i] =
              IF i <= j THEN ms[i] ELSE IF i = j + 1 THEN m ELSE ms[i - 1]
      BY InsertAtElements
    <3>5. \A i \in 1..(L + 1) : t1[i] = IF i <= k THEN c.ms[i] ELSE IF i = k + 1 THEN {} ELSE c.ms[i - 1]
      BY <1>1, <2>1, <3>2, <3>3, <3>4
    <3>. QED
      BY <2>2, <3>1, <3>5 DEF Grown, Circ
  <2>4. e.op \in Ops /\ OpsOf(e) = {e.op} /\ OpsIn(t1) = OpsIn(c.ms) /\ Circ(t1)
    BY <1>4, <2>2, ElementFacts DEF Grown
  <2>5. PICK c1 : c1 = [c EXCEPT !.ms = t1]
    OBVIOUS
  <2>6. c1 \in State /\ c1.ms = t1 /\ c1.k = k /\ c1.strategy = c.strategy /\ c1.top = c.top
    BY <1>1, <2>3, <2>5 DEF State
  <2>7. ~Overlaps(t1[k + 1], e.op)
    BY <2>3 DEF Overlaps, MomentQubits
  <2>8. PICK t : /\ Put(c1, k + 1, e.op) = [c1 EXCEPT !.ms = t]
                 /\ Grown(t1, t, {e.op}, k + 1, L + 1) /\ Len(t) = Greater(k + 1, L + 1)
    <3>1. PICK n \in 1..(Len(c1.ms) + 1) : n = k + 1
      BY <1>2, <2>2, <2>6
    <3>2. e.op \notin OpsIn(c1.ms) /\ ~Overlaps(c1.ms[n], e.op) /\ Circ(c1.ms)
      BY <2>4, <2>6, <2>7, <3>1
    <3>3. /\ Put(c1, n, e.op) = [c1 EXCEPT !.ms = Joined(c1.ms, n, e.op)]
          /\ Grown(c1.ms, Joined(c1.ms, n, e.op), {e.op}, n, Len(c1.ms))
          /\ Len(Joined(c1.ms, n, e.op)) = Greater(n, Len(c1.ms))
      BY <2>4, <2>6, <3>2, PutFacts
    <3>. QED
      BY <2>2, <2>6, <3>1, <3>3
  <2>9. Len(t) = L + 1
    BY <1>2, <2>8 DEF Greater
  <2>10. Grown(c.ms, t, {e.op}, k + 1, k)
    <3>1. \A x \in OpsIn(c.ms) : x \in OpsIn(t1) /\ At(t1, x) \in 1..(L + 1)
      BY <2>2, <2>4, AtFacts
    <3>2. \A x \in OpsIn(c.ms) : At(t, x) = At(t1, x)
      BY <1>2, <2>8, <3>1 DEF Grown
    <3>. QED
      BY <2>2, <2>8, <3>2 DEF Grown
  <2>11. InsertElement(c, e) = Turned(c, t, k + 1)
    <3>1. c.strategy \in {"NEW", "NEW_THEN_INLINE"}
      BY <1>4
    <3>2. InsertElement(c, e) =
             [[c1 EXCEPT !.ms = t] EXCEPT !.top = Greater(k + 1, @),
                        !.strategy = IF @ = "NEW_THEN_INLINE" THEN "INLINE" ELSE @,
                        !.k = IF c.strategy = "NEW_THEN_INLINE" THEN @ + 1 ELSE @]
      <4>1. c1 = [c EXCEPT !.cache = c.cache, !.ms = t1]
        BY <2>5 DEF State
      <4>. QED
        BY <1>1, <1>4, <2>1, <2>8, <3>1, <4>1 DEF InsertElement
    <3>. QED
      BY <2>5, <3>2 DEF Turned, State
  <2>. QED
    BY <1>1, <2>4, <2>9, <2>10, <2>11
<1>. QED
  BY <1>3, <1>4, ElementFacts

\* The operation joins moment n, or the end.
LEMMA InsertsInto ==
    ASSUME NEW c \in State, ~c.raised, ~c.cache.on, Circ(c.ms), c.k \in 0..Len(c.ms),
           NEW e \in Elements, OpsOf(e) \cap OpsIn(c.ms) = {}, ~e.whole,
           c.strategy \in {"INLINE", "EARLIEST"},
           NEW n, n = IF c.strategy = "INLINE" THEN c.k ELSE EarliestAvailable(c.ms, e.op, c.k) + 1,
           n \in 1..(Len(c.ms) + 1), n <= Len(c.ms) => ~Overlaps(c.ms[n], e.op)
    PROVE  /\ InsertElement(c, e) = Turned(c, Joined(c.ms, n, e.op), n)
           /\ Grown(c.ms, Joined(c.ms, n, e.op), OpsOf(e), n, Len(c.ms))
           /\ Len(Joined(c.ms, n, e.op)) = Greater(n, Len(c.ms))
<1>1. e.op \in Ops /\ OpsOf(e) = {e.op} /\ e.op \notin OpsIn(c.ms)
  BY ElementFacts
<1>2. PICK t : t = Joined(c.ms, n, e.op)
  OBVIOUS
<1>3. /\ Put(c, n, e.op) = [c EXCEPT !.ms = t]
      /\ Grown(c.ms, t, {e.op}, n, Len(c.ms)) /\ Len(t) = Greater(n, Len(c.ms))
  BY <1>1, <1>2, PutFacts
<1>4. InsertElement(c, e) = Turned(c, t, n)
  <2>1. c = [c EXCEPT !.cache = c.cache, !.ms = c.ms]
    BY DEF State
  <2>2. InsertElement(c, e) = [[c EXCEPT !.ms = t] EXCEPT !.top = Greater(n, @),
                        !.strategy = IF @ = "NEW_THEN_INLINE" THEN "INLINE" ELSE @,
                        !.k = IF c.strategy = "NEW_THEN_INLINE" THEN @ + 1 ELSE @]
    BY <1>3, <2>1 DEF InsertElement
  <2>. QED
    BY <2>2 DEF Turned, State
<1>. QED
  BY <1>1, <1>2, <1>3, <1>4
----------------------------------------------------------------------------
(* Batches *)

\* b is the part of es from p + 1 to q, with a single element or with operations of
\* which no two clash.
IsBatch(b, es, p, q) ==
    /\ p \in 0..Len(es) /\ q \in 0..Len(es) /\ p < q
    /\ b \in Seq(Elements) /\ Len(b) = q - p /\ \A j \in 1..(q - p) : b[j] = es[p + j]
    /\ \/ q = p + 1
       \/ \A i, j \in (p + 1)..q : ~es[i].whole /\ (i # j => ~Clash(es[i].op, es[j].op))

\* bs cuts the first n elements of es into batches, at the places f.
Cut(bs, es, n, f) ==
    /\ bs \in Seq(Seq(Elements)) /\ f \in [0..Len(bs) -> 0..n] /\ f[0] = 0 /\ f[Len(bs)] = n
    /\ \A i \in 1..Len(bs) : IsBatch(bs[i], es, f[i - 1], f[i])

\* A batch takes one more operation that fits.
LEMMA BatchGrows ==
    ASSUME NEW es \in Seq(Elements), NEW p, NEW q, NEW b, IsBatch(b, es, p, q), NEW e,
           q + 1 \in 1..Len(es), e = es[q + 1], ~e.whole, ~b[1].whole,
           ~Blocks(UNION {OpsOf(f) : f \in ToSet(b)}, e.op)
    PROVE  IsBatch(Append(b, e), es, p, q + 1)
<1>1. p \in Nat /\ q \in Nat /\ p < q /\ q + 1 <= Len(es) /\ Len(es) \in Nat /\ b \in Seq(Elements)
  BY DEF IsBatch
<1>2. Len(b) = q - p /\ (\A j \in 1..(q - p) : b[j] = es[p + j]) /\ 1 \in 1..(q - p) /\ DOMAIN b = 1..(q - p)
  BY <1>1 DEF IsBatch
<1>3. e \in Elements
  BY <1>1
<1>4. PICK a : a = Append(b, e)
  OBVIOUS
<1>5. a \in Seq(Elements) /\ Len(a) = q + 1 - p
  BY <1>1, <1>2, <1>3, <1>4, AppendProperties
<1>6. ASSUME NEW j \in 1..(q + 1 - p) PROVE a[j] = es[p + j]
  <2>1. CASE j = q + 1 - p
    <3>1. j = Len(b) + 1 /\ p + j = q + 1
      BY <1>1, <1>2, <2>1
    <3>. QED
      BY <1>1, <1>3, <1>4, <3>1, AppendProperties
  <2>2. CASE j # q + 1 - p
    <3>1. j \in 1..(q - p)
      BY <1>1, <2>2
    <3>. QED
      BY <1>1, <1>2, <1>3, <1>4, <3>1, AppendProperties
  <2>. QED
    BY <2>1, <2>2
<1>7. ASSUME NEW i \in (p + 1)..q PROVE ~es[i].whole /\ ~Clash(es[i].op, e.op)
  <2>1. PICK j : j = i - p
    OBVIOUS
  <2>2. j \in 1..(q - p) /\ p + j = i /\ i \in 1..Len(es)
    BY <1>1, <2>1
  <2>3. b[j] = es[i] /\ es[i] \in Elements
    BY <1>2, <2>2
  <2>4. ~es[i].whole
    <3>1. CASE q = p + 1
      <4>1. j = 1
        BY <1>1, <2>2, <3>1
      <4>. QED
        BY <2>3, <4>1
    <3>2. CASE q # p + 1
      BY <3>2 DEF IsBatch
    <3>. QED
      BY <3>1, <3>2
  <2>5. OpsOf(es[i]) = {es[i].op}
    BY <2>3, <2>4, ElementFacts
  <2>6. es[i] \in ToSet(b)
    BY <1>2, <2>2, <2>3 DEF ToSet
  <2>7. es[i].op \in UNION {OpsOf(f) : f \in ToSet(b)}
    BY <2>5, <2>6
  <2>. QED
    BY <2>4, <2>7, BlocksClash
<1>8. ASSUME NEW i \in (p + 1)..(q + 1), NEW j \in (p + 1)..(q + 1)
      PROVE  ~es[i].whole /\ (i # j => ~Clash(es[i].op, es[j].op))
  <2>1. i = q + 1 \/ i \in (p + 1)..q
    BY <1>1
  <2>2. j = q + 1 \/ j \in (p + 1)..q
    BY <1>1
  <2>3. ~es[i].whole
    BY <1>7, <2>1
  <2>4. ASSUME i # j PROVE ~Clash(es[i].op, es[j].op)
    <3>1. CASE i = q + 1
      BY <1>7, <2>2, <2>4, <3>1, ClashSymmetric
    <3>2. CASE j = q + 1
      BY <1>7, <2>1, <2>4, <3>2
    <3>3. CASE i \in (p + 1)..q /\ j \in (p + 1)..q
      <4>1. q # p + 1
        BY <1>1, <2>4, <3>3
      <4>. QED
        BY <2>4, <3>3, <4>1 DEF IsBatch
    <3>. QED
      BY <2>1, <2>2, <3>1, <3>2, <3>3
  <2>. QED
    BY <2>3, <2>4
<1>9. p \in 0..Len(es) /\ q + 1 \in 0..Len(es) /\ p < q + 1
  BY <1>1
<1>. QED
  BY <1>4, <1>5, <1>6, <1>8, <1>9 DEF IsBatch

\* An element is a batch.
LEMMA SingleBatch ==
    ASSUME NEW es \in Seq(Elements), NEW n \in 1..Len(es)
    PROVE  <<es[n]>> \in Seq(Elements) /\ IsBatch(<<es[n]>>, es, n - 1, n)
<1>1. Len(es) \in Nat /\ n - 1 \in 0..Len(es) /\ n \in 0..Len(es) /\ n - 1 < n /\ n - (n - 1) = 1 /\ n = (n - 1) + 1
  OBVIOUS
<1>2. es[n] \in Elements
  OBVIOUS
<1>3. \A j \in 1..1 : <<es[n]>>[j] = es[(n - 1) + j]
  BY <1>1
<1>. QED
  BY <1>1, <1>2, <1>3 DEF IsBatch

\* _group_into_moment_compatible() cuts what it is given into batches.
LEMMA GroupCuts ==
    ASSUME NEW es \in Seq(Elements)
    PROVE  \E f : Cut(Group(es), es, Len(es), f)
<1>1. PICK N : N = Len(es) /\ N \in Nat
  OBVIOUS
<1>2. PICK Good : Good = [n \in 0..N |-> {bs \in Seq(Seq(Elements)) : \E f : Cut(bs, es, n, f)}]
  OBVIOUS
<1>3. <<>> \in Good[0]
  <2>1. PICK f : f = [i \in 0..0 |-> 0]
    OBVIOUS
  <2>2. <<>> \in Seq(Seq(Elements)) /\ Len(<<>>) = 0 /\ f \in [0..0 -> 0..0] /\ f[0] = 0
    BY <2>1
  <2>3. Cut(<<>>, es, 0, f)
    BY <2>2 DEF Cut
  <2>. QED
    BY <1>1, <1>2, <2>2, <2>3
<1>4. ASSUME NEW n \in 1..N, NEW bs \in Good[n - 1] PROVE AddToBatches(bs, es[n]) \in Good[n]
  <2>1. n \in 0..N /\ n - 1 \in 0..N /\ n \in 1..Len(es) /\ n \in Nat /\ es[n] \in Elements
    BY <1>1
  <2>2. PICK f : bs \in Seq(Seq(Elements)) /\ Cut(bs, es, n - 1, f)
    BY <1>2, <2>1
  <2>3. PICK L : L = Len(bs) /\ L \in Nat
    BY <2>2
  <2>4. /\ f \in [0..L -> 0..(n - 1)] /\ f[0] = 0 /\ f[L] = n - 1
        /\ \A i \in 1..L : IsBatch(bs[i], es, f[i - 1], f[i])
    BY <2>2, <2>3 DEF Cut
  <2>5. PICK e, r : e = es[n] /\ r = AddToBatches(bs, e)
    OBVIOUS
  <2>6. CASE /\ bs # <<>> /\ ~e.whole /\ ~Last(bs)[1].whole
             /\ ~Blocks(UNION {OpsOf(g) : g \in ToSet(Last(bs))}, e.op)
    <3>1. L # 0 /\ L \in 1..L
      BY <2>2, <2>3, <2>6
    <3>2. PICK b, p : b = bs[L] /\ p = f[L - 1]
      OBVIOUS
    <3>3. Last(bs) = b
      BY <2>3, <3>2 DEF Last
    <3>4. IsBatch(b, es, p, n - 1) /\ b \in Seq(Elements) /\ p \in Nat
      <4>1. IsBatch(b, es, p, n - 1)
        BY <2>4, <3>1, <3>2
      <4>. QED
        BY <4>1 DEF IsBatch
    <3>5. (n - 1) + 1 = n
      BY <2>1
    <3>6. IsBatch(Append(b, e), es, p, n)
      <4>1. PICK q : q = n - 1
        OBVIOUS
      <4>2. q + 1 = n /\ IsBatch(b, es, p, q)
        BY <3>4, <3>5, <4>1
      <4>3. IsBatch(Append(b, e), es, p, q + 1)
        BY <2>1, <2>5, <2>6, <3>3, <4>2, BatchGrows
      <4>. QED
        BY <4>2, <4>3
    <3>7. r = [bs EXCEPT ![L] = Append(b, e)]
      BY <2>3, <2>5, <2>6, <3>2 DEF AddToBatches
    <3>8. Append(b, e) \in Seq(Elements)
      BY <3>6 DEF IsBatch
    <3>9. r \in Seq(Seq(Elements)) /\ Len(r) = L /\ r[L] = Append(b, e) /\ \A i \in 1..L : i # L => r[i] = bs[i]
      BY <2>2, <2>3, <3>1, <3>7, <3>8, ExceptSeq
    <3>10. PICK g : g = [f EXCEPT ![L] = n]
      OBVIOUS
    <3>11. /\ g \in [0..L -> 0..n] /\ g[0] = 0 /\ g[L] = n
           /\ \A i \in 0..L : i # L => g[i] = f[i]
      BY <2>1, <2>3, <2>4, <3>1, <3>10
    <3>12. ASSUME NEW i \in 1..L PROVE IsBatch(r[i], es, g[i - 1], g[i])
      <4>1. i - 1 \in 0..L /\ i - 1 # L /\ i \in 0..L
        BY <2>3
      <4>2. g[i - 1] = f[i - 1]
        BY <3>11, <4>1
      <4>3. CASE i = L
        BY <3>2, <3>6, <3>9, <3>11, <4>2, <4>3
      <4>4. CASE i # L
        BY <2>4, <3>9, <3>11, <4>1, <4>2, <4>4
      <4>. QED
        BY <4>3, <4>4
    <3>13. Cut(r, es, n, g)
      BY <3>9, <3>11, <3>12 DEF Cut
    <3>. QED
      BY <1>2, <2>1, <2>5, <3>9, <3>13
  <2>7. CASE ~(/\ bs # <<>> /\ ~e.whole /\ ~Last(bs)[1].whole
               /\ ~Blocks(UNION {OpsOf(g) : g \in ToSet(Last(bs))}, e.op))
    <3>1. r = Append(bs, <<e>>)
      BY <2>5, <2>7 DEF AddToBatches
    <3>2. <<e>> \in Seq(Elements) /\ IsBatch(<<e>>, es, n - 1, n)
      BY <2>1, <2>5, SingleBatch
    <3>3. /\ r \in Seq(Seq(Elements)) /\ Len(r) = L + 1 /\ r[L + 1] = <<e>>
          /\ \A i \in 1..L : r[i] = bs[i]
      BY <2>2, <2>3, <3>1, <3>2, AppendProperties
    <3>4. PICK g : g = [i \in 0..(L + 1) |-> IF i = L + 1 THEN n ELSE f[i]]
      OBVIOUS
    <3>5. \A i \in 0..(L + 1) : i # L + 1 => i \in 0..L /\ f[i] \in 0..n
      BY <2>1, <2>3, <2>4
    <3>6. /\ g \in [0..(L + 1) -> 0..n] /\ g[0] = 0 /\ g[L + 1] = n
          /\ \A i \in 0..L : g[i] = f[i]
      BY <2>1, <2>3, <2>4, <3>4, <3>5
    <3>7. ASSUME NEW i \in 1..(L + 1) PROVE IsBatch(r[i], es, g[i - 1], g[i])
      <4>1. i - 1 \in 0..L
        BY <2>3
      <4>2. g[i - 1] = f[i - 1]
        BY <3>6, <4>1
      <4>3. CASE i = L + 1
        <5>1. i - 1 = L
          BY <2>3, <4>3
        <5>. QED
          BY <2>4, <3>2, <3>3, <3>6, <4>2, <4>3, <5>1
      <4>4. CASE i # L + 1
        <5>1. i \in 1..L /\ i \in 0..L
          BY <2>3, <4>4
        <5>. QED
          BY <2>4, <3>3, <3>6, <4>2, <5>1
      <4>. QED
        BY <4>3, <4>4
    <3>8. Cut(r, es, n, g)
      BY <3>3, <3>6, <3>7 DEF Cut
    <3>. QED
      BY <1>2, <2>1, <2>5, <3>3, <3>8
  <2>. QED
    BY <2>6, <2>7
<1>5. Group(es) \in Good[Len(es)]
  BY <1>1, <1>3, <1>4, GroupLoop
<1>6. Group(es) \in Good[N] /\ N \in 0..N
  BY <1>1, <1>5
<1>. QED
  BY <1>1, <1>2, <1>6

\* So does NEW, which makes every element a batch.
LEMMA SinglesCut ==
    ASSUME NEW es \in Seq(Elements)
    PROVE  \E f : /\ Cut([i \in DOMAIN es |-> <<es[i]>>], es, Len(es), f)
                  /\ \A i \in 1..Len([j \in DOMAIN es |-> <<es[j]>>]) : f[i] = f[i - 1] + 1
<1>1. PICK N : N = Len(es) /\ N \in Nat /\ DOMAIN es = 1..N
  OBVIOUS
<1>2. PICK bs : bs = [i \in 1..N |-> <<es[i]>>]
  OBVIOUS
<1>3. \A i \in 1..N : <<es[i]>> \in Seq(Elements) /\ IsBatch(<<es[i]>>, es, i - 1, i)
  BY <1>1, SingleBatch
<1>4. bs \in Seq(Seq(Elements)) /\ Len(bs) = N
  <2>1. bs \in [1..N -> Seq(Elements)]
    BY <1>2, <1>3
  <2>. QED
    BY <1>1, <2>1
<1>5. PICK f : f = [i \in 0..N |-> i]
  OBVIOUS
<1>6. f \in [0..N -> 0..N] /\ f[0] = 0 /\ f[N] = N /\ \A i \in 1..N : f[i] = i /\ f[i - 1] = i - 1
  BY <1>1, <1>5
<1>7. \A i \in 1..N : IsBatch(bs[i], es, f[i - 1], f[i])
  BY <1>2, <1>3, <1>6
<1>8. Cut(bs, es, N, f)
  BY <1>4, <1>6, <1>7 DEF Cut
<1>9. \A i \in 1..N : f[i] = f[i - 1] + 1
  BY <1>1, <1>6
<1>. QED
  BY <1>1, <1>2, <1>4, <1>8, <1>9
----------------------------------------------------------------------------
(* Where the elements go, strategy by strategy *)

\* The elements D are inserted, and the call goes on at h.
Placed(t, h, s, ms, k, es, D) ==
    /\ Ordered(ms, k, es, D, t) /\ h \in 0..Len(t)
    /\ \A x \in OpsIn(ms) : At(ms, x) <= k => At(t, x) <= h
    /\ \A x \in New(es, D) : At(t, x) <= h
    /\ s # "EARLIEST" => \A x \in OpsIn(ms) : At(ms, x) > k => At(t, x) > h

\* The numbers of the first p + 1 elements.
LEMMA OneMore ==
    ASSUME NEW es, NEW p \in Nat
    PROVE  /\ 1..(p + 1) = (1..p) \cup {p + 1} /\ 1..p \in SUBSET Int /\ p + 1 \notin 1..p
           /\ New(es, 1..(p + 1)) = New(es, 1..p) \cup OpsOf(es[p + 1])
<1>1. 1..(p + 1) = (1..p) \cup {p + 1}
  OBVIOUS
<1>. QED
  BY <1>1 DEF New

\* The next element gets a moment of its own at the insertion point.
LEMMA PlacedLone ==
    ASSUME NEW ms, Circ(ms), NEW k \in Nat, NEW es, NEW s, NEW p \in Nat, NEW t, NEW h,
           Placed(t, h, s, ms, k, es, 1..p),
           NEW t2, Grown(t, t2, OpsOf(es[p + 1]), h + 1, h), Len(t2) = Len(t) + 1
    PROVE  Placed(t2, h + 1, s, ms, k, es, 1..(p + 1))
<1>1. PICK i, D, S : i = p + 1 /\ D = 1..p /\ S = OpsOf(es[i])
  OBVIOUS
<1>2. /\ 1..i = D \cup {i} /\ D \in SUBSET Int /\ i \notin D /\ i \in Int
      /\ New(es, 1..i) = New(es, D) \cup S
  <2>1. /\ 1..(p + 1) = (1..p) \cup {p + 1} /\ 1..p \in SUBSET Int /\ p + 1 \notin 1..p
        /\ New(es, 1..(p + 1)) = New(es, 1..p) \cup OpsOf(es[p + 1])
    BY OneMore
  <2>. QED
    BY <1>1, <2>1
<1>3. /\ Circ(t) /\ Circ(t2) /\ OpsIn(t) = OpsIn(ms) \cup New(es, D)
      /\ h \in Nat /\ h \in 0..Len(t) /\ Len(t) \in Nat
  BY <1>1, AtFacts DEF Placed, Ordered, Grown
<1>4. /\ \A x \in OpsIn(t) : At(t, x) \in Nat /\ At(t2, x) = IF At(t, x) > h THEN At(t, x) + 1 ELSE At(t, x)
      /\ \A x \in S : At(t2, x) = h + 1
  BY <1>1, <1>3, AtFacts DEF Grown
<1>5. \A j \in D : \A x \in OpsOf(es[j]) : x \in New(es, D) /\ At(t2, x) < h + 1 /\ ~(i < j)
  <2>1. ASSUME NEW j \in D, NEW x \in OpsOf(es[j]) PROVE x \in New(es, D) /\ At(t2, x) < h + 1 /\ ~(i < j)
    <3>1. x \in New(es, D)
      BY DEF New
    <3>2. x \in OpsIn(t) /\ At(t, x) <= h
      BY <1>1, <1>3, <3>1 DEF Placed
    <3>. QED
      BY <1>1, <1>3, <1>4, <3>1, <3>2
  <2>. QED
    BY <2>1
<1>6. \A x \in OpsIn(ms) : At(ms, x) <= k => At(t2, x) <= h
  <2>1. ASSUME NEW x \in OpsIn(ms), At(ms, x) <= k PROVE At(t2, x) <= h
    <3>1. At(t, x) <= h /\ x \in OpsIn(t)
      BY <1>3, <2>1 DEF Placed
    <3>. QED
      BY <1>3, <1>4, <3>1
  <2>. QED
    BY <2>1
<1>7. \A x \in OpsIn(ms) : x \in OpsIn(t2) /\ At(t2, x) \in Nat
  BY <1>3, AtFacts DEF Grown
<1>8. Ordered(ms, k, es, D \cup {i}, t2)
  <2>1. \A x \in OpsIn(ms) : At(ms, x) <= k => At(t2, x) < h + 1
    BY <1>3, <1>6, <1>7
  <2>2. Ordered(ms, k, es, D, t) /\ h \in Int /\ Grown(t, t2, OpsOf(es[i]), h + 1, h)
    BY <1>1, <1>3 DEF Placed
  <2>. QED
    BY <1>2, <1>5, <2>1, <2>2, OrderedStep
<1>9. h + 1 \in 0..Len(t2)
  BY <1>3
<1>10. \A x \in OpsIn(ms) : At(ms, x) <= k => At(t2, x) <= h + 1
  BY <1>3, <1>6, <1>7
<1>11. \A x \in New(es, 1..i) : At(t2, x) <= h + 1
  <2>1. \A x \in New(es, D) : At(t2, x) < h + 1 /\ At(t2, x) \in Nat
    <3>1. \A x \in New(es, D) : x \in OpsIn(t) /\ At(t, x) <= h
      BY <1>1, <1>3 DEF Placed
    <3>. QED
      BY <1>3, <1>4, <3>1
  <2>. QED
    BY <1>2, <1>3, <1>4, <2>1
<1>12. s # "EARLIEST" => \A x \in OpsIn(ms) : At(ms, x) > k => At(t2, x) > h + 1
  <2>1. ASSUME s # "EARLIEST", NEW x \in OpsIn(ms), At(ms, x) > k PROVE At(t2, x) > h + 1
    <3>1. At(t, x) > h /\ x \in OpsIn(t)
      BY <1>3, <2>1 DEF Placed
    <3>. QED
      BY <1>3, <1>4, <3>1
  <2>. QED
    BY <2>1
<1>. QED
  BY <1>1, <1>2, <1>8, <1>9, <1>10, <1>11, <1>12 DEF Placed

\* An empty moment is made at the insertion point.
LEMMA PlacedEmpty ==
    ASSUME NEW ms, Circ(ms), NEW k \in Nat, NEW es, NEW s, NEW D, NEW t, NEW h,
           Placed(t, h, s, ms, k, es, D), NEW t2, Grown(t, t2, {}, h + 1, h), Len(t2) = Len(t) + 1
    PROVE  Placed(t2, h + 1, s, ms, k, es, D) /\ Placed(t2, h, s, ms, k, es, D)
<1>1. /\ Circ(t) /\ Circ(t2) /\ OpsIn(t) = OpsIn(ms) \cup New(es, D)
      /\ h \in Nat /\ h \in 0..Len(t) /\ Len(t) \in Nat
  BY AtFacts DEF Placed, Ordered, Grown
<1>2. \A x \in OpsIn(t) : At(t, x) \in Nat /\ At(t2, x) = IF At(t, x) > h THEN At(t, x) + 1 ELSE At(t, x)
  BY <1>1, AtFacts DEF Grown
<1>3. Ordered(ms, k, es, D, t2)
  BY <1>1, OrderedShift DEF Placed
<1>4. ASSUME NEW x \in OpsIn(ms), At(ms, x) <= k PROVE At(t2, x) <= h /\ At(t2, x) <= h + 1
  <2>1. At(t, x) <= h /\ x \in OpsIn(t)
    BY <1>1, <1>4 DEF Placed
  <2>. QED
    BY <1>1, <1>2, <2>1
<1>5. ASSUME NEW x \in New(es, D) PROVE At(t2, x) <= h /\ At(t2, x) <= h + 1
  <2>1. At(t, x) <= h /\ x \in OpsIn(t)
    BY <1>1 DEF Placed
  <2>. QED
    BY <1>1, <1>2, <2>1
<1>6. ASSUME s # "EARLIEST", NEW x \in OpsIn(ms), At(ms, x) > k PROVE At(t2, x) > h + 1 /\ At(t2, x) > h
  <2>1. At(t, x) > h /\ x \in OpsIn(t)
    BY <1>1, <1>6 DEF Placed
  <2>. QED
    BY <1>1, <1>2, <2>1
<1>7. h + 1 \in 0..Len(t2) /\ h \in 0..Len(t2)
  BY <1>1
<1>. QED
  BY <1>3, <1>4, <1>5, <1>6, <1>7 DEF Placed

\* The next operation joins the moment before the insertion point, which does not block it.
LEMMA PlacedJoin ==
    ASSUME NEW ms, Circ(ms), NEW k \in Nat, NEW es, NEW s, NEW p \in Nat, NEW t, NEW h,
           Placed(t, h, s, ms, k, es, 1..p), h # 0, NEW y, OpsOf(es[p + 1]) = {y}, ~Blocks(t[h], y),
           NEW t2, Grown(t, t2, OpsOf(es[p + 1]), h, Len(t)), Len(t2) = Len(t)
    PROVE  Placed(t2, h, s, ms, k, es, 1..(p + 1))
<1>1. PICK i, D, S : i = p + 1 /\ D = 1..p /\ S = OpsOf(es[i])
  OBVIOUS
<1>2. /\ 1..i = D \cup {i} /\ D \in SUBSET Int /\ i \notin D /\ i \in Int
      /\ New(es, 1..i) = New(es, D) \cup S
  <2>1. /\ 1..(p + 1) = (1..p) \cup {p + 1} /\ 1..p \in SUBSET Int /\ p + 1 \notin 1..p
        /\ New(es, 1..(p + 1)) = New(es, 1..p) \cup OpsOf(es[p + 1])
    BY OneMore
  <2>. QED
    BY <1>1, <2>1
<1>3. /\ Circ(t) /\ Circ(t2) /\ OpsIn(t) = OpsIn(ms) \cup New(es, D)
      /\ h \in Nat /\ h \in 1..Len(t) /\ Len(t) \in Nat
  BY <1>1, AtFacts DEF Placed, Ordered, Grown
<1>4. /\ \A x \in OpsIn(t) : At(t, x) \in Nat /\ At(t2, x) = At(t, x)
      /\ \A x \in S : At(t2, x) = h
  BY <1>1, <1>3, AtFacts DEF Grown
<1>5. ASSUME NEW x \in OpsIn(t), At(t, x) <= h, Clash(x, y) PROVE At(t2, x) < h
  <2>1. At(t, x) # h
    BY <1>3, <1>5, BlocksAt
  <2>. QED
    BY <1>3, <1>4, <1>5, <2>1
<1>6. ASSUME NEW j \in D, NEW x \in OpsOf(es[j]), Clash(x, y) PROVE At(t2, x) < h /\ ~(i < j)
  <2>1. x \in New(es, D)
    BY DEF New
  <2>2. x \in OpsIn(t) /\ At(t, x) <= h
    BY <1>1, <1>3, <2>1 DEF Placed
  <2>. QED
    BY <1>1, <1>5, <1>6, <2>2
<1>7. ASSUME NEW x \in OpsIn(ms), At(ms, x) <= k, Clash(x, y) PROVE At(t2, x) < h
  <2>1. At(t, x) <= h /\ x \in OpsIn(t)
    BY <1>3, <1>7 DEF Placed
  <2>. QED
    BY <1>5, <1>7, <2>1
<1>8. Ordered(ms, k, es, D \cup {i}, t2)
  <2>1. Ordered(ms, k, es, D, t) /\ Len(t) \in Int /\ Grown(t, t2, OpsOf(es[i]), h, Len(t)) /\ OpsOf(es[i]) = {y}
    BY <1>1, <1>3 DEF Placed
  <2>. QED
    <3>1. \A x \in OpsIn(ms), z \in OpsOf(es[i]) : At(ms, x) <= k /\ Clash(x, z) => At(t2, x) < h
      BY <1>7, <2>1
    <3>2. \A j \in D : \A x \in OpsOf(es[j]), z \in OpsOf(es[i]) :
             Clash(x, z) => (j < i => At(t2, x) < h) /\ (i < j => h < At(t2, x))
      BY <1>6, <2>1
    <3>. QED
      BY <1>2, <2>1, <3>1, <3>2, OrderedStep
<1>9. \A x \in OpsIn(ms) : x \in OpsIn(t) /\ At(t2, x) = At(t, x)
  BY <1>3, <1>4
<1>10. \A x \in New(es, 1..i) : At(t2, x) <= h
  <2>1. \A x \in New(es, D) : x \in OpsIn(t) /\ At(t, x) <= h
    BY <1>1, <1>3 DEF Placed
  <2>. QED
    BY <1>2, <1>3, <1>4, <2>1
<1>. QED
  BY <1>1, <1>2, <1>3, <1>8, <1>9, <1>10 DEF Placed

\* In a batch that starts after element p, element i is placed with EARLIEST; m is the
\* last moment used.
Packed(t, h, m, ms, k, es, p, i) ==
    /\ Ordered(ms, k, es, 1..i, t) /\ h \in 0..Len(t) /\ m \in Nat
    /\ \A x \in OpsIn(ms) : At(ms, x) <= k => At(t, x) <= h
    /\ \A x \in New(es, 1..p) : At(t, x) <= h
    /\ \A x \in New(es, 1..i) : At(t, x) <= Greater(h, m)

\* The next operation of the batch goes to the place that the scan finds.
LEMMA PackedJoin ==
    ASSUME NEW ms, Circ(ms), NEW k \in Nat, NEW es, NEW p \in Nat, NEW i \in Nat, p <= i, NEW t, NEW h, NEW m,
           Packed(t, h, m, ms, k, es, p, i), NEW y, OpsOf(es[i + 1]) = {y},
           \A j \in (p + 1)..i : \A x \in OpsOf(es[j]) : ~Clash(x, y),
           NEW n \in Nat, n = EarliestAvailable(t, y, h) + 1,
           NEW t2, Grown(t, t2, OpsOf(es[i + 1]), n, Len(t)), Len(t2) >= Len(t), Len(t2) \in Nat
    PROVE  Packed(t2, h, Greater(n, m), ms, k, es, p, i + 1)
<1>1. PICK l, D, S : l = i + 1 /\ D = 1..i /\ S = OpsOf(es[l])
  OBVIOUS
<1>2. /\ 1..l = D \cup {l} /\ D \in SUBSET Int /\ l \notin D /\ l \in Int
      /\ New(es, 1..l) = New(es, D) \cup S
  <2>1. /\ 1..(i + 1) = (1..i) \cup {i + 1} /\ 1..i \in SUBSET Int /\ i + 1 \notin 1..i
        /\ New(es, 1..(i + 1)) = New(es, 1..i) \cup OpsOf(es[i + 1])
    BY OneMore
  <2>. QED
    BY <1>1, <2>1
<1>3. /\ Circ(t) /\ Circ(t2) /\ OpsIn(t) = OpsIn(ms) \cup New(es, D)
      /\ h \in Nat /\ h \in 0..Len(t) /\ Len(t) \in Nat /\ m \in Nat
  BY <1>1, AtFacts DEF Packed, Ordered, Grown
<1>4. /\ \A x \in OpsIn(t) : At(t, x) \in Nat /\ At(t2, x) = At(t, x)
      /\ \A x \in S : At(t2, x) = n
  BY <1>1, <1>3, AtFacts DEF Grown
<1>5. ASSUME NEW x \in OpsIn(t), At(t, x) <= h, Clash(x, y) PROVE At(t2, x) < n
  <2>1. At(t, x) <= EarliestAvailable(t, y, h) /\ EarliestAvailable(t, y, h) \in 0..h
    BY <1>3, <1>5, ScanFacts
  <2>. QED
    BY <1>3, <1>4, <2>1
<1>6. ASSUME NEW j \in D, NEW x \in OpsOf(es[j]), Clash(x, y) PROVE At(t2, x) < n /\ ~(l < j)
  <2>1. j \in 1..p
    BY <1>1, <1>6
  <2>2. x \in New(es, 1..p) /\ x \in New(es, D)
    BY <2>1 DEF New
  <2>3. x \in OpsIn(t) /\ At(t, x) <= h
    BY <1>3, <2>2 DEF Packed
  <2>. QED
    BY <1>1, <1>5, <1>6, <2>3
<1>7. ASSUME NEW x \in OpsIn(ms), At(ms, x) <= k, Clash(x, y) PROVE At(t2, x) < n
  <2>1. At(t, x) <= h /\ x \in OpsIn(t)
    BY <1>3, <1>7 DEF Packed
  <2>. QED
    BY <1>5, <1>7, <2>1
<1>8. Ordered(ms, k, es, D \cup {l}, t2)
  <2>1. Ordered(ms, k, es, D, t) /\ Len(t) \in Int /\ Grown(t, t2, OpsOf(es[l]), n, Len(t)) /\ OpsOf(es[l]) = {y}
    <3>1. Ordered(ms, k, es, D, t)
      BY <1>1 DEF Packed
    <3>2. OpsOf(es[l]) = {y}
      BY <1>1
    <3>3. Grown(t, t2, OpsOf(es[l]), n, Len(t))
      BY <1>1
    <3>. QED
      BY <1>3, <3>1, <3>2, <3>3
  <2>2. \A x \in OpsIn(ms), z \in OpsOf(es[l]) : At(ms, x) <= k /\ Clash(x, z) => At(t2, x) < n
    BY <1>7, <2>1
  <2>3. \A j \in D : \A x \in OpsOf(es[j]), z \in OpsOf(es[l]) :
           Clash(x, z) => (j < l => At(t2, x) < n) /\ (l < j => n < At(t2, x))
    BY <1>6, <2>1
  <2>. QED
    BY <1>2, <2>1, <2>2, <2>3, OrderedStep
<1>9. \A x \in OpsIn(ms) : x \in OpsIn(t) /\ At(t2, x) = At(t, x)
  BY <1>3, <1>4
<1>10. \A x \in New(es, 1..l) : At(t2, x) <= Greater(h, Greater(n, m))
  <2>1. \A x \in New(es, D) : x \in OpsIn(t) /\ At(t, x) <= Greater(h, m)
    BY <1>1, <1>3 DEF Packed
  <2>2. Greater(h, Greater(n, m)) >= Greater(h, m) /\ Greater(h, Greater(n, m)) >= n /\ Greater(h, Greater(n, m)) \in Nat
        /\ Greater(h, m) \in Nat
    BY <1>3 DEF Greater
  <2>3. ASSUME NEW x \in New(es, D) PROVE At(t2, x) <= Greater(h, Greater(n, m))
    BY <1>4, <2>1, <2>2
  <2>. QED
    BY <1>2, <1>4, <2>2, <2>3
<1>11. \A x \in New(es, 1..p) : At(t2, x) <= h
  <2>1. \A x \in New(es, 1..p) : x \in New(es, D)
    BY <1>1 DEF New
  <2>. QED
    BY <1>3, <1>4, <2>1 DEF Packed
<1>12. Greater(n, m) \in Nat /\ h \in 0..Len(t2)
  BY <1>3 DEF Greater
<1>13. \A x \in OpsIn(ms) : At(ms, x) <= k => At(t2, x) <= h
  BY <1>9 DEF Packed
<1>. QED
  BY <1>1, <1>2, <1>8, <1>10, <1>11, <1>12, <1>13 DEF Packed
----------------------------------------------------------------------------
(* Batches with the strategies that insert at one place *)

\* Between two batches.
Between(c, s, ms, k, es, D) ==
    /\ c \in State /\ ~c.raised /\ c.cache = NoCache
    /\ c.strategy = s \/ (s = "NEW_THEN_INLINE" /\ c.strategy = "INLINE")
    /\ Placed(c.ms, c.k, s, ms, k, es, D)

\* A circuit without a cache.
LEMMA NoCacheOff == NoCache \in Plain!CacheType /\ NoCache.on = FALSE
BY DEF NoCache, EmptyCache, Plain!CacheType

\* What is still to be inserted is not in the circuit.
LEMMA NewAbsent ==
    ASSUME NEW ms, NEW es, Given(es, ms), NEW D \in SUBSET (1..Len(es)), NEW i \in 1..Len(es), i \notin D,
           NEW t, OpsIn(t) = OpsIn(ms) \cup New(es, D)
    PROVE  es[i] \in Elements /\ OpsOf(es[i]) \cap OpsIn(t) = {}
<1>1. es \in Seq(Elements) /\ DOMAIN es = 1..Len(es)
  BY DEF Given
<1>2. ASSUME NEW j \in D PROVE OpsOf(es[i]) \cap OpsOf(es[j]) = {}
  BY <1>1 DEF Given, Proper
<1>3. OpsOf(es[i]) \cap New(es, D) = {}
  BY <1>2 DEF New
<1>. QED
  BY <1>1, <1>3 DEF Given

\* An operation that joins a moment blocks only what it clashes with.
LEMMA BlocksGrown ==
    ASSUME NEW ms, Circ(ms), NEW t, NEW x, NEW n, Grown(ms, t, {x}, n, Len(ms)), NEW y, ~Clash(x, y),
           NEW j \in 1..Len(t), Blocks(t[j], y)
    PROVE  j \in 1..Len(ms) /\ Blocks(ms[j], y)
<1>1. Circ(t) /\ OpsIn(t) = OpsIn(ms) \cup {x}
  BY DEF Grown
<1>2. PICK z \in OpsIn(t) : At(t, z) = j /\ Clash(z, y)
  BY <1>1, BlocksAt
<1>3. z \in OpsIn(ms)
  BY <1>1, <1>2
<1>4. At(ms, z) \in 1..Len(ms) /\ Len(ms) \in Nat
  BY <1>3, AtFacts
<1>5. At(ms, z) = j
  BY <1>2, <1>3, <1>4 DEF Grown
<1>. QED
  BY <1>2, <1>3, <1>4, <1>5, BlocksAt

\* A new moment blocks nothing.
LEMMA EmptyBlocks ==
    ASSUME NEW ms, Circ(ms), NEW t, NEW h \in Nat, Grown(ms, t, {}, h + 1, h), h + 1 \in 1..Len(t), NEW y
    PROVE  ~Blocks(t[h + 1], y)
<1>1. Circ(t) /\ OpsIn(t) = OpsIn(ms)
  BY DEF Grown
<1>2. \A z \in OpsIn(t) : At(t, z) # h + 1
  <2>1. \A z \in OpsIn(ms) : At(ms, z) \in Nat
    BY AtFacts
  <2>. QED
    BY <1>1, <2>1 DEF Grown
<1>. QED
  BY <1>1, <1>2, BlocksAt

\* A batch of one element.
LEMMA LoneElements ==
    ASSUME NEW c, NEW b, Len(b) = 1
    PROVE  InsertElements(c, b) = InsertElement(c, b[1])
<1>1. PICK Good : Good = [n \in 0..1 |-> IF n = 0 THEN {c} ELSE {InsertElement(c, b[1])}]
  OBVIOUS
<1>2. c \in Good[0] /\ \A n \in 1..Len(b) : \A d \in Good[n - 1] : InsertElement(d, b[n]) \in Good[n]
  BY <1>1
<1>3. InsertElements(c, b) \in Good[1]
  BY <1>2, ElementsStay
<1>. QED
  BY <1>1, <1>3

\* A batch of one element that gets its own moment.
LEMMA LoneBatch ==
    ASSUME NEW ms, Circ(ms), NEW k \in Nat, NEW es, Given(es, ms), NEW s \in Strategies, NEW b, NEW p \in Nat,
           IsBatch(b, es, p, p + 1), NEW c, Between(c, s, ms, k, es, 1..p),
           b[1].whole \/ c.strategy \in {"NEW", "NEW_THEN_INLINE"}
    PROVE  Between(InsertBatch(c, b), s, ms, k, es, 1..(p + 1))
<1>1. /\ p \in Nat /\ p + 1 \in 1..Len(es) /\ Len(b) = 1 /\ b[1] = es[p + 1]
      /\ 1..p \in SUBSET (1..Len(es)) /\ p + 1 \notin 1..p
  <2>1. es \in Seq(Elements) /\ Len(es) \in Nat
    BY DEF Given
  <2>. QED
    BY <2>1 DEF IsBatch
<1>2. /\ c \in State /\ ~c.raised /\ c.cache = NoCache /\ Circ(c.ms) /\ c.k \in 0..Len(c.ms) /\ c.k \in Nat
      /\ OpsIn(c.ms) = OpsIn(ms) \cup New(es, 1..p) /\ Len(c.ms) \in Nat
      /\ c.ms \in Seq(Moments)
  BY AtFacts DEF Between, Placed, Ordered, State
<1>3. es[p + 1] \in Elements /\ OpsOf(es[p + 1]) \cap OpsIn(c.ms) = {}
  BY <1>1, <1>2, NewAbsent
<1>4. ~NeedsMoment(c, b)
  BY DEF NeedsMoment
<1>5. PICK c0 : c0 = [c EXCEPT !.top = 1]
  OBVIOUS
<1>6. /\ c0 \in State /\ c0.ms = c.ms /\ c0.k = c.k /\ c0.strategy = c.strategy /\ c0.top = 1
      /\ c0.cache = c.cache /\ c0.raised = c.raised
  BY <1>2, <1>5 DEF State
<1>7. InsertBatch(c, b) = [InsertElement(c0, es[p + 1]) EXCEPT !.k = Greater(@, InsertElement(c0, es[p + 1]).top)]
  <2>1. InsertElements(c0, b) = InsertElement(c0, es[p + 1])
    BY <1>1, LoneElements
  <2>. QED
    BY <1>2, <1>4, <1>5, <2>1 DEF InsertBatch, Finished
<1>8. PICK t : /\ InsertElement(c0, es[p + 1]) = Turned(c0, t, c0.k + 1)
               /\ Grown(c0.ms, t, OpsOf(es[p + 1]), c0.k + 1, c0.k) /\ Len(t) = Len(c0.ms) + 1
  BY <1>1, <1>2, <1>3, <1>6, NoCacheOff, InsertsMoment
<1>9. t \in Seq(Moments)
  BY <1>8 DEF Grown, Circ
<1>10. PICK d : d = Turned(c0, t, c.k + 1)
  OBVIOUS
<1>11. /\ d \in State /\ d.ms = t /\ d.top = Greater(c.k + 1, 1) /\ d.cache = NoCache /\ d.raised = c.raised
       /\ d.strategy = IF c.strategy = "NEW_THEN_INLINE" THEN "INLINE" ELSE c.strategy
       /\ d.k = IF c.strategy = "NEW_THEN_INLINE" THEN c.k + 1 ELSE c.k
  <2>1. PICK n \in Nat : n = c.k + 1
    BY <1>2
  <2>2. /\ Turned(c0, t, n) \in State
        /\ Turned(c0, t, n).ms = t /\ Turned(c0, t, n).top = Greater(n, c0.top)
        /\ Turned(c0, t, n).cache = c0.cache /\ Turned(c0, t, n).raised = c0.raised
        /\ Turned(c0, t, n).strategy = IF c0.strategy = "NEW_THEN_INLINE" THEN "INLINE" ELSE c0.strategy
        /\ Turned(c0, t, n).k = IF c0.strategy = "NEW_THEN_INLINE" THEN c0.k + 1 ELSE c0.k
    BY <1>6, <1>9, TurnedFields
  <2>. QED
    BY <1>2, <1>6, <1>10, <2>1, <2>2
<1>12. Greater(d.k, d.top) = c.k + 1 /\ Greater(d.k, d.top) \in Nat
  BY <1>2, <1>11 DEF Greater
<1>13. PICK r : r = [d EXCEPT !.k = Greater(@, d.top)]
  OBVIOUS
<1>14. r \in State /\ r.ms = t /\ r.k = c.k + 1 /\ r.cache = NoCache /\ r.raised = c.raised /\ r.strategy = d.strategy
  BY <1>11, <1>12, <1>13 DEF State
<1>15. Placed(t, c.k + 1, s, ms, k, es, 1..(p + 1))
  <2>1. Placed(c.ms, c.k, s, ms, k, es, 1..p)
    BY DEF Between
  <2>. QED
    BY <1>1, <1>6, <1>8, <2>1, PlacedLone
<1>16. r.strategy = s \/ (s = "NEW_THEN_INLINE" /\ r.strategy = "INLINE")
  BY <1>11, <1>14 DEF Between
<1>17. InsertBatch(c, b) = r
  BY <1>6, <1>7, <1>8, <1>10, <1>13
<1>. QED
  BY <1>2, <1>14, <1>15, <1>16, <1>17 DEF Between

\* After n operations of a batch of operations that all go into one moment.
Filling(d, s, ms, k, es, p, b, n) ==
    /\ Between(d, s, ms, k, es, 1..(p + n)) /\ d.strategy = "INLINE" /\ d.k # 0 /\ d.top <= d.k
    /\ \A j \in (n + 1)..Len(b) : ~Blocks(d.ms[d.k], b[j].op)

\* The elements of a batch of operations.
LEMMA BatchOfOps ==
    ASSUME NEW ms, NEW es, Given(es, ms), NEW b, NEW p \in Nat, NEW q \in Nat, IsBatch(b, es, p, q), ~b[1].whole,
           NEW j \in 1..(q - p)
    PROVE  /\ q <= Len(es) /\ Len(es) \in Nat /\ Len(b) = q - p
           /\ b[j] = es[p + j] /\ p + j \in 1..Len(es) /\ ~b[j].whole
           /\ b[j].op \in Ops /\ b[j] \in Elements
<1>1. /\ q <= Len(es) /\ Len(es) \in Nat /\ Len(b) = q - p /\ es \in Seq(Elements)
      /\ b[j] = es[p + j] /\ p + j \in 1..Len(es) /\ p + j \in (p + 1)..q
  BY DEF IsBatch, Given
<1>2. b[j] \in Elements
  BY <1>1
<1>3. ~b[j].whole
  <2>1. CASE q = p + 1
    <3>1. j = 1
      BY <2>1
    <3>. QED
      BY <3>1
  <2>2. CASE q # p + 1
    <3>1. \A i \in (p + 1)..q : ~es[i].whole
      BY <2>2 DEF IsBatch
    <3>. QED
      BY <1>1, <3>1
  <2>. QED
    BY <2>1, <2>2
<1>. QED
  BY <1>1, <1>2, <1>3, ElementFacts

\* No two operations of a batch clash.
LEMMA BatchOpsFit ==
    ASSUME NEW ms, NEW es, Given(es, ms), NEW b, NEW p \in Nat, NEW q \in Nat, IsBatch(b, es, p, q),
           NEW i \in 1..(q - p), NEW j \in 1..(q - p), i # j
    PROVE  ~Clash(b[i].op, b[j].op)
<1>1. \A h \in 1..(q - p) : b[h] = es[p + h] /\ p + h \in (p + 1)..q
  BY DEF IsBatch
<1>2. p + i # p + j /\ q # p + 1
  OBVIOUS
<1>3. \A g, h \in (p + 1)..q : g # h => ~Clash(es[g].op, es[h].op)
  BY <1>2 DEF IsBatch
<1>. QED
  BY <1>1, <1>2, <1>3

\* One more operation goes into the moment.
LEMMA FillingStep ==
    ASSUME NEW ms, Circ(ms), NEW k \in Nat, NEW es, Given(es, ms), NEW s \in Strategies, NEW b, NEW p \in Nat, NEW q \in Nat,
           IsBatch(b, es, p, q), ~b[1].whole, NEW n \in 1..(q - p), NEW d,
           Filling(d, s, ms, k, es, p, b, n - 1)
    PROVE  Filling(InsertElement(d, b[n]), s, ms, k, es, p, b, n)
<1>1. PICK e, i : e = b[n] /\ i = p + (n - 1)
  OBVIOUS
<1>2. /\ p \in Nat /\ q \in Nat /\ i \in Nat /\ i + 1 = p + n /\ e = es[i + 1] /\ i + 1 \in 1..Len(es) /\ n \in Nat
      /\ Len(b) = q - p /\ ~e.whole /\ e.op \in Ops /\ OpsOf(es[i + 1]) = {e.op} /\ OpsOf(e) = {e.op}
  <2>4. Len(b) = q - p /\ b[n] = es[p + n] /\ p + n \in 1..Len(es)
    BY DEF IsBatch, Given
  <2>1. ~b[n].whole /\ b[n].op \in Ops /\ b[n] \in Elements
    BY BatchOfOps
  <2>3. OpsOf(b[n]) = {b[n].op}
    BY <2>1, ElementFacts
  <2>2. i \in Nat /\ i + 1 = p + n /\ n \in Nat
    BY <1>1
  <2>. QED
    BY <1>1, <2>1, <2>2, <2>3, <2>4
<1>3. /\ Between(d, s, ms, k, es, 1..i) /\ d.strategy = "INLINE" /\ d.k # 0 /\ d.top <= d.k
      /\ \A j \in n..Len(b) : ~Blocks(d.ms[d.k], b[j].op)
  <2>1. (n - 1) + 1 = n
    BY <1>2
  <2>. QED
    BY <1>1, <2>1 DEF Filling
<1>4. /\ d \in State /\ ~d.raised /\ d.cache = NoCache /\ Circ(d.ms) /\ d.k \in 1..Len(d.ms) /\ d.k \in Nat
      /\ OpsIn(d.ms) = OpsIn(ms) \cup New(es, 1..i) /\ Len(d.ms) \in Nat /\ d.top \in Nat
      /\ d.k \in 0..Len(d.ms) /\ Placed(d.ms, d.k, s, ms, k, es, 1..i)
  BY <1>3, AtFacts DEF Between, Placed, Ordered, State
<1>5. e \in Elements /\ OpsOf(e) \cap OpsIn(d.ms) = {}
  <2>1. 1..i \in SUBSET (1..Len(es)) /\ i + 1 \notin 1..i
    BY <1>2
  <2>. QED
    BY <1>2, <1>4, <2>1, NewAbsent
<1>6. ~Blocks(d.ms[d.k], e.op) /\ ~Overlaps(d.ms[d.k], e.op)
  <2>1. n \in n..Len(b)
    BY <1>2
  <2>. QED
    BY <1>1, <1>3, <2>1 DEF Blocks
<1>7. PICK t : t = Joined(d.ms, d.k, e.op)
  OBVIOUS
<1>8. /\ InsertElement(d, e) = Turned(d, t, d.k)
      /\ Grown(d.ms, t, OpsOf(e), d.k, Len(d.ms)) /\ Len(t) = Greater(d.k, Len(d.ms))
  <2>1. d.k \in 1..(Len(d.ms) + 1) /\ d.strategy \in {"INLINE", "EARLIEST"}
    BY <1>3, <1>4
  <2>2. PICK m : /\ m = d.k /\ m = IF d.strategy = "INLINE" THEN d.k ELSE EarliestAvailable(d.ms, e.op, d.k) + 1
                 /\ m \in 1..(Len(d.ms) + 1)
    BY <1>3, <2>1
  <2>3. ~d.cache.on /\ ~Overlaps(d.ms[m], e.op)
    BY <1>4, <1>6, <2>2, NoCacheOff
  <2>4. /\ InsertElement(d, e) = Turned(d, Joined(d.ms, m, e.op), m)
        /\ Grown(d.ms, Joined(d.ms, m, e.op), OpsOf(e), m, Len(d.ms))
        /\ Len(Joined(d.ms, m, e.op)) = Greater(m, Len(d.ms))
    <3>1. d \in State /\ ~d.raised /\ Circ(d.ms) /\ d.k \in 0..Len(d.ms)
      BY <1>4
    <3>2. e \in Elements /\ OpsOf(e) \cap OpsIn(d.ms) = {} /\ ~e.whole
      BY <1>2, <1>5
    <3>. QED
      BY <2>1, <2>2, <2>3, <3>1, <3>2, InsertsInto
  <2>. QED
    BY <1>7, <2>2, <2>4
<1>9. Len(t) = Len(d.ms) /\ t \in Seq(Moments) /\ Circ(t)
  BY <1>4, <1>8 DEF Greater, Grown, Circ
<1>10. PICK r : r = InsertElement(d, e)
  OBVIOUS
<1>11. /\ r \in State /\ r.ms = t /\ r.top = Greater(d.k, d.top) /\ r.cache = NoCache /\ ~r.raised
       /\ r.strategy = "INLINE" /\ r.k = d.k
  <2>1. PICK m \in Nat : m = d.k
    BY <1>4
  <2>2. /\ Turned(d, t, m) \in State
        /\ Turned(d, t, m).ms = t /\ Turned(d, t, m).top = Greater(m, d.top)
        /\ Turned(d, t, m).cache = d.cache /\ Turned(d, t, m).raised = d.raised
        /\ Turned(d, t, m).strategy = IF d.strategy = "NEW_THEN_INLINE" THEN "INLINE" ELSE d.strategy
        /\ Turned(d, t, m).k = IF d.strategy = "NEW_THEN_INLINE" THEN d.k + 1 ELSE d.k
    <3>1. d \in State /\ t \in Seq(Moments)
      BY <1>4, <1>9
    <3>. QED
      BY <3>1, TurnedFields
  <2>. QED
    BY <1>3, <1>4, <1>8, <1>10, <2>1, <2>2
<1>12. Placed(t, d.k, s, ms, k, es, 1..(i + 1))
  BY <1>2, <1>3, <1>4, <1>6, <1>8, <1>9, PlacedJoin
<1>13. r.top <= r.k
  BY <1>3, <1>4, <1>11 DEF Greater
<1>14. \A j \in (n + 1)..Len(b) : ~Blocks(t[d.k], b[j].op)
  <2>1. ASSUME NEW j \in (n + 1)..Len(b), Blocks(t[d.k], b[j].op) PROVE FALSE
    <3>1. j \in 1..(q - p) /\ j # n /\ j \in n..Len(b)
      BY <1>2
    <3>2. ~Clash(e.op, b[j].op)
      BY <1>1, <3>1, BatchOpsFit
    <3>3. Grown(d.ms, t, {e.op}, d.k, Len(d.ms)) /\ d.k \in 1..Len(t)
      BY <1>2, <1>4, <1>8, <1>9
    <3>4. Blocks(d.ms[d.k], b[j].op)
      BY <1>4, <2>1, <3>2, <3>3, BlocksGrown
    <3>. QED
      BY <1>3, <3>1, <3>4
  <2>. QED
    BY <2>1
<1>15. Between(r, s, ms, k, es, 1..(i + 1))
  BY <1>3, <1>11, <1>12 DEF Between
<1>. QED
  BY <1>1, <1>2, <1>10, <1>11, <1>13, <1>14, <1>15, <1>4 DEF Filling

\* The batch is inserted.
LEMMA FilledBatch ==
    ASSUME NEW ms, NEW k, NEW es, NEW s, NEW b, NEW p \in Nat, NEW q \in Nat, NEW d,
           Filling(d, s, ms, k, es, p, b, q - p)
    PROVE  Between([d EXCEPT !.k = Greater(@, d.top)], s, ms, k, es, 1..q)
<1>1. p + (q - p) = q
  OBVIOUS
<1>2. Between(d, s, ms, k, es, 1..q) /\ d.top <= d.k
  BY <1>1 DEF Filling
<1>3. d \in State /\ d.k \in Nat /\ d.top \in Nat
  BY <1>2 DEF Between, State
<1>4. Greater(d.k, d.top) = d.k
  BY <1>2, <1>3 DEF Greater
<1>5. [d EXCEPT !.k = Greater(@, d.top)] = d
  BY <1>3, <1>4 DEF State
<1>. QED
  BY <1>2, <1>5

\* A batch of operations with INLINE.
LEMMA InlineBatch ==
    ASSUME NEW ms, Circ(ms), NEW k \in Nat, NEW es, Given(es, ms), NEW s \in Strategies, NEW b, NEW p \in Nat, NEW q \in Nat,
           IsBatch(b, es, p, q), ~b[1].whole, NEW c, Between(c, s, ms, k, es, 1..p), c.strategy = "INLINE"
    PROVE  Between(InsertBatch(c, b), s, ms, k, es, 1..q)
<1>1. PICK N : N = q - p
  OBVIOUS
<1>2. N \in Nat /\ N # 0 /\ Len(b) = N /\ DOMAIN b = 1..N /\ 1 \in 1..N /\ p + 0 = p
  BY <1>1 DEF IsBatch
<1>3. /\ c \in State /\ ~c.raised /\ c.cache = NoCache /\ Circ(c.ms) /\ c.k \in 0..Len(c.ms) /\ c.k \in Nat
      /\ Len(c.ms) \in Nat /\ c.ms \in Seq(Moments) /\ Placed(c.ms, c.k, s, ms, k, es, 1..p)
  BY AtFacts DEF Between, Placed, Ordered, State
<1>4. PICK c1 : c1 = IF NeedsMoment(c, b)
                     THEN [c EXCEPT !.ms = InsertAt(@, c.k + 1, {}), !.k = IF c.strategy = "INLINE" THEN @ + 1 ELSE @]
                     ELSE c
  OBVIOUS
<1>5. /\ c1 \in State /\ ~c1.raised /\ c1.cache = NoCache /\ c1.strategy = "INLINE"
      /\ Placed(c1.ms, c1.k, s, ms, k, es, 1..p) /\ c1.k # 0
      /\ \A j \in 1..N : ~Blocks(c1.ms[c1.k], b[j].op)
  <2>1. CASE NeedsMoment(c, b)
    <3>1. PICK t : t = InsertAt(c.ms, c.k + 1, {})
      OBVIOUS
    <3>2. Grown(c.ms, t, {}, c.k + 1, c.k) /\ Len(t) = Len(c.ms) + 1
      BY <1>3, <3>1, SmallMoments, InsertGrows
    <3>3. t \in Seq(Moments) /\ c.k + 1 \in 1..Len(t)
      BY <1>3, <3>2 DEF Grown, Circ
    <3>4. c1 = [c EXCEPT !.ms = t, !.k = c.k + 1]
      BY <1>3, <1>4, <2>1, <3>1 DEF State
    <3>5. /\ c1 \in State /\ ~c1.raised /\ c1.cache = NoCache /\ c1.strategy = "INLINE"
          /\ c1.ms = t /\ c1.k = c.k + 1
      <4>1. c.k + 1 \in Nat
        BY <1>3
      <4>. QED
        BY <1>3, <3>3, <3>4, <4>1 DEF State
    <3>6. Placed(t, c.k + 1, s, ms, k, es, 1..p)
      BY <1>3, <3>2, PlacedEmpty
    <3>7. \A y : ~Blocks(t[c.k + 1], y)
      BY <1>3, <3>2, <3>3, EmptyBlocks
    <3>. QED
      BY <1>3, <3>5, <3>6, <3>7
  <2>2. CASE ~NeedsMoment(c, b)
    <3>1. c1 = c
      BY <1>4, <2>2
    <3>2. ASSUME NEW j \in 1..N PROVE c.k # 0 /\ ~Blocks(c.ms[c.k], b[j].op)
      <4>1. b[j] \in ToSet(b)
        BY <1>2 DEF ToSet
      <4>2. c.k # 0 /\ CanAdd(c.ms, c.k, b[j].op)
        BY <1>3, <2>2, <4>1, NoCacheOff DEF NeedsMoment
      <4>. QED
        BY <1>3, <4>2 DEF CanAdd
    <3>. QED
      BY <1>2, <1>3, <3>1, <3>2
  <2>. QED
    BY <2>1, <2>2
<1>6. PICK c0 : c0 = [c1 EXCEPT !.top = 1]
  OBVIOUS
<1>7. /\ c0 \in State /\ ~c0.raised /\ c0.cache = NoCache /\ c0.strategy = "INLINE" /\ c0.top = 1
      /\ c0.ms = c1.ms /\ c0.k = c1.k /\ c0.k \in Nat
  BY <1>5, <1>6 DEF State
<1>8. Filling(c0, s, ms, k, es, p, b, 0)
  <2>1. c0.strategy = s \/ (s = "NEW_THEN_INLINE" /\ c0.strategy = "INLINE")
    BY <1>7 DEF Between
  <2>2. Between(c0, s, ms, k, es, 1..(p + 0))
    BY <1>2, <1>5, <1>7, <2>1 DEF Between
  <2>3. c0.k # 0 /\ c0.top <= c0.k
    BY <1>5, <1>7
  <2>4. \A j \in (0 + 1)..Len(b) : ~Blocks(c0.ms[c0.k], b[j].op)
    BY <1>2, <1>5, <1>7
  <2>. QED
    BY <1>7, <2>2, <2>3, <2>4 DEF Filling
<1>9. PICK Good : Good = [n \in 0..N |-> {d \in State : Filling(d, s, ms, k, es, p, b, n)}]
  OBVIOUS
<1>10. c0 \in Good[0]
  BY <1>2, <1>7, <1>8, <1>9
<1>11. ASSUME NEW n \in 1..N, NEW d \in Good[n - 1] PROVE InsertElement(d, b[n]) \in Good[n]
  <2>1. n - 1 \in 0..N /\ n \in 0..N /\ n \in 1..(q - p)
    BY <1>1, <1>2
  <2>2. Filling(d, s, ms, k, es, p, b, n - 1)
    BY <1>9, <2>1
  <2>3. Filling(InsertElement(d, b[n]), s, ms, k, es, p, b, n)
    BY <2>1, <2>2, FillingStep
  <2>4. InsertElement(d, b[n]) \in State
    BY <2>3 DEF Filling, Between
  <2>. QED
    BY <1>9, <2>1, <2>3, <2>4
<1>12. InsertElements(c0, b) \in Good[N]
  BY <1>2, <1>10, <1>11, ElementsStay
<1>13. PICK d : d = InsertElements(c0, b)
  OBVIOUS
<1>14. Filling(d, s, ms, k, es, p, b, q - p)
  <2>1. d \in Good[N] /\ N \in 0..N
    BY <1>2, <1>12, <1>13
  <2>. QED
    BY <1>1, <1>9, <2>1
<1>15. InsertBatch(c, b) = [d EXCEPT !.k = Greater(@, d.top)]
  BY <1>3, <1>4, <1>6, <1>13 DEF InsertBatch, Finished
<1>. QED
  BY <1>14, <1>15, FilledBatch

\* A batch of operations with NEW_THEN_INLINE: the first makes the moment.
LEMMA FreshBatch ==
    ASSUME NEW ms, Circ(ms), NEW k \in Nat, NEW es, Given(es, ms), NEW s \in Strategies, NEW b, NEW p \in Nat, NEW q \in Nat,
           IsBatch(b, es, p, q), ~b[1].whole, NEW c, Between(c, s, ms, k, es, 1..p), c.strategy = "NEW_THEN_INLINE"
    PROVE  Between(InsertBatch(c, b), s, ms, k, es, 1..q)
<1>1. PICK N : N = q - p
  OBVIOUS
<1>2. /\ N \in Nat /\ N # 0 /\ Len(b) = N /\ 1 \in 1..N /\ b[1] = es[p + 1] /\ p + 1 \in 1..Len(es) /\ Len(es) \in Nat
      /\ 1 \in 1..(q - p)
  BY <1>1 DEF IsBatch, Given
<1>3. /\ c \in State /\ ~c.raised /\ c.cache = NoCache /\ Circ(c.ms) /\ c.k \in 0..Len(c.ms) /\ c.k \in Nat
      /\ Len(c.ms) \in Nat /\ c.ms \in Seq(Moments) /\ Placed(c.ms, c.k, s, ms, k, es, 1..p)
      /\ OpsIn(c.ms) = OpsIn(ms) \cup New(es, 1..p)
  BY AtFacts DEF Between, Placed, Ordered, State
<1>4. PICK c0 : c0 = [c EXCEPT !.top = 1]
  OBVIOUS
<1>5. /\ c0 \in State /\ c0.ms = c.ms /\ c0.k = c.k /\ c0.strategy = c.strategy /\ c0.top = 1
      /\ c0.cache = c.cache /\ c0.raised = c.raised
  BY <1>3, <1>4 DEF State
<1>6. es[p + 1] \in Elements /\ OpsOf(es[p + 1]) \cap OpsIn(c.ms) = {}
  <2>1. 1..p \in SUBSET (1..Len(es)) /\ p + 1 \notin 1..p
    BY <1>2
  <2>. QED
    BY <1>2, <1>3, <2>1, NewAbsent
<1>7. PICK e : e = es[p + 1]
  OBVIOUS
<1>8. OpsOf(e) = {e.op} /\ e = b[1] /\ ~e.whole /\ e \in Elements
  BY <1>2, <1>6, <1>7, ElementFacts
<1>9. PICK t : /\ InsertElement(c0, e) = Turned(c0, t, c0.k + 1)
               /\ Grown(c0.ms, t, OpsOf(e), c0.k + 1, c0.k) /\ Len(t) = Len(c0.ms) + 1
  <2>1. Circ(c0.ms) /\ c0.k \in 0..Len(c0.ms) /\ ~c0.raised /\ ~c0.cache.on /\ OpsOf(e) \cap OpsIn(c0.ms) = {}
    BY <1>3, <1>5, <1>6, <1>7, NoCacheOff
  <2>. QED
    BY <1>5, <1>8, <2>1, InsertsMoment
<1>10. t \in Seq(Moments) /\ Circ(t)
  BY <1>9 DEF Grown, Circ
<1>11. PICK d1 : d1 = InsertElement(c0, e)
  OBVIOUS
<1>12. /\ d1 \in State /\ d1.ms = t /\ d1.top = Greater(c.k + 1, 1) /\ d1.cache = NoCache /\ ~d1.raised
       /\ d1.strategy = "INLINE" /\ d1.k = c.k + 1
  <2>1. PICK n \in Nat : n = c.k + 1
    BY <1>3
  <2>2. /\ Turned(c0, t, n) \in State
        /\ Turned(c0, t, n).ms = t /\ Turned(c0, t, n).top = Greater(n, c0.top)
        /\ Turned(c0, t, n).cache = c0.cache /\ Turned(c0, t, n).raised = c0.raised
        /\ Turned(c0, t, n).strategy = IF c0.strategy = "NEW_THEN_INLINE" THEN "INLINE" ELSE c0.strategy
        /\ Turned(c0, t, n).k = IF c0.strategy = "NEW_THEN_INLINE" THEN c0.k + 1 ELSE c0.k
    BY <1>5, <1>10, TurnedFields
  <2>. QED
    BY <1>3, <1>5, <1>9, <1>11, <2>1, <2>2
<1>13. Placed(t, c.k + 1, s, ms, k, es, 1..(p + 1))
  BY <1>3, <1>5, <1>7, <1>9, PlacedLone
<1>14. ASSUME NEW j \in 2..N PROVE ~Blocks(t[c.k + 1], b[j].op)
  <2>1. j \in 1..(q - p) /\ 1 # j
    BY <1>1, <1>2
  <2>2. ~Clash(e.op, b[j].op)
    BY <1>2, <1>8, <2>1, BatchOpsFit
  <2>3. \A x \in OpsIn(c.ms) : At(c.ms, x) \in Nat
    BY <1>3, AtFacts
  <2>4. \A x \in OpsIn(t) : At(t, x) = c.k + 1 => x = e.op
    BY <1>3, <1>5, <1>8, <1>9, <2>3 DEF Grown
  <2>5. c.k + 1 \in 1..Len(t)
    BY <1>3, <1>5, <1>9
  <2>. QED
    BY <1>10, <2>2, <2>4, <2>5, BlocksAt
<1>15. Filling(d1, s, ms, k, es, p, b, 1)
  <2>1. d1.strategy = s \/ (s = "NEW_THEN_INLINE" /\ d1.strategy = "INLINE")
    BY <1>12 DEF Between
  <2>2. Between(d1, s, ms, k, es, 1..(p + 1))
    BY <1>12, <1>13, <2>1 DEF Between
  <2>3. d1.k # 0 /\ d1.top <= d1.k
    BY <1>3, <1>12 DEF Greater
  <2>4. \A j \in (1 + 1)..Len(b) : ~Blocks(d1.ms[d1.k], b[j].op)
    BY <1>2, <1>12, <1>14
  <2>. QED
    BY <1>12, <2>2, <2>3, <2>4 DEF Filling
<1>16. PICK Good : Good = [n \in 0..N |-> IF n = 0 THEN {c0} ELSE {d \in State : Filling(d, s, ms, k, es, p, b, n)}]
  OBVIOUS
<1>17. c0 \in Good[0]
  BY <1>2, <1>16
<1>18. ASSUME NEW n \in 1..N, NEW d \in Good[n - 1] PROVE InsertElement(d, b[n]) \in Good[n]
  <2>1. n - 1 \in 0..N /\ n \in 0..N /\ n # 0 /\ n \in 1..(q - p)
    BY <1>1, <1>2
  <2>2. Filling(InsertElement(d, b[n]), s, ms, k, es, p, b, n)
    <3>1. CASE n = 1
      <4>1. d = c0 /\ b[n] = e
        BY <1>8, <1>16, <2>1, <3>1
      <4>. QED
        BY <1>11, <1>15, <3>1, <4>1
    <3>2. CASE n # 1
      <4>1. n - 1 # 0
        BY <3>2
      <4>2. Filling(d, s, ms, k, es, p, b, n - 1)
        BY <1>16, <2>1, <4>1
      <4>. QED
        BY <2>1, <4>2, FillingStep
    <3>. QED
      BY <3>1, <3>2
  <2>3. InsertElement(d, b[n]) \in State
    BY <2>2 DEF Filling, Between
  <2>. QED
    BY <1>16, <2>1, <2>2, <2>3
<1>19. InsertElements(c0, b) \in Good[N]
  BY <1>2, <1>17, <1>18, ElementsStay
<1>20. PICK d : d = InsertElements(c0, b)
  OBVIOUS
<1>21. Filling(d, s, ms, k, es, p, b, q - p)
  <2>1. d \in Good[N] /\ N \in 0..N
    BY <1>2, <1>19, <1>20
  <2>. QED
    BY <1>1, <1>2, <1>16, <2>1
<1>22. ~NeedsMoment(c, b)
  BY DEF NeedsMoment
<1>23. InsertBatch(c, b) = [d EXCEPT !.k = Greater(@, d.top)]
  BY <1>3, <1>4, <1>20, <1>22 DEF InsertBatch, Finished
<1>. QED
  BY <1>21, <1>23, FilledBatch

\* After n operations of a batch with EARLIEST.
Packing(d, ms, k, es, p, b, n) ==
    /\ d \in State /\ ~d.raised /\ d.cache = NoCache /\ d.strategy = "EARLIEST"
    /\ Packed(d.ms, d.k, d.top, ms, k, es, p, p + n)
    /\ d.top # 0 /\ d.top <= Greater(1, Len(d.ms)) /\ (n # 0 => Len(d.ms) # 0)
    /\ \A j \in (n + 1)..Len(b) :
          CanAdd(d.ms, d.k + 1, b[j].op) \/ (d.k # 0 /\ CanAdd(d.ms, d.k, b[j].op))

\* One more operation goes to the earliest place.
LEMMA PackingStep ==
    ASSUME NEW ms, Circ(ms), NEW k \in Nat, NEW es, Given(es, ms), NEW b, NEW p \in Nat, NEW q \in Nat,
           IsBatch(b, es, p, q), ~b[1].whole, NEW n \in 1..(q - p), NEW d,
           Packing(d, ms, k, es, p, b, n - 1)
    PROVE  Packing(InsertElement(d, b[n]), ms, k, es, p, b, n)
<1>1. PICK e, i : e = b[n] /\ i = p + (n - 1)
  OBVIOUS
<1>2. /\ p \in Nat /\ q \in Nat /\ i \in Nat /\ i + 1 = p + n /\ e = es[i + 1] /\ i + 1 \in 1..Len(es) /\ n \in Nat
      /\ Len(b) = q - p /\ ~e.whole /\ e.op \in Ops /\ OpsOf(es[i + 1]) = {e.op} /\ OpsOf(e) = {e.op}
  <2>1. Len(b) = q - p /\ b[n] = es[p + n] /\ p + n \in 1..Len(es)
    BY DEF IsBatch, Given
  <2>2. ~b[n].whole /\ b[n].op \in Ops /\ b[n] \in Elements
    BY BatchOfOps
  <2>3. OpsOf(b[n]) = {b[n].op}
    BY <2>2, ElementFacts
  <2>4. i \in Nat /\ i + 1 = p + n /\ n \in Nat
    BY <1>1
  <2>. QED
    BY <1>1, <2>1, <2>2, <2>3, <2>4
<1>3. /\ d \in State /\ ~d.raised /\ d.cache = NoCache /\ d.strategy = "EARLIEST"
      /\ Packed(d.ms, d.k, d.top, ms, k, es, p, i) /\ d.top # 0 /\ d.top <= Greater(1, Len(d.ms))
      /\ \A j \in n..Len(b) :
            CanAdd(d.ms, d.k + 1, b[j].op) \/ (d.k # 0 /\ CanAdd(d.ms, d.k, b[j].op))
  <2>1. (n - 1) + 1 = n
    BY <1>2
  <2>. QED
    BY <1>1, <2>1 DEF Packing
<1>4. /\ Circ(d.ms) /\ d.k \in 0..Len(d.ms) /\ d.k \in Nat /\ d.top \in Nat
      /\ OpsIn(d.ms) = OpsIn(ms) \cup New(es, 1..i) /\ Len(d.ms) \in Nat
  BY <1>3, AtFacts DEF Packed, Ordered, State
<1>5. e \in Elements /\ OpsOf(e) \cap OpsIn(d.ms) = {}
  <2>1. 1..i \in SUBSET (1..Len(es)) /\ i + 1 \notin 1..i
    BY <1>2
  <2>. QED
    BY <1>2, <1>4, <2>1, NewAbsent
<1>6. PICK a : a = EarliestAvailable(d.ms, e.op, d.k)
  OBVIOUS
<1>7. a \in 0..d.k /\ (a > 0 => Blocks(d.ms[a], e.op)) /\ \A j \in 1..d.k : Blocks(d.ms[j], e.op) => j <= a
  BY <1>4, <1>6, ScanFacts
<1>8. PICK m \in Nat : m = a + 1
  BY <1>7
<1>9. m \in 1..(Len(d.ms) + 1) /\ m <= d.k + 1
  BY <1>4, <1>7, <1>8
<1>10. ASSUME m <= Len(d.ms) PROVE ~Overlaps(d.ms[m], e.op)
  <2>1. CASE m <= d.k
    <3>1. m \in 1..d.k /\ ~(m <= a)
      BY <1>4, <1>7, <1>8, <1>9, <2>1
    <3>. QED
      BY <1>7, <3>1 DEF Blocks
  <2>2. CASE ~(m <= d.k)
    <3>1. a = d.k /\ m = d.k + 1 /\ d.k + 1 \in 1..Len(d.ms)
      BY <1>4, <1>7, <1>8, <1>9, <1>10, <2>2
    <3>2. n \in n..Len(b)
      BY <1>2
    <3>3. CanAdd(d.ms, d.k + 1, e.op)
      <4>1. SUFFICES ASSUME d.k # 0, CanAdd(d.ms, d.k, e.op) PROVE FALSE
        BY <1>1, <1>3, <3>2
      <4>2. d.k \in 1..Len(d.ms) /\ a > 0
        BY <1>4, <3>1, <4>1
      <4>. QED
        BY <1>7, <3>1, <4>1, <4>2 DEF CanAdd
    <3>. QED
      BY <3>1, <3>3 DEF CanAdd, Blocks
  <2>. QED
    BY <2>1, <2>2
<1>11. PICK t : t = Joined(d.ms, m, e.op)
  OBVIOUS
<1>12. /\ InsertElement(d, e) = Turned(d, t, m)
       /\ Grown(d.ms, t, OpsOf(e), m, Len(d.ms)) /\ Len(t) = Greater(m, Len(d.ms))
  <2>1. m = IF d.strategy = "INLINE" THEN d.k ELSE EarliestAvailable(d.ms, e.op, d.k) + 1
    BY <1>3, <1>6, <1>8
  <2>2. /\ d \in State /\ ~d.raised /\ Circ(d.ms) /\ d.k \in 0..Len(d.ms) /\ ~d.cache.on
        /\ d.strategy \in {"INLINE", "EARLIEST"}
    BY <1>3, <1>4, NoCacheOff
  <2>3. e \in Elements /\ OpsOf(e) \cap OpsIn(d.ms) = {} /\ ~e.whole
    BY <1>2, <1>5
  <2>4. /\ InsertElement(d, e) = Turned(d, Joined(d.ms, m, e.op), m)
        /\ Grown(d.ms, Joined(d.ms, m, e.op), OpsOf(e), m, Len(d.ms))
        /\ Len(Joined(d.ms, m, e.op)) = Greater(m, Len(d.ms))
    BY <1>9, <1>10, <2>1, <2>2, <2>3, InsertsInto
  <2>. QED
    BY <1>11, <2>4
<1>13. t \in Seq(Moments) /\ Circ(t) /\ Len(t) \in Nat /\ Len(t) >= Len(d.ms) /\ Len(t) >= m
  BY <1>4, <1>8, <1>12 DEF Greater, Grown, Circ
<1>14. PICK r : r = InsertElement(d, e)
  OBVIOUS
<1>15. /\ r \in State /\ r.ms = t /\ r.top = Greater(m, d.top) /\ r.cache = NoCache /\ ~r.raised
       /\ r.strategy = "EARLIEST" /\ r.k = d.k
  <2>1. d \in State /\ t \in Seq(Moments)
    BY <1>3, <1>13
  <2>2. /\ Turned(d, t, m) \in State
        /\ Turned(d, t, m).ms = t /\ Turned(d, t, m).top = Greater(m, d.top)
        /\ Turned(d, t, m).cache = d.cache /\ Turned(d, t, m).raised = d.raised
        /\ Turned(d, t, m).strategy = IF d.strategy = "NEW_THEN_INLINE" THEN "INLINE" ELSE d.strategy
        /\ Turned(d, t, m).k = IF d.strategy = "NEW_THEN_INLINE" THEN d.k + 1 ELSE d.k
    BY <2>1, TurnedFields
  <2>. QED
    BY <1>3, <1>12, <1>14, <2>2
<1>16. Packed(t, d.k, Greater(m, d.top), ms, k, es, p, i + 1)
  <2>1. ASSUME NEW j \in (p + 1)..i, NEW x \in OpsOf(es[j]) PROVE ~Clash(x, e.op)
    <3>1. PICK l : l = j - p
      OBVIOUS
    <3>2. l \in 1..(q - p) /\ l # n /\ p + l = j
      BY <1>1, <1>2, <3>1
    <3>3. b[l] = es[j] /\ ~Clash(b[l].op, e.op)
      <4>1. b[l] = es[p + l]
        BY <3>2 DEF IsBatch
      <4>. QED
        BY <1>1, <3>2, <4>1, BatchOpsFit
    <3>4. ~b[l].whole /\ b[l] \in Elements
      BY <3>2, BatchOfOps
    <3>5. x = b[l].op
      BY <3>3, <3>4, ElementFacts
    <3>. QED
      BY <3>3, <3>5
  <2>2. p <= i /\ m = EarliestAvailable(d.ms, e.op, d.k) + 1
    BY <1>1, <1>2, <1>6, <1>8
  <2>3. Grown(d.ms, t, OpsOf(es[i + 1]), m, Len(d.ms))
    BY <1>2, <1>12
  <2>. QED
    BY <1>2, <1>3, <1>13, <2>1, <2>2, <2>3, PackedJoin
<1>17. r.top # 0 /\ r.top <= Greater(1, Len(r.ms)) /\ Len(r.ms) # 0
  BY <1>3, <1>4, <1>8, <1>9, <1>13, <1>15 DEF Greater
<1>18. ASSUME NEW j \in (n + 1)..Len(b)
       PROVE  CanAdd(t, d.k + 1, b[j].op) \/ (d.k # 0 /\ CanAdd(t, d.k, b[j].op))
  <2>1. j \in 1..(q - p) /\ j # n /\ j \in n..Len(b)
    BY <1>2
  <2>2. ~Clash(e.op, b[j].op)
    BY <1>1, <2>1, BatchOpsFit
  <2>3. Grown(d.ms, t, {e.op}, m, Len(d.ms))
    BY <1>2, <1>12
  <2>4. ASSUME NEW l, CanAdd(d.ms, l, b[j].op) PROVE CanAdd(t, l, b[j].op)
    <3>1. ASSUME l \in 1..Len(t), Blocks(t[l], b[j].op) PROVE FALSE
      <4>1. l \in 1..Len(d.ms) /\ Blocks(d.ms[l], b[j].op)
        BY <1>4, <2>2, <2>3, <3>1, BlocksGrown
      <4>. QED
        BY <2>4, <4>1 DEF CanAdd
    <3>. QED
      BY <3>1 DEF CanAdd
  <2>. QED
    BY <1>3, <2>1, <2>4
<1>19. Packing(r, ms, k, es, p, b, n)
  BY <1>2, <1>15, <1>16, <1>17, <1>18 DEF Packing
<1>. QED
  BY <1>1, <1>14, <1>19

\* A batch of operations with EARLIEST.
LEMMA EarliestBatch ==
    ASSUME NEW ms, Circ(ms), NEW k \in Nat, NEW es, Given(es, ms), NEW b, NEW p \in Nat, NEW q \in Nat,
           IsBatch(b, es, p, q), ~b[1].whole, NEW c, Between(c, "EARLIEST", ms, k, es, 1..p)
    PROVE  Between(InsertBatch(c, b), "EARLIEST", ms, k, es, 1..q)
<1>1. PICK N : N = q - p
  OBVIOUS
<1>2. N \in Nat /\ N # 0 /\ Len(b) = N /\ DOMAIN b = 1..N /\ 1 \in 1..N /\ p + 0 = p
  BY <1>1 DEF IsBatch
<1>3. /\ c \in State /\ ~c.raised /\ c.cache = NoCache /\ Circ(c.ms) /\ c.k \in 0..Len(c.ms) /\ c.k \in Nat
      /\ Len(c.ms) \in Nat /\ c.ms \in Seq(Moments) /\ Placed(c.ms, c.k, "EARLIEST", ms, k, es, 1..p)
      /\ c.strategy = "EARLIEST"
  BY AtFacts DEF Between, Placed, Ordered, State
<1>4. PICK c1 : c1 = IF NeedsMoment(c, b)
                     THEN [c EXCEPT !.ms = InsertAt(@, c.k + 1, {}), !.k = IF c.strategy = "INLINE" THEN @ + 1 ELSE @]
                     ELSE c
  OBVIOUS
<1>5. /\ c1 \in State /\ ~c1.raised /\ c1.cache = NoCache /\ c1.strategy = "EARLIEST"
      /\ Placed(c1.ms, c1.k, "EARLIEST", ms, k, es, 1..p)
      /\ \A j \in 1..N : CanAdd(c1.ms, c1.k + 1, b[j].op) \/ (c1.k # 0 /\ CanAdd(c1.ms, c1.k, b[j].op))
  <2>1. CASE NeedsMoment(c, b)
    <3>1. PICK t : t = InsertAt(c.ms, c.k + 1, {})
      OBVIOUS
    <3>2. Grown(c.ms, t, {}, c.k + 1, c.k) /\ Len(t) = Len(c.ms) + 1
      BY <1>3, <3>1, SmallMoments, InsertGrows
    <3>3. t \in Seq(Moments) /\ c.k + 1 \in 1..Len(t)
      BY <1>3, <3>2 DEF Grown, Circ
    <3>4. c1 = [c EXCEPT !.ms = t]
      BY <1>3, <1>4, <2>1, <3>1 DEF State
    <3>5. /\ c1 \in State /\ ~c1.raised /\ c1.cache = NoCache /\ c1.strategy = "EARLIEST"
          /\ c1.ms = t /\ c1.k = c.k
      BY <1>3, <3>3, <3>4 DEF State
    <3>6. Placed(t, c.k, "EARLIEST", ms, k, es, 1..p)
      BY <1>3, <3>2, PlacedEmpty
    <3>7. \A y : ~Blocks(t[c.k + 1], y)
      BY <1>3, <3>2, <3>3, EmptyBlocks
    <3>8. \A y : CanAdd(t, c.k + 1, y)
      BY <3>7 DEF CanAdd
    <3>. QED
      BY <3>5, <3>6, <3>8
  <2>2. CASE ~NeedsMoment(c, b)
    <3>1. c1 = c
      BY <1>4, <2>2
    <3>2. ASSUME NEW j \in 1..N
          PROVE  CanAdd(c.ms, c.k + 1, b[j].op) \/ (c.k # 0 /\ CanAdd(c.ms, c.k, b[j].op))
      <4>1. b[j] \in ToSet(b)
        BY <1>2 DEF ToSet
      <4>. QED
        BY <1>3, <2>2, <4>1, NoCacheOff DEF NeedsMoment
    <3>. QED
      BY <1>3, <3>1, <3>2
  <2>. QED
    BY <2>1, <2>2
<1>6. PICK c0 : c0 = [c1 EXCEPT !.top = 1]
  OBVIOUS
<1>7. /\ c0 \in State /\ ~c0.raised /\ c0.cache = NoCache /\ c0.strategy = "EARLIEST" /\ c0.top = 1
      /\ c0.ms = c1.ms /\ c0.k = c1.k /\ c0.k \in Nat
  BY <1>5, <1>6 DEF State
<1>8. Packing(c0, ms, k, es, p, b, 0)
  <2>1. Len(c0.ms) \in Nat
    BY <1>7 DEF State
  <2>2. Packed(c0.ms, c0.k, c0.top, ms, k, es, p, p + 0)
    <3>1. \A x \in New(es, 1..p) : At(c0.ms, x) <= c0.k /\ At(c0.ms, x) \in Nat
      BY <1>5, <1>7, AtFacts DEF Placed, Ordered
    <3>2. Greater(c0.k, 1) >= c0.k /\ Greater(c0.k, 1) \in Nat
      BY <1>7 DEF Greater
    <3>3. \A x \in New(es, 1..p) : At(c0.ms, x) <= Greater(c0.k, 1)
      BY <1>7, <3>1, <3>2
    <3>. QED
      BY <1>2, <1>5, <1>7, <3>3 DEF Packed, Placed
  <2>3. c0.top # 0 /\ c0.top <= Greater(1, Len(c0.ms))
    BY <1>7, <2>1 DEF Greater
  <2>4. \A j \in (0 + 1)..Len(b) :
           CanAdd(c0.ms, c0.k + 1, b[j].op) \/ (c0.k # 0 /\ CanAdd(c0.ms, c0.k, b[j].op))
    BY <1>2, <1>5, <1>7
  <2>. QED
    BY <1>7, <2>2, <2>3, <2>4 DEF Packing
<1>9. PICK Good : Good = [n \in 0..N |-> {d \in State : Packing(d, ms, k, es, p, b, n)}]
  OBVIOUS
<1>10. c0 \in Good[0]
  BY <1>2, <1>7, <1>8, <1>9
<1>11. ASSUME NEW n \in 1..N, NEW d \in Good[n - 1] PROVE InsertElement(d, b[n]) \in Good[n]
  <2>1. n - 1 \in 0..N /\ n \in 0..N /\ n \in 1..(q - p)
    BY <1>1, <1>2
  <2>2. Packing(d, ms, k, es, p, b, n - 1)
    BY <1>9, <2>1
  <2>3. Packing(InsertElement(d, b[n]), ms, k, es, p, b, n)
    BY <2>1, <2>2, PackingStep
  <2>4. InsertElement(d, b[n]) \in State
    BY <2>3 DEF Packing
  <2>. QED
    BY <1>9, <2>1, <2>3, <2>4
<1>12. InsertElements(c0, b) \in Good[N]
  BY <1>2, <1>10, <1>11, ElementsStay
<1>13. PICK d : d = InsertElements(c0, b)
  OBVIOUS
<1>14. Packing(d, ms, k, es, p, b, N) /\ p + N = q
  BY <1>1, <1>2, <1>9, <1>12, <1>13
<1>15. InsertBatch(c, b) = [d EXCEPT !.k = Greater(@, d.top)]
  BY <1>3, <1>4, <1>6, <1>13 DEF InsertBatch, Finished
<1>16. /\ d \in State /\ ~d.raised /\ d.cache = NoCache /\ d.strategy = "EARLIEST" /\ d.k \in Nat /\ d.top \in Nat
       /\ Packed(d.ms, d.k, d.top, ms, k, es, p, q) /\ Len(d.ms) \in Nat /\ d.k \in 0..Len(d.ms) /\ Circ(d.ms)
  BY <1>14 DEF Packing, State, Packed, Ordered
<1>17. PICK h, r : h = Greater(d.k, d.top) /\ r = [d EXCEPT !.k = h]
  OBVIOUS
<1>18. h \in Nat /\ h >= d.k /\ h \in 0..Len(d.ms)
  <2>1. d.top <= Len(d.ms)
    BY <1>2, <1>14, <1>16 DEF Packing, Greater
  <2>. QED
    BY <1>16, <1>17, <2>1 DEF Greater
<1>19. r \in State /\ ~r.raised /\ r.cache = NoCache /\ r.strategy = "EARLIEST" /\ r.k = h /\ r.ms = d.ms
  BY <1>16, <1>17, <1>18 DEF State
<1>20. Placed(d.ms, h, "EARLIEST", ms, k, es, 1..q)
  <2>1. ASSUME NEW x \in OpsIn(ms), At(ms, x) <= k PROVE At(d.ms, x) <= h
    <3>1. At(d.ms, x) <= d.k /\ x \in OpsIn(d.ms)
      BY <1>16, <2>1 DEF Packed, Ordered
    <3>2. At(d.ms, x) \in Nat
      BY <1>16, <3>1, AtFacts
    <3>. QED
      BY <1>16, <1>18, <3>1, <3>2
  <2>. QED
    BY <1>16, <1>17, <1>18, <2>1 DEF Packed, Placed
<1>21. InsertBatch(c, b) = r
  BY <1>15, <1>16, <1>17
<1>. QED
  BY <1>19, <1>20, <1>21 DEF Between

\* A batch with any of these strategies.
LEMMA BatchKeeps ==
    ASSUME NEW ms, Circ(ms), NEW k \in Nat, NEW es, Given(es, ms), NEW s \in Strategies, s # "LATEST",
           NEW b, NEW p \in Nat, NEW q \in Nat, IsBatch(b, es, p, q), s = "NEW" => q = p + 1,
           NEW c, Between(c, s, ms, k, es, 1..p)
    PROVE  Between(InsertBatch(c, b), s, ms, k, es, 1..q)
<1>1. /\ p < q /\ b[1] \in Elements /\ b[1].whole \in BOOLEAN
      /\ b[1].whole => q = p + 1
  <2>1. p < q /\ b \in Seq(Elements) /\ Len(b) = q - p /\ b[1] = es[p + 1]
    BY DEF IsBatch
  <2>2. b[1] \in Elements
    BY <2>1
  <2>3. b[1].whole => q = p + 1
    BY <2>1 DEF IsBatch
  <2>. QED
    BY <2>1, <2>2, <2>3, ElementFacts
<1>2. c.strategy \in {"NEW", "NEW_THEN_INLINE", "INLINE", "EARLIEST"} /\ (c.strategy = "EARLIEST" => s = "EARLIEST")
      /\ (c.strategy = "NEW" => s = "NEW")
  BY DEF Between, Strategies
<1>3. CASE b[1].whole \/ c.strategy = "NEW"
  <2>1. q = p + 1
    BY <1>1, <1>2, <1>3
  <2>2. b[1].whole \/ c.strategy \in {"NEW", "NEW_THEN_INLINE"}
    BY <1>3
  <2>3. IsBatch(b, es, p, p + 1)
    BY <2>1
  <2>4. Between(InsertBatch(c, b), s, ms, k, es, 1..(p + 1))
    BY <2>2, <2>3, LoneBatch
  <2>. QED
    BY <2>1, <2>4
<1>4. CASE ~b[1].whole /\ c.strategy = "NEW_THEN_INLINE"
  BY <1>4, FreshBatch
<1>5. CASE ~b[1].whole /\ c.strategy = "INLINE"
  BY <1>5, InlineBatch
<1>6. CASE ~b[1].whole /\ c.strategy = "EARLIEST"
  BY <1>2, <1>6, EarliestBatch
<1>. QED
  BY <1>1, <1>2, <1>3, <1>4, <1>5, <1>6

\* insert() with all strategies but LATEST, without the cache.
LEMMA InsertAllOrdered ==
    ASSUME NEW ms, Circ(ms), NEW k \in 0..Len(ms), NEW es, Given(es, ms), NEW s \in Strategies, s # "LATEST",
           NEW bs, NEW f, Cut(bs, es, Len(es), f), s = "NEW" => \A i \in 1..Len(bs) : f[i] = f[i - 1] + 1
    PROVE  Between(InsertAll(Start(ms, k, s, NoCache), bs), s, ms, k, es, 1..Len(es))
<1>1. PICK L, N : L = Len(bs) /\ N = Len(es)
  OBVIOUS
<1>2. /\ L \in Nat /\ N \in Nat /\ f \in [0..L -> 0..N] /\ f[0] = 0 /\ f[L] = N
      /\ \A i \in 1..L : IsBatch(bs[i], es, f[i - 1], f[i])
  BY <1>1 DEF Cut, Given
<1>3. PICK c : c = Start(ms, k, s, NoCache)
  OBVIOUS
<1>4. Len(ms) \in Nat /\ k \in Nat /\ ms \in Seq(Moments) /\ \A x \in OpsIn(ms) : At(ms, x) \in Nat
  BY AtFacts DEF Circ
<1>5. c \in State /\ c.ms = ms /\ c.k = k /\ c.strategy = s /\ c.cache = NoCache /\ ~c.raised
  BY <1>3, <1>4, NoCacheOff DEF Start, State
<1>6. 1..0 = {} /\ New(es, {}) = {}
  BY DEF New
<1>7. Placed(ms, k, s, ms, k, es, 1..0)
  BY <1>6, OrderedStart DEF Placed
<1>8. Between(c, s, ms, k, es, 1..f[0])
  BY <1>2, <1>5, <1>7 DEF Between
<1>9. PICK Good : Good = [n \in 0..L |-> {d \in State : Between(d, s, ms, k, es, 1..f[n])}]
  OBVIOUS
<1>10. c \in Good[0]
  BY <1>2, <1>5, <1>8, <1>9
<1>11. ASSUME NEW n \in 1..L, NEW d \in Good[n - 1] PROVE InsertBatch(d, bs[n]) \in Good[n]
  <2>1. n - 1 \in 0..L /\ n \in 0..L
    BY <1>2
  <2>2. Between(d, s, ms, k, es, 1..f[n - 1])
    BY <1>9, <2>1
  <2>3. PICK p \in Nat, q \in Nat : p = f[n - 1] /\ q = f[n]
    BY <1>2, <2>1
  <2>4. IsBatch(bs[n], es, p, q) /\ (s = "NEW" => q = p + 1)
    BY <1>1, <1>2, <2>3
  <2>5. Between(InsertBatch(d, bs[n]), s, ms, k, es, 1..q)
    BY <1>4, <2>2, <2>3, <2>4, BatchKeeps
  <2>6. InsertBatch(d, bs[n]) \in State
    BY <2>5 DEF Between
  <2>. QED
    BY <1>9, <2>1, <2>3, <2>5, <2>6
<1>12. InsertAll(c, bs) \in Good[L]
  BY <1>1, <1>2, <1>10, <1>11, BatchesLoop
<1>. QED
  BY <1>1, <1>2, <1>3, <1>9, <1>12

----------------------------------------------------------------------------
(* LATEST *)

\* The elements D are inserted after k, each as late as it can be; m is the last moment
\* used.
Late(t, m, ms, k, es, D) ==
    /\ Ordered(ms, k, es, D, t) /\ k \in 0..Len(t) /\ m \in Nat
    /\ \A x \in OpsIn(ms) : At(ms, x) <= k => At(t, x) <= k
    /\ \A x \in OpsIn(ms) : At(ms, x) > k => At(t, x) > k
    /\ \A x \in New(es, D) : At(t, x) > k /\ At(t, x) <= m
    /\ PrecedesLater(ms, k, New(es, D), t)
    /\ m = 0 => t = ms

\* Element i goes into moment n, and what was after h moves.
LEMMA LateStep ==
    ASSUME NEW ms, Circ(ms), NEW k \in Nat, NEW es, NEW D \in SUBSET Nat, NEW t, NEW m, Late(t, m, ms, k, es, D),
           NEW i \in Nat, i \notin D, NEW t2, NEW n \in Nat, n > k, NEW h \in Nat, h >= k,
           Grown(t, t2, OpsOf(es[i]), n, h), Len(t2) \in Nat, Len(t2) >= Len(t),
           \A x \in OpsIn(t), y \in OpsOf(es[i]) : At(t, x) > k /\ Clash(x, y) => At(t2, x) > n,
           \A j \in D : j < i => \A x \in OpsOf(es[j]), y \in OpsOf(es[i]) : ~Clash(x, y),
           NEW m2 \in Nat, m2 >= n, m2 >= m, h < Len(t) => m2 > m
    PROVE  Late(t2, m2, ms, k, es, D \cup {i})
<1>1. PICK S : S = OpsOf(es[i])
  OBVIOUS
<1>2. /\ Circ(t) /\ Circ(t2) /\ OpsIn(t) = OpsIn(ms) \cup New(es, D) /\ Len(t) \in Nat /\ m \in Nat
      /\ OpsIn(t2) = OpsIn(t) \cup S
  BY <1>1, AtFacts DEF Late, Ordered, Grown
<1>3. /\ \A x \in OpsIn(t) : /\ At(t, x) \in Nat /\ At(t, x) <= Len(t)
                             /\ At(t2, x) = IF At(t, x) > h THEN At(t, x) + 1 ELSE At(t, x)
      /\ \A x \in S : At(t2, x) = n
  BY <1>1, <1>2, AtFacts DEF Grown
<1>4. New(es, D \cup {i}) = New(es, D) \cup S
  BY <1>1 DEF New
<1>5. \A x \in OpsIn(ms) : At(ms, x) <= k => At(t2, x) <= k
  <2>1. ASSUME NEW x \in OpsIn(ms), At(ms, x) <= k PROVE At(t2, x) <= k
    <3>1. At(t, x) <= k /\ x \in OpsIn(t)
      BY <1>2, <2>1 DEF Late
    <3>. QED
      BY <1>3, <3>1
  <2>. QED
    BY <2>1
<1>6. \A x \in OpsIn(ms) : At(ms, x) > k => At(t, x) > k /\ At(t2, x) > k /\ x \in OpsIn(t)
  <2>1. ASSUME NEW x \in OpsIn(ms), At(ms, x) > k PROVE At(t, x) > k /\ At(t2, x) > k /\ x \in OpsIn(t)
    <3>1. At(t, x) > k /\ x \in OpsIn(t)
      BY <1>2, <2>1 DEF Late
    <3>. QED
      BY <1>3, <3>1
  <2>. QED
    BY <2>1
<1>7. ASSUME NEW x \in New(es, D) PROVE x \in OpsIn(t) /\ At(t, x) > k /\ At(t2, x) > k /\ At(t2, x) <= m2
  <2>1. x \in OpsIn(t) /\ At(t, x) > k /\ At(t, x) <= m
    BY <1>2 DEF Late
  <2>. QED
    BY <1>2, <1>3, <2>1
<1>8. Ordered(ms, k, es, D \cup {i}, t2)
  <2>1. Ordered(ms, k, es, D, t) /\ D \in SUBSET Int /\ i \in Int /\ h \in Int
    BY DEF Late
  <2>2. \A x \in OpsIn(ms), y \in OpsOf(es[i]) : At(ms, x) <= k /\ Clash(x, y) => At(t2, x) < n
    <3>1. \A x \in OpsIn(ms) : At(t2, x) \in Nat
      BY <1>2, AtFacts
    <3>. QED
      BY <1>5, <3>1
  <2>3. ASSUME NEW j \in D, NEW x \in OpsOf(es[j]), NEW y \in OpsOf(es[i]), Clash(x, y)
        PROVE  (j < i => At(t2, x) < n) /\ (i < j => n < At(t2, x))
    <3>1. x \in New(es, D)
      BY DEF New
    <3>2. ~(j < i)
      BY <2>3
    <3>3. At(t2, x) > n
      BY <1>7, <2>3, <3>1
    <3>. QED
      BY <1>2, <1>3, <1>7, <3>1, <3>2, <3>3
  <2>. QED
    BY <2>1, <2>2, <2>3, OrderedStep
<1>9. PrecedesLater(ms, k, New(es, D \cup {i}), t2)
  <2>. SUFFICES ASSUME NEW x \in OpsIn(ms), NEW y \in New(es, D \cup {i}), Clash(x, y), At(ms, x) > k
                PROVE  At(t2, y) < At(t2, x)
    BY DEF PrecedesLater
  <2>1. CASE y \in S
    <3>1. At(t2, x) > n
      BY <1>1, <1>6, <2>1
    <3>2. At(t2, x) \in Nat
      BY <1>3, <1>6
    <3>. QED
      BY <1>3, <2>1, <3>1, <3>2
  <2>2. CASE y \in New(es, D)
    <3>1. At(t, y) < At(t, x)
      BY <2>2 DEF Late, PrecedesLater
    <3>. QED
      BY <1>3, <1>6, <1>7, <2>2, <3>1
  <2>. QED
    BY <1>4, <2>1, <2>2
<1>10. \A x \in New(es, D \cup {i}) : At(t2, x) > k /\ At(t2, x) <= m2
  BY <1>3, <1>4, <1>7
<1>11. k \in 0..Len(t2) /\ m2 # 0
  BY <1>2 DEF Late
<1>. QED
  BY <1>5, <1>6, <1>8, <1>9, <1>10, <1>11 DEF Late

\* The moment before the first blocking one.
LEMMA LatestFacts ==
    ASSUME NEW ms, Circ(ms), NEW k \in 0..Len(ms), NEW x, NEW n, n = LatestAvailable(ms, x, k)
    PROVE  /\ n \in Nat /\ n >= k /\ n <= Len(ms) + 1
           /\ n = Len(ms) + 1 => k = Len(ms)
           /\ n > k /\ n <= Len(ms) => ~Blocks(ms[n], x)
           /\ \A y \in OpsIn(ms) : At(ms, y) > k /\ Clash(y, x) => At(ms, y) > n
<1>1. Len(ms) \in Nat /\ k \in Nat /\ \A y \in OpsIn(ms) : At(ms, y) \in 1..Len(ms)
  BY AtFacts
<1>2. CASE k = Len(ms)
  <2>1. n = k + 1
    BY <1>2 DEF LatestAvailable
  <2>. QED
    BY <1>1, <1>2, <2>1
<1>3. CASE k # Len(ms)
  <2>1. PICK S : S = {Len(ms) + 1} \cup {j \in k + 1 .. Len(ms) : Blocks(ms[j], x)}
    OBVIOUS
  <2>2. S \in SUBSET Nat /\ S # {} /\ \A j \in S : j > k /\ j <= Len(ms) + 1
    BY <1>1, <1>3, <2>1
  <2>3. PICK a : a = Min(S) /\ a \in S /\ \A j \in S : a <= j
    BY <2>2, Extremes
  <2>4. a \in Nat /\ a > k /\ a <= Len(ms) + 1 /\ n = a - 1
    BY <1>3, <2>1, <2>2, <2>3 DEF LatestAvailable
  <2>5. n \in Nat /\ n >= k /\ n <= Len(ms)
    BY <1>1, <2>4
  <2>6. ASSUME n > k PROVE ~Blocks(ms[n], x)
    <3>1. n \notin S
      BY <2>2, <2>3, <2>4, <2>5
    <3>. QED
      BY <1>1, <2>1, <2>5, <2>6, <3>1
  <2>7. ASSUME NEW y \in OpsIn(ms), At(ms, y) > k, Clash(y, x) PROVE At(ms, y) > n
    <3>1. At(ms, y) \in (k + 1)..Len(ms) /\ Blocks(ms[At(ms, y)], x)
      BY <1>1, <2>7, BlocksAt
    <3>2. At(ms, y) \in S
      BY <2>1, <3>1
    <3>3. a <= At(ms, y) /\ At(ms, y) \in Nat
      BY <1>1, <2>3, <3>2
    <3>. QED
      BY <2>4, <2>5, <3>3
  <2>. QED
    BY <1>1, <2>5, <2>6, <2>7
<1>. QED
  BY <1>2, <1>3

\* A call with LATEST.
LateCall(c, ms, k, es, D) ==
    /\ c \in State /\ ~c.raised /\ c.cache = NoCache /\ c.k = k
    /\ Late(c.ms, c.top, ms, k, es, D)

\* One element.
LEMMA LateElement ==
    ASSUME NEW ms, Circ(ms), NEW k \in Nat, NEW es, Given(es, ms), NEW D \in SUBSET (1..Len(es)),
           NEW i \in 1..Len(es), i \notin D,
           \A j \in D : j < i => \A x \in OpsOf(es[j]), y \in OpsOf(es[i]) : ~Clash(x, y),
           NEW c, LateCall(c, ms, k, es, D)
    PROVE  LateCall(InsertLatest(c, es[i]), ms, k, es, D \cup {i})
<1>1. PICK e : e = es[i]
  OBVIOUS
<1>2. /\ c \in State /\ ~c.raised /\ c.cache = NoCache /\ c.k = k /\ Late(c.ms, c.top, ms, k, es, D)
      /\ Circ(c.ms) /\ OpsIn(c.ms) = OpsIn(ms) \cup New(es, D) /\ k \in 0..Len(c.ms) /\ Len(c.ms) \in Nat
      /\ c.top \in Nat /\ Len(es) \in Nat
  BY AtFacts DEF LateCall, Late, Ordered, State, Given
<1>3. e \in Elements /\ OpsOf(e) \cap OpsIn(c.ms) = {} /\ OpsOf(e) \in Moments
  BY <1>1, <1>2, NewAbsent, ElementFacts
<1>4. D \in SUBSET Nat /\ i \in Nat
  BY <1>2
<1>5. PICK n : n = LatestAvailable(c.ms, e.op, k)
  OBVIOUS
<1>6. /\ n \in Nat /\ n >= k /\ n <= Len(c.ms) + 1
      /\ n = Len(c.ms) + 1 => k = Len(c.ms)
      /\ n > k /\ n <= Len(c.ms) => ~Blocks(c.ms[n], e.op)
      /\ \A y \in OpsIn(c.ms) : At(c.ms, y) > k /\ Clash(y, e.op) => At(c.ms, y) > n
  BY <1>2, <1>5, LatestFacts
<1>7. \A x \in OpsIn(c.ms) : At(c.ms, x) \in Nat /\ At(c.ms, x) <= Len(c.ms)
  BY <1>2, AtFacts
<1>8. CASE e.whole \/ n <= k
  <2>1. PICK t : t = InsertAt(c.ms, k + 1, OpsOf(e))
    OBVIOUS
  <2>2. Grown(c.ms, t, OpsOf(e), k + 1, k) /\ Len(t) = Len(c.ms) + 1
    BY <1>2, <1>3, <2>1, InsertGrows
  <2>3. t \in Seq(Moments)
    BY <2>2 DEF Grown, Circ
  <2>4. PICK m : m = Greater(k + 1, c.top + 1)
    OBVIOUS
  <2>5. m \in Nat /\ m >= k + 1 /\ m > c.top
    BY <1>2, <2>4 DEF Greater
  <2>6. PICK r : r = InsertLatest(c, e)
    OBVIOUS
  <2>7. r = [c EXCEPT !.ms = t, !.top = m]
    BY <1>2, <1>5, <1>8, <2>1, <2>4, <2>6 DEF InsertLatest, State
  <2>8. r \in State /\ ~r.raised /\ r.cache = NoCache /\ r.k = k /\ r.ms = t /\ r.top = m
    BY <1>2, <2>3, <2>5, <2>7 DEF State
  <2>9. \A x \in OpsIn(c.ms) : At(c.ms, x) > k => At(t, x) > k + 1
    BY <1>7, <2>2 DEF Grown
  <2>10. Late(t, m, ms, k, es, D \cup {i})
    <3>1. PICK l \in Nat : l = k + 1 /\ l > k
      OBVIOUS
    <3>2. /\ Grown(c.ms, t, OpsOf(es[i]), l, k) /\ Len(t) \in Nat /\ Len(t) >= Len(c.ms) /\ k >= k
          /\ \A x \in OpsIn(c.ms), y \in OpsOf(es[i]) : At(c.ms, x) > k /\ Clash(x, y) => At(t, x) > l
          /\ m >= l /\ m >= c.top
      BY <1>1, <1>2, <2>2, <2>5, <2>9, <3>1
    <3>. QED
      BY <1>2, <1>4, <2>5, <3>1, <3>2, LateStep
  <2>. QED
    BY <1>1, <2>6, <2>8, <2>10 DEF LateCall
<1>9. CASE ~e.whole /\ ~(n <= k)
  <2>1. e.op \in Ops /\ OpsOf(e) = {e.op} /\ e.op \notin OpsIn(c.ms) /\ n > k /\ n \in 1..(Len(c.ms) + 1)
    BY <1>2, <1>3, <1>6, <1>9, ElementFacts
  <2>2. n <= Len(c.ms) => ~Overlaps(c.ms[n], e.op)
    BY <1>6, <2>1 DEF Blocks
  <2>3. PICK t : t = Joined(c.ms, n, e.op)
    OBVIOUS
  <2>4. /\ Put(c, n, e.op) = [c EXCEPT !.ms = t]
        /\ Grown(c.ms, t, {e.op}, n, Len(c.ms)) /\ Len(t) = Greater(n, Len(c.ms))
    BY <1>2, <2>1, <2>2, <2>3, PutFacts
  <2>5. t \in Seq(Moments) /\ Len(t) \in Nat /\ Len(t) >= Len(c.ms)
    BY <1>2, <1>6, <2>4 DEF Grown, Circ, Greater
  <2>6. PICK m : m = Greater(n, c.top)
    OBVIOUS
  <2>7. m \in Nat /\ m >= n /\ m >= c.top
    BY <1>2, <1>6, <2>6 DEF Greater
  <2>8. PICK r : r = InsertLatest(c, e)
    OBVIOUS
  <2>9. r = [c EXCEPT !.ms = t, !.top = m]
    BY <1>2, <1>5, <1>9, <2>4, <2>6, <2>8 DEF InsertLatest, State
  <2>10. r \in State /\ ~r.raised /\ r.cache = NoCache /\ r.k = k /\ r.ms = t /\ r.top = m
    BY <1>2, <2>5, <2>7, <2>9 DEF State
  <2>11. \A x \in OpsIn(c.ms) : At(t, x) = At(c.ms, x)
    BY <1>2, <1>7, <2>4 DEF Grown
  <2>12. Late(t, m, ms, k, es, D \cup {i})
    <3>1. PICK h \in Nat : h = Len(c.ms) /\ h >= k
      BY <1>2
    <3>2. /\ Grown(c.ms, t, OpsOf(es[i]), n, h) /\ n \in Nat /\ n > k
          /\ \A x \in OpsIn(c.ms), y \in OpsOf(es[i]) : At(c.ms, x) > k /\ Clash(x, y) => At(t, x) > n
          /\ ~(h < Len(c.ms))
      BY <1>1, <1>2, <1>6, <2>1, <2>4, <2>11, <3>1
    <3>. QED
      BY <1>2, <1>4, <2>5, <2>7, <3>1, <3>2, LateStep
  <2>. QED
    BY <1>1, <2>8, <2>10, <2>12 DEF LateCall
<1>. QED
  BY <1>8, <1>9

\* The elements of a batch, each at the end of its moments.
LEMMA LateBatch ==
    ASSUME NEW ms, Circ(ms), NEW k \in Nat, NEW es, Given(es, ms), NEW b, NEW p \in Nat, NEW q \in Nat,
           IsBatch(b, es, p, q), NEW N \in Nat, N = Len(es), NEW c, LateCall(c, ms, k, es, (q + 1)..N)
    PROVE  LateCall(InsertBatchLatest(c, b), ms, k, es, (p + 1)..N)
<1>1. /\ p < q /\ q <= N /\ Len(b) = q - p /\ q - p \in Nat /\ (\A j \in 1..(q - p) : b[j] = es[p + j])
      /\ \/ q = p + 1
         \/ \A i, j \in (p + 1)..q : ~es[i].whole /\ (i # j => ~Clash(es[i].op, es[j].op))
  BY DEF IsBatch
<1>2. PICK M : M = q - p
  OBVIOUS
<1>3. PICK D : D = [n \in 0..M |-> ((q + 1)..N) \cup ((p + 1)..(p + n))]
  OBVIOUS
<1>4. PICK Good : Good = [n \in 0..M |-> {d \in State : LateCall(d, ms, k, es, D[n])}]
  OBVIOUS
<1>5. c \in Good[0]
  <2>1. 0 \in 0..M /\ D[0] = (q + 1)..N
    BY <1>1, <1>2, <1>3
  <2>2. c \in State
    BY DEF LateCall
  <2>. QED
    BY <1>4, <2>1, <2>2
<1>6. ASSUME NEW n \in 1..M, NEW d \in Good[n - 1] PROVE InsertLatest(d, b[n]) \in Good[n]
  <2>1. n - 1 \in 0..M /\ n \in 0..M
    BY <1>1, <1>2
  <2>2. PICK i \in Nat : i = p + n
    BY <1>1, <1>2
  <2>3. LateCall(d, ms, k, es, D[n - 1])
    BY <1>4, <2>1
  <2>4. D[n - 1] = ((q + 1)..N) \cup ((p + 1)..(i - 1)) /\ D[n] = ((q + 1)..N) \cup ((p + 1)..i)
    BY <1>3, <2>1, <2>2
  <2>5. i > p /\ i <= q /\ i \in 1..N /\ b[n] = es[i]
    BY <1>1, <1>2, <2>2
  <2>6. D[n] = D[n - 1] \cup {i} /\ i \notin D[n - 1] /\ D[n - 1] \in SUBSET (1..N)
    BY <1>1, <2>4, <2>5
  <2>7. ASSUME NEW j \in D[n - 1], j < i, NEW x \in OpsOf(es[j]), NEW y \in OpsOf(es[i])
        PROVE  ~Clash(x, y)
    <3>1. j \in Nat /\ j > p /\ j < i /\ j <= q
      BY <1>1, <2>4, <2>5, <2>7
    <3>2. ~(q = p + 1)
      BY <2>5, <3>1
    <3>3. j \in (p + 1)..q /\ i \in (p + 1)..q /\ i # j
      BY <2>5, <3>1
    <3>4. ~es[i].whole /\ ~es[j].whole /\ ~Clash(es[j].op, es[i].op)
      BY <1>1, <3>2, <3>3
    <3>. QED
      BY <2>7, <3>4 DEF OpsOf
  <2>8. LateCall(InsertLatest(d, es[i]), ms, k, es, D[n - 1] \cup {i})
    BY <2>3, <2>5, <2>6, <2>7, LateElement
  <2>9. InsertLatest(d, b[n]) \in State
    BY <2>5, <2>8 DEF LateCall
  <2>. QED
    BY <1>4, <2>1, <2>5, <2>6, <2>8, <2>9
<1>7. InsertBatchLatest(c, b) \in Good[M]
  BY <1>1, <1>2, <1>5, <1>6, LatestElementsLoop
<1>8. M \in 0..M /\ D[M] = (p + 1)..N
  BY <1>1, <1>2, <1>3
<1>. QED
  BY <1>4, <1>7, <1>8

\* insert() with LATEST.
LEMMA InsertAllLate ==
    ASSUME NEW ms, Circ(ms), NEW k \in 0..Len(ms), NEW es, Given(es, ms),
           NEW bs, NEW f, Cut(bs, es, Len(es), f)
    PROVE  LateCall(InsertAllLatest(Start(ms, k, "LATEST", NoCache), bs), ms, k, es, 1..Len(es))
<1>1. PICK L, N : L = Len(bs) /\ N = Len(es)
  OBVIOUS
<1>2. /\ L \in Nat /\ N \in Nat /\ f \in [0..L -> 0..N] /\ f[0] = 0 /\ f[L] = N
      /\ \A i \in 1..L : IsBatch(bs[i], es, f[i - 1], f[i])
  BY <1>1 DEF Cut, Given
<1>3. PICK c : c = Start(ms, k, "LATEST", NoCache)
  OBVIOUS
<1>4. Len(ms) \in Nat /\ k \in Nat /\ ms \in Seq(Moments) /\ \A x \in OpsIn(ms) : At(ms, x) \in Nat
  BY AtFacts DEF Circ
<1>5. c \in State /\ c.ms = ms /\ c.k = k /\ c.cache = NoCache /\ ~c.raised /\ c.top = 0
  BY <1>3, <1>4, NoCacheOff DEF Start, State, Strategies
<1>6. (N + 1)..N = {} /\ New(es, {}) = {}
  BY <1>2 DEF New
<1>7. Late(ms, 0, ms, k, es, (N + 1)..N)
  BY <1>4, <1>6, OrderedStart DEF Late, PrecedesLater
<1>8. LateCall(c, ms, k, es, (f[L] + 1)..N)
  BY <1>2, <1>5, <1>7 DEF LateCall
<1>9. PICK Good : Good = [n \in 0..L |-> {d \in State : LateCall(d, ms, k, es, (f[L - n] + 1)..N)}]
  OBVIOUS
<1>10. c \in Good[0]
  <2>1. 0 \in 0..L /\ L - 0 = L
    BY <1>2
  <2>. QED
    BY <1>2, <1>5, <1>8, <1>9, <2>1
<1>11. ASSUME NEW n \in 1..L, NEW d \in Good[n - 1] PROVE InsertBatchLatest(d, bs[L - n + 1]) \in Good[n]
  <2>1. n - 1 \in 0..L /\ n \in 0..L /\ L - n + 1 \in 1..L /\ L - (n - 1) = L - n + 1 /\ (L - n + 1) - 1 = L - n
        /\ L - n \in 0..L
    BY <1>2
  <2>2. LateCall(d, ms, k, es, (f[L - n + 1] + 1)..N)
    BY <1>9, <2>1
  <2>3. PICK p \in Nat, q \in Nat : p = f[L - n] /\ q = f[L - n + 1]
    <3>1. \A i \in 0..L : f[i] \in Nat
      BY <1>2
    <3>2. L - n + 1 \in 0..L
      BY <2>1
    <3>3. f[L - n] \in Nat /\ f[L - n + 1] \in Nat
      BY <2>1, <3>1, <3>2
    <3>. QED
      BY <3>3
  <2>4. IsBatch(bs[L - n + 1], es, p, q)
    BY <1>2, <2>1, <2>3
  <2>5. LateCall(InsertBatchLatest(d, bs[L - n + 1]), ms, k, es, (p + 1)..N)
    BY <1>1, <1>2, <1>4, <2>2, <2>3, <2>4, LateBatch
  <2>6. InsertBatchLatest(d, bs[L - n + 1]) \in State
    BY <2>5 DEF LateCall
  <2>. QED
    BY <1>9, <2>1, <2>3, <2>5, <2>6
<1>12. InsertAllLatest(c, bs) \in Good[L]
  BY <1>1, <1>2, <1>10, <1>11, LatestBatchesLoop
<1>13. L \in 0..L /\ L - L = 0 /\ 0 + 1 = 1
  BY <1>2
<1>. QED
  BY <1>1, <1>2, <1>3, <1>9, <1>12, <1>13

----------------------------------------------------------------------------
(* The placement cache *)

\* The numbers of the moments in which V finds b.
With(ms, V(_), b) == {i \in 1..Len(ms) : b \in V(ms[i])}

\* The cache c, if it is in use, describes ms.
Exact(ms, c) ==
    /\ c \in Plain!CacheType
    /\ c.on => /\ c.len = Len(ms)
               /\ \A b \in Qubits : Plain!IsLast(c.q[b], With(ms, MomentQubits, b))
               /\ \A b \in Keys : /\ Plain!IsLast(c.m[b], With(ms, MomentMKeys, b))
                                  /\ Plain!IsLast(c.c[b], With(ms, MomentCKeys, b))

\* What LastConflict is the greatest of.
Conflicts(c, x) ==
    {0} \cup {c.q[b] : b \in QubitsOf[x]} \cup {c.m[b] : b \in MKeysOf[x] \cup CKeysOf[x]}
        \cup {c.c[b] : b \in MKeysOf[x]}

\* A moment blocks an operation exactly when they share a qubit or a key.
LEMMA BlocksByName ==
    ASSUME NEW m, NEW x
    PROVE  Blocks(m, x) <=>
             \/ \E b \in QubitsOf[x] : b \in MomentQubits(m)
             \/ \E b \in MKeysOf[x] \cup CKeysOf[x] : b \in MomentMKeys(m)
             \/ \E b \in MKeysOf[x] : b \in MomentCKeys(m)
  BY DEF Blocks, Overlaps

\* The entries of an exact cache.
LEMMA ExactBounds ==
    ASSUME NEW ms, Circ(ms), NEW c, Exact(ms, c), c.on
    PROVE  /\ \A b \in Qubits : /\ c.q[b] \in 0..Len(ms)
                                /\ c.q[b] # 0 => b \in MomentQubits(ms[c.q[b]])
                                /\ \A i \in 1..Len(ms) : b \in MomentQubits(ms[i]) => i <= c.q[b]
           /\ \A b \in Keys : /\ c.m[b] \in 0..Len(ms)
                              /\ c.m[b] # 0 => b \in MomentMKeys(ms[c.m[b]])
                              /\ \A i \in 1..Len(ms) : b \in MomentMKeys(ms[i]) => i <= c.m[b]
           /\ \A b \in Keys : /\ c.c[b] \in 0..Len(ms)
                              /\ c.c[b] # 0 => b \in MomentCKeys(ms[c.c[b]])
                              /\ \A i \in 1..Len(ms) : b \in MomentCKeys(ms[i]) => i <= c.c[b]
<1>1. Len(ms) \in Nat
  BY AtFacts
<1>2. /\ \A b \in Qubits : Plain!IsLast(c.q[b], With(ms, MomentQubits, b))
      /\ \A b \in Keys : /\ Plain!IsLast(c.m[b], With(ms, MomentMKeys, b))
                         /\ Plain!IsLast(c.c[b], With(ms, MomentCKeys, b))
  BY DEF Exact
<1>3. ASSUME NEW b \in Qubits
      PROVE  /\ c.q[b] \in 0..Len(ms) /\ (c.q[b] # 0 => b \in MomentQubits(ms[c.q[b]]))
             /\ \A i \in 1..Len(ms) : b \in MomentQubits(ms[i]) => i <= c.q[b]
  BY <1>1, <1>2 DEF With, Plain!IsLast
<1>4. ASSUME NEW b \in Keys
      PROVE  /\ c.m[b] \in 0..Len(ms) /\ (c.m[b] # 0 => b \in MomentMKeys(ms[c.m[b]]))
             /\ \A i \in 1..Len(ms) : b \in MomentMKeys(ms[i]) => i <= c.m[b]
  BY <1>1, <1>2 DEF With, Plain!IsLast
<1>5. ASSUME NEW b \in Keys
      PROVE  /\ c.c[b] \in 0..Len(ms) /\ (c.c[b] # 0 => b \in MomentCKeys(ms[c.c[b]]))
             /\ \A i \in 1..Len(ms) : b \in MomentCKeys(ms[i]) => i <= c.c[b]
  BY <1>1, <1>2 DEF With, Plain!IsLast
<1>. QED
  BY <1>3, <1>4, <1>5

\* The answer of an exact cache is the greatest entry that conflicts.
LEMMA ConflictGreatest ==
    ASSUME NEW ms, Circ(ms), NEW c, Exact(ms, c), c.on, NEW x \in Ops
    PROVE  /\ LastConflict(c, x) \in Conflicts(c, x) /\ LastConflict(c, x) \in 0..Len(ms)
           /\ \A i \in Conflicts(c, x) : i <= LastConflict(c, x)
<1>1. Len(ms) \in Nat
  BY AtFacts
<1>2. QubitsOf[x] \subseteq Qubits /\ MKeysOf[x] \subseteq Keys /\ CKeysOf[x] \subseteq Keys
  BY PlacementAssumption
<1>3. Conflicts(c, x) \subseteq 0..Len(ms)
  BY <1>1, <1>2, ExactBounds DEF Conflicts
<1>4. Conflicts(c, x) # {}
  BY DEF Conflicts
<1>5. LastConflict(c, x) = MaxOf(Conflicts(c, x))
  BY DEF LastConflict, Conflicts
<1>6. Conflicts(c, x) \in SUBSET Nat /\ \A i \in Conflicts(c, x) : i <= Len(ms)
  BY <1>1, <1>3
<1>7. PICK S : S = Conflicts(c, x)
  OBVIOUS
<1>8. MaxOf(S) \in S /\ \A i \in S : i <= MaxOf(S)
  <2>1. PICK N \in Nat : N = Len(ms)
    BY <1>1
  <2>2. S \in SUBSET Nat /\ S # {} /\ \A i \in S : i <= N
    BY <1>4, <1>6, <1>7, <2>1
  <2>. QED
    BY <2>2, Extremes
<1>. QED
  BY <1>3, <1>5, <1>7, <1>8

\* An exact cache gives the place that the scan finds.
LEMMA CacheScan ==
    ASSUME NEW ms, Circ(ms), NEW c, Exact(ms, c), c.on, NEW x \in Ops
    PROVE  LastConflict(c, x) = EarliestAvailable(ms, x, Len(ms))
<1>1. Len(ms) \in Nat /\ Len(ms) \in 0..Len(ms)
  BY AtFacts
<1>2. QubitsOf[x] \subseteq Qubits /\ MKeysOf[x] \subseteq Keys /\ CKeysOf[x] \subseteq Keys
  BY PlacementAssumption
<1>3. PICK e : e = EarliestAvailable(ms, x, Len(ms))
  OBVIOUS
<1>4. /\ e \in 0..Len(ms) /\ (e > 0 => Blocks(ms[e], x))
      /\ \A i \in 1..Len(ms) : Blocks(ms[i], x) => i <= e
  BY <1>1, <1>3, ScanFacts
<1>5. PICK a : a = LastConflict(c, x)
  OBVIOUS
<1>6. a \in Conflicts(c, x) /\ a \in 0..Len(ms) /\ \A i \in Conflicts(c, x) : i <= a
  BY <1>5, ConflictGreatest
<1>7. e <= a
  <2>. SUFFICES ASSUME e > 0 PROVE e <= a
    BY <1>1, <1>4, <1>6
  <2>1. e \in 1..Len(ms) /\ Blocks(ms[e], x)
    BY <1>1, <1>4
  <2>2. CASE \E b \in QubitsOf[x] : b \in MomentQubits(ms[e])
    <3>1. PICK b \in QubitsOf[x] : b \in MomentQubits(ms[e])
      BY <2>2
    <3>2. e <= c.q[b] /\ c.q[b] \in 0..Len(ms) /\ c.q[b] \in Conflicts(c, x)
      BY <1>2, <2>1, <3>1, ExactBounds DEF Conflicts
    <3>. QED
      BY <1>1, <1>4, <1>6, <3>2
  <2>3. CASE \E b \in MKeysOf[x] \cup CKeysOf[x] : b \in MomentMKeys(ms[e])
    <3>1. PICK b \in MKeysOf[x] \cup CKeysOf[x] : b \in MomentMKeys(ms[e])
      BY <2>3
    <3>2. e <= c.m[b] /\ c.m[b] \in 0..Len(ms) /\ c.m[b] \in Conflicts(c, x)
      BY <1>2, <2>1, <3>1, ExactBounds DEF Conflicts
    <3>. QED
      BY <1>1, <1>4, <1>6, <3>2
  <2>4. CASE \E b \in MKeysOf[x] : b \in MomentCKeys(ms[e])
    <3>1. PICK b \in MKeysOf[x] : b \in MomentCKeys(ms[e])
      BY <2>4
    <3>2. e <= c.c[b] /\ c.c[b] \in 0..Len(ms) /\ c.c[b] \in Conflicts(c, x)
      BY <1>2, <2>1, <3>1, ExactBounds DEF Conflicts
    <3>. QED
      BY <1>1, <1>4, <1>6, <3>2
  <2>. QED
    BY <2>1, <2>2, <2>3, <2>4, BlocksByName
<1>8. a <= e
  <2>. SUFFICES ASSUME a > 0 PROVE a <= e
    BY <1>1, <1>4, <1>6
  <2>1. a \in 1..Len(ms) /\ a # 0
    BY <1>1, <1>6
  <2>2. Blocks(ms[a], x)
    <3>1. CASE \E b \in QubitsOf[x] : a = c.q[b]
      BY <1>2, <2>1, <3>1, BlocksByName, ExactBounds
    <3>2. CASE \E b \in MKeysOf[x] \cup CKeysOf[x] : a = c.m[b]
      BY <1>2, <2>1, <3>2, BlocksByName, ExactBounds
    <3>3. CASE \E b \in MKeysOf[x] : a = c.c[b]
      BY <1>2, <2>1, <3>3, BlocksByName, ExactBounds
    <3>. QED
      BY <1>6, <2>1, <3>1, <3>2, <3>3 DEF Conflicts
  <2>. QED
    BY <1>4, <2>1, <2>2
<1>. QED
  BY <1>1, <1>3, <1>4, <1>5, <1>6, <1>7, <1>8

\* The moments of a circuit in which the operations S joined moment n.
LEMMA GrownMoments ==
    ASSUME NEW ms, Circ(ms), NEW t, NEW S, NEW n, Grown(ms, t, S, n, Len(ms)), NEW i \in 1..Len(t), NEW x
    PROVE  x \in t[i] <=> (i \in 1..Len(ms) /\ x \in ms[i]) \/ (i = n /\ x \in S)
<1>1. /\ Circ(t) /\ OpsIn(t) = OpsIn(ms) \cup S /\ Len(ms) \in Nat
      /\ \A y \in OpsIn(ms) : At(t, y) = At(ms, y) /\ At(ms, y) \in 1..Len(ms) /\ y \in ms[At(ms, y)]
      /\ \A y \in S : At(t, y) = n
  BY AtFacts DEF Grown
<1>2. x \in OpsIn(t) => x \in t[At(t, x)] /\ At(t, x) \in 1..Len(t)
  BY <1>1, AtFacts
<1>3. x \in t[i] => x \in OpsIn(t) /\ At(t, x) = i
  BY <1>1, AtFacts
<1>4. i \in 1..Len(ms) /\ x \in ms[i] => x \in OpsIn(ms) /\ At(ms, x) = i
  BY AtFacts
<1>. QED
  BY <1>1, <1>2, <1>3, <1>4

\* The cache records what joins moment n after all that conflicts with it.
LEMMA RecordExact ==
    ASSUME NEW ms, Circ(ms), NEW c, Exact(ms, c), c.on, NEW S \in Moments, NEW t, NEW n \in 1..(Len(ms) + 1),
           Grown(ms, t, S, n, Len(ms)), Len(t) = Greater(n, Len(ms)),
           \A b \in MomentQubits(S) : c.q[b] <= n, \A b \in MomentMKeys(S) : c.m[b] <= n
    PROVE  Exact(t, Record(c, S, n)) /\ Record(c, S, n).on
<1>1. Len(ms) \in Nat /\ n \in Nat /\ Len(t) \in Nat /\ n \in 1..Len(t) /\ Len(ms) <= Len(t) /\ n # 0
  BY AtFacts DEF Greater
<1>2. PICK r : r = Record(c, S, n)
  OBVIOUS
<1>3. /\ c.q \in [Qubits -> Nat] /\ c.m \in [Keys -> Nat] /\ c.c \in [Keys -> Nat] /\ c.len = Len(ms)
  BY DEF Exact, Plain!CacheType
<1>4. /\ r.on = TRUE /\ r.len = Len(t)
      /\ r.q = [b \in Qubits |-> IF b \in MomentQubits(S) THEN n ELSE c.q[b]]
      /\ r.m = [b \in Keys |-> IF b \in MomentMKeys(S) THEN n ELSE c.m[b]]
      /\ r.c = [b \in Keys |-> IF b \in MomentCKeys(S) /\ n > c.c[b] THEN n ELSE c.c[b]]
  BY <1>1, <1>2, <1>3 DEF Record, Greater
<1>5. r.q \in [Qubits -> Nat] /\ r.m \in [Keys -> Nat] /\ r.c \in [Keys -> Nat]
  BY <1>1, <1>3, <1>4
<1>6. r \in Plain!CacheType
  BY <1>1, <1>2, <1>4, <1>5 DEF Record, Plain!CacheType
<1>7. ASSUME NEW b, NEW i \in 1..Len(t)
      PROVE  /\ b \in MomentQubits(t[i]) <=>
                   (i \in 1..Len(ms) /\ b \in MomentQubits(ms[i])) \/ (i = n /\ b \in MomentQubits(S))
             /\ b \in MomentMKeys(t[i]) <=>
                   (i \in 1..Len(ms) /\ b \in MomentMKeys(ms[i])) \/ (i = n /\ b \in MomentMKeys(S))
             /\ b \in MomentCKeys(t[i]) <=>
                   (i \in 1..Len(ms) /\ b \in MomentCKeys(ms[i])) \/ (i = n /\ b \in MomentCKeys(S))
  <2>1. \A x : x \in t[i] <=> (i \in 1..Len(ms) /\ x \in ms[i]) \/ (i = n /\ x \in S)
    BY GrownMoments
  <2>2. /\ \A m : b \in MomentQubits(m) <=> \E x \in m : b \in QubitsOf[x]
        /\ \A m : b \in MomentMKeys(m) <=> \E x \in m : b \in MKeysOf[x]
        /\ \A m : b \in MomentCKeys(m) <=> \E x \in m : b \in CKeysOf[x]
    BY DEF MomentQubits, MomentMKeys, MomentCKeys
  <2>3. b \in MomentQubits(t[i]) <=>
          (i \in 1..Len(ms) /\ b \in MomentQubits(ms[i])) \/ (i = n /\ b \in MomentQubits(S))
    BY <2>1, <2>2
  <2>4. b \in MomentMKeys(t[i]) <=>
          (i \in 1..Len(ms) /\ b \in MomentMKeys(ms[i])) \/ (i = n /\ b \in MomentMKeys(S))
    BY <2>1, <2>2
  <2>5. b \in MomentCKeys(t[i]) <=>
          (i \in 1..Len(ms) /\ b \in MomentCKeys(ms[i])) \/ (i = n /\ b \in MomentCKeys(S))
    BY <2>1, <2>2
  <2>. QED
    BY <2>3, <2>4, <2>5
<1>8. ASSUME NEW b \in Qubits PROVE Plain!IsLast(r.q[b], With(t, MomentQubits, b))
  <2>1. PICK a : a = c.q[b]
    OBVIOUS
  <2>2. /\ a \in 0..Len(ms) /\ (a # 0 => b \in MomentQubits(ms[a]))
        /\ \A i \in 1..Len(ms) : b \in MomentQubits(ms[i]) => i <= a
    BY <2>1, ExactBounds
  <2>3. b \in MomentQubits(S) => a <= n
    BY <2>1
  <2>4. r.q[b] = IF b \in MomentQubits(S) THEN n ELSE a
    BY <1>4, <2>1
  <2>5. \A i \in With(t, MomentQubits, b) : i <= r.q[b]
    BY <1>1, <1>7, <2>2, <2>3, <2>4 DEF With
  <2>6. r.q[b] \in With(t, MomentQubits, b) \cup {0}
    BY <1>1, <1>7, <2>2, <2>4 DEF With
  <2>. QED
    BY <2>5, <2>6 DEF Plain!IsLast
<1>9. ASSUME NEW b \in Keys PROVE Plain!IsLast(r.m[b], With(t, MomentMKeys, b))
  <2>1. PICK a : a = c.m[b]
    OBVIOUS
  <2>2. /\ a \in 0..Len(ms) /\ (a # 0 => b \in MomentMKeys(ms[a]))
        /\ \A i \in 1..Len(ms) : b \in MomentMKeys(ms[i]) => i <= a
    BY <2>1, ExactBounds
  <2>3. b \in MomentMKeys(S) => a <= n
    BY <2>1
  <2>4. r.m[b] = IF b \in MomentMKeys(S) THEN n ELSE a
    BY <1>4, <2>1
  <2>5. \A i \in With(t, MomentMKeys, b) : i <= r.m[b]
    BY <1>1, <1>7, <2>2, <2>3, <2>4 DEF With
  <2>6. r.m[b] \in With(t, MomentMKeys, b) \cup {0}
    BY <1>1, <1>7, <2>2, <2>4 DEF With
  <2>. QED
    BY <2>5, <2>6 DEF Plain!IsLast
<1>10. ASSUME NEW b \in Keys PROVE Plain!IsLast(r.c[b], With(t, MomentCKeys, b))
  <2>1. PICK a : a = c.c[b]
    OBVIOUS
  <2>2. /\ a \in 0..Len(ms) /\ (a # 0 => b \in MomentCKeys(ms[a]))
        /\ \A i \in 1..Len(ms) : b \in MomentCKeys(ms[i]) => i <= a
    BY <2>1, ExactBounds
  <2>4. r.c[b] = IF b \in MomentCKeys(S) /\ n > a THEN n ELSE a
    BY <1>4, <2>1
  <2>5. \A i \in With(t, MomentCKeys, b) : i <= r.c[b]
    BY <1>1, <1>7, <2>2, <2>4 DEF With
  <2>6. r.c[b] \in With(t, MomentCKeys, b) \cup {0}
    BY <1>1, <1>7, <2>2, <2>4 DEF With
  <2>. QED
    BY <2>5, <2>6 DEF Plain!IsLast
<1>. QED
  BY <1>2, <1>4, <1>6, <1>8, <1>9, <1>10 DEF Exact

----------------------------------------------------------------------------
(* Appending *)

\* The moment an element is appended to, and the circuit with it.
Spot(t, e) == IF e.whole THEN Len(t) + 1 ELSE EarliestAvailable(t, e.op, Len(t)) + 1
Appended(t, e) == IF e.whole THEN InsertAt(t, Len(t) + 1, e.ops) ELSE Joined(t, Spot(t, e), e.op)

\* Everything the element clashes with is before its moment.
LEMMA AppendedFacts ==
    ASSUME NEW t, Circ(t), NEW e \in Elements, OpsOf(e) \cap OpsIn(t) = {}, NEW n, n = Spot(t, e)
    PROVE  /\ n \in 1..(Len(t) + 1) /\ n \in Nat /\ (~e.whole /\ n <= Len(t) => ~Overlaps(t[n], e.op))
           /\ Grown(t, Appended(t, e), OpsOf(e), n, Len(t)) /\ Len(Appended(t, e)) = Greater(n, Len(t))
           /\ \A x \in OpsIn(t), y \in OpsOf(e) : Clash(x, y) => At(t, x) < n
<1>1. Len(t) \in Nat /\ Len(t) \in 0..Len(t) /\ \A x \in OpsIn(t) : At(t, x) \in 1..Len(t)
  BY AtFacts
<1>2. CASE e.whole
  <2>1. n = Len(t) + 1 /\ e.ops \in Moments /\ OpsOf(e) = e.ops
    BY <1>2, ElementFacts DEF Spot
  <2>2. Appended(t, e) = InsertAt(t, Len(t) + 1, e.ops)
    BY <1>2 DEF Appended
  <2>3. /\ Grown(t, InsertAt(t, Len(t) + 1, e.ops), e.ops, Len(t) + 1, Len(t))
        /\ Len(InsertAt(t, Len(t) + 1, e.ops)) = Len(t) + 1
    BY <1>1, <2>1, InsertGrows
  <2>4. Greater(n, Len(t)) = Len(t) + 1
    BY <1>1, <2>1 DEF Greater
  <2>. QED
    BY <1>1, <1>2, <2>1, <2>2, <2>3, <2>4
<1>3. CASE ~e.whole
  <2>1. e.op \in Ops /\ OpsOf(e) = {e.op} /\ e.op \notin OpsIn(t)
    BY <1>3, ElementFacts
  <2>2. PICK a : a = EarliestAvailable(t, e.op, Len(t))
    OBVIOUS
  <2>3. /\ a \in 0..Len(t) /\ (\A i \in 1..Len(t) : Blocks(t[i], e.op) => i <= a)
        /\ \A y \in OpsIn(t) : Clash(y, e.op) /\ At(t, y) <= Len(t) => At(t, y) <= a
    BY <1>1, <2>2, ScanFacts
  <2>4. n = a + 1 /\ n \in 1..(Len(t) + 1) /\ n \in Nat
    BY <1>1, <1>3, <2>2, <2>3 DEF Spot
  <2>5. n <= Len(t) => ~Blocks(t[n], e.op)
    BY <1>1, <2>3, <2>4
  <2>6. n <= Len(t) => ~Overlaps(t[n], e.op)
    BY <2>5 DEF Blocks
  <2>7. PICK c : c = Start(t, 0, "EARLIEST", NoCache)
    OBVIOUS
  <2>8. c \in State /\ c.ms = t
    BY <2>7, NoCacheOff DEF Start, State, Strategies, Circ
  <2>9. /\ Grown(t, Joined(t, n, e.op), {e.op}, n, Len(t))
        /\ Len(Joined(t, n, e.op)) = Greater(n, Len(t))
    BY <2>1, <2>4, <2>6, <2>8, PutFacts
  <2>10. Appended(t, e) = Joined(t, n, e.op)
    BY <1>3 DEF Appended
  <2>11. \A x \in OpsIn(t) : Clash(x, e.op) => At(t, x) < n
    BY <1>1, <2>3, <2>4
  <2>. QED
    BY <1>3, <2>1, <2>4, <2>6, <2>9, <2>10, <2>11
<1>. QED
  BY <1>2, <1>3, ElementFacts

\* Appended elements are in order.
LEMMA OrderedAppend ==
    ASSUME NEW ms, Circ(ms), NEW k \in Nat, NEW es, Given(es, ms), NEW i \in Nat, i + 1 \in 1..Len(es),
           NEW t, Ordered(ms, k, es, 1..i, t)
    PROVE  /\ Ordered(ms, k, es, 1..(i + 1), Appended(t, es[i + 1]))
           /\ es[i + 1] \in Elements /\ OpsOf(es[i + 1]) \cap OpsIn(t) = {}
<1>1. PICK j \in Nat : j = i + 1
  OBVIOUS
<1>2. 1..j = (1..i) \cup {j} /\ j \notin 1..i /\ 1..i \in SUBSET Int /\ 1..i \in SUBSET (1..Len(es)) /\ j \in 1..Len(es)
  BY <1>1 DEF Given
<1>3. Circ(t) /\ OpsIn(t) = OpsIn(ms) \cup New(es, 1..i)
  BY DEF Ordered
<1>4. es[j] \in Elements /\ OpsOf(es[j]) \cap OpsIn(t) = {}
  BY <1>2, <1>3, NewAbsent
<1>5. PICK n, t2, h : n = Spot(t, es[j]) /\ t2 = Appended(t, es[j]) /\ h = Len(t)
  OBVIOUS
<1>6. /\ n \in Nat /\ Grown(t, t2, OpsOf(es[j]), n, h) /\ h \in Int
      /\ \A x \in OpsIn(t), y \in OpsOf(es[j]) : Clash(x, y) => At(t, x) < n
  BY <1>3, <1>4, <1>5, AppendedFacts, AtFacts
<1>7. \A x \in OpsIn(t) : At(t2, x) = At(t, x)
  BY <1>3, <1>5, <1>6, AtFacts DEF Grown
<1>8. \A x \in OpsIn(t), y \in OpsOf(es[j]) : Clash(x, y) => At(t2, x) < n
  BY <1>6, <1>7
<1>9. \A x \in OpsIn(ms), y \in OpsOf(es[j]) : At(ms, x) <= k /\ Clash(x, y) => At(t2, x) < n
  BY <1>3, <1>8
<1>9a. PICK D : D = 1..i
  OBVIOUS
<1>10. ASSUME NEW l \in D, NEW x \in OpsOf(es[l]), NEW y \in OpsOf(es[j]), Clash(x, y)
       PROVE  (l < j => At(t2, x) < n) /\ (j < l => n < At(t2, x))
  <2>1. x \in OpsIn(t)
    BY <1>3, <1>9a DEF New
  <2>2. ~(j < l)
    BY <1>1, <1>9a
  <2>. QED
    BY <1>8, <1>10, <2>1, <2>2
<1>11. Ordered(ms, k, es, D \cup {j}, t2)
  <2>1. D \in SUBSET Int /\ j \in Int /\ j \notin D /\ Ordered(ms, k, es, D, t)
    BY <1>2, <1>9a
  <2>. QED
    BY <1>6, <1>9, <1>10, <2>1, OrderedStep
<1>. QED
  BY <1>1, <1>2, <1>4, <1>5, <1>11, <1>9a

\* The cache answers with the moment the scan finds, and goes on describing the circuit.
LEMMA CachedSpot ==
    ASSUME NEW t, Circ(t), NEW c, Exact(t, c), c.on, NEW e \in Elements, OpsOf(e) \cap OpsIn(t) = {},
           NEW n, n = Spot(t, e)
    PROVE  /\ n = 1 + (IF e.whole THEN c.len ELSE LastConflict(c, e.op))
           /\ Exact(Appended(t, e), Record(c, OpsOf(e), n)) /\ Record(c, OpsOf(e), n).on
<1>1. Len(t) \in Nat /\ Len(t) \in 0..Len(t) /\ c.len = Len(t)
  BY AtFacts DEF Exact
<1>2. /\ n \in 1..(Len(t) + 1) /\ n \in Nat
      /\ Grown(t, Appended(t, e), OpsOf(e), n, Len(t)) /\ Len(Appended(t, e)) = Greater(n, Len(t))
  BY AppendedFacts
<1>3. /\ n = 1 + (IF e.whole THEN c.len ELSE LastConflict(c, e.op))
      /\ \A b \in MomentQubits(OpsOf(e)) : c.q[b] <= n
      /\ \A b \in MomentMKeys(OpsOf(e)) : c.m[b] <= n
  <2>1. CASE e.whole
    <3>1. n = Len(t) + 1
      BY <2>1 DEF Spot
    <3>2. OpsOf(e) \subseteq Ops
      BY ElementFacts
    <3>3. MomentQubits(OpsOf(e)) \subseteq Qubits /\ MomentMKeys(OpsOf(e)) \subseteq Keys
      BY <3>2, PlacementAssumption DEF MomentQubits, MomentMKeys
    <3>4. /\ \A b \in Qubits : c.q[b] \in 0..Len(t)
          /\ \A b \in Keys : c.m[b] \in 0..Len(t)
      BY ExactBounds
    <3>. QED
      BY <1>1, <2>1, <3>1, <3>3, <3>4
  <2>2. CASE ~e.whole
    <3>1. e.op \in Ops /\ OpsOf(e) = {e.op}
      BY <2>2, ElementFacts
    <3>2. PICK a : a = LastConflict(c, e.op)
      OBVIOUS
    <3>3. a \in 0..Len(t) /\ \A i \in Conflicts(c, e.op) : i <= a
      BY <3>1, <3>2, ConflictGreatest
    <3>4. a = EarliestAvailable(t, e.op, Len(t))
      BY <3>1, <3>2, CacheScan
    <3>5. n = a + 1 /\ a \in Nat
      BY <1>1, <2>2, <3>3, <3>4 DEF Spot
    <3>6. MomentQubits(OpsOf(e)) = QubitsOf[e.op] /\ MomentMKeys(OpsOf(e)) = MKeysOf[e.op]
      BY <3>1 DEF MomentQubits, MomentMKeys
    <3>7. QubitsOf[e.op] \subseteq Qubits /\ MKeysOf[e.op] \subseteq Keys
      BY <3>1, PlacementAssumption
    <3>8. ASSUME NEW b \in QubitsOf[e.op] PROVE c.q[b] <= n
      <4>1. c.q[b] \in Conflicts(c, e.op) /\ c.q[b] \in 0..Len(t)
        BY <3>7, ExactBounds DEF Conflicts
      <4>. QED
        BY <1>1, <3>3, <3>5, <4>1
    <3>9. ASSUME NEW b \in MKeysOf[e.op] PROVE c.m[b] <= n
      <4>1. c.m[b] \in Conflicts(c, e.op) /\ c.m[b] \in 0..Len(t)
        BY <3>7, ExactBounds DEF Conflicts
      <4>. QED
        BY <1>1, <3>3, <3>5, <4>1
    <3>. QED
      BY <2>2, <3>2, <3>5, <3>6, <3>8, <3>9
  <2>. QED
    BY <2>1, <2>2
<1>4. OpsOf(e) \in Moments
  BY ElementFacts
<1>. QED
  BY <1>2, <1>3, <1>4, RecordExact

\* The state after one element is inserted with the cache.
Cached(c, e) ==
    [c EXCEPT !.ms = Appended(@, e), !.cache = Record(@, OpsOf(e), Spot(c.ms, e)),
              !.top = Greater(Spot(c.ms, e), @)]

\* It goes where the scan would put it.
LEMMA CachedElement ==
    ASSUME NEW c \in State, ~c.raised, c.cache.on, c.strategy = "EARLIEST", Circ(c.ms), Exact(c.ms, c.cache),
           NEW e \in Elements, OpsOf(e) \cap OpsIn(c.ms) = {}
    PROVE  InsertElement(c, e) = Cached(c, e)
<1>1. PICK n, t, r : n = Spot(c.ms, e) /\ t = Appended(c.ms, e) /\ r = Record(c.cache, OpsOf(e), n)
  OBVIOUS
<1>2. n \in 1..(Len(c.ms) + 1) /\ n \in Nat /\ (~e.whole /\ n <= Len(c.ms) => ~Overlaps(c.ms[n], e.op))
  BY <1>1, AppendedFacts
<1>3. /\ n = 1 + (IF e.whole THEN c.cache.len ELSE LastConflict(c.cache, e.op))
      /\ Exact(t, r) /\ r.on
  BY <1>1, CachedSpot
<1>3a. c.cache.on = TRUE
  BY DEF Exact, Plain!CacheType
<1>4. r \in Plain!CacheType
  BY <1>3 DEF Exact
<1>5. CASE e.whole
  <2>1. t = InsertAt(c.ms, n, e.ops)
    BY <1>1, <1>5 DEF Appended, Spot
  <2>2. InsertElement(c, e) = [c EXCEPT !.ms = t, !.cache = r, !.top = Greater(n, @)]
    BY <1>1, <1>3, <1>3a, <1>5, <2>1 DEF InsertElement, State
  <2>. QED
    BY <1>1, <2>2 DEF Cached
<1>6. CASE ~e.whole
  <2>1. t = Joined(c.ms, n, e.op) /\ e.op \in Ops /\ e.op \notin OpsIn(c.ms)
    BY <1>1, <1>6, ElementFacts DEF Appended
  <2>2. PICK d : d = [c EXCEPT !.cache = r]
    OBVIOUS
  <2>3. d.ms = c.ms /\ d \in State
    BY <1>4, <2>2 DEF State
  <2>4. Put(d, n, e.op) = [d EXCEPT !.ms = t]
    BY <1>2, <1>6, <2>1, <2>3, PutFacts
  <2>5. PICK d1 : d1 = [c EXCEPT !.cache = IF @.on THEN Record(@, OpsOf(e), n) ELSE @, !.ms = @]
    OBVIOUS
  <2>6. d1 = d
    BY <1>1, <1>3a, <2>2, <2>5 DEF State
  <2>7. PICK d2 : d2 = Put(d1, n, e.op)
    OBVIOUS
  <2>8. InsertElement(c, e) = [d2 EXCEPT !.top = Greater(n, @),
                        !.strategy = IF @ = "NEW_THEN_INLINE" THEN "INLINE" ELSE @,
                        !.k = IF c.strategy = "NEW_THEN_INLINE" THEN @ + 1 ELSE @]
    BY <1>3, <1>3a, <1>6, <2>5, <2>7 DEF InsertElement
  <2>9. d2 = [c EXCEPT !.ms = t, !.cache = r]
    BY <2>2, <2>4, <2>6, <2>7 DEF State
  <2>10. InsertElement(c, e) = [c EXCEPT !.ms = t, !.cache = r, !.top = Greater(n, @)]
    BY <2>8, <2>9 DEF State
  <2>. QED
    BY <1>1, <2>10 DEF Cached
<1>. QED
  BY <1>5, <1>6

\* After i elements of a call with the cache.
Caching(c, ms, es, i) ==
    /\ c \in State /\ ~c.raised /\ c.cache.on /\ c.strategy = "EARLIEST"
    /\ Exact(c.ms, c.cache) /\ Ordered(ms, Len(ms), es, 1..i, c.ms)
    /\ c.k = Len(ms) /\ Greater(c.k, c.top) = Greater(1, Len(c.ms))

\* One more element.
LEMMA CachingStep ==
    ASSUME NEW ms, Circ(ms), NEW es, Given(es, ms), NEW i \in Nat, i + 1 \in 1..Len(es), NEW c, Caching(c, ms, es, i)
    PROVE  /\ InsertElement(c, es[i + 1]) = Cached(c, es[i + 1])
           /\ Caching(Cached(c, es[i + 1]), ms, es, i + 1)
<1>1. PICK e, n, t, r : /\ e = es[i + 1] /\ n = Spot(c.ms, e) /\ t = Appended(c.ms, e)
                        /\ r = Record(c.cache, OpsOf(e), n)
  OBVIOUS
<1>2. /\ c \in State /\ ~c.raised /\ c.cache.on /\ c.strategy = "EARLIEST" /\ Exact(c.ms, c.cache)
      /\ Ordered(ms, Len(ms), es, 1..i, c.ms) /\ c.k = Len(ms) /\ Greater(c.k, c.top) = Greater(1, Len(c.ms))
      /\ Circ(c.ms) /\ Len(ms) \in Nat /\ Len(c.ms) \in Nat
  BY AtFacts DEF Caching, Ordered
<1>3. Ordered(ms, Len(ms), es, 1..(i + 1), t) /\ e \in Elements /\ OpsOf(e) \cap OpsIn(c.ms) = {}
  BY <1>1, <1>2, OrderedAppend
<1>4. n \in Nat /\ n # 0 /\ Len(t) = Greater(n, Len(c.ms))
  BY <1>1, <1>2, <1>3, AppendedFacts
<1>5. Exact(t, r) /\ r.on /\ r \in Plain!CacheType
  BY <1>1, <1>2, <1>3, CachedSpot DEF Exact
<1>6. InsertElement(c, e) = Cached(c, e)
  BY <1>2, <1>3, CachedElement
<1>7. PICK d : d = Cached(c, e)
  OBVIOUS
<1>8. d = [c EXCEPT !.ms = t, !.cache = r, !.top = Greater(n, @)]
  BY <1>1, <1>7 DEF Cached
<1>9. Greater(n, c.top) \in Nat /\ t \in Seq(Moments)
  BY <1>2, <1>3, <1>4 DEF Greater, State, Ordered, Circ
<1>10. /\ d \in State /\ ~d.raised /\ d.cache = r /\ d.strategy = "EARLIEST" /\ d.ms = t /\ d.k = c.k
       /\ d.top = Greater(n, c.top)
  BY <1>2, <1>5, <1>8, <1>9 DEF State
<1>11. Greater(d.k, d.top) = Greater(1, Len(d.ms))
  <2>1. c.k \in Nat /\ c.top \in Nat
    BY <1>2 DEF State
  <2>. QED
    BY <1>2, <1>4, <1>10, <2>1 DEF Greater
<1>. QED
  BY <1>1, <1>2, <1>3, <1>5, <1>6, <1>7, <1>10, <1>11 DEF Caching

\* A call with one batch.
LEMMA OneBatch ==
    ASSUME NEW c, NEW b
    PROVE  InsertAll(c, <<b>>) = InsertBatch(c, b)
<1>1. PICK bs : bs = <<b>>
  OBVIOUS
<1>2. Len(bs) = 1 /\ Len(bs) \in Nat /\ bs[1] = b
  BY <1>1
<1>3. PICK Good : Good = [n \in 0..1 |-> IF n = 0 THEN {c} ELSE {InsertBatch(c, b)}]
  OBVIOUS
<1>4. Good[0] = {c} /\ Good[1] = {InsertBatch(c, b)}
  BY <1>3
<1>5. ASSUME NEW n \in 1..Len(bs), NEW d \in Good[n - 1] PROVE InsertBatch(d, bs[n]) \in Good[n]
  <2>1. n = 1 /\ n - 1 = 0
    BY <1>2
  <2>. QED
    BY <1>2, <1>4, <2>1
<1>6. c \in Good[0]
  BY <1>4
<1>7. InsertAll(c, bs) \in Good[Len(bs)]
  BY <1>2, <1>5, <1>6, BatchesLoop
<1>. QED
  BY <1>1, <1>2, <1>4, <1>7

\* The states of a call with the cache.
CachedRun(g, ms, ch, es) ==
    /\ g[0] = [Start(ms, Len(ms), "EARLIEST", ch) EXCEPT !.top = 1]
    /\ \A n \in 1..Len(es) : g[n] = Cached(g[n - 1], es[n])
    /\ \A n \in 0..Len(es) : Caching(g[n], ms, es, n)

\* Appending with the cache is such a call.
LEMMA AppendCached ==
    ASSUME NEW ms, Circ(ms), NEW ch, Exact(ms, ch), ch.on, NEW es, Given(es, ms)
    PROVE  \E g : /\ CachedRun(g, ms, ch, es)
                  /\ InsertAll(Start(ms, Len(ms), "EARLIEST", ch), <<es>>) = Finished(g[Len(es)])
<1>1. PICK N : N = Len(es)
  OBVIOUS
<1>2. N \in Nat /\ Len(ms) \in Nat /\ ms \in Seq(Moments)
  BY <1>1, AtFacts DEF Given, Circ
<1>3. PICK c : c = Start(ms, Len(ms), "EARLIEST", ch)
  OBVIOUS
<1>4. PICK c0 : c0 = [c EXCEPT !.top = 1]
  OBVIOUS
<1>5. /\ c0 \in State /\ ~c0.raised /\ c0.cache = ch /\ c0.strategy = "EARLIEST" /\ c0.ms = ms /\ c0.k = Len(ms)
      /\ c0.top = 1 /\ c.cache = ch /\ ~c.raised
  BY <1>2, <1>3, <1>4 DEF Start, State, Strategies, Exact
<1>6. Caching(c0, ms, es, 0)
  <2>1. 1..0 = {}
    OBVIOUS
  <2>2. Greater(Len(ms), 1) = Greater(1, Len(ms))
    BY <1>2 DEF Greater
  <2>. QED
    BY <1>5, <2>1, <2>2, OrderedStart DEF Caching
<1>7. PICK Good : Good = [n \in 0..N |-> {d \in State : Caching(d, ms, es, n)}]
  OBVIOUS
<1>8. c0 \in Good[0]
  BY <1>2, <1>5, <1>6, <1>7
<1>9. ASSUME NEW n \in 1..N, NEW d \in Good[n - 1]
      PROVE  InsertElement(d, es[n]) \in Good[n] /\ InsertElement(d, es[n]) = Cached(d, es[n])
  <2>1. PICK i \in Nat : i = n - 1
    BY <1>2
  <2>2. i + 1 = n /\ n \in 0..N /\ i \in 0..N
    BY <1>2, <2>1
  <2>3. Caching(d, ms, es, i)
    BY <1>7, <2>1, <2>2
  <2>4. i + 1 \in 1..Len(es)
    BY <1>1, <2>2
  <2>5. InsertElement(d, es[i + 1]) = Cached(d, es[i + 1]) /\ Caching(Cached(d, es[i + 1]), ms, es, i + 1)
    BY <2>3, <2>4, CachingStep
  <2>6. Cached(d, es[n]) \in State
    BY <2>2, <2>5 DEF Caching
  <2>. QED
    BY <1>7, <2>2, <2>5, <2>6
<1>10a. PICK g : ElementsRun(g, c0, es, Good)
  <2>1. \A n \in 1..Len(es) : \A d \in Good[n - 1] : InsertElement(d, es[n]) \in Good[n]
    BY <1>1, <1>9
  <2>2. Len(es) \in Nat
    BY <1>1, <1>2
  <2>. QED
    BY <1>8, <2>1, <2>2, ElementsLoop
<1>10. /\ g[0] = c0 /\ \A n \in 1..Len(es) : g[n] = InsertElement(g[n - 1], es[n])
       /\ \A n \in 0..Len(es) : g[n] \in Good[n]
       /\ InsertElements(c0, es) = g[Len(es)]
  BY <1>10a DEF ElementsRun
<1>11. CachedRun(g, ms, ch, es)
  <2>1. ASSUME NEW n \in 1..Len(es) PROVE g[n] = Cached(g[n - 1], es[n])
    <3>1. n - 1 \in 0..Len(es)
      BY <1>1, <1>2
    <3>2. g[n - 1] \in Good[n - 1]
      BY <1>10, <3>1
    <3>. QED
      BY <1>1, <1>9, <1>10, <3>2
  <2>2. \A n \in 0..Len(es) : Caching(g[n], ms, es, n)
    BY <1>1, <1>7, <1>10
  <2>. QED
    BY <1>3, <1>4, <1>10, <2>1, <2>2 DEF CachedRun
<1>12. InsertBatch(c, es) = Finished(g[Len(es)])
  <2>1. ~NeedsMoment(c, es)
    BY <1>5 DEF NeedsMoment
  <2>. QED
    BY <1>4, <1>5, <1>10, <2>1 DEF InsertBatch, Finished
<1>. QED
  BY <1>3, <1>11, <1>12, OneBatch

\* What a call with the cache returns after the state d.
Returned(r, d, ms, es, i) ==
    /\ r \in State /\ ~r.raised /\ r.ms = d.ms /\ r.cache = d.cache /\ r.cache.on /\ Exact(r.ms, r.cache)
    /\ Ordered(ms, Len(ms), es, 1..i, r.ms) /\ r.k = Greater(1, Len(r.ms))
    /\ \A x \in OpsIn(r.ms) : At(r.ms, x) <= r.k

\* It does.
LEMMA CachedResult ==
    ASSUME NEW ms, Circ(ms), NEW es, NEW i \in Nat, NEW d, Caching(d, ms, es, i),
           NEW r, r = Finished(d)
    PROVE  Returned(r, d, ms, es, i)
<1>1. /\ d \in State /\ ~d.raised /\ d.cache.on /\ Exact(d.ms, d.cache)
      /\ Ordered(ms, Len(ms), es, 1..i, d.ms) /\ Greater(d.k, d.top) = Greater(1, Len(d.ms))
      /\ Circ(d.ms) /\ Len(d.ms) \in Nat /\ \A x \in OpsIn(d.ms) : At(d.ms, x) \in 1..Len(d.ms)
  BY AtFacts DEF Caching, Ordered
<1>2. Greater(1, Len(d.ms)) \in Nat /\ Len(d.ms) <= Greater(1, Len(d.ms))
  BY <1>1 DEF Greater
<1>3. r \in State /\ ~r.raised /\ r.ms = d.ms /\ r.cache = d.cache /\ r.k = Greater(1, Len(r.ms))
  BY <1>1, <1>2 DEF State, Finished
<1>. QED
  BY <1>1, <1>2, <1>3 DEF Returned

----------------------------------------------------------------------------
(* insert() *)

\* What insert() promises of its result r.
Inserted(r, ms, k, es, s) ==
    /\ r \in State /\ ~r.raised
    /\ Ordered(ms, k, es, 1..Len(es), r.ms)
    /\ \A x \in New(es, 1..Len(es)) : At(r.ms, x) <= r.k
    /\ s # "EARLIEST" => PrecedesLater(ms, k, New(es, 1..Len(es)), r.ms)
    /\ Exact(r.ms, r.cache) /\ (r.cache.on \/ r.cache = NoCache)
    /\ s = "LATEST" /\ r.top = 0 => r.ms = ms

\* A circuit without a cache has nothing that could be wrong.
LEMMA NoCacheExact == \A ms : Exact(ms, NoCache)
  BY NoCacheOff DEF Exact

\* insert() keeps its promises with every strategy, with and without the cache.
LEMMA InsertFacts ==
    ASSUME NEW ms, Circ(ms), NEW ch, Exact(ms, ch), ch.on \/ ch = NoCache, NEW k \in 0..Len(ms),
           NEW es, Given(es, ms), NEW s \in Strategies, NEW r, r = Insert(ms, ch, k, es, s)
    PROVE  Inserted(r, ms, k, es, s)
<1>1. PICK D : D = 1..Len(es)
  OBVIOUS
<1>2. Len(es) \in Nat /\ es \in Seq(Elements) /\ Len(ms) \in Nat
  BY AtFacts DEF Given
<1>3. CASE ch.on /\ s = "EARLIEST" /\ k = Len(ms)
  <2>1. KeptCache(ms, ch, k, s) = ch
    BY <1>3 DEF KeptCache
  <2>2. PICK c : c = Start(ms, Len(ms), "EARLIEST", ch)
    OBVIOUS
  <2>3. c.cache = ch
    BY <2>2 DEF Start
  <2>4. r = InsertAll(c, <<es>>)
    BY <1>3, <2>1, <2>2, <2>3 DEF Insert
  <2>5. PICK g : /\ CachedRun(g, ms, ch, es)
                 /\ InsertAll(Start(ms, Len(ms), "EARLIEST", ch), <<es>>) = Finished(g[Len(es)])
    <3>1. ch.on
      BY <1>3
    <3>. QED
      BY <3>1, AppendCached
  <2>6. PICK N \in Nat : N = Len(es)
    BY <1>2
  <2>6a. PICK d : d = g[N]
    OBVIOUS
  <2>7. Caching(d, ms, es, N) /\ r = Finished(d)
    <3>1. Len(es) \in 0..Len(es)
      BY <1>2
    <3>2. Caching(g[Len(es)], ms, es, Len(es))
      BY <2>5, <3>1 DEF CachedRun
    <3>. QED
      BY <2>2, <2>4, <2>5, <2>6, <2>6a, <3>2
  <2>7a. Returned(r, d, ms, es, N)
    BY <2>7, CachedResult
  <2>7b. /\ r \in State /\ ~r.raised /\ r.cache.on /\ Exact(r.ms, r.cache)
         /\ Ordered(ms, Len(ms), es, 1..N, r.ms) /\ \A x \in OpsIn(r.ms) : At(r.ms, x) <= r.k
    BY <2>7a DEF Returned
  <2>8. \A x \in New(es, 1..Len(es)) : At(r.ms, x) <= r.k
    BY <2>6, <2>7b DEF Ordered
  <2>. QED
    BY <1>3, <2>6, <2>7b, <2>8 DEF Inserted
<1>4. CASE ~(ch.on /\ s = "EARLIEST" /\ k = Len(ms))
  <2>1. KeptCache(ms, ch, k, s) = NoCache
    BY <1>4 DEF KeptCache
  <2>2. PICK c : c = Start(ms, k, s, NoCache)
    OBVIOUS
  <2>3. c.cache.on = FALSE
    BY <2>2, NoCacheOff DEF Start
  <2>4. PICK bs : bs = IF s = "NEW" THEN [i \in DOMAIN es |-> <<es[i]>>] ELSE Group(es)
    OBVIOUS
  <2>5. r = IF s # "LATEST" THEN InsertAll(c, bs)
            ELSE [InsertAllLatest(c, bs) EXCEPT !.k = IF InsertAllLatest(c, bs).top = 0 THEN k
                                                      ELSE InsertAllLatest(c, bs).top]
    BY <2>1, <2>2, <2>3, <2>4 DEF Insert, LatestDone
  <2>6. PICK f : Cut(bs, es, Len(es), f) /\ (s = "NEW" => \A i \in 1..Len(bs) : f[i] = f[i - 1] + 1)
    <3>1. CASE s = "NEW"
      BY <1>2, <2>4, <3>1, SinglesCut
    <3>2. CASE s # "NEW"
      BY <1>2, <2>4, <3>2, GroupCuts
    <3>. QED
      BY <3>1, <3>2
  <2>7. CASE s # "LATEST"
    <3>1. Between(r, s, ms, k, es, 1..Len(es))
      BY <2>2, <2>5, <2>6, <2>7, InsertAllOrdered
    <3>2. r \in State /\ ~r.raised /\ r.cache = NoCache /\ Placed(r.ms, r.k, s, ms, k, es, D)
      BY <1>1, <3>1 DEF Between
    <3>3. /\ Ordered(ms, k, es, D, r.ms)
          /\ \A x \in New(es, D) : At(r.ms, x) <= r.k
          /\ s # "EARLIEST" => \A x \in OpsIn(ms) : At(ms, x) > k => At(r.ms, x) > r.k
      BY <3>2 DEF Placed
    <3>4. /\ OpsIn(r.ms) = OpsIn(ms) \cup New(es, D) /\ r.k \in Nat
          /\ \A x \in OpsIn(r.ms) : At(r.ms, x) \in Nat
      BY <3>2, <3>3, AtFacts DEF Ordered, State
    <3>5. s # "EARLIEST" => PrecedesLater(ms, k, New(es, D), r.ms)
      BY <3>3, <3>4 DEF PrecedesLater
    <3>. QED
      BY <1>1, <2>7, <3>2, <3>3, <3>5, NoCacheExact DEF Inserted
  <2>8. CASE s = "LATEST"
    <3>1. PICK d : d = InsertAllLatest(c, bs)
      OBVIOUS
    <3>2. LateCall(d, ms, k, es, D)
      BY <1>1, <2>2, <2>6, <2>8, <3>1, InsertAllLate
    <3>3. d \in State /\ ~d.raised /\ d.cache = NoCache /\ Late(d.ms, d.top, ms, k, es, D)
      BY <3>2 DEF LateCall
    <3>4. PICK j : j = IF d.top = 0 THEN k ELSE d.top
      OBVIOUS
    <3>5. j \in Nat /\ j >= d.top
      BY <1>2, <3>3, <3>4 DEF State
    <3>6. r = [d EXCEPT !.k = j]
      BY <2>5, <2>8, <3>1, <3>4
    <3>7. r \in State /\ ~r.raised /\ r.cache = NoCache /\ r.ms = d.ms /\ r.k = j /\ r.top = d.top
      BY <3>3, <3>5, <3>6 DEF State
    <3>8. /\ Ordered(ms, k, es, D, r.ms) /\ d.top \in Nat
          /\ \A x \in New(es, D) : At(r.ms, x) <= d.top
          /\ PrecedesLater(ms, k, New(es, D), r.ms)
          /\ d.top = 0 => r.ms = ms
      BY <3>3, <3>7 DEF Late
    <3>9. \A x \in New(es, D) : At(r.ms, x) \in Nat
      BY <3>8, AtFacts DEF Ordered
    <3>10. \A x \in New(es, D) : At(r.ms, x) <= r.k
      BY <3>5, <3>7, <3>8, <3>9
    <3>. QED
      BY <1>1, <3>7, <3>8, <3>10, NoCacheExact DEF Inserted
  <2>. QED
    BY <2>7, <2>8
<1>. QED
  BY <1>3, <1>4

----------------------------------------------------------------------------
(* The three ways to append *)

\* The circuits in which the elements are appended to ms, one by one.
Appending(G, ms, es) ==
    /\ G[0] = ms
    /\ \A n \in 1..Len(es) : G[n] = Appended(G[n - 1], es[n])
    /\ \A n \in 0..Len(es) : Ordered(ms, Len(ms), es, 1..n, G[n])

\* The moments in a call with the cache are such circuits.
LEMMA CachedAppending ==
    ASSUME NEW ms, NEW ch, NEW es, Len(es) \in Nat, NEW g, CachedRun(g, ms, ch, es)
    PROVE  Appending([n \in 0..Len(es) |-> g[n].ms], ms, es)
<1>1. PICK G : G = [n \in 0..Len(es) |-> g[n].ms]
  OBVIOUS
<1>2. /\ g[0] = [Start(ms, Len(ms), "EARLIEST", ch) EXCEPT !.top = 1]
      /\ \A n \in 1..Len(es) : g[n] = Cached(g[n - 1], es[n])
      /\ \A n \in 0..Len(es) : Caching(g[n], ms, es, n)
  BY DEF CachedRun
<1>3. G[0] = ms
  BY <1>1, <1>2 DEF Start
<1>4. ASSUME NEW n \in 1..Len(es) PROVE G[n] = Appended(G[n - 1], es[n])
  <2>1. n - 1 \in 0..Len(es) /\ n \in 0..Len(es)
    OBVIOUS
  <2>2. PICK c : c = g[n - 1]
    OBVIOUS
  <2>3. c \in State /\ g[n] = Cached(c, es[n])
    BY <1>2, <2>1, <2>2 DEF Caching
  <2>4. g[n].ms = Appended(c.ms, es[n])
    BY <2>3 DEF Cached, State
  <2>. QED
    BY <1>1, <2>1, <2>2, <2>4
<1>5. \A n \in 0..Len(es) : Ordered(ms, Len(ms), es, 1..n, G[n])
  BY <1>1, <1>2 DEF Caching
<1>. QED
  BY <1>1, <1>3, <1>4, <1>5 DEF Appending

\* A circuit is the sequence of the sets of operations at each place.
LEMMA SameCircuit ==
    ASSUME NEW ms, Circ(ms), NEW t, Circ(t), Len(t) = Len(ms), OpsIn(t) = OpsIn(ms),
           \A x \in OpsIn(ms) : At(t, x) = At(ms, x)
    PROVE  t = ms
<1>1. Len(ms) \in Nat /\ ms \in Seq(Moments) /\ t \in Seq(Moments)
  BY AtFacts DEF Circ
<1>2. ASSUME NEW n \in 1..Len(ms) PROVE t[n] = ms[n]
  <2>1. \A x : x \in ms[n] <=> x \in OpsIn(ms) /\ At(ms, x) = n
    BY AtFacts
  <2>2. \A x : x \in t[n] <=> x \in OpsIn(t) /\ At(t, x) = n
    BY AtFacts
  <2>. QED
    BY <2>1, <2>2
<1>. QED
  BY <1>1, <1>2, SeqEqual

\* The places of the first n elements are found.
Placing(d, c, es, n) ==
    /\ d.cache = c.cache /\ d.at \in Seq(Nat) /\ Len(d.at) = n
    /\ \A i \in 1..n : \A x \in OpsOf(es[i]) : At(c.ms, x) = d.at[i]

\* Appending an element moves nothing.
LEMMA PlacingStep ==
    ASSUME NEW es, Given(es, <<>>), NEW n \in Nat, n + 1 \in 1..Len(es), NEW c, Caching(c, <<>>, es, n),
           NEW d \in [cache : Plain!CacheType, at : Seq(Nat)], Placing(d, c, es, n)
    PROVE  /\ FindPlace(d, es[n + 1]) \in [cache : Plain!CacheType, at : Seq(Nat)]
           /\ Placing(FindPlace(d, es[n + 1]), Cached(c, es[n + 1]), es, n + 1)
<1>1. PICK e, s, t : e = es[n + 1] /\ s = Spot(c.ms, e) /\ t = Appended(c.ms, e)
  OBVIOUS
<1>2. Circ(<<>>)
  BY DEF Circ
<1>3. /\ c \in State /\ c.cache.on /\ Exact(c.ms, c.cache) /\ Ordered(<<>>, Len(<<>>), es, 1..n, c.ms)
      /\ Circ(c.ms) /\ OpsIn(c.ms) = OpsIn(<<>>) \cup New(es, 1..n)
  BY DEF Caching, Ordered
<1>4. e \in Elements /\ OpsOf(e) \cap OpsIn(c.ms) = {}
  <2>1. Len(<<>>) \in Nat
    OBVIOUS
  <2>. QED
    BY <1>1, <1>2, <1>3, <2>1, OrderedAppend
<1>5. s \in Nat /\ Grown(c.ms, t, OpsOf(e), s, Len(c.ms))
  BY <1>1, <1>3, <1>4, AppendedFacts
<1>6. /\ s = 1 + (IF e.whole THEN c.cache.len ELSE LastConflict(c.cache, e.op))
      /\ Exact(t, Record(c.cache, OpsOf(e), s))
  BY <1>1, <1>3, <1>4, CachedSpot
<1>7. Record(c.cache, OpsOf(e), s) \in Plain!CacheType
  BY <1>6 DEF Exact
<1>8. d.cache = c.cache /\ d.at \in Seq(Nat) /\ Len(d.at) = n
  BY DEF Placing
<1>9. PICK d2 : d2 = FindPlace(d, e)
  OBVIOUS
<1>10. d2 = [cache |-> Record(c.cache, OpsOf(e), s), at |-> Append(d.at, s)]
  BY <1>6, <1>8, <1>9 DEF FindPlace
<1>11. d2.cache = Record(c.cache, OpsOf(e), s) /\ d2.at = Append(d.at, s)
  BY <1>10
<1>12. /\ Append(d.at, s) \in Seq(Nat) /\ Len(Append(d.at, s)) = n + 1
       /\ Append(d.at, s)[n + 1] = s /\ \A i \in 1..n : Append(d.at, s)[i] = d.at[i]
  BY <1>5, <1>8
<1>13. d2 \in [cache : Plain!CacheType, at : Seq(Nat)]
  BY <1>7, <1>10, <1>12
<1>14. PICK c2 : c2 = Cached(c, e)
  OBVIOUS
<1>15. c2.ms = t /\ c2.cache = Record(c.cache, OpsOf(e), s)
  BY <1>1, <1>3, <1>14 DEF Cached, State
<1>16. ASSUME NEW i \in 1..(n + 1), NEW x \in OpsOf(es[i]) PROVE At(t, x) = d2.at[i]
  <2>1. CASE i = n + 1
    BY <1>1, <1>5, <1>11, <1>12, <2>1 DEF Grown
  <2>2. CASE i # n + 1
    <3>1. i \in 1..n
      BY <2>2
    <3>2. x \in OpsIn(c.ms)
      BY <1>3, <3>1 DEF New
    <3>3. At(t, x) = At(c.ms, x)
      BY <1>3, <1>5, <3>2, AtFacts DEF Grown
    <3>4. At(c.ms, x) = d.at[i]
      BY <3>1 DEF Placing
    <3>. QED
      BY <1>11, <1>12, <3>1, <3>3, <3>4
  <2>. QED
    BY <2>1, <2>2
<1>. QED
  BY <1>1, <1>9, <1>11, <1>12, <1>13, <1>14, <1>15, <1>16 DEF Placing

\* The cache of an empty circuit describes it.
LEMMA EmptyExact == Circ(<<>>) /\ Exact(<<>>, EmptyCache) /\ EmptyCache.on /\ OpsIn(<<>>) = {}
<1>1. EmptyCache \in Plain!CacheType /\ EmptyCache.on = TRUE /\ EmptyCache.len = 0
  BY DEF EmptyCache, Plain!CacheType
<1>2. /\ \A b \in Qubits : EmptyCache.q[b] = 0
      /\ \A b \in Keys : EmptyCache.m[b] = 0 /\ EmptyCache.c[b] = 0
  BY DEF EmptyCache
<1>3. Circ(<<>>)
  BY DEF Circ
<1>4. /\ \A b \in Qubits : With(<<>>, MomentQubits, b) = {}
      /\ \A b \in Keys : With(<<>>, MomentMKeys, b) = {} /\ With(<<>>, MomentCKeys, b) = {}
  BY DEF With
<1>5. Plain!IsLast(0, {})
  BY DEF Plain!IsLast
<1>6. Exact(<<>>, EmptyCache)
  BY <1>1, <1>2, <1>4, <1>5 DEF Exact
<1>7. OpsIn(<<>>) = {}
  BY DEF OpsIn, ToSet
<1>. QED
  BY <1>1, <1>3, <1>6, <1>7

\* The constructor builds what appending to an empty circuit builds.
LEMMA LoadFacts ==
    ASSUME NEW es, Given(es, <<>>), NEW g, CachedRun(g, <<>>, EmptyCache, es)
    PROVE  Load(es).ms = g[Len(es)].ms /\ (Load(es).cache = NoCache \/ Load(es).cache = g[Len(es)].cache)
<1>1. PICK N : N = Len(es)
  OBVIOUS
<1>2. N \in Nat /\ DOMAIN es = 1..N
  BY <1>1 DEF Given
<1>3. PICK T : T = [cache : Plain!CacheType, at : Seq(Nat)]
  OBVIOUS
<1>4. PICK Good : Good = [n \in 0..N |-> {d \in T : Placing(d, g[n], es, n)}]
  OBVIOUS
<1>5. PICK d0 : d0 = [cache |-> EmptyCache, at |-> <<>>]
  OBVIOUS
<1>6. d0 \in Good[0]
  <2>1. g[0].cache = EmptyCache
    BY DEF CachedRun, Start
  <2>2. EmptyCache \in Plain!CacheType
    BY EmptyExact DEF Exact
  <2>3. d0 \in T /\ d0.cache = EmptyCache /\ d0.at = <<>>
    BY <1>3, <1>5, <2>2
  <2>4. Placing(d0, g[0], es, 0)
    BY <2>1, <2>3 DEF Placing
  <2>. QED
    BY <1>2, <1>4, <2>3, <2>4
<1>7. ASSUME NEW n \in 1..N, NEW d \in Good[n - 1] PROVE FindPlace(d, es[n]) \in Good[n]
  <2>1. PICK i \in Nat : i = n - 1
    BY <1>2
  <2>2. i + 1 = n /\ n \in 0..N /\ i \in 0..N
    BY <1>2, <2>1
  <2>3. PICK c : c = g[i]
    OBVIOUS
  <2>4. Caching(c, <<>>, es, i) /\ g[n] = Cached(c, es[n])
    BY <1>1, <2>1, <2>2, <2>3 DEF CachedRun
  <2>5. d \in T /\ Placing(d, c, es, i)
    BY <1>4, <2>1, <2>2, <2>3
  <2>6. i + 1 \in 1..Len(es) /\ d \in [cache : Plain!CacheType, at : Seq(Nat)]
    BY <1>1, <1>3, <2>2, <2>5
  <2>7. /\ FindPlace(d, es[i + 1]) \in [cache : Plain!CacheType, at : Seq(Nat)]
        /\ Placing(FindPlace(d, es[i + 1]), Cached(c, es[i + 1]), es, i + 1)
    BY <2>4, <2>5, <2>6, PlacingStep
  <2>8. FindPlace(d, es[n]) \in T /\ Placing(FindPlace(d, es[n]), g[n], es, n)
    BY <1>3, <2>2, <2>4, <2>7
  <2>. QED
    BY <1>4, <2>2, <2>8
<1>8. PICK f : PlacesRun(f, es, Good)
  <2>1. \A n \in 1..Len(es) : \A d \in Good[n - 1] : FindPlace(d, es[n]) \in Good[n]
    BY <1>1, <1>7
  <2>2. Len(es) \in Nat /\ [cache |-> EmptyCache, at |-> <<>>] \in Good[0]
    BY <1>1, <1>2, <1>5, <1>6
  <2>. QED
    BY <2>1, <2>2, PlacesLoop
<1>9. PICK p, c : p = Places(es) /\ c = g[N]
  OBVIOUS
<1>10. p \in T /\ Placing(p, c, es, N)
  <2>1. N \in 0..N /\ p = f[N] /\ f[N] \in Good[N]
    BY <1>1, <1>2, <1>8, <1>9 DEF PlacesRun
  <2>. QED
    BY <1>4, <1>9, <2>1
<1>11. Caching(c, <<>>, es, N)
  BY <1>1, <1>2, <1>9 DEF CachedRun
<1>12. /\ Circ(c.ms) /\ OpsIn(c.ms) = New(es, 1..N) /\ c.cache.len = Len(c.ms) /\ Len(c.ms) \in Nat
       /\ c.ms \in Seq(Moments)
  <2>1. Ordered(<<>>, Len(<<>>), es, 1..N, c.ms) /\ Exact(c.ms, c.cache) /\ c.cache.on
    BY <1>11 DEF Caching
  <2>2. Circ(c.ms) /\ OpsIn(c.ms) = New(es, 1..N)
    BY <2>1, EmptyExact DEF Ordered
  <2>. QED
    BY <2>1, <2>2, AtFacts DEF Exact, Circ
<1>13. p.cache = c.cache /\ \A i \in 1..N : \A x \in OpsOf(es[i]) : At(c.ms, x) = p.at[i]
  BY <1>10 DEF Placing
<1>14. PICK t : t = [n \in 1..p.cache.len |-> UNION {OpsOf(es[i]) : i \in {j \in DOMAIN es : p.at[j] = n}}]
  OBVIOUS
<1>15. ASSUME NEW n \in 1..Len(c.ms) PROVE t[n] = c.ms[n]
  <2>1. t[n] = UNION {OpsOf(es[i]) : i \in {j \in 1..N : p.at[j] = n}}
    BY <1>2, <1>12, <1>13, <1>14
  <2>2. ASSUME NEW x \in t[n] PROVE x \in c.ms[n]
    <3>1. PICK i \in 1..N : p.at[i] = n /\ x \in OpsOf(es[i])
      BY <2>1, <2>2
    <3>2. x \in OpsIn(c.ms) /\ At(c.ms, x) = n
      BY <1>12, <1>13, <3>1 DEF New
    <3>. QED
      BY <1>12, <3>2, AtFacts
  <2>3. ASSUME NEW x \in c.ms[n] PROVE x \in t[n]
    <3>1. x \in OpsIn(c.ms) /\ At(c.ms, x) = n
      BY <1>12, <2>3, AtFacts
    <3>2. PICK i \in 1..N : x \in OpsOf(es[i])
      BY <1>12, <3>1 DEF New
    <3>3. p.at[i] = n
      BY <1>13, <3>1, <3>2
    <3>. QED
      BY <2>1, <3>2, <3>3
  <2>. QED
    BY <2>2, <2>3
<1>16. t = c.ms
  <2>1. t = [n \in 1..Len(c.ms) |-> t[n]]
    BY <1>12, <1>13, <1>14
  <2>2. c.ms = [n \in 1..Len(c.ms) |-> c.ms[n]]
    BY <1>12
  <2>. QED
    BY <1>15, <2>1, <2>2
<1>17. Load(es) = [ms |-> t, cache |-> IF \A i \in DOMAIN es : es[i].whole THEN NoCache ELSE p.cache]
  BY <1>9, <1>14 DEF Load
<1>18. Load(es).ms = t /\ (Load(es).cache = NoCache \/ Load(es).cache = p.cache)
  BY <1>17
<1>. QED
  BY <1>1, <1>9, <1>13, <1>16, <1>18

\* After i elements in a batch that starts after element p and at the end of K moments,
\* without the cache.
Leveling(d, ms, es, G, K, p, i) ==
    /\ d \in State /\ ~d.raised /\ d.cache = NoCache /\ d.strategy = "EARLIEST" /\ d.k = K
    /\ d.ms = G[i] /\ Ordered(ms, Len(ms), es, 1..i, d.ms)
    /\ Len(d.ms) = K \/ (i # p /\ Len(d.ms) = K + 1)
    /\ Greater(K, d.top) = Greater(1, Len(d.ms)) /\ (i # p => Len(d.ms) # 0)
    /\ \A x \in OpsIn(d.ms) : At(d.ms, x) = K + 1 => x \in New(es, (p + 1)..i)

\* The scan from K finds what the scan from the end finds.
LEMMA ScansAgree ==
    ASSUME NEW t, Circ(t), NEW K \in Nat, Len(t) = K \/ Len(t) = K + 1, NEW y,
           \A x \in OpsIn(t) : At(t, x) = K + 1 => ~Clash(x, y)
    PROVE  EarliestAvailable(t, y, K) = EarliestAvailable(t, y, Len(t))
<1>1. CASE Len(t) = K
  BY <1>1
<1>2. CASE Len(t) = K + 1
  <2>1. K \in 0..Len(t) /\ Len(t) \in 0..Len(t) /\ K + 1 \in 1..Len(t)
    BY <1>2
  <2>2. ~Blocks(t[K + 1], y)
    BY <2>1, BlocksAt
  <2>3. PICK a, b : a = EarliestAvailable(t, y, K) /\ b = EarliestAvailable(t, y, Len(t))
    OBVIOUS
  <2>4. a \in 0..K /\ (a > 0 => Blocks(t[a], y)) /\ \A i \in 1..K : Blocks(t[i], y) => i <= a
    BY <2>1, <2>3, ScanFacts
  <2>5. b \in 0..Len(t) /\ (b > 0 => Blocks(t[b], y)) /\ \A i \in 1..Len(t) : Blocks(t[i], y) => i <= b
    BY <2>1, <2>3, ScanFacts
  <2>6. b \in 0..K
    BY <1>2, <2>2, <2>5
  <2>7. a <= b
    BY <1>2, <2>4, <2>5, <2>6
  <2>8. b <= a
    BY <1>2, <2>4, <2>5, <2>6
  <2>. QED
    BY <2>3, <2>4, <2>6, <2>7, <2>8
<1>. QED
  BY <1>1, <1>2

\* One element goes to the end of the circuit.
LEMMA LevelElement ==
    ASSUME NEW d \in State, ~d.raised, d.cache = NoCache, d.strategy = "EARLIEST", Circ(d.ms), NEW K \in Nat, d.k = K,
           Len(d.ms) = K \/ Len(d.ms) = K + 1,
           NEW e \in Elements, OpsOf(e) \cap OpsIn(d.ms) = {}, e.whole => Len(d.ms) = K,
           \A x \in OpsIn(d.ms), y \in OpsOf(e) : At(d.ms, x) = K + 1 => ~Clash(x, y)
    PROVE  /\ InsertElement(d, e) = Turned(d, Appended(d.ms, e), Spot(d.ms, e))
           /\ Spot(d.ms, e) \in 1..(K + 1)
<1>1. PICK n, t : n = Spot(d.ms, e) /\ t = Appended(d.ms, e)
  OBVIOUS
<1>2. /\ n \in 1..(Len(d.ms) + 1) /\ (~e.whole /\ n <= Len(d.ms) => ~Overlaps(d.ms[n], e.op))
      /\ Grown(d.ms, t, OpsOf(e), n, Len(d.ms)) /\ Len(t) = Greater(n, Len(d.ms))
  BY <1>1, AppendedFacts
<1>3. Len(d.ms) \in Nat /\ ~d.cache.on /\ d.k \in 0..Len(d.ms) /\ d.k \in Nat
  BY AtFacts, NoCacheOff
<1>4. CASE e.whole
  <2>1. PICK u : /\ InsertElement(d, e) = Turned(d, u, d.k + 1)
                 /\ Grown(d.ms, u, OpsOf(e), d.k + 1, d.k) /\ Len(u) = Len(d.ms) + 1
    BY <1>3, <1>4, InsertsMoment
  <2>2. n = Len(d.ms) + 1 /\ d.k = Len(d.ms) /\ n = K + 1
    BY <1>1, <1>4 DEF Spot
  <2>3. u = t
    <3>1. Circ(u) /\ Circ(t) /\ OpsIn(u) = OpsIn(t)
      BY <1>2, <2>1 DEF Grown
    <3>2. Len(t) = Len(u)
      BY <1>2, <1>3, <2>1, <2>2 DEF Greater
    <3>3. \A x \in OpsIn(t) : At(u, x) = At(t, x)
      BY <1>2, <2>1, <2>2 DEF Grown
    <3>. QED
      BY <3>1, <3>2, <3>3, SameCircuit
  <2>. QED
    BY <1>1, <2>1, <2>2, <2>3
<1>5. CASE ~e.whole
  <2>1. e.op \in Ops /\ OpsOf(e) = {e.op}
    BY <1>5, ElementFacts
  <2>2. EarliestAvailable(d.ms, e.op, K) = EarliestAvailable(d.ms, e.op, Len(d.ms))
    BY <2>1, ScansAgree
  <2>3. K \in 0..Len(d.ms)
    BY <1>3
  <2>4. EarliestAvailable(d.ms, e.op, K) \in 0..K
    BY <2>3, ScanFacts
  <2>5. n = EarliestAvailable(d.ms, e.op, d.k) + 1 /\ n \in 1..(K + 1)
    BY <1>1, <1>5, <2>2, <2>4 DEF Spot
  <2>6. t = Joined(d.ms, n, e.op)
    BY <1>1, <1>5 DEF Appended
  <2>7. n = IF d.strategy = "INLINE" THEN d.k ELSE EarliestAvailable(d.ms, e.op, d.k) + 1
    BY <2>5
  <2>8. InsertElement(d, e) = Turned(d, Joined(d.ms, n, e.op), n)
    BY <1>2, <1>3, <1>5, <2>7, InsertsInto
  <2>. QED
    BY <1>1, <2>5, <2>6, <2>8
<1>. QED
  BY <1>4, <1>5, ElementFacts

\* One more element of the batch.
LEMMA LevelingStep ==
    ASSUME NEW ms, Circ(ms), NEW es, Given(es, ms), NEW G, Appending(G, ms, es), NEW K \in Nat, NEW p \in Nat, NEW i \in Nat,
           p <= i, i + 1 \in 1..Len(es), es[i + 1].whole => i = p,
           \A j \in (p + 1)..i : \A x \in OpsOf(es[j]), y \in OpsOf(es[i + 1]) : ~Clash(x, y),
           NEW d, Leveling(d, ms, es, G, K, p, i)
    PROVE  Leveling(InsertElement(d, es[i + 1]), ms, es, G, K, p, i + 1)
<1>1. PICK e, n, t : e = es[i + 1] /\ n = Spot(d.ms, e) /\ t = Appended(d.ms, e)
  OBVIOUS
<1>2. /\ d \in State /\ ~d.raised /\ d.cache = NoCache /\ d.strategy = "EARLIEST" /\ d.k = K
      /\ d.ms = G[i] /\ Ordered(ms, Len(ms), es, 1..i, d.ms) /\ Circ(d.ms)
      /\ Len(d.ms) = K \/ (i # p /\ Len(d.ms) = K + 1)
      /\ Greater(K, d.top) = Greater(1, Len(d.ms)) /\ d.top \in Nat /\ Len(d.ms) \in Nat /\ Len(ms) \in Nat
      /\ \A x \in OpsIn(d.ms) : At(d.ms, x) = K + 1 => x \in New(es, (p + 1)..i)
  BY AtFacts DEF Leveling, Ordered, State
<1>3. Ordered(ms, Len(ms), es, 1..(i + 1), t) /\ e \in Elements /\ OpsOf(e) \cap OpsIn(d.ms) = {}
  BY <1>1, <1>2, OrderedAppend
<1>4. \A x \in OpsIn(d.ms), y \in OpsOf(e) : At(d.ms, x) = K + 1 => ~Clash(x, y)
  BY <1>1, <1>2 DEF New
<1>5. InsertElement(d, e) = Turned(d, t, n) /\ n \in 1..(K + 1)
  <2>1. (Len(d.ms) = K \/ Len(d.ms) = K + 1) /\ (e.whole => Len(d.ms) = K)
    BY <1>1, <1>2
  <2>. QED
    BY <1>1, <1>2, <1>3, <1>4, <2>1, LevelElement
<1>6. Grown(d.ms, t, OpsOf(e), n, Len(d.ms)) /\ Len(t) = Greater(n, Len(d.ms)) /\ n \in Nat
  BY <1>1, <1>2, <1>3, AppendedFacts
<1>7. t \in Seq(Moments)
  BY <1>6 DEF Grown, Circ
<1>8. PICK r : r = Turned(d, t, n)
  OBVIOUS
<1>9. /\ r \in State /\ ~r.raised /\ r.cache = NoCache /\ r.strategy = "EARLIEST" /\ r.k = K /\ r.ms = t
      /\ r.top = Greater(n, d.top)
  <2>1. /\ Turned(d, t, n) \in State
        /\ Turned(d, t, n).ms = t /\ Turned(d, t, n).top = Greater(n, d.top)
        /\ Turned(d, t, n).cache = d.cache /\ Turned(d, t, n).raised = d.raised
        /\ Turned(d, t, n).strategy = IF d.strategy = "NEW_THEN_INLINE" THEN "INLINE" ELSE d.strategy
        /\ Turned(d, t, n).k = IF d.strategy = "NEW_THEN_INLINE" THEN d.k + 1 ELSE d.k
    BY <1>2, <1>6, <1>7, TurnedFields
  <2>. QED
    BY <1>2, <1>8, <2>1
<1>10. t = G[i + 1]
  <2>1. (i + 1) - 1 = i
    OBVIOUS
  <2>2. G[i + 1] = Appended(G[(i + 1) - 1], es[i + 1])
    BY DEF Appending
  <2>. QED
    BY <1>1, <1>2, <2>1, <2>2
<1>11. /\ Len(t) = K \/ Len(t) = K + 1
       /\ Greater(K, r.top) = Greater(1, Len(t)) /\ Len(t) # 0 /\ i + 1 # p
  BY <1>2, <1>5, <1>6, <1>9 DEF Greater
<1>12. ASSUME NEW x \in OpsIn(t), At(t, x) = K + 1 PROVE x \in New(es, (p + 1)..(i + 1))
  <2>1. CASE x \in OpsOf(e)
    <3>1. i + 1 \in (p + 1)..(i + 1)
      OBVIOUS
    <3>. QED
      BY <1>1, <2>1, <3>1 DEF New
  <2>2. CASE x \notin OpsOf(e)
    <3>1. x \in OpsIn(d.ms) /\ At(t, x) = At(d.ms, x)
      BY <1>2, <1>6, <2>2, AtFacts DEF Grown
    <3>2. x \in New(es, (p + 1)..i)
      BY <1>2, <1>12, <3>1
    <3>3. (p + 1)..i \subseteq (p + 1)..(i + 1)
      OBVIOUS
    <3>. QED
      BY <3>2, <3>3 DEF New
  <2>. QED
    BY <2>1, <2>2
<1>. QED
  BY <1>1, <1>3, <1>5, <1>8, <1>9, <1>10, <1>11, <1>12 DEF Leveling

\* Between two batches without the cache.
Level(c, ms, es, G, i) ==
    /\ c \in State /\ ~c.raised /\ c.cache = NoCache /\ c.strategy = "EARLIEST"
    /\ c.ms = G[i] /\ Ordered(ms, Len(ms), es, 1..i, c.ms) /\ c.k = Len(c.ms)

\* A batch.
LEMMA LevelBatch ==
    ASSUME NEW ms, Circ(ms), NEW es, Given(es, ms), NEW G, Appending(G, ms, es), NEW b, NEW p \in Nat, NEW q \in Nat,
           IsBatch(b, es, p, q), NEW c, Level(c, ms, es, G, p)
    PROVE  Level(InsertBatch(c, b), ms, es, G, q)
<1>1. /\ p < q /\ q <= Len(es) /\ Len(es) \in Nat /\ Len(b) = q - p /\ q - p \in Nat /\ q - p # 0
      /\ \A j \in 1..(q - p) : b[j] = es[p + j]
      /\ \/ q = p + 1
         \/ \A i, j \in (p + 1)..q : ~es[i].whole /\ (i # j => ~Clash(es[i].op, es[j].op))
  <2>1. Len(es) \in Nat
    BY DEF Given
  <2>. QED
    BY <2>1 DEF IsBatch
<1>2. PICK M : M = q - p
  OBVIOUS
<1>3. PICK K : K = Len(c.ms)
  OBVIOUS
<1>4. /\ c \in State /\ ~c.raised /\ c.cache = NoCache /\ c.strategy = "EARLIEST" /\ c.ms = G[p] /\ c.k = K
      /\ Ordered(ms, Len(ms), es, 1..p, c.ms) /\ Circ(c.ms) /\ K \in Nat
      /\ \A x \in OpsIn(c.ms) : At(c.ms, x) \in 1..K
  BY <1>3, AtFacts DEF Level, Ordered
<1>5. PICK c0 : c0 = [c EXCEPT !.top = 1]
  OBVIOUS
<1>6. /\ c0 \in State /\ ~c0.raised /\ c0.cache = NoCache /\ c0.strategy = "EARLIEST" /\ c0.ms = c.ms /\ c0.k = K
      /\ c0.top = 1
  BY <1>4, <1>5 DEF State
<1>7. Leveling(c0, ms, es, G, K, p, p + 0)
  <2>1. Greater(K, 1) = Greater(1, K) /\ p + 0 = p
    BY <1>4 DEF Greater
  <2>2. \A x \in OpsIn(c.ms) : At(c.ms, x) # K + 1
    BY <1>4
  <2>. QED
    BY <1>3, <1>4, <1>6, <2>1, <2>2 DEF Leveling
<1>8. PICK Good : Good = [n \in 0..M |-> {d \in State : Leveling(d, ms, es, G, K, p, p + n)}]
  OBVIOUS
<1>9. c0 \in Good[0]
  BY <1>1, <1>2, <1>6, <1>7, <1>8
<1>10. ASSUME NEW n \in 1..M, NEW d \in Good[n - 1] PROVE InsertElement(d, b[n]) \in Good[n]
  <2>1. n \in 0..M /\ n - 1 \in 0..M /\ n \in Nat
    BY <1>1, <1>2
  <2>2. PICK i \in Nat : i = p + (n - 1)
    BY <2>1
  <2>3. i + 1 = p + n /\ p <= i /\ i + 1 <= q /\ i + 1 \in 1..Len(es) /\ b[n] = es[i + 1]
    BY <1>1, <1>2, <2>1, <2>2
  <2>4. Leveling(d, ms, es, G, K, p, i)
    BY <1>8, <2>1, <2>2
  <2>5. es[i + 1].whole => i = p
    <3>1. i + 1 \in (p + 1)..q
      BY <2>3
    <3>. QED
      BY <1>1, <2>3, <3>1
  <2>6. ASSUME NEW j \in (p + 1)..i, NEW x \in OpsOf(es[j]), NEW y \in OpsOf(es[i + 1]) PROVE ~Clash(x, y)
    <3>1. ~(q = p + 1)
      BY <2>3
    <3>2. j \in (p + 1)..q /\ i + 1 \in (p + 1)..q /\ i + 1 # j
      BY <2>3
    <3>3. ~es[i + 1].whole /\ ~es[j].whole /\ ~Clash(es[j].op, es[i + 1].op)
      BY <1>1, <3>1, <3>2
    <3>. QED
      BY <3>3 DEF OpsOf
  <2>7. Leveling(InsertElement(d, es[i + 1]), ms, es, G, K, p, i + 1)
    BY <1>4, <2>3, <2>4, <2>5, <2>6, LevelingStep
  <2>8. InsertElement(d, b[n]) \in State
    BY <2>3, <2>7 DEF Leveling
  <2>. QED
    BY <1>8, <2>1, <2>3, <2>7, <2>8
<1>11. PICK d : d = InsertElements(c0, b)
  OBVIOUS
<1>12. Leveling(d, ms, es, G, K, p, q)
  <2>1. d \in Good[M]
    BY <1>1, <1>2, <1>9, <1>10, <1>11, ElementsStay
  <2>2. M \in 0..M /\ p + M = q
    BY <1>1, <1>2
  <2>. QED
    BY <1>8, <2>1, <2>2
<1>13. InsertBatch(c, b) = Finished(d)
  <2>1. CanAdd(c.ms, c.k + 1, b[1].op) /\ \A x : CanAdd(c.ms, c.k + 1, x)
    BY <1>3, <1>4 DEF CanAdd
  <2>2. ~NeedsMoment(c, b)
    BY <1>4, <2>1 DEF NeedsMoment
  <2>. QED
    BY <1>4, <1>5, <1>11, <2>2 DEF InsertBatch, Finished
<1>14. PICK r : r = Finished(d)
  OBVIOUS
<1>15. /\ d \in State /\ ~d.raised /\ d.cache = NoCache /\ d.strategy = "EARLIEST" /\ d.k = K
       /\ d.ms = G[q] /\ Ordered(ms, Len(ms), es, 1..q, d.ms) /\ Circ(d.ms)
       /\ Greater(K, d.top) = Greater(1, Len(d.ms)) /\ Len(d.ms) # 0 /\ Len(d.ms) \in Nat
  BY <1>1, <1>12, AtFacts DEF Leveling, Ordered
<1>16. Greater(K, d.top) = Len(d.ms)
  BY <1>15 DEF Greater
<1>17. r \in State /\ ~r.raised /\ r.cache = NoCache /\ r.strategy = "EARLIEST" /\ r.ms = d.ms /\ r.k = Len(d.ms)
  BY <1>14, <1>15, <1>16 DEF Finished, State
<1>. QED
  BY <1>13, <1>14, <1>15, <1>17 DEF Level

\* Without the cache the elements are appended one by one too.
LEMMA PlainAgrees ==
    ASSUME NEW ms, Circ(ms), NEW es, Given(es, ms), NEW G, Appending(G, ms, es)
    PROVE  /\ Insert(ms, NoCache, Len(ms), es, "EARLIEST").ms = G[Len(es)]
           /\ Insert(ms, NoCache, Len(ms), es, "EARLIEST").k = Len(G[Len(es)])
<1>1. PICK N \in Nat : N = Len(es)
  BY DEF Given
<1>2. PICK bs : bs = Group(es)
  OBVIOUS
<1>3. PICK f : Cut(bs, es, N, f)
  BY <1>1, <1>2, GroupCuts DEF Given
<1>4. PICK L : L = Len(bs)
  OBVIOUS
<1>5. /\ L \in Nat /\ f \in [0..L -> 0..N] /\ f[0] = 0 /\ f[L] = N
      /\ \A i \in 1..L : IsBatch(bs[i], es, f[i - 1], f[i])
  BY <1>3, <1>4 DEF Cut
<1>6. PICK c : c = Start(ms, Len(ms), "EARLIEST", NoCache)
  OBVIOUS
<1>7. Len(ms) \in Nat /\ ms \in Seq(Moments) /\ NoCache.on = FALSE
  BY AtFacts, NoCacheOff DEF Circ
<1>8. /\ c \in State /\ ~c.raised /\ c.cache = NoCache /\ c.strategy = "EARLIEST" /\ c.ms = ms /\ c.k = Len(ms)
  BY <1>6, <1>7, NoCacheOff DEF Start, State, Strategies
<1>9. Level(c, ms, es, G, f[0])
  <2>1. G[0] = ms /\ 1..0 = {}
    BY DEF Appending
  <2>. QED
    BY <1>5, <1>8, <2>1, OrderedStart DEF Level
<1>10. PICK Good : Good = [n \in 0..L |-> {d \in State : Level(d, ms, es, G, f[n])}]
  OBVIOUS
<1>11. c \in Good[0]
  BY <1>5, <1>8, <1>9, <1>10
<1>12. ASSUME NEW n \in 1..L, NEW d \in Good[n - 1] PROVE InsertBatch(d, bs[n]) \in Good[n]
  <2>1. n - 1 \in 0..L /\ n \in 0..L
    BY <1>5
  <2>2. PICK p \in Nat, q \in Nat : p = f[n - 1] /\ q = f[n]
    BY <1>5, <2>1
  <2>3. IsBatch(bs[n], es, p, q) /\ Level(d, ms, es, G, p)
    BY <1>5, <1>10, <2>1, <2>2
  <2>4. Level(InsertBatch(d, bs[n]), ms, es, G, q)
    BY <2>3, LevelBatch
  <2>5. InsertBatch(d, bs[n]) \in State
    BY <2>4 DEF Level
  <2>. QED
    BY <1>10, <2>1, <2>2, <2>4, <2>5
<1>13. InsertAll(c, bs) \in Good[L]
  BY <1>4, <1>5, <1>11, <1>12, BatchesLoop
<1>14. PICK r : r = InsertAll(c, bs)
  OBVIOUS
<1>15. Level(r, ms, es, G, N)
  BY <1>5, <1>10, <1>13, <1>14
<1>16. Insert(ms, NoCache, Len(ms), es, "EARLIEST") = r
  <2>1. KeptCache(ms, NoCache, Len(ms), "EARLIEST") = NoCache
    BY DEF KeptCache
  <2>. QED
    BY <1>2, <1>6, <1>7, <1>8, <1>14, <2>1 DEF Insert
<1>. QED
  BY <1>1, <1>15, <1>16 DEF Level

----------------------------------------------------------------------------
(* The edits *)

\* The inductive invariant: a circuit without repetitions, a cache that describes it if
\* it is in use and is gone if not, and nothing remembered of other moments.
CircuitInv ==
    /\ Circ(moments)
    /\ Exact(moments, cache) /\ (cache.on \/ cache = NoCache)
    /\ memo = <<>> \/ memo = <<moments>>

\* Operations in a sequence without repetitions are elements to insert.
LEMMA OpsGiven ==
    ASSUME NEW ms, NEW xs \in Seq(Ops), \A i, j \in DOMAIN xs : i # j => xs[i] # xs[j],
           \A i \in DOMAIN xs : xs[i] \notin OpsIn(ms), NEW es, es = [i \in DOMAIN xs |-> Op(xs[i])]
    PROVE  Given(es, ms) /\ Len(es) = Len(xs) /\ \A i \in 1..Len(xs) : OpsOf(es[i]) = {xs[i]}
<1>1. DOMAIN xs = 1..Len(xs) /\ Len(xs) \in Nat
  OBVIOUS
<1>2. \A i \in 1..Len(xs) : Op(xs[i]) \in Elements /\ OpsOf(Op(xs[i])) = {xs[i]}
  <2>1. \A x \in Ops : Op(x) \in Elements /\ OpsOf(Op(x)) = {x}
    BY DEF Elements, OpsOf, Op
  <2>. QED
    BY <1>1, <2>1
<1>3. es \in Seq(Elements) /\ Len(es) = Len(xs) /\ DOMAIN es = 1..Len(xs)
  BY <1>1, <1>2
<1>4. \A i \in 1..Len(xs) : OpsOf(es[i]) = {xs[i]}
  BY <1>1, <1>2
<1>. QED
  BY <1>1, <1>3, <1>4 DEF Given, Proper

\* The sequences of operations a call may be given.
LEMMA OpSeqsFacts ==
    ASSUME NEW n \in Nat, NEW xs \in OpSeqs(n)
    PROVE  /\ xs \in Seq(Ops) /\ \A i, j \in DOMAIN xs : i # j => xs[i] # xs[j]
           /\ \A i \in DOMAIN xs : xs[i] \notin OpsIn(moments) /\ xs[i] \in Absent
<1>1. xs \in UNION {[1..m -> Absent] : m \in 0..n}
  BY DEF OpSeqs, BoundedSeq, SeqOf
<1>2. PICK m \in Nat : xs \in [1..m -> Absent]
  BY <1>1
<1>3. xs \in Seq(Absent)
  BY <1>2
<1>4. xs \in Seq(Ops) /\ \A i \in DOMAIN xs : xs[i] \in Absent
  BY <1>3 DEF Absent
<1>. QED
  BY <1>4 DEF OpSeqs, Absent

\* What a call may be given is new.
LEMMA InputsGiven ==
    ASSUME NEW es \in Inputs, Proper(es)
    PROVE  Given(es, moments)
<1>1. MaxInsert \in Nat
  BY EditAssumption
<1>2. CASE \E xs \in OpSeqs(MaxInsert) : es = [i \in DOMAIN xs |-> Op(xs[i])]
  <2>1. PICK xs \in OpSeqs(MaxInsert) : es = [i \in DOMAIN xs |-> Op(xs[i])]
    BY <1>2
  <2>2. /\ xs \in Seq(Ops) /\ \A i, j \in DOMAIN xs : i # j => xs[i] # xs[j]
        /\ \A i \in DOMAIN xs : xs[i] \notin OpsIn(moments)
    BY <1>1, OpSeqsFacts
  <2>. QED
    BY <2>1, <2>2, OpsGiven
<1>3. ASSUME NEW m \in Wholes
      PROVE  Whole(m) \in Elements /\ OpsOf(Whole(m)) \cap OpsIn(moments) = {}
  BY DEF Wholes, Elements, OpsOf, Whole, Absent
<1>4. ASSUME NEW x \in Absent
      PROVE  Op(x) \in Elements /\ OpsOf(Op(x)) \cap OpsIn(moments) = {}
  BY DEF Elements, OpsOf, Op, Absent
<1>5. CASE \E m \in Wholes : es = <<Whole(m)>>
  <2>1. PICK m \in Wholes : es = <<Whole(m)>>
    BY <1>5
  <2>2. PICK e : e = Whole(m)
    OBVIOUS
  <2>3. e \in Elements /\ OpsOf(e) \cap OpsIn(moments) = {} /\ es = <<e>>
    BY <1>3, <2>1, <2>2
  <2>4. es \in Seq(Elements) /\ DOMAIN es = 1..1 /\ es[1] = e
    BY <2>3
  <2>. QED
    BY <2>3, <2>4 DEF Given
<1>6. ASSUME NEW e1 \in Elements, NEW e2 \in Elements, OpsOf(e1) \cap OpsIn(moments) = {},
             OpsOf(e2) \cap OpsIn(moments) = {}, es = <<e1, e2>>
      PROVE  Given(es, moments)
  <2>1. es \in Seq(Elements) /\ DOMAIN es = 1..2 /\ es[1] = e1 /\ es[2] = e2
    BY <1>6
  <2>2. \A i \in 1..2 : i = 1 \/ i = 2
    OBVIOUS
  <2>. QED
    BY <1>6, <2>1, <2>2 DEF Given
<1>7. CASE \E m \in Wholes, x \in Absent : es = <<Whole(m), Op(x)>>
  BY <1>3, <1>4, <1>6, <1>7
<1>8. CASE \E m \in Wholes, x \in Absent : es = <<Op(x), Whole(m)>>
  BY <1>3, <1>4, <1>6, <1>8
<1>. QED
  BY <1>2, <1>5, <1>7, <1>8 DEF Inputs

\* The insertion index is within the circuit.
LEMMA IndexInRange ==
    ASSUME NEW i \in Int, NEW n \in Nat
    PROVE  InsertIndex(i, n) \in 0..n
  BY DEF InsertIndex, Greater

\* A circuit in which some moments lose operations is a circuit.
LEMMA LessCirc ==
    ASSUME NEW ms, Circ(ms), NEW t, DOMAIN t = DOMAIN ms, t = [n \in DOMAIN ms |-> t[n]],
           \A n \in DOMAIN ms : t[n] \subseteq ms[n]
    PROVE  Circ(t)
<1>1. ms \in Seq(Moments) /\ Len(ms) \in Nat /\ DOMAIN ms = 1..Len(ms)
  BY AtFacts DEF Circ
<1>2. \A n \in 1..Len(ms) : t[n] \in Moments
  BY <1>1 DEF Moments, IsMoment
<1>3. t \in Seq(Moments)
  BY <1>1, <1>2
<1>. QED
  BY <1>1, <1>3 DEF Circ

\* A moment is replaced by one with operations from it and new ones.
LEMMA ReplacedCirc ==
    ASSUME NEW ms, Circ(ms), NEW n \in DOMAIN ms, NEW m \in Moments,
           \A x \in m : x \in ms[n] \/ x \notin OpsIn(ms)
    PROVE  Circ([ms EXCEPT ![n] = m])
<1>1. ms \in Seq(Moments) /\ Len(ms) \in Nat /\ DOMAIN ms = 1..Len(ms)
  BY AtFacts DEF Circ
<1>2. PICK t : t = [ms EXCEPT ![n] = m]
  OBVIOUS
<1>3. t \in Seq(Moments) /\ DOMAIN t = DOMAIN ms /\ \A i \in DOMAIN ms : t[i] = IF i = n THEN m ELSE ms[i]
  BY <1>1, <1>2
<1>4. \A i \in DOMAIN ms : i # n => ms[i] \cap m = {}
  <2>1. ASSUME NEW i \in DOMAIN ms, i # n, NEW x \in ms[i], x \in m PROVE FALSE
    <3>1. x \in OpsIn(ms)
      BY <1>1, <2>1, AtFacts
    <3>2. x \in ms[n]
      BY <2>1, <3>1
    <3>. QED
      BY <2>1, <3>2 DEF Circ
  <2>. QED
    BY <2>1
<1>5. ASSUME NEW i \in DOMAIN t, NEW j \in DOMAIN t, i # j PROVE t[i] \cap t[j] = {}
  BY <1>3, <1>4, <1>5 DEF Circ
<1>. QED
  BY <1>2, <1>3, <1>5 DEF Circ

\* The parts of a sequence before k and after j.
LEMMA Parts ==
    ASSUME NEW T, NEW s \in Seq(T), NEW k \in 0..Len(s), NEW j \in 0..Len(s)
    PROVE  /\ SubSeq(s, 1, k) \in Seq(T) /\ Len(SubSeq(s, 1, k)) = k /\ \A i \in 1..k : SubSeq(s, 1, k)[i] = s[i]
           /\ SubSeq(s, j + 1, Len(s)) \in Seq(T) /\ Len(SubSeq(s, j + 1, Len(s))) = Len(s) - j
           /\ \A i \in 1..(Len(s) - j) : SubSeq(s, j + 1, Len(s))[i] = s[j + i]
<1>1. PICK L, a, b : L = Len(s) /\ a = SubSeq(s, 1, k) /\ b = SubSeq(s, j + 1, L)
  OBVIOUS
<1>2. L \in Nat /\ k \in Nat /\ k <= L /\ j \in Nat /\ j <= L
  BY <1>1
<1>3. a \in Seq(T) /\ Len(a) = k /\ \A i \in 1..k : a[i] = s[i]
  BY <1>1, <1>2, SubSeqProperties
<1>4. b \in Seq(T) /\ Len(b) = L - j /\ \A i \in 1..(L - j) : b[i] = s[j + i]
  BY <1>1, <1>2, SubSeqProperties
<1>. QED
  BY <1>1, <1>3, <1>4

\* A moment is deleted.
LEMMA RemovedCirc ==
    ASSUME NEW ms, Circ(ms), NEW n \in DOMAIN ms
    PROVE  Circ(RemoveAt(ms, n))
<1>1. PICK L : L = Len(ms)
  OBVIOUS
<1>2. ms \in Seq(Moments) /\ L \in Nat /\ DOMAIN ms = 1..L
  BY <1>1, AtFacts DEF Circ
<1>3. PICK k \in Nat : k = n - 1 /\ k + 1 = n
  BY <1>2
<1>4. PICK a, b : a = SubSeq(ms, 1, k) /\ b = SubSeq(ms, n + 1, L)
  OBVIOUS
<1>5. k \in 0..L /\ n \in 0..L
  BY <1>2, <1>3
<1>6. /\ a \in Seq(Moments) /\ Len(a) = k /\ \A i \in 1..k : a[i] = ms[i]
      /\ b \in Seq(Moments) /\ Len(b) = L - n /\ \A i \in 1..(L - n) : b[i] = ms[n + i]
  BY <1>1, <1>2, <1>4, <1>5, Parts
<1>7. PICK t : t = a \o b
  OBVIOUS
<1>8. t \in Seq(Moments) /\ Len(t) = L - 1
  <2>1. a \o b \in Seq(Moments) /\ Len(a \o b) = Len(a) + Len(b)
    BY <1>6, ConcatProperties
  <2>. QED
    BY <1>2, <1>3, <1>6, <1>7, <2>1
<1>9. \A i \in 1..(L - 1) : t[i] = IF i <= k THEN a[i] ELSE b[i - k]
  <2>1. \A i \in 1..(Len(a) + Len(b)) : (a \o b)[i] = IF i <= Len(a) THEN a[i] ELSE b[i - Len(a)]
    BY <1>6, ConcatProperties
  <2>2. Len(a) + Len(b) = L - 1
    BY <1>2, <1>3, <1>6
  <2>. QED
    BY <1>6, <1>7, <2>1, <2>2
<1>10. ASSUME NEW i \in 1..(L - 1) PROVE t[i] = ms[IF i <= k THEN i ELSE i + 1]
  <2>1. CASE i <= k
    BY <1>3, <1>6, <1>9, <2>1
  <2>2. CASE ~(i <= k)
    <3>1. i - k \in 1..(L - n) /\ n + (i - k) = i + 1
      BY <1>2, <1>3, <2>2
    <3>2. t[i] = b[i - k] /\ b[i - k] = ms[n + (i - k)]
      BY <1>6, <1>9, <2>2, <3>1
    <3>. QED
      BY <2>2, <3>1, <3>2
  <2>. QED
    BY <2>1, <2>2
<1>11. DOMAIN t = 1..(L - 1)
  BY <1>2, <1>8
<1>12. ASSUME NEW i \in DOMAIN t, NEW j \in DOMAIN t, i # j PROVE t[i] \cap t[j] = {}
  <2>1. PICK u, v : u = (IF i <= k THEN i ELSE i + 1) /\ v = (IF j <= k THEN j ELSE j + 1)
    OBVIOUS
  <2>2. u \in DOMAIN ms /\ v \in DOMAIN ms /\ u # v
    BY <1>2, <1>3, <1>11, <1>12, <2>1
  <2>3. t[i] = ms[u] /\ t[j] = ms[v]
    BY <1>10, <1>11, <2>1
  <2>. QED
    BY <2>2, <2>3 DEF Circ
<1>. QED
  BY <1>1, <1>3, <1>4, <1>7, <1>8, <1>12 DEF RemoveAt, Circ

\* After n operations of insert_into_range(), m of them in the range.
Filled(d, ms, xs, end, n, m) ==
    /\ d \in [ms : Seq(Moments), k : Nat, rest : Seq(Elements)]
    /\ Circ(d.ms) /\ Len(d.ms) = Len(ms) /\ OpsIn(d.ms) = OpsIn(ms) \cup {xs[j] : j \in 1..m}
    /\ d.k <= end /\ m \in 0..n
    /\ Len(d.rest) = n - m /\ \A i \in 1..(n - m) : d.rest[i] = Op(xs[m + i])

\* One more operation.
LEMMA FilledStep ==
    ASSUME NEW ms, Circ(ms), NEW xs \in Seq(Ops), \A i, j \in DOMAIN xs : i # j => xs[i] # xs[j],
           \A i \in DOMAIN xs : xs[i] \notin OpsIn(ms), NEW end \in 0..Len(ms),
           NEW n \in Nat, n + 1 \in 1..Len(xs), NEW d, NEW m \in Nat, Filled(d, ms, xs, end, n, m)
    PROVE  \E l \in Nat : Filled(FillNext(d, xs[n + 1], end), ms, xs, end, n + 1, l)
<1>1. PICK x : x = xs[n + 1]
  OBVIOUS
<1>2. /\ d \in [ms : Seq(Moments), k : Nat, rest : Seq(Elements)] /\ d.k \in Nat /\ d.rest \in Seq(Elements)
      /\ Circ(d.ms) /\ Len(d.ms) = Len(ms) /\ OpsIn(d.ms) = OpsIn(ms) \cup {xs[j] : j \in 1..m}
      /\ d.k <= end /\ m \in 0..n
      /\ Len(d.rest) = n - m /\ \A i \in 1..(n - m) : d.rest[i] = Op(xs[m + i])
  BY DEF Filled
<1>3. Len(ms) \in Nat /\ end \in Nat /\ end <= Len(ms) /\ DOMAIN xs = 1..Len(xs) /\ Len(xs) \in Nat
  BY AtFacts
<1>4. x \in Ops /\ x \notin OpsIn(d.ms)
  <2>1. n + 1 \in DOMAIN xs /\ \A j \in 1..m : j \in DOMAIN xs /\ j # n + 1
    BY <1>2, <1>3
  <2>2. \A j \in 1..m : xs[j] # x
    BY <1>1, <2>1
  <2>3. x \notin OpsIn(ms) /\ x \in Ops
    BY <1>1, <1>3, <2>1
  <2>. QED
    BY <1>2, <2>2, <2>3
<1>5. PICK free : free = {i \in d.k + 1 .. end : ~Overlaps(d.ms[i], x)}
  OBVIOUS
<1>6. PICK r : r = FillNext(d, x, end)
  OBVIOUS
<1>7. CASE d.rest # <<>> \/ free = {}
  <2>1. r = [d EXCEPT !.rest = Append(@, Op(x)), !.k = end]
    BY <1>5, <1>6, <1>7 DEF FillNext
  <2>2. Op(x) \in Elements
    BY <1>4 DEF Elements
  <2>3. PICK q : q = Append(d.rest, Op(x))
    OBVIOUS
  <2>4. /\ q \in Seq(Elements) /\ Len(q) = Len(d.rest) + 1 /\ q[Len(d.rest) + 1] = Op(x)
        /\ \A i \in 1..Len(d.rest) : q[i] = d.rest[i]
    BY <1>2, <2>2, <2>3, AppendProperties
  <2>5. r.ms = d.ms /\ r.k = end /\ r.rest = q /\ r \in [ms : Seq(Moments), k : Nat, rest : Seq(Elements)]
    BY <1>2, <1>3, <2>1, <2>3, <2>4
  <2>6. Len(q) = (n + 1) - m /\ m \in 0..(n + 1) /\ end <= end
    BY <1>2, <1>3, <2>4
  <2>7. ASSUME NEW i \in 1..((n + 1) - m) PROVE q[i] = Op(xs[m + i])
    <3>1. CASE i = (n + 1) - m
      <4>1. m + i = n + 1 /\ i = Len(d.rest) + 1
        BY <1>2, <3>1
      <4>. QED
        BY <1>1, <2>4, <4>1
    <3>2. CASE i # (n + 1) - m
      <4>1. i \in 1..(n - m) /\ i \in 1..Len(d.rest)
        BY <1>2, <3>2
      <4>. QED
        BY <1>2, <2>4, <4>1
    <3>. QED
      BY <3>1, <3>2
  <2>8. Filled(r, ms, xs, end, n + 1, m)
    BY <1>2, <2>5, <2>6, <2>7 DEF Filled
  <2>. QED
    BY <1>1, <1>6, <2>8
<1>8. CASE d.rest = <<>> /\ free # {}
  <2>1. free \in SUBSET Nat
    BY <1>2, <1>3, <1>5
  <2>2. PICK a : a = Min(free) /\ a \in free
    BY <1>8, <2>1, Extremes
  <2>3. a \in Nat /\ a \in 1..Len(d.ms) /\ a > d.k /\ a <= end /\ ~Overlaps(d.ms[a], x) /\ a - 1 \in Nat
    BY <1>2, <1>3, <1>5, <2>2
  <2>4. PICK t : t = [d.ms EXCEPT ![a] = @ \cup {x}]
    OBVIOUS
  <2>5. Grown(d.ms, t, {x}, a, Len(d.ms)) /\ Len(t) = Len(d.ms)
    BY <1>2, <1>4, <2>3, <2>4, JoinGrows
  <2>6. Circ(t) /\ OpsIn(t) = OpsIn(d.ms) \cup {x} /\ t \in Seq(Moments)
    BY <2>5 DEF Grown, Circ
  <2>7. r = [d EXCEPT !.k = a - 1, !.ms = t]
    BY <1>2, <1>5, <1>6, <1>8, <2>2, <2>4 DEF FillNext
  <2>8. r.ms = t /\ r.k = a - 1 /\ r.rest = d.rest /\ r \in [ms : Seq(Moments), k : Nat, rest : Seq(Elements)]
    BY <1>2, <2>3, <2>6, <2>7
  <2>9. m = n /\ Len(d.rest) = 0
    BY <1>2, <1>8
  <2>10. {xs[j] : j \in 1..(n + 1)} = {xs[j] : j \in 1..m} \cup {x}
    <3>1. 1..(n + 1) = (1..m) \cup {n + 1}
      BY <2>9
    <3>. QED
      BY <1>1, <3>1
  <2>11. OpsIn(t) = OpsIn(ms) \cup {xs[j] : j \in 1..(n + 1)}
    BY <1>2, <2>6, <2>10
  <2>12. a - 1 <= end /\ n + 1 \in 0..(n + 1) /\ Len(d.rest) = (n + 1) - (n + 1)
    BY <1>3, <2>3, <2>9
  <2>13. 1..((n + 1) - (n + 1)) = {}
    OBVIOUS
  <2>14. Filled(r, ms, xs, end, n + 1, n + 1)
    BY <1>2, <2>5, <2>6, <2>8, <2>11, <2>12, <2>13 DEF Filled
  <2>. QED
    BY <1>1, <1>6, <2>14
<1>. QED
  BY <1>7, <1>8

\* insert_into_range() makes a circuit.
LEMMA RangeFacts ==
    ASSUME NEW ms, Circ(ms), NEW xs \in Seq(Ops), \A i, j \in DOMAIN xs : i # j => xs[i] # xs[j],
           \A i \in DOMAIN xs : xs[i] \notin OpsIn(ms), NEW end \in 0..Len(ms), NEW start \in 0..end
    PROVE  Circ(InsertIntoRange(ms, xs, start, end).ms)
<1>1. PICK T : T = [ms : Seq(Moments), k : Nat, rest : Seq(Elements)]
  OBVIOUS
<1>2. PICK N \in Nat : N = Len(xs)
  OBVIOUS
<1>3. PICK Good : Good = [n \in 0..N |-> {d \in T : \E m \in Nat : Filled(d, ms, xs, end, n, m)}]
  OBVIOUS
<1>4. PICK d0 : d0 = [ms |-> ms, k |-> start, rest |-> <<>>]
  OBVIOUS
<1>5. Len(ms) \in Nat /\ end \in Nat /\ start \in Nat /\ start <= end /\ ms \in Seq(Moments) /\ DOMAIN xs = 1..N
  BY <1>2, AtFacts DEF Circ
<1>6. d0 \in Good[0]
  <2>1. d0 \in T /\ d0.ms = ms /\ d0.k = start /\ d0.rest = <<>>
    BY <1>1, <1>4, <1>5
  <2>2. {xs[j] : j \in 1..0} = {} /\ Len(<<>>) = 0 - 0 /\ 1..(0 - 0) = {}
    OBVIOUS
  <2>3. Filled(d0, ms, xs, end, 0, 0)
    BY <1>1, <1>5, <2>1, <2>2 DEF Filled
  <2>. QED
    BY <1>3, <2>1, <2>3
<1>7. ASSUME NEW n \in 1..N, NEW d \in Good[n - 1] PROVE FillNext(d, xs[n], end) \in Good[n]
  <2>1. PICK i \in Nat : i = n - 1
    OBVIOUS
  <2>2. i + 1 = n /\ i \in 0..N /\ n \in 0..N /\ i + 1 \in 1..Len(xs)
    BY <1>2, <2>1
  <2>3. PICK m \in Nat : Filled(d, ms, xs, end, i, m)
    BY <1>3, <2>1, <2>2
  <2>4. PICK l \in Nat : Filled(FillNext(d, xs[i + 1], end), ms, xs, end, i + 1, l)
    BY <2>2, <2>3, FilledStep
  <2>5. FillNext(d, xs[n], end) \in T /\ Filled(FillNext(d, xs[n], end), ms, xs, end, n, l)
    BY <1>1, <2>2, <2>4 DEF Filled
  <2>. QED
    BY <1>3, <2>2, <2>5
<1>8. PICK c : c = FillRange(ms, xs, start, end)
  OBVIOUS
<1>9. c \in Good[N]
  BY <1>2, <1>4, <1>6, <1>7, <1>8, FillLoop
<1>10. PICK m \in Nat : Filled(c, ms, xs, end, N, m)
  BY <1>3, <1>9
<1>11. /\ Circ(c.ms) /\ Len(c.ms) = Len(ms) /\ OpsIn(c.ms) = OpsIn(ms) \cup {xs[j] : j \in 1..m}
       /\ m \in 0..N /\ c.rest \in Seq(Elements)
       /\ Len(c.rest) = N - m /\ \A i \in 1..(N - m) : c.rest[i] = Op(xs[m + i])
  BY <1>10 DEF Filled
<1>12. CASE c.rest = <<>>
  <2>1. InsertIntoRange(ms, xs, start, end).ms = c.ms
    BY <1>8, <1>12 DEF InsertIntoRange, Start
  <2>. QED
    BY <1>11, <2>1
<1>13. CASE c.rest # <<>>
  <2>1. ASSUME NEW i \in DOMAIN c.rest PROVE m + i \in 1..N /\ OpsOf(c.rest[i]) = {xs[m + i]} /\ i \in Nat
    <3>1. i \in 1..(N - m)
      BY <1>11
    <3>2. m + i \in 1..N /\ i \in Nat
      BY <1>11, <3>1
    <3>. QED
      <4>1. \A x : OpsOf(Op(x)) = {x}
        BY DEF OpsOf, Op
      <4>. QED
        BY <1>11, <3>1, <3>2, <4>1
  <2>2. Proper(c.rest)
    <3>1. ASSUME NEW i \in DOMAIN c.rest, NEW j \in DOMAIN c.rest, i # j
          PROVE  OpsOf(c.rest[i]) \cap OpsOf(c.rest[j]) = {}
      <4>1. m + i # m + j
        BY <2>1, <3>1
      <4>2. xs[m + i] # xs[m + j]
        BY <1>5, <2>1, <4>1
      <4>. QED
        BY <2>1, <4>2
    <3>. QED
      BY <3>1 DEF Proper
  <2>3. ASSUME NEW i \in DOMAIN c.rest PROVE OpsOf(c.rest[i]) \cap OpsIn(c.ms) = {}
    <3>1. xs[m + i] \notin OpsIn(ms)
      BY <1>5, <2>1
    <3>2. \A j \in 1..m : j # m + i /\ j \in 1..N
      BY <1>11, <2>1
    <3>3. \A j \in 1..m : xs[j] # xs[m + i]
      BY <1>5, <2>1, <3>2
    <3>. QED
      BY <1>11, <2>1, <3>1, <3>3
  <2>4. Given(c.rest, c.ms)
    BY <1>11, <2>2, <2>3 DEF Given
  <2>5. PICK r : r = Insert(c.ms, NoCache, end, c.rest, "EARLIEST")
    OBVIOUS
  <2>6. Inserted(r, c.ms, end, c.rest, "EARLIEST")
    <3>1. Exact(c.ms, NoCache) /\ "EARLIEST" \in Strategies /\ end \in 0..Len(c.ms)
      BY <1>11, NoCacheExact DEF Strategies
    <3>2. NoCache.on \/ NoCache = NoCache
      OBVIOUS
    <3>. QED
      BY <1>11, <2>4, <2>5, <3>1, <3>2, InsertFacts
  <2>7. InsertIntoRange(ms, xs, start, end) = r
    BY <1>8, <1>13, <2>5 DEF InsertIntoRange
  <2>. QED
    BY <2>6, <2>7 DEF Inserted, Ordered
<1>. QED
  BY <1>12, <1>13

\* batch_insert() makes a circuit.
LEMMA ShiftedFacts ==
    ASSUME NEW ms, Circ(ms), NEW zs \in Seq(Ops), \A i, j \in DOMAIN zs : i # j => zs[i] # zs[j],
           \A i \in DOMAIN zs : zs[i] \notin OpsIn(ms), NEW ins, Len(ins) = Len(zs),
           \A i \in 1..Len(zs) : ins[i].at \in Int /\ ins[i].es = <<Op(zs[i])>>
    PROVE  Circ(BatchInsert(ms, ins).ms)
<1>1. PICK N \in Nat : N = Len(zs)
  OBVIOUS
<1>2. DOMAIN zs = 1..N /\ Len(ins) = N /\ ms \in Seq(Moments)
  BY <1>1 DEF Circ
<1>3. PICK T : T = [ms : Seq(Moments), raised : BOOLEAN, shift : Int]
  OBVIOUS
<1>4. PICK Good : Good = [n \in 0..N |-> {d \in T : Circ(d.ms) /\ OpsIn(d.ms) = OpsIn(ms) \cup {zs[j] : j \in 1..n}}]
  OBVIOUS
<1>5. PICK d0 : d0 = [ms |-> ms, raised |-> FALSE, shift |-> 0]
  OBVIOUS
<1>6. d0 \in Good[0]
  <2>1. d0 \in T /\ d0.ms = ms
    BY <1>2, <1>3, <1>5
  <2>2. {zs[j] : j \in 1..0} = {}
    OBVIOUS
  <2>. QED
    BY <1>4, <2>1, <2>2
<1>7. ASSUME NEW n \in 1..N, NEW d \in Good[n - 1] PROVE InsertShifted(d, ins[n]) \in Good[n]
  <2>1. n \in 0..N /\ n - 1 \in 0..N
    OBVIOUS
  <2>2. d \in T /\ Circ(d.ms) /\ OpsIn(d.ms) = OpsIn(ms) \cup {zs[j] : j \in 1..(n - 1)}
    BY <1>4, <2>1
  <2>3. PICK z, es, a : z = zs[n] /\ es = <<Op(z)>> /\ a = ins[n].at
    OBVIOUS
  <2>4. z \in Ops /\ ins[n].es = es /\ a \in Int /\ d.shift \in Int /\ d.raised \in BOOLEAN
    BY <1>1, <1>2, <1>3, <2>2, <2>3
  <2>5. z \notin OpsIn(d.ms)
    <3>1. \A j \in 1..(n - 1) : j \in 1..N /\ j # n
      OBVIOUS
    <3>2. \A j \in 1..(n - 1) : zs[j] # z
      BY <1>2, <2>3, <3>1
    <3>. QED
      BY <1>2, <2>2, <2>3, <3>2
  <2>6. Given(es, d.ms) /\ New(es, 1..Len(es)) = {z}
    <3>1. PICK e : e = Op(z)
      OBVIOUS
    <3>2. e \in Elements /\ OpsOf(e) = {z}
      BY <2>4, <3>1 DEF Elements, Op, OpsOf
    <3>3. es \in Seq(Elements) /\ Len(es) = 1 /\ DOMAIN es = 1..1 /\ es[1] = e
      BY <2>3, <3>1, <3>2
    <3>. QED
      BY <2>5, <3>2, <3>3 DEF Given, Proper, New
  <2>7. PICK k : k = InsertIndex(a + d.shift, Len(d.ms))
    OBVIOUS
  <2>8. k \in 0..Len(d.ms)
    <3>1. Len(d.ms) \in Nat
      BY <2>2, AtFacts
    <3>2. PICK i \in Int : i = a + d.shift
      BY <2>4
    <3>. QED
      BY <2>7, <3>1, <3>2, IndexInRange
  <2>9. PICK r : r = Insert(d.ms, NoCache, k, es, "EARLIEST")
    OBVIOUS
  <2>10. Inserted(r, d.ms, k, es, "EARLIEST")
    <3>1. Exact(d.ms, NoCache) /\ "EARLIEST" \in Strategies
      BY NoCacheExact DEF Strategies
    <3>2. NoCache.on \/ NoCache = NoCache
      OBVIOUS
    <3>. QED
      BY <2>2, <2>6, <2>8, <2>9, <3>1, <3>2, InsertFacts
  <2>11. r \in State /\ Circ(r.ms) /\ OpsIn(r.ms) = OpsIn(d.ms) \cup {z}
    BY <2>6, <2>10 DEF Inserted, Ordered
  <2>12. PICK c : c = InsertShifted(d, ins[n])
    OBVIOUS
  <2>13. c = [ms |-> r.ms, raised |-> d.raised \/ r.raised, shift |-> d.shift + Greater(0, r.k - (a + d.shift))]
    BY <2>3, <2>4, <2>7, <2>9, <2>12 DEF InsertShifted, AfterInsertion
  <2>14. /\ r.k \in Nat /\ r.raised \in BOOLEAN /\ r.ms \in Seq(Moments)
         /\ d.shift + Greater(0, r.k - (a + d.shift)) \in Int
    BY <2>4, <2>11 DEF State, Greater
  <2>15. c \in T /\ c.ms = r.ms
    BY <1>3, <2>4, <2>13, <2>14
  <2>16. {zs[j] : j \in 1..n} = {zs[j] : j \in 1..(n - 1)} \cup {z}
    <3>1. 1..n = (1..(n - 1)) \cup {n}
      OBVIOUS
    <3>. QED
      BY <2>3, <3>1
  <2>17. OpsIn(c.ms) = OpsIn(ms) \cup {zs[j] : j \in 1..n} /\ Circ(c.ms)
    BY <2>2, <2>11, <2>15, <2>16
  <2>. QED
    BY <1>4, <2>1, <2>12, <2>15, <2>17
<1>8. BatchInsert(ms, ins) \in Good[N]
  BY <1>2, <1>5, <1>6, <1>7, ShiftedLoop
<1>. QED
  BY <1>4, <1>8

----------------------------------------------------------------------------
(* insert_at_frontier() *)

\* The operations share a qubit.
OnOneQubit(x, y) == QubitsOf[x] \cap QubitsOf[y] # {}

\* The places of the first n operations are picked.
Picking(d, xs, start, n) ==
    /\ d \in [at : Seq(Nat), frontier : [Qubits -> Nat]] /\ Len(d.at) = n
    /\ \A i \in 1..n : d.at[i] >= start /\ d.at[i] <= start + n /\ \A b \in QubitsOf[xs[i]] : d.at[i] < d.frontier[b]
    /\ \A b \in Qubits : d.frontier[b] <= start + n
    /\ \A i, j \in 1..n : i < j /\ OnOneQubit(xs[i], xs[j]) => d.at[i] < d.at[j]

\* One more.
LEMMA PickingStep ==
    ASSUME NEW xs \in Seq(Ops), NEW start \in Nat, NEW n \in Nat, n + 1 \in 1..Len(xs), NEW d, Picking(d, xs, start, n)
    PROVE  Picking(PickIndex(d, xs[n + 1], start), xs, start, n + 1)
<1>1. PICK x, at, fr : x = xs[n + 1] /\ at = d.at /\ fr = d.frontier
  OBVIOUS
<1>2. /\ d \in [at : Seq(Nat), frontier : [Qubits -> Nat]] /\ at \in Seq(Nat) /\ Len(at) = n /\ fr \in [Qubits -> Nat]
      /\ \A i \in 1..n : at[i] \in Nat /\ at[i] >= start /\ at[i] <= start + n /\ \A b \in QubitsOf[xs[i]] : at[i] < fr[b]
      /\ \A b \in Qubits : fr[b] \in Nat /\ fr[b] <= start + n
      /\ \A i, j \in 1..n : i < j /\ OnOneQubit(xs[i], xs[j]) => at[i] < at[j]
  BY <1>1 DEF Picking
<1>3. x \in Ops /\ QubitsOf[x] \subseteq Qubits /\ \A i \in 1..n : QubitsOf[xs[i]] \subseteq Qubits
  BY <1>1, PlacementAssumption
<1>4. PICK S : S = {start} \cup {fr[b] : b \in QubitsOf[x]}
  OBVIOUS
<1>5. S \in SUBSET Nat /\ S # {} /\ \A s \in S : s <= start + n
  BY <1>2, <1>3, <1>4
<1>6. PICK m : m = Max(S) /\ m \in S /\ \A s \in S : s <= m
  <2>1. PICK N \in Nat : N = start + n
    OBVIOUS
  <2>2. \A s \in S : s <= N
    BY <1>5, <2>1
  <2>. QED
    BY <1>5, <2>2, Extremes
<1>7. m \in Nat /\ start <= m /\ m <= start + n /\ \A b \in QubitsOf[x] : fr[b] <= m
  BY <1>4, <1>5, <1>6
<1>8. PICK fr2 : fr2 = [b \in Qubits |-> IF b \in QubitsOf[x] THEN Greater(fr[b], m + 1) ELSE fr[b]]
  OBVIOUS
<1>9. PICK at2 : at2 = Append(at, m)
  OBVIOUS
<1>10. PICK r : r = PickIndex(d, x, start)
  OBVIOUS
<1>11. r = [at |-> at2, frontier |-> fr2]
  BY <1>1, <1>4, <1>6, <1>8, <1>9, <1>10 DEF PickIndex
<1>12. at2 \in Seq(Nat) /\ Len(at2) = n + 1 /\ at2[n + 1] = m /\ \A i \in 1..n : at2[i] = at[i]
  BY <1>2, <1>7, <1>9
<1>13. /\ fr2 \in [Qubits -> Nat]
       /\ \A b \in Qubits : fr2[b] \in Nat /\ fr2[b] >= fr[b] /\ fr2[b] <= start + (n + 1)
       /\ \A b \in QubitsOf[x] : fr2[b] = m + 1
  BY <1>2, <1>3, <1>7, <1>8 DEF Greater
<1>14. ASSUME NEW i \in 1..(n + 1)
       PROVE  at2[i] >= start /\ at2[i] <= start + (n + 1) /\ \A b \in QubitsOf[xs[i]] : at2[i] < fr2[b]
  <2>1. CASE i = n + 1
    BY <1>1, <1>7, <1>12, <1>13, <2>1
  <2>2. CASE i # n + 1
    <3>1. i \in 1..n
      BY <2>2
    <3>. QED
      BY <1>2, <1>3, <1>12, <1>13, <3>1
  <2>. QED
    BY <2>1, <2>2
<1>15. ASSUME NEW i \in 1..(n + 1), NEW j \in 1..(n + 1), i < j, OnOneQubit(xs[i], xs[j])
       PROVE  at2[i] < at2[j]
  <2>1. i \in 1..n
    BY <1>15
  <2>2. CASE j = n + 1
    <3>1. PICK b \in QubitsOf[xs[i]] : b \in QubitsOf[x]
      BY <1>1, <1>15, <2>2 DEF OnOneQubit
    <3>2. at[i] < fr[b] /\ fr[b] <= m /\ fr[b] \in Nat /\ at[i] \in Nat
      BY <1>2, <1>3, <1>7, <2>1, <3>1
    <3>. QED
      BY <1>7, <1>12, <2>1, <2>2, <3>2
  <2>3. CASE j # n + 1
    <3>1. j \in 1..n
      BY <2>3
    <3>. QED
      BY <1>2, <1>12, <1>15, <2>1, <3>1
  <2>. QED
    BY <2>2, <2>3
<1>16. r.at = at2 /\ r.frontier = fr2 /\ r \in [at : Seq(Nat), frontier : [Qubits -> Nat]]
  BY <1>11, <1>12, <1>13
<1>. QED
  BY <1>1, <1>10, <1>12, <1>13, <1>14, <1>15, <1>16 DEF Picking

\* _pick_inserted_ops_moment_indices() with a new frontier.
LEMMA PickedFacts ==
    ASSUME NEW xs \in Seq(Ops), NEW start \in Nat
    PROVE  Picking(PickIndices(xs, start, [b \in Qubits |-> 0]), xs, start, Len(xs))
<1>1. PICK N \in Nat : N = Len(xs)
  OBVIOUS
<1>2. PICK T : T = [at : Seq(Nat), frontier : [Qubits -> Nat]]
  OBVIOUS
<1>3. PICK Good : Good = [n \in 0..N |-> {d \in T : Picking(d, xs, start, n)}]
  OBVIOUS
<1>4. PICK fr : fr = [b \in Qubits |-> 0]
  OBVIOUS
<1>5. PICK d0 : d0 = [at |-> <<>>, frontier |-> fr]
  OBVIOUS
<1>6. d0 \in Good[0]
  <2>1. d0 \in T /\ d0.at = <<>> /\ d0.frontier = fr
    BY <1>2, <1>4, <1>5
  <2>2. \A b \in Qubits : fr[b] <= start + 0
    BY <1>4
  <2>3. Picking(d0, xs, start, 0)
    BY <1>2, <2>1, <2>2 DEF Picking
  <2>. QED
    BY <1>3, <2>1, <2>3
<1>7. ASSUME NEW n \in 1..N, NEW d \in Good[n - 1] PROVE PickIndex(d, xs[n], start) \in Good[n]
  <2>1. PICK i \in Nat : i = n - 1
    OBVIOUS
  <2>2. i + 1 = n /\ i \in 0..N /\ n \in 0..N /\ i + 1 \in 1..Len(xs)
    BY <1>1, <2>1
  <2>3. Picking(d, xs, start, i)
    BY <1>3, <2>1, <2>2
  <2>4. Picking(PickIndex(d, xs[i + 1], start), xs, start, i + 1)
    BY <2>2, <2>3, PickingStep
  <2>5. PickIndex(d, xs[n], start) \in T
    BY <1>2, <2>2, <2>4 DEF Picking
  <2>. QED
    BY <1>3, <2>2, <2>4, <2>5
<1>8. PickIndices(xs, start, fr) \in Good[N]
  BY <1>1, <1>5, <1>6, <1>7, PickLoop
<1>. QED
  BY <1>1, <1>3, <1>4, <1>8

\* t is the circuit ms with n empty moments after moment a.
Shifted(ms, t, a, n) ==
    /\ Circ(t) /\ OpsIn(t) = OpsIn(ms) /\ Len(t) = Len(ms) + n
    /\ \A x \in OpsIn(ms) : At(t, x) = IF At(ms, x) > a THEN At(ms, x) + n ELSE At(ms, x)

\* The moments of such a circuit.
LEMMA Spread ==
    ASSUME NEW ms, Circ(ms), NEW a \in 0..Len(ms), NEW n \in Nat, NEW t \in Seq(Moments), Len(t) = Len(ms) + n,
           \A i \in 1..(Len(ms) + n) : t[i] = IF i <= a THEN ms[i] ELSE IF i <= a + n THEN {} ELSE ms[i - n]
    PROVE  Shifted(ms, t, a, n)
<1>1. PICK L : L = Len(ms)
  OBVIOUS
<1>2. L \in Nat /\ a \in Nat /\ a <= L /\ DOMAIN t = 1..(L + n) /\ DOMAIN ms = 1..L
  BY <1>1, AtFacts
<1>3. ASSUME NEW i \in 1..(L + n), NEW x \in t[i]
      PROVE  \E j \in 1..L : x \in ms[j] /\ i = IF j > a THEN j + n ELSE j
  <2>1. CASE i <= a
    <3>1. i \in 1..L /\ x \in ms[i] /\ ~(i > a)
      BY <1>1, <1>2, <1>3, <2>1
    <3>. QED
      BY <3>1
  <2>2. CASE ~(i <= a)
    <3>1. ~(i <= a + n) /\ x \in ms[i - n]
      BY <1>1, <1>3, <2>2
    <3>2. i - n \in 1..L /\ i - n > a /\ i = (i - n) + n
      BY <1>2, <3>1
    <3>. QED
      BY <3>1, <3>2
  <2>. QED
    BY <2>1, <2>2
<1>4. ASSUME NEW j \in 1..L
      PROVE  (IF j > a THEN j + n ELSE j) \in 1..(L + n) /\ t[IF j > a THEN j + n ELSE j] = ms[j]
  <2>1. CASE j > a
    <3>1. j + n \in 1..(L + n) /\ ~(j + n <= a) /\ ~(j + n <= a + n) /\ (j + n) - n = j
      BY <1>2, <2>1
    <3>. QED
      BY <1>1, <2>1, <3>1
  <2>2. CASE ~(j > a)
    BY <1>1, <1>2, <2>2
  <2>. QED
    BY <2>1, <2>2
<1>5. Circ(t)
  <2>1. ASSUME NEW i \in DOMAIN t, NEW k \in DOMAIN t, i # k, NEW x \in t[i], x \in t[k] PROVE FALSE
    <3>1. PICK j \in 1..L : x \in ms[j] /\ i = IF j > a THEN j + n ELSE j
      BY <1>2, <1>3
    <3>2. PICK l \in 1..L : x \in ms[l] /\ k = IF l > a THEN l + n ELSE l
      BY <1>2, <1>3, <2>1
    <3>3. j # l
      BY <2>1, <3>1, <3>2
    <3>. QED
      BY <1>2, <3>1, <3>2, <3>3 DEF Circ
  <2>. QED
    BY <2>1 DEF Circ
<1>6. ASSUME NEW x \in OpsIn(ms) PROVE x \in OpsIn(t) /\ At(t, x) = IF At(ms, x) > a THEN At(ms, x) + n ELSE At(ms, x)
  <2>1. PICK j \in 1..L : j = At(ms, x) /\ x \in ms[j]
    BY <1>1, AtFacts
  <2>2. PICK i \in 1..(L + n) : i = (IF j > a THEN j + n ELSE j) /\ x \in t[i]
    BY <1>4, <2>1
  <2>3. i \in 1..Len(t)
    BY <1>1
  <2>4. x \in OpsIn(t) /\ At(t, x) = i
    BY <1>5, <2>2, <2>3, AtFacts
  <2>. QED
    BY <2>1, <2>2, <2>4
<1>7. ASSUME NEW x \in OpsIn(t) PROVE x \in OpsIn(ms)
  <2>1. PICK i \in 1..Len(t) : x \in t[i]
    BY <1>5, AtFacts
  <2>2. i \in 1..(L + n)
    BY <1>1
  <2>3. PICK j \in 1..L : x \in ms[j]
    BY <1>3, <2>1, <2>2
  <2>. QED
    BY <1>1, <2>3, AtFacts
<1>. QED
  BY <1>5, <1>6, <1>7 DEF Shifted

\* Empty moments.
LEMMA EmptiesFacts ==
    ASSUME NEW n \in Nat
    PROVE  /\ Empties(n) \in Seq(Moments) /\ Len(Empties(n)) = n /\ \A i \in 1..n : Empties(n)[i] = {}
  BY SmallMoments DEF Empties

\* _push_frontier() puts them inside, ...
LEMMA EmptiesInside ==
    ASSUME NEW ms, Circ(ms), NEW a \in 0..Len(ms), NEW n \in Nat
    PROVE  Shifted(ms, SubSeq(ms, 1, a) \o Empties(n) \o SubSeq(ms, a + 1, Len(ms)), a, n)
<1>1. PICK L, u, e, v : L = Len(ms) /\ u = SubSeq(ms, 1, a) /\ e = Empties(n) /\ v = SubSeq(ms, a + 1, Len(ms))
  OBVIOUS
<1>2. L \in Nat /\ a \in Nat /\ a <= L /\ ms \in Seq(Moments)
  BY <1>1, AtFacts DEF Circ
<1>3. /\ u \in Seq(Moments) /\ Len(u) = a /\ \A i \in 1..a : u[i] = ms[i]
      /\ v \in Seq(Moments) /\ Len(v) = L - a /\ \A i \in 1..(L - a) : v[i] = ms[a + i]
  BY <1>1, <1>2, Parts
<1>4. e \in Seq(Moments) /\ Len(e) = n /\ \A i \in 1..n : e[i] = {}
  BY <1>1, EmptiesFacts
<1>5. PICK w, t : w = u \o e /\ t = w \o v
  OBVIOUS
<1>6. w \in Seq(Moments) /\ Len(w) = a + n /\ \A i \in 1..(a + n) : w[i] = IF i <= a THEN u[i] ELSE e[i - a]
  <2>1. /\ u \o e \in Seq(Moments) /\ Len(u \o e) = Len(u) + Len(e)
        /\ \A i \in 1..(Len(u) + Len(e)) : (u \o e)[i] = IF i <= Len(u) THEN u[i] ELSE e[i - Len(u)]
    BY <1>3, <1>4, ConcatProperties
  <2>. QED
    BY <1>3, <1>4, <1>5, <2>1
<1>7. t \in Seq(Moments) /\ Len(t) = L + n /\ \A i \in 1..(L + n) : t[i] = IF i <= a + n THEN w[i] ELSE v[i - (a + n)]
  <2>1. /\ w \o v \in Seq(Moments) /\ Len(w \o v) = Len(w) + Len(v)
        /\ \A i \in 1..(Len(w) + Len(v)) : (w \o v)[i] = IF i <= Len(w) THEN w[i] ELSE v[i - Len(w)]
    BY <1>3, <1>6, ConcatProperties
  <2>2. Len(w) + Len(v) = L + n
    BY <1>2, <1>3, <1>6
  <2>. QED
    BY <1>5, <1>6, <2>1, <2>2
<1>8. ASSUME NEW i \in 1..(L + n) PROVE t[i] = IF i <= a THEN ms[i] ELSE IF i <= a + n THEN {} ELSE ms[i - n]
  <2>1. CASE i <= a
    <3>1. i \in 1..a /\ i \in 1..(a + n) /\ i <= a + n
      BY <1>2, <2>1
    <3>. QED
      BY <1>3, <1>6, <1>7, <2>1, <3>1
  <2>2. CASE ~(i <= a) /\ i <= a + n
    <3>1. i - a \in 1..n /\ i \in 1..(a + n)
      BY <1>2, <2>2
    <3>. QED
      BY <1>4, <1>6, <1>7, <2>2, <3>1
  <2>3. CASE ~(i <= a + n)
    <3>1. i - (a + n) \in 1..(L - a) /\ a + (i - (a + n)) = i - n /\ ~(i <= a)
      BY <1>2, <2>3
    <3>2. t[i] = v[i - (a + n)] /\ v[i - (a + n)] = ms[a + (i - (a + n))]
      BY <1>3, <1>7, <2>3, <3>1
    <3>. QED
      BY <2>3, <3>1, <3>2
  <2>. QED
    BY <2>1, <2>2, <2>3
<1>9. Shifted(ms, t, a, n)
  BY <1>1, <1>7, <1>8, Spread
<1>. QED
  BY <1>1, <1>5, <1>9

\* ... and _insert_operations() at the end, if they are missing.
LEMMA EmptiesAtEnd ==
    ASSUME NEW ms, Circ(ms), NEW m \in Int
    PROVE  Shifted(ms, ms \o Empties(m), Len(ms), Greater(0, m))
<1>1. PICK L, n, e : L = Len(ms) /\ n = Greater(0, m) /\ e = Empties(n)
  OBVIOUS
<1>2. L \in Nat /\ n \in Nat /\ ms \in Seq(Moments)
  BY <1>1, AtFacts DEF Circ, Greater
<1>3. Empties(m) = e
  <2>1. 1..m = 1..n
    BY <1>1 DEF Greater
  <2>. QED
    BY <1>1, <2>1 DEF Empties
<1>4. e \in Seq(Moments) /\ Len(e) = n /\ \A i \in 1..n : e[i] = {}
  BY <1>1, <1>2, EmptiesFacts
<1>5. PICK t : t = ms \o e
  OBVIOUS
<1>6. t \in Seq(Moments) /\ Len(t) = L + n /\ \A i \in 1..(L + n) : t[i] = IF i <= L THEN ms[i] ELSE e[i - L]
  <2>1. /\ ms \o e \in Seq(Moments) /\ Len(ms \o e) = Len(ms) + Len(e)
        /\ \A i \in 1..(Len(ms) + Len(e)) : (ms \o e)[i] = IF i <= Len(ms) THEN ms[i] ELSE e[i - Len(ms)]
    BY <1>2, <1>4, ConcatProperties
  <2>. QED
    BY <1>1, <1>4, <1>5, <2>1
<1>7. ASSUME NEW i \in 1..(L + n) PROVE t[i] = IF i <= L THEN ms[i] ELSE IF i <= L + n THEN {} ELSE ms[i - n]
  <2>1. CASE i <= L
    BY <1>6, <2>1
  <2>2. CASE ~(i <= L)
    <3>1. i - L \in 1..n /\ i <= L + n
      BY <1>2, <2>2
    <3>. QED
      BY <1>4, <1>6, <2>2, <3>1
  <2>. QED
    BY <2>1, <2>2
<1>8. L \in 0..Len(ms)
  BY <1>1, <1>2
<1>9. Shifted(ms, t, L, n)
  BY <1>1, <1>2, <1>6, <1>7, <1>8, Spread
<1>. QED
  BY <1>1, <1>3, <1>5, <1>9

\* The first moment on b after start, as an index: what is on b after start is there or later.
LEMMA NextOnFacts ==
    ASSUME NEW ms, Circ(ms), NEW b, NEW start \in 0..Len(ms)
    PROVE  /\ NextOn(ms, b, start) \in start..Len(ms)
           /\ \A x \in OpsIn(ms) : b \in QubitsOf[x] /\ At(ms, x) > start => At(ms, x) > NextOn(ms, b, start)
<1>1. PICK L \in Nat : L = Len(ms)
  BY AtFacts
<1>2. PICK S : S = {L} \cup {i \in start .. L - 1 : b \in MomentQubits(ms[i + 1])}
  OBVIOUS
<1>3. start \in Nat /\ start <= L
  BY <1>1
<1>4. S \in SUBSET Nat /\ S # {} /\ \A i \in S : i \in start..L
  BY <1>2, <1>3
<1>5. PICK m : m = Min(S) /\ m \in S /\ \A i \in S : m <= i
  BY <1>4, Extremes
<1>6. NextOn(ms, b, start) = m
  BY <1>1, <1>2, <1>5 DEF NextOn
<1>7. ASSUME NEW x \in OpsIn(ms), b \in QubitsOf[x], At(ms, x) > start PROVE At(ms, x) > m
  <2>1. PICK j \in 1..L : j = At(ms, x) /\ x \in ms[j]
    BY <1>1, AtFacts
  <2>2. PICK i \in Nat : i + 1 = j /\ i \in start .. L - 1
    <3>1. j - 1 \in Nat /\ (j - 1) + 1 = j /\ j - 1 \in start .. L - 1
      BY <1>3, <1>7, <2>1
    <3>. QED
      BY <3>1
  <2>3. b \in MomentQubits(ms[i + 1])
    BY <1>7, <2>1, <2>2 DEF MomentQubits
  <2>4. i \in S
    BY <1>2, <2>2, <2>3
  <2>5. m <= i /\ m \in Nat
    BY <1>4, <1>5, <2>4
  <2>. QED
    BY <2>1, <2>2, <2>5
<1>. QED
  BY <1>1, <1>4, <1>5, <1>6, <1>7

\* The greatest of zero and some integers.
LEMMA GreatestDifference ==
    ASSUME NEW S \in SUBSET Int, 0 \in S, NEW n \in Nat, \A s \in S : s <= n
    PROVE  Max(S) \in Nat /\ Max(S) \in S /\ \A s \in S : s <= Max(S)
<1>1. PICK P : P = {s \in S : s >= 0}
  OBVIOUS
<1>2. P \in SUBSET Nat /\ P # {} /\ \A s \in P : s <= n
  <2>1. \A s \in P : s \in Int /\ s >= 0 /\ s \in S
    BY <1>1
  <2>2. \A s \in P : s \in Nat /\ s <= n
    BY <2>1
  <2>3. 0 \in P
    BY <1>1
  <2>. QED
    BY <2>2, <2>3
<1>3. PICK m \in P : \A s \in P : s <= m
  BY <1>2, GreatestElement
<1>4. m \in Nat /\ m \in S /\ \A s \in S : s <= m
  BY <1>1, <1>2, <1>3
<1>5. \E i \in S : \A s \in S : s <= i
  BY <1>4
<1>6. Max(S) \in S /\ \A s \in S : s <= Max(S)
  BY <1>5 DEF Max
<1>7. Max(S) \in Int /\ 0 <= Max(S)
  BY <1>6
<1>. QED
  BY <1>6, <1>7

\* t is the circuit ms with room at start: on a qubit of D, what was before start stays
\* and what was after it is after the frontier early.
Roomy(ms, t, start, early, D) ==
    /\ Circ(t) /\ OpsIn(t) = OpsIn(ms) /\ KeepsOld(ms, t)
    /\ \A x \in OpsIn(ms) : At(ms, x) <= start => At(t, x) = At(ms, x)
    /\ \A x \in OpsIn(ms) : \A b \in QubitsOf[x] \cap D : At(ms, x) > start => At(t, x) > early[b]

\* _push_frontier() makes room.
LEMMA RoomFacts ==
    ASSUME NEW ms, Circ(ms), NEW start \in 0..Len(ms), NEW D \in SUBSET Qubits, NEW early \in [Qubits -> Nat],
           NEW N \in Nat, \A b \in Qubits : early[b] <= N,
           NEW late, late = [b \in D |-> NextOn(ms, b, start)]
    PROVE  Roomy(ms, PushFrontier(ms, early, late).ms, start, early, D)
<1>1. PICK L \in Nat : L = Len(ms)
  BY AtFacts
<1>2. start \in Nat /\ start <= L
  BY <1>1
<1>3. DOMAIN late = D
  OBVIOUS
<1>4. ASSUME NEW b \in D
      PROVE  /\ late[b] \in Nat /\ start <= late[b] /\ late[b] <= L /\ early[b] \in Nat /\ early[b] <= N
             /\ \A x \in OpsIn(ms) : b \in QubitsOf[x] /\ At(ms, x) > start => At(ms, x) > late[b]
  <2>1. late[b] = NextOn(ms, b, start)
    OBVIOUS
  <2>2. /\ NextOn(ms, b, start) \in start..Len(ms)
        /\ \A x \in OpsIn(ms) : b \in QubitsOf[x] /\ At(ms, x) > start => At(ms, x) > NextOn(ms, b, start)
    BY NextOnFacts
  <2>. QED
    BY <1>1, <1>2, <2>1, <2>2
<1>5. PICK S : S = {0} \cup {early[b] - late[b] : b \in D}
  OBVIOUS
<1>6. S \in SUBSET Int /\ 0 \in S /\ \A s \in S : s <= N
  BY <1>4, <1>5
<1>7. PICK n : n = Max(S) /\ n \in Nat /\ n \in S /\ \A s \in S : s <= n
  BY <1>6, GreatestDifference
<1>8. \A b \in D : early[b] - late[b] <= n
  BY <1>5, <1>7
<1>9. PICK t : t = PushFrontier(ms, early, late).ms
  OBVIOUS
<1>10. \A x \in OpsIn(ms) : At(ms, x) \in Nat
  BY AtFacts
<1>11. CASE n = 0
  <2>1. t = ms
    BY <1>3, <1>5, <1>7, <1>9, <1>11 DEF PushFrontier
  <2>2. \A x \in OpsIn(ms) : \A b \in QubitsOf[x] \cap D : At(ms, x) > start => At(ms, x) > early[b]
    BY <1>4, <1>8, <1>10, <1>11
  <2>3. Roomy(ms, ms, start, early, D)
    BY <2>2 DEF Roomy, KeepsOld
  <2>. QED
    BY <1>9, <2>1, <2>3
<1>12. CASE n # 0
  <2>1. PICK b0 \in D : n = early[b0] - late[b0]
    BY <1>5, <1>7, <1>12
  <2>2. PICK W : W = {late[b] : b \in D}
    OBVIOUS
  <2>3. W \in SUBSET Nat /\ W # {}
    BY <1>4, <2>1, <2>2
  <2>4. PICK a : a = Min(W) /\ a \in W /\ \A w \in W : a <= w
    BY <2>3, Extremes
  <2>5. a \in Nat /\ start <= a /\ a <= L /\ a \in 0..Len(ms) /\ \A b \in D : a <= late[b]
    BY <1>1, <1>4, <2>2, <2>4
  <2>6. t = SubSeq(ms, 1, a) \o Empties(n) \o SubSeq(ms, a + 1, Len(ms))
    BY <1>3, <1>5, <1>7, <1>9, <1>12, <2>2, <2>4 DEF PushFrontier
  <2>7. Shifted(ms, t, a, n)
    BY <1>7, <2>5, <2>6, EmptiesInside
  <2>8. /\ Circ(t) /\ OpsIn(t) = OpsIn(ms)
        /\ \A x \in OpsIn(ms) : At(t, x) = IF At(ms, x) > a THEN At(ms, x) + n ELSE At(ms, x)
    BY <2>7 DEF Shifted
  <2>9. KeepsOld(ms, t)
    BY <1>7, <1>10, <2>5, <2>8 DEF KeepsOld
  <2>10. \A x \in OpsIn(ms) : At(ms, x) <= start => At(t, x) = At(ms, x)
    BY <1>2, <1>10, <2>5, <2>8
  <2>11. ASSUME NEW x \in OpsIn(ms), NEW b \in QubitsOf[x] \cap D, At(ms, x) > start PROVE At(t, x) > early[b]
    <3>1. At(ms, x) \in Nat /\ At(ms, x) > late[b] /\ late[b] \in Nat /\ a <= late[b] /\ early[b] \in Nat
      BY <1>4, <1>10, <2>5, <2>11
    <3>2. At(t, x) = At(ms, x) + n
      BY <2>5, <2>8, <3>1
    <3>. QED
      BY <1>7, <1>8, <3>1, <3>2
  <2>. QED
    BY <1>9, <2>8, <2>9, <2>10, <2>11 DEF Roomy
<1>. QED
  BY <1>11, <1>12

\* _insert_operations() has put the first n operations into the circuit t.
Putting(d, t, xs, at, n) ==
    /\ d \in State /\ ~d.raised /\ Circ(d.ms)
    /\ OpsIn(d.ms) = OpsIn(t) \cup {xs[j] : j \in 1..n}
    /\ \A i \in 1..Len(xs) : at[i] + 1 <= Len(d.ms)
    /\ \A x \in OpsIn(t) : At(d.ms, x) = At(t, x)
    /\ \A j \in 1..n : At(d.ms, xs[j]) = at[j] + 1

\* The places at are free for the operations.
Free(t, xs, at) ==
    /\ at \in Seq(Nat) /\ Len(at) = Len(xs)
    /\ \A y \in OpsIn(t) : \A i \in 1..Len(xs) : OnOneQubit(y, xs[i]) => At(t, y) # at[i] + 1
    /\ \A i, j \in 1..Len(xs) : i < j /\ OnOneQubit(xs[i], xs[j]) => at[i] < at[j]

\* One more.
LEMMA PuttingStep ==
    ASSUME NEW t, Circ(t), NEW xs \in Seq(Ops), \A i, j \in DOMAIN xs : i # j => xs[i] # xs[j],
           \A i \in DOMAIN xs : xs[i] \notin OpsIn(t), NEW at, Free(t, xs, at),
           NEW n \in Nat, n + 1 \in 1..Len(xs), NEW d, Putting(d, t, xs, at, n)
    PROVE  Putting(Put(d, at[n + 1] + 1, xs[n + 1]), t, xs, at, n + 1)
<1>1. PICK x, N : x = xs[n + 1] /\ N = Len(xs)
  OBVIOUS
<1>2. N \in Nat /\ DOMAIN xs = 1..N /\ x \in Ops /\ n + 1 \in 1..N /\ x \notin OpsIn(t)
  BY <1>1
<1>3. /\ at \in Seq(Nat) /\ Len(at) = N
      /\ \A y \in OpsIn(t) : \A i \in 1..N : OnOneQubit(y, xs[i]) => At(t, y) # at[i] + 1
      /\ \A i, j \in 1..N : i < j /\ OnOneQubit(xs[i], xs[j]) => at[i] < at[j]
  BY <1>1 DEF Free
<1>4. \A i \in 1..N : at[i] \in Nat
  BY <1>3
<1>5. /\ d \in State /\ ~d.raised /\ Circ(d.ms) /\ OpsIn(d.ms) = OpsIn(t) \cup {xs[j] : j \in 1..n}
      /\ \A i \in 1..N : at[i] + 1 <= Len(d.ms)
      /\ \A y \in OpsIn(t) : At(d.ms, y) = At(t, y)
      /\ \A j \in 1..n : At(d.ms, xs[j]) = at[j] + 1
  BY <1>1 DEF Putting
<1>6. Len(d.ms) \in Nat
  BY <1>5, AtFacts
<1>7. PICK p \in Nat : p = at[n + 1] + 1
  BY <1>2, <1>4
<1>8. p \in 1..Len(d.ms) /\ p \in 1..(Len(d.ms) + 1)
  BY <1>2, <1>4, <1>5, <1>6, <1>7
<1>9. \A j \in 1..n : j \in 1..N /\ j < n + 1 /\ j # n + 1
  BY <1>2
<1>10. x \notin OpsIn(d.ms)
  <2>1. \A j \in 1..n : xs[j] # x
    BY <1>1, <1>2, <1>9
  <2>. QED
    BY <1>2, <1>5, <2>1
<1>11. ~Overlaps(d.ms[p], x)
  <2>1. SUFFICES ASSUME Overlaps(d.ms[p], x) PROVE FALSE
    OBVIOUS
  <2>2. PICK y \in d.ms[p] : OnOneQubit(y, x)
    BY <2>1 DEF Overlaps, MomentQubits, OnOneQubit
  <2>3. y \in OpsIn(d.ms) /\ At(d.ms, y) = p
    BY <1>5, <1>8, <2>2, AtFacts
  <2>4. CASE y \in OpsIn(t)
    BY <1>1, <1>2, <1>3, <1>5, <1>7, <2>2, <2>3, <2>4
  <2>5. CASE y \notin OpsIn(t)
    <3>1. PICK j \in 1..n : y = xs[j]
      BY <1>5, <2>3, <2>5
    <3>2. at[j] < at[n + 1]
      BY <1>1, <1>2, <1>3, <1>9, <2>2, <3>1
    <3>3. p = at[j] + 1
      BY <1>5, <2>3, <3>1
    <3>. QED
      BY <1>2, <1>4, <1>7, <1>9, <3>2, <3>3
  <2>. QED
    BY <2>4, <2>5
<1>12. PICK u : u = Joined(d.ms, p, x)
  OBVIOUS
<1>13. /\ Put(d, p, x) = [d EXCEPT !.ms = u]
       /\ Grown(d.ms, u, {x}, p, Len(d.ms))
       /\ Len(u) = Greater(p, Len(d.ms))
  BY <1>2, <1>5, <1>8, <1>10, <1>11, <1>12, PutFacts
<1>14. Circ(u) /\ OpsIn(u) = OpsIn(d.ms) \cup {x} /\ At(u, x) = p /\ u \in Seq(Moments)
  BY <1>13 DEF Grown, Circ
<1>15. \A y \in OpsIn(d.ms) : At(u, y) = At(d.ms, y)
  <2>1. \A y \in OpsIn(d.ms) : ~(At(d.ms, y) > Len(d.ms))
    BY <1>5, <1>6, AtFacts
  <2>. QED
    BY <1>13, <2>1 DEF Grown
<1>16. Len(u) = Len(d.ms)
  BY <1>6, <1>8, <1>13 DEF Greater
<1>17. PICK r : r = Put(d, p, x)
  OBVIOUS
<1>18. r \in State /\ r.ms = u /\ ~r.raised
  BY <1>5, <1>13, <1>14, <1>17 DEF State
<1>19. {xs[j] : j \in 1..(n + 1)} = {xs[j] : j \in 1..n} \cup {x}
  <2>1. 1..(n + 1) = (1..n) \cup {n + 1}
    OBVIOUS
  <2>. QED
    BY <1>1, <2>1
<1>20. OpsIn(u) = OpsIn(t) \cup {xs[j] : j \in 1..(n + 1)}
  BY <1>5, <1>14, <1>19
<1>21. ASSUME NEW j \in 1..(n + 1) PROVE At(u, xs[j]) = at[j] + 1
  <2>1. CASE j = n + 1
    BY <1>1, <1>7, <1>14, <2>1
  <2>2. CASE j # n + 1
    <3>1. j \in 1..n
      BY <2>2
    <3>2. xs[j] \in OpsIn(d.ms)
      BY <1>5, <3>1
    <3>. QED
      BY <1>5, <1>15, <3>1, <3>2
  <2>. QED
    BY <2>1, <2>2
<1>22. \A y \in OpsIn(t) : At(u, y) = At(t, y)
  BY <1>5, <1>15
<1>23. \A i \in 1..Len(xs) : at[i] + 1 <= Len(u)
  BY <1>1, <1>5, <1>16
<1>24. Putting(r, t, xs, at, n + 1)
  BY <1>14, <1>18, <1>20, <1>21, <1>22, <1>23 DEF Putting
<1>. QED
  BY <1>1, <1>7, <1>17, <1>24

\* _insert_operations() puts every operation into its place, if that is free.
LEMMA PutAllFacts ==
    ASSUME NEW t, Circ(t), NEW xs \in Seq(Ops), xs # <<>>, \A i, j \in DOMAIN xs : i # j => xs[i] # xs[j],
           \A i \in DOMAIN xs : xs[i] \notin OpsIn(t), NEW at, Free(t, xs, at),
           NEW B \in Nat, \A i \in 1..Len(xs) : at[i] <= B
    PROVE  Putting(InsertOperations(t, xs, at), t, xs, at, Len(xs))
<1>1. PICK N \in Nat : N = Len(xs)
  OBVIOUS
<1>2. N # 0 /\ at \in Seq(Nat) /\ Len(at) = N /\ \A i \in 1..N : at[i] \in Nat /\ at[i] <= B
  BY <1>1 DEF Free
<1>3. PICK S : S = ToSet(at)
  OBVIOUS
<1>4. S = {at[i] : i \in 1..N}
  BY <1>2, <1>3 DEF ToSet
<1>5. S \in SUBSET Nat /\ S # {} /\ \A s \in S : s <= B
  BY <1>2, <1>4
<1>6. PICK m : m = Max(S) /\ m \in S /\ \A s \in S : s <= m
  BY <1>5, Extremes
<1>7. PICK L \in Nat : L = Len(t)
  BY AtFacts
<1>8. m \in Nat /\ \A i \in 1..N : at[i] <= m
  BY <1>4, <1>5, <1>6
<1>9. PICK k \in Int : k = 1 + m - L
  BY <1>8
<1>10. PICK u : u = t \o Empties(k)
  OBVIOUS
<1>11. Shifted(t, u, L, Greater(0, k))
  BY <1>7, <1>9, <1>10, EmptiesAtEnd
<1>12. /\ Circ(u) /\ OpsIn(u) = OpsIn(t) /\ Len(u) = L + Greater(0, k) /\ u \in Seq(Moments)
       /\ \A x \in OpsIn(t) : At(u, x) = IF At(t, x) > L THEN At(t, x) + Greater(0, k) ELSE At(t, x)
  BY <1>7, <1>11 DEF Shifted, Circ
<1>13. \A x \in OpsIn(t) : At(u, x) = At(t, x)
  <2>1. \A x \in OpsIn(t) : ~(At(t, x) > L)
    BY <1>7, AtFacts
  <2>. QED
    BY <1>12, <2>1
<1>14. \A i \in 1..N : at[i] + 1 <= Len(u)
  BY <1>2, <1>7, <1>8, <1>9, <1>12 DEF Greater
<1>15. PICK c : c = Lengthened(t, at)
  OBVIOUS
<1>16. c = Start(u, 0, "INLINE", NoCache)
  BY <1>3, <1>6, <1>7, <1>9, <1>10, <1>15 DEF Lengthened
<1>17. c \in State /\ c.ms = u /\ ~c.raised
  BY <1>12, <1>16, NoCacheOff DEF Start, State, Strategies
<1>18. PICK Good : Good = [n \in 0..N |-> {d \in State : Putting(d, t, xs, at, n)}]
  OBVIOUS
<1>19. c \in Good[0]
  <2>1. 1..0 = {} /\ {xs[j] : j \in 1..0} = {}
    OBVIOUS
  <2>2. Putting(c, t, xs, at, 0)
    BY <1>1, <1>12, <1>13, <1>14, <1>17, <2>1 DEF Putting
  <2>. QED
    BY <1>17, <1>18, <2>2
<1>20. ASSUME NEW n \in 1..N, NEW d \in Good[n - 1] PROVE Put(d, at[n] + 1, xs[n]) \in Good[n]
  <2>1. PICK i \in Nat : i = n - 1
    OBVIOUS
  <2>2. i + 1 = n /\ i \in 0..N /\ n \in 0..N /\ i + 1 \in 1..Len(xs)
    BY <1>1, <2>1
  <2>3. Putting(d, t, xs, at, i)
    BY <1>18, <2>1, <2>2
  <2>4. Putting(Put(d, at[i + 1] + 1, xs[i + 1]), t, xs, at, i + 1)
    BY <2>2, <2>3, PuttingStep
  <2>5. Put(d, at[n] + 1, xs[n]) \in State
    BY <2>2, <2>4 DEF Putting
  <2>. QED
    BY <1>18, <2>2, <2>4, <2>5
<1>21. InsertOperations(t, xs, at) \in Good[N]
  BY <1>1, <1>15, <1>19, <1>20, OperationsLoop
<1>. QED
  BY <1>1, <1>18, <1>21

\* What insert_at_frontier() promises of its result r.
AtFrontier(r, ms, xs, k) ==
    /\ Circ(r.ms) /\ ~r.raised /\ KeepsOld(ms, r.ms)
    /\ \A x \in OpsIn(ms), y \in ToSet(xs) : OnOneQubit(x, y) =>
          (At(ms, x) <= k <=> At(r.ms, x) < At(r.ms, y))
    /\ \A i, j \in DOMAIN xs : i < j /\ OnOneQubit(xs[i], xs[j]) =>
          At(r.ms, xs[i]) < At(r.ms, xs[j])

\* It keeps its promises.
LEMMA FrontierFacts ==
    ASSUME NEW ms, Circ(ms), NEW xs \in Seq(Ops), xs # <<>>, \A i, j \in DOMAIN xs : i # j => xs[i] # xs[j],
           \A i \in DOMAIN xs : xs[i] \notin OpsIn(ms), NEW k \in 0..Len(ms),
           NEW r, r = InsertAtFrontier(ms, xs, k, [b \in Qubits |-> 0])
    PROVE  AtFrontier(r, ms, xs, k)
<1>1. PICK N \in Nat : N = Len(xs)
  OBVIOUS
<1>2. k \in Nat /\ DOMAIN xs = 1..N /\ \A i \in 1..N : xs[i] \in Ops /\ QubitsOf[xs[i]] \subseteq Qubits
  BY <1>1, PlacementAssumption
<1>3. PICK D : D = UNION {QubitsOf[x] : x \in ToSet(xs)}
  OBVIOUS
<1>4. ToSet(xs) = {xs[i] : i \in 1..N}
  BY <1>2 DEF ToSet
<1>5. D \in SUBSET Qubits /\ \A i \in 1..N : QubitsOf[xs[i]] \subseteq D
  BY <1>2, <1>3, <1>4
<1>6. PICK late : late = [b \in D |-> NextOn(ms, b, k)]
  OBVIOUS
<1>7. PICK p : p = PickIndices(xs, k, [b \in Qubits |-> 0])
  OBVIOUS
<1>8. Picking(p, xs, k, N)
  BY <1>1, <1>2, <1>7, PickedFacts
<1>9. PICK at, early : at = p.at /\ early = p.frontier
  OBVIOUS
<1>10. /\ at \in Seq(Nat) /\ Len(at) = N /\ early \in [Qubits -> Nat]
       /\ \A i \in 1..N : at[i] >= k /\ at[i] <= k + N /\ \A b \in QubitsOf[xs[i]] : at[i] < early[b]
       /\ \A b \in Qubits : early[b] <= k + N
       /\ \A i, j \in 1..N : i < j /\ OnOneQubit(xs[i], xs[j]) => at[i] < at[j]
  BY <1>8, <1>9 DEF Picking
<1>11. \A i \in 1..N : at[i] \in Nat
  BY <1>10
<1>12. PICK B \in Nat : B = k + N
  BY <1>2
<1>13. PICK t : t = PushFrontier(ms, early, late).ms
  OBVIOUS
<1>14. Roomy(ms, t, k, early, D)
  <2>1. \A b \in Qubits : early[b] <= B
    BY <1>10, <1>12
  <2>. QED
    BY <1>5, <1>6, <1>10, <1>13, <2>1, RoomFacts
<1>15. /\ Circ(t) /\ OpsIn(t) = OpsIn(ms) /\ KeepsOld(ms, t)
       /\ \A x \in OpsIn(ms) : At(ms, x) <= k => At(t, x) = At(ms, x)
       /\ \A x \in OpsIn(ms) : \A b \in QubitsOf[x] \cap D : At(ms, x) > k => At(t, x) > early[b]
  BY <1>14 DEF Roomy
<1>16. \A x \in OpsIn(ms) : At(ms, x) \in Nat /\ At(t, x) \in Nat
  BY <1>15, AtFacts
<1>17. ASSUME NEW x \in OpsIn(ms), NEW i \in 1..N, OnOneQubit(x, xs[i])
       PROVE  At(ms, x) <= k <=> At(t, x) < at[i] + 1
  <2>1. CASE At(ms, x) <= k
    BY <1>2, <1>10, <1>11, <1>15, <1>16, <2>1
  <2>2. CASE ~(At(ms, x) <= k)
    <3>1. PICK b \in QubitsOf[x] : b \in QubitsOf[xs[i]]
      BY <1>17 DEF OnOneQubit
    <3>2. b \in D /\ b \in Qubits /\ early[b] \in Nat /\ at[i] < early[b]
      BY <1>2, <1>5, <1>10, <3>1
    <3>3. At(ms, x) > k
      BY <1>2, <1>16, <2>2
    <3>4. At(t, x) > early[b]
      BY <1>15, <3>1, <3>2, <3>3
    <3>. QED
      BY <1>11, <1>16, <2>2, <3>2, <3>4
  <2>. QED
    BY <2>1, <2>2
<1>18. Free(t, xs, at)
  <2>1. ASSUME NEW y \in OpsIn(t), NEW i \in 1..N, OnOneQubit(y, xs[i]) PROVE At(t, y) # at[i] + 1
    <3>1. y \in OpsIn(ms)
      BY <1>15
    <3>2. CASE At(ms, y) <= k
      <4>1. At(t, y) < at[i] + 1 /\ At(t, y) \in Nat
        BY <1>16, <1>17, <2>1, <3>1, <3>2
      <4>. QED
        BY <1>11, <4>1
    <3>3. CASE ~(At(ms, y) <= k)
      <4>1. PICK b \in QubitsOf[y] : b \in QubitsOf[xs[i]]
        BY <2>1 DEF OnOneQubit
      <4>2. b \in D /\ b \in Qubits /\ early[b] \in Nat /\ at[i] < early[b]
        BY <1>2, <1>5, <1>10, <4>1
      <4>3. At(ms, y) > k
        BY <1>2, <1>16, <3>1, <3>3
      <4>4. At(t, y) > early[b]
        BY <1>15, <3>1, <4>1, <4>2, <4>3
      <4>. QED
        BY <1>11, <1>16, <3>1, <4>2, <4>4
    <3>. QED
      BY <3>2, <3>3
  <2>. QED
    BY <1>1, <1>10, <2>1 DEF Free
<1>19. PICK c : c = InsertOperations(t, xs, at)
  OBVIOUS
<1>20. Putting(c, t, xs, at, N)
  <2>1. \A i \in 1..Len(xs) : at[i] <= B
    BY <1>1, <1>10, <1>12
  <2>2. \A i \in DOMAIN xs : xs[i] \notin OpsIn(t)
    BY <1>15
  <2>. QED
    BY <1>1, <1>15, <1>18, <1>19, <2>1, <2>2, PutAllFacts
<1>21. /\ ~c.raised /\ Circ(c.ms)
       /\ \A x \in OpsIn(ms) : At(c.ms, x) = At(t, x)
       /\ \A j \in 1..N : At(c.ms, xs[j]) = at[j] + 1
  BY <1>15, <1>20 DEF Putting
<1>22. r.ms = c.ms /\ r.raised = c.raised
  BY <1>3, <1>6, <1>7, <1>9, <1>13, <1>19 DEF InsertAtFrontier
<1>23. KeepsOld(ms, c.ms)
  BY <1>15, <1>21 DEF KeepsOld
<1>24. ASSUME NEW x \in OpsIn(ms), NEW y \in ToSet(xs), OnOneQubit(x, y)
       PROVE  At(ms, x) <= k <=> At(c.ms, x) < At(c.ms, y)
  <2>1. PICK i \in 1..N : y = xs[i]
    BY <1>4
  <2>2. At(ms, x) <= k <=> At(t, x) < at[i] + 1
    BY <1>17, <1>24, <2>1
  <2>. QED
    BY <1>21, <2>1, <2>2
<1>25. ASSUME NEW i \in 1..N, NEW j \in 1..N, i < j, OnOneQubit(xs[i], xs[j])
       PROVE  At(c.ms, xs[i]) < At(c.ms, xs[j])
  <2>1. at[i] < at[j] /\ at[i] \in Nat /\ at[j] \in Nat
    BY <1>10, <1>11, <1>25
  <2>. QED
    BY <1>21, <2>1
<1>. QED
  BY <1>2, <1>21, <1>22, <1>23, <1>24, <1>25 DEF AtFrontier

----------------------------------------------------------------------------
(* The invariant *)

\* An edit that makes a circuit, with a cache that describes it or none, keeps the invariant.
LEMMA ChangedInv ==
    ASSUME NEW ms, Circ(ms), NEW c, Exact(ms, c), c.on \/ c = NoCache, Changed(ms, c)
    PROVE  CircuitInv'
<1>1. moments' = ms /\ cache' = c /\ memo' = <<>>
  BY DEF Changed
<1>2. Circ(moments') /\ Exact(moments', cache') /\ (cache'.on \/ cache' = NoCache) /\ memo' = <<>>
  BY <1>1
<1>. QED
  BY <1>2 DEF CircuitInv, Exact, Plain!CacheType, Plain!IsLast

\* So does an edit that makes a circuit and drops the cache.
LEMMA DroppedInv ==
    ASSUME NEW ms, Circ(ms), Changed(ms, NoCache)
    PROVE  CircuitInv'
<1>1. Exact(ms, NoCache)
  BY NoCacheExact
<1>. QED
  BY <1>1, ChangedInv

\* What is absent is new.
LEMMA AbsentFacts ==
    ASSUME NEW x \in Absent
    PROVE  x \in Ops /\ x \notin OpsIn(moments)
  BY DEF Absent

\* The constructor.
LEMMA NewCircuitInv ==
    ASSUME NEW es \in Inputs, Proper(es), NewCircuit(es)
    PROVE  CircuitInv'
<1>1. Given(es, moments)
  BY InputsGiven
<1>2. Given(es, <<>>)
  BY <1>1, EmptyExact DEF Given
<1>3. CASE es = <<>>
  <2>1. Changed(<<>>, EmptyCache)
    BY <1>3 DEF NewCircuit
  <2>. QED
    BY <2>1, EmptyExact, ChangedInv
<1>4. CASE es # <<>>
  <2>1. PICK c : c = Load(es)
    OBVIOUS
  <2>2. Changed(c.ms, c.cache)
    BY <1>4, <2>1 DEF NewCircuit
  <2>3. PICK g : CachedRun(g, <<>>, EmptyCache, es)
    BY <1>2, EmptyExact, AppendCached
  <2>4. PICK N \in Nat : N = Len(es)
    BY <1>2 DEF Given
  <2>5. Caching(g[N], <<>>, es, N)
    BY <2>3, <2>4 DEF CachedRun
  <2>6. g[N].cache.on /\ Exact(g[N].ms, g[N].cache) /\ Circ(g[N].ms)
    BY <2>5 DEF Caching, Ordered
  <2>7. c.ms = g[N].ms /\ (c.cache = NoCache \/ c.cache = g[N].cache)
    BY <1>2, <2>1, <2>3, <2>4, LoadFacts
  <2>8. Circ(c.ms) /\ Exact(c.ms, c.cache) /\ (c.cache.on \/ c.cache = NoCache)
    BY <2>6, <2>7, NoCacheExact
  <2>. QED
    BY <2>2, <2>8, ChangedInv
<1>. QED
  BY <1>3, <1>4

\* What a call of insert() gives.
LEMMA CallFacts ==
    ASSUME CircuitInv, NEW es \in Inputs, Proper(es), NEW k \in 0..Len(moments), NEW s \in Strategies,
           NEW r, r = Insert(moments, cache, k, es, s)
    PROVE  Inserted(r, moments, k, es, s)
<1>1. Circ(moments) /\ Exact(moments, cache) /\ (cache.on \/ cache = NoCache)
  BY DEF CircuitInv
<1>2. Given(es, moments)
  BY InputsGiven
<1>. QED
  BY <1>1, <1>2, InsertFacts

\* insert() and append().
LEMMA InsertAnyInv ==
    ASSUME CircuitInv, NEW es \in Inputs, Proper(es), NEW i \in Int, NEW s \in Strategies, InsertAny(i, es, s)
    PROVE  CircuitInv'
<1>1. PICK k : k = InsertIndex(i, Len(moments))
  OBVIOUS
<1>2. k \in 0..Len(moments)
  <2>1. Len(moments) \in Nat
    BY AtFacts DEF CircuitInv
  <2>. QED
    BY <1>1, <2>1, IndexInRange
<1>3. PICK r : r = Insert(moments, cache, k, es, s)
  OBVIOUS
<1>4. Inserted(r, moments, k, es, s)
  BY <1>2, <1>3, CallFacts
<1>5. /\ Circ(r.ms) /\ Exact(r.ms, r.cache) /\ (r.cache.on \/ r.cache = NoCache)
      /\ s = "LATEST" /\ r.top = 0 => r.ms = moments
  BY <1>4 DEF Inserted, Ordered
<1>6. /\ Len(r.ms) <= MaxMoments /\ moments' = r.ms /\ cache' = r.cache
      /\ memo' = IF s = "LATEST" /\ r.top = 0 THEN memo ELSE <<>>
  BY <1>1, <1>3 DEF InsertAny
<1>7. memo' = <<>> \/ memo' = <<moments'>>
  BY <1>5, <1>6 DEF CircuitInv
<1>8. Circ(moments') /\ Exact(moments', cache') /\ (cache'.on \/ cache' = NoCache)
  BY <1>5, <1>6
<1>. QED
  BY <1>7, <1>8 DEF CircuitInv, Exact, Plain!CacheType, Plain!IsLast

\* insert_into_range().
LEMMA InsertRangeInv ==
    ASSUME CircuitInv, NEW xs \in OpSeqs(MaxInsert), NEW end \in 0..Len(moments), NEW start \in 0..end,
           InsertRange(xs, start, end)
    PROVE  CircuitInv'
<1>1. /\ xs \in Seq(Ops) /\ \A i, j \in DOMAIN xs : i # j => xs[i] # xs[j]
      /\ \A i \in DOMAIN xs : xs[i] \notin OpsIn(moments)
  BY EditAssumption, OpSeqsFacts
<1>2. Circ(moments)
  BY DEF CircuitInv
<1>3. Circ(InsertIntoRange(moments, xs, start, end).ms)
  BY <1>1, <1>2, RangeFacts
<1>4. Changed(InsertIntoRange(moments, xs, start, end).ms, NoCache)
  BY DEF InsertRange
<1>. QED
  BY <1>3, <1>4, DroppedInv

\* insert_at_frontier() finds room for everything.
LEMMA FrontierCallFacts ==
    ASSUME CircuitInv, NEW xs \in OpSeqs(MaxInsert), xs # <<>>, NEW k \in 0..Len(moments),
           NEW r, r = InsertAtFrontier(moments, xs, k, [b \in Qubits |-> 0])
    PROVE  AtFrontier(r, moments, xs, k)
<1>1. /\ xs \in Seq(Ops) /\ \A i, j \in DOMAIN xs : i # j => xs[i] # xs[j]
      /\ \A i \in DOMAIN xs : xs[i] \notin OpsIn(moments)
  BY EditAssumption, OpSeqsFacts
<1>2. Circ(moments)
  BY DEF CircuitInv
<1>. QED
  BY <1>1, <1>2, FrontierFacts

\* insert_at_frontier() as an edit.
LEMMA InsertFrontierInv ==
    ASSUME CircuitInv, NEW xs \in OpSeqs(MaxInsert), xs # <<>>, NEW k \in 0..Len(moments), InsertFrontier(xs, k)
    PROVE  CircuitInv'
<1>1. PICK r : r = InsertAtFrontier(moments, xs, k, [b \in Qubits |-> 0])
  OBVIOUS
<1>2. Circ(r.ms)
  BY <1>1, FrontierCallFacts DEF AtFrontier
<1>3. Changed(r.ms, NoCache)
  BY <1>1 DEF InsertFrontier
<1>. QED
  BY <1>2, <1>3, DroppedInv

\* batch_insert().
LEMMA InsertBatchesInv ==
    ASSUME CircuitInv, NEW x \in Absent, NEW y \in Absent, x # y, NEW i \in Int, NEW j \in Int,
           InsertBatches(i, <<Op(x)>>, j, <<Op(y)>>)
    PROVE  CircuitInv'
<1>1. PICK zs, ins : zs = <<x, y>> /\ ins = <<[at |-> i, es |-> <<Op(x)>>], [at |-> j, es |-> <<Op(y)>>]>>
  OBVIOUS
<1>2. x \in Ops /\ x \notin OpsIn(moments) /\ y \in Ops /\ y \notin OpsIn(moments)
  BY AbsentFacts
<1>3. zs \in Seq(Ops) /\ Len(zs) = 2 /\ DOMAIN zs = 1..2 /\ zs[1] = x /\ zs[2] = y
  BY <1>1, <1>2
<1>4. \A n \in 1..2 : n = 1 \/ n = 2
  OBVIOUS
<1>5. (\A n, m \in DOMAIN zs : n # m => zs[n] # zs[m]) /\ \A n \in DOMAIN zs : zs[n] \notin OpsIn(moments)
  BY <1>2, <1>3, <1>4
<1>6. Len(ins) = 2 /\ ins[1].at = i /\ ins[1].es = <<Op(x)>> /\ ins[2].at = j /\ ins[2].es = <<Op(y)>>
  BY <1>1
<1>7. Len(ins) = Len(zs) /\ \A n \in 1..Len(zs) : ins[n].at \in Int /\ ins[n].es = <<Op(zs[n])>>
  BY <1>3, <1>4, <1>6
<1>8. Circ(BatchInsert(moments, ins).ms)
  BY <1>3, <1>5, <1>7, ShiftedFacts DEF CircuitInv
<1>9. Changed(BatchInsert(moments, ins).ms, NoCache)
  BY <1>1 DEF InsertBatches
<1>. QED
  BY <1>8, <1>9, DroppedInv

\* __setitem__() and __delitem__().
LEMMA ItemInv ==
    ASSUME CircuitInv, NEW n \in DOMAIN moments, NEW m, DelItem(n) \/ (m \in Wholes /\ SetItem(n, m))
    PROVE  CircuitInv'
<1>1. Circ(moments)
  BY DEF CircuitInv
<1>2. CASE DelItem(n)
  <2>1. Circ(RemoveAt(moments, n))
    BY <1>1, RemovedCirc
  <2>. QED
    BY <1>2, <2>1, DroppedInv DEF DelItem
<1>3. CASE m \in Wholes /\ SetItem(n, m)
  <2>1. m \in Moments /\ \A x \in m : x \notin OpsIn(moments)
    BY <1>3 DEF Wholes, Absent
  <2>2. Circ([moments EXCEPT ![n] = m])
    BY <1>1, <2>1, ReplacedCirc
  <2>. QED
    BY <1>3, <2>2, DroppedInv DEF SetItem
<1>. QED
  BY <1>2, <1>3

\* clear_operations_touching().
LEMMA ClearTouchingInv ==
    ASSUME CircuitInv, NEW qs, NEW ns, ClearTouching(qs, ns)
    PROVE  CircuitInv'
<1>1. PICK t : t = [n \in DOMAIN moments |->
                      IF n \in ns THEN {x \in moments[n] : QubitsOf[x] \cap qs = {}} ELSE moments[n]]
  OBVIOUS
<1>2. DOMAIN t = DOMAIN moments /\ t = [n \in DOMAIN moments |-> t[n]]
  BY <1>1
<1>3. \A n \in DOMAIN moments : t[n] \subseteq moments[n]
  BY <1>1
<1>4. Circ(t)
  BY <1>2, <1>3, LessCirc DEF CircuitInv
<1>5. Changed(t, NoCache)
  BY <1>1 DEF ClearTouching
<1>. QED
  BY <1>4, <1>5, DroppedInv

\* batch_remove().
LEMMA BatchRemoveInv ==
    ASSUME CircuitInv, NEW n1 \in DOMAIN moments, NEW n2 \in DOMAIN moments, NEW x1, NEW x2,
           BatchRemove(n1, x1, n2, x2)
    PROVE  CircuitInv'
<1>1. PICK ms1 : ms1 = [moments EXCEPT ![n1] = @ \ {x1}]
  OBVIOUS
<1>2. PICK t : t = [ms1 EXCEPT ![n2] = @ \ {x2}]
  OBVIOUS
<1>3. Circ(moments) /\ moments \in Seq(Moments)
  BY DEF CircuitInv, Circ
<1>4. /\ DOMAIN ms1 = DOMAIN moments /\ DOMAIN t = DOMAIN moments
      /\ \A n \in DOMAIN moments : ms1[n] \subseteq moments[n] /\ t[n] \subseteq ms1[n]
  BY <1>1, <1>2, <1>3
<1>5. t = [n \in DOMAIN moments |-> t[n]]
  BY <1>2, <1>4
<1>6. \A n \in DOMAIN moments : t[n] \subseteq moments[n]
  BY <1>4
<1>7. Circ(t)
  BY <1>3, <1>4, <1>5, <1>6, LessCirc
<1>8. Changed(t, NoCache)
  BY <1>1, <1>2 DEF BatchRemove
<1>. QED
  BY <1>7, <1>8, DroppedInv

\* batch_replace().
LEMMA BatchReplaceInv ==
    ASSUME CircuitInv, NEW n \in DOMAIN moments, NEW old, NEW new \in Absent, BatchReplace(n, old, new)
    PROVE  CircuitInv'
<1>1. Circ(moments) /\ moments \in Seq(Moments) /\ moments[n] \in Moments
  BY DEF CircuitInv, Circ
<1>2. new \in Ops /\ new \notin OpsIn(moments)
  BY AbsentFacts
<1>3. PICK m0, m : m0 = moments[n] \ {old} /\ m = m0 \cup {new}
  OBVIOUS
<1>4. m0 \in Moments
  BY <1>1, <1>3 DEF Moments, IsMoment
<1>5. ~Overlaps(m0, new)
  BY <1>3 DEF BatchReplace
<1>6. m \in Moments
  BY <1>2, <1>3, <1>4, <1>5, MomentWith
<1>7. \A x \in m : x \in moments[n] \/ x \notin OpsIn(moments)
  BY <1>2, <1>3
<1>8. Circ([moments EXCEPT ![n] = m])
  BY <1>1, <1>6, <1>7, ReplacedCirc
<1>9. Changed([moments EXCEPT ![n] = m], NoCache)
  BY <1>1, <1>3 DEF BatchReplace
<1>. QED
  BY <1>8, <1>9, DroppedInv

\* batch_insert_into().
LEMMA BatchInsertIntoInv ==
    ASSUME CircuitInv, NEW n1 \in DOMAIN moments, NEW n2 \in DOMAIN moments, NEW x1 \in Absent, NEW x2 \in Absent, x1 # x2,
           BatchInsertInto(n1, x1, n2, x2)
    PROVE  CircuitInv'
<1>1. Circ(moments) /\ DOMAIN moments = 1..Len(moments) /\ Len(moments) \in Nat
  BY AtFacts DEF CircuitInv
<1>2. x1 \in Ops /\ x1 \notin OpsIn(moments) /\ x2 \in Ops /\ x2 \notin OpsIn(moments)
  BY AbsentFacts
<1>3. PICK ms1 : ms1 = [moments EXCEPT ![n1] = @ \cup {x1}]
  OBVIOUS
<1>4. PICK t : t = [ms1 EXCEPT ![n2] = @ \cup {x2}]
  OBVIOUS
<1>5. ~Overlaps(moments[n1], x1) /\ ~Overlaps(ms1[n2], x2) /\ Changed(t, NoCache)
  BY <1>3, <1>4 DEF BatchInsertInto
<1>6. Grown(moments, ms1, {x1}, n1, Len(moments)) /\ Len(ms1) = Len(moments)
  BY <1>1, <1>2, <1>3, <1>5, JoinGrows
<1>7. Circ(ms1) /\ x2 \notin OpsIn(ms1) /\ n2 \in 1..Len(ms1)
  BY <1>1, <1>2, <1>6 DEF Grown
<1>8. Grown(ms1, t, {x2}, n2, Len(ms1))
  BY <1>2, <1>4, <1>5, <1>7, JoinGrows
<1>9. Circ(t)
  BY <1>8 DEF Grown
<1>. QED
  BY <1>5, <1>9, DroppedInv

\* The empty circuit satisfies the invariant.
LEMMA CircuitInvInit == Init => CircuitInv
<1>. SUFFICES ASSUME Init PROVE CircuitInv
  OBVIOUS
<1>1. moments = <<>> /\ cache = EmptyCache /\ memo = <<>>
  BY DEF Init
<1>. QED
  BY <1>1, EmptyExact DEF CircuitInv

\* Every edit keeps it.
LEMMA CircuitInvNext == CircuitInv /\ [Next]_vars => CircuitInv'
<1>. SUFFICES ASSUME CircuitInv, [Next]_vars PROVE CircuitInv'
  OBVIOUS
<1>1. Circ(moments) /\ Exact(moments, cache) /\ (cache.on \/ cache = NoCache) /\ Len(moments) \in Nat
  BY AtFacts DEF CircuitInv
<1>2. CASE ComputeMemo \/ UNCHANGED vars
  <2>1. moments' = moments /\ cache' = cache /\ (memo' = memo \/ memo' = <<moments>>)
    BY <1>2 DEF ComputeMemo, vars
  <2>2. Circ(moments') /\ Exact(moments', cache') /\ (cache'.on \/ cache' = NoCache)
    BY <1>1, <2>1
  <2>3. memo' = <<>> \/ memo' = <<moments'>>
    BY <2>1 DEF CircuitInv
  <2>. QED
    BY <2>2, <2>3 DEF CircuitInv, Exact, Plain!CacheType, Plain!IsLast
<1>3. CASE \E es \in Inputs : Proper(es) /\ NewCircuit(es)
  BY <1>3, NewCircuitInv
<1>4. CASE \E es \in Inputs, i \in -2 .. MaxMoments + 1, s \in Strategies : Proper(es) /\ InsertAny(i, es, s)
  <2>1. PICK es \in Inputs, i \in -2 .. MaxMoments + 1, s \in Strategies : Proper(es) /\ InsertAny(i, es, s)
    BY <1>4
  <2>2. i \in Int
    BY EditAssumption
  <2>. QED
    BY <2>1, <2>2, InsertAnyInv
<1>5. CASE \E xs \in OpSeqs(MaxInsert), end \in 0 .. Len(moments) : \E start \in 0 .. end :
              xs # <<>> /\ (InsertRange(xs, start, end) \/ InsertFrontier(xs, end))
  BY <1>5, InsertRangeInv, InsertFrontierInv
<1>6. CASE \E x, y \in Absent, i, j \in 0 .. Len(moments) :
              x # y /\ i < j /\ InsertBatches(i, <<Op(x)>>, j, <<Op(y)>>)
  <2>1. PICK x \in Absent, y \in Absent, i \in 0 .. Len(moments), j \in 0 .. Len(moments) :
           x # y /\ InsertBatches(i, <<Op(x)>>, j, <<Op(y)>>)
    BY <1>6
  <2>2. i \in Int /\ j \in Int
    BY <1>1
  <2>. QED
    BY <2>1, <2>2, InsertBatchesInv
<1>7. CASE \E n \in DOMAIN moments :
              \/ DelItem(n)
              \/ \E m \in Wholes : SetItem(n, m)
              \/ \E b \in Qubits : ClearTouching({b}, {n})
              \/ \E old \in Ops, new \in Absent : BatchReplace(n, old, new)
  BY <1>7, ItemInv, ClearTouchingInv, BatchReplaceInv
<1>8. CASE \E n1, n2 \in DOMAIN moments, x1, x2 \in Ops :
              \/ BatchRemove(n1, x1, n2, x2)
              \/ {x1, x2} \subseteq Absent /\ x1 # x2 /\ BatchInsertInto(n1, x1, n2, x2)
  <2>1. PICK n1 \in DOMAIN moments, n2 \in DOMAIN moments, x1 \in Ops, x2 \in Ops :
              \/ BatchRemove(n1, x1, n2, x2)
              \/ {x1, x2} \subseteq Absent /\ x1 # x2 /\ BatchInsertInto(n1, x1, n2, x2)
    BY <1>8
  <2>2. CASE BatchRemove(n1, x1, n2, x2)
    BY <2>2, BatchRemoveInv
  <2>3. CASE {x1, x2} \subseteq Absent /\ x1 # x2 /\ BatchInsertInto(n1, x1, n2, x2)
    BY <2>3, BatchInsertIntoInv
  <2>. QED
    BY <2>1, <2>2, <2>3
<1>9. CASE Copy
  <2>1. moments' = moments /\ cache' = NoCache /\ memo' = <<>>
    BY <1>9 DEF Copy
  <2>2. Circ(moments') /\ Exact(moments', cache') /\ (cache'.on \/ cache' = NoCache)
    BY <1>1, <2>1, NoCacheExact
  <2>. QED
    BY <2>1, <2>2 DEF CircuitInv, Exact, Plain!CacheType, Plain!IsLast
<1>. QED
  BY <1>2, <1>3, <1>4, <1>5, <1>6, <1>7, <1>8, <1>9 DEF Next

\* No sequence of edits breaks the invariant.
THEOREM CircuitStaysSound == Spec => []CircuitInv
  BY CircuitInvInit, CircuitInvNext, PTL DEF Spec

----------------------------------------------------------------------------
(* The properties *)

\* The invariant implies that the state is well-formed.
LEMMA SoundTyped == CircuitInv => TypeOK
<1>. SUFFICES ASSUME CircuitInv PROVE TypeOK
  OBVIOUS
<1>1. moments \in Seq(Moments) /\ \A i, j \in DOMAIN moments : i # j => moments[i] \cap moments[j] = {}
  BY DEF CircuitInv, Circ
<1>2. \A n \in DOMAIN moments : moments[n] \subseteq Ops /\ IsMoment(moments[n])
  BY <1>1 DEF Moments
<1>3. cache.on \in BOOLEAN
  BY DEF CircuitInv, Exact, Plain!CacheType
<1>4. Len(memo) <= 1
  <2>1. memo = <<>> \/ memo = <<moments>>
    BY DEF CircuitInv
  <2>2. CASE memo = <<>>
    BY <2>2
  <2>3. CASE memo = <<moments>>
    <3>1. PICK s : s = moments
      OBVIOUS
    <3>2. Len(<<s>>) = 1 /\ memo = <<s>>
      BY <2>3, <3>1
    <3>. QED
      BY <3>2
  <2>. QED
    BY <2>1, <2>2, <2>3
<1>. QED
  BY <1>1, <1>2, <1>3, <1>4 DEF TypeOK

\* After any sequence of edits no moment has two operations on a qubit, and no operation
\* is in the circuit twice.
THEOREM CircuitIsTyped == Spec => []TypeOK
  BY CircuitStaysSound, SoundTyped, PTL

\* The invariant implies that nothing remembered is stale.
LEMMA SoundFresh == CircuitInv => CachesAreFresh
<1>. SUFFICES ASSUME CircuitInv PROVE CachesAreFresh
  OBVIOUS
<1>1. MemoFresh
  BY DEF CircuitInv, MemoFresh
<1>2. Exact(moments, cache)
  BY DEF CircuitInv
<1>3. Plain!CacheExact
  <2>1. cache.on => /\ cache.len = Len(moments)
                    /\ \A b \in Qubits : Plain!IsLast(cache.q[b], Plain!WithQubit(b))
                    /\ \A b \in Keys : /\ Plain!IsLast(cache.m[b], Plain!WithMKey(b))
                                       /\ Plain!IsLast(cache.c[b], Plain!WithCKey(b))
    <3>1. \A m : /\ Plain!MomentQubits(m) = MomentQubits(m) /\ Plain!MomentMKeys(m) = MomentMKeys(m)
                 /\ Plain!MomentCKeys(m) = MomentCKeys(m)
      BY DEF MomentQubits, MomentMKeys, MomentCKeys, Plain!MomentQubits, Plain!MomentMKeys, Plain!MomentCKeys
    <3>2. \A b : /\ Plain!WithQubit(b) = With(moments, MomentQubits, b)
                 /\ Plain!WithMKey(b) = With(moments, MomentMKeys, b)
                 /\ Plain!WithCKey(b) = With(moments, MomentCKeys, b)
      BY <3>1 DEF Plain!WithQubit, Plain!WithMKey, Plain!WithCKey, With
    <3>. QED
      BY <1>2, <3>2 DEF Exact
  <2>. QED
    BY <2>1 DEF Plain!CacheExact
<1>. QED
  BY <1>1, <1>3 DEF CachesAreFresh

\* After any sequence of edits what the circuit computed lazily is about its moments, and a
\* placement cache in use has the last moment of every qubit and key: every edit runs
\* _mutated() or keeps the cache exact.
THEOREM CircuitForgetsStale == Spec => []CachesAreFresh
  BY CircuitStaysSound, SoundFresh, PTL

\* The operations of all elements.
LEMMA GivenOpsNew ==
    ASSUME NEW es, es \in Seq(Elements)
    PROVE  GivenOps(es) = New(es, 1..Len(es)) /\ DOMAIN es = 1..Len(es)
<1>1. DOMAIN es = 1..Len(es)
  OBVIOUS
<1>2. ToSet(es) = {es[i] : i \in 1..Len(es)}
  BY <1>1 DEF ToSet
<1>. QED
  BY <1>1, <1>2 DEF GivenOps, New

\* The invariant implies that insert() keeps the order.
LEMMA SoundInsert == CircuitInv => InsertKeepsOrder
<1>. SUFFICES ASSUME CircuitInv, NEW c \in Calls, NEW r, r = Result(c)
              PROVE  /\ ~r.raised
                     /\ OpsIn(r.ms) = OpsIn(moments) \cup GivenOps(c.es)
                     /\ \A n \in DOMAIN r.ms : IsMoment(r.ms[n])
                     /\ \A x \in GivenOps(c.es) : At(r.ms, x) <= r.k
                     /\ KeepsOld(moments, r.ms)
                     /\ FollowsEarlier(moments, c.k, GivenOps(c.es), r.ms)
                     /\ InGivenOrder(c.es, r.ms)
                     /\ c.s # "EARLIEST" => PrecedesLater(moments, c.k, GivenOps(c.es), r.ms)
  BY DEF InsertKeepsOrder
<1>1. PICK k, es, s : k = c.k /\ es = c.es /\ s = c.s
  OBVIOUS
<1>2. k \in 0..Len(moments) /\ es \in Inputs /\ Proper(es) /\ s \in Strategies
  BY <1>1 DEF Calls
<1>3. r = Insert(moments, cache, k, es, s)
  BY <1>1 DEF Result
<1>4. Inserted(r, moments, k, es, s)
  BY <1>2, <1>3, CallFacts
<1>5. Given(es, moments)
  BY <1>2, InputsGiven
<1>6. GivenOps(es) = New(es, 1..Len(es)) /\ DOMAIN es = 1..Len(es)
  BY <1>5, GivenOpsNew DEF Given
<1>7. PICK S : S = New(es, 1..Len(es))
  OBVIOUS
<1>8. /\ ~r.raised /\ Ordered(moments, k, es, 1..Len(es), r.ms)
      /\ \A x \in S : At(r.ms, x) <= r.k
      /\ s # "EARLIEST" => PrecedesLater(moments, k, S, r.ms)
  BY <1>4, <1>7 DEF Inserted
<1>9. /\ Circ(r.ms) /\ OpsIn(r.ms) = OpsIn(moments) \cup S /\ KeepsOld(moments, r.ms)
      /\ FollowsEarlier(moments, k, S, r.ms) /\ InGivenOrder(es, r.ms)
  BY <1>6, <1>7, <1>8 DEF Ordered, InGivenOrder
<1>10. \A n \in DOMAIN r.ms : IsMoment(r.ms[n])
  <2>1. r.ms \in Seq(Moments)
    BY <1>9 DEF Circ
  <2>. QED
    BY <2>1 DEF Moments
<1>. QED
  BY <1>1, <1>6, <1>7, <1>8, <1>9, <1>10

\* In every circuit that edits lead to, insert() with any strategy, index and input, with and
\* without the cache, meets no overlap, loses and repeats nothing, keeps the order of
\* what does not commute, and returns an index after all it inserted.
THEOREM InsertIsOrdered == Spec => []InsertKeepsOrder
  BY CircuitStaysSound, SoundInsert, PTL

\* Appending with the cache does what appending without it does.
LEMMA AppendingAgrees ==
    ASSUME NEW ms, Circ(ms), NEW ch, Exact(ms, ch), ch.on, NEW es, Given(es, ms), es # <<>>,
           NEW g, CachedRun(g, ms, ch, es)
    PROVE  /\ Insert(ms, NoCache, Len(ms), es, "EARLIEST").ms = g[Len(es)].ms
           /\ Insert(ms, NoCache, Len(ms), es, "EARLIEST").k = Greater(1, Len(g[Len(es)].ms))
<1>1. PICK N \in Nat : N = Len(es) /\ N # 0 /\ es \in Seq(Elements)
  BY DEF Given
<1>2. PICK G : G = [n \in 0..N |-> g[n].ms]
  OBVIOUS
<1>3. Appending(G, ms, es)
  BY <1>1, <1>2, CachedAppending
<1>4. PICK p : p = Insert(ms, NoCache, Len(ms), es, "EARLIEST")
  OBVIOUS
<1>5. p.ms = G[N] /\ p.k = Len(G[N])
  BY <1>1, <1>3, <1>4, PlainAgrees
<1>6. N \in 0..N /\ N \in 1..N
  BY <1>1
<1>7. G[N] = g[N].ms
  BY <1>2, <1>6
<1>8. Caching(g[N], ms, es, N)
  BY <1>1, <1>6 DEF CachedRun
<1>9. Len(G[N]) \in Nat /\ Len(G[N]) >= 1
  <2>1. PICK i \in Nat : i = N - 1 /\ i \in 0..N /\ N \in 1..Len(es) /\ N \notin 1..i /\ 1..i \in SUBSET (1..Len(es))
    BY <1>1
  <2>2. PICK t : t = G[i]
    OBVIOUS
  <2>3. G[N] = Appended(t, es[N]) /\ Ordered(ms, Len(ms), es, 1..i, t)
    BY <1>1, <1>3, <1>6, <2>1, <2>2 DEF Appending
  <2>4. Circ(t) /\ OpsIn(t) = OpsIn(ms) \cup New(es, 1..i)
    BY <2>3 DEF Ordered
  <2>5. es[N] \in Elements /\ OpsOf(es[N]) \cap OpsIn(t) = {}
    BY <2>1, <2>4, NewAbsent
  <2>6. PICK m : m = Spot(t, es[N])
    OBVIOUS
  <2>7. m \in 1..(Len(t) + 1) /\ m \in Nat /\ Len(Appended(t, es[N])) = Greater(m, Len(t))
    BY <2>4, <2>5, <2>6, AppendedFacts
  <2>8. Len(t) \in Nat
    BY <2>4, AtFacts
  <2>. QED
    BY <2>3, <2>7, <2>8 DEF Greater
<1>10. Greater(1, Len(G[N])) = Len(G[N])
  BY <1>9 DEF Greater
<1>. QED
  BY <1>1, <1>4, <1>5, <1>7, <1>10

\* The call that appends with the cache.
LEMMA AppendCall ==
    ASSUME NEW ms, Circ(ms), NEW ch, Exact(ms, ch), ch.on, NEW es, Given(es, ms)
    PROVE  \E g : /\ CachedRun(g, ms, ch, es)
                  /\ Insert(ms, ch, Len(ms), es, "EARLIEST") = Finished(g[Len(es)])
<1>1. PICK g : /\ CachedRun(g, ms, ch, es)
               /\ InsertAll(Start(ms, Len(ms), "EARLIEST", ch), <<es>>) = Finished(g[Len(es)])
  BY AppendCached
<1>2. KeptCache(ms, ch, Len(ms), "EARLIEST") = ch
  BY DEF KeptCache
<1>3. PICK c : c = Start(ms, Len(ms), "EARLIEST", ch)
  OBVIOUS
<1>4. c.cache = ch
  BY <1>3 DEF Start
<1>5. Insert(ms, ch, Len(ms), es, "EARLIEST") = InsertAll(c, <<es>>)
  BY <1>2, <1>3, <1>4 DEF Insert
<1>. QED
  BY <1>1, <1>3, <1>5

\* With the cache the result is the one without it.
LEMMA AppendsSame ==
    ASSUME NEW ms, Circ(ms), NEW ch, Exact(ms, ch), ch.on, NEW es, Given(es, ms), es # <<>>,
           NEW r, r = Insert(ms, ch, Len(ms), es, "EARLIEST"),
           NEW p, p = Insert(ms, NoCache, Len(ms), es, "EARLIEST")
    PROVE  r.ms = p.ms /\ r.k = p.k
<1>1. PICK g : CachedRun(g, ms, ch, es) /\ r = Finished(g[Len(es)])
  BY AppendCall
<1>2. PICK N \in Nat : N = Len(es)
  BY DEF Given
<1>3. Caching(g[N], ms, es, N)
  BY <1>1, <1>2 DEF CachedRun
<1>4. Returned(r, g[N], ms, es, N)
  BY <1>1, <1>2, <1>3, CachedResult
<1>5. r.ms = g[N].ms /\ r.k = Greater(1, Len(r.ms))
  BY <1>4 DEF Returned
<1>6. p.ms = g[N].ms /\ p.k = Greater(1, Len(g[N].ms))
  BY <1>1, <1>2, AppendingAgrees
<1>. QED
  BY <1>5, <1>6

\* The constructor builds what appending to an empty circuit builds, without the cache.
LEMMA LoadsSame ==
    ASSUME NEW es, Given(es, <<>>), es # <<>>
    PROVE  Load(es).ms = Insert(<<>>, NoCache, 0, es, "EARLIEST").ms
<1>1. Circ(<<>>) /\ Exact(<<>>, EmptyCache) /\ EmptyCache.on /\ Len(<<>>) = 0
  BY EmptyExact
<1>2. PICK g : CachedRun(g, <<>>, EmptyCache, es)
  BY <1>1, AppendCall
<1>3. Insert(<<>>, NoCache, Len(<<>>), es, "EARLIEST").ms = g[Len(es)].ms
  BY <1>1, <1>2, AppendingAgrees
<1>4. Load(es).ms = g[Len(es)].ms
  BY <1>2, LoadFacts
<1>. QED
  BY <1>1, <1>3, <1>4

\* The invariant implies that the ways to build a circuit agree.
LEMMA SoundAppends == CircuitInv => AppendsAgree
<1>. SUFFICES ASSUME CircuitInv, NEW es \in Inputs, es # <<>>, Proper(es),
                     NEW r, r = Insert(moments, cache, Len(moments), es, "EARLIEST"),
                     NEW p, p = Insert(moments, NoCache, Len(moments), es, "EARLIEST")
              PROVE  /\ r.ms = p.ms /\ r.k = p.k
                     /\ Load(es).ms = Insert(<<>>, NoCache, 0, es, "EARLIEST").ms
  BY DEF AppendsAgree
<1>1. Circ(moments) /\ Exact(moments, cache) /\ (cache.on \/ cache = NoCache)
  BY DEF CircuitInv
<1>2. Given(es, moments)
  BY InputsGiven
<1>3. Given(es, <<>>)
  BY <1>2, EmptyExact DEF Given
<1>4. Load(es).ms = Insert(<<>>, NoCache, 0, es, "EARLIEST").ms
  BY <1>3, LoadsSame
<1>5. CASE cache.on
  BY <1>1, <1>2, <1>4, <1>5, AppendsSame
<1>6. CASE cache = NoCache
  BY <1>4, <1>6
<1>. QED
  BY <1>1, <1>5, <1>6

\* In every circuit that edits lead to, appending with the cache in one batch does what
\* appending without it does batch by batch, and the constructor's fast loading does what
\* appending to an empty circuit does.
THEOREM AppendsAlwaysAgree == Spec => []AppendsAgree
  BY CircuitStaysSound, SoundAppends, PTL

\* The invariant implies that insert_at_frontier() keeps the order.
LEMMA SoundFrontier == CircuitInv => FrontierKeepsOrder
<1>. SUFFICES ASSUME CircuitInv, NEW xs \in OpSeqs(MaxInsert) \ {<<>>}, NEW k \in 0 .. Len(moments),
                     NEW r, r = InsertAtFrontier(moments, xs, k, [b \in Qubits |-> 0])
              PROVE  /\ ~r.raised
                     /\ KeepsOld(moments, r.ms)
                     /\ \A x \in OpsIn(moments), y \in ToSet(xs) : QubitsOf[x] \cap QubitsOf[y] # {} =>
                           (At(moments, x) <= k <=> At(r.ms, x) < At(r.ms, y))
                     /\ \A i, j \in DOMAIN xs : i < j /\ QubitsOf[xs[i]] \cap QubitsOf[xs[j]] # {} =>
                           At(r.ms, xs[i]) < At(r.ms, xs[j])
  BY DEF FrontierKeepsOrder
<1>1. xs \in OpSeqs(MaxInsert) /\ xs # <<>>
  OBVIOUS
<1>2. AtFrontier(r, moments, xs, k)
  BY <1>1, FrontierCallFacts
<1>. QED
  BY <1>2 DEF AtFrontier, OnOneQubit

\* In every circuit that edits lead to, insert_at_frontier() with a new frontier finds room for
\* everything: on every qubit what it inserts is after what was before start and before
\* what was after it, in the given order.
THEOREM FrontierIsOrdered == Spec => []FrontierKeepsOrder
  BY CircuitStaysSound, SoundFrontier, PTL
=============================================================================
