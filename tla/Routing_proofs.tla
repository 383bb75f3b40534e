----------------------------- MODULE Routing_proofs -----------------------------
(***************************************************************************)
(* Proofs about routing, for every device, circuit and lookahead: the two  *)
(* maps stay inverse to each other, the routed circuit stays on the edges  *)
(* of the device, the line mapper places all qubits without a gap, and the *)
(* exceptions of the router have the causes they should have.              *)
(*                                                                         *)
(*  - RouteInv is inductive.  Its heart is Swappable: the swaps still to   *)
(*    be applied are disjoint edges, or follow one path, so each of them   *)
(*    is between neighbours when its turn comes.                           *)
(*  - ReachInv adds that placed qubits reach each other through placed     *)
(*    qubits; so a waiting operation always has a candidate swap, and the  *)
(*    search for the best one fails only where no two are disjoint         *)
(*    (IndexInv).                                                          *)
(*                                                                         *)
(* Loops are recursive functions over their turns: LoopExists gives such a *)
(* function, and TurnInduction what every turn keeps.                      *)
(***************************************************************************)
EXTENDS RouteCQC, TLAPS, FiniteSetTheorems, NaturalsInduction, WellFoundedInduction

-----------------------------------------------------------------------------
(* Loops *)

\* A set of naturals that is not empty has a least element.
LEMMA LeastElement ==
    ASSUME NEW S \in SUBSET Nat, S # {}
    PROVE  \E m \in S : \A y \in S : m <= y
<1>. DEFINE R == OpToRel(<, Nat)
<1>1. PICK m \in S : \A y \in S : <<y, m>> \notin R
  BY NatLessThanWellFounded, WFMin
<1>2. \A y \in S : ~(y < m)
  BY <1>1 DEF OpToRel
<1>. QED
  BY <1>2

\* What holds before the first turn and is kept by every turn holds throughout.
LEMMA TurnInduction ==
    ASSUME NEW N \in Nat, NEW Good, 0 \in Good, \A n \in 1..N : n - 1 \in Good => n \in Good
    PROVE  0..N \subseteq Good
<1>. DEFINE Bad == {n \in 0..N : n \notin Good}
<1>. SUFFICES ASSUME Bad # {} PROVE FALSE
  OBVIOUS
<1>. Bad \in SUBSET Nat
  OBVIOUS
<1>1. PICK m \in Bad : \A y \in Bad : m <= y
  BY LeastElement
<1>2. m \in 0..N /\ m \notin Good /\ m # 0 /\ m - 1 \in 0..N /\ ~(m <= m - 1) /\ m \in 1..N
  BY <1>1
<1>3. m - 1 \in Good
  BY <1>1, <1>2
<1>. QED
  BY <1>2, <1>3

\* g[n] is the state after turn n of a loop with the body F.
IsLoop(g, X, x0, N, F) ==
    g \in [0..N -> X] /\ g[0] = x0 /\ \A n \in 1..N : g[n] = F[n][g[n - 1]]

\* A loop over turns 1..N whose body is F has a state after every turn.
LEMMA LoopExists ==
    ASSUME NEW X, NEW x0 \in X, NEW N \in Nat, NEW F \in [1..N -> [X -> X]]
    PROVE  \E g : IsLoop(g, X, x0, N, F)
<1>. DEFINE Runs(g, n) == /\ g \in [0..n -> X] /\ g[0] = x0
                          /\ \A k \in 1..n : g[k] = F[k][g[k - 1]]
            Good == {n \in 0..N : \E g : Runs(g, n)}
<1>1. 0 \in Good
  <2>1. Runs([k \in 0..0 |-> x0], 0)
    OBVIOUS
  <2>2. 0 \in 0..N
    OBVIOUS
  <2>. HIDE DEF Runs
  <2>. QED
    BY <2>1, <2>2
<1>2. ASSUME NEW n \in 1..N, n - 1 \in Good PROVE n \in Good
  <2>2. PICK m : m = n - 1
    OBVIOUS
  <2>1. PICK g : Runs(g, m)
    <3>1. m \in Good
      BY <1>2, <2>2
    <3>. HIDE DEF Runs
    <3>. QED
      BY <3>1
  <2>3. m \in 0..N /\ n = m + 1 /\ g \in [0..m -> X] /\ m \in 0..m /\ g[m] \in X
    BY <2>1, <2>2
  <2>4. F[n][g[m]] \in X
    BY <2>3
  <2>5. PICK h : h = [k \in 0..n |-> IF k = n THEN F[n][g[m]] ELSE g[k]]
    OBVIOUS
  <2>6. \A k \in 0..n : k = n \/ k \in 0..m
    BY <2>3
  <2>7. h \in [0..n -> X]
    BY <2>3, <2>4, <2>5, <2>6
  <2>8. 0 # n /\ 0 \in 0..n
    OBVIOUS
  <2>9. h[0] = x0
    BY <2>1, <2>5, <2>8
  <2>10. ASSUME NEW k \in 1..n PROVE h[k] = F[k][h[k - 1]]
    <3>1. k \in 0..n /\ k - 1 \in 0..n /\ k - 1 # n
      OBVIOUS
    <3>2. h[k - 1] = g[k - 1]
      BY <2>5, <3>1
    <3>3. CASE k = n
      BY <2>2, <2>5, <3>1, <3>2, <3>3
    <3>4. CASE k # n
      <4>1. k \in 1..m
        BY <2>3, <3>4
      <4>. QED
        BY <2>1, <2>2, <2>5, <3>1, <3>2, <3>4, <4>1
    <3>. QED
      BY <3>3, <3>4
  <2>11. Runs(h, n)
    BY <2>7, <2>9, <2>10
  <2>. QED
    BY <2>11
<1>3. 0..N \subseteq Good
  <2>. HIDE DEF Good
  <2>. QED
    BY <1>1, <1>2, TurnInduction
<1>4. N \in 0..N
  OBVIOUS
<1>5. \E g : Runs(g, N)
  <2>. HIDE DEF Runs
  <2>. QED
    BY <1>3, <1>4
<1>. QED
  BY <1>5 DEF IsLoop

-----------------------------------------------------------------------------
(* Sequences *)

\* Of two elements one comes before the other, and so on along three.
Orders(R, S) ==
    /\ \A x, y \in S : x # y => <<x, y>> \in R \/ <<y, x>> \in R
    /\ \A x, y, z \in S : <<x, y>> \in R /\ <<y, z>> \in R => <<x, z>> \in R

\* A finite set that a relation orders has a greatest element.
LEMMA GreatestExists ==
    ASSUME NEW S, IsFiniteSet(S), NEW R, Orders(R, S)
    PROVE  \A T \in SUBSET S : T # {} => \E m \in T : \A x \in T : x # m => <<x, m>> \in R
<1>. DEFINE Has(T) == T # {} => \E m \in T : \A x \in T : x # m => <<x, m>> \in R
            Good == {n \in Nat : \A T \in SUBSET S : Cardinality(T) = n => Has(T)}
<1>1. \A T \in SUBSET S : IsFiniteSet(T) /\ Cardinality(T) \in Nat /\ Cardinality(T) <= Cardinality(S)
  BY FS_Subset, FS_CardinalityType
<1>2. 0 \in Good
  <2>1. \A T \in SUBSET S : Cardinality(T) = 0 => T = {}
    BY <1>1, FS_EmptySet
  <2>. QED
    BY <2>1
<1>3. ASSUME NEW n \in 1..Cardinality(S), n - 1 \in Good PROVE n \in Good
  <2>. SUFFICES ASSUME NEW T \in SUBSET S, Cardinality(T) = n, T # {} PROVE \E m \in T : \A x \in T : x # m => <<x, m>> \in R
    BY FS_CardinalityType
  <2>1. PICK t \in T : TRUE
    OBVIOUS
  <2>2. Cardinality(T \ {t}) = n - 1 /\ T \ {t} \in SUBSET S
    BY <1>1, FS_RemoveElement
  <2>3. Has(T \ {t})
    BY <1>3, <2>2
  <2>4. CASE T \ {t} = {}
    BY <2>1, <2>4
  <2>5. CASE T \ {t} # {}
    <3>1. PICK m \in T \ {t} : \A x \in T \ {t} : x # m => <<x, m>> \in R
      BY <2>3, <2>5
    <3>2. CASE <<m, t>> \in R
      BY <3>1, <3>2 DEF Orders
    <3>3. CASE <<m, t>> \notin R
      BY <3>1, <3>3 DEF Orders
    <3>. QED
      BY <3>2, <3>3
  <2>. QED
    BY <2>4, <2>5
<1>4. Cardinality(S) \in Nat
  BY FS_CardinalityType
<1>5. 0..Cardinality(S) \subseteq Good
  <2>. HIDE DEF Good
  <2>. QED
    BY <1>2, <1>3, <1>4, TurnInduction
<1>6. ASSUME NEW T \in SUBSET S PROVE Has(T)
  <2>1. Cardinality(T) \in 0..Cardinality(S)
    BY <1>1, <1>4
  <2>. QED
    BY <1>5, <2>1
<1>. QED
  BY <1>6

\* The elements of a set can be listed in such an order.
LEMMA SortedExists ==
    ASSUME NEW S, IsFiniteSet(S), NEW R, Orders(R, S)
    PROVE  \E s \in [1..Cardinality(S) -> S] :
               ToSet(s) = S /\ \A i, j \in DOMAIN s : i < j => <<s[i], s[j]>> \in R
<1>. DEFINE Lists(s, T, n) == /\ s \in [1..n -> T] /\ ToSet(s) = T
                              /\ \A i, j \in 1..n : i < j => <<s[i], s[j]>> \in R
            Good == {n \in Nat : \A T \in SUBSET S : Cardinality(T) = n => \E s : Lists(s, T, n)}
<1>1. \A T \in SUBSET S : IsFiniteSet(T) /\ Cardinality(T) \in Nat
  BY FS_Subset, FS_CardinalityType
<1>2. 0 \in Good
  <2>1. \A T \in SUBSET S : Cardinality(T) = 0 => T = {}
    BY <1>1, FS_EmptySet
  <2>2. PICK e : e = [i \in 1..0 |-> {}]
    OBVIOUS
  <2>3. e \in [1..0 -> {}] /\ ToSet(e) = {} /\ \A i, j \in 1..0 : i < j => <<e[i], e[j]>> \in R
    BY <2>2 DEF ToSet
  <2>4. Lists(e, {}, 0)
    BY <2>3
  <2>. HIDE DEF Lists
  <2>. QED
    BY <2>1, <2>4
<1>3. ASSUME NEW n \in 1..Cardinality(S), n - 1 \in Good PROVE n \in Good
  <2>0. n \in Nat /\ n >= 1
    BY FS_CardinalityType
  <2>. SUFFICES ASSUME NEW T \in SUBSET S, Cardinality(T) = n PROVE \E s : Lists(s, T, n)
    <3>. HIDE DEF Lists
    <3>. QED
      BY <2>0
  <2>1. T # {}
    BY <2>0, FS_EmptySet
  <2>2. PICK t \in T : \A x \in T : x # t => <<x, t>> \in R
    BY <2>1, GreatestExists
  <2>3. PICK m, U : m = n - 1 /\ U = T \ {t}
    OBVIOUS
  <2>4. m \in Nat /\ n = m + 1 /\ Cardinality(U) = m /\ U \in SUBSET S /\ T = U \cup {t} /\ t \notin U
    BY <1>1, <2>0, <2>2, <2>3, FS_RemoveElement
  <2>5. PICK u : Lists(u, U, m)
    <3>1. m \in Good
      BY <1>3, <2>3
    <3>. HIDE DEF Lists
    <3>. QED
      BY <2>4, <3>1
  <2>6. PICK s : s = [i \in 1..n |-> IF i = n THEN t ELSE u[i]]
    OBVIOUS
  <2>7. \A i \in 1..n : i = n \/ i \in 1..m
    BY <2>4
  <2>8. \A i \in 1..m : i \in 1..n /\ i # n /\ s[i] = u[i] /\ u[i] \in U
    BY <2>4, <2>5, <2>6
  <2>9. s[n] = t /\ n \in 1..n
    BY <2>0, <2>6
  <2>10. s \in [1..n -> T]
    BY <2>4, <2>6, <2>7, <2>8, <2>9
  <2>11. ToSet(s) = T
    <3>1. ToSet(s) \subseteq T
      BY <2>10 DEF ToSet
    <3>2. \A x \in U : \E i \in 1..m : u[i] = x
      BY <2>5 DEF ToSet
    <3>3. \A x \in T : \E i \in 1..n : s[i] = x
      BY <2>4, <2>8, <2>9, <3>2
    <3>4. DOMAIN s = 1..n
      BY <2>6
    <3>. QED
      BY <3>1, <3>3, <3>4 DEF ToSet
  <2>12. ASSUME NEW i \in 1..n, NEW j \in 1..n, i < j PROVE <<s[i], s[j]>> \in R
    <3>1. i \in 1..m
      BY <2>4, <2>12
    <3>2. CASE j = n
      <4>1. s[i] \in U /\ s[i] # t /\ s[i] \in T
        BY <2>4, <2>8, <3>1
      <4>. QED
        BY <2>2, <2>9, <3>2, <4>1
    <3>3. CASE j \in 1..m
      <4>1. <<u[i], u[j]>> \in R
        BY <2>5, <2>12, <3>1, <3>3
      <4>. QED
        BY <2>8, <3>1, <3>3, <4>1
    <3>. QED
      BY <2>7, <3>2, <3>3
  <2>13. Lists(s, T, n)
    BY <2>10, <2>11, <2>12
  <2>. QED
    BY <2>13
<1>4. Cardinality(S) \in Nat
  BY FS_CardinalityType
<1>5. Cardinality(S) \in Good
  <2>1. 0..Cardinality(S) \subseteq Good
    <3>. HIDE DEF Good
    <3>. QED
      BY <1>2, <1>3, <1>4, TurnInduction
  <2>2. Cardinality(S) \in 0..Cardinality(S)
    BY <1>4
  <2>. HIDE DEF Good
  <2>. QED
    BY <2>1, <2>2
<1>6. PICK s : Lists(s, S, Cardinality(S))
  <2>. HIDE DEF Lists
  <2>. QED
    BY <1>5
<1>7. DOMAIN s = 1..Cardinality(S)
  BY <1>6
<1>. QED
  BY <1>6, <1>7

\* The elements of two sequences joined.
LEMMA ConcatSet ==
    ASSUME NEW T, NEW s \in Seq(T), NEW t \in Seq(T)
    PROVE  s \o t \in Seq(T) /\ ToSet(s \o t) = ToSet(s) \cup ToSet(t)
<1>1. s \o t \in Seq(T)
  OBVIOUS
<1>2. PICK m, n : m = Len(s) /\ n = Len(t)
  OBVIOUS
<1>3. m \in Nat /\ n \in Nat /\ DOMAIN s = 1..m /\ DOMAIN t = 1..n /\ DOMAIN (s \o t) = 1..(m + n)
  BY <1>2
<1>4. /\ \A i \in 1..m : (s \o t)[i] = s[i]
      /\ \A i \in 1..n : (s \o t)[m + i] = t[i]
  BY <1>2
<1>5. \A i \in 1..(m + n) : i \in 1..m \/ (i - m \in 1..n /\ i = m + (i - m))
  BY <1>3
<1>6. \A i \in 1..m : i \in 1..(m + n)
  BY <1>3
<1>7. \A i \in 1..n : m + i \in 1..(m + n)
  BY <1>3
<1>8. ToSet(s \o t) \subseteq ToSet(s) \cup ToSet(t)
  <2>. SUFFICES ASSUME NEW i \in 1..(m + n)
                PROVE  (s \o t)[i] \in ToSet(s) \cup ToSet(t)
    BY <1>3 DEF ToSet
  <2>1. CASE i \in 1..m
    BY <1>3, <1>4, <2>1 DEF ToSet
  <2>2. CASE i - m \in 1..n /\ i = m + (i - m)
    BY <1>3, <1>4, <2>2 DEF ToSet
  <2>. QED
    BY <1>5, <2>1, <2>2
<1>9. ToSet(s) \subseteq ToSet(s \o t)
  BY <1>3, <1>4, <1>6 DEF ToSet
<1>10. ToSet(t) \subseteq ToSet(s \o t)
  BY <1>3, <1>4, <1>7 DEF ToSet
<1>. QED
  BY <1>1, <1>8, <1>9, <1>10

\* A sequence of one element.
LEMMA SingleSet ==
    ASSUME NEW T, NEW x \in T
    PROVE  <<x>> \in Seq(T) /\ Len(<<x>>) = 1 /\ ToSet(<<x>>) = {x}
<1>1. <<x>> \in Seq(T) /\ Len(<<x>>) = 1 /\ DOMAIN <<x>> = {1} /\ <<x>>[1] = x
  OBVIOUS
<1>2. ToSet(<<x>>) = {x}
  BY <1>1 DEF ToSet
<1>. QED
  BY <1>1, <1>2

\* An element put at the end.
LEMMA AppendSet ==
    ASSUME NEW T, NEW s \in Seq(T), NEW x \in T
    PROVE  Append(s, x) \in Seq(T) /\ ToSet(Append(s, x)) = ToSet(s) \cup {x}
<1>1. <<x>> \in Seq(T) /\ ToSet(<<x>>) = {x}
  BY SingleSet
<1>2. Append(s, x) = s \o <<x>> /\ Append(s, x) \in Seq(T)
  OBVIOUS
<1>3. ToSet(s \o <<x>>) = ToSet(s) \cup ToSet(<<x>>)
  BY <1>1, ConcatSet
<1>. QED
  BY <1>1, <1>2, <1>3

\* A sequence as a function.
LEMMA SeqFacts ==
    ASSUME NEW T, NEW s \in Seq(T)
    PROVE  Len(s) \in Nat /\ DOMAIN s = 1..Len(s) /\ ToSet(s) \subseteq T /\ \A i \in 1..Len(s) : s[i] \in T
BY DEF ToSet

\* The empty sequence.
LEMMA NothingInSeq ==
    ASSUME NEW T
    PROVE  << >> \in Seq(T) /\ Len(<< >>) = 0 /\ ToSet(<< >>) = {} /\ DOMAIN << >> = {}
<1>1. << >> \in Seq(T) /\ Len(<< >>) = 0 /\ DOMAIN << >> = {}
  OBVIOUS
<1>2. ToSet(<< >>) = {}
  BY <1>1, Zenon DEF ToSet
<1>. QED
  BY <1>1, <1>2


\* The elements of the sequence are all different: there are as many as it is long.
Sized(s) == Cardinality(ToSet(s)) = Len(s)

\* Then no element is at two places.
LEMMA SizedFacts ==
    ASSUME NEW T, NEW s \in Seq(T)
    PROVE  /\ IsFiniteSet(ToSet(s))
           /\ Sized(s) => \A i, j \in 1..Len(s) : s[i] = s[j] => i = j
<1>1. PICK L, D, U : L = Len(s) /\ D = 1..L /\ U = ToSet(s)
  OBVIOUS
<1>2. L \in Nat /\ DOMAIN s = D
  BY <1>1
<1>3. IsFiniteSet(D) /\ Cardinality(D) = L
  <2>1. IsFiniteSet(1..L) /\ Cardinality(1..L) = IF 1 > L THEN 0 ELSE L - 1 + 1
    BY <1>2, FS_Interval
  <2>. QED
    BY <1>1, <1>2, <2>1
<1>4. s \in [D -> U] /\ \A x \in U : \E i \in D : s[i] = x
  <2>1. s = [i \in D |-> s[i]]
    BY <1>1, <1>2
  <2>2. U = {s[i] : i \in D}
    BY <1>1, <1>2 DEF ToSet
  <2>. QED
    BY <2>1, <2>2
<1>5. s \in Surjection(D, U)
  BY <1>4 DEF Surjection
<1>6. IsFiniteSet(U) /\ (Cardinality(U) = Cardinality(D) => s \in Injection(D, U))
  BY <1>3, <1>5, FS_Surjection
<1>7. s \in Injection(D, U) => \A i, j \in D : s[i] = s[j] => i = j
  BY DEF Injection, IsInjective
<1>. QED
  BY <1>1, <1>3, <1>6, <1>7 DEF Sized

\* Two finite sets with nothing in common.
LEMMA DisjointUnion ==
    ASSUME NEW S, NEW U, IsFiniteSet(S), IsFiniteSet(U), S \cap U = {}
    PROVE  Cardinality(S \cup U) = Cardinality(S) + Cardinality(U)
<1>1. Cardinality(S \cup U) = Cardinality(S) + Cardinality(U) - Cardinality(S \cap U)
  BY FS_Union
<1>2. Cardinality(S \cap U) = 0
  BY FS_EmptySet
<1>3. Cardinality(S) \in Nat /\ Cardinality(U) \in Nat
  BY FS_CardinalityType
<1>. QED
  BY <1>1, <1>2, <1>3

\* A sequence with the elements of two that have none in common, and as long as both.
LEMMA SizedUnion ==
    ASSUME NEW T, NEW s \in Seq(T), NEW t \in Seq(T), Sized(s), Sized(t), ToSet(s) \cap ToSet(t) = {},
           NEW u, ToSet(u) = ToSet(s) \cup ToSet(t), Len(u) = Len(s) + Len(t)
    PROVE  Sized(u)
<1>1. IsFiniteSet(ToSet(s)) /\ IsFiniteSet(ToSet(t))
  BY SizedFacts
<1>2. Cardinality(ToSet(s) \cup ToSet(t)) = Cardinality(ToSet(s)) + Cardinality(ToSet(t))
  BY <1>1, DisjointUnion
<1>. QED
  BY <1>2 DEF Sized

\* FlattenSeq joins the sequences one after the other.
LEMMA FlattenRecursion ==
    ASSUME NEW T, NEW ss \in Seq(Seq(T)), ss # << >>
    PROVE  \E f : /\ FlattenSeq(ss) = f[Len(ss)] /\ f[1] = ss[1]
                  /\ \A i \in 2..Len(ss) : f[i] = f[i - 1] \o ss[i]
                  /\ \A i \in 1..Len(ss) : f[i] \in Seq(T)
<1>1. PICK L : L = Len(ss)
  OBVIOUS
<1>2. L \in Nat /\ L >= 1 /\ \A i \in 1..L : ss[i] \in Seq(T)
  BY <1>1
<1>3. PICK M : M = L - 1
  OBVIOUS
<1>4. M \in Nat /\ L = M + 1
  BY <1>2, <1>3
<1>5. PICK F : F = [n \in 1..M |-> [x \in Seq(T) |-> x \o ss[n + 1]]]
  OBVIOUS
<1>6. F \in [1..M -> [Seq(T) -> Seq(T)]]
  <2>1. \A n \in 1..M : n + 1 \in 1..L
    BY <1>4
  <2>2. \A n \in 1..M : \A x \in Seq(T) : x \o ss[n + 1] \in Seq(T)
    BY <1>2, <2>1
  <2>. QED
    BY <1>5, <2>2
<1>7. ss[1] \in Seq(T)
  BY <1>2
<1>8. PICK g \in [0..M -> Seq(T)] : g[0] = ss[1] /\ \A n \in 1..M : g[n] = F[n][g[n - 1]]
  <2>1. PICK g : IsLoop(g, Seq(T), ss[1], M, F)
    BY <1>4, <1>6, <1>7, LoopExists
  <2>. QED
    BY <2>1 DEF IsLoop
<1>. DEFINE Def(f) == f = [i \in 1..Len(ss) |-> IF i = 1 THEN ss[i] ELSE f[i - 1] \o ss[i]]
<1>9. \E f : Def(f)
  <2>1. PICK f : f = [i \in 1..L |-> g[i - 1]]
    OBVIOUS
  <2>2. ASSUME NEW i \in 1..L, i # 1 PROVE g[i - 1] = g[(i - 1) - 1] \o ss[i]
    <3>1. PICK n : n = i - 1
      OBVIOUS
    <3>2. n \in 1..M /\ n - 1 \in 0..M /\ i = n + 1
      BY <1>4, <2>2, <3>1
    <3>3. g[n - 1] \in Seq(T)
      BY <3>2
    <3>4. g[n] = g[n - 1] \o ss[n + 1]
      BY <1>5, <1>8, <3>2, <3>3
    <3>. QED
      BY <3>1, <3>2, <3>4
  <2>3. \A i \in 1..L : i # 1 => i - 1 \in 1..L
    BY <1>2
  <2>4. \A i \in 1..L : f[i] = IF i = 1 THEN ss[i] ELSE f[i - 1] \o ss[i]
    <3>1. f[1] = ss[1]
      BY <1>2, <1>8, <2>1
    <3>2. \A i \in 1..L : i # 1 => f[i] = f[i - 1] \o ss[i]
      BY <2>1, <2>2, <2>3
    <3>. QED
      BY <3>1, <3>2
  <2>5. f = [i \in 1..L |-> f[i]]
    BY <2>1
  <2>6. Def(f)
    BY <1>1, <2>4, <2>5
  <2>. QED
    BY <2>6
<1>10. PICK f : f = CHOOSE h : Def(h)
  OBVIOUS
<1>11. Def(f)
  <2>. HIDE DEF Def
  <2>. QED
    BY <1>9, <1>10
<1>12. \A i \in 1..L : f[i] = IF i = 1 THEN ss[i] ELSE f[i - 1] \o ss[i]
  BY <1>1, <1>11
<1>13. FlattenSeq(ss) = f[L]
  <2>1. L # 0
    BY <1>2
  <2>. QED
    BY <1>1, <1>10, <2>1 DEF FlattenSeq
<1>14. f[1] = ss[1] /\ \A i \in 2..L : f[i] = f[i - 1] \o ss[i]
  <2>1. 1 \in 1..L /\ \A i \in 2..L : i \in 1..L /\ i # 1
    BY <1>2
  <2>. QED
    BY <1>12, <2>1
<1>15. \A i \in 1..L : f[i] \in Seq(T)
  <2>. DEFINE Good == {n \in 0..M : f[n + 1] \in Seq(T)}
  <2>1. 0 \in Good
    BY <1>4, <1>7, <1>14
  <2>2. ASSUME NEW n \in 1..M, n - 1 \in Good PROVE n \in Good
    <3>1. f[n] \in Seq(T) /\ n + 1 \in 2..L /\ (n + 1) - 1 = n /\ n + 1 \in 1..L
      BY <1>4, <2>2
    <3>2. f[n + 1] = f[n] \o ss[n + 1]
      BY <1>14, <3>1
    <3>3. ss[n + 1] \in Seq(T)
      BY <1>2, <3>1
    <3>4. f[n + 1] \in Seq(T)
      BY <3>1, <3>2, <3>3
    <3>. QED
      BY <3>4
  <2>3. 0..M \subseteq Good
    <3>. HIDE DEF Good
    <3>. QED
      BY <1>4, <2>1, <2>2, TurnInduction
  <2>4. ASSUME NEW i \in 1..L PROVE f[i] \in Seq(T)
    <3>1. i - 1 \in 0..M /\ (i - 1) + 1 = i
      BY <1>4
    <3>. QED
      BY <2>3, <3>1
  <2>. QED
    BY <2>4
<1>. QED
  BY <1>1, <1>13, <1>14, <1>15

\* Its elements are those of the sequences.
LEMMA FlattenElements ==
    ASSUME NEW T, NEW ss \in Seq(Seq(T))
    PROVE  /\ FlattenSeq(ss) \in Seq(T)
           /\ ToSet(FlattenSeq(ss)) = UNION {ToSet(ss[i]) : i \in DOMAIN ss}
<1>1. CASE ss = << >>
  <2>1. FlattenSeq(ss) = << >>
    BY <1>1 DEF FlattenSeq
  <2>2. DOMAIN ss = {} /\ << >> \in Seq(T) /\ ToSet(<< >>) = {}
    BY <1>1, NothingInSeq
  <2>. QED
    BY <2>1, <2>2
<1>2. CASE ss # << >>
  <2>1. PICK L : L = Len(ss)
    OBVIOUS
  <2>2. L \in Nat /\ L >= 1 /\ DOMAIN ss = 1..L /\ \A i \in 1..L : ss[i] \in Seq(T)
    BY <1>2, <2>1
  <2>3. PICK f : /\ FlattenSeq(ss) = f[L] /\ f[1] = ss[1]
                 /\ \A i \in 2..L : f[i] = f[i - 1] \o ss[i]
                 /\ \A i \in 1..L : f[i] \in Seq(T)
    BY <1>2, <2>1, FlattenRecursion
  <2>. DEFINE Has(x, n) == \E i \in 1..n : x \in ToSet(ss[i])
              Good == {n \in 0..(L - 1) : \A x : x \in ToSet(f[n + 1]) <=> Has(x, n + 1)}
  <2>4. 0 \in Good
    <3>1. 0 \in 0..(L - 1) /\ 1..(0 + 1) = {1}
      BY <2>2
    <3>. QED
      BY <2>3, <3>1
  <2>5. ASSUME NEW n \in 1..(L - 1), n - 1 \in Good PROVE n \in Good
    <3>1. /\ n \in 1..L /\ n + 1 \in 1..L /\ n + 1 \in 2..L /\ (n - 1) + 1 = n /\ (n + 1) - 1 = n
          /\ 1..(n + 1) = (1..n) \cup {n + 1} /\ n \in 0..(L - 1)
      BY <2>2
    <3>2. \A x : x \in ToSet(f[n]) <=> Has(x, n)
      BY <2>5, <3>1
    <3>3. f[n + 1] = f[n] \o ss[n + 1] /\ f[n] \in Seq(T) /\ ss[n + 1] \in Seq(T)
      BY <2>2, <2>3, <3>1
    <3>4. ToSet(f[n + 1]) = ToSet(f[n]) \cup ToSet(ss[n + 1])
      BY <3>3, ConcatSet
    <3>5. \A x : Has(x, n + 1) <=> Has(x, n) \/ x \in ToSet(ss[n + 1])
      BY <3>1
    <3>6. \A x : x \in ToSet(f[n + 1]) <=> Has(x, n + 1)
      BY <3>2, <3>4, <3>5
    <3>. QED
      BY <3>1, <3>6
  <2>6. 0..(L - 1) \subseteq Good
    <3>1. L - 1 \in Nat
      BY <2>2
    <3>. HIDE DEF Good
    <3>. QED
      BY <2>4, <2>5, <3>1, TurnInduction
  <2>7. L - 1 \in 0..(L - 1) /\ (L - 1) + 1 = L /\ L \in 1..L
    BY <2>2
  <2>8. \A x : x \in ToSet(f[L]) <=> Has(x, L)
    <3>1. L - 1 \in Good
      BY <2>6, <2>7
    <3>. QED
      BY <2>7, <3>1
  <2>9. ToSet(f[L]) = UNION {ToSet(ss[i]) : i \in 1..L}
    BY <2>8
  <2>. QED
    BY <2>2, <2>3, <2>7, <2>9
<1>. QED
  BY <1>1, <1>2

\* Select goes through the sequence once.
IsSelection(f, s, Q, T) ==
    /\ Select(s, Q) = f[Len(s)] /\ f[0] = << >>
    /\ \A n \in 1..Len(s) : f[n] = IF n \in Q THEN Append(f[n - 1], s[n]) ELSE f[n - 1]
    /\ \A n \in 0..Len(s) : f[n] \in Seq(T)

LEMMA SelectRecursion ==
    ASSUME NEW T, NEW s \in Seq(T), NEW Q
    PROVE  \E f : IsSelection(f, s, Q, T)
<1>1. PICK L : L = Len(s)
  OBVIOUS
<1>2. L \in Nat /\ \A n \in 1..L : s[n] \in T
  BY <1>1
<1>3. PICK F : F = [n \in 1..L |-> [x \in Seq(T) |-> IF n \in Q THEN Append(x, s[n]) ELSE x]]
  OBVIOUS
<1>4. F \in [1..L -> [Seq(T) -> Seq(T)]]
  <2>1. \A n \in 1..L : \A x \in Seq(T) : (IF n \in Q THEN Append(x, s[n]) ELSE x) \in Seq(T)
    BY <1>2
  <2>. QED
    BY <1>3, <2>1
<1>5. << >> \in Seq(T)
  OBVIOUS
<1>6. PICK g : IsLoop(g, Seq(T), << >>, L, F)
  BY <1>2, <1>4, <1>5, LoopExists
<1>7. \A n \in 1..L : g[n] = IF n \in Q THEN Append(g[n - 1], s[n]) ELSE g[n - 1]
  <2>1. \A n \in 1..L : n - 1 \in 0..L
    BY <1>2
  <2>2. \A n \in 1..L : g[n - 1] \in Seq(T) /\ g[n] = F[n][g[n - 1]]
    BY <1>6, <2>1 DEF IsLoop
  <2>. QED
    BY <1>3, <2>2
<1>. DEFINE Def(f) == f = [n \in 0..Len(s) |-> IF n = 0 THEN << >>
                              ELSE IF n \in Q THEN Append(f[n - 1], s[n]) ELSE f[n - 1]]
<1>8. Def(g)
  <2>1. g = [n \in 0..L |-> g[n]] /\ g[0] = << >>
    BY <1>6 DEF IsLoop
  <2>2. \A n \in 0..L : n # 0 => n \in 1..L
    BY <1>2
  <2>3. \A n \in 0..L : g[n] = IF n = 0 THEN << >>
                              ELSE IF n \in Q THEN Append(g[n - 1], s[n]) ELSE g[n - 1]
    BY <1>7, <2>1, <2>2
  <2>. QED
    BY <1>1, <2>1, <2>3
<1>9. PICK f : f = CHOOSE h : Def(h)
  OBVIOUS
<1>10. Def(f)
  <2>. HIDE DEF Def
  <2>. QED
    BY <1>8, <1>9
<1>11. \A n \in 0..L : f[n] = IF n = 0 THEN << >>
                              ELSE IF n \in Q THEN Append(f[n - 1], s[n]) ELSE f[n - 1]
  BY <1>1, <1>10
<1>12. f[0] = << >> /\ \A n \in 1..L : f[n] = IF n \in Q THEN Append(f[n - 1], s[n]) ELSE f[n - 1]
  <2>1. 0 \in 0..L /\ \A n \in 1..L : n \in 0..L /\ n # 0
    BY <1>2
  <2>. QED
    BY <1>11, <2>1
<1>13. \A n \in 0..L : f[n] \in Seq(T)
  <2>. DEFINE Good == {n \in 0..L : f[n] \in Seq(T)}
  <2>1. 0 \in Good
    <3>1. 0 \in 0..L
      BY <1>2
    <3>2. f[0] \in Seq(T)
      BY <1>5, <1>12
    <3>. QED
      BY <3>1, <3>2
  <2>2. ASSUME NEW n \in 1..L, n - 1 \in Good PROVE n \in Good
    <3>1. f[n - 1] \in Seq(T) /\ n \in 0..L /\ s[n] \in T
      BY <1>2, <2>2
    <3>2. f[n] \in Seq(T)
      <4>1. PICK a, b : a = f[n - 1] /\ b = s[n]
        OBVIOUS
      <4>2. Append(a, b) \in Seq(T) /\ a \in Seq(T)
        BY <3>1, <4>1
      <4>3. f[n] = IF n \in Q THEN Append(a, b) ELSE a
        BY <1>12, <4>1
      <4>. QED
        BY <4>2, <4>3
    <3>. QED
      BY <3>1, <3>2
  <2>. QED
    <3>. HIDE DEF Good
    <3>1. 0..L \subseteq Good
      BY <1>2, <2>1, <2>2, TurnInduction
    <3>. USE DEF Good
    <3>. QED
      BY <3>1
<1>14. Select(s, Q) = f[L]
  BY <1>1, <1>9 DEF Select
<1>. QED
  BY <1>1, <1>12, <1>13, <1>14 DEF IsSelection

\* It has the elements at the given places.
LEMMA SelectElements ==
    ASSUME NEW T, NEW s \in Seq(T), NEW Q
    PROVE  /\ Select(s, Q) \in Seq(T)
           /\ \A x : x \in ToSet(Select(s, Q)) <=> \E i \in DOMAIN s : i \in Q /\ x = s[i]
<1>1. PICK L : L = Len(s)
  OBVIOUS
<1>2. L \in Nat /\ DOMAIN s = 1..L /\ \A n \in 1..L : s[n] \in T
  BY <1>1
<1>3. PICK f : /\ Select(s, Q) = f[L] /\ f[0] = << >>
               /\ \A n \in 1..L : f[n] = IF n \in Q THEN Append(f[n - 1], s[n]) ELSE f[n - 1]
               /\ \A n \in 0..L : f[n] \in Seq(T)
  <2>1. PICK f : IsSelection(f, s, Q, T)
    BY SelectRecursion
  <2>. QED
    BY <1>1, <2>1 DEF IsSelection
<1>. DEFINE Has(x, n) == \E i \in 1..n : i \in Q /\ x = s[i]
            Good == {n \in 0..L : \A x : x \in ToSet(f[n]) <=> Has(x, n)}
<1>4. 0 \in Good
  <2>1. ToSet(f[0]) = {} /\ 1..0 = {} /\ 0 \in 0..L
    BY <1>2, <1>3, NothingInSeq
  <2>. QED
    BY <2>1
<1>5. ASSUME NEW n \in 1..L, n - 1 \in Good PROVE n \in Good
  <2>1. PICK m : m = n - 1
    OBVIOUS
  <2>2. m \in 0..L /\ n \in 0..L /\ 1..n = (1..m) \cup {n} /\ f[m] \in Seq(T) /\ s[n] \in T
    BY <1>2, <1>3, <2>1
  <2>3. \A x : x \in ToSet(f[m]) <=> Has(x, m)
    BY <1>5, <2>1
  <2>4. \A x : Has(x, n) <=> Has(x, m) \/ (n \in Q /\ x = s[n])
    BY <2>2
  <2>5. f[n] = IF n \in Q THEN Append(f[m], s[n]) ELSE f[m]
    BY <1>3, <2>1
  <2>6. ToSet(Append(f[m], s[n])) = ToSet(f[m]) \cup {s[n]}
    <3>1. PICK a, b : a = f[m] /\ b = s[n]
      OBVIOUS
    <3>2. a \in Seq(T) /\ b \in T
      BY <2>2, <3>1
    <3>3. ToSet(Append(a, b)) = ToSet(a) \cup {b}
      BY <3>2, AppendSet
    <3>. QED
      BY <3>1, <3>3
  <2>7. \A x : x \in ToSet(f[n]) <=> Has(x, n)
    <3>. HIDE DEF Has
    <3>1. CASE n \in Q
      BY <2>3, <2>4, <2>5, <2>6, <3>1
    <3>2. CASE n \notin Q
      BY <2>3, <2>4, <2>5, <3>2
    <3>. QED
      BY <3>1, <3>2
  <2>. QED
    BY <2>2, <2>7
<1>6. 0..L \subseteq Good
  <2>. HIDE DEF Good
  <2>. QED
    BY <1>2, <1>4, <1>5, TurnInduction
<1>7. L \in 0..L /\ L \in Good
  BY <1>2, <1>6
<1>8. \A x : x \in ToSet(f[L]) <=> Has(x, L)
  BY <1>7
<1>. QED
  BY <1>2, <1>3, <1>7, <1>8

-----------------------------------------------------------------------------
(* Graphs *)

\* The device is a finite graph.
LEMMA PhysicalFacts ==
    /\ P \in Nat /\ P >= 1 /\ Physical \subseteq Nat /\ P \notin Physical
    /\ IsFiniteSet(Physical) /\ Cardinality(Physical) = P
    /\ \A g \in SUBSET Edges : IsFiniteSet(g)
<1>1. P \in Nat /\ P >= 1
  BY DeviceAssumption
<1>2. Physical \subseteq Nat /\ P \notin Physical
  BY <1>1 DEF Physical
<1>3. IsFiniteSet(Physical) /\ Cardinality(Physical) = P
  <2>1. Cardinality(0..(P - 1)) = IF 0 > P - 1 THEN 0 ELSE (P - 1) - 0 + 1
    BY <1>1, FS_Interval
  <2>2. IsFiniteSet(0..(P - 1))
    BY <1>1, FS_Interval
  <2>. QED
    BY <1>1, <2>1, <2>2 DEF Physical
<1>4. IsFiniteSet(Physical \X Physical)
  BY <1>3, FS_Product
<1>5. \A g \in SUBSET Edges : IsFiniteSet(g)
  <2>1. Edges \subseteq Physical \X Physical
    BY DEF Edges
  <2>. QED
    BY <1>4, <2>1, FS_Subset
<1>. QED
  BY <1>1, <1>2, <1>3, <1>5

\* An edge as a pair.
LEMMA EdgeFacts ==
    ASSUME NEW e \in Edges
    PROVE  e = <<e[1], e[2]>> /\ e[1] \in Physical /\ e[2] \in Physical /\ e[1] # e[2]
BY DEF Edges

\* The edges of the graphs made of a device.
LEMMA GraphFacts ==
    ASSUME NEW g \in SUBSET Edges
    PROVE  /\ Undirected(g) \in SUBSET Edges /\ g \subseteq Undirected(g)
           /\ \A a, b : <<a, b>> \in Undirected(g) <=> <<a, b>> \in g \/ <<b, a>> \in g
           /\ \A a, b : <<a, b>> \in Undirected(g) => <<b, a>> \in Undirected(g)
           /\ \A S : /\ Induced(g, S) \in SUBSET Edges
                     /\ \A a, b : <<a, b>> \in Undirected(Induced(g, S)) => a \in S /\ b \in S
           /\ \A x : Neighbors(g, x) \subseteq Physical /\ \A y : y \in Neighbors(g, x) <=> <<x, y>> \in g
<1>1. \A e \in g : e = <<e[1], e[2]>> /\ e[1] \in Physical /\ e[2] \in Physical /\ e[1] # e[2]
  BY EdgeFacts
<1>2. \A e \in g : <<e[2], e[1]>> \in Edges
  BY <1>1 DEF Edges
<1>3. Undirected(g) \in SUBSET Edges /\ g \subseteq Undirected(g)
  BY <1>2 DEF Undirected
<1>4. \A a, b : <<a, b>> \in Undirected(g) <=> <<a, b>> \in g \/ <<b, a>> \in g
  <2>1. ASSUME NEW a, NEW b PROVE (<<a, b>> \in {<<e[2], e[1]>> : e \in g}) <=> <<b, a>> \in g
    BY <1>1
  <2>. QED
    BY <2>1 DEF Undirected
<1>5. ASSUME NEW S
      PROVE  /\ Induced(g, S) \in SUBSET Edges
             /\ \A a, b : <<a, b>> \in Undirected(Induced(g, S)) => a \in S /\ b \in S
  <2>1. Induced(g, S) \in SUBSET Edges
    BY DEF Induced
  <2>2. \A a, b : <<a, b>> \in Induced(g, S) => a \in S /\ b \in S
    BY DEF Induced
  <2>3. \A e \in Induced(g, S) : e = <<e[1], e[2]>>
    BY <1>1 DEF Induced
  <2>4. ASSUME NEW a, NEW b, <<a, b>> \in {<<e[2], e[1]>> : e \in Induced(g, S)} PROVE <<b, a>> \in Induced(g, S)
    BY <2>3, <2>4
  <2>. QED
    BY <2>1, <2>2, <2>4 DEF Undirected
<1>6. ASSUME NEW x PROVE Neighbors(g, x) \subseteq Physical /\ \A y : y \in Neighbors(g, x) <=> <<x, y>> \in g
  <2>1. \A y : y \in Neighbors(g, x) <=> \E d \in g : d[1] = x /\ d[2] = y
    BY DEF Neighbors
  <2>. QED
    BY <1>1, <2>1
<1>. QED
  BY <1>3, <1>4, <1>5, <1>6

\* What a loop computes is of its type.
LEMMA LoopTyped ==
    ASSUME NEW X, NEW x0 \in X, NEW N \in Nat, NEW F \in [1..N -> [X -> X]],
           NEW f, f[0] = x0, \A n \in 1..N : f[n - 1] \in X => f[n] = F[n][f[n - 1]]
    PROVE  \A n \in 0..N : f[n] \in X
<1>. DEFINE Good == {n \in 0..N : f[n] \in X}
<1>1. 0 \in Good
  OBVIOUS
<1>2. ASSUME NEW n \in 1..N, n - 1 \in Good PROVE n \in Good
  <2>1. f[n - 1] \in X
    BY <1>2
  <2>2. f[n] = F[n][f[n - 1]]
    BY <2>1
  <2>3. f[n] \in X
    BY <2>1, <2>2
  <2>. QED
    BY <2>3
<1>3. 0..N \subseteq Good
  <2>. HIDE DEF Good
  <2>. QED
    BY <1>1, <1>2, TurnInduction
<1>. QED
  BY <1>3

\* One edge from the qubits of a ball.
Around(g, S) == UNION {{x} \cup Neighbors(g, x) : x \in S}

\* Balls grow by one edge at a time.
LEMMA BallRecursion ==
    ASSUME NEW g \in SUBSET Edges, NEW a \in Physical
    PROVE  /\ Ball(g, a, 0) = {a}
           /\ \A k \in 1..P : Ball(g, a, k) = Around(g, Ball(g, a, k - 1))
           /\ \A k \in 0..P : Ball(g, a, k) \in SUBSET Physical
<1>1. P \in Nat /\ {a} \in SUBSET Physical
  BY PhysicalFacts
<1>2. \A S \in SUBSET Physical : Around(g, S) \in SUBSET Physical
  <2>1. \A x : Neighbors(g, x) \subseteq Physical
    BY GraphFacts
  <2>. QED
    BY <2>1 DEF Around
<1>3. PICK F : F = [k \in 1..P |-> [S \in SUBSET Physical |-> Around(g, S)]]
  OBVIOUS
<1>4. F \in [1..P -> [SUBSET Physical -> SUBSET Physical]]
  BY <1>2, <1>3
<1>5. PICK h : IsLoop(h, SUBSET Physical, {a}, P, F)
  BY <1>1, <1>4, LoopExists
<1>. DEFINE Def(f) == f = [k \in 0..P |-> IF k = 0 THEN {a} ELSE Around(g, f[k - 1])]
<1>6. Def(h)
  <2>1. h = [k \in 0..P |-> h[k]] /\ h[0] = {a}
    BY <1>5 DEF IsLoop
  <2>2. \A k \in 0..P : k # 0 => k \in 1..P /\ k - 1 \in 0..P
    BY <1>1
  <2>3. \A k \in 0..P : k # 0 => h[k - 1] \in SUBSET Physical /\ h[k] = F[k][h[k - 1]]
    BY <1>5, <2>2 DEF IsLoop
  <2>4. \A k \in 0..P : k # 0 => h[k] = Around(g, h[k - 1])
    BY <1>3, <2>2, <2>3
  <2>. QED
    BY <2>1, <2>4
<1>7. PICK f : f = CHOOSE b : Def(b)
  OBVIOUS
<1>8. Def(f)
  <2>. HIDE DEF Def
  <2>. QED
    BY <1>6, <1>7
<1>9. \A k : Ball(g, a, k) = f[k]
  BY <1>7 DEF Ball, Balls, Around
<1>10. f[0] = {a} /\ \A k \in 1..P : f[k] = Around(g, f[k - 1])
  <2>1. 0 \in 0..P /\ \A k \in 1..P : k \in 0..P /\ k # 0
    BY <1>1
  <2>. QED
    BY <1>8, <2>1
<1>11. \A k \in 1..P : f[k - 1] \in SUBSET Physical => f[k] = F[k][f[k - 1]]
  BY <1>3, <1>10
<1>12. \A k \in 0..P : f[k] \in SUBSET Physical
  <2>1. PICK X, x0 : X = SUBSET Physical /\ x0 = {a}
    OBVIOUS
  <2>2. x0 \in X /\ F \in [1..P -> [X -> X]] /\ f[0] = x0
    BY <1>1, <1>4, <1>10, <2>1
  <2>3. \A k \in 1..P : f[k - 1] \in X => f[k] = F[k][f[k - 1]]
    BY <1>11, <2>1
  <2>4. \A k \in 0..P : f[k] \in X
    BY <1>1, <2>2, <2>3, LoopTyped
  <2>. QED
    BY <2>1, <2>4
<1>. QED
  BY <1>9, <1>10, <1>12

\* What is one edge from the qubits of a set.
LEMMA AroundFacts ==
    ASSUME NEW g \in SUBSET Edges, NEW S
    PROVE  \A y : y \in Around(g, S) <=> y \in S \/ \E x \in S : <<x, y>> \in g
<1>1. \A x, y : y \in Neighbors(g, x) <=> <<x, y>> \in g
  BY GraphFacts
<1>2. \A y : y \in Around(g, S) <=> \E x \in S : y = x \/ y \in Neighbors(g, x)
  BY DEF Around
<1>3. \A y : y \in Around(g, S) <=> \E x \in S : y = x \/ <<x, y>> \in g
  BY <1>1, <1>2, Zenon
<1>. QED
  BY <1>3, Zenon

\* The least element of a set of naturals.
LEMMA MinFacts ==
    ASSUME NEW S \in SUBSET Nat, S # {}
    PROVE  Min(S) \in S /\ \A y \in S : Min(S) <= y
<1>1. \E m \in S : \A y \in S : m <= y
  BY LeastElement
<1>. QED
  BY <1>1 DEF Min

\* A distance is the number of edges of a shortest path.
LEMMA DistanceFacts ==
    ASSUME NEW g \in SUBSET Edges, NEW a \in Physical, NEW b \in Physical
    PROVE  /\ FloydWarshall(g)[a][b] \in 0..P
           /\ \A k \in 0..(P - 1) : b \in Ball(g, a, k) => FloydWarshall(g)[a][b] <= k
           /\ FloydWarshall(g)[a][b] < P => b \in Ball(g, a, FloydWarshall(g)[a][b])
           /\ FloydWarshall(g)[a][b] = 0 => a = b
           /\ FloydWarshall(g)[a][b] = 1 => <<a, b>> \in g
           /\ <<a, b>> \in g => FloydWarshall(g)[a][b] <= 1
<1>1. P \in Nat /\ P >= 1
  BY PhysicalFacts
<1>2. PICK D, S : D = FloydWarshall(g)[a][b] /\ S = {P} \cup {k \in 0..(P - 1) : b \in Ball(g, a, k)}
  OBVIOUS
<1>3. D = Min(S)
  BY <1>2 DEF FloydWarshall
<1>4. S \in SUBSET Nat /\ S # {} /\ P \in S
  BY <1>1, <1>2
<1>5. D \in S /\ \A y \in S : D <= y
  BY <1>3, <1>4, MinFacts
<1>6. D \in 0..P
  BY <1>1, <1>2, <1>5
<1>7. \A k \in 0..(P - 1) : b \in Ball(g, a, k) => D <= k
  BY <1>2, <1>5
<1>8. D < P => b \in Ball(g, a, D)
  BY <1>1, <1>2, <1>5
<1>9. Ball(g, a, 0) = {a} /\ Ball(g, a, 1) = Around(g, {a})
  <2>1. 1 \in 1..P /\ 1 - 1 = 0
    BY <1>1
  <2>2. Ball(g, a, 0) = {a}
    BY BallRecursion
  <2>3. Ball(g, a, 1) = Around(g, Ball(g, a, 1 - 1))
    BY <2>1, BallRecursion
  <2>. QED
    BY <2>1, <2>2, <2>3
<1>10. \A y : y \in Ball(g, a, 1) <=> y = a \/ <<a, y>> \in g
  <2>1. \A y : y \in Around(g, {a}) <=> y \in {a} \/ \E x \in {a} : <<x, y>> \in g
    BY AroundFacts
  <2>. QED
    BY <1>9, <2>1
<1>11. D = 0 => a = b
  BY <1>1, <1>8, <1>9
<1>12. a # b => P > 1
  BY <1>1 DEF Physical
<1>13. a = b => D = 0
  <2>1. 0 \in 0..(P - 1)
    BY <1>1
  <2>2. a = b => D <= 0
    BY <1>7, <1>9, <2>1
  <2>. QED
    BY <1>6, <2>2
<1>14. D = 1 => <<a, b>> \in g
  <2>. SUFFICES ASSUME D = 1 PROVE <<a, b>> \in g
    OBVIOUS
  <2>1. a # b
    BY <1>13
  <2>2. b \in Ball(g, a, 1)
    BY <1>8, <1>12, <2>1
  <2>. QED
    BY <1>10, <2>1, <2>2
<1>15. <<a, b>> \in g => D <= 1
  <2>. SUFFICES ASSUME <<a, b>> \in g PROVE D <= 1
    OBVIOUS
  <2>1. a # b
    BY EdgeFacts
  <2>2. 1 \in 0..(P - 1)
    BY <1>1, <1>12, <2>1
  <2>. QED
    BY <1>7, <1>10, <2>2
<1>. QED
  BY <1>2, <1>6, <1>7, <1>8, <1>11, <1>14, <1>15

\* A finite set of naturals in increasing order.
LEMMA InOrderLess ==
    ASSUME NEW S \in SUBSET Nat, IsFiniteSet(S)
    PROVE  InOrder(S, <) \in [1..Cardinality(S) -> S] /\ ToSet(InOrder(S, <)) = S
<1>1. PICK R : R = {e \in Nat \X Nat : e[1] < e[2]}
  OBVIOUS
<1>2. \A x, y \in Nat : <<x, y>> \in R <=> x < y
  BY <1>1
<1>3. \A x, y \in S : x # y => <<x, y>> \in R \/ <<y, x>> \in R
  BY <1>2
<1>4. \A x, y, z \in S : <<x, y>> \in R /\ <<y, z>> \in R => <<x, z>> \in R
  BY <1>2
<1>5. PICK s \in [1..Cardinality(S) -> S] :
          ToSet(s) = S /\ \A i, j \in DOMAIN s : i < j => <<s[i], s[j]>> \in R
  <2>1. Orders(R, S)
    BY <1>3, <1>4 DEF Orders
  <2>. QED
    BY <2>1, SortedExists
<1>6. \A i, j \in DOMAIN s : i < j => s[i] < s[j]
  <2>1. \A i \in DOMAIN s : s[i] \in Nat
    BY <1>5
  <2>. QED
    BY <1>2, <1>5, <2>1
<1>. DEFINE Sorted(t) == ToSet(t) = S /\ \A i, j \in DOMAIN t : i < j => t[i] < t[j]
<1>7. \E t \in [1..Cardinality(S) -> S] : Sorted(t)
  BY <1>5, <1>6
<1>8. InOrder(S, <) = CHOOSE t \in [1..Cardinality(S) -> S] : Sorted(t)
  BY DEF InOrder
<1>9. InOrder(S, <) \in [1..Cardinality(S) -> S] /\ Sorted(InOrder(S, <))
  <2>. HIDE DEF Sorted
  <2>. QED
    BY <1>7, <1>8
<1>. QED
  BY <1>9

\* A function on the first naturals is a sequence.
LEMMA FunctionIsSeq ==
    ASSUME NEW n \in Nat, NEW S, NEW T, S \subseteq T, NEW s \in [1..n -> S]
    PROVE  s \in Seq(T)
OBVIOUS

\* The center of a connected device is one of its qubits.
LEMMA CenterFacts ==
    ASSUME NEW g \in SUBSET Edges, HasCenter(g)
    PROVE  Center(g) \in Physical
<1>1. P \in Nat /\ P >= 1 /\ Physical \subseteq Nat
  BY PhysicalFacts
<1>. DEFINE K == {k \in 0..P : \E x \in Physical : Ball(g, x, k) = Physical}
            C(r) == {x \in Physical : Ball(g, x, r) = Physical}
<1>2. P - 1 \in K
  <2>1. 0 \in Physical /\ P - 1 \in 0..P
    BY <1>1 DEF Physical
  <2>2. Ball(g, 0, P - 1) = Physical
    BY <2>1 DEF HasCenter
  <2>. QED
    BY <2>1, <2>2
<1>3. Min(K) \in K
  <2>1. K \in SUBSET Nat
    <3>1. 0..P \in SUBSET Nat
      BY <1>1
    <3>. QED
      BY <3>1
  <2>2. K # {}
    BY <1>2
  <2>. HIDE DEF K
  <2>. QED
    BY <2>1, <2>2, MinFacts
<1>4. C(Min(K)) \in SUBSET Nat /\ C(Min(K)) # {}
  BY <1>1, <1>3
<1>5. Min(C(Min(K))) \in C(Min(K))
  <2>. HIDE DEF C, K
  <2>. QED
    BY <1>4, MinFacts
<1>6. Min(C(Min(K))) \in Physical
  BY <1>5
<1>. QED
  BY <1>6 DEF Center

\* The neighbours of a qubit that are not among some qubits, in order.
LEMMA NewNeighbors ==
    ASSUME NEW g \in SUBSET Edges, NEW x, NEW S
    PROVE  /\ InOrder(Neighbors(g, x) \ S, <) \in Seq(Physical)
           /\ \A i \in DOMAIN InOrder(Neighbors(g, x) \ S, <) : <<x, InOrder(Neighbors(g, x) \ S, <)[i]>> \in g
<1>1. PICK U : U = Neighbors(g, x) \ S
  OBVIOUS
<1>2. U \subseteq Physical
  BY <1>1, GraphFacts
<1>3. U \in SUBSET Nat /\ IsFiniteSet(U)
  BY <1>2, PhysicalFacts, FS_Subset
<1>4. Cardinality(U) \in Nat
  BY <1>3, FS_CardinalityType
<1>5. InOrder(U, <) \in [1..Cardinality(U) -> U]
  BY <1>3, InOrderLess
<1>6. InOrder(U, <) \in Seq(Physical) /\ \A i \in DOMAIN InOrder(U, <) : <<x, InOrder(U, <)[i]>> \in g
  <2>1. PICK s : s = InOrder(U, <)
    OBVIOUS
  <2>2. s \in [1..Cardinality(U) -> U]
    BY <1>5, <2>1
  <2>3. s \in Seq(Physical)
    BY <1>2, <1>4, <2>2, FunctionIsSeq
  <2>4. \A i \in DOMAIN s : s[i] \in Neighbors(g, x)
    BY <1>1, <2>2
  <2>5. \A i \in DOMAIN s : <<x, s[i]>> \in g
    BY <2>4, GraphFacts
  <2>. QED
    BY <2>1, <2>3, <2>5
<1>. QED
  BY <1>1, <1>6

\* A turn of the search: the new neighbours of the i-th qubit join the queue.
Enqueued(g, i, q) ==
    IF i > Len(q) THEN q ELSE q \o InOrder(Neighbors(g, q[i]) \ ToSet(q), <)

\* A queue of a search from a: every qubit after the first was met from one before it.
Searched(g, a, q) ==
    /\ q \in Seq(Physical) /\ q # << >> /\ q[1] = a
    /\ \A i \in 2..Len(q) : \E j \in 1..(i - 1) : <<q[j], q[i]>> \in g

\* A turn of the search makes a queue of a queue.
LEMMA EnqueuedFacts ==
    ASSUME NEW g \in SUBSET Edges, NEW a \in Physical, NEW q, Searched(g, a, q), NEW i \in 1..P
    PROVE  Searched(g, a, Enqueued(g, i, q))
<1>1. q \in Seq(Physical) /\ q # << >> /\ q[1] = a
  BY DEF Searched
<1>2. CASE i > Len(q)
  BY <1>2 DEF Enqueued
<1>3. CASE ~(i > Len(q))
  <2>1. PICK t : t = InOrder(Neighbors(g, q[i]) \ ToSet(q), <)
    OBVIOUS
  <2>2. t \in Seq(Physical) /\ \A k \in DOMAIN t : <<q[i], t[k]>> \in g
    BY <2>1, NewNeighbors
  <2>3. PICK N, M, r : N = Len(q) /\ M = Len(t) /\ r = q \o t
    OBVIOUS
  <2>4. N \in Nat /\ N # 0 /\ M \in Nat /\ DOMAIN t = 1..M /\ P \in Nat
    BY <1>1, <2>2, <2>3, PhysicalFacts
  <2>5. /\ r \in Seq(Physical) /\ Len(r) = N + M
        /\ \A k \in 1..N : r[k] = q[k]
        /\ \A k \in (N + 1)..(N + M) : r[k] = t[k - N]
    BY <1>1, <2>2, <2>3
  <2>6. r # << >> /\ r[1] = a
    <3>1. Len(r) # 0 /\ 1 \in 1..N
      BY <2>4, <2>5
    <3>2. Len(<< >>) = 0
      OBVIOUS
    <3>. QED
      BY <1>1, <2>5, <3>1, <3>2
  <2>7. ASSUME NEW k \in 2..(N + M) PROVE \E j \in 1..(k - 1) : <<r[j], r[k]>> \in g
    <3>1. CASE k <= N
      <4>1. k \in 2..N /\ k \in 1..N /\ \A j \in 1..(k - 1) : j \in 1..N
        BY <2>4, <3>1
      <4>2. PICK j \in 1..(k - 1) : <<q[j], q[k]>> \in g
        BY <2>3, <4>1 DEF Searched
      <4>. QED
        BY <2>5, <4>1, <4>2
    <3>2. CASE ~(k <= N)
      <4>1. k \in (N + 1)..(N + M) /\ k - N \in 1..M /\ i \in 1..N /\ i \in 1..(k - 1)
        BY <1>3, <2>3, <2>4, <3>2
      <4>2. <<q[i], t[k - N]>> \in g
        BY <2>2, <2>4, <4>1
      <4>3. r[k] = t[k - N] /\ r[i] = q[i]
        BY <2>5, <4>1
      <4>. QED
        BY <4>1, <4>2, <4>3
    <3>. QED
      BY <3>1, <3>2
  <2>8. Searched(g, a, r)
    BY <2>5, <2>6, <2>7 DEF Searched
  <2>9. Enqueued(g, i, q) = r
    BY <1>3, <2>1, <2>3 DEF Enqueued
  <2>. QED
    BY <2>8, <2>9
<1>. QED
  BY <1>2, <1>3

\* The search meets qubits of the device, each from one that it met before.
LEMMA BreadthFirstFacts ==
    ASSUME NEW g \in SUBSET Edges, NEW a \in Physical
    PROVE  \E q : Searched(g, a, q) /\ BreadthFirst(g, a) = Tail(q)
<1>1. PICK X, x0 : X = {q \in Seq(Physical) : Searched(g, a, q)} /\ x0 = <<a>>
  OBVIOUS
<1>2. P \in Nat /\ x0 \in X
  <2>1. <<a>> \in Seq(Physical) /\ Len(<<a>>) = 1 /\ <<a>>[1] = a
    OBVIOUS
  <2>2. <<a>> # << >> /\ 2..1 = {}
    OBVIOUS
  <2>3. Searched(g, a, <<a>>)
    BY <2>1, <2>2 DEF Searched
  <2>. QED
    BY <1>1, <2>1, <2>3, PhysicalFacts
<1>3. ASSUME NEW q \in X, NEW i \in 1..P PROVE Enqueued(g, i, q) \in X
  <2>1. Searched(g, a, Enqueued(g, i, q))
    BY <1>1, EnqueuedFacts
  <2>. QED
    BY <1>1, <2>1 DEF Searched
<1>4. PICK F : F = [i \in 1..P |-> [q \in X |-> Enqueued(g, i, q)]]
  OBVIOUS
<1>5. F \in [1..P -> [X -> X]]
  BY <1>3, <1>4
<1>6. PICK h : IsLoop(h, X, x0, P, F)
  BY <1>2, <1>5, LoopExists
<1>. DEFINE Def(f) == f = [i \in 0..P |-> IF i = 0 THEN <<a>> ELSE Enqueued(g, i, f[i - 1])]
<1>7. Def(h)
  <2>1. h = [i \in 0..P |-> h[i]] /\ h[0] = x0
    BY <1>6 DEF IsLoop
  <2>2. \A i \in 0..P : i # 0 => i \in 1..P /\ i - 1 \in 0..P
    BY <1>2
  <2>3. \A i \in 0..P : i # 0 => h[i - 1] \in X /\ h[i] = F[i][h[i - 1]]
    BY <1>6, <2>2 DEF IsLoop
  <2>4. \A i \in 0..P : i # 0 => h[i] = Enqueued(g, i, h[i - 1])
    BY <1>4, <2>2, <2>3
  <2>. QED
    BY <1>1, <2>1, <2>4
<1>8. PICK f : f = CHOOSE b : Def(b)
  OBVIOUS
<1>9. Def(f)
  <2>. HIDE DEF Def
  <2>. QED
    BY <1>7, <1>8
<1>10. Queues(g, a) = f
  BY <1>8 DEF Queues, Enqueued
<1>11. f[0] = x0 /\ \A i \in 1..P : f[i] = Enqueued(g, i, f[i - 1])
  <2>1. 0 \in 0..P /\ \A i \in 1..P : i \in 0..P /\ i # 0
    BY <1>2
  <2>. QED
    BY <1>1, <1>9, <2>1
<1>12. \A i \in 1..P : f[i - 1] \in X => f[i] = F[i][f[i - 1]]
  BY <1>4, <1>11
<1>13. \A i \in 0..P : f[i] \in X
  BY <1>2, <1>5, <1>11, <1>12, LoopTyped
<1>14. f[P] \in X
  BY <1>2, <1>13
<1>15. PICK q : q = f[P]
  OBVIOUS
<1>16. Searched(g, a, q)
  BY <1>1, <1>14, <1>15
<1>. QED
  BY <1>10, <1>15, <1>16 DEF BreadthFirst

\* The neighbor that is preferred is one of those it is chosen from.
LEMMA PreferredFacts ==
    ASSUME NEW g \in SUBSET Edges, NEW qs \in SUBSET Physical, qs # {}
    PROVE  Preferred(g, qs) \in qs
<1>1. \A x : Degree(g, x) \in Nat
  <2>1. \A x : {e \in g : x \in {e[1], e[2]}} \in SUBSET Edges
    OBVIOUS
  <2>2. \A x : IsFiniteSet({e \in g : x \in {e[1], e[2]}})
    BY <2>1, PhysicalFacts
  <2>. QED
    BY <2>2, FS_CardinalityType DEF Degree
<1>2. qs \subseteq Nat /\ IsFiniteSet(qs)
  BY PhysicalFacts, FS_Subset
<1>. DEFINE Better(x, y) == \/ Degree(g, x) > Degree(g, y)
                            \/ Degree(g, x) = Degree(g, y) /\ x <= y
<1>3. PICK R : R = {e \in qs \X qs : Better(e[2], e[1])}
  OBVIOUS
<1>4. \A x, y \in qs : <<x, y>> \in R <=> Better(y, x)
  <2>. HIDE DEF Better
  <2>. QED
    BY <1>3
<1>5. \A x, y \in qs : Better(x, y) \/ Better(y, x)
  BY <1>1, <1>2
<1>6. \A x, y, z \in qs : Better(x, y) /\ Better(y, z) => Better(x, z)
  BY <1>1, <1>2
<1>7. \A x \in qs : Better(x, x)
  BY <1>1, <1>2
<1>8. \E m \in qs : \A x \in qs : Better(m, x)
  <2>. HIDE DEF Better
  <2>1. \A x, y \in qs : x # y => <<x, y>> \in R \/ <<y, x>> \in R
    BY <1>4, <1>5
  <2>2. \A x, y, z \in qs : <<x, y>> \in R /\ <<y, z>> \in R => <<x, z>> \in R
    BY <1>4, <1>6
  <2>3. qs \in SUBSET qs
    OBVIOUS
  <2>4. \A T \in SUBSET qs : T # {} => \E m \in T : \A x \in T : x # m => <<x, m>> \in R
    <3>1. Orders(R, qs)
      BY <2>1, <2>2 DEF Orders
    <3>2. IsFiniteSet(qs)
      BY <1>2
    <3>. QED
      BY <3>1, <3>2, GreatestExists
  <2>5. PICK m \in qs : \A x \in qs : x # m => <<x, m>> \in R
    BY <2>3, <2>4
  <2>. QED
    BY <1>4, <1>7, <2>5
<1>9. Preferred(g, qs) = CHOOSE x \in qs : \A y \in qs : Better(x, y)
  BY DEF Preferred
<1>. HIDE DEF Better
<1>. QED
  BY <1>8, <1>9

\* A place p that is free, next to one that is not; or the first place of all.
NextTo(g, current, mapped, p) ==
    /\ p \in Physical \ mapped
    /\ (current \notin mapped /\ p = current) \/ \E w \in mapped : <<w, p>> \in g

\* The first place that a search meets and that is free has been met from one that
\* is not.
LEMMA ClosestFacts ==
    ASSUME NEW g \in SUBSET Edges, NEW current, NEW source \in Physical, NEW mapped, source \in mapped
    PROVE  \/ ClosestUnmapped(g, source, mapped) = P
           \/ NextTo(g, current, mapped, ClosestUnmapped(g, source, mapped))
<1>1. PICK q : Searched(g, source, q) /\ BreadthFirst(g, source) = Tail(q)
  BY BreadthFirstFacts
<1>2. PICK met, N, S : met = Tail(q) /\ N = Len(q) /\ S = {i \in DOMAIN met : met[i] \notin mapped}
  OBVIOUS
<1>3. q \in Seq(Physical) /\ q # << >> /\ q[1] = source
  BY <1>1 DEF Searched
<1>4. /\ N \in Nat /\ N >= 1 /\ DOMAIN met = 1..(N - 1) /\ \A i \in 1..(N - 1) : met[i] = q[i + 1]
      /\ \A i \in 1..N : q[i] \in Physical
  BY <1>2, <1>3
<1>5. S \in SUBSET Nat
  BY <1>2, <1>4
<1>6. CASE S = {}
  BY <1>1, <1>2, <1>6 DEF ClosestUnmapped
<1>7. CASE S # {}
  <2>1. PICK k : k = Min(S)
    OBVIOUS
  <2>2. k \in S /\ \A y \in S : k <= y
    BY <1>5, <1>7, <2>1, MinFacts
  <2>3. ClosestUnmapped(g, source, mapped) = met[k]
    BY <1>1, <1>2, <1>7, <2>1 DEF ClosestUnmapped
  <2>4. k \in 1..(N - 1) /\ met[k] \notin mapped /\ met[k] = q[k + 1]
    BY <1>2, <1>4, <2>2
  <2>5. k + 1 \in 2..N /\ k + 1 \in 1..N /\ (k + 1) - 1 = k
    BY <1>4, <2>4
  <2>6. PICK j \in 1..k : <<q[j], q[k + 1]>> \in g
    <3>1. \E j \in 1..((k + 1) - 1) : <<q[j], q[k + 1]>> \in g
      BY <1>1, <1>2, <2>5 DEF Searched
    <3>. QED
      BY <2>5, <3>1
  <2>7. q[j] \in mapped
    <3>1. CASE j = 1
      BY <1>3, <3>1
    <3>2. CASE j # 1
      <4>1. PICK i : i = j - 1
        OBVIOUS
      <4>2. i \in 1..(N - 1) /\ i + 1 = j /\ ~(k <= i)
        BY <1>4, <2>4, <3>2, <4>1
      <4>3. i \notin S
        BY <2>2, <4>2
      <4>. QED
        BY <1>2, <1>4, <4>2, <4>3
    <3>. QED
      BY <3>1, <3>2
  <2>8. NextTo(g, current, mapped, met[k])
    BY <1>4, <2>4, <2>5, <2>6, <2>7 DEF NextTo
  <2>. QED
    BY <2>3, <2>8
<1>. QED
  BY <1>6, <1>7

\* A qubit is placed where there is none, next to a place that is taken.
LEMMA NextPhysicalFacts ==
    ASSUME NEW g \in SUBSET Edges, NEW current \in Physical, NEW mapped, NEW source \in Physical,
           NEW isolated \in BOOLEAN, current \in mapped => source \in mapped
    PROVE  \/ NextPhysical(g, current, mapped, source, isolated) = P
           \/ NextTo(g, current, mapped, NextPhysical(g, current, mapped, source, isolated))
<1>1. PICK free, p : /\ free = Neighbors(g, current) \ mapped
                     /\ p = NextPhysical(g, current, mapped, source, isolated)
  OBVIOUS
<1>2. CASE current \notin mapped
  <2>1. p = current
    BY <1>1, <1>2 DEF NextPhysical
  <2>. QED
    BY <1>1, <1>2, <2>1 DEF NextTo
<1>3. CASE current \in mapped /\ ~isolated /\ free # {}
  <2>1. p = Preferred(g, free)
    BY <1>1, <1>3 DEF NextPhysical
  <2>2. free \in SUBSET Physical
    BY <1>1, GraphFacts
  <2>3. p \in free
    BY <1>3, <2>1, <2>2, PreferredFacts
  <2>4. p \in Physical \ mapped /\ p \in Neighbors(g, current)
    BY <1>1, <2>2, <2>3
  <2>5. <<current, p>> \in g
    BY <2>4, GraphFacts
  <2>. QED
    BY <1>1, <1>3, <2>4, <2>5 DEF NextTo
<1>4. CASE current \in mapped /\ ~(~isolated /\ free # {})
  <2>1. p = ClosestUnmapped(g, source, mapped)
    BY <1>1, <1>4 DEF NextPhysical
  <2>. QED
    BY <1>1, <1>4, <2>1, ClosestFacts
<1>. QED
  BY <1>2, <1>3, <1>4
-----------------------------------------------------------------------------
(* The lines of the circuit's qubits *)

\* A sequence read backwards.
LEMMA ReverseFacts ==
    ASSUME NEW T, NEW s \in Seq(T)
    PROVE  Reverse(s) \in Seq(T) /\ Len(Reverse(s)) = Len(s) /\ ToSet(Reverse(s)) = ToSet(s)
<1>1. PICK L : L = Len(s)
  OBVIOUS
<1>2. L \in Nat /\ DOMAIN s = 1..L /\ \A i \in 1..L : s[i] \in T
  BY <1>1
<1>3. \A i \in 1..L : (L - i) + 1 \in 1..L /\ (L - ((L - i) + 1)) + 1 = i
  BY <1>2
<1>4. PICK r : r = [i \in 1..L |-> s[(L - i) + 1]]
  OBVIOUS
<1>5. r = Reverse(s)
  BY <1>1, <1>4 DEF Reverse
<1>6. r \in [1..L -> T]
  BY <1>2, <1>3, <1>4
<1>7. r \in Seq(T) /\ Len(r) = L /\ DOMAIN r = 1..L
  BY <1>2, <1>4, <1>6
<1>8. \A x : (\E i \in 1..L : x = r[i]) <=> (\E i \in 1..L : x = s[i])
  BY <1>3, <1>4
<1>9. ToSet(r) = ToSet(s)
  BY <1>2, <1>7, <1>8 DEF ToSet
<1>. QED
  BY <1>1, <1>5, <1>7, <1>9

\* One more qubit at a line.
JoinedAt(q0, x, line) == IF Head(line) = q0 THEN <<x>> \o line ELSE Append(line, x)

\* A line keeps its qubits when one is put at it.
LEMMA JoinedAtFacts ==
    ASSUME NEW T, NEW line \in Seq(T) \ {<< >>}, NEW x \in T, NEW q0
    PROVE  /\ JoinedAt(q0, x, line) \in Seq(T) \ {<< >>}
           /\ Len(JoinedAt(q0, x, line)) = Len(line) + 1
           /\ ToSet(JoinedAt(q0, x, line)) = ToSet(line) \cup {x}
<1>1. line \in Seq(T) /\ Len(line) \in Nat
  OBVIOUS
<1>2. <<x>> \in Seq(T) /\ Len(<<x>>) = 1 /\ ToSet(<<x>>) = {x}
  BY SingleSet
<1>3. <<x>> \o line \in Seq(T) /\ Len(<<x>> \o line) = Len(line) + 1
  BY <1>1, <1>2
<1>4. ToSet(<<x>> \o line) = ToSet(line) \cup {x}
  <2>1. ToSet(<<x>> \o line) = ToSet(<<x>>) \cup ToSet(line)
    BY <1>1, <1>2, ConcatSet
  <2>. QED
    BY <1>2, <2>1
<1>5. Append(line, x) \in Seq(T) /\ Len(Append(line, x)) = Len(line) + 1
  BY <1>1
<1>6. ToSet(Append(line, x)) = ToSet(line) \cup {x}
  BY <1>1, AppendSet
<1>7. PICK r : r = JoinedAt(q0, x, line)
  OBVIOUS
<1>8. r \in Seq(T) /\ Len(r) = Len(line) + 1 /\ ToSet(r) = ToSet(line) \cup {x}
  <2>1. CASE Head(line) = q0
    <3>1. r = <<x>> \o line
      BY <1>7, <2>1 DEF JoinedAt
    <3>. QED
      BY <1>3, <1>4, <3>1
  <2>2. CASE Head(line) # q0
    <3>1. r = Append(line, x)
      BY <1>7, <2>2 DEF JoinedAt
    <3>. QED
      BY <1>5, <1>6, <3>1
  <2>. QED
    BY <2>1, <2>2
<1>9. r # << >>
  <2>1. Len(r) # 0 /\ Len(<< >>) = 0
    BY <1>1, <1>8
  <2>. QED
    BY <2>1
<1>. QED
  BY <1>7, <1>8, <1>9

\* A line with another one put at it has the qubits of both.
LEMMA JoinedFacts ==
    ASSUME NEW T, NEW line \in Seq(T) \ {<< >>}, NEW order \in Seq(T), NEW q0
    PROVE  /\ Joined(line, q0, order)[Len(order)] \in Seq(T) \ {<< >>}
           /\ Len(Joined(line, q0, order)[Len(order)]) = Len(line) + Len(order)
           /\ ToSet(Joined(line, q0, order)[Len(order)]) = ToSet(line) \cup ToSet(order)
<1>1. PICK X, L : X = Seq(T) \ {<< >>} /\ L = Len(order)
  OBVIOUS
<1>2. L \in Nat /\ line \in X /\ DOMAIN order = 1..L /\ \A n \in 1..L : order[n] \in T
  BY <1>1
<1>3. ASSUME NEW x \in X, NEW n \in 1..L
      PROVE  /\ JoinedAt(q0, order[n], x) \in X /\ Len(JoinedAt(q0, order[n], x)) = Len(x) + 1
             /\ ToSet(JoinedAt(q0, order[n], x)) = ToSet(x) \cup {order[n]}
  <2>1. PICK o : o = order[n]
    OBVIOUS
  <2>2. o \in T /\ x \in Seq(T) \ {<< >>}
    BY <1>1, <1>2, <2>1
  <2>3. /\ JoinedAt(q0, o, x) \in Seq(T) \ {<< >>} /\ Len(JoinedAt(q0, o, x)) = Len(x) + 1
        /\ ToSet(JoinedAt(q0, o, x)) = ToSet(x) \cup {o}
    BY <2>2, JoinedAtFacts
  <2>. QED
    BY <1>1, <2>1, <2>3
<1>4. PICK F : F = [n \in 1..L |-> [x \in X |-> JoinedAt(q0, order[n], x)]]
  OBVIOUS
<1>5. F \in [1..L -> [X -> X]]
  BY <1>3, <1>4
<1>6. PICK h : IsLoop(h, X, line, L, F)
  BY <1>2, <1>5, LoopExists
<1>. DEFINE Def(f) == f = [n \in 0..Len(order) |-> IF n = 0 THEN line ELSE JoinedAt(q0, order[n], f[n - 1])]
<1>7. Def(h)
  <2>1. h = [n \in 0..L |-> h[n]] /\ h[0] = line
    BY <1>6 DEF IsLoop
  <2>2. \A n \in 0..L : n # 0 => n \in 1..L /\ n - 1 \in 0..L
    BY <1>2
  <2>3. \A n \in 0..L : n # 0 => h[n - 1] \in X /\ h[n] = F[n][h[n - 1]]
    BY <1>6, <2>2 DEF IsLoop
  <2>4. \A n \in 0..L : n # 0 => h[n] = JoinedAt(q0, order[n], h[n - 1])
    BY <1>4, <2>2, <2>3
  <2>. QED
    BY <1>1, <2>1, <2>4
<1>8. PICK f : f = CHOOSE b : Def(b)
  OBVIOUS
<1>9. Def(f)
  <2>. HIDE DEF Def
  <2>. QED
    BY <1>7, <1>8
<1>10. Joined(line, q0, order) = f
  BY <1>8 DEF Joined, JoinedAt
<1>11. f[0] = line /\ \A n \in 1..L : f[n] = JoinedAt(q0, order[n], f[n - 1])
  <2>1. 0 \in 0..L /\ \A n \in 1..L : n \in 0..L /\ n # 0
    BY <1>2
  <2>. QED
    BY <1>1, <1>9, <2>1
<1>12. \A n \in 1..L : f[n - 1] \in X => f[n] = F[n][f[n - 1]]
  BY <1>4, <1>11
<1>13. \A n \in 0..L : f[n] \in X
  BY <1>2, <1>5, <1>11, <1>12, LoopTyped
<1>. DEFINE Has(x, n) == \E i \in 1..n : x = order[i]
            Good == {n \in 0..L : /\ Len(f[n]) = Len(line) + n
                                  /\ \A x : x \in ToSet(f[n]) <=> x \in ToSet(line) \/ Has(x, n)}
<1>14. 0 \in Good
  <2>1. Len(line) \in Nat /\ 1..0 = {} /\ 0 \in 0..L
    BY <1>1, <1>2
  <2>. QED
    BY <1>11, <2>1
<1>15. ASSUME NEW n \in 1..L, n - 1 \in Good PROVE n \in Good
  <2>1. PICK m, u : m = n - 1 /\ u = f[m]
    OBVIOUS
  <2>2. m \in 0..L /\ n = m + 1 /\ n \in 0..L /\ 1..n = (1..m) \cup {n} /\ u \in X /\ Len(line) \in Nat
    BY <1>1, <1>2, <1>13, <2>1
  <2>3. Len(u) = Len(line) + m /\ \A x : x \in ToSet(u) <=> x \in ToSet(line) \/ Has(x, m)
    BY <1>15, <2>1
  <2>4. f[n] = JoinedAt(q0, order[n], u)
    BY <1>11, <2>1
  <2>5. Len(f[n]) = Len(u) + 1 /\ ToSet(f[n]) = ToSet(u) \cup {order[n]}
    BY <1>3, <2>2, <2>4
  <2>6. \A x : Has(x, n) <=> Has(x, m) \/ x = order[n]
    BY <2>2
  <2>7. Len(f[n]) = Len(line) + n
    BY <2>2, <2>3, <2>5
  <2>8. \A x : x \in ToSet(f[n]) <=> x \in ToSet(line) \/ Has(x, n)
    <3>. HIDE DEF Has
    <3>. QED
      BY <2>3, <2>5, <2>6
  <2>. QED
    BY <2>2, <2>7, <2>8
<1>16. L \in Good
  <2>1. L \in 0..L
    BY <1>2
  <2>. HIDE DEF Good
  <2>. QED
    BY <1>2, <1>14, <1>15, <2>1, TurnInduction
<1>17. ToSet(f[L]) = ToSet(line) \cup ToSet(order)
  <2>1. \A x : x \in ToSet(order) <=> Has(x, L)
    BY <1>2 DEF ToSet
  <2>2. \A x : x \in ToSet(f[L]) <=> x \in ToSet(line) \/ Has(x, L)
    BY <1>16
  <2>. HIDE DEF Has
  <2>. QED
    BY <2>1, <2>2
<1>18. f[L] \in X /\ Len(f[L]) = Len(line) + L
  BY <1>2, <1>13, <1>16
<1>. QED
  BY <1>1, <1>10, <1>17, <1>18

\* The line of a qubit.
LineOf(g, q) == g.line[g.component[q]]

\* Lines of the qubits qs.
LineType(g, qs) ==
    /\ g = [line |-> g.line, component |-> g.component, partner |-> g.partner]
    /\ g.line \in [qs -> Seq(qs) \ {<< >>}]
    /\ g.component \in [qs -> qs] /\ g.partner \in [qs -> qs]

\* Every qubit is in its line and in no other that is in use.
LineHolds(g, qs) ==
    /\ \A q \in qs : q \in ToSet(LineOf(g, q))
    /\ \A q \in qs : \A x \in ToSet(LineOf(g, q)) : g.component[x] = g.component[q]

\* The partner of a lone qubit is in a line of several.
PartnerHolds(g, qs) ==
    \A q \in qs : g.partner[q] # q /\ Len(LineOf(g, q)) = 1 => Len(LineOf(g, g.partner[q])) >= 2

\* No qubit is twice in a line.
LineSized(g, qs) == \A q \in qs : Sized(LineOf(g, q))

LineInv(g, qs) == LineType(g, qs) /\ LineHolds(g, qs) /\ LineSized(g, qs) /\ PartnerHolds(g, qs)

\* The lines h are the lines g with the line c1 put at the line c0.
Merged(g, h, qs, c0, c1) ==
    /\ LineType(h, qs)
    /\ h.partner = g.partner
    /\ \A c \in qs : c # c0 => h.line[c] = g.line[c]
    /\ Len(h.line[c0]) = Len(g.line[c0]) + Len(g.line[c1])
    /\ ToSet(h.line[c0]) = ToSet(g.line[c0]) \cup ToSet(g.line[c1])
    /\ \A q \in qs : h.component[q] = IF q \in ToSet(g.line[c1]) THEN c0 ELSE g.component[q]

\* CopyLine puts one line at another.
LEMMA CopyLineFacts ==
    ASSUME NEW qs, NEW g, LineType(g, qs), NEW c0 \in qs, NEW c1 \in qs, NEW q0, NEW q1
    PROVE  Merged(g, CopyLine(g, c0, q0, c1, q1), qs, c0, c1)
<1>1. PICK a, b : a = g.line[c0] /\ b = g.line[c1]
  OBVIOUS
<1>2. a \in Seq(qs) \ {<< >>} /\ b \in Seq(qs)
  BY <1>1 DEF LineType
<1>3. PICK order : order = IF Last(b) = q1 THEN Reverse(b) ELSE b
  OBVIOUS
<1>4. order \in Seq(qs) /\ Len(order) = Len(b) /\ ToSet(order) = ToSet(b)
  BY <1>2, <1>3, ReverseFacts
<1>5. PICK j : j = Joined(a, q0, order)[Len(order)]
  OBVIOUS
<1>6. j \in Seq(qs) \ {<< >>} /\ Len(j) = Len(a) + Len(order) /\ ToSet(j) = ToSet(a) \cup ToSet(order)
  BY <1>2, <1>4, <1>5, JoinedFacts
<1>7. PICK h : h = CopyLine(g, c0, q0, c1, q1)
  OBVIOUS
<1>8. h = [g EXCEPT !.line[c0] = j,
                    !.component = [q \in DOMAIN @ |-> IF q \in ToSet(order) THEN c0 ELSE @[q]]]
  BY <1>1, <1>3, <1>5, <1>7 DEF CopyLine
<1>9. h = [line |-> [g.line EXCEPT ![c0] = j],
           component |-> [q \in DOMAIN g.component |-> IF q \in ToSet(order) THEN c0 ELSE g.component[q]],
           partner |-> g.partner]
  BY <1>8 DEF LineType
<1>10. h.line = [g.line EXCEPT ![c0] = j] /\ h.partner = g.partner
  BY <1>9
<1>11. h.component = [q \in qs |-> IF q \in ToSet(order) THEN c0 ELSE g.component[q]]
  BY <1>9 DEF LineType
<1>12. PICK S : S = Seq(qs) \ {<< >>}
  OBVIOUS
<1>13. g.line \in [qs -> S] /\ j \in S
  BY <1>6, <1>12 DEF LineType
<1>14. h.line \in [qs -> S] /\ h.line[c0] = j /\ \A c \in qs : c # c0 => h.line[c] = g.line[c]
  BY <1>10, <1>13
<1>15. h.component \in [qs -> qs]
  BY <1>11 DEF LineType
<1>16. LineType(h, qs)
  BY <1>9, <1>10, <1>12, <1>14, <1>15 DEF LineType
<1>17. \A q \in qs : h.component[q] = IF q \in ToSet(b) THEN c0 ELSE g.component[q]
  BY <1>4, <1>11
<1>18. Len(h.line[c0]) = Len(a) + Len(b) /\ ToSet(h.line[c0]) = ToSet(a) \cup ToSet(b)
  BY <1>4, <1>6, <1>14
<1>. QED
  BY <1>1, <1>7, <1>10, <1>14, <1>16, <1>17, <1>18 DEF Merged

\* A line of one qubit.
LEMMA LoneLine ==
    ASSUME NEW qs, NEW line \in Seq(qs), Len(line) = 1, NEW q, q \in ToSet(line)
    PROVE  Head(line) = q /\ \A x \in ToSet(line) : x = q
<1>1. DOMAIN line = {1} /\ Head(line) = line[1]
  OBVIOUS
<1>. QED
  BY <1>1 DEF ToSet

\* Two lines in use become one.
LEMMA MergedKeeps ==
    ASSUME NEW qs, NEW g, LineType(g, qs), LineHolds(g, qs), LineSized(g, qs), NEW h, NEW a \in qs, NEW b \in qs,
           g.component[a] # g.component[b], Merged(g, h, qs, g.component[a], g.component[b]),
           \A q \in qs : /\ g.component[q] \notin {g.component[a], g.component[b]}
                         /\ g.partner[q] # q /\ Len(LineOf(g, q)) = 1
                         => Len(LineOf(g, g.partner[q])) >= 2
    PROVE  LineInv(h, qs)
<1>1. PICK c0, c1 : c0 = g.component[a] /\ c1 = g.component[b]
  OBVIOUS
<1>2. c0 \in qs /\ c1 \in qs /\ c0 # c1 /\ Merged(g, h, qs, c0, c1)
  BY <1>1 DEF LineType
<1>3. \A q \in qs : g.component[q] \in qs
  BY DEF LineType
<1>4. \A q \in qs : q \in ToSet(g.line[c1]) <=> g.component[q] = c1
  BY <1>1 DEF LineHolds, LineOf
<1>5. \A q \in qs : q \in ToSet(g.line[c0]) <=> g.component[q] = c0
  BY <1>1 DEF LineHolds, LineOf
<1>6. \A q \in qs : h.component[q] = IF g.component[q] = c1 THEN c0 ELSE g.component[q]
  BY <1>2, <1>4 DEF Merged
<1>7. \A q \in qs : h.component[q] = c0 <=> g.component[q] \in {c0, c1}
  BY <1>2, <1>6
<1>8. \A q \in qs : g.component[q] \notin {c0, c1} => LineOf(h, q) = LineOf(g, q) /\ h.component[q] = g.component[q]
  BY <1>2, <1>3, <1>6 DEF Merged, LineOf
<1>9. \A q \in qs : g.component[q] \in {c0, c1} =>
          ToSet(LineOf(h, q)) = ToSet(g.line[c0]) \cup ToSet(g.line[c1])
  BY <1>2, <1>7 DEF Merged, LineOf
<1>10. \A q \in qs : ToSet(LineOf(g, q)) \subseteq qs
  <2>1. ASSUME NEW q \in qs PROVE ToSet(LineOf(g, q)) \subseteq qs
    <3>1. PICK l : l = LineOf(g, q)
      OBVIOUS
    <3>2. l \in Seq(qs)
      BY <1>3, <3>1 DEF LineType, LineOf
    <3>3. ToSet(l) \subseteq qs
      BY <3>2, SeqFacts
    <3>. QED
      BY <3>1, <3>3
  <2>. QED
    BY <2>1
<1>11. LineHolds(h, qs)
  <2>1. ASSUME NEW q \in qs PROVE q \in ToSet(LineOf(h, q))
    <3>1. CASE g.component[q] \in {c0, c1}
      BY <1>4, <1>5, <1>9, <3>1
    <3>2. CASE g.component[q] \notin {c0, c1}
      BY <1>8, <3>2 DEF LineHolds
    <3>. QED
      BY <3>1, <3>2
  <2>2. ASSUME NEW q \in qs, NEW x \in ToSet(LineOf(h, q)) PROVE h.component[x] = h.component[q]
    <3>1. CASE g.component[q] \in {c0, c1}
      <4>1. x \in ToSet(g.line[c0]) \cup ToSet(g.line[c1])
        BY <1>9, <3>1
      <4>2. x \in qs
        BY <1>1, <1>10, <4>1 DEF LineOf
      <4>3. g.component[x] \in {c0, c1}
        BY <1>4, <1>5, <4>1, <4>2
      <4>. QED
        BY <1>7, <3>1, <4>2, <4>3
    <3>2. CASE g.component[q] \notin {c0, c1}
      <4>1. x \in ToSet(LineOf(g, q))
        BY <1>8, <3>2
      <4>2. x \in qs /\ g.component[x] = g.component[q]
        BY <1>10, <4>1 DEF LineHolds
      <4>. QED
        BY <1>8, <3>2, <4>2
    <3>. QED
      BY <3>1, <3>2
  <2>. QED
    BY <2>1, <2>2 DEF LineHolds
<1>12. Len(h.line[c0]) >= 2
  <2>1. PICK s, t : s = g.line[c0] /\ t = g.line[c1]
    OBVIOUS
  <2>2. s \in Seq(qs) \ {<< >>} /\ t \in Seq(qs) \ {<< >>}
    BY <1>2, <2>1 DEF LineType
  <2>3. Len(s) \in Nat /\ Len(t) \in Nat /\ Len(s) # 0 /\ Len(t) # 0
    BY <2>2
  <2>4. Len(h.line[c0]) = Len(s) + Len(t)
    BY <1>2, <2>1 DEF Merged
  <2>. QED
    BY <2>3, <2>4
<1>13. \A q \in qs : g.component[q] \in {c0, c1} => Len(LineOf(h, q)) >= 2
  BY <1>7, <1>12 DEF LineOf
<1>15. LineSized(h, qs)
  <2>1. PICK s, t, u : s = g.line[c0] /\ t = g.line[c1] /\ u = h.line[c0]
    OBVIOUS
  <2>2. s \in Seq(qs) /\ t \in Seq(qs)
    BY <1>2, <2>1 DEF LineType
  <2>3. Sized(s) /\ Sized(t)
    BY <1>1, <2>1 DEF LineSized, LineOf
  <2>4. ToSet(s) \cap ToSet(t) = {}
    <3>1. ToSet(s) \subseteq qs
      BY <2>2, SeqFacts
    <3>. QED
      BY <1>2, <1>4, <1>5, <2>1, <3>1
  <2>5. ToSet(u) = ToSet(s) \cup ToSet(t) /\ Len(u) = Len(s) + Len(t)
    BY <1>2, <2>1 DEF Merged
  <2>6. Sized(u)
    BY <2>2, <2>3, <2>4, <2>5, SizedUnion
  <2>7. \A q \in qs : g.component[q] \in {c0, c1} => Sized(LineOf(h, q))
    BY <1>7, <2>1, <2>6 DEF LineOf
  <2>8. \A q \in qs : g.component[q] \notin {c0, c1} => Sized(LineOf(h, q))
    BY <1>8 DEF LineSized
  <2>. QED
    BY <2>7, <2>8 DEF LineSized
<1>14. PartnerHolds(h, qs)
  <2>. SUFFICES ASSUME NEW q \in qs, h.partner[q] # q, Len(LineOf(h, q)) = 1
                PROVE  Len(LineOf(h, h.partner[q])) >= 2
    BY DEF PartnerHolds
  <2>1. PICK p : p = g.partner[q]
    OBVIOUS
  <2>2. p = h.partner[q] /\ p \in qs
    BY <1>2, <2>1 DEF Merged, LineType
  <2>3. g.component[q] \notin {c0, c1}
    <3>1. ~(1 >= 2)
      OBVIOUS
    <3>. QED
      BY <1>13, <3>1
  <2>4. Len(LineOf(g, q)) = 1
    BY <1>8, <2>3
  <2>5. Len(LineOf(g, p)) >= 2
    BY <1>1, <1>2, <2>1, <2>2, <2>3, <2>4 DEF Merged
  <2>6. CASE g.component[p] \in {c0, c1}
    BY <1>13, <2>2, <2>6
  <2>7. CASE g.component[p] \notin {c0, c1}
    BY <1>8, <2>2, <2>5, <2>7
  <2>. QED
    BY <2>6, <2>7
<1>. QED
  BY <1>2, <1>11, <1>14, <1>15 DEF LineInv, Merged

\* Before the first gate every qubit is a line of its own.
LEMMA NoLinesFacts ==
    ASSUME NEW qs
    PROVE  LineInv(NoLines(qs), qs)
<1>1. PICK g : g = NoLines(qs)
  OBVIOUS
<1>2. g.line = [q \in qs |-> <<q>>] /\ g.component = [q \in qs |-> q] /\ g.partner = [q \in qs |-> q]
  BY <1>1 DEF NoLines
<1>3. g = [line |-> g.line, component |-> g.component, partner |-> g.partner]
  BY <1>1 DEF NoLines
<1>4. \A q \in qs : <<q>> \in Seq(qs) \ {<< >>} /\ ToSet(<<q>>) = {q}
  <2>1. ASSUME NEW q \in qs PROVE <<q>> \in Seq(qs) \ {<< >>} /\ ToSet(<<q>>) = {q}
    <3>1. <<q>> \in Seq(qs) /\ ToSet(<<q>>) = {q}
      BY SingleSet
    <3>2. <<q>> # << >>
      OBVIOUS
    <3>. QED
      BY <3>1, <3>2
  <2>. QED
    BY <2>1
<1>5. g.line \in [qs -> Seq(qs) \ {<< >>}]
  BY <1>2, <1>4
<1>6. g.component \in [qs -> qs] /\ g.partner \in [qs -> qs]
  BY <1>2
<1>7. \A q \in qs : ToSet(LineOf(g, q)) = {q} /\ g.component[q] = q /\ g.partner[q] = q
  BY <1>2, <1>4 DEF LineOf
<1>9. LineSized(g, qs)
  <2>1. \A q \in qs : Cardinality({q}) = 1 /\ Len(<<q>>) = 1
    BY FS_Singleton
  <2>2. \A q \in qs : Sized(<<q>>)
    BY <1>4, <2>1 DEF Sized
  <2>3. \A q \in qs : LineOf(g, q) = <<q>>
    BY <1>2 DEF LineOf
  <2>. QED
    BY <2>2, <2>3 DEF LineSized
<1>8. LineHolds(g, qs) /\ PartnerHolds(g, qs)
  BY <1>7 DEF LineHolds, PartnerHolds
<1>. QED
  BY <1>1, <1>3, <1>5, <1>6, <1>8, <1>9 DEF LineInv, LineType

\* The qubits of a gate on two become partners.
Meet(g, q0, q1) ==
    [g EXCEPT !.partner = [g.partner EXCEPT ![q0] = IF @ = q0 THEN q1 ELSE @,
                                            ![q1] = IF @ = q1 THEN q0 ELSE @]]

\* A gate joins the lines of its qubits or leaves them.
LEMMA AddEdgeFacts ==
    ASSUME NEW qs, NEW g, LineInv(g, qs), NEW op, op.qubits[1] \in qs, op.qubits[2] \in qs
    PROVE  LineInv(AddEdge(g, op), qs)
<1>1. PICK q0, q1, c0, c1, met : /\ q0 = op.qubits[1] /\ q1 = op.qubits[2]
                                 /\ c0 = g.component[q0] /\ c1 = g.component[q1]
                                 /\ met = Meet(g, q0, q1)
  OBVIOUS
<1>2. q0 \in qs /\ q1 \in qs /\ c0 \in qs /\ c1 \in qs
  BY <1>1 DEF LineInv, LineType
<1>4. PICK p2 : p2 = [g.partner EXCEPT ![q0] = IF @ = q0 THEN q1 ELSE @,
                                       ![q1] = IF @ = q1 THEN q0 ELSE @]
  OBVIOUS
<1>5. met = [line |-> g.line, component |-> g.component, partner |-> p2]
  <2>1. Meet(g, q0, q1) = [g EXCEPT !.partner = p2]
    BY <1>4 DEF Meet
  <2>2. g = [line |-> g.line, component |-> g.component, partner |-> g.partner]
    BY DEF LineInv, LineType
  <2>. QED
    BY <1>1, <2>1, <2>2
<1>6. p2 \in [qs -> qs]
  BY <1>2, <1>4 DEF LineInv, LineType
<1>7. \A q \in qs : \/ p2[q] = g.partner[q]
                    \/ q = q0 /\ p2[q] \in {q0, q1}
                    \/ q = q1 /\ p2[q] \in {q0, q1}
  BY <1>2, <1>4, <1>6 DEF LineInv, LineType
<1>8. met.line = g.line /\ met.component = g.component /\ met.partner = p2
  BY <1>5
<1>9. LineType(met, qs) /\ LineHolds(met, qs) /\ LineSized(met, qs)
  BY <1>5, <1>6, <1>8 DEF LineInv, LineType, LineHolds, LineSized, LineOf
<1>10. \A q \in qs : LineOf(g, q) \in Seq(qs) \ {<< >>} /\ q \in ToSet(LineOf(g, q))
  BY DEF LineInv, LineType, LineHolds, LineOf
<1>11. \A q \in qs : Len(LineOf(g, q)) = 1 => DegreeLtTwo(g, q)
  <2>1. ASSUME NEW q \in qs, Len(LineOf(g, q)) = 1 PROVE DegreeLtTwo(g, q)
    <3>1. PICK l : l = LineOf(g, q)
      OBVIOUS
    <3>2. l \in Seq(qs) /\ q \in ToSet(l) /\ Len(l) = 1
      BY <1>10, <2>1, <3>1
    <3>3. Head(l) = q
      BY <3>2, LoneLine
    <3>. QED
      BY <3>1, <3>3 DEF DegreeLtTwo, LineOf
  <2>. QED
    BY <2>1
<1>12. \A q \in qs : Len(LineOf(g, q)) >= 2 \/ Len(LineOf(g, q)) = 1
  <2>1. ASSUME NEW q \in qs PROVE Len(LineOf(g, q)) >= 2 \/ Len(LineOf(g, q)) = 1
    <3>1. PICK l : l = LineOf(g, q)
      OBVIOUS
    <3>2. l \in Seq(qs) /\ l # << >>
      BY <1>10, <3>1
    <3>3. Len(l) \in Nat /\ Len(l) # 0
      BY <3>2
    <3>. QED
      BY <3>1, <3>3
  <2>. QED
    BY <2>1
<1>13. ASSUME Len(LineOf(g, q0)) = 1 \/ Len(LineOf(g, q1)) = 1, c0 = c1 PROVE q0 = q1
  <2>1. LineOf(g, q0) = LineOf(g, q1)
    BY <1>1, <1>13 DEF LineOf
  <2>2. PICK l : l = LineOf(g, q0)
    OBVIOUS
  <2>3. l \in Seq(qs) /\ q0 \in ToSet(l) /\ q1 \in ToSet(l) /\ Len(l) = 1
    BY <1>2, <1>10, <1>13, <2>1, <2>2
  <2>. QED
    BY <2>3, LoneLine
<1>14. CASE ~(DegreeLtTwo(g, q0) /\ DegreeLtTwo(g, q1) /\ c0 # c1)
  <2>1. AddEdge(g, op) = met
    BY <1>1, <1>14 DEF AddEdge, Meet
  <2>2. PartnerHolds(met, qs)
    <3>. SUFFICES ASSUME NEW q \in qs, p2[q] # q, Len(LineOf(g, q)) = 1
                  PROVE  Len(LineOf(g, p2[q])) >= 2
      BY <1>8 DEF PartnerHolds, LineOf
    <3>1. CASE p2[q] = g.partner[q]
      BY <3>1 DEF LineInv, PartnerHolds
    <3>2. CASE {q, p2[q]} = {q0, q1} /\ q0 # q1
      <4>1. c0 # c1
        BY <1>13, <3>2
      <4>2. DegreeLtTwo(g, q)
        BY <1>11
      <4>3. ~DegreeLtTwo(g, p2[q]) /\ p2[q] \in qs
        BY <1>2, <1>14, <3>2, <4>1, <4>2
      <4>. QED
        BY <1>11, <1>12, <4>3
    <3>3. p2[q] = g.partner[q] \/ ({q, p2[q]} = {q0, q1} /\ q0 # q1)
      BY <1>7
    <3>. QED
      BY <3>1, <3>2, <3>3
  <2>. QED
    BY <1>9, <2>1, <2>2 DEF LineInv
<1>15. CASE DegreeLtTwo(g, q0) /\ DegreeLtTwo(g, q1) /\ c0 # c1
  \* Partners do not matter for lines that are joined.
  <2>1. PICK h, d0, d1 : /\ h = AddEdge(g, op)
                         /\ Merged(met, h, qs, d0, d1)
                         /\ (d0 = c0 /\ d1 = c1) \/ (d0 = c1 /\ d1 = c0)
    <3>1. Merged(met, CopyLine(met, c1, q1, c0, q0), qs, c1, c0)
      BY <1>2, <1>9, CopyLineFacts
    <3>2. Merged(met, CopyLine(met, c0, q0, c1, q1), qs, c0, c1)
      BY <1>2, <1>9, CopyLineFacts
    <3>3. AddEdge(g, op) \in {CopyLine(met, c1, q1, c0, q0), CopyLine(met, c0, q0, c1, q1)}
      BY <1>1, <1>15 DEF AddEdge, Meet
    <3>. QED
      BY <3>1, <3>2, <3>3
  <2>2. \A q \in qs : /\ g.component[q] \notin {c0, c1}
                      /\ met.partner[q] # q /\ Len(LineOf(met, q)) = 1
                      => Len(LineOf(met, met.partner[q])) >= 2
    <3>1. \A q : LineOf(met, q) = LineOf(g, q)
      BY <1>8 DEF LineOf
    <3>2. \A q \in qs : g.component[q] \notin {c0, c1} => met.partner[q] = g.partner[q]
      BY <1>1, <1>7, <1>8
    <3>. QED
      BY <3>1, <3>2 DEF LineInv, PartnerHolds
  <2>3. met.component[q0] = c0 /\ met.component[q1] = c1 /\ c0 # c1
    BY <1>1, <1>8, <1>15
  <2>4. CASE d0 = c0 /\ d1 = c1
    BY <1>2, <1>8, <1>9, <2>1, <2>2, <2>3, <2>4, MergedKeeps
  <2>5. CASE d0 = c1 /\ d1 = c0
    BY <1>2, <1>8, <1>9, <2>1, <2>2, <2>3, <2>5, MergedKeeps
  <2>. QED
    BY <2>1, <2>4, <2>5
<1>. QED
  BY <1>14, <1>15

\* The operations and the qubits of a circuit.
LEMMA CircuitFacts ==
    ASSUME NEW c \in Circuits
    PROVE  /\ c \in Seq(Seq(Operation))
           /\ AllOperations(c) \in Seq(Operation)
           /\ AllQubits(c) \in SUBSET Nat /\ IsFiniteSet(AllQubits(c))
           /\ \A op \in ToSet(AllOperations(c)) : op \in Operation /\ ToSet(op.qubits) \subseteq AllQubits(c)
<1>1. c \in Seq(Seq(Operation))
  BY CircuitAssumption
<1>2. PICK ops, L : ops = AllOperations(c) /\ L = Len(ops)
  OBVIOUS
<1>3. ops \in Seq(Operation)
  BY <1>1, <1>2, FlattenElements DEF AllOperations
<1>4. L \in Nat /\ DOMAIN ops = 1..L /\ \A i \in 1..L : ops[i] \in Operation
  BY <1>2, <1>3, SeqFacts
<1>5. \A op \in Operation : ToSet(op.qubits) \in SUBSET Nat /\ IsFiniteSet(ToSet(op.qubits))
  <2>1. ASSUME NEW op \in Operation PROVE ToSet(op.qubits) \in SUBSET Nat /\ IsFiniteSet(ToSet(op.qubits))
    <3>1. PICK s : s = op.qubits
      OBVIOUS
    <3>2. s \in Seq(Nat)
      BY <3>1 DEF Operation
    <3>3. Len(s) \in Nat /\ DOMAIN s = 1..Len(s) /\ ToSet(s) \subseteq Nat
      BY <3>2, SeqFacts
    <3>4. IsFiniteSet(1..Len(s))
      BY <3>3, FS_Interval
    <3>5. IsFiniteSet(ToSet(s))
      <4>1. PICK h : h = [i \in 1..Len(s) |-> s[i]]
        OBVIOUS
      <4>2. h \in Surjection(1..Len(s), ToSet(s))
        BY <3>3, <4>1 DEF ToSet, Surjection
      <4>. QED
        BY <3>4, <4>2, FS_Surjection
    <3>. QED
      BY <3>1, <3>3, <3>5
  <2>. QED
    BY <2>1
<1>. DEFINE Sets == {ToSet(ops[i].qubits) : i \in 1..L}
<1>6. AllQubits(c) = UNION Sets
  BY <1>2, <1>4 DEF AllQubits
<1>7. IsFiniteSet(Sets) /\ \A S \in Sets : IsFiniteSet(S) /\ S \in SUBSET Nat
  <2>1. IsFiniteSet(1..L)
    BY <1>4, FS_Interval
  <2>2. PICK h : h = [i \in 1..L |-> ToSet(ops[i].qubits)]
    OBVIOUS
  <2>3. h \in Surjection(1..L, Sets)
    BY <2>2 DEF Surjection
  <2>4. IsFiniteSet(Sets)
    BY <2>1, <2>3, FS_Surjection
  <2>. QED
    BY <1>4, <1>5, <2>4
<1>8. IsFiniteSet(AllQubits(c)) /\ AllQubits(c) \in SUBSET Nat
  <2>. HIDE DEF Sets
  <2>. QED
    BY <1>6, <1>7, FS_UNION
<1>9. \A op \in ToSet(ops) : op \in Operation /\ ToSet(op.qubits) \subseteq AllQubits(c)
  <2>1. ASSUME NEW op \in ToSet(ops) PROVE op \in Operation /\ ToSet(op.qubits) \subseteq AllQubits(c)
    <3>1. PICK i \in 1..L : op = ops[i]
      BY <1>4 DEF ToSet
    <3>2. ToSet(op.qubits) \in Sets
      BY <3>1
    <3>. QED
      BY <1>4, <1>6, <3>1, <3>2
  <2>. QED
    BY <2>1
<1>. QED
  BY <1>1, <1>2, <1>3, <1>8, <1>9

\* A gate on two qubits of a circuit.
LEMMA PairFacts ==
    ASSUME NEW op \in Operation, Len(op.qubits) = 2
    PROVE  /\ op.qubits = <<op.qubits[1], op.qubits[2]>>
           /\ op.qubits[1] \in ToSet(op.qubits) /\ op.qubits[2] \in ToSet(op.qubits)
<1>1. PICK s : s = op.qubits
  OBVIOUS
<1>2. s \in Seq(Nat) /\ Len(s) = 2
  BY <1>1 DEF Operation
<1>3. DOMAIN s = 1..2 /\ 1 \in 1..2 /\ 2 \in 1..2 /\ s = <<s[1], s[2]>>
  BY <1>2
<1>4. s[1] \in ToSet(s) /\ s[2] \in ToSet(s)
  BY <1>3 DEF ToSet
<1>. QED
  BY <1>1, <1>3, <1>4

\* A turn of _make_circuit_graph.
Threaded(g, op) == IF Len(op.qubits) # 2 THEN g ELSE AddEdge(g, op)

\* The lines of a circuit.
LEMMA CircuitGraphFacts ==
    ASSUME NEW c \in Circuits
    PROVE  LineInv(MakeCircuitGraph(c), AllQubits(c))
<1>1. PICK ops, qs, L : ops = AllOperations(c) /\ qs = AllQubits(c) /\ L = Len(ops)
  OBVIOUS
<1>2. L \in Nat /\ \A n \in 1..L : ops[n] \in Operation /\ ToSet(ops[n].qubits) \subseteq qs
  <2>1. ops \in Seq(Operation)
    BY <1>1, CircuitFacts
  <2>2. L \in Nat /\ DOMAIN ops = 1..L
    BY <1>1, <2>1, SeqFacts
  <2>3. \A n \in 1..L : ops[n] \in ToSet(ops)
    BY <2>2 DEF ToSet
  <2>. QED
    BY <1>1, <2>2, <2>3, CircuitFacts
<1>3. PICK X : X = {g \in [line : [qs -> Seq(qs) \ {<< >>}], component : [qs -> qs], partner : [qs -> qs]] :
                      LineInv(g, qs)}
  OBVIOUS
<1>4. \A g : g \in X <=> LineInv(g, qs)
  <2>1. ASSUME NEW g, LineInv(g, qs)
        PROVE  g \in [line : [qs -> Seq(qs) \ {<< >>}], component : [qs -> qs], partner : [qs -> qs]]
    BY <2>1 DEF LineInv, LineType
  <2>. QED
    BY <1>3, <2>1
<1>5. NoLines(qs) \in X
  BY <1>4, NoLinesFacts
<1>6. \A n \in 1..L : \A g \in X : Threaded(g, ops[n]) \in X
  <2>1. ASSUME NEW n \in 1..L, NEW g \in X, Len(ops[n].qubits) = 2 PROVE AddEdge(g, ops[n]) \in X
    <3>1. PICK op : op = ops[n]
      OBVIOUS
    <3>2. op.qubits[1] \in qs /\ op.qubits[2] \in qs
      BY <1>2, <2>1, <3>1, PairFacts
    <3>3. LineInv(g, qs)
      BY <1>4
    <3>4. LineInv(AddEdge(g, op), qs)
      BY <3>2, <3>3, AddEdgeFacts
    <3>. QED
      BY <1>4, <3>1, <3>4
  <2>. QED
    BY <2>1 DEF Threaded
<1>7. PICK F : F = [n \in 1..L |-> [g \in X |-> Threaded(g, ops[n])]]
  OBVIOUS
<1>8. F \in [1..L -> [X -> X]]
  BY <1>6, <1>7
<1>9. PICK h : IsLoop(h, X, NoLines(qs), L, F)
  BY <1>2, <1>5, <1>8, LoopExists
<1>. DEFINE Def(f) == f = [n \in 0..Len(ops) |-> IF n = 0 THEN NoLines(qs) ELSE Threaded(f[n - 1], ops[n])]
<1>10. Def(h)
  <2>1. h = [n \in 0..L |-> h[n]] /\ h[0] = NoLines(qs)
    BY <1>9 DEF IsLoop
  <2>2. \A n \in 0..L : n # 0 => n \in 1..L /\ n - 1 \in 0..L
    BY <1>2
  <2>3. \A n \in 0..L : n # 0 => h[n - 1] \in X /\ h[n] = F[n][h[n - 1]]
    BY <1>9, <2>2 DEF IsLoop
  <2>4. \A n \in 0..L : n # 0 => h[n] = Threaded(h[n - 1], ops[n])
    BY <1>7, <2>2, <2>3
  <2>. QED
    BY <1>1, <2>1, <2>4
<1>11. PICK f : f = CHOOSE b : Def(b)
  OBVIOUS
<1>12. Def(f)
  <2>. HIDE DEF Def
  <2>. QED
    BY <1>10, <1>11
<1>13. CircuitGraphs(ops, qs) = f
  BY <1>11 DEF CircuitGraphs, Threaded
<1>14. f[0] = NoLines(qs) /\ \A n \in 1..L : f[n] = Threaded(f[n - 1], ops[n])
  <2>1. 0 \in 0..L /\ \A n \in 1..L : n \in 0..L /\ n # 0
    BY <1>2
  <2>. QED
    BY <1>1, <1>12, <2>1
<1>15. \A n \in 1..L : f[n - 1] \in X => f[n] = F[n][f[n - 1]]
  BY <1>7, <1>14
<1>16. \A n \in 0..L : f[n] \in X
  BY <1>2, <1>5, <1>8, <1>14, <1>15, LoopTyped
<1>17. f[L] \in X
  BY <1>2, <1>16
<1>. QED
  BY <1>1, <1>4, <1>13, <1>17 DEF MakeCircuitGraph

\* Sequences of different elements, with none in common.
Separate(ss) ==
    /\ \A i \in DOMAIN ss : Sized(ss[i])
    /\ \A i, j \in DOMAIN ss : i < j => ToSet(ss[i]) \cap ToSet(ss[j]) = {}

\* The lines in use, each once, from the longest to the shortest.
LEMMA LinesOfFacts ==
    ASSUME NEW qs \in SUBSET Nat, IsFiniteSet(qs), NEW g, LineInv(g, qs)
    PROVE  /\ LinesOf(g) \in Seq(Seq(qs))
           /\ \A i \in DOMAIN LinesOf(g) : \E q \in qs : LinesOf(g)[i] = LineOf(g, q)
           /\ \A q \in qs : \E i \in DOMAIN LinesOf(g) : LinesOf(g)[i] = LineOf(g, q)
           /\ \A i, j \in DOMAIN LinesOf(g) : i < j => Len(LinesOf(g)[i]) >= Len(LinesOf(g)[j])
           /\ Separate(LinesOf(g))
<1>1. PICK U, K : U = {g.component[q] : q \in DOMAIN g.component} /\ K = Cardinality(U)
  OBVIOUS
<1>2. U \subseteq qs /\ \A q \in qs : g.component[q] \in U
  BY <1>1 DEF LineInv, LineType
<1>3. U \subseteq Nat /\ IsFiniteSet(U) /\ K \in Nat
  BY <1>1, <1>2, FS_Subset, FS_CardinalityType
<1>4. \A c \in U : g.line[c] \in Seq(qs) /\ Len(g.line[c]) \in Nat
  <2>1. ASSUME NEW c \in U PROVE g.line[c] \in Seq(qs) /\ Len(g.line[c]) \in Nat
    <3>1. PICK l : l = g.line[c]
      OBVIOUS
    <3>2. l \in Seq(qs)
      BY <1>2, <3>1 DEF LineInv, LineType
    <3>. QED
      BY <3>1, <3>2, SeqFacts
  <2>. QED
    BY <2>1
<1>. DEFINE Before(c, d) == \/ Len(g.line[c]) > Len(g.line[d])
                            \/ Len(g.line[c]) = Len(g.line[d]) /\ c < d
<1>5. PICK R : R = {e \in U \X U : Before(e[1], e[2])}
  OBVIOUS
<1>6. \A c, d \in U : <<c, d>> \in R <=> Before(c, d)
  <2>. HIDE DEF Before
  <2>. QED
    BY <1>5
<1>7. \A c, d \in U : c # d => Before(c, d) \/ Before(d, c)
  <2>1. \A c \in U : c \in Nat
    BY <1>3
  <2>2. \A c \in U : Len(g.line[c]) \in Nat
    BY <1>4
  <2>. QED
    BY <2>1, <2>2
<1>8. \A c, d, e \in U : Before(c, d) /\ Before(d, e) => Before(c, e)
  <2>1. \A c \in U : c \in Nat
    BY <1>3
  <2>2. \A c \in U : Len(g.line[c]) \in Nat
    BY <1>4
  <2>. QED
    BY <2>1, <2>2
<1>. DEFINE Sorted(s) == ToSet(s) = U /\ \A i, j \in DOMAIN s : i < j => Before(s[i], s[j])
<1>9. \E s \in [1..K -> U] : Sorted(s)
  <2>. HIDE DEF Before
  <2>1. Orders(R, U)
    BY <1>6, <1>7, <1>8 DEF Orders
  <2>2. IsFiniteSet(U)
    BY <1>3
  <2>3. PICK s \in [1..K -> U] : ToSet(s) = U /\ \A i, j \in DOMAIN s : i < j => <<s[i], s[j]>> \in R
    BY <1>1, <2>1, <2>2, SortedExists
  <2>4. \A i \in DOMAIN s : s[i] \in U
    BY <2>3
  <2>. QED
    BY <1>6, <2>3, <2>4
<1>10. PICK cs : cs = InOrder(U, Before)
  OBVIOUS
<1>11. cs = CHOOSE s \in [1..K -> U] : Sorted(s)
  BY <1>1, <1>10 DEF InOrder
<1>12. cs \in [1..K -> U] /\ Sorted(cs)
  <2>. HIDE DEF Sorted
  <2>. QED
    BY <1>9, <1>11
<1>13. PICK ls : ls = [i \in DOMAIN cs |-> g.line[cs[i]]]
  OBVIOUS
<1>14. LinesOf(g) = ls
  BY <1>1, <1>10, <1>13 DEF LinesOf
<1>15. DOMAIN ls = 1..K /\ DOMAIN cs = 1..K /\ \A i \in 1..K : cs[i] \in U /\ ls[i] = g.line[cs[i]]
  BY <1>12, <1>13
<1>16. ls \in Seq(Seq(qs))
  <2>1. PICK S : S = Seq(qs)
    OBVIOUS
  <2>2. \A i \in 1..K : ls[i] \in S
    BY <1>4, <1>15, <2>1
  <2>3. ls \in [1..K -> S]
    BY <1>13, <1>15, <2>2
  <2>4. ls \in Seq(S)
    BY <1>3, <2>3
  <2>. QED
    BY <2>1, <2>4
<1>17. \A i \in 1..K : \E q \in qs : ls[i] = LineOf(g, q)
  <2>1. \A c \in U : \E q \in qs : c = g.component[q]
    BY <1>1 DEF LineInv, LineType
  <2>. QED
    BY <1>15, <2>1 DEF LineOf
<1>18. \A q \in qs : \E i \in 1..K : ls[i] = LineOf(g, q)
  <2>1. \A c \in U : \E i \in 1..K : cs[i] = c
    BY <1>12, <1>15 DEF ToSet
  <2>2. ASSUME NEW q \in qs PROVE \E i \in 1..K : ls[i] = LineOf(g, q)
    <3>1. PICK i \in 1..K : cs[i] = g.component[q]
      BY <1>2, <2>1
    <3>2. ls[i] = g.line[cs[i]]
      BY <1>15
    <3>. QED
      BY <3>1, <3>2 DEF LineOf
  <2>. QED
    BY <2>2
<1>19. \A i, j \in 1..K : i < j => Len(ls[i]) >= Len(ls[j])
  <2>1. \A i, j \in 1..K : i < j => Before(cs[i], cs[j])
    BY <1>12, <1>15
  <2>2. \A c, d \in U : Before(c, d) => Len(g.line[c]) >= Len(g.line[d])
    BY <1>4
  <2>. HIDE DEF Before
  <2>. QED
    BY <1>15, <2>1, <2>2
<1>20. Separate(ls)
  <2>1. \A i \in 1..K : Sized(ls[i])
    BY <1>17 DEF LineInv, LineSized
  <2>2. \A c \in U : ~Before(c, c)
    <3>1. \A c \in U : c \in Nat
      BY <1>3
    <3>2. \A c \in U : Len(g.line[c]) \in Nat
      BY <1>4
    <3>. QED
      BY <3>1, <3>2
  <2>3. ASSUME NEW c \in U, NEW x \in ToSet(g.line[c]) PROVE g.component[x] = c
    <3>1. PICK q \in qs : c = g.component[q]
      BY <1>1 DEF LineInv, LineType
    <3>2. x \in ToSet(LineOf(g, q))
      BY <3>1 DEF LineOf
    <3>. QED
      BY <3>1, <3>2 DEF LineInv, LineHolds
  <2>4. ASSUME NEW i \in 1..K, NEW j \in 1..K, i < j PROVE ToSet(ls[i]) \cap ToSet(ls[j]) = {}
    <3>1. cs[i] # cs[j]
      <4>1. Before(cs[i], cs[j]) /\ cs[i] \in U
        BY <1>12, <1>15, <2>4
      <4>. HIDE DEF Before
      <4>. QED
        BY <2>2, <4>1
    <3>. QED
      BY <1>15, <2>3, <3>1
  <2>. QED
    BY <1>15, <2>1, <2>4 DEF Separate
<1>. QED
  BY <1>14, <1>15, <1>16, <1>17, <1>18, <1>19, <1>20

\* Place n of s holds an element of a sequence ss[j] with j <= k, and the elements of
\* the sequences before it are at earlier places.
Follows(s, n, ss, k) ==
    \E j \in 1..k : /\ s[n] \in ToSet(ss[j])
                    /\ \A b \in 1..(j - 1) : \A x \in ToSet(ss[b]) : \E m \in 1..(n - 1) : s[m] = x

\* Flattened sequences follow each other.
LEMMA FlattenOrder ==
    ASSUME NEW T, NEW ss \in Seq(Seq(T))
    PROVE  \A n \in 1..Len(FlattenSeq(ss)) : Follows(FlattenSeq(ss), n, ss, Len(ss))
<1>1. CASE ss = << >>
  <2>1. FlattenSeq(ss) = << >>
    BY <1>1 DEF FlattenSeq
  <2>2. 1..Len(FlattenSeq(ss)) = {}
    BY <2>1
  <2>. QED
    BY <2>2
<1>2. CASE ss # << >>
  <2>1. PICK L : L = Len(ss)
    OBVIOUS
  <2>2. L \in Nat /\ L >= 1 /\ DOMAIN ss = 1..L /\ \A i \in 1..L : ss[i] \in Seq(T)
    BY <1>2, <2>1
  <2>3. PICK f : /\ FlattenSeq(ss) = f[L] /\ f[1] = ss[1]
                 /\ \A i \in 2..L : f[i] = f[i - 1] \o ss[i]
                 /\ \A i \in 1..L : f[i] \in Seq(T)
    BY <1>2, <2>1, FlattenRecursion
  <2>. DEFINE Held(k) == \A b \in 1..k : \A x \in ToSet(ss[b]) : \E m \in 1..Len(f[k]) : f[k][m] = x
              Good == {k \in 0..(L - 1) : /\ \A n \in 1..Len(f[k + 1]) : Follows(f[k + 1], n, ss, k + 1)
                                          /\ Held(k + 1)}
  <2>4. 0 \in Good
    <3>1. 0 \in 0..(L - 1) /\ 1..(0 + 1) = {1} /\ 0 + 1 = 1 /\ 1..(1 - 1) = {}
      BY <2>2
    <3>2. PICK s : s = ss[1]
      OBVIOUS
    <3>3. s \in Seq(T) /\ DOMAIN s = 1..Len(s)
      BY <2>2, <3>2
    <3>4. \A n \in 1..Len(s) : s[n] \in ToSet(s)
      BY <3>3 DEF ToSet
    <3>5. \A x \in ToSet(s) : \E m \in 1..Len(s) : s[m] = x
      BY <3>3 DEF ToSet
    <3>6. \A n \in 1..Len(s) : Follows(s, n, ss, 1)
      BY <3>1, <3>2, <3>4 DEF Follows
    <3>7. f[1] = s
      BY <2>3, <3>2
    <3>8. Held(1)
      BY <3>1, <3>2, <3>5, <3>7
    <3>. QED
      BY <3>1, <3>6, <3>7, <3>8
  <2>5. ASSUME NEW k \in 1..(L - 1), k - 1 \in Good PROVE k \in Good
    <3>1. /\ k \in 1..L /\ k + 1 \in 2..L /\ k + 1 \in 1..L /\ k \in 0..(L - 1)
          /\ (k - 1) + 1 = k /\ (k + 1) - 1 = k /\ 1..(k + 1) = (1..k) \cup {k + 1}
      BY <2>2
    <3>2. PICK s, t, u : s = f[k] /\ t = ss[k + 1] /\ u = f[k + 1]
      OBVIOUS
    <3>3. s \in Seq(T) /\ t \in Seq(T) /\ u = s \o t
      BY <2>2, <2>3, <3>1, <3>2
    <3>4. PICK a, b : a = Len(s) /\ b = Len(t)
      OBVIOUS
    <3>5. a \in Nat /\ b \in Nat /\ Len(u) = a + b /\ DOMAIN t = 1..b
      BY <3>3, <3>4
    <3>6. /\ \A i \in 1..a : u[i] = s[i] /\ i \in 1..(a + b)
          /\ \A i \in 1..b : u[a + i] = t[i] /\ a + i \in 1..(a + b)
      BY <3>3, <3>4, <3>5
    <3>7. (\A n \in 1..a : Follows(s, n, ss, k)) /\ Held(k)
      BY <2>5, <3>1, <3>2, <3>4
    <3>8. ASSUME NEW n \in 1..(a + b) PROVE Follows(u, n, ss, k + 1)
      <4>1. CASE n \in 1..a
        <5>1. PICK j \in 1..k : /\ s[n] \in ToSet(ss[j])
                                /\ \A c \in 1..(j - 1) : \A x \in ToSet(ss[c]) : \E m \in 1..(n - 1) : s[m] = x
          BY <3>7, <4>1 DEF Follows
        <5>2. \A m \in 1..(n - 1) : m \in 1..a /\ u[m] = s[m]
          BY <3>5, <3>6, <4>1
        <5>3. u[n] = s[n] /\ j \in 1..(k + 1)
          BY <3>1, <3>6, <4>1
        <5>4. \A c \in 1..(j - 1) : \A x \in ToSet(ss[c]) : \E m \in 1..(n - 1) : u[m] = x
          BY <5>1, <5>2
        <5>. QED
          BY <5>1, <5>3, <5>4 DEF Follows
      <4>2. CASE n \notin 1..a
        <5>1. PICK i : i = n - a
          OBVIOUS
        <5>2. i \in 1..b /\ n = a + i
          BY <3>5, <4>2, <5>1
        <5>3. u[n] \in ToSet(ss[k + 1])
          BY <3>2, <3>5, <3>6, <5>2 DEF ToSet
        <5>4. \A m \in 1..a : m \in 1..(n - 1)
          BY <3>5, <5>2
        <5>5. \A c \in 1..k : \A x \in ToSet(ss[c]) : \E m \in 1..a : s[m] = x
          BY <3>2, <3>4, <3>7
        <5>6. \A c \in 1..k : \A x \in ToSet(ss[c]) : \E m \in 1..(n - 1) : u[m] = x
          BY <3>6, <5>4, <5>5
        <5>. QED
          BY <3>1, <5>3, <5>6 DEF Follows
      <4>. QED
        BY <4>1, <4>2
    <3>9. Held(k + 1)
      <4>. SUFFICES ASSUME NEW c \in 1..(k + 1), NEW x \in ToSet(ss[c])
                    PROVE  \E m \in 1..(a + b) : u[m] = x
        BY <3>2, <3>5
      <4>1. CASE c \in 1..k
        <5>1. PICK m \in 1..a : s[m] = x
          BY <3>2, <3>4, <3>7, <4>1
        <5>. QED
          BY <3>6, <5>1
      <4>2. CASE c = k + 1
        <5>1. PICK i \in 1..b : t[i] = x
          BY <3>2, <3>5, <4>2 DEF ToSet
        <5>. QED
          BY <3>6, <5>1
      <4>. QED
        BY <3>1, <4>1, <4>2
    <3>10. \A n \in 1..Len(f[k + 1]) : Follows(f[k + 1], n, ss, k + 1)
      BY <3>2, <3>5, <3>8
    <3>. QED
      BY <3>1, <3>9, <3>10
  <2>6. 0..(L - 1) \subseteq Good
    <3>1. L - 1 \in Nat
      BY <2>2
    <3>. HIDE DEF Good
    <3>. QED
      BY <2>4, <2>5, <3>1, TurnInduction
  <2>7. L - 1 \in Good /\ (L - 1) + 1 = L
    <3>1. L - 1 \in 0..(L - 1)
      BY <2>2
    <3>. HIDE DEF Good
    <3>. QED
      BY <2>2, <2>6, <3>1
  <2>8. \A n \in 1..Len(f[L]) : Follows(f[L], n, ss, L)
    BY <2>7
  <2>. QED
    BY <2>1, <2>3, <2>8
<1>. QED
  BY <1>1, <1>2


\* Separate sequences, flattened, have no element twice.
LEMMA FlattenSized ==
    ASSUME NEW T, NEW ss \in Seq(Seq(T)), Separate(ss)
    PROVE  \A i, j \in 1..Len(FlattenSeq(ss)) : FlattenSeq(ss)[i] = FlattenSeq(ss)[j] => i = j
<1>1. CASE ss = << >>
  <2>1. FlattenSeq(ss) = << >>
    BY <1>1 DEF FlattenSeq
  <2>2. 1..Len(FlattenSeq(ss)) = {}
    BY <2>1
  <2>. QED
    BY <2>2
<1>2. CASE ss # << >>
  <2>1. PICK L : L = Len(ss)
    OBVIOUS
  <2>2. L \in Nat /\ L >= 1 /\ DOMAIN ss = 1..L /\ \A i \in 1..L : ss[i] \in Seq(T)
    BY <1>2, <2>1
  <2>3. PICK f : /\ FlattenSeq(ss) = f[L] /\ f[1] = ss[1]
                 /\ \A i \in 2..L : f[i] = f[i - 1] \o ss[i]
                 /\ \A i \in 1..L : f[i] \in Seq(T)
    BY <1>2, <2>1, FlattenRecursion
  <2>. DEFINE Held(k) == \A x \in ToSet(f[k]) : \E b \in 1..k : x \in ToSet(ss[b])
              Good == {k \in 0..(L - 1) : Sized(f[k + 1]) /\ Held(k + 1)}
  <2>4. 0 \in Good
    <3>1. 0 \in 0..(L - 1) /\ 0 + 1 = 1 /\ 1 \in 1..1 /\ 1 \in 1..L
      BY <2>2
    <3>2. Held(1)
      BY <2>3, <3>1
    <3>3. Sized(f[1])
      BY <2>2, <2>3, <3>1 DEF Separate
    <3>. QED
      BY <3>1, <3>2, <3>3
  <2>5. ASSUME NEW k \in 1..(L - 1), k - 1 \in Good PROVE k \in Good
    <3>1. /\ k \in 1..L /\ k + 1 \in 2..L /\ k + 1 \in 1..L /\ k \in 0..(L - 1)
          /\ (k - 1) + 1 = k /\ (k + 1) - 1 = k /\ 1..(k + 1) = (1..k) \cup {k + 1}
          /\ \A b \in 1..k : b \in 1..L /\ b < k + 1
      BY <2>2
    <3>2. PICK s, t, u : s = f[k] /\ t = ss[k + 1] /\ u = f[k + 1]
      OBVIOUS
    <3>3. s \in Seq(T) /\ t \in Seq(T) /\ u = s \o t
      BY <2>2, <2>3, <3>1, <3>2
    <3>4. Sized(s) /\ Held(k)
      BY <2>5, <3>1, <3>2
    <3>5. Sized(t)
      BY <2>2, <3>1, <3>2 DEF Separate
    <3>6. ToSet(s) \cap ToSet(t) = {}
      <4>1. \A b \in 1..k : ToSet(ss[b]) \cap ToSet(t) = {}
        BY <2>2, <3>1, <3>2 DEF Separate
      <4>. QED
        BY <3>2, <3>4, <4>1
    <3>7. ToSet(u) = ToSet(s) \cup ToSet(t) /\ Len(u) = Len(s) + Len(t)
      BY <3>3, ConcatSet
    <3>8. Sized(u)
      BY <3>3, <3>4, <3>5, <3>6, <3>7, SizedUnion
    <3>9. Held(k + 1)
      BY <3>1, <3>2, <3>4, <3>7
    <3>. QED
      BY <3>1, <3>2, <3>8, <3>9
  <2>6. 0..(L - 1) \subseteq Good
    <3>1. L - 1 \in Nat
      BY <2>2
    <3>. HIDE DEF Good
    <3>. QED
      BY <2>4, <2>5, <3>1, TurnInduction
  <2>7. Sized(f[L])
    <3>1. L - 1 \in 0..(L - 1) /\ (L - 1) + 1 = L
      BY <2>2
    <3>2. L - 1 \in Good
      <4>. HIDE DEF Good
      <4>. QED
        BY <2>6, <3>1
    <3>. QED
      BY <3>1, <3>2
  <2>8. PICK s : s = f[L]
    OBVIOUS
  <2>9. s \in Seq(T) /\ Sized(s)
    BY <2>2, <2>3, <2>7, <2>8
  <2>10. \A i, j \in 1..Len(s) : s[i] = s[j] => i = j
    BY <2>9, SizedFacts
  <2>. QED
    BY <2>3, <2>8, <2>10
<1>. QED
  BY <1>1, <1>2
-----------------------------------------------------------------------------
(* The placement by lines *)

\* The places S hang together: no part of them is without an edge to the rest.
Linked(g, S) ==
    \A T \in SUBSET S : T # {} /\ T # S => \E x \in T : \E y \in S \ T : <<x, y>> \in g

\* With a place next to one of them they still do.
LEMMA LinkedGrows ==
    ASSUME NEW g, \A a, b : <<a, b>> \in g => <<b, a>> \in g, NEW S, Linked(g, S),
           NEW w \in S, NEW z, <<w, z>> \in g
    PROVE  Linked(g, S \cup {z})
<1>. SUFFICES ASSUME NEW T \in SUBSET (S \cup {z}), T # {}, T # S \cup {z}
              PROVE  \E x \in T : \E y \in (S \cup {z}) \ T : <<x, y>> \in g
  BY DEF Linked
<1>1. CASE T \cap S = {}
  <2>1. z \in T /\ w \notin T
    BY <1>1
  <2>2. <<z, w>> \in g
    OBVIOUS
  <2>. QED
    BY <2>1, <2>2
<1>2. CASE S \subseteq T
  <2>1. z \notin T /\ w \in T
    BY <1>2
  <2>. QED
    BY <2>1
<1>3. CASE T \cap S # {} /\ ~(S \subseteq T)
  <2>1. T \cap S \in SUBSET S /\ T \cap S # S
    BY <1>3
  <2>2. PICK x \in T \cap S : \E y \in S \ (T \cap S) : <<x, y>> \in g
    BY <1>3, <2>1 DEF Linked
  <2>. QED
    BY <2>2
<1>. QED
  BY <1>1, <1>2, <1>3

\* Where the qubits of a mapping are.
Places(m) == {m[q] : q \in DOMAIN m}

\* Some of the qubits qs have been placed, no two of them at one place, from the
\* center on and without a gap.
Placing(d, acc, qs) ==
    /\ acc = [pq |-> acc.pq, map |-> acc.map, raised |-> acc.raised]
    /\ acc.pq \in Physical /\ acc.raised \in {"", "KeyError", "ValueError"}
    /\ DOMAIN acc.map \subseteq qs /\ acc.map \in [DOMAIN acc.map -> Physical]
    /\ \A p, q \in DOMAIN acc.map : acc.map[p] = acc.map[q] => p = q
    /\ IF Places(acc.map) = {} THEN acc.pq = Center(d) ELSE acc.pq \in Places(acc.map) /\ Center(d) \in Places(acc.map)
    /\ Linked(Undirected(d), Places(acc.map))

\* Nothing has been placed.
NonePlaced(g) == [pq |-> Center(g), map |-> << >>, raised |-> ""]

\* What became of the qubit lq: it is placed, or there is a reason why it is not.
Steps(g, acc, lq, r) ==
    /\ r.raised = "" => acc.raised = "" /\ DOMAIN r.map = DOMAIN acc.map \cup {lq}
    /\ r.raised = "KeyError" =>
          \/ acc.raised = "KeyError"
          \/ /\ acc.raised = "" /\ Len(LineOf(g, lq)) = 1 /\ g.partner[lq] # lq
             /\ g.partner[lq] \notin DOMAIN acc.map

\* A turn of the placement puts one qubit at a place that is free.
LEMMA PlaceFacts ==
    ASSUME NEW d \in SUBSET Edges, HasCenter(d), NEW qs, NEW g, LineInv(g, qs),
           NEW acc, Placing(d, acc, qs), NEW lq \in qs, acc.raised = "" => lq \notin DOMAIN acc.map
    PROVE  Placing(d, Place(d, g, acc, lq), qs) /\ Steps(g, acc, lq, Place(d, g, acc, lq))
<1>. DEFINE isolated == Len(g.line[g.component[lq]]) = 1
            hasPartner == isolated /\ g.partner[lq] # lq
            missing == hasPartner /\ g.partner[lq] \notin DOMAIN acc.map
            source == IF hasPartner THEN acc.map[g.partner[lq]] ELSE Center(d)
            pq == NextPhysical(d, acc.pq, Range(acc.map), source, isolated)
            Put(p) == [q \in DOMAIN acc.map \cup {lq} |-> IF q = lq THEN p ELSE acc.map[q]]
<1>1. PICK r : r = Place(d, g, acc, lq)
  OBVIOUS
<1>2. CASE acc.raised # ""
  <2>1. r = acc
    BY <1>1, <1>2 DEF Place
  <2>. QED
    BY <1>1, <1>2, <2>1 DEF Steps
<1>3. CASE acc.raised = "" /\ missing
  <2>1. r = [acc EXCEPT !.raised = "KeyError"]
    BY <1>1, <1>3 DEF Place
  <2>2. r = [pq |-> acc.pq, map |-> acc.map, raised |-> "KeyError"]
    BY <2>1 DEF Placing
  <2>3. Placing(d, r, qs) /\ r.raised = "KeyError"
    BY <2>2 DEF Placing
  <2>. QED
    BY <1>1, <1>3, <2>3 DEF LineOf, Steps
<1>4. CASE acc.raised = "" /\ ~missing
  <2>0. PICK S : S = Places(acc.map)
    OBVIOUS
  <2>1. source \in Physical /\ (acc.pq \in S => source \in S)
    <3>1. CASE hasPartner
      <4>1. g.partner[lq] \in DOMAIN acc.map
        BY <1>4, <3>1
      <4>2. acc.map[g.partner[lq]] \in Physical /\ acc.map[g.partner[lq]] \in S
        BY <2>0, <4>1 DEF Placing, Places
      <4>. QED
        BY <3>1, <4>2
    <3>2. CASE ~hasPartner
      <4>1. source = Center(d)
        BY <3>2
      <4>2. acc.pq \in S => Center(d) \in S
        BY <2>0 DEF Placing
      <4>. QED
        BY <4>1, <4>2, CenterFacts
    <3>. QED
      BY <3>1, <3>2
  <2>2. pq = P \/ NextTo(d, acc.pq, S, pq)
    <3>1. isolated \in BOOLEAN /\ acc.pq \in Physical
      BY DEF Placing
    <3>2. Range(acc.map) = S
      BY <2>0 DEF Range, Places
    <3>3. PICK a, so, iso : a = acc.pq /\ so = source /\ iso = isolated
      OBVIOUS
    <3>4. so \in Physical /\ (a \in S => so \in S) /\ iso \in BOOLEAN /\ a \in Physical
      BY <2>1, <3>1, <3>3
    <3>5. NextPhysical(d, a, S, so, iso) = P \/ NextTo(d, a, S, NextPhysical(d, a, S, so, iso))
      BY <3>4, NextPhysicalFacts
    <3>. QED
      BY <3>2, <3>3, <3>5
  <2>3. CASE pq = P
    <3>1. r = [acc EXCEPT !.raised = "ValueError"]
      BY <1>1, <1>4, <2>3 DEF Place
    <3>2. r = [pq |-> acc.pq, map |-> acc.map, raised |-> "ValueError"]
      BY <3>1 DEF Placing
    <3>3. Placing(d, r, qs) /\ r.raised = "ValueError"
      BY <3>2 DEF Placing
    <3>. QED
      BY <1>1, <3>3 DEF Steps
  <2>4. CASE pq # P
    <3>1. PICK p : p = pq
      OBVIOUS
    <3>2. r = [acc EXCEPT !.pq = p, !.map = [q \in DOMAIN @ \cup {lq} |-> IF q = lq THEN p ELSE @[q]]]
      BY <1>1, <1>4, <2>4, <3>1 DEF Place
    <3>3. r = [pq |-> p, map |-> Put(p), raised |-> ""]
      BY <1>4, <3>2 DEF Placing
    <3>4. p \in Physical /\ \A q \in DOMAIN acc.map : acc.map[q] # p
      BY <2>0, <2>2, <2>4, <3>1 DEF NextTo, Places
    <3>5. r.pq = p /\ r.map = Put(p) /\ r.raised = "" /\ DOMAIN r.map = DOMAIN acc.map \cup {lq}
      BY <3>3
    <3>6. r = [pq |-> r.pq, map |-> r.map, raised |-> r.raised]
      BY <3>3
    <3>7. DOMAIN r.map \subseteq qs /\ r.map \in [DOMAIN r.map -> Physical]
      <4>1. DOMAIN acc.map \subseteq qs /\ \A q \in DOMAIN acc.map : acc.map[q] \in Physical
        BY DEF Placing
      <4>2. Put(p) \in [DOMAIN acc.map \cup {lq} -> Physical]
        BY <3>4, <4>1
      <4>. QED
        BY <3>5, <4>1, <4>2
    <3>8. \A a, b \in DOMAIN r.map : r.map[a] = r.map[b] => a = b
      <4>1. \A a \in DOMAIN r.map : a = lq \/ a \in DOMAIN acc.map
        BY <3>5
      <4>2. \A a \in DOMAIN acc.map : a # lq => r.map[a] = acc.map[a] /\ r.map[a] # p
        BY <3>4, <3>5
      <4>3. r.map[lq] = p
        BY <3>5
      <4>4. \A a, b \in DOMAIN acc.map : acc.map[a] = acc.map[b] => a = b
        BY DEF Placing
      <4>. QED
        BY <4>1, <4>2, <4>3, <4>4
    <3>9. Places(r.map) = S \cup {p}
      <4>1. \A q \in DOMAIN acc.map : q # lq => r.map[q] = acc.map[q]
        BY <3>5
      <4>2. r.map[lq] = p
        BY <3>5
      <4>3. lq \notin DOMAIN acc.map
        BY <1>4
      <4>4. \A q \in DOMAIN r.map : r.map[q] \in S \cup {p}
        BY <2>0, <3>5, <4>1, <4>2 DEF Places
      <4>5. ASSUME NEW y \in S \cup {p} PROVE \E q \in DOMAIN r.map : r.map[q] = y
        <5>1. CASE y = p
          BY <3>5, <4>2, <5>1
        <5>2. CASE y \in S
          <6>1. PICK q \in DOMAIN acc.map : acc.map[q] = y
            BY <2>0, <5>2 DEF Places
          <6>2. q # lq /\ q \in DOMAIN r.map
            BY <3>5, <4>3, <6>1
          <6>. QED
            BY <4>1, <6>1, <6>2
        <5>. QED
          BY <5>1, <5>2
      <4>. QED
        BY <4>4, <4>5 DEF Places
    <3>10. IF S = {} THEN acc.pq = Center(d) ELSE acc.pq \in S /\ Center(d) \in S
      BY <2>0 DEF Placing
    <3>11. Center(d) \in S \cup {p}
      <4>1. CASE S = {}
        BY <2>2, <2>4, <3>1, <3>10, <4>1 DEF NextTo
      <4>2. CASE S # {}
        BY <3>10, <4>2
      <4>. QED
        BY <4>1, <4>2
    <3>12. Linked(Undirected(d), S \cup {p})
      <4>1. CASE S = {}
        <5>1. S \cup {p} = {p}
          BY <4>1
        <5>2. \A T \in SUBSET {p} : T # {} => T = {p}
          OBVIOUS
        <5>. QED
          BY <5>1, <5>2 DEF Linked
      <4>2. CASE S # {}
        <5>1. PICK w \in S : <<w, p>> \in d
          BY <2>2, <2>4, <3>1, <3>10, <4>2 DEF NextTo
        <5>2. <<w, p>> \in Undirected(d) /\ \A a, b : <<a, b>> \in Undirected(d) => <<b, a>> \in Undirected(d)
          BY <5>1, GraphFacts
        <5>3. Linked(Undirected(d), S)
          BY <2>0 DEF Placing
        <5>. QED
          BY <5>2, <5>3, LinkedGrows
      <4>. QED
        BY <4>1, <4>2
    <3>13. Placing(d, r, qs)
      <4>1. Places(r.map) # {} /\ r.pq \in Places(r.map) /\ Center(d) \in Places(r.map)
        BY <3>5, <3>9, <3>11
      <4>2. Linked(Undirected(d), Places(r.map))
        BY <3>9, <3>12
      <4>. QED
        BY <3>4, <3>5, <3>6, <3>7, <3>8, <4>1, <4>2 DEF Placing
    <3>. QED
      BY <1>1, <1>4, <3>5, <3>13 DEF Steps
  <2>. QED
    BY <2>3, <2>4
<1>. QED
  BY <1>2, <1>3, <1>4

\* The line mapper places every qubit of the circuit, each at a place of its own, and
\* looks up the place of a partner only when there is one.
LEMMA InitialMappingFacts ==
    ASSUME NEW c \in Circuits, NEW d \in SUBSET Edges, HasCenter(d)
    PROVE  /\ InitialMapping(d, c).raised \in {"", "ValueError"}
           /\ InitialMapping(d, c).raised = "" =>
                 /\ InitialMapping(d, c).map \in [AllQubits(c) -> Physical]
                 /\ \A p, q \in AllQubits(c) : InitialMapping(d, c).map[p] = InitialMapping(d, c).map[q] => p = q
                 /\ Linked(Undirected(d), Places(InitialMapping(d, c).map))
<1>1. PICK qs, g, ls, s, L : /\ qs = AllQubits(c) /\ g = MakeCircuitGraph(c) /\ ls = LinesOf(g)
                             /\ s = FlattenSeq(ls) /\ L = Len(s)
  OBVIOUS
<1>2. qs \in SUBSET Nat /\ IsFiniteSet(qs) /\ LineInv(g, qs)
  BY <1>1, CircuitFacts, CircuitGraphFacts
<1>3. /\ ls \in Seq(Seq(qs))
      /\ \A i \in DOMAIN ls : \E q \in qs : ls[i] = LineOf(g, q)
      /\ \A q \in qs : \E i \in DOMAIN ls : ls[i] = LineOf(g, q)
      /\ \A i, j \in DOMAIN ls : i < j => Len(ls[i]) >= Len(ls[j])
      /\ Separate(ls)
  BY <1>1, <1>2, LinesOfFacts
<1>4. s \in Seq(qs) /\ ToSet(s) = UNION {ToSet(ls[i]) : i \in DOMAIN ls}
  BY <1>1, <1>3, FlattenElements
<1>5. L \in Nat /\ DOMAIN s = 1..L /\ ToSet(s) \subseteq qs /\ \A n \in 1..L : s[n] \in qs
  BY <1>1, <1>4, SeqFacts
<1>6. ToSet(s) = qs
  <2>1. \A q \in qs : q \in ToSet(LineOf(g, q))
    BY <1>2 DEF LineInv, LineHolds
  <2>2. \A q \in qs : \E i \in DOMAIN ls : q \in ToSet(ls[i])
    BY <1>3, <2>1
  <2>3. qs \subseteq ToSet(s)
    BY <1>4, <2>2
  <2>. QED
    BY <1>5, <2>3
<1>7. PICK X : X = {acc \in [pq : Physical, map : UNION {[D -> Physical] : D \in SUBSET qs},
                             raised : {"", "KeyError", "ValueError"}] : Placing(d, acc, qs)}
  OBVIOUS
<1>8. \A acc : acc \in X <=> Placing(d, acc, qs)
  <2>1. ASSUME NEW acc, Placing(d, acc, qs)
        PROVE  acc \in [pq : Physical, map : UNION {[D -> Physical] : D \in SUBSET qs},
                        raised : {"", "KeyError", "ValueError"}]
    <3>1. acc.map \in UNION {[D -> Physical] : D \in SUBSET qs}
      BY <2>1 DEF Placing
    <3>. QED
      BY <2>1, <3>1 DEF Placing
  <2>. QED
    BY <1>7, <2>1
<1>9. NonePlaced(d) \in X
  <2>1. << >> \in [{} -> Physical] /\ DOMAIN << >> = {}
    OBVIOUS
  <2>2. Center(d) \in Physical
    BY CenterFacts
  <2>3. PICK acc : acc = NonePlaced(d)
    OBVIOUS
  <2>4. /\ acc.pq = Center(d) /\ acc.map = << >> /\ acc.raised = ""
        /\ acc = [pq |-> acc.pq, map |-> acc.map, raised |-> acc.raised]
    BY <2>3 DEF NonePlaced
  <2>5. Places(acc.map) = {}
    BY <2>1, <2>4 DEF Places
  <2>6. Linked(Undirected(d), Places(acc.map))
    BY <2>5 DEF Linked
  <2>7. Placing(d, acc, qs)
    BY <2>1, <2>2, <2>4, <2>5, <2>6 DEF Placing
  <2>. QED
    BY <1>8, <2>3, <2>7
<1>. DEFINE Unplaced(acc, n) == acc.raised = "" => s[n] \notin DOMAIN acc.map
<1>10. \A n \in 1..L : \A acc \in X : Unplaced(acc, n) => Place(d, g, acc, s[n]) \in X
  <2>1. ASSUME NEW n \in 1..L, NEW acc \in X, Unplaced(acc, n) PROVE Place(d, g, acc, s[n]) \in X
    <3>1. PICK q : q = s[n]
      OBVIOUS
    <3>2. q \in qs /\ Placing(d, acc, qs) /\ (acc.raised = "" => q \notin DOMAIN acc.map)
      BY <1>5, <1>8, <2>1, <3>1
    <3>3. Placing(d, Place(d, g, acc, q), qs)
      BY <1>2, <3>2, PlaceFacts
    <3>. QED
      BY <1>8, <3>1, <3>3
  <2>. QED
    BY <2>1
<1>. DEFINE First(n) == {s[i] : i \in 1..n}
            Good(u) == {n \in 0..L : /\ u[n] \in X /\ u[n].raised # "KeyError"
                                     /\ u[n].raised = "" => DOMAIN u[n].map = First(n)}
            Goes(u) == /\ u[0] = NonePlaced(d)
                       /\ \A n \in 1..L : u[n - 1] \in X /\ Unplaced(u[n - 1], n)
                                           => u[n] = Place(d, g, u[n - 1], s[n])
<1>distinct. \A i, j \in 1..L : s[i] = s[j] => i = j
  BY <1>1, <1>3, FlattenSized
<1>loop. ASSUME NEW f, Goes(f) PROVE 0..L \subseteq Good(f)
  <2>21. 0 \in Good(f)
    <3>1. First(0) = {} /\ DOMAIN << >> = {} /\ 0 \in 0..L
      BY <1>5
    <3>2. f[0].map = << >> /\ f[0].raised = ""
      <4>1. NonePlaced(d).map = << >> /\ NonePlaced(d).raised = ""
        BY DEF NonePlaced
      <4>. QED
        BY <1>loop, <4>1
    <3>3. f[0] \in X
      BY <1>9, <1>loop
    <3>. QED
      BY <3>1, <3>2, <3>3
  <2>22. ASSUME NEW n \in 1..L, n - 1 \in Good(f) PROVE n \in Good(f)
    <3>1. PICK m, acc, r, q : m = n - 1 /\ acc = f[m] /\ r = f[n] /\ q = s[n]
      OBVIOUS
    <3>2. m \in 0..L /\ n \in 0..L /\ 1..n = (1..m) \cup {n} /\ q \in qs
      BY <1>5, <3>1
    <3>4. acc \in X /\ acc.raised # "KeyError" /\ (acc.raised = "" => DOMAIN acc.map = First(m))
      BY <2>22, <3>1
    <3>new. q \notin First(m)
      <4>1. \A i \in 1..m : i \in 1..L /\ i # n
        BY <1>5, <3>1
      <4>. QED
        BY <1>distinct, <3>1, <4>1
    <3>unplaced. acc.raised = "" => q \notin DOMAIN acc.map
      BY <3>4, <3>new
    <3>3. Placing(d, acc, qs) /\ r = Place(d, g, acc, q) /\ r \in X
      <4>1. Unplaced(f[m], n) /\ f[m] \in X
        BY <3>1, <3>4, <3>unplaced
      <4>2. f[n] = Place(d, g, f[m], s[n])
        BY <1>loop, <3>1, <4>1
      <4>3. f[n] \in X
        BY <1>10, <4>1, <4>2
      <4>. QED
        BY <1>8, <3>1, <3>4, <4>2, <4>3
    <3>5. /\ r.raised = "" => acc.raised = "" /\ DOMAIN r.map = DOMAIN acc.map \cup {q}
          /\ r.raised = "KeyError" => \/ acc.raised = "KeyError"
                                      \/ /\ acc.raised = "" /\ Len(LineOf(g, q)) = 1 /\ g.partner[q] # q
                                         /\ g.partner[q] \notin DOMAIN acc.map
      <4>1. LineInv(g, qs) /\ q \in qs /\ Placing(d, acc, qs) /\ (acc.raised = "" => q \notin DOMAIN acc.map)
        BY <1>2, <3>2, <3>3, <3>unplaced
      <4>2. Steps(g, acc, q, Place(d, g, acc, q))
        BY <4>1, PlaceFacts
      <4>. QED
        BY <3>3, <4>2 DEF Steps
    <3>6. First(n) = First(m) \cup {q}
      BY <3>1, <3>2
    <3>7. ASSUME Len(LineOf(g, q)) = 1, g.partner[q] # q PROVE g.partner[q] \in First(m)
      <4>1. PICK p : p = g.partner[q]
        OBVIOUS
      <4>2. p \in qs /\ Len(LineOf(g, p)) >= 2
        BY <1>2, <3>2, <3>7, <4>1 DEF LineInv, LineType, PartnerHolds
      <4>3. PICK j \in 1..Len(ls) :
                /\ s[n] \in ToSet(ls[j])
                /\ \A b \in 1..(j - 1) : \A x \in ToSet(ls[b]) : \E i \in 1..(n - 1) : s[i] = x
        <5>1. Follows(s, n, ls, Len(ls))
          BY <1>1, <1>3, FlattenOrder
        <5>. QED
          BY <5>1 DEF Follows
      <4>4. DOMAIN ls = 1..Len(ls) /\ Len(ls) \in Nat
        BY <1>3
      <4>5. PICK q2 \in qs : ls[j] = LineOf(g, q2)
        BY <1>3, <4>4
      <4>6. g.component[q] = g.component[q2]
        BY <1>2, <3>1, <4>3, <4>5 DEF LineInv, LineHolds
      <4>7. Len(ls[j]) = 1
        BY <3>7, <4>5, <4>6 DEF LineOf
      <4>8. PICK b \in 1..Len(ls) : ls[b] = LineOf(g, p)
        BY <1>3, <4>2, <4>4
      <4>9. b < j
        <5>1. b # j
          <6>1. ~(1 >= 2)
            OBVIOUS
          <6>. QED
            BY <4>2, <4>7, <4>8, <6>1
        <5>2. ~(j < b)
          <6>1. j < b => Len(ls[j]) >= Len(ls[b])
            BY <1>3, <4>4
          <6>2. PICK k : k = Len(ls[b])
            OBVIOUS
          <6>3. k >= 2 /\ k \in Nat
            <7>1. PICK l : l = ls[b]
              OBVIOUS
            <7>2. l \in Seq(qs)
              BY <1>3, <4>4, <7>1
            <7>. QED
              BY <4>2, <4>8, <6>2, <7>1, <7>2
          <6>. QED
            BY <4>7, <6>1, <6>2, <6>3
        <5>. QED
          BY <4>4, <5>1, <5>2
      <4>10. b \in 1..(j - 1)
        BY <4>4, <4>9
      <4>11. p \in ToSet(ls[b])
        BY <1>2, <4>2, <4>8 DEF LineInv, LineHolds
      <4>12. PICK i \in 1..(n - 1) : s[i] = p
        BY <4>3, <4>10, <4>11
      <4>. QED
        BY <3>1, <4>1, <4>12
    <3>8. r.raised # "KeyError"
      BY <3>4, <3>5, <3>7
    <3>9. r.raised = "" => DOMAIN r.map = First(n)
      BY <3>4, <3>5, <3>6
    <3>. QED
      BY <3>1, <3>2, <3>3, <3>8, <3>9
  <2>. HIDE DEF Good, Goes
  <2>. QED
    BY <1>5, <2>21, <2>22, TurnInduction
<1>11. PICK F : F = [n \in 1..L |-> [acc \in X |-> IF Unplaced(acc, n) THEN Place(d, g, acc, s[n]) ELSE acc]]
  OBVIOUS
<1>12. F \in [1..L -> [X -> X]]
  BY <1>10, <1>11
<1>13. PICK h : IsLoop(h, X, NonePlaced(d), L, F)
  BY <1>5, <1>9, <1>12, LoopExists
<1>. DEFINE Def(f) == f = [n \in 0..Len(s) |-> IF n = 0 THEN NonePlaced(d) ELSE Place(d, g, f[n - 1], s[n])]
<1>14. Def(h)
  <2>1. h = [n \in 0..L |-> h[n]] /\ h[0] = NonePlaced(d)
    BY <1>13 DEF IsLoop
  <2>2. \A n \in 0..L : n # 0 => n \in 1..L /\ n - 1 \in 0..L
    BY <1>5
  <2>3. \A n \in 0..L : n # 0 => h[n - 1] \in X /\ h[n] = F[n][h[n - 1]]
    BY <1>13, <2>2 DEF IsLoop
  <2>5. Goes(h)
    <3>1. \A n \in 1..L : n \in 0..L /\ n # 0
      BY <1>5
    <3>. QED
      BY <1>11, <2>1, <2>3, <3>1
  <2>6. 0..L \subseteq Good(h)
    <3>. HIDE DEF Good, Goes
    <3>. QED
      BY <1>loop, <2>5
  <2>7. ASSUME NEW n \in 1..L PROVE Unplaced(h[n - 1], n)
    <3>1. n - 1 \in 0..L /\ \A i \in 1..(n - 1) : i \in 1..L /\ i # n
      BY <1>5
    <3>2. h[n - 1].raised = "" => DOMAIN h[n - 1].map = First(n - 1)
      BY <2>6, <3>1
    <3>3. s[n] \notin First(n - 1)
      BY <1>distinct, <3>1
    <3>. QED
      BY <3>2, <3>3
  <2>4. \A n \in 0..L : n # 0 => h[n] = Place(d, g, h[n - 1], s[n])
    <3>. HIDE DEF Unplaced
    <3>. QED
      BY <1>11, <2>2, <2>3, <2>7
  <2>. QED
    BY <1>1, <2>1, <2>4
<1>15. PICK f : f = CHOOSE b : Def(b)
  OBVIOUS
<1>16. Def(f)
  <2>. HIDE DEF Def
  <2>. QED
    BY <1>14, <1>15
<1>17. Placements(d, g, s) = f
  BY <1>15 DEF Placements, NonePlaced
<1>18. f[0] = NonePlaced(d) /\ \A n \in 1..L : f[n] = Place(d, g, f[n - 1], s[n])
  <2>1. 0 \in 0..L /\ \A n \in 1..L : n \in 0..L /\ n # 0
    BY <1>5
  <2>. QED
    BY <1>1, <1>16, <2>1
<1>19. Goes(f)
  BY <1>18
<1>20. L \in Good(f)
  <2>1. L \in 0..L
    BY <1>5
  <2>. HIDE DEF Good, Goes
  <2>. QED
    BY <1>loop, <1>19, <2>1
<1>24. First(L) = qs
  BY <1>5, <1>6 DEF ToSet
<1>25. PICK r : r = f[L]
  OBVIOUS
<1>26. Placing(d, r, qs) /\ r.raised # "KeyError" /\ (r.raised = "" => DOMAIN r.map = qs)
  BY <1>8, <1>20, <1>24, <1>25
<1>27. InitialMapping(d, c) = r
  BY <1>1, <1>17, <1>25 DEF InitialMapping
<1>28. r.raised \in {"", "ValueError"}
  BY <1>26 DEF Placing
<1>29. r.raised = "" => /\ r.map \in [qs -> Physical] /\ \A p, q \in qs : r.map[p] = r.map[q] => p = q
                        /\ Linked(Undirected(d), Places(r.map))
  BY <1>26 DEF Placing
<1>. QED
  BY <1>1, <1>27, <1>28, <1>29


\* Within places that hang together every place is reached from every other.
LEMMA LinkedBall ==
    ASSUME NEW g \in SUBSET Edges, NEW S \in SUBSET Physical, Linked(g, S),
           \A x, y : <<x, y>> \in g => y \in S, NEW a \in S
    PROVE  Ball(g, a, P - 1) = S
<1>. DEFINE Grown(B, k) == B = S \/ Cardinality(B) >= k + 1
            Good == {k \in 0..P : Ball(g, a, k) \subseteq S /\ Grown(Ball(g, a, k), k)}
<1>1. P \in Nat /\ P >= 1 /\ IsFiniteSet(Physical) /\ Cardinality(Physical) = P
  BY PhysicalFacts
<1>2. \A B \in SUBSET S : IsFiniteSet(B) /\ Cardinality(B) \in Nat
  BY <1>1, FS_Subset, FS_CardinalityType
<1>3. 0 \in Good
  <2>1. Ball(g, a, 0) = {a} /\ Cardinality({a}) = 1
    BY BallRecursion, FS_Singleton
  <2>. QED
    BY <1>1, <2>1
<1>4. ASSUME NEW k \in 1..P, k - 1 \in Good PROVE k \in Good
  <2>1. PICK B, C : B = Ball(g, a, k - 1) /\ C = Ball(g, a, k)
    OBVIOUS
  <2>2. C = Around(g, B)
    BY <2>1, BallRecursion
  <2>3. B \subseteq S /\ (B = S \/ Cardinality(B) >= k)
    BY <1>1, <1>4, <2>1
  <2>4. B \subseteq C /\ C \subseteq S /\ \A x \in B : \A y : <<x, y>> \in g => y \in C
    BY <2>2, <2>3, AroundFacts
  <2>5. CASE B = S
    BY <1>1, <2>1, <2>4, <2>5
  <2>6. CASE B # S
    <3>1. B # {}
      <4>1. Cardinality(B) # 0
        BY <1>1, <1>2, <2>3, <2>6
      <4>. QED
        BY <4>1, FS_EmptySet
    <3>2. PICK x \in B : \E y \in S \ B : <<x, y>> \in g
      BY <2>3, <2>6, <3>1 DEF Linked
    <3>3. PICK y \in S \ B : <<x, y>> \in g
      BY <3>2
    <3>4. B \cup {y} \subseteq C
      BY <2>4, <3>3
    <3>5. Cardinality(B \cup {y}) = Cardinality(B) + 1
      BY <1>2, <2>3, <3>3, FS_AddElement
    <3>6. Cardinality(B \cup {y}) <= Cardinality(C)
      BY <1>2, <2>4, <3>4, FS_Subset
    <3>7. Cardinality(C) >= k + 1
      BY <1>1, <1>2, <2>3, <2>4, <2>6, <3>5, <3>6
    <3>. QED
      BY <2>1, <2>4, <3>7
  <2>. QED
    BY <2>5, <2>6
<1>5. P - 1 \in Good
  <2>1. P - 1 \in 0..P
    BY <1>1
  <2>. HIDE DEF Good
  <2>. QED
    BY <1>1, <1>3, <1>4, <2>1, TurnInduction
<1>6. PICK B : B = Ball(g, a, P - 1)
  OBVIOUS
<1>7. B \subseteq S /\ (B = S \/ Cardinality(B) >= P)
  BY <1>1, <1>5, <1>6
<1>8. Cardinality(B) >= P => B = Physical
  <2>1. Cardinality(B) <= P /\ (Cardinality(B) = P => B = Physical)
    BY <1>1, <1>7, FS_Subset
  <2>. QED
    BY <1>1, <1>2, <1>7, <2>1
<1>. QED
  BY <1>6, <1>7, <1>8

\* A qubit reached in fewer steps than there are qubits.
LEMMA BallDistance ==
    ASSUME NEW g \in SUBSET Edges, NEW x \in Physical, NEW y \in Physical, y \in Ball(g, x, P - 1)
    PROVE  FloydWarshall(g)[x][y] < P
<1>1. P \in Nat /\ P - 1 \in 0..(P - 1)
  BY PhysicalFacts
<1>2. FloydWarshall(g)[x][y] \in 0..P /\ FloydWarshall(g)[x][y] <= P - 1
  BY <1>1, DistanceFacts
<1>. QED
  BY <1>1, <1>2

LEMMA InducedFacts ==
    ASSUME NEW g \in SUBSET Edges, NEW S
    PROVE  /\ Induced(g, S) \in SUBSET Edges /\ Undirected(Induced(g, S)) \in SUBSET Edges
           /\ \A x, y : <<x, y>> \in Undirected(Induced(g, S)) <=> <<x, y>> \in Undirected(g) /\ x \in S /\ y \in S
<1>1. Induced(g, S) \in SUBSET Edges /\ \A x, y : <<x, y>> \in Induced(g, S) <=> <<x, y>> \in g /\ x \in S /\ y \in S
  BY DEF Induced
<1>2. \A h \in SUBSET Edges : \A x, y : <<x, y>> \in Undirected(h) <=> <<x, y>> \in h \/ <<y, x>> \in h
  BY GraphFacts
<1>3. Undirected(Induced(g, S)) \in SUBSET Edges
  BY <1>1, GraphFacts
<1>. QED
  BY <1>1, <1>2, <1>3

\* The line mapper leaves no gap.
LEMMA LinkedReachable ==
    ASSUME NEW g \in SUBSET Edges, NEW S \in SUBSET Physical, Linked(Undirected(g), S)
    PROVE  Reachable(g, S)
<1>1. PICK u : u = Undirected(Induced(g, S))
  OBVIOUS
<1>2. u \in SUBSET Edges /\ \A x, y : <<x, y>> \in u <=> <<x, y>> \in Undirected(g) /\ x \in S /\ y \in S
  BY <1>1, InducedFacts
<1>3. Linked(u, S)
  <2>. SUFFICES ASSUME NEW T \in SUBSET S, T # {}, T # S PROVE \E x \in T : \E y \in S \ T : <<x, y>> \in u
    BY DEF Linked
  <2>1. PICK x \in T : \E y \in S \ T : <<x, y>> \in Undirected(g)
    BY DEF Linked
  <2>. QED
    BY <1>2, <2>1
<1>4. \A x \in S : Ball(u, x, P - 1) = S
  BY <1>2, <1>3, LinkedBall
<1>5. \A x, y \in S : FloydWarshall(u)[x][y] < P
  BY <1>2, <1>4, BallDistance
<1>. QED
  BY <1>1, <1>5 DEF Reachable

-----------------------------------------------------------------------------
(* The timesteps *)

\* The operations on the qubits qs, those on two of them, and the others.
OpsOn(qs) == {op \in Operation : ToSet(op.qubits) \subseteq qs /\ OnDistinctQubits(op)}
Doubles(qs) == {op \in OpsOn(qs) : Len(op.qubits) = 2}
Singles(qs) == {op \in OpsOn(qs) : Len(op.qubits) # 2}

\* Two lists of timesteps of the same length.
StepsType(acc, qs) ==
    /\ acc = [single |-> acc.single, double |-> acc.double, raised |-> acc.raised]
    /\ acc.single \in Seq(Seq(Singles(qs))) /\ acc.double \in Seq(Seq(Doubles(qs)))
    /\ acc.raised \in BOOLEAN
    /\ Len(acc.single) = Len(acc.double)

\* The greatest element of a bounded set of naturals.
LEMMA MaxFacts ==
    ASSUME NEW N \in Nat, NEW S \in SUBSET (0..N), S # {}
    PROVE  Max(S) \in S /\ \A y \in S : Max(S) >= y
<1>1. PICK U : U = {n \in 0..N : N - n \in S}
  OBVIOUS
<1>2. U \in SUBSET Nat /\ U # {}
  <2>1. PICK x \in S : TRUE
    OBVIOUS
  <2>2. N - x \in 0..N /\ N - (N - x) = x
    BY <2>1
  <2>3. N - x \in U
    BY <1>1, <2>1, <2>2
  <2>4. \A n \in U : n \in Nat
    BY <1>1
  <2>. QED
    BY <2>3, <2>4
<1>3. PICK m \in U : \A n \in U : m <= n
  BY <1>2, LeastElement
<1>4. N - m \in S
  BY <1>1, <1>3
<1>5. \A y \in S : N - m >= y
  <2>1. ASSUME NEW y \in S PROVE N - m >= y
    <3>1. N - y \in 0..N /\ N - (N - y) = y
      OBVIOUS
    <3>2. N - y \in U
      BY <1>1, <3>1
    <3>3. m <= N - y /\ m \in 0..N
      BY <1>1, <1>3, <3>2
    <3>. QED
      BY <3>3
  <2>. QED
    BY <2>1
<1>6. \E x \in S : \A y \in S : x >= y
  BY <1>4, <1>5
<1>. QED
  BY <1>6 DEF Max

\* An operation goes to a timestep there is or to the next one.
LEMMA EarliestFacts ==
    ASSUME NEW T, NEW steps \in Seq(T), NEW op
    PROVE  EarliestTimestep(steps, op) \in 1..(Len(steps) + 1)
<1>1. PICK L, S : /\ L = Len(steps)
                  /\ S = {0} \cup {t \in DOMAIN steps :
                        \E i \in DOMAIN steps[t] : ToSet(steps[t][i].qubits) \cap ToSet(op.qubits) # {}}
  OBVIOUS
<1>2. L \in Nat /\ DOMAIN steps = 1..L
  BY <1>1
<1>3. S \in SUBSET (0..L) /\ S # {}
  BY <1>1, <1>2
<1>4. Max(S) \in S
  BY <1>2, <1>3, MaxFacts
<1>5. EarliestTimestep(steps, op) = 1 + Max(S)
  BY <1>1 DEF EarliestTimestep
<1>6. Max(S) \in 0..L
  BY <1>3, <1>4
<1>7. PICK m : m = Max(S)
  OBVIOUS
<1>8. 1 + m \in 1..(L + 1)
  BY <1>2, <1>6, <1>7
<1>. QED
  BY <1>1, <1>5, <1>7, <1>8

\* The length of two sequences joined.
LEMMA ConcatLength ==
    ASSUME NEW S, NEW s \in Seq(S), NEW t \in Seq(S)
    PROVE  s \o t \in Seq(S) /\ Len(s \o t) = Len(s) + Len(t)
OBVIOUS

\* The lists grow to the timestep that is needed.
LEMMA ExtendedFacts ==
    ASSUME NEW T, NEW steps \in Seq(Seq(T)), NEW t \in 1..(Len(steps) + 1)
    PROVE  /\ Extended(steps, t) \in Seq(Seq(T)) /\ t \in 1..Len(Extended(steps, t))
           /\ Len(Extended(steps, t)) = IF t = Len(steps) + 1 THEN t ELSE Len(steps)
<1>1. PICK S, L, k : S = Seq(T) /\ L = Len(steps) /\ k = t - L
  OBVIOUS
<1>2. steps \in Seq(S) /\ L \in Nat /\ Len(steps) = L /\ << >> \in S /\ t \in 1..(L + 1)
  BY <1>1
<1>3. PICK e : e = [i \in 1..k |-> << >>]
  OBVIOUS
<1>4. CASE t = L + 1
  <2>1. k = 1
    BY <1>1, <1>2, <1>4
  <2>2. e \in [1..1 -> S]
    BY <1>2, <1>3, <2>1
  <2>3. e \in Seq(S) /\ Len(e) = 1
    BY <1>3, <2>1, <2>2
  <2>4. steps \o e \in Seq(S) /\ Len(steps \o e) = L + 1
    <3>1. steps \o e \in Seq(S) /\ Len(steps \o e) = Len(steps) + Len(e)
      BY <1>2, <2>3, ConcatLength
    <3>. QED
      BY <1>2, <2>3, <3>1
  <2>. QED
    BY <1>1, <1>2, <1>3, <1>4, <2>4 DEF Extended
<1>5. CASE t # L + 1
  <2>1. k <= 0 /\ t \in 1..L /\ k \in Int
    BY <1>1, <1>2, <1>5
  <2>2. 1..k = {} /\ 1..0 = {}
    BY <2>1
  <2>3. e = [i \in 1..0 |-> << >>]
    BY <1>3, <2>2
  <2>4. e \in Seq(S) /\ Len(e) = 0
    <3>1. e \in [1..0 -> S] /\ DOMAIN e = 1..0
      BY <1>2, <2>3
    <3>. QED
      BY <3>1
  <2>5. steps \o e \in Seq(S) /\ Len(steps \o e) = L
    <3>1. steps \o e \in Seq(S) /\ Len(steps \o e) = Len(steps) + Len(e)
      BY <1>2, <2>4, ConcatLength
    <3>. QED
      BY <1>2, <2>4, <3>1
  <2>. QED
    BY <1>1, <1>2, <1>3, <1>5, <2>1, <2>5 DEF Extended
<1>. QED
  BY <1>4, <1>5

\* A list with one timestep replaced.
LEMMA ReplacedFacts ==
    ASSUME NEW S, NEW s \in Seq(S), NEW t \in 1..Len(s), NEW x \in S
    PROVE  [s EXCEPT ![t] = x] \in Seq(S) /\ Len([s EXCEPT ![t] = x]) = Len(s)
OBVIOUS

\* A measurement of many qubits becomes one of each.
LEMMA OneByOneFacts ==
    ASSUME NEW qs, NEW op \in OpsOn(qs)
    PROVE  OneByOne(op) \in Seq(Singles(qs))
<1>1. PICK s, L : s = op.qubits /\ L = Len(s)
  OBVIOUS
<1>2. s \in Seq(Nat) /\ ToSet(s) \subseteq qs
  BY <1>1 DEF OpsOn, Operation
<1>3. L \in Nat /\ DOMAIN s = 1..L /\ \A i \in 1..L : s[i] \in Nat
  BY <1>1, <1>2
<1>4. \A i \in 1..L : s[i] \in qs
  BY <1>2, <1>3 DEF ToSet
<1>5. ASSUME NEW i \in 1..L PROVE [op EXCEPT !.qubits = <<s[i]>>] \in Singles(qs)
  <2>1. PICK x : x = s[i]
    OBVIOUS
  <2>2. x \in Nat /\ x \in qs
    BY <1>3, <1>4, <2>1
  <2>3. <<x>> \in Seq(Nat) /\ Len(<<x>>) = 1 /\ ToSet(<<x>>) = {x}
    BY <2>2, SingleSet
  <2>4. PICK o : o = [op EXCEPT !.qubits = <<x>>]
    OBVIOUS
  <2>5. op \in Operation
    BY DEF OpsOn
  <2>6. o \in Operation /\ o.qubits = <<x>>
    BY <2>3, <2>4, <2>5 DEF Operation
  <2>7. ToSet(o.qubits) \subseteq qs /\ Len(o.qubits) # 2 /\ DOMAIN o.qubits = {1}
    BY <2>2, <2>3, <2>6
  <2>8. OnDistinctQubits(o)
    <3>1. PICK d : d = DOMAIN o.qubits
      OBVIOUS
    <3>2. \A a, b \in d : a = b
      BY <2>7, <3>1
    <3>. QED
      BY <3>1, <3>2 DEF OnDistinctQubits
  <2>9. o \in Singles(qs)
    BY <2>6, <2>7, <2>8 DEF Singles, OpsOn
  <2>. QED
    BY <2>1, <2>4, <2>9
<1>6. PICK r : r = [i \in 1..L |-> [op EXCEPT !.qubits = <<s[i]>>]]
  OBVIOUS
<1>7. OneByOne(op) = r
  BY <1>1, <1>3, <1>6 DEF OneByOne
<1>8. r \in [1..L -> Singles(qs)]
  BY <1>5, <1>6
<1>9. r \in Seq(Singles(qs))
  BY <1>3, <1>8
<1>. QED
  BY <1>7, <1>9

\* A visit puts the operation into one of the lists.
LEMMA VisitFacts ==
    ASSUME NEW qs, NEW acc, StepsType(acc, qs), NEW op \in OpsOn(qs), NEW last \in BOOLEAN
    PROVE  StepsType(Visit(acc, op, last), qs)
<1>1. PICK S, D, sing, doub, t : /\ S = Singles(qs) /\ D = Doubles(qs) /\ sing = acc.single /\ doub = acc.double
                                 /\ t = EarliestTimestep(doub, op)
  OBVIOUS
<1>2. sing \in Seq(Seq(S)) /\ doub \in Seq(Seq(D)) /\ Len(sing) = Len(doub)
  BY <1>1 DEF StepsType
<1>3. t \in 1..(Len(doub) + 1)
  BY <1>1, <1>2, EarliestFacts
<1>4. PICK s1, d1 : s1 = Extended(sing, t) /\ d1 = Extended(doub, t)
  OBVIOUS
<1>5. s1 \in Seq(Seq(S)) /\ t \in 1..Len(s1) /\ Len(s1) = IF t = Len(sing) + 1 THEN t ELSE Len(sing)
  BY <1>2, <1>3, <1>4, ExtendedFacts
<1>6. d1 \in Seq(Seq(D)) /\ t \in 1..Len(d1) /\ Len(d1) = IF t = Len(doub) + 1 THEN t ELSE Len(doub)
  BY <1>2, <1>3, <1>4, ExtendedFacts
<1>7. Len(s1) = Len(d1)
  BY <1>2, <1>5, <1>6
<1>8. PICK grown : grown = [acc EXCEPT !.single = Extended(@, t), !.double = Extended(@, t)]
  OBVIOUS
<1>9. grown = [single |-> s1, double |-> d1, raised |-> acc.raised]
  BY <1>1, <1>4, <1>8 DEF StepsType
<1>10. PICK a, b : a = s1[t] /\ b = d1[t]
  OBVIOUS
<1>11. a \in Seq(S) /\ b \in Seq(D)
  BY <1>5, <1>6, <1>10
<1>12. PICK r : r = Visit(acc, op, last)
  OBVIOUS
<1>13. ASSUME NEW x, x \in Seq(S), r = [single |-> [s1 EXCEPT ![t] = x], double |-> d1, raised |-> acc.raised]
       PROVE  StepsType(r, qs)
  <2>1. PICK U : U = Seq(S)
    OBVIOUS
  <2>2. [s1 EXCEPT ![t] = x] \in Seq(U) /\ Len([s1 EXCEPT ![t] = x]) = Len(s1)
    BY <1>5, <1>13, <2>1, ReplacedFacts
  <2>3. r.single = [s1 EXCEPT ![t] = x] /\ r.double = d1 /\ r.raised = acc.raised
    BY <1>13
  <2>. QED
    BY <1>1, <1>6, <1>7, <1>13, <2>1, <2>2, <2>3 DEF StepsType
<1>14. ASSUME NEW x, x \in Seq(D), r = [single |-> s1, double |-> [d1 EXCEPT ![t] = x], raised |-> acc.raised]
       PROVE  StepsType(r, qs)
  <2>1. PICK U : U = Seq(D)
    OBVIOUS
  <2>2. [d1 EXCEPT ![t] = x] \in Seq(U) /\ Len([d1 EXCEPT ![t] = x]) = Len(d1)
    BY <1>6, <1>14, <2>1, ReplacedFacts
  <2>3. r.single = s1 /\ r.double = [d1 EXCEPT ![t] = x] /\ r.raised = acc.raised
    BY <1>14
  <2>. QED
    BY <1>1, <1>5, <1>7, <1>14, <2>1, <2>2, <2>3 DEF StepsType
<1>15. CASE Len(op.qubits) > 2 /\ ~last /\ op.kind = "measureKey"
  <2>1. r = [grown EXCEPT !.raised = TRUE]
    BY <1>1, <1>8, <1>12, <1>15 DEF Visit
  <2>2. r = [single |-> s1, double |-> d1, raised |-> TRUE]
    BY <1>9, <2>1
  <2>. QED
    BY <1>1, <1>5, <1>6, <1>7, <1>12, <2>2 DEF StepsType
<1>16. CASE Len(op.qubits) > 2 /\ ~last /\ op.kind # "measureKey"
  <2>1. r = [grown EXCEPT !.single[t] = @ \o OneByOne(op)]
    BY <1>1, <1>8, <1>12, <1>16 DEF Visit
  <2>2. r = [single |-> [s1 EXCEPT ![t] = a \o OneByOne(op)], double |-> d1, raised |-> acc.raised]
    BY <1>9, <1>10, <2>1
  <2>3. PICK z : z = OneByOne(op)
    OBVIOUS
  <2>4. z \in Seq(S)
    BY <1>1, <2>3, OneByOneFacts
  <2>5. a \o z \in Seq(S)
    BY <1>11, <2>4
  <2>. QED
    BY <1>12, <1>13, <2>2, <2>3, <2>5
<1>17. CASE ~(Len(op.qubits) > 2 /\ ~last) /\ Len(op.qubits) = 2
  <2>1. r = [grown EXCEPT !.double[t] = Append(@, op)]
    BY <1>1, <1>8, <1>12, <1>17 DEF Visit
  <2>2. r = [single |-> s1, double |-> [d1 EXCEPT ![t] = Append(b, op)], raised |-> acc.raised]
    BY <1>9, <1>10, <2>1
  <2>3. op \in D
    BY <1>1, <1>17 DEF Doubles
  <2>4. Append(b, op) \in Seq(D)
    BY <1>11, <2>3
  <2>. QED
    BY <1>12, <1>14, <2>2, <2>4
<1>18. CASE ~(Len(op.qubits) > 2 /\ ~last) /\ Len(op.qubits) # 2
  <2>1. r = [grown EXCEPT !.single[t] = Append(@, op)]
    BY <1>1, <1>8, <1>12, <1>18 DEF Visit
  <2>2. r = [single |-> [s1 EXCEPT ![t] = Append(a, op)], double |-> d1, raised |-> acc.raised]
    BY <1>9, <1>10, <2>1
  <2>3. op \in S
    BY <1>1, <1>18 DEF Singles
  <2>4. Append(a, op) \in Seq(S)
    BY <1>11, <2>3
  <2>. QED
    BY <1>12, <1>13, <2>2, <2>4
<1>. QED
  BY <1>15, <1>16, <1>17, <1>18

\* The visits of a circuit's operations.
LEMMA VisitsFacts ==
    ASSUME NEW c \in Circuits
    PROVE  Visits(c) \in Seq([op : OpsOn(AllQubits(c)), last : BOOLEAN])
<1>1. PICK O, V, L : O = OpsOn(AllQubits(c)) /\ V = [op : O, last : BOOLEAN] /\ L = Len(c)
  OBVIOUS
<1>2. c \in Seq(Seq(Operation)) /\ ToSet(AllOperations(c)) = UNION {ToSet(c[i]) : i \in DOMAIN c}
  <2>1. c \in Seq(Seq(Operation))
    BY CircuitFacts
  <2>. QED
    BY <2>1, FlattenElements DEF AllOperations
<1>3. L \in Nat /\ DOMAIN c = 1..L
  BY <1>1, <1>2
<1>4. \A i \in 1..L : c[i] \in Seq(Operation)
  BY <1>1, <1>2
<1>5. PICK vs : vs = [i \in 1..L |-> [j \in DOMAIN c[i] |-> [op |-> c[i][j], last |-> i = Len(c)]]]
  OBVIOUS
<1>6. ASSUME NEW i \in 1..L PROVE vs[i] \in Seq(V)
  <2>1. PICK m, n : m = c[i] /\ n = Len(m)
    OBVIOUS
  <2>2. m \in Seq(Operation)
    BY <1>4, <2>1
  <2>3. n \in Nat /\ DOMAIN m = 1..n /\ \A j \in 1..n : m[j] \in Operation
    BY <2>1, <2>2
  <2>4. \A j \in 1..n : m[j] \in ToSet(c[i])
    BY <2>1, <2>3 DEF ToSet
  <2>5. \A j \in 1..n : m[j] \in ToSet(AllOperations(c))
    BY <1>2, <1>3, <2>4
  <2>6. \A j \in 1..n : m[j] \in O
    <3>1. \A j \in 1..n : OnDistinctQubits(m[j])
      BY <1>3, <2>1, <2>3, CircuitAssumption
    <3>2. \A j \in 1..n : m[j] \in Operation /\ ToSet(m[j].qubits) \subseteq AllQubits(c)
      BY <2>5, CircuitFacts
    <3>. QED
      BY <1>1, <3>1, <3>2 DEF OpsOn
  <2>7. PICK u : u = [j \in 1..n |-> [op |-> m[j], last |-> i = Len(c)]]
    OBVIOUS
  <2>8. u = vs[i]
    BY <1>5, <2>1, <2>3, <2>7
  <2>9. u \in [1..n -> V]
    BY <1>1, <2>6, <2>7
  <2>10. u \in Seq(V)
    BY <2>3, <2>9
  <2>. QED
    BY <2>8, <2>10
<1>7. vs \in Seq(Seq(V))
  <2>1. PICK S : S = Seq(V)
    OBVIOUS
  <2>2. vs \in [1..L -> S]
    BY <1>5, <1>6, <2>1
  <2>3. vs \in Seq(S)
    BY <1>3, <2>2
  <2>. QED
    BY <2>1, <2>3
<1>8. FlattenSeq(vs) \in Seq(V)
  BY <1>7, FlattenElements
<1>9. Visits(c) = FlattenSeq(vs)
  BY <1>3, <1>5 DEF Visits
<1>. QED
  BY <1>1, <1>8, <1>9

\* No timestep yet.
NoSteps == [single |-> << >>, double |-> << >>, raised |-> FALSE]

\* The timesteps of a circuit: two lists of the same length, one of operations on two
\* of the circuit's qubits, one of the others.
LEMMA TimestepsFacts ==
    ASSUME NEW c \in Circuits
    PROVE  StepsType(Timesteps(c), AllQubits(c))
<1>1. PICK qs, vs, L : qs = AllQubits(c) /\ vs = Visits(c) /\ L = Len(vs)
  OBVIOUS
<1>2. vs \in Seq([op : OpsOn(qs), last : BOOLEAN])
  BY <1>1, VisitsFacts
<1>3. L \in Nat /\ \A n \in 1..L : vs[n].op \in OpsOn(qs) /\ vs[n].last \in BOOLEAN
  <2>1. PICK V : V = [op : OpsOn(qs), last : BOOLEAN]
    OBVIOUS
  <2>2. vs \in Seq(V)
    BY <1>2, <2>1
  <2>3. L \in Nat /\ \A n \in 1..L : vs[n] \in V
    BY <1>1, <2>2
  <2>. QED
    BY <2>1, <2>3
<1>4. PICK X : X = {acc \in [single : Seq(Seq(Singles(qs))), double : Seq(Seq(Doubles(qs))), raised : BOOLEAN] :
                      StepsType(acc, qs)}
  OBVIOUS
<1>5. \A acc : acc \in X <=> StepsType(acc, qs)
  <2>1. ASSUME NEW acc, StepsType(acc, qs)
        PROVE  acc \in [single : Seq(Seq(Singles(qs))), double : Seq(Seq(Doubles(qs))), raised : BOOLEAN]
    BY <2>1 DEF StepsType
  <2>. QED
    BY <1>4, <2>1
<1>6. NoSteps \in X
  <2>1. /\ NoSteps.single = << >> /\ NoSteps.double = << >> /\ NoSteps.raised = FALSE
        /\ NoSteps = [single |-> NoSteps.single, double |-> NoSteps.double, raised |-> NoSteps.raised]
    BY DEF NoSteps
  <2>2. << >> \in Seq(Seq(Singles(qs))) /\ << >> \in Seq(Seq(Doubles(qs)))
    OBVIOUS
  <2>3. StepsType(NoSteps, qs)
    BY <2>1, <2>2 DEF StepsType
  <2>. QED
    BY <1>5, <2>3
<1>7. \A n \in 1..L : \A acc \in X : Visit(acc, vs[n].op, vs[n].last) \in X
  <2>1. ASSUME NEW n \in 1..L, NEW acc \in X PROVE Visit(acc, vs[n].op, vs[n].last) \in X
    <3>1. PICK op, last : op = vs[n].op /\ last = vs[n].last
      OBVIOUS
    <3>2. op \in OpsOn(qs) /\ last \in BOOLEAN /\ StepsType(acc, qs)
      BY <1>3, <1>5, <3>1
    <3>3. StepsType(Visit(acc, op, last), qs)
      BY <3>2, VisitFacts
    <3>. QED
      BY <1>5, <3>1, <3>3
  <2>. QED
    BY <2>1
<1>8. PICK F : F = [n \in 1..L |-> [acc \in X |-> Visit(acc, vs[n].op, vs[n].last)]]
  OBVIOUS
<1>9. F \in [1..L -> [X -> X]]
  BY <1>7, <1>8
<1>10. PICK h : IsLoop(h, X, NoSteps, L, F)
  BY <1>3, <1>6, <1>9, LoopExists
<1>. DEFINE Def(f) == f = [n \in 0..Len(vs) |-> IF n = 0 THEN NoSteps ELSE Visit(f[n - 1], vs[n].op, vs[n].last)]
<1>11. Def(h)
  <2>1. h = [n \in 0..L |-> h[n]] /\ h[0] = NoSteps
    BY <1>10 DEF IsLoop
  <2>2. \A n \in 0..L : n # 0 => n \in 1..L /\ n - 1 \in 0..L
    BY <1>3
  <2>3. \A n \in 0..L : n # 0 => h[n - 1] \in X /\ h[n] = F[n][h[n - 1]]
    BY <1>10, <2>2 DEF IsLoop
  <2>4. \A n \in 0..L : n # 0 => h[n] = Visit(h[n - 1], vs[n].op, vs[n].last)
    BY <1>8, <2>2, <2>3
  <2>. QED
    BY <1>1, <2>1, <2>4
<1>12. PICK f : f = CHOOSE b : Def(b)
  OBVIOUS
<1>13. Def(f)
  <2>. HIDE DEF Def
  <2>. QED
    BY <1>11, <1>12
<1>14. StepsOf(vs) = f
  BY <1>12 DEF StepsOf, NoSteps
<1>15. f[0] = NoSteps /\ \A n \in 1..L : f[n] = Visit(f[n - 1], vs[n].op, vs[n].last)
  <2>1. 0 \in 0..L /\ \A n \in 1..L : n \in 0..L /\ n # 0
    BY <1>3
  <2>. QED
    BY <1>1, <1>13, <2>1
<1>16. \A n \in 1..L : f[n - 1] \in X => f[n] = F[n][f[n - 1]]
  BY <1>8, <1>15
<1>17. \A n \in 0..L : f[n] \in X
  BY <1>3, <1>6, <1>9, <1>15, <1>16, LoopTyped
<1>18. f[L] \in X
  BY <1>3, <1>17
<1>. QED
  BY <1>1, <1>5, <1>14, <1>18 DEF Timesteps

-----------------------------------------------------------------------------
(* The two maps *)

\* Two functions are inverse to each other.
Inverse2(f, h) ==
    /\ \A q \in DOMAIN f : f[q] \in DOMAIN h /\ h[f[q]] = q
    /\ \A p \in DOMAIN h : h[p] \in DOMAIN f /\ f[h[p]] = p

\* The inverse of an injective mapping.
LEMMA InvertedFacts ==
    ASSUME NEW Q, NEW m \in [Q -> Physical], \A a, b \in Q : m[a] = m[b] => a = b
    PROVE  /\ DOMAIN Inverted(m) = {m[q] : q \in DOMAIN m} /\ DOMAIN Inverted(m) \subseteq Physical
           /\ Inverted(m) \in [DOMAIN Inverted(m) -> Q]
           /\ Inverse2(m, Inverted(m))
<1>1. PICK h, I : h = Inverted(m) /\ I = {m[q] : q \in Q}
  OBVIOUS
<1>2. DOMAIN m = Q /\ I \subseteq Physical
  BY <1>1
<1>3. h = [p \in I |-> CHOOSE q \in Q : m[q] = p]
  BY <1>1, <1>2 DEF Inverted
<1>4. DOMAIN h = I
  BY <1>3
<1>5. ASSUME NEW p \in I PROVE h[p] \in Q /\ m[h[p]] = p
  <2>1. \E q \in Q : m[q] = p
    BY <1>1
  <2>2. h[p] = CHOOSE q \in Q : m[q] = p
    BY <1>3
  <2>. QED
    BY <2>1, <2>2
<1>6. ASSUME NEW q \in Q PROVE m[q] \in I /\ h[m[q]] = q
  <2>1. m[q] \in I
    BY <1>1
  <2>2. h[m[q]] \in Q /\ m[h[m[q]]] = m[q]
    BY <1>5, <2>1
  <2>. QED
    BY <2>1, <2>2
<1>7. h \in [I -> Q]
  BY <1>3, <1>5
<1>8. Inverse2(m, h)
  BY <1>2, <1>4, <1>5, <1>6 DEF Inverse2
<1>. QED
  BY <1>1, <1>2, <1>4, <1>7, <1>8

\* A function, and what exchanging entries makes of two that are inverse to each other.
IsMap(h) == h = [p \in DOMAIN h |-> h[p]]
Exchange(A, B, f, h, a, b) ==
    /\ Exchanged(f, a, b) \in [A -> B]
    /\ DOMAIN Exchanged(h, f[a], f[b]) = DOMAIN h
    /\ Exchanged(h, f[a], f[b]) \in [DOMAIN h -> A]
    /\ Inverse2(Exchanged(f, a, b), Exchanged(h, f[a], f[b]))
    /\ Exchanged(f, a, b)[a] = f[b] /\ Exchanged(f, a, b)[b] = f[a]
    /\ \A q \in A : q # a /\ q # b => Exchanged(f, a, b)[q] = f[q]

\* Exchanging two entries of one and the two entries they point to of the other
\* leaves them inverse to each other.
LEMMA ExchangedFacts ==
    ASSUME NEW A, NEW B, NEW f \in [A -> B], NEW h, IsMap(h), Inverse2(f, h), NEW a \in A, NEW b \in A
    PROVE  Exchange(A, B, f, h, a, b)
<1>1. PICK x, y, f2, h2 : x = f[a] /\ y = f[b] /\ f2 = Exchanged(f, a, b) /\ h2 = Exchanged(h, x, y)
  OBVIOUS
<1>2. DOMAIN f = A /\ x \in DOMAIN h /\ y \in DOMAIN h /\ h[x] = a /\ h[y] = b
  BY <1>1 DEF Inverse2
<1>3. f2 = [q \in A |-> IF q = b THEN x ELSE IF q = a THEN y ELSE f[q]]
  BY <1>1, <1>2 DEF Exchanged
<1>4. h2 = [p \in DOMAIN h |-> IF p = y THEN a ELSE IF p = x THEN b ELSE h[p]]
  BY <1>1, <1>2 DEF Exchanged, IsMap
<1>5. f2 \in [A -> B] /\ DOMAIN f2 = A
  BY <1>1, <1>3
<1>6. DOMAIN h2 = DOMAIN h /\ h2 \in [DOMAIN h -> A]
  <2>1. \A p \in DOMAIN h : h[p] \in A
    BY <1>2 DEF Inverse2
  <2>. QED
    BY <1>4, <2>1
<1>7. ASSUME NEW q \in A PROVE f2[q] \in DOMAIN h /\ h2[f2[q]] = q
  <2>1. f[q] \in DOMAIN h /\ h[f[q]] = q
    BY <1>2 DEF Inverse2
  <2>2. CASE q = b
    BY <1>1, <1>2, <1>3, <1>4, <2>1, <2>2
  <2>3. CASE q # b /\ q = a
    BY <1>1, <1>2, <1>3, <1>4, <2>1, <2>3
  <2>4. CASE q # b /\ q # a
    BY <1>1, <1>2, <1>3, <1>4, <2>1, <2>4
  <2>. QED
    BY <2>2, <2>3, <2>4
<1>8. ASSUME NEW p \in DOMAIN h PROVE h2[p] \in A /\ f2[h2[p]] = p
  <2>1. h[p] \in A /\ f[h[p]] = p
    BY <1>2 DEF Inverse2
  <2>2. CASE p = y
    BY <1>1, <1>2, <1>3, <1>4, <2>1, <2>2
  <2>3. CASE p # y /\ p = x
    BY <1>1, <1>2, <1>3, <1>4, <2>1, <2>3
  <2>4. CASE p # y /\ p # x
    BY <1>1, <1>2, <1>3, <1>4, <2>1, <2>4
  <2>. QED
    BY <2>2, <2>3, <2>4
<1>9. Inverse2(f2, h2)
  BY <1>5, <1>6, <1>7, <1>8 DEF Inverse2
<1>10. f2[a] = y /\ f2[b] = x /\ \A q \in A : q # a /\ q # b => f2[q] = f[q]
  BY <1>1, <1>3
<1>. QED
  BY <1>1, <1>5, <1>6, <1>9, <1>10 DEF Exchange

-----------------------------------------------------------------------------
(* Swaps that can be done one after the other *)

\* Each swap of neighbours on the graph g, and no two with a qubit in common.
Apart(g, l2p, ws) ==
    /\ \A i \in DOMAIN ws : <<l2p[ws[i][1]], l2p[ws[i][2]]>> \in g
    /\ \A i, j \in DOMAIN ws : i # j => {ws[i][1], ws[i][2]} \cap {ws[j][1], ws[j][2]} = {}

\* One qubit is moved along a path of others.
Along(g, l2p, ws) ==
    /\ \A i \in DOMAIN ws : ws[i][1] = ws[1][1] /\ ws[i][2] # ws[1][1]
    /\ \A i, j \in DOMAIN ws : i # j => ws[i][2] # ws[j][2]
    /\ ws # << >> => <<l2p[ws[1][1]], l2p[ws[1][2]]>> \in g
    /\ \A i \in DOMAIN ws : i + 1 \in DOMAIN ws => <<l2p[ws[i][2]], l2p[ws[i + 1][2]]>> \in g

Swappable(g, l2p, ws) ==
    /\ ws \in Seq((DOMAIN l2p) \X (DOMAIN l2p))
    /\ Apart(g, l2p, ws) \/ Along(g, l2p, ws)

\* The mapping f2 after swap w, and the swaps ws after the first of them.
Moved(A, f, f2, w) == f2[w[1]] = f[w[2]] /\ \A q \in A : q # w[1] /\ q # w[2] => f2[q] = f[q]
Advanced(g, A, f, f2, ws) ==
    /\ ws[1] = <<ws[1][1], ws[1][2]>> /\ ws[1][1] \in A /\ ws[1][2] \in A
    /\ <<f[ws[1][1]], f[ws[1][2]]>> \in g
    /\ Swappable(g, f2, Tail(ws))

\* The first of the swaps can be done, and then the others.
LEMMA SwappableStep ==
    ASSUME NEW g, NEW A, NEW B, NEW f \in [A -> B], NEW ws, Swappable(g, f, ws), ws # << >>,
           NEW f2 \in [A -> B], Moved(A, f, f2, ws[1])
    PROVE  Advanced(g, A, f, f2, ws)
<1>0. f2[ws[1][1]] = f[ws[1][2]] /\ \A q \in A : q # ws[1][1] /\ q # ws[1][2] => f2[q] = f[q]
  BY DEF Moved
<1>1. PICK L, t, W : L = Len(ws) /\ t = Tail(ws) /\ W = A \X A
  OBVIOUS
<1>2. DOMAIN f = A /\ DOMAIN f2 = A
  OBVIOUS
<1>3. ws \in Seq(W)
  BY <1>1, <1>2 DEF Swappable
<1>4. L \in Nat /\ L >= 1 /\ DOMAIN ws = 1..L /\ \A i \in 1..L : ws[i] \in W
  BY <1>1, <1>3
<1>5. \A i \in 1..L : ws[i] = <<ws[i][1], ws[i][2]>> /\ ws[i][1] \in A /\ ws[i][2] \in A
  BY <1>1, <1>4
<1>6. t \in Seq(W) /\ DOMAIN t = 1..(L - 1) /\ \A i \in 1..(L - 1) : t[i] = ws[i + 1]
  BY <1>1, <1>3
<1>7. \A i \in 1..(L - 1) : i + 1 \in 1..L /\ i + 1 # 1
  BY <1>4
<1>8. 1 \in 1..L
  BY <1>4
<1>9. CASE Apart(g, f, ws)
  <2>1. <<f[ws[1][1]], f[ws[1][2]]>> \in g
    BY <1>4, <1>8, <1>9 DEF Apart
  <2>2. ASSUME NEW i \in 1..(L - 1) PROVE <<f2[t[i][1]], f2[t[i][2]]>> \in g
    <3>1. PICK k : k = i + 1
      OBVIOUS
    <3>2. k \in 1..L /\ k # 1 /\ t[i] = ws[k]
      BY <1>6, <1>7, <3>1
    <3>3. <<f[ws[k][1]], f[ws[k][2]]>> \in g
      BY <1>4, <1>9, <3>2 DEF Apart
    <3>4. {ws[k][1], ws[k][2]} \cap {ws[1][1], ws[1][2]} = {}
      BY <1>4, <1>8, <1>9, <3>2 DEF Apart
    <3>5. f2[ws[k][1]] = f[ws[k][1]] /\ f2[ws[k][2]] = f[ws[k][2]]
      BY <1>0, <1>5, <3>2, <3>4
    <3>. QED
      BY <3>2, <3>3, <3>5
  <2>3. ASSUME NEW i \in 1..(L - 1), NEW j \in 1..(L - 1), i # j
        PROVE  {t[i][1], t[i][2]} \cap {t[j][1], t[j][2]} = {}
    <3>1. PICK k, m : k = i + 1 /\ m = j + 1
      OBVIOUS
    <3>2. k \in 1..L /\ m \in 1..L /\ k # m /\ t[i] = ws[k] /\ t[j] = ws[m]
      BY <1>6, <1>7, <2>3, <3>1
    <3>. QED
      BY <1>4, <1>9, <3>2 DEF Apart
  <2>4. Apart(g, f2, t)
    BY <1>6, <2>2, <2>3 DEF Apart
  <2>. QED
    BY <1>1, <1>2, <1>5, <1>6, <1>8, <2>1, <2>4 DEF Swappable, Advanced
<1>10. CASE Along(g, f, ws)
  <2>1. <<f[ws[1][1]], f[ws[1][2]]>> \in g
    BY <1>10 DEF Along
  <2>2. PICK q : q = ws[1][1]
    OBVIOUS
  <2>3. \A i \in 1..L : ws[i][1] = q /\ ws[i][2] # q
    BY <1>4, <1>10, <2>2 DEF Along
  <2>4. \A i \in 1..(L - 1) : t[i][1] = q /\ t[i][2] # q
    BY <1>6, <1>7, <2>3
  <2>5. ASSUME NEW i \in 1..(L - 1), NEW j \in 1..(L - 1), i # j PROVE t[i][2] # t[j][2]
    <3>1. PICK k, m : k = i + 1 /\ m = j + 1
      OBVIOUS
    <3>2. k \in 1..L /\ m \in 1..L /\ k # m /\ t[i] = ws[k] /\ t[j] = ws[m]
      BY <1>6, <1>7, <2>5, <3>1
    <3>. QED
      BY <1>4, <1>10, <3>2 DEF Along
  <2>6. \A k \in 1..L : k # 1 => f2[ws[k][2]] = f[ws[k][2]]
    <3>1. ASSUME NEW k \in 1..L, k # 1 PROVE f2[ws[k][2]] = f[ws[k][2]]
      <4>1. ws[k][2] # ws[1][2]
        BY <1>4, <1>8, <1>10, <3>1 DEF Along
      <4>2. ws[k][2] # ws[1][1]
        BY <2>2, <2>3
      <4>. QED
        BY <1>0, <1>5, <4>1, <4>2
    <3>. QED
      BY <3>1
  <2>7. t # << >> => <<f2[t[1][1]], f2[t[1][2]]>> \in g
    <3>. SUFFICES ASSUME t # << >> PROVE <<f2[t[1][1]], f2[t[1][2]]>> \in g
      OBVIOUS
    <3>1. L >= 2
      <4>1. Len(t) # 0 /\ Len(t) = L - 1
        BY <1>1, <1>3, <1>6
      <4>. QED
        BY <1>4, <4>1
    <3>2. 2 \in 1..L /\ 1 \in 1..(L - 1) /\ 1 + 1 = 2
      BY <1>4, <3>1
    <3>3. t[1] = ws[2]
      BY <1>6, <3>2
    <3>4. <<f[ws[1][2]], f[ws[2][2]]>> \in g
      BY <1>4, <1>8, <1>10, <3>2 DEF Along
    <3>5. f2[ws[2][2]] = f[ws[2][2]] /\ f2[ws[2][1]] = f[ws[1][2]]
      BY <1>0, <2>2, <2>3, <2>6, <3>2
    <3>. QED
      BY <3>3, <3>4, <3>5
  <2>8. ASSUME NEW i \in 1..(L - 1), i + 1 \in 1..(L - 1)
        PROVE  <<f2[t[i][2]], f2[t[i + 1][2]]>> \in g
    <3>1. PICK k, m : k = i + 1 /\ m = k + 1
      OBVIOUS
    <3>2. k \in 1..L /\ k # 1 /\ m \in 1..L /\ m # 1 /\ t[i] = ws[k] /\ t[k] = ws[m]
      BY <1>6, <1>7, <2>8, <3>1
    <3>3. <<f[ws[k][2]], f[ws[m][2]]>> \in g
      BY <1>4, <1>10, <3>1, <3>2 DEF Along
    <3>. QED
      BY <2>6, <3>1, <3>2, <3>3
  <2>9. \A i \in DOMAIN t : t[i][1] = t[1][1] /\ t[i][2] # t[1][1]
    <3>1. \A i \in 1..(L - 1) : 1 \in 1..(L - 1)
      BY <1>4
    <3>. QED
      BY <1>6, <2>4, <3>1
  <2>10. Along(g, f2, t)
    BY <1>6, <2>5, <2>7, <2>8, <2>9 DEF Along
  <2>. QED
    BY <1>1, <1>2, <1>5, <1>6, <1>8, <2>1, <2>10 DEF Swappable, Advanced
<1>. QED
  BY <1>9, <1>10 DEF Swappable

-----------------------------------------------------------------------------
(* The invariant *)

\* Nothing has been placed.
Idle == {"call", "ValueError", "NetworkXError", "KeyError"}

CallInv ==
    /\ graph \in Devices /\ circuit \in Circuits /\ radius \in Radii
    /\ pc \in {"call", "next", "process", "choose", "swap", "done"} \cup Exceptions
    /\ pc \in Idle => routed = << >> /\ final = << >> /\ timestep = 0
    /\ pc \notin {"KeyError", "SwapRefused"}

\* The distances are those of the part of the device that is in use.
DeviceInv ==
    /\ device = Induced(graph, DOMAIN physicalToLogical)
    /\ pc \notin Idle => /\ distances = FloydWarshall(device)
                         /\ undirectedDistances = FloydWarshall(Undirected(device))

\* The maps are inverse to each other and name every qubit of the circuit.
PlaceInv ==
    /\ logicalToPhysical \in [Logical -> Physical]
    /\ physicalToLogical \in [DOMAIN physicalToLogical -> Logical]
    /\ DOMAIN physicalToLogical \subseteq Physical
    /\ Inverse2(logicalToPhysical, physicalToLogical)
    /\ pc \notin Idle => AllQubits(circuit) \subseteq Logical

\* The operations that wait.
ListInv ==
    /\ single \in Seq(Seq(Singles(AllQubits(circuit))))
    /\ double \in Seq(Seq(Doubles(AllQubits(circuit))))
    /\ Len(single) = Len(double) /\ timestep \in 0..Len(double)
    /\ pc \in {"process", "choose", "swap"} => timestep # 0

\* The swaps that are to be inserted can be done.
SwapInv == pc = "swap" => Swappable(Undirected(device), logicalToPhysical, swaps)

\* The operation is on edges: a swap on an edge of the device in either direction,
\* another in the direction of the edge.
OnEdge(op) == Len(op.qubits) = 2 => op.qubits \in IF op.id = "SWAP" THEN Undirected(device) ELSE device

RoutedInv ==
    /\ routed \in Seq(Operation) /\ \A op \in ToSet(routed) : OnEdge(op)
    /\ final \in Seq(Operation) /\ \A op \in ToSet(final) : Len(op.qubits) = 2 => op.qubits \in device

RouteInv == CallInv /\ DeviceInv /\ PlaceInv /\ ListInv /\ SwapInv /\ RoutedInv

\* The part of the device in use is a graph.
LEMMA InUse ==
    ASSUME CallInv, DeviceInv
    PROVE  /\ graph \in SUBSET Edges /\ device \in SUBSET Edges /\ Undirected(device) \in SUBSET Edges
           /\ \A a, b : <<a, b>> \in Undirected(device) =>
                 a \in DOMAIN physicalToLogical /\ b \in DOMAIN physicalToLogical
<1>1. graph \in SUBSET Edges
  BY DeviceAssumption DEF CallInv
<1>2. device \in SUBSET Edges
  <2>1. \A S : Induced(graph, S) \in SUBSET Edges
    BY <1>1, GraphFacts
  <2>. QED
    BY <2>1 DEF DeviceInv
<1>3. Undirected(device) \in SUBSET Edges
  BY <1>2, GraphFacts
<1>4. \A a, b : <<a, b>> \in Undirected(device) => a \in DOMAIN physicalToLogical /\ b \in DOMAIN physicalToLogical
  <2>1. PICK S : S = DOMAIN physicalToLogical
    OBVIOUS
  <2>2. \A a, b : <<a, b>> \in Undirected(Induced(graph, S)) => a \in S /\ b \in S
    BY <1>1, GraphFacts
  <2>. QED
    BY <2>1, <2>2 DEF DeviceInv
<1>. QED
  BY <1>1, <1>2, <1>3, <1>4

\* An operation on logical qubits.
LogicalOp == [id : Names \cup {"SWAP", "CNOT", "H"}, kind : {"gate", "measure", "measureKey"},
              qubits : Seq(Logical)]

\* An operation on the circuit's qubits is one on logical qubits.
LEMMA OpsAreLogical ==
    ASSUME NEW qs, qs \subseteq Logical, NEW op \in OpsOn(qs)
    PROVE  op \in LogicalOp
<1>1. PICK s : s = op.qubits
  OBVIOUS
<1>2. s \in Seq(Nat) /\ ToSet(s) \subseteq Logical
  BY <1>1 DEF OpsOn, Operation
<1>3. Len(s) \in Nat /\ DOMAIN s = 1..Len(s) /\ s = [i \in 1..Len(s) |-> s[i]]
  BY <1>2
<1>4. \A i \in 1..Len(s) : s[i] \in Logical
  BY <1>2, <1>3 DEF ToSet
<1>5. s \in [1..Len(s) -> Logical]
  BY <1>3, <1>4
<1>6. s \in Seq(Logical)
  BY <1>3, <1>5
<1>7. op \in Operation
  BY DEF OpsOn
<1>. QED
  BY <1>1, <1>6, <1>7 DEF Operation, LogicalOp

\* An operation on the places of its qubits.
LEMMA MappedOpFacts ==
    ASSUME logicalToPhysical \in [Logical -> Physical], NEW op \in LogicalOp
    PROVE  /\ MappedOp(op) \in Operation /\ MappedOp(op).id = op.id
           /\ Len(MappedOp(op).qubits) = Len(op.qubits)
           /\ Len(op.qubits) = 2 => /\ op.qubits[1] \in Logical /\ op.qubits[2] \in Logical
                                    /\ MappedOp(op).qubits = <<logicalToPhysical[op.qubits[1]],
                                                               logicalToPhysical[op.qubits[2]]>>
<1>1. PICK s, L : s = op.qubits /\ L = Len(s)
  OBVIOUS
<1>2. s \in Seq(Logical)
  BY <1>1 DEF LogicalOp
<1>3. L \in Nat /\ DOMAIN s = 1..L /\ \A i \in 1..L : s[i] \in Logical
  BY <1>1, <1>2
<1>4. PICK t : t = [i \in 1..L |-> logicalToPhysical[s[i]]]
  OBVIOUS
<1>5. \A i \in 1..L : logicalToPhysical[s[i]] \in Nat
  BY <1>3, PhysicalFacts
<1>6. t \in [1..L -> Nat]
  BY <1>4, <1>5
<1>7. t \in Seq(Nat) /\ Len(t) = L
  BY <1>3, <1>4, <1>6
<1>8. MappedOp(op) = [op EXCEPT !.qubits = t]
  BY <1>1, <1>3, <1>4 DEF MappedOp
<1>9. MappedOp(op) = [id |-> op.id, kind |-> op.kind, qubits |-> t]
  BY <1>8 DEF LogicalOp
<1>10. MappedOp(op) \in Operation /\ MappedOp(op).id = op.id /\ MappedOp(op).qubits = t
  BY <1>7, <1>9 DEF LogicalOp, Operation
<1>11. ASSUME L = 2
       PROVE  s[1] \in Logical /\ s[2] \in Logical /\ t = <<logicalToPhysical[s[1]], logicalToPhysical[s[2]]>>
  BY <1>3, <1>4, <1>11
<1>. QED
  BY <1>1, <1>7, <1>10, <1>11

\* A list of operations on the places of their qubits.
LEMMA MappedOpsFacts ==
    ASSUME logicalToPhysical \in [Logical -> Physical], NEW qs, qs \subseteq Logical, NEW ops \in Seq(OpsOn(qs))
    PROVE  /\ MappedOps(ops) \in Seq(Operation)
           /\ \A o \in ToSet(MappedOps(ops)) : \E op \in ToSet(ops) : o = MappedOp(op)
<1>1. PICK L : L = Len(ops)
  OBVIOUS
<1>2. L \in Nat /\ DOMAIN ops = 1..L /\ \A i \in 1..L : ops[i] \in OpsOn(qs)
  BY <1>1
<1>3. \A i \in 1..L : MappedOp(ops[i]) \in Operation
  <2>1. ASSUME NEW i \in 1..L PROVE MappedOp(ops[i]) \in Operation
    <3>1. PICK op : op = ops[i]
      OBVIOUS
    <3>2. op \in LogicalOp
      BY <1>2, <3>1, OpsAreLogical
    <3>. QED
      BY <3>1, <3>2, MappedOpFacts
  <2>. QED
    BY <2>1
<1>4. PICK t : t = [i \in 1..L |-> MappedOp(ops[i])]
  OBVIOUS
<1>5. MappedOps(ops) = t
  BY <1>2, <1>4 DEF MappedOps
<1>6. t \in [1..L -> Operation]
  BY <1>3, <1>4
<1>7. t \in Seq(Operation) /\ DOMAIN t = 1..L
  BY <1>2, <1>4, <1>6
<1>8. \A o \in ToSet(t) : \E op \in ToSet(ops) : o = MappedOp(op)
  <2>1. ASSUME NEW o \in ToSet(t) PROVE \E op \in ToSet(ops) : o = MappedOp(op)
    <3>1. PICK i \in 1..L : o = t[i]
      BY <1>7 DEF ToSet
    <3>2. ops[i] \in ToSet(ops)
      BY <1>2 DEF ToSet
    <3>3. o = MappedOp(ops[i])
      BY <1>4, <3>1
    <3>. QED
      BY <3>2, <3>3
  <2>. QED
    BY <2>1
<1>. QED
  BY <1>5, <1>7, <1>8

\* The operations of the current timestep.
LEMMA CurrentOps ==
    ASSUME ListInv, timestep # 0
    PROVE  /\ timestep \in 1..Len(double)
           /\ double[timestep] \in Seq(Doubles(AllQubits(circuit)))
           /\ Len(double[timestep]) \in Nat /\ DOMAIN double[timestep] = 1..Len(double[timestep])
           /\ \A i \in DOMAIN double[timestep] : double[timestep][i] \in Doubles(AllQubits(circuit))
<1>1. PICK D, L : D = Doubles(AllQubits(circuit)) /\ L = Len(double)
  OBVIOUS
<1>2. double \in Seq(Seq(D)) /\ timestep \in 0..L
  BY <1>1 DEF ListInv
<1>3. L \in Nat /\ timestep \in 1..L /\ double[timestep] \in Seq(D)
  BY <1>1, <1>2
<1>4. PICK s : s = double[timestep]
  OBVIOUS
<1>5. s \in Seq(D)
  BY <1>3, <1>4
<1>6. Len(s) \in Nat /\ DOMAIN s = 1..Len(s) /\ \A i \in DOMAIN s : s[i] \in D
  BY <1>5
<1>. QED
  BY <1>1, <1>3, <1>4, <1>6

\* The qubits of the operations that wait are logical ones.
LEMMA WaitingFacts ==
    ASSUME ListInv, PlaceInv, timestep # 0, pc \notin Idle
    PROVE  \A k \in DOMAIN Waiting : Waiting[k] \in Logical
<1>1. PICK ops, L, qs : ops = double[timestep] /\ L = Len(ops) /\ qs = AllQubits(circuit)
  OBVIOUS
<1>2. L \in Nat /\ DOMAIN ops = 1..L /\ \A i \in 1..L : ops[i] \in Doubles(qs)
  BY <1>1, CurrentOps
<1>3. Waiting = [k \in 1..(2 * L) |-> ops[(k + 1) \div 2].qubits[2 - (k % 2)]]
  BY <1>1 DEF Waiting
<1>4. \A op \in Doubles(qs) : op.qubits[1] \in Logical /\ op.qubits[2] \in Logical
  <2>1. \A op \in Doubles(qs) : op \in Operation /\ ToSet(op.qubits) \subseteq qs /\ Len(op.qubits) = 2
    BY DEF Doubles, OpsOn
  <2>2. qs \subseteq Logical
    BY <1>1 DEF PlaceInv
  <2>. QED
    BY <2>1, <2>2, PairFacts
<1>5. ASSUME NEW k \in 1..(2 * L) PROVE Waiting[k] \in Logical
  <2>1. PICK i, j : i = (k + 1) \div 2 /\ j = 2 - (k % 2)
    OBVIOUS
  <2>2. k \in Nat /\ k % 2 \in {0, 1}
    BY <1>2
  <2>3. j \in {1, 2}
    BY <2>1, <2>2
  <2>4. i \in 1..L
    BY <1>2, <2>1
  <2>5. ops[i] \in Doubles(qs)
    BY <1>2, <2>4
  <2>6. Waiting[k] = ops[i].qubits[j]
    BY <1>3, <2>1
  <2>. QED
    BY <1>4, <2>3, <2>5, <2>6
<1>. QED
  BY <1>3, <1>5

\* A candidate is a swap of a qubit that waits and of one of its neighbours.
LEMMA CandidateFacts ==
    ASSUME CallInv, DeviceInv, ListInv, PlaceInv, timestep # 0, pc \notin Idle, NEW c \in CandidateSwaps
    PROVE  /\ c.swap = <<c.swap[1], c.swap[2]>> /\ c.swap[1] \in Logical /\ c.swap[2] \in Logical
           /\ ToSet(c.swap) = {c.swap[1], c.swap[2]}
           /\ <<logicalToPhysical[c.swap[1]], logicalToPhysical[c.swap[2]]>> \in Undirected(device)
           /\ c.from \in DOMAIN Waiting /\ c.swap[1] = Waiting[c.from]
           /\ \A j \in 1..(c.from - 1) : logicalToPhysical[Waiting[j]] # logicalToPhysical[c.swap[2]]
<1>1. PICK k \in DOMAIN Waiting, p \in DOMAIN physicalToLogical :
          /\ <<logicalToPhysical[Waiting[k]], p>> \in Undirected(device)
          /\ \A j \in 1..(k - 1) : logicalToPhysical[Waiting[j]] # p
          /\ c = [from |-> k, swap |-> <<Waiting[k], physicalToLogical[p]>>]
  BY DEF CandidateSwaps
<1>2. Waiting[k] \in Logical
  BY WaitingFacts
<1>3. physicalToLogical[p] \in Logical /\ logicalToPhysical[physicalToLogical[p]] = p
  BY DEF PlaceInv, Inverse2, Logical
<1>4. c.swap = <<Waiting[k], physicalToLogical[p]>> /\ c.from = k
  BY <1>1
<1>5. c.swap[1] = Waiting[k] /\ c.swap[2] = physicalToLogical[p] /\ c.swap = <<c.swap[1], c.swap[2]>>
  BY <1>4
<1>6. ToSet(c.swap) = {c.swap[1], c.swap[2]}
  <2>1. PICK a, b : a = c.swap[1] /\ b = c.swap[2]
    OBVIOUS
  <2>2. ToSet(<<a, b>>) = {a, b}
    BY DEF ToSet
  <2>. QED
    BY <1>5, <2>1, <2>2
<1>. QED
  BY <1>1, <1>2, <1>3, <1>4, <1>5, <1>6

\* One candidate can be swapped, and so can two that have no qubit in common.
LEMMA CandidatesAreSwappable ==
    ASSUME CallInv, DeviceInv, ListInv, PlaceInv, timestep # 0, pc \notin Idle
    PROVE  /\ \A s \in SingleSwaps : Swappable(Undirected(device), logicalToPhysical, s)
           /\ \A s \in PairsOfSwaps : Swappable(Undirected(device), logicalToPhysical, s)
<1>1. PICK g, f, W : g = Undirected(device) /\ f = logicalToPhysical /\ W = Logical \X Logical
  OBVIOUS
<1>2. DOMAIN f = Logical
  BY <1>1 DEF Logical
<1>3. \A c \in CandidateSwaps : /\ c.swap \in W /\ <<f[c.swap[1]], f[c.swap[2]]>> \in g
                                /\ ToSet(c.swap) = {c.swap[1], c.swap[2]}
  <2>1. ASSUME NEW c \in CandidateSwaps
        PROVE  /\ c.swap \in W /\ <<f[c.swap[1]], f[c.swap[2]]>> \in g
               /\ ToSet(c.swap) = {c.swap[1], c.swap[2]}
    <3>1. /\ c.swap = <<c.swap[1], c.swap[2]>> /\ c.swap[1] \in Logical /\ c.swap[2] \in Logical
          /\ ToSet(c.swap) = {c.swap[1], c.swap[2]}
          /\ <<logicalToPhysical[c.swap[1]], logicalToPhysical[c.swap[2]]>> \in Undirected(device)
      BY CandidateFacts
    <3>. QED
      BY <1>1, <3>1
  <2>. QED
    BY <2>1
<1>4. ASSUME NEW c \in CandidateSwaps PROVE Swappable(g, f, <<c.swap>>)
  <2>1. PICK w : w = c.swap
    OBVIOUS
  <2>2. w \in W /\ <<f[w[1]], f[w[2]]>> \in g
    BY <1>3, <2>1
  <2>3. <<w>> \in Seq(W) /\ DOMAIN <<w>> = {1} /\ <<w>>[1] = w
    BY <2>2
  <2>4. Apart(g, f, <<w>>)
    BY <2>2, <2>3 DEF Apart
  <2>. QED
    BY <1>1, <1>2, <2>1, <2>3, <2>4 DEF Swappable
<1>5. ASSUME NEW c \in CandidateSwaps, NEW d \in CandidateSwaps, ToSet(c.swap) \cap ToSet(d.swap) = {}
      PROVE  Swappable(g, f, <<c.swap, d.swap>>)
  <2>1. PICK w, v : w = c.swap /\ v = d.swap
    OBVIOUS
  <2>2. w \in W /\ <<f[w[1]], f[w[2]]>> \in g /\ v \in W /\ <<f[v[1]], f[v[2]]>> \in g
    BY <1>3, <2>1
  <2>3. {w[1], w[2]} \cap {v[1], v[2]} = {}
    BY <1>3, <1>5, <2>1
  <2>4. <<w, v>> \in Seq(W) /\ DOMAIN <<w, v>> = {1, 2} /\ <<w, v>>[1] = w /\ <<w, v>>[2] = v
    BY <2>2
  <2>5. PICK s : s = <<w, v>>
    OBVIOUS
  <2>6. DOMAIN s = {1, 2} /\ s[1] = w /\ s[2] = v
    BY <2>4, <2>5
  <2>7. Apart(g, f, s)
    BY <2>2, <2>3, <2>6 DEF Apart
  <2>. QED
    BY <1>1, <1>2, <2>1, <2>4, <2>5, <2>7 DEF Swappable
<1>6. \A s \in SingleSwaps : \E c \in CandidateSwaps : s = <<c.swap>>
  BY DEF SingleSwaps
<1>7. \A s \in PairsOfSwaps : \E c, d \in CandidateSwaps :
          ToSet(c.swap) \cap ToSet(d.swap) = {} /\ s = <<c.swap, d.swap>>
  BY DEF PairsOfSwaps
<1>. QED
  BY <1>1, <1>4, <1>5, <1>6, <1>7

\* A turn of _choose_optimal_swap.
Narrowed(s, n) == IF Cardinality(s) <= 1 THEN s ELSE Cheapest(s, double[timestep + n - 1])

\* The number of timesteps it looks at.
Far == Min({radius, Len(double) - timestep + 1})

\* It looks at least at one timestep.
LEMMA FarFacts ==
    ASSUME CallInv, ListInv, timestep # 0
    PROVE  /\ Far \in Nat /\ Far >= 1
           /\ \A n \in 1..Far : timestep + n - 1 \in 1..Len(double)
<1>1. PICK a, b : a = radius /\ b = Len(double) - timestep + 1
  OBVIOUS
<1>2. timestep \in 1..Len(double) /\ Len(double) \in Nat
  <2>1. Len(double) \in Nat
    BY DEF ListInv
  <2>. QED
    BY <2>1, CurrentOps
<1>3. a \in Nat /\ a >= 1
  BY <1>1, RouteAssumption DEF CallInv
<1>4. b \in Nat /\ b >= 1
  BY <1>1, <1>2
<1>5. {a, b} \in SUBSET Nat /\ {a, b} # {}
  BY <1>3, <1>4
<1>6. Min({a, b}) \in {a, b} /\ \A y \in {a, b} : Min({a, b}) <= y
  BY <1>5, MinFacts
<1>7. PICK m : m = Min({a, b})
  OBVIOUS
<1>8. m \in Nat /\ m >= 1 /\ m <= b
  BY <1>3, <1>4, <1>6, <1>7
<1>9. Far = m
  BY <1>1, <1>7 DEF Far
<1>10. \A n \in 1..m : timestep + n - 1 \in 1..Len(double)
  BY <1>1, <1>2, <1>8
<1>. QED
  BY <1>8, <1>9, <1>10

\* The candidates that are left are some of those there were.
LEMMA OptimalSubset ==
    ASSUME CallInv, ListInv, timestep # 0, NEW sigma
    PROVE  \E f : /\ f[0] = sigma /\ Optimal(sigma) = f[Far]
                  /\ \A n \in 1..Far : f[n] = Narrowed(f[n - 1], n)
                  /\ \A n \in 0..Far : f[n] \in SUBSET sigma
<1>1. PICK N, X : N = Far /\ X = SUBSET sigma
  OBVIOUS
<1>2. N \in Nat /\ sigma \in X
  BY <1>1, FarFacts
<1>3. \A s, ops : Cheapest(s, ops) \subseteq s
  BY DEF Cheapest
<1>4. \A n \in 1..N : \A s \in X : Narrowed(s, n) \in X
  BY <1>1, <1>3 DEF Narrowed
<1>5. PICK F : F = [n \in 1..N |-> [s \in X |-> Narrowed(s, n)]]
  OBVIOUS
<1>6. F \in [1..N -> [X -> X]]
  BY <1>4, <1>5
<1>7. PICK h : IsLoop(h, X, sigma, N, F)
  BY <1>2, <1>6, LoopExists
<1>. DEFINE Def(f) == f = [n \in 0..Far |-> IF n = 0 THEN sigma ELSE Narrowed(f[n - 1], n)]
<1>8. Def(h)
  <2>1. h = [n \in 0..N |-> h[n]] /\ h[0] = sigma
    BY <1>7 DEF IsLoop
  <2>2. \A n \in 0..N : n # 0 => n \in 1..N /\ n - 1 \in 0..N
    BY <1>2
  <2>3. \A n \in 0..N : n # 0 => h[n - 1] \in X /\ h[n] = F[n][h[n - 1]]
    BY <1>7, <2>2 DEF IsLoop
  <2>4. \A n \in 0..N : n # 0 => h[n] = Narrowed(h[n - 1], n)
    BY <1>5, <2>2, <2>3
  <2>. QED
    BY <1>1, <2>1, <2>4
<1>9. PICK f : f = CHOOSE b : Def(b)
  OBVIOUS
<1>10. Def(f)
  <2>. HIDE DEF Def
  <2>. QED
    BY <1>8, <1>9
<1>11. Optimal(sigma) = f[Far]
  BY <1>9 DEF Optimal, Far, Narrowed
<1>12. f[0] = sigma /\ \A n \in 1..N : f[n] = Narrowed(f[n - 1], n)
  <2>1. 0 \in 0..N /\ \A n \in 1..N : n \in 0..N /\ n # 0
    BY <1>2
  <2>. QED
    BY <1>1, <1>10, <2>1
<1>13. \A n \in 1..N : f[n - 1] \in X => f[n] = F[n][f[n - 1]]
  BY <1>5, <1>12
<1>14. \A n \in 0..N : f[n] \in X
  BY <1>2, <1>6, <1>12, <1>13, LoopTyped
<1>. QED
  BY <1>1, <1>11, <1>12, <1>14

\* A walk of d edges from a reaches the d-th ball, and no earlier place when d is the
\* distance: a shortest path does not meet a qubit twice.
LEMMA PathIsSimple ==
    ASSUME NEW g \in SUBSET Edges, NEW a \in Physical, NEW b \in Physical, NEW d, d = FloydWarshall(g)[a][b],
           NEW s \in PathsOf(g, d, a, b)
    PROVE  /\ d \in 0..P /\ s \in [1..(d + 1) -> Physical] /\ s[1] = a /\ s[d + 1] = b
           /\ \A i \in 1..d : <<s[i], s[i + 1]>> \in g
           /\ \A i, j \in 1..(d + 1) : i < j => s[i] # s[j]
<1>1. P \in Nat /\ d \in 0..P /\ d \in Nat
  <2>1. d \in 0..P
    BY DistanceFacts
  <2>2. P \in Nat
    BY PhysicalFacts
  <2>. QED
    BY <2>1, <2>2
<1>2. s \in [1..(d + 1) -> Physical] /\ s[1] = a /\ s[d + 1] = b /\ \A i \in 1..d : <<s[i], s[i + 1]>> \in g
  BY DEF PathsOf
<1>3. ASSUME NEW k \in 0..P, NEW x \in Ball(g, a, k), NEW y, <<x, y>> \in g, k + 1 \in 0..P PROVE y \in Ball(g, a, k + 1)
  <2>1. k + 1 \in 1..P /\ (k + 1) - 1 = k
    BY <1>1, <1>3
  <2>2. Ball(g, a, k + 1) = Around(g, Ball(g, a, (k + 1) - 1))
    BY <2>1, BallRecursion
  <2>3. Ball(g, a, k + 1) = Around(g, Ball(g, a, k))
    BY <2>1, <2>2
  <2>. QED
    BY <1>3, <2>3, AroundFacts
\* From a place that is met after k edges, n more lead to the (k + n)-th ball.
<1>4. ASSUME NEW i \in 1..(d + 1), NEW k \in 0..P, s[i] \in Ball(g, a, k), NEW N \in Nat, i + N <= d + 1, k + N <= P
      PROVE  s[i + N] \in Ball(g, a, k + N)
  <2>. DEFINE Good == {n \in 0..N : s[i + n] \in Ball(g, a, k + n)}
  <2>1. 0 \in Good
    <3>1. i + 0 = i /\ k + 0 = k /\ 0 \in 0..N
      OBVIOUS
    <3>. QED
      BY <1>4, <3>1
  <2>2. ASSUME NEW n \in 1..N, n - 1 \in Good PROVE n \in Good
    <3>1. PICK m, j, l : m = n - 1 /\ j = i + m /\ l = k + m
      OBVIOUS
    <3>2. j \in 1..d /\ j + 1 = i + n /\ l \in 0..P /\ l + 1 = k + n /\ l + 1 \in 0..P /\ n \in 0..N
      BY <1>1, <1>4, <3>1
    <3>3. s[j] \in Ball(g, a, l)
      BY <2>2, <3>1
    <3>4. <<s[j], s[j + 1]>> \in g
      BY <1>2, <3>2
    <3>5. s[j + 1] \in Ball(g, a, l + 1)
      BY <1>3, <3>2, <3>3, <3>4
    <3>. QED
      BY <3>2, <3>5
  <2>3. N \in Good
    <3>1. N \in 0..N
      OBVIOUS
    <3>. HIDE DEF Good
    <3>. QED
      BY <2>1, <2>2, <3>1, TurnInduction
  <2>. QED
    BY <2>3
<1>5. ASSUME NEW i \in 1..(d + 1), NEW j \in 1..(d + 1), i < j PROVE s[i] # s[j]
  <2>. SUFFICES ASSUME s[i] = s[j] PROVE FALSE
    OBVIOUS
  <2>1. s[i] \in Ball(g, a, i - 1)
    <3>1. PICK N : N = i - 1
      OBVIOUS
    <3>2. N \in Nat /\ 1 + N = i /\ 0 + N = i - 1 /\ 1 + N <= d + 1 /\ 0 + N <= P /\ 1 \in 1..(d + 1) /\ 0 \in 0..P
      BY <1>1, <3>1
    <3>3. s[1] \in Ball(g, a, 0)
      BY <1>2, BallRecursion
    <3>4. s[1 + N] \in Ball(g, a, 0 + N)
      BY <1>4, <3>2, <3>3
    <3>. QED
      BY <3>2, <3>4
  <2>2. PICK N, k : N = d + 1 - j /\ k = i - 1
    OBVIOUS
  <2>3. N \in Nat /\ j + N = d + 1 /\ k \in 0..P /\ k + N < d /\ k + N \in 0..(P - 1) /\ k + N <= P /\ j + N <= d + 1
    BY <1>1, <1>5, <2>2
  <2>4. s[j] \in Ball(g, a, k)
    BY <2>1, <2>2
  <2>5. s[j + N] \in Ball(g, a, k + N)
    BY <1>4, <2>3, <2>4
  <2>6. b \in Ball(g, a, k + N)
    BY <1>2, <2>3, <2>5
  <2>7. d <= k + N
    BY <2>3, <2>6, DistanceFacts
  <2>. QED
    BY <1>1, <2>3, <2>7
<1>. QED
  BY <1>1, <1>2, <1>5


\* The swaps along a shortest path move one qubit along it, past qubits that are all
\* different; between neighbours there are none.
LEMMA BruteForceIsSwappable ==
    ASSUME CallInv, DeviceInv, ListInv, PlaceInv, timestep # 0, pc \notin Idle, NEW ws \in BruteForceSwaps
    PROVE  Swappable(Undirected(device), logicalToPhysical, ws)
<1>1. PICK g, f, h : g = Undirected(device) /\ f = logicalToPhysical /\ h = physicalToLogical
  OBVIOUS
<1>2. /\ DOMAIN f = Logical /\ f \in [Logical -> Physical]
      /\ \A p \in DOMAIN h : h[p] \in Logical /\ f[h[p]] = p
  BY <1>1 DEF PlaceInv, Inverse2, Logical
<1>3. g \in SUBSET Edges /\ \A a, b : <<a, b>> \in g => a \in DOMAIN h /\ b \in DOMAIN h
  BY <1>1, InUse
<1>4. undirectedDistances = FloydWarshall(g)
  BY <1>1 DEF DeviceInv
<1>5. PICK op \in FurthestOps : \E path \in ShortestPaths(op.qubits[1], op.qubits[2]) : ws = AlongPath(path)
  BY DEF BruteForceSwaps
<1>6. op.qubits[1] \in Logical /\ op.qubits[2] \in Logical
  <2>1. op \in ToSet(double[timestep])
    BY DEF FurthestOps
  <2>2. op \in Doubles(AllQubits(circuit))
    BY <2>1, CurrentOps DEF ToSet
  <2>3. op \in Operation /\ ToSet(op.qubits) \subseteq AllQubits(circuit) /\ Len(op.qubits) = 2
    BY <2>2 DEF Doubles, OpsOn
  <2>4. AllQubits(circuit) \subseteq Logical
    BY DEF PlaceInv
  <2>. QED
    BY <2>3, <2>4, PairFacts
<1>7. PICK a, b : a = f[op.qubits[1]] /\ b = f[op.qubits[2]]
  OBVIOUS
<1>8. a \in Physical /\ b \in Physical
  BY <1>2, <1>6, <1>7
<1>9. PICK d : d = FloydWarshall(g)[a][b]
  OBVIOUS
<1>path. PICK path \in ShortestPaths(op.qubits[1], op.qubits[2]) : ws = AlongPath(path)
  BY <1>5
<1>10. PICK s \in PathsOf(g, d, a, b) : path = [i \in DOMAIN s |-> h[s[i]]]
  BY <1>1, <1>4, <1>path, <1>7, <1>9 DEF ShortestPaths, UndirectedDistOn
<1>11. /\ d \in 0..P /\ s \in [1..(d + 1) -> Physical]
       /\ \A i \in 1..d : <<s[i], s[i + 1]>> \in g
       /\ \A i, j \in 1..(d + 1) : i < j => s[i] # s[j]
  BY <1>3, <1>8, <1>9, PathIsSimple
<1>12. P \in Nat /\ d \in Nat
  BY <1>11, PhysicalFacts
<1>13. path = [i \in 1..(d + 1) |-> h[s[i]]] /\ Len(path) = d + 1
  <2>1. path = [i \in 1..(d + 1) |-> h[s[i]]]
    BY <1>10, <1>11
  <2>. QED
    BY <1>12, <2>1
<1>14. ws = [i \in 1..(d - 1) |-> <<path[1], path[i + 1]>>]
  <2>1. (d + 1) - 2 = d - 1
    BY <1>12
  <2>. QED
    BY <1>13, <1>path, <2>1 DEF AlongPath
<1>15. CASE d <= 1
  <2>1. 1..(d - 1) = {}
    BY <1>12, <1>15
  <2>2. ws = << >>
    BY <1>14, <2>1
  <2>3. ws \in Seq(Logical \X Logical)
    BY <2>2
  <2>4. DOMAIN ws = {}
    BY <2>2
  <2>5. Apart(g, f, ws)
    BY <2>4 DEF Apart
  <2>. QED
    BY <1>1, <1>2, <2>3, <2>5 DEF Swappable
<1>16. CASE d > 1
  <2>1. \A i \in 1..(d + 1) : s[i] \in DOMAIN h
    <3>1. ASSUME NEW i \in 1..(d + 1) PROVE s[i] \in DOMAIN h
      <4>1. CASE i \in 1..d
        BY <1>3, <1>11, <4>1
      <4>2. CASE i = d + 1
        <5>1. d \in 1..d
          BY <1>12, <1>16
        <5>2. <<s[d], s[d + 1]>> \in g
          BY <1>11, <5>1
        <5>. QED
          BY <1>3, <4>2, <5>2
      <4>. QED
        BY <1>12, <4>1, <4>2
    <3>. QED
      BY <3>1
  <2>2. \A i \in 1..(d + 1) : path[i] \in Logical /\ f[path[i]] = s[i]
    BY <1>2, <1>13, <2>1
  <2>3. \A i, j \in 1..(d + 1) : i # j => path[i] # path[j]
    <3>1. ASSUME NEW i \in 1..(d + 1), NEW j \in 1..(d + 1), i # j PROVE s[i] # s[j]
      <4>1. i < j \/ j < i
        BY <1>12, <3>1
      <4>. QED
        BY <1>11, <4>1
    <3>. QED
      BY <2>2, <3>1
  <2>4. \A i \in 1..d : <<f[path[i]], f[path[i + 1]]>> \in g
    <3>1. \A i \in 1..d : i \in 1..(d + 1) /\ i + 1 \in 1..(d + 1)
      BY <1>12
    <3>. QED
      BY <1>11, <2>2, <3>1
  <2>5. DOMAIN ws = 1..(d - 1) /\ \A i \in 1..(d - 1) : ws[i][1] = path[1] /\ ws[i][2] = path[i + 1]
    BY <1>14
  <2>6. 1 \in 1..(d + 1) /\ 1 \in 1..d /\ 1 \in 1..(d - 1)
    BY <1>12, <1>16
  <2>7. \A i \in 1..(d - 1) : i + 1 \in 1..(d + 1) /\ i + 1 # 1 /\ i + 1 \in 1..d
    BY <1>12
  <2>8. \A i \in DOMAIN ws : ws[i][1] = ws[1][1] /\ ws[i][2] # ws[1][1]
    BY <2>3, <2>5, <2>6, <2>7
  <2>9. ASSUME NEW i \in 1..(d - 1), NEW j \in 1..(d - 1), i # j PROVE ws[i][2] # ws[j][2]
    <3>1. i + 1 # j + 1
      BY <1>12, <2>9
    <3>. QED
      BY <2>3, <2>5, <2>7, <3>1
  <2>10. <<f[ws[1][1]], f[ws[1][2]]>> \in g
    BY <2>4, <2>5, <2>6
  <2>11. ASSUME NEW i \in 1..(d - 1), i + 1 \in 1..(d - 1)
         PROVE  <<f[ws[i][2]], f[ws[i + 1][2]]>> \in g
    <3>1. PICK k : k = i + 1
      OBVIOUS
    <3>2. k \in 1..d /\ k \in 1..(d - 1)
      BY <2>7, <2>11, <3>1
    <3>3. ws[i][2] = path[k] /\ ws[k][2] = path[k + 1]
      BY <2>5, <3>1, <3>2
    <3>. QED
      BY <2>4, <3>1, <3>2, <3>3
  <2>12. Along(g, f, ws)
    BY <2>5, <2>8, <2>9, <2>10, <2>11 DEF Along
  <2>13. ws \in Seq(Logical \X Logical)
    <3>1. \A i \in 1..(d - 1) : <<path[1], path[i + 1]>> \in Logical \X Logical
      BY <2>2, <2>6, <2>7
    <3>2. d - 1 \in Nat
      BY <1>12, <1>16
    <3>3. ws \in [1..(d - 1) -> Logical \X Logical]
      BY <1>14, <3>1
    <3>. QED
      BY <3>2, <3>3
  <2>. QED
    BY <1>1, <1>2, <2>12, <2>13 DEF Swappable
<1>. QED
  BY <1>12, <1>15, <1>16

-----------------------------------------------------------------------------
(* Every step keeps the invariant *)

\* Nothing is placed at first.
LEMMA InitInv == Init => RouteInv
<1>. SUFFICES ASSUME Init PROVE RouteInv
  OBVIOUS
<1>1. /\ device = {} /\ logicalToPhysical = << >> /\ physicalToLogical = << >>
      /\ graph \in Devices /\ circuit \in Circuits /\ radius \in Radii
      /\ single = << >> /\ double = << >> /\ routed = << >> /\ final = << >>
      /\ timestep = 0 /\ pc = "call"
  BY DEF Init, MappingInit
<1>2. DOMAIN logicalToPhysical = {} /\ DOMAIN physicalToLogical = {} /\ Logical = {}
  BY <1>1 DEF Logical
<1>3. CallInv
  BY <1>1 DEF CallInv
<1>4. DeviceInv
  <2>1. Induced(graph, {}) = {}
    BY DEF Induced
  <2>. QED
    BY <1>1, <1>2, <2>1 DEF DeviceInv, Idle
<1>5. PlaceInv
  <2>1. logicalToPhysical \in [Logical -> Physical] /\ physicalToLogical \in [DOMAIN physicalToLogical -> Logical]
    BY <1>1, <1>2
  <2>2. Inverse2(logicalToPhysical, physicalToLogical)
    BY <1>2 DEF Inverse2
  <2>. QED
    BY <1>1, <1>2, <2>1, <2>2 DEF PlaceInv, Idle
<1>6. ListInv
  BY <1>1, NothingInSeq DEF ListInv
<1>7. SwapInv
  BY <1>1 DEF SwapInv
<1>8. RoutedInv
  <2>1. routed \in Seq(Operation) /\ ToSet(routed) = {} /\ final \in Seq(Operation) /\ ToSet(final) = {}
    BY <1>1, NothingInSeq
  <2>. QED
    BY <2>1 DEF RoutedInv
<1>. QED
  BY <1>3, <1>4, <1>5, <1>6, <1>7, <1>8 DEF RouteInv

\* A call that is refused has placed nothing.
LEMMA RaiseKeepsInv ==
    ASSUME RouteInv, pc = "call", NEW e \in {"ValueError", "NetworkXError"}, Raise(e)
    PROVE  RouteInv'
<1>1. /\ UNCHANGED <<device, distances, undirectedDistances, logicalToPhysical, physicalToLogical>>
      /\ UNCHANGED <<graph, circuit, radius>>
      /\ UNCHANGED <<single, double, routed, final, timestep, swaps>> /\ pc' = e
  BY DEF Raise, mappingVars, callVars
<1>2. pc' \in Idle /\ pc \in Idle /\ pc' \notin {"process", "choose", "swap", "KeyError", "SwapRefused"} /\ pc' \in Exceptions
  BY <1>1 DEF Idle, Exceptions
<1>3. CallInv'
  BY <1>1, <1>2 DEF RouteInv, CallInv
<1>4. DeviceInv'
  BY <1>1, <1>2 DEF RouteInv, DeviceInv
<1>5. PlaceInv'
  BY <1>1, <1>2 DEF RouteInv, PlaceInv, Logical
<1>6. ListInv'
  BY <1>1, <1>2 DEF RouteInv, ListInv
<1>7. SwapInv'
  BY <1>2 DEF SwapInv
<1>8. RoutedInv'
  BY <1>1 DEF RouteInv, RoutedInv, OnEdge
<1>. QED
  BY <1>3, <1>4, <1>5, <1>6, <1>7, <1>8 DEF RouteInv

\* Routing begins with an injective mapping that names every qubit of the circuit.
LEMMA BeginKeepsInv ==
    ASSUME RouteInv, pc = "call", NEW Q, NEW m \in [Q -> Physical], \A a, b \in Q : m[a] = m[b] => a = b,
           AllQubits(circuit) \subseteq Q, Begin(m)
    PROVE  RouteInv'
<1>1. PICK steps : steps = Timesteps(circuit)
  OBVIOUS
<1>2. CASE steps.raised
  <2>1. Raise("ValueError")
    BY <1>1, <1>2 DEF Begin
  <2>. QED
    BY <2>1, RaiseKeepsInv
<1>3. CASE ~steps.raised
  <2>1. /\ NewManager(graph, m)
        /\ single' = steps.single /\ double' = steps.double
        /\ pc' = "next"
        /\ UNCHANGED <<graph, circuit, radius>> /\ UNCHANGED <<routed, final, timestep>>
    BY <1>1, <1>3 DEF Begin, callVars
  <2>2. PICK I : I = {m[q] : q \in DOMAIN m}
    OBVIOUS
  <2>3. /\ device' = Induced(graph, I)
        /\ distances' = FloydWarshall(device')
        /\ undirectedDistances' = FloydWarshall(Undirected(device'))
        /\ logicalToPhysical' = m /\ physicalToLogical' = Inverted(m)
    BY <2>1, <2>2 DEF NewManager
  <2>4. pc \in Idle /\ routed = << >> /\ final = << >> /\ timestep = 0
    BY DEF RouteInv, CallInv, Idle
  <2>5. pc' \notin Idle
    BY <2>1 DEF Idle
  <2>6. CallInv'
    BY <2>1, <2>4, <2>5 DEF RouteInv, CallInv
  <2>7. /\ DOMAIN Inverted(m) = I /\ DOMAIN Inverted(m) \subseteq Physical
        /\ Inverted(m) \in [DOMAIN Inverted(m) -> Q]
        /\ Inverse2(m, Inverted(m))
    BY <2>2, InvertedFacts
  <2>8. DeviceInv'
    BY <2>1, <2>3, <2>7 DEF DeviceInv
  <2>9. Logical' = Q
    BY <2>3 DEF Logical
  <2>10. PlaceInv'
    BY <2>1, <2>3, <2>7, <2>9 DEF PlaceInv
  <2>11. ListInv'
    <3>1. StepsType(steps, AllQubits(circuit))
      BY <1>1, TimestepsFacts DEF RouteInv, CallInv
    <3>2. timestep' = 0 /\ pc' \notin {"process", "choose", "swap"}
      BY <2>1, <2>4
    <3>3. Len(double') \in Nat
      <4>1. double' \in Seq(Seq(Doubles(AllQubits(circuit))))
        BY <2>1, <3>1 DEF StepsType
      <4>. QED
        BY <4>1
    <3>4. 0 \in 0..Len(double')
      BY <3>3
    <3>. QED
      BY <2>1, <3>1, <3>2, <3>4 DEF ListInv, StepsType
  <2>12. SwapInv'
    BY <2>1 DEF SwapInv
  <2>13. RoutedInv'
    <3>1. routed' = << >> /\ final' = << >>
      BY <2>1, <2>4
    <3>2. routed' \in Seq(Operation) /\ ToSet(routed') = {} /\ final' \in Seq(Operation) /\ ToSet(final') = {}
      BY <3>1, NothingInSeq
    <3>. QED
      BY <3>2 DEF RoutedInv
  <2>. QED
    BY <2>6, <2>8, <2>10, <2>11, <2>12, <2>13 DEF RouteInv
<1>. QED
  BY <1>2, <1>3

\* The three ways a call goes on.
LEMMA CallKeepsInv ==
    ASSUME RouteInv, Refuse \/ PlaceByCaller \/ PlaceByLine
    PROVE  RouteInv'
<1>1. CASE Refuse
  BY <1>1, RaiseKeepsInv DEF Refuse
<1>2. CASE PlaceByCaller
  <2>1. PICK m \in InitialMaps : AllQubits(circuit) \subseteq DOMAIN m /\ Begin(m)
    BY <1>2 DEF PlaceByCaller
  <2>2. m \in [DOMAIN m -> Physical] /\ \A a, b \in DOMAIN m : m[a] = m[b] => a = b
    BY RouteAssumption
  <2>3. pc = "call"
    BY <1>2 DEF PlaceByCaller, Placeable
  <2>. QED
    BY <2>1, <2>2, <2>3, BeginKeepsInv
<1>3. CASE PlaceByLine
  <2>1. pc = "call"
    BY <1>3 DEF PlaceByLine, Placeable
  <2>2. CASE ~HasCenter(graph)
    <3>1. Raise("NetworkXError")
      BY <1>3, <2>2 DEF PlaceByLine
    <3>. QED
      BY <2>1, <3>1, RaiseKeepsInv
  <2>3. CASE HasCenter(graph)
    <3>1. PICK M : M = InitialMapping(graph, circuit)
      OBVIOUS
    <3>2. IF M.raised # "" THEN Raise(M.raised) ELSE Begin(M.map)
      BY <1>3, <2>3, <3>1 DEF PlaceByLine
    <3>3. graph \in SUBSET Edges /\ circuit \in Circuits
      BY DeviceAssumption DEF RouteInv, CallInv
    <3>4. /\ M.raised \in {"", "ValueError"}
          /\ M.raised = "" => /\ M.map \in [AllQubits(circuit) -> Physical]
                              /\ \A p, q \in AllQubits(circuit) : M.map[p] = M.map[q] => p = q
      BY <2>3, <3>1, <3>3, InitialMappingFacts
    <3>5. CASE M.raised = ""
      <4>1. PICK m : m = M.map
        OBVIOUS
      <4>2. /\ Begin(m) /\ m \in [AllQubits(circuit) -> Physical]
            /\ \A p, q \in AllQubits(circuit) : m[p] = m[q] => p = q
        BY <3>2, <3>4, <3>5, <4>1
      <4>. QED
        BY <2>1, <4>2, BeginKeepsInv
    <3>6. CASE M.raised = "ValueError"
      <4>1. Raise("ValueError")
        BY <3>2, <3>6
      <4>. QED
        BY <2>1, <4>1, RaiseKeepsInv
    <3>. QED
      BY <3>4, <3>5, <3>6
  <2>. QED
    BY <2>2, <2>3
<1>. QED
  BY <1>1, <1>2, <1>3

\* Where nothing is moved, the maps stay as they are.
LEMMA NothingMoved ==
    ASSUME RouteInv, UNCHANGED <<mappingVars, callVars>>, pc \notin Idle, pc' \notin Idle
    PROVE  DeviceInv' /\ PlaceInv'
<1>1. /\ UNCHANGED <<device, distances, undirectedDistances, logicalToPhysical, physicalToLogical>>
      /\ UNCHANGED <<graph, circuit, radius>>
  BY DEF mappingVars, callVars
<1>2. DeviceInv'
  BY <1>1 DEF RouteInv, DeviceInv
<1>3. PlaceInv'
  BY <1>1 DEF RouteInv, PlaceInv, Logical
<1>. QED
  BY <1>2, <1>3

\* Operations that are added to the routed ones, on the places of their qubits.
LEMMA MoreRouted ==
    ASSUME RouteInv, pc \notin Idle, NEW T, T \subseteq OpsOn(AllQubits(circuit)), NEW ops \in Seq(T),
           \A op \in ToSet(ops) : OnEdge(MappedOp(op)),
           routed' = routed \o MappedOps(ops), UNCHANGED <<device, final>>
    PROVE  RoutedInv'
<1>1. PICK qs, more : qs = AllQubits(circuit) /\ more = MappedOps(ops)
  OBVIOUS
<1>2. ops \in Seq(OpsOn(qs))
  BY <1>1
<1>3. qs \subseteq Logical /\ logicalToPhysical \in [Logical -> Physical]
  BY <1>1 DEF RouteInv, PlaceInv
<1>4. /\ more \in Seq(Operation)
      /\ \A o \in ToSet(more) : \E op \in ToSet(ops) : o = MappedOp(op)
  BY <1>1, <1>2, <1>3, MappedOpsFacts
<1>5. /\ routed \in Seq(Operation) /\ \A op \in ToSet(routed) : OnEdge(op)
      /\ final \in Seq(Operation) /\ \A op \in ToSet(final) : Len(op.qubits) = 2 => op.qubits \in device
  BY DEF RouteInv, RoutedInv
<1>6. routed' \in Seq(Operation) /\ ToSet(routed') = ToSet(routed) \cup ToSet(more)
  BY <1>1, <1>4, <1>5, ConcatSet
<1>7. \A op \in ToSet(routed') : OnEdge(op)
  BY <1>4, <1>5, <1>6
<1>8. \A op : OnEdge(op)' <=> OnEdge(op)
  BY DEF OnEdge
<1>. QED
  BY <1>5, <1>6, <1>7, <1>8 DEF RoutedInv

\* The operations on one qubit, or on many, are on no edge.
LEMMA NextTimestepKeepsInv ==
    ASSUME RouteInv, NextTimestep
    PROVE  RouteInv'
<1>1. /\ pc = "next" /\ pc' = "process" /\ timestep < Len(double) /\ timestep' = timestep + 1
      /\ routed' = routed \o MappedOps(single[timestep + 1])
      /\ UNCHANGED <<mappingVars, callVars>> /\ UNCHANGED <<single, double, final>>
  BY DEF NextTimestep
<1>2. UNCHANGED <<device, graph, circuit, radius>>
  BY <1>1 DEF mappingVars, callVars
<1>3. pc \notin Idle /\ pc' \notin Idle
  BY <1>1 DEF Idle
<1>4. CallInv'
  BY <1>1, <1>2, <1>3 DEF RouteInv, CallInv
<1>5. DeviceInv' /\ PlaceInv'
  BY <1>1, <1>3, NothingMoved
<1>6. Len(double) \in Nat /\ timestep \in 0..Len(double) /\ Len(single) = Len(double)
  BY DEF RouteInv, ListInv
<1>7. timestep + 1 \in 1..Len(double) /\ timestep + 1 # 0
  BY <1>1, <1>6
<1>8. ListInv'
  <2>1. timestep' \in 0..Len(double') /\ timestep' # 0
    BY <1>1, <1>6, <1>7
  <2>. QED
    BY <1>1, <1>2, <2>1 DEF RouteInv, ListInv
<1>9. SwapInv'
  BY <1>1 DEF SwapInv
<1>10. RoutedInv'
  <2>1. PICK qs, ops : qs = AllQubits(circuit) /\ ops = single[timestep + 1]
    OBVIOUS
  <2>2. single \in Seq(Seq(Singles(qs)))
    BY <2>1 DEF RouteInv, ListInv
  <2>3. ops \in Seq(Singles(qs))
    BY <1>6, <1>7, <2>1, <2>2
  <2>4. ToSet(ops) \subseteq Singles(qs) /\ Singles(qs) \subseteq OpsOn(qs)
    BY <2>3, SeqFacts DEF Singles
  <2>5. qs \subseteq Logical /\ logicalToPhysical \in [Logical -> Physical]
    BY <1>3, <2>1 DEF RouteInv, PlaceInv
  <2>6. ASSUME NEW op \in ToSet(ops) PROVE OnEdge(MappedOp(op))
    <3>1. op \in OpsOn(qs) /\ Len(op.qubits) # 2
      BY <2>4 DEF Singles
    <3>2. op \in LogicalOp
      BY <2>5, <3>1, OpsAreLogical
    <3>3. Len(MappedOp(op).qubits) = Len(op.qubits)
      BY <2>5, <3>2, MappedOpFacts
    <3>. QED
      BY <3>1, <3>3 DEF OnEdge
  <2>. QED
    BY <1>1, <1>2, <1>3, <2>1, <2>3, <2>4, <2>6, MoreRouted
<1>. QED
  BY <1>4, <1>5, <1>8, <1>9, <1>10 DEF RouteInv

\* Operations are taken when they are on an edge in its direction, and the others stay.
LEMMA ProcessExecutableKeepsInv ==
    ASSUME RouteInv, ProcessExecutable
    PROVE  RouteInv'
<1>1. PICK ops, near, D, qs : /\ ops = double[timestep] /\ near = {i \in DOMAIN ops : Executable(ops[i])}
                              /\ qs = AllQubits(circuit) /\ D = Doubles(qs)
  OBVIOUS
<1>2. /\ pc = "process" /\ pc' = IF near = DOMAIN ops THEN "next" ELSE "choose"
      /\ routed' = routed \o MappedOps(Select(ops, near))
      /\ double' = [double EXCEPT ![timestep] = Select(ops, DOMAIN ops \ near)]
      /\ UNCHANGED <<mappingVars, callVars>> /\ UNCHANGED <<single, final, timestep>>
  BY <1>1 DEF ProcessExecutable
<1>3. UNCHANGED <<device, graph, circuit, radius>>
  BY <1>2 DEF mappingVars, callVars
<1>4. pc \notin Idle /\ pc' \notin Idle /\ pc' \in {"next", "choose"} /\ timestep # 0
  BY <1>2 DEF Idle, RouteInv, ListInv
<1>5. CallInv'
  BY <1>2, <1>3, <1>4 DEF RouteInv, CallInv
<1>6. DeviceInv' /\ PlaceInv'
  BY <1>2, <1>4, NothingMoved
<1>7. timestep \in 1..Len(double) /\ ops \in Seq(D)
  BY <1>1, <1>4, CurrentOps DEF RouteInv
<1>8. \A Q : Select(ops, Q) \in Seq(D) /\ \A x \in ToSet(Select(ops, Q)) : \E i \in DOMAIN ops : i \in Q /\ x = ops[i]
  BY <1>7, SelectElements
<1>9. ListInv'
  <2>1. PICK X, x : X = Seq(D) /\ x = Select(ops, DOMAIN ops \ near)
    OBVIOUS
  <2>2. double \in Seq(X) /\ x \in X
    BY <1>1, <1>8, <2>1 DEF RouteInv, ListInv
  <2>3. double' \in Seq(X) /\ Len(double') = Len(double)
    BY <1>2, <1>7, <2>1, <2>2, ReplacedFacts
  <2>. QED
    BY <1>1, <1>2, <1>3, <1>4, <2>1, <2>3 DEF RouteInv, ListInv
<1>10. SwapInv'
  BY <1>4 DEF SwapInv
<1>11. RoutedInv'
  <2>1. PICK s : s = Select(ops, near)
    OBVIOUS
  <2>2. s \in Seq(D) /\ \A x \in ToSet(s) : \E i \in DOMAIN ops : i \in near /\ x = ops[i]
    BY <1>8, <2>1
  <2>3. D \subseteq OpsOn(qs)
    BY <1>1 DEF Doubles
  <2>4. qs \subseteq Logical /\ logicalToPhysical \in [Logical -> Physical]
    BY <1>1, <1>4 DEF RouteInv, PlaceInv
  <2>5. device \in SUBSET Edges /\ device \subseteq Undirected(device)
    BY InUse, GraphFacts DEF RouteInv
  <2>6. ASSUME NEW op \in ToSet(s) PROVE OnEdge(MappedOp(op))
    <3>1. PICK i \in DOMAIN ops : Executable(ops[i]) /\ op = ops[i]
      BY <1>1, <2>2
    <3>2. op \in D
      BY <2>2, SeqFacts
    <3>3. op \in LogicalOp /\ Len(op.qubits) = 2
      BY <1>1, <2>3, <2>4, <3>2, OpsAreLogical DEF Doubles
    <3>4. PICK a, b : a = logicalToPhysical[op.qubits[1]] /\ b = logicalToPhysical[op.qubits[2]]
      OBVIOUS
    <3>5. /\ op.qubits[1] \in Logical /\ op.qubits[2] \in Logical /\ MappedOp(op).qubits = <<a, b>>
      BY <2>4, <3>3, <3>4, MappedOpFacts
    <3>6. a \in Physical /\ b \in Physical
      BY <2>4, <3>4, <3>5
    <3>7. FloydWarshall(device)[a][b] = 1
      BY <1>4, <3>1, <3>4 DEF RouteInv, DeviceInv, Executable, IsAdjacent, DistOn
    <3>8. <<a, b>> \in device
      BY <2>5, <3>6, <3>7, DistanceFacts
    <3>. QED
      BY <2>5, <3>5, <3>8 DEF OnEdge
  <2>. QED
    BY <1>1, <1>2, <1>3, <1>4, <2>1, <2>2, <2>3, <2>6, MoreRouted
<1>. QED
  BY <1>5, <1>6, <1>9, <1>10, <1>11 DEF RouteInv

\* Whatever list of swaps is chosen can be done one after the other.
LEMMA ChooseSwapsKeepsInv ==
    ASSUME RouteInv, ChooseSwaps
    PROVE  RouteInv'
<1>1. /\ pc = "choose" /\ UNCHANGED <<mappingVars, callVars>>
      /\ UNCHANGED <<single, double, routed, final, timestep>>
  BY DEF ChooseSwaps
<1>2. UNCHANGED <<device, graph, circuit, radius, logicalToPhysical>>
  BY <1>1 DEF mappingVars, callVars
<1>3. pc \notin Idle /\ timestep # 0
  BY <1>1 DEF Idle, RouteInv, ListInv
<1>4. CallInv /\ DeviceInv /\ PlaceInv /\ ListInv
  BY DEF RouteInv
<1>5. PICK g, f : g = Undirected(device) /\ f = logicalToPhysical
  OBVIOUS
<1>6. \A s \in BruteForceSwaps : Swappable(g, f, s)
  BY <1>3, <1>4, <1>5, BruteForceIsSwappable
<1>7. \A s \in SingleSwaps \cup PairsOfSwaps : Swappable(g, f, s)
  BY <1>3, <1>4, <1>5, CandidatesAreSwappable
<1>8. \A sigma : Optimal(sigma) \subseteq sigma
  <2>1. ASSUME NEW sigma PROVE Optimal(sigma) \subseteq sigma
    <3>1. PICK h : Optimal(sigma) = h[Far] /\ \A n \in 0..Far : h[n] \in SUBSET sigma
      BY <1>3, <1>4, OptimalSubset
    <3>2. Far \in 0..Far
      <4>1. Far \in Nat
        BY <1>3, <1>4, FarFacts
      <4>. QED
        BY <4>1
    <3>. QED
      BY <3>1, <3>2
  <2>. QED
    BY <2>1
<1>9. \/ pc' = "swap" /\ \/ swaps' \in BruteForceSwaps
                         \/ swaps' \in SingleSwaps \cup PairsOfSwaps
      \/ pc' = "IndexError"
  <2>1. PICK one, best : /\ one = Optimal(SingleSwaps) /\ best = IF IsNone(one) THEN Optimal(PairsOfSwaps) ELSE one
                         /\ \/ ~IsNone(best) /\ \E chosen \in best : Take(chosen)
                            \/ IsNone(best) /\ swaps' \in BruteForceSwaps /\ pc' = "swap" /\ UNCHANGED seen
                            \/ best = {} /\ pc' = "IndexError" /\ UNCHANGED <<swaps, seen>>
    BY DEF ChooseSwaps
  <2>2. best \subseteq SingleSwaps \cup PairsOfSwaps
    BY <1>8, <2>1
  <2>3. \A chosen : Take(chosen) => pc' = "swap" /\ (swaps' \in BruteForceSwaps \/ swaps' = chosen)
    BY DEF Take
  <2>. QED
    BY <2>1, <2>2, <2>3
<1>10. pc' \notin Idle /\ pc' \in {"swap", "IndexError"}
  BY <1>9 DEF Idle
<1>11. CallInv'
  BY <1>1, <1>2, <1>4, <1>10 DEF CallInv, Exceptions
<1>12. DeviceInv' /\ PlaceInv'
  BY <1>1, <1>3, <1>10, NothingMoved
<1>13. ListInv'
  BY <1>1, <1>2, <1>3, <1>4 DEF ListInv
<1>14. SwapInv'
  BY <1>2, <1>5, <1>6, <1>7, <1>9, <1>10 DEF SwapInv
<1>15. RoutedInv'
  BY <1>1, <1>2 DEF RouteInv, RoutedInv, OnEdge
<1>. QED
  BY <1>11, <1>12, <1>13, <1>14, <1>15 DEF RouteInv

\* A swap that is inserted is one of neighbours, so apply_swap does it, and the other
\* swaps can still be done.
LEMMA InsertSwapKeepsInv ==
    ASSUME RouteInv, InsertSwap
    PROVE  RouteInv'
<1>1. PICK q, g, f, h : /\ q = Head(swaps) /\ g = Undirected(device)
                        /\ f = logicalToPhysical /\ h = physicalToLogical
  OBVIOUS
<1>2. /\ pc = "swap" /\ swaps # << >>
      /\ UNCHANGED <<graph, circuit, radius>> /\ UNCHANGED <<single, double, final, timestep>>
  BY DEF InsertSwap, callVars
<1>3. pc \notin Idle
  BY <1>2 DEF Idle
<1>4. /\ f \in [Logical -> Physical] /\ h \in [DOMAIN h -> Logical] /\ DOMAIN h \subseteq Physical
      /\ Inverse2(f, h)
  BY <1>1 DEF RouteInv, PlaceInv
<1>5. Swappable(g, f, swaps) /\ DOMAIN f = Logical
  BY <1>1, <1>2, <1>4 DEF RouteInv, SwapInv
<1>6. swaps \in Seq(Logical \X Logical)
  BY <1>5 DEF Swappable
<1>7. q = swaps[1] /\ q \in Logical \X Logical
  BY <1>1, <1>2, <1>6
<1>8. q = <<q[1], q[2]>> /\ q[1] \in Logical /\ q[2] \in Logical
  BY <1>7
<1>9. PICK f2, h2, a, b : /\ f2 = Exchanged(f, q[1], q[2]) /\ h2 = Exchanged(h, f[q[1]], f[q[2]])
                          /\ a = f[q[1]] /\ b = f[q[2]]
  OBVIOUS
<1>10. IsMap(h)
  BY <1>4 DEF IsMap
<1>11. /\ f2 \in [Logical -> Physical] /\ DOMAIN h2 = DOMAIN h /\ h2 \in [DOMAIN h -> Logical]
       /\ Inverse2(f2, h2) /\ f2[q[1]] = f[q[2]]
       /\ \A x \in Logical : x # q[1] /\ x # q[2] => f2[x] = f[x]
  <2>1. PICK x, y, A, B : x = q[1] /\ y = q[2] /\ A = Logical /\ B = Physical
    OBVIOUS
  <2>2. x \in A /\ y \in A /\ f \in [A -> B]
    BY <1>4, <1>8, <2>1
  <2>3. Exchange(A, B, f, h, x, y)
    BY <1>4, <1>10, <2>2, ExchangedFacts
  <2>. QED
    BY <1>9, <2>1, <2>3 DEF Exchange
<1>12. <<a, b>> \in g /\ Swappable(g, f2, Tail(swaps))
  <2>1. f2[swaps[1][1]] = f[swaps[1][2]] /\ \A x \in Logical : x # swaps[1][1] /\ x # swaps[1][2] => f2[x] = f[x]
    BY <1>7, <1>11
  <2>2. <<f[swaps[1][1]], f[swaps[1][2]]>> \in g /\ Swappable(g, f2, Tail(swaps))
    <3>1. PICK A, B, ws : A = Logical /\ B = Physical /\ ws = swaps
      OBVIOUS
    <3>2. f \in [A -> B] /\ f2 \in [A -> B] /\ Swappable(g, f, ws) /\ ws # << >> /\ Moved(A, f, f2, ws[1])
      BY <1>2, <1>4, <1>5, <1>11, <2>1, <3>1 DEF Moved
    <3>3. Advanced(g, A, f, f2, ws)
      BY <3>2, SwappableStep
    <3>. QED
      BY <3>1, <3>3 DEF Advanced
  <2>. QED
    BY <1>7, <1>9, <2>2
<1>13. device \in SUBSET Edges /\ g \in SUBSET Edges
  BY <1>1, InUse DEF RouteInv
<1>14. a \in Physical /\ b \in Physical
  BY <1>4, <1>8, <1>9
<1>15. CanSwap(q[1], q[2])
  <2>1. FloydWarshall(g)[a][b] <= 1
    BY <1>12, <1>13, <1>14, DistanceFacts
  <2>2. undirectedDistances = FloydWarshall(g)
    BY <1>1, <1>3 DEF RouteInv, DeviceInv
  <2>. QED
    BY <1>1, <1>9, <2>1, <2>2 DEF CanSwap, UndirectedDistOn
<1>16. PICK op : op = [id |-> "SWAP", kind |-> "gate", qubits |-> q]
  OBVIOUS
<1>17. /\ routed' = Append(routed, MappedOp(op)) /\ swaps' = Tail(swaps) /\ UNCHANGED pc
       /\ logicalToPhysical' = f2 /\ physicalToLogical' = h2
       /\ UNCHANGED <<device, distances, undirectedDistances>>
  BY <1>1, <1>9, <1>15, <1>16 DEF InsertSwap, ApplySwap
<1>18. CallInv'
  BY <1>2, <1>3, <1>17 DEF RouteInv, CallInv
<1>19. DeviceInv'
  BY <1>1, <1>2, <1>11, <1>17 DEF RouteInv, DeviceInv
<1>20. Logical' = Logical
  BY <1>11, <1>17 DEF Logical
<1>21. PlaceInv'
  BY <1>1, <1>2, <1>4, <1>11, <1>17, <1>20 DEF RouteInv, PlaceInv
<1>22. ListInv'
  BY <1>2, <1>17 DEF RouteInv, ListInv
<1>23. SwapInv'
  BY <1>1, <1>12, <1>17 DEF SwapInv
<1>24. RoutedInv'
  <2>1. op \in LogicalOp
    <3>1. PICK x, y, A : x = q[1] /\ y = q[2] /\ A = Logical
      OBVIOUS
    <3>2. x \in A /\ y \in A /\ q = <<x, y>>
      BY <1>8, <3>1
    <3>3. <<x, y>> \in Seq(A)
      BY <3>2
    <3>4. q \in Seq(Logical)
      BY <3>1, <3>2, <3>3
    <3>. QED
      BY <1>16, <3>4 DEF LogicalOp
  <2>2. op.id = "SWAP" /\ op.qubits = q /\ Len(op.qubits) = 2
    BY <1>8, <1>16
  <2>3. MappedOp(op) \in Operation /\ MappedOp(op).id = "SWAP" /\ MappedOp(op).qubits = <<a, b>>
    BY <1>1, <1>4, <1>9, <2>1, <2>2, MappedOpFacts
  <2>4. OnEdge(MappedOp(op))
    BY <1>1, <1>12, <2>3 DEF OnEdge
  <2>5. /\ routed \in Seq(Operation) /\ \A o \in ToSet(routed) : OnEdge(o)
        /\ final \in Seq(Operation) /\ \A o \in ToSet(final) : Len(o.qubits) = 2 => o.qubits \in device
    BY DEF RouteInv, RoutedInv
  <2>6. routed' \in Seq(Operation) /\ ToSet(routed') = ToSet(routed) \cup {MappedOp(op)}
    BY <1>17, <2>3, <2>5, AppendSet
  <2>7. \A o : OnEdge(o)' <=> OnEdge(o)
    BY <1>17 DEF OnEdge
  <2>. QED
    BY <1>2, <1>17, <2>4, <2>5, <2>6, <2>7 DEF RoutedInv
<1>. QED
  BY <1>18, <1>19, <1>21, <1>22, <1>23, <1>24 DEF RouteInv

\* When the swaps are done the operations are looked at again.
LEMMA SwapsInsertedKeepsInv ==
    ASSUME RouteInv, SwapsInserted
    PROVE  RouteInv'
<1>1. /\ pc = "swap" /\ pc' = "process" /\ UNCHANGED <<mappingVars, callVars>>
      /\ UNCHANGED <<single, double, routed, final, timestep>>
  BY DEF SwapsInserted
<1>2. UNCHANGED <<device, graph, circuit, radius>>
  BY <1>1 DEF mappingVars, callVars
<1>3. pc \notin Idle /\ pc' \notin Idle
  BY <1>1 DEF Idle
<1>4. CallInv'
  BY <1>1, <1>2, <1>3 DEF RouteInv, CallInv
<1>5. DeviceInv' /\ PlaceInv'
  BY <1>1, <1>3, NothingMoved
<1>6. ListInv'
  BY <1>1, <1>2 DEF RouteInv, ListInv
<1>7. SwapInv'
  BY <1>1 DEF SwapInv
<1>8. RoutedInv'
  BY <1>1, <1>2 DEF RouteInv, RoutedInv, OnEdge
<1>. QED
  BY <1>4, <1>5, <1>6, <1>7, <1>8 DEF RouteInv

\* What two lists keep to, their concatenation does.
LEMMA ConcatWithin ==
    ASSUME NEW T, NEW S, NEW s \in Seq(T), NEW t \in Seq(T), ToSet(s) \subseteq S, ToSet(t) \subseteq S
    PROVE  s \o t \in Seq(T) /\ ToSet(s \o t) \subseteq S
<1>1. s \o t \in Seq(T) /\ ToSet(s \o t) = ToSet(s) \cup ToSet(t)
  BY ConcatSet
<1>. QED
  BY <1>1

\* An operation of the same kind, with another name, on other qubits.
LEMMA MadeOf ==
    ASSUME NEW op \in Operation, NEW i \in Names \cup {"SWAP", "CNOT", "H"}, NEW s \in Seq(Nat)
    PROVE  /\ [id |-> i, kind |-> op.kind, qubits |-> s] \in Operation
           /\ [id |-> i, kind |-> op.kind, qubits |-> s].qubits = s
BY DEF Operation

\* A swap against an edge becomes gates along it, and a swap that is not replaced is
\* on an edge in both directions.
LEMMA DecomposedFacts ==
    ASSUME device \in SUBSET Edges, NEW op \in Operation, OnEdge(op)
    PROVE  /\ Decomposed(op) \in Seq(Operation)
           /\ \A o \in ToSet(Decomposed(op)) : Len(o.qubits) = 2 => o.qubits \in device
<1>1. PICK oneWay : oneWay = Induced(device, ToSet(op.qubits))
  OBVIOUS
<1>2. CASE op.id # "SWAP" \/ Cardinality(oneWay) # 1
  <2>1. Decomposed(op) = <<op>>
    BY <1>1, <1>2 DEF Decomposed
  <2>2. <<op>> \in Seq(Operation) /\ ToSet(<<op>>) = {op}
    BY SingleSet
  <2>3. ASSUME Len(op.qubits) = 2, op.id = "SWAP" PROVE op.qubits \in device
    <3>1. PICK a, b : a = op.qubits[1] /\ b = op.qubits[2]
      OBVIOUS
    <3>2. op.qubits = <<a, b>>
      BY <2>3, <3>1, PairFacts
    <3>3. ToSet(<<a, b>>) = {a, b}
      BY DEF ToSet
    <3>4. \/ <<a, b>> \in device
          \/ <<b, a>> \in device
      <4>1. <<a, b>> \in Undirected(device)
        BY <2>3, <3>2 DEF OnEdge
      <4>2. \A e \in device : e = <<e[1], e[2]>>
        BY EdgeFacts
      <4>3. CASE <<a, b>> \notin device
        <5>1. PICK e \in device : <<a, b>> = <<e[2], e[1]>>
          BY <4>1, <4>3 DEF Undirected
        <5>2. a = e[2] /\ b = e[1]
          BY <5>1
        <5>. QED
          BY <4>2, <5>2
      <4>. QED
        BY <4>3
    <3>. SUFFICES ASSUME <<a, b>> \notin device PROVE FALSE
      BY <3>2
    <3>5. oneWay = {<<b, a>>}
      <4>1. oneWay = {e \in device : e[1] \in {a, b} /\ e[2] \in {a, b}}
        BY <1>1, <3>2, <3>3 DEF Induced
      <4>2. <<b, a>> \in oneWay
        <5>1. <<b, a>>[1] = b /\ <<b, a>>[2] = a
          OBVIOUS
        <5>. QED
          BY <3>4, <4>1, <5>1
      <4>3. ASSUME NEW e \in oneWay PROVE e = <<b, a>>
        <5>1. e = <<e[1], e[2]>> /\ e[1] # e[2] /\ e \in device /\ e[1] \in {a, b} /\ e[2] \in {a, b}
          BY <4>1, EdgeFacts
        <5>2. e = <<a, b>> \/ e = <<b, a>>
          BY <5>1
        <5>. QED
          BY <5>1, <5>2
      <4>. QED
        BY <4>2, <4>3
    <3>6. Cardinality(oneWay) = 1
      BY <3>5, FS_Singleton
    <3>. QED
      BY <1>2, <2>3, <3>6
  <2>4. ASSUME Len(op.qubits) = 2, op.id # "SWAP" PROVE op.qubits \in device
    BY <2>4 DEF OnEdge
  <2>. QED
    BY <2>1, <2>2, <2>3, <2>4
<1>3. CASE ~(op.id # "SWAP" \/ Cardinality(oneWay) # 1)
  <2>1. PICK edge : edge = CHOOSE e \in oneWay : TRUE
    OBVIOUS
  <2>2. edge \in oneWay
    <3>1. oneWay # {}
      <4>1. Cardinality({}) = 0
        BY FS_EmptySet
      <4>. QED
        BY <1>3, <4>1
    <3>. QED
      BY <2>1, <3>1
  <2>3. edge \in device
    BY <1>1, <2>2 DEF Induced
  <2>4. edge = <<edge[1], edge[2]>> /\ edge[1] \in Nat /\ edge[2] \in Nat
    <3>1. edge = <<edge[1], edge[2]>> /\ edge[1] \in Physical /\ edge[2] \in Physical
      BY <2>3, EdgeFacts
    <3>. QED
      BY <3>1, PhysicalFacts
  <2>5. PICK cnot, h1, h2 : /\ cnot = [op EXCEPT !.id = "CNOT", !.qubits = edge]
                            /\ h1 = [op EXCEPT !.id = "H", !.qubits = <<edge[1]>>]
                            /\ h2 = [op EXCEPT !.id = "H", !.qubits = <<edge[2]>>]
    OBVIOUS
  <2>6. cnot \in Operation /\ cnot.qubits = edge
    <3>1. edge \in Seq(Nat)
      <4>1. PICK x, y : x = edge[1] /\ y = edge[2]
        OBVIOUS
      <4>2. x \in Nat /\ y \in Nat /\ edge = <<x, y>>
        BY <2>4, <4>1
      <4>3. <<x, y>> \in Seq(Nat)
        BY <4>2
      <4>. QED
        BY <4>2, <4>3
    <3>2. cnot = [id |-> "CNOT", kind |-> op.kind, qubits |-> edge]
      BY <2>5 DEF Operation
    <3>. QED
      BY <3>1, <3>2, MadeOf
  <2>7. h1 \in Operation /\ h1.qubits = <<edge[1]>>
    <3>1. <<edge[1]>> \in Seq(Nat)
      BY <2>4
    <3>2. h1 = [id |-> "H", kind |-> op.kind, qubits |-> <<edge[1]>>]
      BY <2>5 DEF Operation
    <3>. QED
      BY <3>1, <3>2, MadeOf
  <2>8. h2 \in Operation /\ h2.qubits = <<edge[2]>>
    <3>1. <<edge[2]>> \in Seq(Nat)
      BY <2>4
    <3>2. h2 = [id |-> "H", kind |-> op.kind, qubits |-> <<edge[2]>>]
      BY <2>5 DEF Operation
    <3>. QED
      BY <3>1, <3>2, MadeOf
  <2>9. PICK one, two : one = <<cnot>> /\ two = <<h1, h2>>
    OBVIOUS
  <2>10. one \in Seq(Operation) /\ ToSet(one) = {cnot}
    BY <2>6, <2>9, SingleSet
  <2>11. two \in Seq(Operation) /\ ToSet(two) = {h1, h2}
    BY <2>7, <2>8, <2>9 DEF ToSet
  <2>12. Decomposed(op) = one \o two \o one \o two \o one
    BY <1>1, <1>3, <2>1, <2>5, <2>9 DEF Decomposed
  <2>13. PICK s2, s3, s4, s5 : s2 = one \o two /\ s3 = s2 \o one /\ s4 = s3 \o two /\ s5 = s4 \o one
    OBVIOUS
  <2>14. s2 \in Seq(Operation) /\ ToSet(s2) \subseteq {cnot, h1, h2}
    <3>1. PICK S : S = {cnot, h1, h2}
      OBVIOUS
    <3>2. one \in Seq(Operation) /\ two \in Seq(Operation) /\ ToSet(one) \subseteq S /\ ToSet(two) \subseteq S
      BY <2>10, <2>11, <3>1
    <3>3. one \o two \in Seq(Operation) /\ ToSet(one \o two) \subseteq S
      BY <3>2, ConcatWithin
    <3>. QED
      BY <2>13, <3>1, <3>3
  <2>15. s3 \in Seq(Operation) /\ ToSet(s3) \subseteq {cnot, h1, h2}
    BY <2>10, <2>13, <2>14, ConcatWithin
  <2>16. s4 \in Seq(Operation) /\ ToSet(s4) \subseteq {cnot, h1, h2}
    BY <2>11, <2>13, <2>15, ConcatWithin
  <2>17. s5 \in Seq(Operation) /\ ToSet(s5) \subseteq {cnot, h1, h2}
    BY <2>10, <2>13, <2>16, ConcatWithin
  <2>18. Decomposed(op) = s5
    BY <2>12, <2>13
  <2>19. Len(h1.qubits) # 2 /\ Len(h2.qubits) # 2
    BY <2>7, <2>8
  <2>. QED
    BY <2>3, <2>6, <2>17, <2>18, <2>19
<1>. QED
  BY <1>2, <1>3

\* In the end every gate is along an edge: an undirected device has its edges in both
\* directions, and on another the swaps against an edge are replaced.
LEMMA FinishKeepsInv ==
    ASSUME RouteInv, Finish
    PROVE  RouteInv'
<1>1. /\ pc = "next" /\ pc' = "done" /\ UNCHANGED <<mappingVars, callVars>>
      /\ UNCHANGED <<single, double, routed, timestep>>
      /\ final' = IF IsDirected(graph)
                  THEN FlattenSeq([i \in DOMAIN routed |-> Decomposed(routed[i])]) ELSE routed
  BY DEF Finish
<1>2. UNCHANGED <<device, graph, circuit, radius>>
  BY <1>1 DEF mappingVars, callVars
<1>3. pc \notin Idle /\ pc' \notin Idle
  BY <1>1 DEF Idle
<1>4. CallInv'
  BY <1>1, <1>2, <1>3 DEF RouteInv, CallInv
<1>5. DeviceInv' /\ PlaceInv'
  BY <1>1, <1>3, NothingMoved
<1>6. ListInv'
  BY <1>1, <1>2 DEF RouteInv, ListInv
<1>7. SwapInv'
  BY <1>1 DEF SwapInv
<1>8. /\ routed \in Seq(Operation) /\ \A op \in ToSet(routed) : OnEdge(op)
      /\ Len(routed) \in Nat /\ DOMAIN routed = 1..Len(routed) /\ \A i \in DOMAIN routed : routed[i] \in Operation
      /\ \A i \in DOMAIN routed : OnEdge(routed[i])
  <2>1. routed \in Seq(Operation) /\ \A op \in ToSet(routed) : OnEdge(op)
    BY DEF RouteInv, RoutedInv
  <2>2. Len(routed) \in Nat /\ DOMAIN routed = 1..Len(routed) /\ \A i \in DOMAIN routed : routed[i] \in Operation
    BY <2>1, SeqFacts
  <2>3. \A i \in DOMAIN routed : OnEdge(routed[i])
    BY <2>1 DEF ToSet
  <2>. QED
    BY <2>1, <2>2, <2>3
<1>9. graph \in SUBSET Edges /\ device \in SUBSET Edges
  BY InUse DEF RouteInv
<1>10. final' \in Seq(Operation) /\ \A o \in ToSet(final') : Len(o.qubits) = 2 => o.qubits \in device
  <2>1. CASE IsDirected(graph)
    <3>1. PICK L, ss : L = Len(routed) /\ ss = [i \in 1..L |-> Decomposed(routed[i])]
      OBVIOUS
    <3>2. final' = FlattenSeq(ss)
      BY <1>1, <1>8, <2>1, <3>1
    <3>3. \A i \in 1..L : /\ Decomposed(routed[i]) \in Seq(Operation)
                          /\ \A o \in ToSet(Decomposed(routed[i])) : Len(o.qubits) = 2 => o.qubits \in device
      BY <1>8, <1>9, <3>1, DecomposedFacts
    <3>4. PICK X : X = Seq(Operation)
      OBVIOUS
    <3>5. ss \in [1..L -> X] /\ L \in Nat
      BY <1>8, <3>1, <3>3, <3>4
    <3>6. ss \in Seq(Seq(Operation)) /\ DOMAIN ss = 1..L
      BY <3>4, <3>5
    <3>7. FlattenSeq(ss) \in Seq(Operation) /\ ToSet(FlattenSeq(ss)) = UNION {ToSet(ss[i]) : i \in DOMAIN ss}
      BY <3>6, FlattenElements
    <3>8. ASSUME NEW o \in ToSet(FlattenSeq(ss)) PROVE Len(o.qubits) = 2 => o.qubits \in device
      <4>1. PICK i \in 1..L : o \in ToSet(ss[i])
        BY <3>6, <3>7
      <4>2. ss[i] = Decomposed(routed[i])
        BY <3>1
      <4>. QED
        BY <3>3, <4>1, <4>2
    <3>. QED
      BY <3>2, <3>7, <3>8
  <2>2. CASE ~IsDirected(graph)
    <3>1. Undirected(device) \subseteq device
      <4>1. graph = Undirected(graph)
        BY <2>2 DEF IsDirected
      <4>2. device = Induced(graph, DOMAIN physicalToLogical)
        BY DEF RouteInv, DeviceInv
      <4>3. ASSUME NEW e \in Undirected(device), e \notin device PROVE FALSE
        <5>1. PICK d \in device : e = <<d[2], d[1]>>
          BY <4>3 DEF Undirected
        <5>2. d \in graph /\ d[1] \in DOMAIN physicalToLogical /\ d[2] \in DOMAIN physicalToLogical
          BY <4>2 DEF Induced
        <5>3. e \in graph
          BY <4>1, <5>1, <5>2 DEF Undirected
        <5>4. e[1] = d[2] /\ e[2] = d[1]
          BY <5>1
        <5>. QED
          BY <4>2, <4>3, <5>2, <5>3, <5>4 DEF Induced
      <4>. QED
        BY <4>3
    <3>2. final' = routed
      BY <1>1, <2>2
    <3>. QED
      BY <1>8, <3>1, <3>2 DEF OnEdge
  <2>. QED
    BY <2>1, <2>2
<1>11. RoutedInv'
  <2>1. \A o : OnEdge(o)' <=> OnEdge(o)
    BY <1>2 DEF OnEdge
  <2>. QED
    BY <1>1, <1>2, <1>8, <1>10, <2>1 DEF RoutedInv
<1>. QED
  BY <1>4, <1>5, <1>6, <1>7, <1>11 DEF RouteInv

\* The invariant holds in every state.
LEMMA RouteInvariant == Spec => []RouteInv
<1>1. Init => RouteInv
  BY InitInv
<1>2. RouteInv /\ [Next]_vars => RouteInv'
  <2>. SUFFICES ASSUME RouteInv, [Next]_vars PROVE RouteInv'
    OBVIOUS
  <2>1. CASE Refuse \/ PlaceByCaller \/ PlaceByLine
    BY <2>1, CallKeepsInv
  <2>2. CASE NextTimestep
    BY <2>2, NextTimestepKeepsInv
  <2>3. CASE ProcessExecutable
    BY <2>3, ProcessExecutableKeepsInv
  <2>4. CASE ChooseSwaps
    BY <2>4, ChooseSwapsKeepsInv
  <2>5. CASE InsertSwap
    BY <2>5, InsertSwapKeepsInv
  <2>6. CASE SwapsInserted
    BY <2>6, SwapsInsertedKeepsInv
  <2>7. CASE Finish
    BY <2>7, FinishKeepsInv
  <2>8. CASE UNCHANGED vars
    <3>1. UNCHANGED <<device, distances, undirectedDistances, logicalToPhysical, physicalToLogical,
                      graph, circuit, radius, single, double, routed, final, timestep, swaps, pc>>
      BY <2>8 DEF vars, mappingVars, callVars, routeVars
    <3>. QED
      BY <3>1 DEF RouteInv, CallInv, DeviceInv, PlaceInv, ListInv, SwapInv, RoutedInv, OnEdge, Logical
  <2>. QED
    BY <2>1, <2>2, <2>3, <2>4, <2>5, <2>6, <2>7, <2>8 DEF Next, Route
<1>. QED
  BY <1>1, <1>2, PTL DEF Spec

-----------------------------------------------------------------------------
(* The places in use hang together *)

ReachInv == pc \notin Idle => Reachable(graph, DOMAIN physicalToLogical)

\* The first mapping is the one the mapper returned.
StartInv ==
    pc = "next" /\ timestep = 0 =>
        start = logicalToPhysical /\ (start \in InitialMaps \/ DOMAIN start = AllQubits(circuit))

\* A refusal places nothing.
LEMMA RaiseReaches ==
    ASSUME NEW e \in {"ValueError", "NetworkXError"}, Raise(e)
    PROVE  ReachInv' /\ StartInv'
BY DEF Raise, ReachInv, StartInv, Idle

LEMMA BeginReaches ==
    ASSUME NEW m, Reachable(graph, Places(m)), m \in InitialMaps \/ DOMAIN m = AllQubits(circuit), Begin(m)
    PROVE  ReachInv' /\ StartInv'
<1>1. CASE Raise("ValueError")
  BY <1>1, RaiseReaches
<1>2. CASE NewManager(graph, m) /\ start' = m /\ UNCHANGED callVars
  <2>1. logicalToPhysical' = m /\ physicalToLogical' = Inverted(m) /\ UNCHANGED <<graph, circuit>>
    BY <1>2 DEF NewManager, callVars
  <2>2. DOMAIN Inverted(m) = Places(m)
    BY DEF Inverted, Places
  <2>3. ReachInv'
    BY <2>1, <2>2 DEF ReachInv
  <2>4. StartInv'
    BY <1>2, <2>1 DEF StartInv
  <2>. QED
    BY <2>3, <2>4
<1>. QED
  BY <1>1, <1>2 DEF Begin

\* The line mapper leaves no gap, nor does a caller's mapping.
LEMMA CallReaches ==
    ASSUME RouteInv, Refuse \/ PlaceByCaller \/ PlaceByLine
    PROVE  ReachInv' /\ StartInv'
<1>0. graph \in Devices /\ graph \in SUBSET Edges /\ circuit \in Circuits
  BY DeviceAssumption DEF RouteInv, CallInv
<1>1. CASE Refuse
  BY <1>1, RaiseReaches DEF Refuse
<1>2. CASE PlaceByCaller
  <2>1. PICK m \in InitialMaps : Begin(m)
    BY <1>2 DEF PlaceByCaller
  <2>2. Reachable(graph, Places(m))
    BY <1>0, <2>1, RouteAssumption DEF Places
  <2>. QED
    BY <2>1, <2>2, BeginReaches
<1>3. CASE PlaceByLine
  <2>1. CASE ~HasCenter(graph)
    <3>1. Raise("NetworkXError")
      BY <1>3, <2>1 DEF PlaceByLine
    <3>. QED
      BY <3>1, RaiseReaches
  <2>2. CASE HasCenter(graph)
    <3>1. PICK M : M = InitialMapping(graph, circuit)
      OBVIOUS
    <3>2. IF M.raised # "" THEN Raise(M.raised) ELSE Begin(M.map)
      BY <1>3, <2>2, <3>1 DEF PlaceByLine
    <3>3. /\ M.raised \in {"", "ValueError"}
          /\ M.raised = "" => /\ M.map \in [AllQubits(circuit) -> Physical]
                              /\ Linked(Undirected(graph), Places(M.map))
      BY <1>0, <2>2, <3>1, InitialMappingFacts
    <3>4. CASE M.raised = ""
      <4>1. PICK m, Q : m = M.map /\ Q = AllQubits(circuit)
        OBVIOUS
      <4>2. Begin(m) /\ m \in [Q -> Physical] /\ Linked(Undirected(graph), Places(m))
        BY <3>2, <3>3, <3>4, <4>1
      <4>3. Places(m) \in SUBSET Physical
        BY <4>2 DEF Places
      <4>4. Reachable(graph, Places(m))
        BY <1>0, <4>2, <4>3, LinkedReachable
      <4>. QED
        BY <4>1, <4>2, <4>4, BeginReaches
    <3>5. CASE M.raised = "ValueError"
      <4>1. Raise("ValueError")
        BY <3>2, <3>5
      <4>. QED
        BY <4>1, RaiseReaches
    <3>. QED
      BY <3>3, <3>4, <3>5
  <2>. QED
    BY <2>1, <2>2
<1>. QED
  BY <1>1, <1>2, <1>3

\* Routing moves qubits among the places in use.
LEMMA RouteReaches ==
    ASSUME RouteInv, ReachInv, Route
    PROVE  ReachInv' /\ StartInv'
<1>1. pc \notin Idle /\ UNCHANGED graph
  BY DEF Route, NextTimestep, ProcessExecutable, ChooseSwaps, InsertSwap, SwapsInserted, Finish, Idle, callVars
<1>2. DOMAIN physicalToLogical' = DOMAIN physicalToLogical
  <2>1. CASE InsertSwap
    <3>1. CASE UNCHANGED mappingVars
      BY <3>1 DEF mappingVars
    <3>2. CASE \E q1, q2 : ApplySwap(q1, q2)
      BY <3>2 DEF ApplySwap, Exchanged
    <3>. QED
      BY <2>1, <3>1, <3>2 DEF InsertSwap
  <2>2. CASE NextTimestep \/ ProcessExecutable \/ ChooseSwaps \/ SwapsInserted \/ Finish
    BY <2>2 DEF NextTimestep, ProcessExecutable, ChooseSwaps, SwapsInserted, Finish, mappingVars
  <2>. QED
    BY <2>1, <2>2 DEF Route
<1>3. ReachInv'
  BY <1>1, <1>2 DEF ReachInv
<1>4. ~(pc' = "next" /\ timestep' = 0)
  <2>1. CASE NextTimestep
    BY <2>1 DEF NextTimestep
  <2>2. CASE ProcessExecutable
    <3>1. timestep # 0 /\ timestep' = timestep
      BY <2>2 DEF RouteInv, ListInv, ProcessExecutable
    <3>. QED
      BY <3>1
  <2>3. CASE ChooseSwaps
    BY <2>3 DEF ChooseSwaps, Take
  <2>4. CASE InsertSwap
    BY <2>4 DEF InsertSwap
  <2>5. CASE SwapsInserted
    BY <2>5 DEF SwapsInserted
  <2>6. CASE Finish
    BY <2>6 DEF Finish
  <2>. QED
    BY <2>1, <2>2, <2>3, <2>4, <2>5, <2>6 DEF Route
<1>. QED
  BY <1>3, <1>4 DEF StartInv

LEMMA ReachInvariant == Spec => [](RouteInv /\ ReachInv /\ StartInv)
<1>1. Init => ReachInv /\ StartInv
  BY DEF Init, ReachInv, StartInv, Idle
<1>2. RouteInv /\ ReachInv /\ StartInv /\ [Next]_vars => ReachInv' /\ StartInv'
  <2>. SUFFICES ASSUME RouteInv, ReachInv, StartInv, [Next]_vars PROVE ReachInv' /\ StartInv'
    OBVIOUS
  <2>1. CASE Refuse \/ PlaceByCaller \/ PlaceByLine
    BY <2>1, CallReaches
  <2>2. CASE Route
    BY <2>2, RouteReaches
  <2>3. CASE UNCHANGED vars
    BY <2>3 DEF vars, mappingVars, callVars, routeVars, ReachInv, StartInv
  <2>. QED
    BY <2>1, <2>2, <2>3 DEF Next
<1>. QED
  BY <1>1, <1>2, RouteInvariant, PTL DEF Spec

-----------------------------------------------------------------------------
(* When there is no swap to choose *)

\* Costs have a least one.
LEMMA LeastCost ==
    ASSUME NEW C \in SUBSET (Nat \X Nat), C # {}
    PROVE  \E c \in C : \A d \in C : ~Cheaper(d, c)
<1>1. PICK A : A = {c[1] : c \in C}
  OBVIOUS
<1>2. A \in SUBSET Nat /\ A # {}
  BY <1>1
<1>3. PICK a \in A : \A y \in A : a <= y
  BY <1>2, LeastElement
<1>4. PICK B : B = {c[2] : c \in {d \in C : d[1] = a}}
  OBVIOUS
<1>5. B \in SUBSET Nat /\ B # {}
  BY <1>1, <1>3, <1>4
<1>6. PICK b \in B : \A y \in B : b <= y
  BY <1>5, LeastElement
<1>7. PICK c \in C : c[1] = a /\ c[2] = b
  BY <1>4, <1>6
<1>8. ASSUME NEW d \in C, Cheaper(d, c) PROVE FALSE
  <2>1. a \in Nat /\ b \in Nat /\ d[1] \in Nat /\ d[2] \in Nat /\ a <= d[1]
    BY <1>1, <1>2, <1>3, <1>5, <1>6
  <2>2. d[1] = a => b <= d[2]
    BY <1>4, <1>6
  <2>. QED
    BY <1>7, <1>8, <2>1, <2>2 DEF Cheaper
<1>. QED
  BY <1>8

\* Cheapest leaves something when every cost is a pair of naturals.
LEMMA CheapestNotEmpty ==
    ASSUME NEW sigma, sigma # {}, NEW ops, \A s \in sigma : Cost(s, ops) \in Nat \X Nat
    PROVE  Cheapest(sigma, ops) # {}
<1>. DEFINE costs == {<<s, Cost(s, ops)>> : s \in sigma}
            best == {c[2] : c \in costs}
<1>1. PICK C : C = {Cost(s, ops) : s \in sigma}
  OBVIOUS
<1>2. C \in SUBSET (Nat \X Nat) /\ C # {}
  BY <1>1
<1>3. PICK c \in C : \A d \in C : ~Cheaper(d, c)
  BY <1>2, LeastCost
<1>4. PICK s \in sigma : Cost(s, ops) = c
  BY <1>1, <1>3
<1>5. best \subseteq C
  <2>1. \A e \in costs : \E t \in sigma : e = <<t, Cost(t, ops)>>
    OBVIOUS
  <2>2. \A e \in costs : e[2] \in C
    BY <1>1, <2>1
  <2>. QED
    BY <2>2
<1>6. <<s, c>> \in costs /\ <<s, c>>[2] = c /\ <<s, c>>[1] = s
  BY <1>4
<1>7. \A d \in best : ~Cheaper(d, <<s, c>>[2])
  BY <1>3, <1>5, <1>6
<1>8. s \in Cheapest(sigma, ops)
  <2>1. <<s, c>> \in {e \in costs : \A d \in best : ~Cheaper(d, e[2])}
    <3>. HIDE DEF costs, best
    <3>. QED
      BY <1>6, <1>7
  <2>2. Cheapest(sigma, ops) = {e[1] : e \in {e \in costs : \A d \in best : ~Cheaper(d, e[2])}}
    BY DEF Cheapest
  <2>. HIDE DEF costs, best
  <2>. QED
    BY <1>6, <2>1, <2>2
<1>. QED
  BY <1>8

\* The cost of swaps is a pair of naturals: distances are, and so is their sum.
LEMMA CostFacts ==
    ASSUME RouteInv, pc \notin Idle, NEW s, MapAfter(s) \in [Logical -> Physical],
           NEW ops \in Seq(Doubles(AllQubits(circuit)))
    PROVE  Cost(s, ops) \in Nat \X Nat
<1>. DEFINE dist(i) == UndirectedDistOn(MapAfter(s), ops[i].qubits[1], ops[i].qubits[2])
            Def(f) == f = [n \in 0..Len(ops) |-> IF n = 0 THEN 0 ELSE f[n - 1] + dist(n)]
<1>1. PICK N, qs : N = Len(ops) /\ qs = AllQubits(circuit)
  OBVIOUS
<1>2. N \in Nat /\ DOMAIN ops = 1..N /\ \A i \in 1..N : ops[i] \in Doubles(qs)
  BY <1>1, SeqFacts
<1>3. \A i \in 1..N : dist(i) \in 0..P
  <2>1. ASSUME NEW i \in 1..N PROVE dist(i) \in 0..P
    <3>1. PICK o, f : o = ops[i] /\ f = MapAfter(s)
      OBVIOUS
    <3>2. o \in Operation /\ ToSet(o.qubits) \subseteq qs /\ Len(o.qubits) = 2
      BY <1>2, <3>1 DEF Doubles, OpsOn
    <3>3. qs \subseteq Logical
      BY <1>1 DEF RouteInv, PlaceInv
    <3>4. o.qubits[1] \in Logical /\ o.qubits[2] \in Logical
      BY <3>2, <3>3, PairFacts
    <3>5. f[o.qubits[1]] \in Physical /\ f[o.qubits[2]] \in Physical
      BY <3>1, <3>4
    <3>6. Undirected(device) \in SUBSET Edges
      BY InUse DEF RouteInv
    <3>7. FloydWarshall(Undirected(device))[f[o.qubits[1]]][f[o.qubits[2]]] \in 0..P
      BY <3>5, <3>6, DistanceFacts
    <3>8. undirectedDistances = FloydWarshall(Undirected(device))
      BY DEF RouteInv, DeviceInv
    <3>. QED
      BY <3>1, <3>7, <3>8 DEF UndirectedDistOn
  <2>. QED
    BY <2>1
<1>4. P \in Nat
  BY PhysicalFacts
<1>5. Cost(s, ops) = <<Max({0} \cup {dist(i) : i \in DOMAIN ops}), (CHOOSE f : Def(f))[Len(ops)]>>
  BY DEF Cost
<1>. HIDE DEF dist
<1>6. Max({0} \cup {dist(i) : i \in DOMAIN ops}) \in Nat
  <2>1. PICK S : S = {0} \cup {dist(i) : i \in DOMAIN ops}
    OBVIOUS
  <2>2. S \in SUBSET (0..P) /\ S # {}
    BY <1>2, <1>3, <1>4, <2>1
  <2>3. Max(S) \in S
    BY <1>4, <2>2, MaxFacts
  <2>. QED
    BY <1>4, <2>1, <2>2, <2>3
<1>7. PICK X, F : X = Nat /\ F = [n \in 1..N |-> [x \in X |-> x + dist(n)]]
  OBVIOUS
<1>8. F \in [1..N -> [X -> X]]
  BY <1>3, <1>4, <1>7
<1>9. PICK h : IsLoop(h, X, 0, N, F)
  BY <1>2, <1>7, <1>8, LoopExists
<1>10. Def(h)
  <2>1. h = [n \in 0..N |-> h[n]] /\ h[0] = 0
    BY <1>9 DEF IsLoop
  <2>2. \A n \in 0..N : n # 0 => n \in 1..N /\ n - 1 \in 0..N
    BY <1>2
  <2>3. \A n \in 0..N : n # 0 => h[n - 1] \in X /\ h[n] = F[n][h[n - 1]]
    BY <1>9, <2>2 DEF IsLoop
  <2>4. \A n \in 0..N : n # 0 => h[n] = h[n - 1] + dist(n)
    BY <1>7, <2>2, <2>3
  <2>. QED
    BY <1>1, <2>1, <2>4
<1>11. PICK f : f = CHOOSE b : Def(b)
  OBVIOUS
<1>12. Def(f)
  <2>. HIDE DEF Def
  <2>. QED
    BY <1>10, <1>11
<1>13. f[0] = 0 /\ \A n \in 1..N : f[n] = f[n - 1] + dist(n)
  <2>1. 0 \in 0..N /\ \A n \in 1..N : n \in 0..N /\ n # 0
    BY <1>2
  <2>. QED
    BY <1>1, <1>12, <2>1
<1>14. \A n \in 1..N : f[n - 1] \in X => f[n] = F[n][f[n - 1]]
  BY <1>7, <1>13
<1>15. 0 \in X
  BY <1>7
<1>16. \A n \in 0..N : f[n] \in X
  BY <1>2, <1>8, <1>13, <1>14, <1>15, LoopTyped
<1>17. (CHOOSE b : Def(b))[Len(ops)] \in Nat
  <2>1. N \in 0..N
    BY <1>2
  <2>. HIDE DEF Def
  <2>. QED
    BY <1>1, <1>7, <1>11, <1>16, <2>1
<1>. HIDE DEF Def
<1>. QED
  BY <1>5, <1>6, <1>17

\* Swaps of logical qubits leave every qubit at a place.
LEMMA MapAfterFacts ==
    ASSUME RouteInv, pc \notin Idle, timestep # 0, NEW s \in SingleSwaps \cup PairsOfSwaps
    PROVE  MapAfter(s) \in [Logical -> Physical]
<1>1. PICK f, A : f = logicalToPhysical /\ A = Logical
  OBVIOUS
<1>2. f \in [A -> Physical]
  BY <1>1 DEF RouteInv, PlaceInv
<1>3. \A m \in [A -> Physical] : \A a, b \in A : Exchanged(m, a, b) \in [A -> Physical]
  BY DEF Exchanged
<1>4. \A c \in CandidateSwaps : c.swap[1] \in A /\ c.swap[2] \in A
  BY <1>1, CandidateFacts DEF RouteInv
<1>5. CASE s \in SingleSwaps
  <2>1. PICK c \in CandidateSwaps : s = <<c.swap>>
    BY <1>5 DEF SingleSwaps
  <2>2. Len(s) = 1 /\ s[1] = c.swap
    BY <2>1
  <2>3. MapAfter(s) = Exchanged(f, c.swap[1], c.swap[2])
    BY <1>1, <2>2 DEF MapAfter
  <2>. QED
    BY <1>1, <1>2, <1>3, <1>4, <2>3
<1>6. CASE s \in PairsOfSwaps
  <2>1. PICK c \in CandidateSwaps, d \in CandidateSwaps : s = <<c.swap, d.swap>>
    BY <1>6 DEF PairsOfSwaps
  <2>2. Len(s) # 1 /\ s[1] = c.swap /\ s[2] = d.swap
    BY <2>1
  <2>3. PICK m : m = Exchanged(f, c.swap[1], c.swap[2])
    OBVIOUS
  <2>4. MapAfter(s) = Exchanged(m, d.swap[1], d.swap[2])
    BY <1>1, <2>2, <2>3 DEF MapAfter
  <2>5. m \in [A -> Physical]
    BY <1>2, <1>3, <1>4, <2>3
  <2>. QED
    BY <1>1, <1>3, <1>4, <2>4, <2>5
<1>. QED
  BY <1>5, <1>6

\* Where there are candidates, some are left.
LEMMA OptimalNotEmpty ==
    ASSUME RouteInv, pc \notin Idle, timestep # 0, NEW sigma, sigma \subseteq SingleSwaps \cup PairsOfSwaps, sigma # {}
    PROVE  Optimal(sigma) # {}
<1>1. CallInv /\ ListInv
  BY DEF RouteInv
<1>2. PICK N : N = Far
  OBVIOUS
<1>3. N \in Nat /\ \A n \in 1..N : timestep + n - 1 \in 1..Len(double)
  BY <1>1, <1>2, FarFacts
<1>4. PICK f : /\ f[0] = sigma /\ Optimal(sigma) = f[N]
               /\ \A n \in 1..N : f[n] = Narrowed(f[n - 1], n)
               /\ \A n \in 0..N : f[n] \in SUBSET sigma
  BY <1>1, <1>2, OptimalSubset
<1>. DEFINE Good == {n \in 0..N : f[n] # {}}
<1>5. 0 \in Good
  BY <1>3, <1>4
<1>6. ASSUME NEW n \in 1..N, n - 1 \in Good PROVE n \in Good
  <2>1. PICK s, ops : s = f[n - 1] /\ ops = double[timestep + n - 1]
    OBVIOUS
  <2>2. n - 1 \in 0..N /\ n \in 0..N
    BY <1>3
  <2>3. s # {} /\ s \subseteq sigma
    BY <1>4, <1>6, <2>1, <2>2
  <2>4. ops \in Seq(Doubles(AllQubits(circuit)))
    <3>1. PICK S : S = Seq(Doubles(AllQubits(circuit)))
      OBVIOUS
    <3>2. double \in Seq(S)
      BY <1>1, <3>1 DEF ListInv
    <3>. QED
      BY <1>3, <2>1, <3>1, <3>2
  <2>5. \A t \in s : Cost(t, ops) \in Nat \X Nat
    BY <2>3, <2>4, CostFacts, MapAfterFacts
  <2>6. Cheapest(s, ops) # {}
    BY <2>3, <2>5, CheapestNotEmpty
  <2>7. Narrowed(s, n) # {}
    BY <2>1, <2>3, <2>6 DEF Narrowed
  <2>. QED
    BY <1>4, <2>1, <2>2, <2>7
<1>7. N \in Good
  <2>1. N \in 0..N
    BY <1>3
  <2>. HIDE DEF Good
  <2>. QED
    BY <1>3, <1>5, <1>6, <2>1, TurnInduction
<1>. QED
  BY <1>4, <1>7

\* The places of the qubits that wait, and the edges at them.
WaitingPlaces == {logicalToPhysical[Waiting[k]] : k \in DOMAIN Waiting}
WaitingEdges == {{e[1], e[2]} : e \in {d \in Undirected(device) : d[1] \in WaitingPlaces}}

\* The two places of a candidate.
EndsOf(c) == {logicalToPhysical[c.swap[1]], logicalToPhysical[c.swap[2]]}

\* Every edge at a qubit that waits is a candidate, from the first such qubit.
LEMMA EdgeCandidate ==
    ASSUME RouteInv, pc \notin Idle, timestep # 0, NEW e \in WaitingEdges
    PROVE  \E c \in CandidateSwaps : EndsOf(c) = e
<1>. DEFINE at(k) == logicalToPhysical[Waiting[k]]
<1>1. PICK u, h : u = Undirected(device) /\ h = physicalToLogical
  OBVIOUS
<1>2. u \in SUBSET Edges /\ \A a, b : <<a, b>> \in u => a \in DOMAIN h /\ b \in DOMAIN h /\ <<b, a>> \in u
  <2>1. device \in SUBSET Edges /\ u \in SUBSET Edges /\ \A a, b : <<a, b>> \in u => a \in DOMAIN h /\ b \in DOMAIN h
    BY <1>1, InUse DEF RouteInv
  <2>2. \A a, b : <<a, b>> \in u => <<b, a>> \in u
    BY <1>1, <2>1, GraphFacts
  <2>. QED
    BY <2>1, <2>2
<1>3. PICK d \in u : d[1] \in WaitingPlaces /\ e = {d[1], d[2]}
  BY <1>1 DEF WaitingEdges
<1>4. PICK x, y : x = d[1] /\ y = d[2]
  OBVIOUS
<1>5. <<x, y>> \in u /\ <<y, x>> \in u /\ x # y /\ e = {x, y}
  BY <1>2, <1>3, <1>4, EdgeFacts
<1>6. PICK K : K = {k \in DOMAIN Waiting : at(k) \in e}
  OBVIOUS
<1>7. DOMAIN Waiting = 1..(2 * Len(double[timestep])) /\ Len(double[timestep]) \in Nat
  <2>1. Len(double[timestep]) \in Nat
    BY CurrentOps DEF RouteInv
  <2>. QED
    BY <2>1 DEF Waiting
<1>8. K \in SUBSET Nat /\ K # {}
  BY <1>3, <1>6, <1>7 DEF WaitingPlaces
<1>9. PICK k \in K : \A j \in K : k <= j
  BY <1>8, LeastElement
<1>10. PICK p : p = IF at(k) = x THEN y ELSE x
  OBVIOUS
<1>11. k \in DOMAIN Waiting /\ at(k) \in {x, y} /\ p \in {x, y} /\ at(k) # p /\ e = {at(k), p} /\ <<at(k), p>> \in u
  BY <1>5, <1>6, <1>9, <1>10
<1>12. p \in DOMAIN h
  BY <1>2, <1>11
<1>13. ASSUME NEW j \in 1..(k - 1) PROVE at(j) # p
  <2>1. j \in DOMAIN Waiting /\ ~(k <= j)
    BY <1>7, <1>11
  <2>2. j \notin K
    BY <1>9, <2>1
  <2>. QED
    BY <1>6, <1>11, <2>1, <2>2
<1>14. PICK c : c = [from |-> k, swap |-> <<Waiting[k], h[p]>>]
  OBVIOUS
<1>15. c \in CandidateSwaps
  <2>. DEFINE ends(i) == {q \in DOMAIN physicalToLogical :
                              <<at(i), q>> \in Undirected(device) /\ \A j \in 1..(i - 1) : at(j) # q}
              from(i) == {[from |-> i, swap |-> <<Waiting[i], physicalToLogical[q]>>] : q \in ends(i)}
  <2>1. p \in ends(k)
    BY <1>1, <1>11, <1>12, <1>13
  <2>2. c \in from(k)
    BY <1>1, <1>14, <2>1
  <2>3. CandidateSwaps = UNION {from(i) : i \in DOMAIN Waiting}
    BY DEF CandidateSwaps
  <2>. HIDE DEF ends, from
  <2>. QED
    BY <1>11, <2>2, <2>3
<1>16. logicalToPhysical[h[p]] = p
  BY <1>1, <1>12 DEF RouteInv, PlaceInv, Inverse2
<1>17. EndsOf(c) = e
  BY <1>11, <1>14, <1>16 DEF EndsOf
<1>. QED
  BY <1>15, <1>17

\* A candidate is such an edge, and different candidates are different edges.
LEMMA CandidateEdge ==
    ASSUME RouteInv, pc \notin Idle, timestep # 0, NEW c \in CandidateSwaps, NEW d \in CandidateSwaps
    PROVE  EndsOf(c) \in WaitingEdges /\ (EndsOf(c) = EndsOf(d) => c.swap = d.swap)
<1>. DEFINE f == logicalToPhysical
<1>1. /\ \A b \in {c, d} : /\ b.swap = <<b.swap[1], b.swap[2]>> /\ b.swap[1] \in Logical /\ b.swap[2] \in Logical
                           /\ <<f[b.swap[1]], f[b.swap[2]]>> \in Undirected(device)
                           /\ b.from \in DOMAIN Waiting /\ b.swap[1] = Waiting[b.from]
                           /\ \A j \in 1..(b.from - 1) : f[Waiting[j]] # f[b.swap[2]]
  BY CandidateFacts DEF RouteInv
<1>2. PICK k, x, y : k = c.from /\ x = f[c.swap[1]] /\ y = f[c.swap[2]]
  OBVIOUS
<1>3. PICK j, v, w : j = d.from /\ v = f[d.swap[1]] /\ w = f[d.swap[2]]
  OBVIOUS
<1>4. <<x, y>> \in Undirected(device) /\ <<v, w>> \in Undirected(device)
  BY <1>1, <1>2, <1>3
<1>5. k \in DOMAIN Waiting /\ j \in DOMAIN Waiting /\ x = f[Waiting[k]] /\ v = f[Waiting[j]]
  BY <1>1, <1>2, <1>3
<1>6. EndsOf(c) = {x, y} /\ EndsOf(d) = {v, w}
  BY <1>2, <1>3 DEF EndsOf
<1>7. EndsOf(c) \in WaitingEdges
  <2>1. x \in WaitingPlaces
    BY <1>5 DEF WaitingPlaces
  <2>2. PICK e : e = <<x, y>>
    OBVIOUS
  <2>3. e \in Undirected(device) /\ e[1] \in WaitingPlaces /\ {e[1], e[2]} = {x, y}
    BY <1>4, <2>1, <2>2
  <2>. QED
    BY <1>6, <2>3 DEF WaitingEdges
<1>8. x # y /\ v # w
  <2>1. Undirected(device) \in SUBSET Edges
    BY InUse DEF RouteInv
  <2>. QED
    BY <1>4, <2>1, EdgeFacts
<1>9. DOMAIN Waiting = 1..(2 * Len(double[timestep])) /\ Len(double[timestep]) \in Nat
  <2>1. Len(double[timestep]) \in Nat
    BY CurrentOps DEF RouteInv
  <2>. QED
    BY <2>1 DEF Waiting
<1>10. k \in Nat /\ j \in Nat /\ (k < j => k \in 1..(j - 1)) /\ (j < k => j \in 1..(k - 1))
  BY <1>5, <1>9
<1>11. (\A i \in 1..(k - 1) : f[Waiting[i]] # y) /\ (\A i \in 1..(j - 1) : f[Waiting[i]] # w)
  BY <1>1, <1>2, <1>3
<1>12. ~(x = w /\ y = v)
  <2>1. CASE k = j
    BY <1>5, <1>8, <2>1
  <2>2. CASE k < j
    BY <1>5, <1>10, <1>11, <2>2
  <2>3. CASE j < k
    BY <1>5, <1>10, <1>11, <2>3
  <2>. QED
    BY <1>10, <2>1, <2>2, <2>3
<1>13. ASSUME EndsOf(c) = EndsOf(d) PROVE c.swap = d.swap
  <2>1. x = v /\ y = w
    BY <1>6, <1>8, <1>12, <1>13
  <2>2. \A a, b \in Logical : f[a] = f[b] => a = b
    BY DEF RouteInv, PlaceInv, Inverse2, Logical
  <2>3. c.swap[1] = d.swap[1] /\ c.swap[2] = d.swap[2]
    BY <1>1, <1>2, <1>3, <2>1, <2>2
  <2>. QED
    BY <1>1, <2>3
<1>. QED
  BY <1>7, <1>13

\* A place from which another is reached has an edge.
LEMMA PlaceHasEdge ==
    ASSUME NEW g \in SUBSET Edges, NEW x \in Physical, NEW y \in Physical, x # y, FloydWarshall(g)[x][y] < P
    PROVE  \E z : <<x, z>> \in g
<1>. SUFFICES ASSUME \A z : <<x, z>> \notin g PROVE FALSE
  OBVIOUS
<1>. DEFINE Good == {k \in 0..P : Ball(g, x, k) = {x}}
<1>1. P \in Nat
  BY PhysicalFacts
<1>2. 0 \in Good
  BY <1>1, BallRecursion
<1>3. ASSUME NEW k \in 1..P, k - 1 \in Good PROVE k \in Good
  <2>1. Ball(g, x, k - 1) = {x} /\ k \in 0..P
    BY <1>1, <1>3
  <2>2. Ball(g, x, k) = Around(g, {x})
    <3>1. Ball(g, x, k) = Around(g, Ball(g, x, k - 1))
      BY BallRecursion
    <3>. QED
      BY <2>1, <3>1
  <2>3. \A z : z \in Around(g, {x}) <=> z \in {x}
    <3>1. \A z : z \in Around(g, {x}) <=> z \in {x} \/ \E b \in {x} : <<b, z>> \in g
      BY AroundFacts
    <3>. QED
      BY <3>1
  <2>4. Around(g, {x}) = {x}
    BY <2>3
  <2>. QED
    BY <2>1, <2>2, <2>4
<1>4. 0..P \subseteq Good
  <2>. HIDE DEF Good
  <2>. QED
    BY <1>1, <1>2, <1>3, TurnInduction
<1>5. PICK D : D = FloydWarshall(g)[x][y]
  OBVIOUS
<1>6. D \in 0..P /\ y \in Ball(g, x, D)
  BY <1>5, DistanceFacts
<1>. QED
  BY <1>4, <1>6

\* While an operation waits there is a candidate, because its qubits are at two places
\* that can be reached from each other.
LEMMA CandidateExists ==
    ASSUME RouteInv, ReachInv, pc \notin Idle, timestep # 0, double[timestep] # << >>
    PROVE  CandidateSwaps # {}
<1>1. PICK ops, L, f, h : ops = double[timestep] /\ L = Len(ops) /\ f = logicalToPhysical /\ h = physicalToLogical
  OBVIOUS
<1>2. ops \in Seq(Doubles(AllQubits(circuit)))
  BY <1>1, CurrentOps DEF RouteInv
<1>3. L \in Nat /\ L >= 1 /\ ops[1] \in Doubles(AllQubits(circuit))
  BY <1>1, <1>2
<1>4. PICK o : o = ops[1]
  OBVIOUS
<1>5. o \in Operation /\ ToSet(o.qubits) \subseteq AllQubits(circuit) /\ Len(o.qubits) = 2 /\ o.qubits[1] # o.qubits[2]
  <2>1. o \in Operation /\ ToSet(o.qubits) \subseteq AllQubits(circuit) /\ Len(o.qubits) = 2 /\ OnDistinctQubits(o)
    BY <1>3, <1>4 DEF Doubles, OpsOn
  <2>2. o.qubits \in Seq(Nat)
    BY <2>1 DEF Operation
  <2>3. 1 \in DOMAIN o.qubits /\ 2 \in DOMAIN o.qubits /\ 1 # 2
    BY <2>1, <2>2
  <2>. QED
    BY <2>1, <2>3 DEF OnDistinctQubits
<1>6. PICK a, b : a = o.qubits[1] /\ b = o.qubits[2]
  OBVIOUS
<1>7. a \in Logical /\ b \in Logical /\ a # b
  <2>1. AllQubits(circuit) \subseteq Logical
    BY DEF RouteInv, PlaceInv
  <2>. QED
    BY <1>5, <1>6, <2>1, PairFacts
<1>8. /\ f[a] \in DOMAIN h /\ f[b] \in DOMAIN h /\ f[a] # f[b] /\ f[a] \in Physical /\ f[b] \in Physical
  BY <1>1, <1>7 DEF RouteInv, PlaceInv, Inverse2, Logical
<1>9. Undirected(device) \in SUBSET Edges
  BY InUse DEF RouteInv
<1>10. FloydWarshall(Undirected(device))[f[a]][f[b]] < P
  BY <1>1, <1>8 DEF ReachInv, Reachable, RouteInv, DeviceInv
<1>11. PICK z : <<f[a], z>> \in Undirected(device)
  BY <1>8, <1>9, <1>10, PlaceHasEdge
<1>12. f[a] \in WaitingPlaces
  <2>1. Waiting = [k \in 1..(2 * L) |-> ops[(k + 1) \div 2].qubits[2 - (k % 2)]]
    BY <1>1 DEF Waiting
  <2>2. 1 \in 1..(2 * L) /\ (1 + 1) \div 2 = 1 /\ 2 - (1 % 2) = 1
    BY <1>3
  <2>3. 1 \in DOMAIN Waiting /\ Waiting[1] = a
    BY <1>4, <1>6, <2>1, <2>2
  <2>. QED
    BY <1>1, <2>3 DEF WaitingPlaces
<1>13. PICK e : e = <<f[a], z>>
  OBVIOUS
<1>14. e \in Undirected(device) /\ e[1] \in WaitingPlaces
  BY <1>11, <1>12, <1>13
<1>15. {e[1], e[2]} \in WaitingEdges
  BY <1>14 DEF WaitingEdges
<1>. QED
  BY <1>15, EdgeCandidate

\* Two edges without a common place make a pair of swaps.
LEMMA PairExists ==
    ASSUME RouteInv, pc \notin Idle, timestep # 0, NEW e \in WaitingEdges, NEW f \in WaitingEdges, e \cap f = {}
    PROVE  PairsOfSwaps # {}
<1>1. PICK c \in CandidateSwaps : EndsOf(c) = e
  BY EdgeCandidate
<1>2. PICK d \in CandidateSwaps : EndsOf(d) = f
  BY EdgeCandidate
<1>3. \A b \in {c, d} : /\ ToSet(b.swap) = {b.swap[1], b.swap[2]}
                        /\ b.from \in DOMAIN Waiting /\ b.swap[1] = Waiting[b.from]
  BY CandidateFacts DEF RouteInv
<1>4. ToSet(c.swap) \cap ToSet(d.swap) = {}
  BY <1>1, <1>2, <1>3 DEF EndsOf
<1>5. c.from # d.from
  BY <1>3, <1>4
<1>6. c.from \in Nat /\ d.from \in Nat
  <2>1. Len(double[timestep]) \in Nat
    BY CurrentOps DEF RouteInv
  <2>2. DOMAIN Waiting = 1..(2 * Len(double[timestep]))
    BY DEF Waiting
  <2>. QED
    BY <1>3, <2>1, <2>2
<1>7. CASE c.from < d.from
  <2>1. <<c.swap, d.swap>> \in PairsOfSwaps
    BY <1>4, <1>7 DEF PairsOfSwaps
  <2>. QED
    BY <2>1
<1>8. CASE d.from < c.from
  <2>1. <<d.swap, c.swap>> \in PairsOfSwaps
    BY <1>4, <1>8 DEF PairsOfSwaps
  <2>. QED
    BY <2>1
<1>. QED
  BY <1>5, <1>6, <1>7, <1>8

\* In the state in which _choose_optimal_swap finds an empty list, it could look no
\* further, and there are several edges at the qubits that wait, any two of which meet.
Stuck == LooksFar /\ Cardinality(WaitingEdges) > 1 /\ \A e, f \in WaitingEdges : e \cap f # {}

\* A swap is only looked for while an operation waits.
WaitInv == pc = "choose" => double[timestep] # << >>
IndexInv == pc = "IndexError" => Stuck

\* A set with more than one element has two.
LEMMA TwoElements ==
    ASSUME NEW S, Cardinality(S) > 1
    PROVE  \E x, y \in S : x # y
<1>1. S # {}
  BY FS_EmptySet
<1>2. PICK x \in S : TRUE
  BY <1>1
<1>3. S # {x}
  BY FS_Singleton
<1>. QED
  BY <1>2, <1>3

\* And the other way round.
LEMMA MoreThanOne ==
    ASSUME NEW S, IsFiniteSet(S), NEW x \in S, NEW y \in S, x # y
    PROVE  Cardinality(S) > 1
<1>1. IsFiniteSet({x}) /\ Cardinality({x}) = 1
  BY FS_Singleton
<1>2. {x} \subseteq S /\ {x} # S
  OBVIOUS
<1>3. Cardinality({x}) <= Cardinality(S) /\ (Cardinality(S) = Cardinality({x}) => S = {x})
  BY <1>2, FS_Subset
<1>4. Cardinality(S) \in Nat
  BY FS_CardinalityType
<1>. QED
  BY <1>1, <1>2, <1>3, <1>4

\* There are finitely many edges at the qubits that wait.
LEMMA WaitingEdgesFinite ==
    ASSUME RouteInv
    PROVE  IsFiniteSet(WaitingEdges)
<1>1. PICK E : E = {d \in Undirected(device) : d[1] \in WaitingPlaces}
  OBVIOUS
<1>2. Undirected(device) \in SUBSET Edges
  BY InUse DEF RouteInv
<1>3. IsFiniteSet(E)
  <2>1. E \in SUBSET Edges
    BY <1>1, <1>2
  <2>. QED
    BY <2>1, PhysicalFacts
<1>4. PICK h : h = [e \in E |-> {e[1], e[2]}]
  OBVIOUS
<1>5. h \in Surjection(E, WaitingEdges)
  BY <1>1, <1>4 DEF Surjection, WaitingEdges
<1>. QED
  BY <1>3, <1>5, FS_Surjection

\* What the code finds when it looks for the first of an empty list.
LEMMA EmptyChoice ==
    ASSUME RouteInv, ReachInv, WaitInv, pc = "choose", NEW one, one = Optimal(SingleSwaps),
           (IF IsNone(one) THEN Optimal(PairsOfSwaps) ELSE one) = {}
    PROVE  Stuck
<1>1. pc \notin Idle /\ timestep # 0 /\ double[timestep] # << >>
  BY DEF Idle, RouteInv, ListInv, WaitInv
<1>2. SingleSwaps # {}
  <2>1. PICK c \in CandidateSwaps : TRUE
    BY <1>1, CandidateExists
  <2>2. <<c.swap>> \in SingleSwaps
    BY DEF SingleSwaps
  <2>. QED
    BY <2>2
<1>3. one # {}
  BY <1>1, <1>2, OptimalNotEmpty
<1>4. IsNone(one) /\ Optimal(PairsOfSwaps) = {}
  BY <1>3
<1>5. LooksFar /\ Cardinality(one) > 1
  BY <1>4 DEF IsNone
<1>6. PairsOfSwaps = {}
  BY <1>1, <1>4, OptimalNotEmpty
<1>7. \A e, f \in WaitingEdges : e \cap f # {}
  BY <1>1, <1>6, PairExists
<1>8. PICK s \in one, t \in one : s # t
  BY <1>5, TwoElements
<1>9. one \subseteq SingleSwaps
  <2>1. CallInv /\ ListInv
    BY DEF RouteInv
  <2>2. PICK f : Optimal(SingleSwaps) = f[Far] /\ \A n \in 0..Far : f[n] \in SUBSET SingleSwaps
    BY <1>1, <2>1, OptimalSubset
  <2>3. Far \in 0..Far
    <3>1. Far \in Nat
      BY <1>1, <2>1, FarFacts
    <3>. QED
      BY <3>1
  <2>. QED
    BY <2>2, <2>3
<1>10. PICK c \in CandidateSwaps : s = <<c.swap>>
  BY <1>8, <1>9 DEF SingleSwaps
<1>11. PICK d \in CandidateSwaps : t = <<d.swap>>
  BY <1>8, <1>9 DEF SingleSwaps
<1>12. c.swap # d.swap
  BY <1>8, <1>10, <1>11
<1>13. EndsOf(c) \in WaitingEdges /\ EndsOf(d) \in WaitingEdges /\ EndsOf(c) # EndsOf(d)
  BY <1>1, <1>12, CandidateEdge
<1>14. Cardinality(WaitingEdges) > 1
  BY <1>13, WaitingEdgesFinite, MoreThanOne
<1>. QED
  BY <1>5, <1>7, <1>14 DEF Stuck

\* The choice leaves everything as it is but the chosen swaps.
LEMMA ChooseSwapsExplains ==
    ASSUME RouteInv, ReachInv, WaitInv, ChooseSwaps
    PROVE  WaitInv' /\ IndexInv'
<1>1. pc = "choose" /\ UNCHANGED <<mappingVars, callVars, double, timestep>>
  BY DEF ChooseSwaps
<1>2. UNCHANGED <<device, logicalToPhysical, radius, double, timestep>>
  BY <1>1 DEF mappingVars, callVars
<1>3. PICK one, best : /\ one = Optimal(SingleSwaps) /\ best = IF IsNone(one) THEN Optimal(PairsOfSwaps) ELSE one
                       /\ \/ ~IsNone(best) /\ \E chosen \in best : Take(chosen)
                          \/ IsNone(best) /\ swaps' \in BruteForceSwaps /\ pc' = "swap" /\ UNCHANGED seen
                          \/ best = {} /\ pc' = "IndexError" /\ UNCHANGED <<swaps, seen>>
  BY DEF ChooseSwaps
<1>4. pc' = "swap" \/ (best = {} /\ pc' = "IndexError")
  BY <1>3 DEF Take
<1>5. best = {} => Stuck
  BY <1>1, <1>3, EmptyChoice
<1>6. Stuck' <=> Stuck
  BY <1>2 DEF Stuck, LooksFar, WaitingEdges, WaitingPlaces, Waiting
<1>. QED
  BY <1>4, <1>5, <1>6 DEF WaitInv, IndexInv

\* Operations are left when not all of them have been taken.
LEMMA ProcessExecutableLeaves ==
    ASSUME RouteInv, ProcessExecutable
    PROVE  WaitInv' /\ IndexInv'
<1>1. PICK ops, near, left : /\ ops = double[timestep] /\ near = {i \in DOMAIN ops : Executable(ops[i])}
                             /\ left = Select(ops, DOMAIN ops \ near)
  OBVIOUS
<1>2. /\ pc = "process" /\ pc' = IF near = DOMAIN ops THEN "next" ELSE "choose"
      /\ double' = [double EXCEPT ![timestep] = left] /\ timestep' = timestep
  BY <1>1 DEF ProcessExecutable
<1>3. timestep # 0
  BY <1>2 DEF RouteInv, ListInv
<1>4. timestep \in 1..Len(double) /\ ops \in Seq(Doubles(AllQubits(circuit))) /\ double \in Seq(Seq(Doubles(AllQubits(circuit))))
  BY <1>1, <1>3, CurrentOps DEF RouteInv, ListInv
<1>5. double'[timestep'] = left
  <2>1. timestep \in DOMAIN double
    BY <1>4
  <2>. QED
    BY <1>2, <2>1
<1>6. ASSUME near # DOMAIN ops PROVE left # << >>
  <2>1. PICK i \in DOMAIN ops : i \in DOMAIN ops \ near
    BY <1>1, <1>6
  <2>2. ops[i] \in ToSet(left)
    BY <1>1, <1>4, <2>1, SelectElements
  <2>3. ToSet(<< >>) = {}
    BY NothingInSeq
  <2>. QED
    BY <2>2, <2>3
<1>. QED
  BY <1>2, <1>5, <1>6 DEF WaitInv, IndexInv

LEMMA ExceptionInvariant == Spec => [](RouteInv /\ ReachInv /\ WaitInv /\ IndexInv)
<1>1. Init => WaitInv /\ IndexInv
  BY DEF Init, WaitInv, IndexInv
<1>2. RouteInv /\ ReachInv /\ WaitInv /\ IndexInv /\ [Next]_vars => WaitInv' /\ IndexInv'
  <2>. SUFFICES ASSUME RouteInv, ReachInv, WaitInv, IndexInv, [Next]_vars PROVE WaitInv' /\ IndexInv'
    OBVIOUS
  <2>1. CASE Refuse
    BY <2>1 DEF Refuse, Raise, WaitInv, IndexInv
  <2>2. CASE PlaceByCaller
    BY <2>2 DEF PlaceByCaller, Begin, Raise, WaitInv, IndexInv
  <2>3. CASE PlaceByLine
    <3>1. CASE ~HasCenter(graph)
      BY <2>3, <3>1 DEF PlaceByLine, Raise, WaitInv, IndexInv
    <3>2. CASE HasCenter(graph)
      <4>1. PICK M : M = InitialMapping(graph, circuit)
        OBVIOUS
      <4>2. IF M.raised # "" THEN Raise(M.raised) ELSE Begin(M.map)
        BY <2>3, <3>2, <4>1 DEF PlaceByLine
      <4>3. M.raised \in {"", "ValueError"}
        <5>1. graph \in SUBSET Edges /\ circuit \in Circuits
          BY DeviceAssumption DEF RouteInv, CallInv
        <5>. QED
          BY <3>2, <4>1, <5>1, InitialMappingFacts
      <4>. QED
        BY <4>2, <4>3 DEF Begin, Raise, WaitInv, IndexInv
    <3>. QED
      BY <3>1, <3>2
  <2>4. CASE NextTimestep
    BY <2>4 DEF NextTimestep, WaitInv, IndexInv
  <2>5. CASE ProcessExecutable
    BY <2>5, ProcessExecutableLeaves
  <2>6. CASE ChooseSwaps
    BY <2>6, ChooseSwapsExplains
  <2>7. CASE InsertSwap
    BY <2>7 DEF InsertSwap, WaitInv, IndexInv
  <2>8. CASE SwapsInserted
    BY <2>8 DEF SwapsInserted, WaitInv, IndexInv
  <2>9. CASE Finish
    BY <2>9 DEF Finish, WaitInv, IndexInv
  <2>10. CASE UNCHANGED vars
    <3>1. UNCHANGED <<device, logicalToPhysical, radius, double, timestep, pc>>
      BY <2>10 DEF vars, mappingVars, callVars, routeVars
    <3>2. Stuck' <=> Stuck
      BY <3>1 DEF Stuck, LooksFar, WaitingEdges, WaitingPlaces, Waiting
    <3>. QED
      BY <3>1, <3>2 DEF WaitInv, IndexInv
  <2>. QED
    BY <2>1, <2>2, <2>3, <2>4, <2>5, <2>6, <2>7, <2>8, <2>9, <2>10 DEF Next, Route
<1>. QED
  BY <1>1, <1>2, ReachInvariant, PTL DEF Spec


-----------------------------------------------------------------------------
(* The theorems *)

\* The maps name qubits and places, there are as many lists of operations of either
\* kind as timesteps, and no timestep after the last is reached.
THEOREM RoutingTypeCorrect == Spec => []TypeOK
<1>1. RouteInv => TypeOK
  <2>. SUFFICES ASSUME RouteInv PROVE TypeOK
    OBVIOUS
  <2>1. device \in SUBSET Edges
    BY InUse DEF RouteInv
  <2>2. MappingTypeOK
    BY <2>1 DEF RouteInv, PlaceInv, MappingTypeOK
  <2>. QED
    BY <2>2 DEF RouteInv, CallInv, ListInv, TypeOK
<1>. QED
  BY <1>1, RouteInvariant, PTL

\* Whatever mapping routing begins with and whatever swaps it inserts, the two arrays
\* of the mapping manager are inverse to each other.
THEOREM MapsStayInverse == Spec => []MapsAreInverse
<1>1. RouteInv => MapsAreInverse
  BY DEF RouteInv, PlaceInv, Inverse2, MapsAreInverse, Logical
<1>. QED
  BY <1>1, RouteInvariant, PTL

\* On every device, directed or not, every gate on two qubits that is routed is on an
\* edge, and in the final circuit along it.
THEOREM RoutedStaysOnEdges == Spec => []RoutedOpsOnEdges
<1>1. RouteInv => RoutedOpsOnEdges
  <2>. SUFFICES ASSUME RouteInv PROVE RoutedOpsOnEdges
    OBVIOUS
  <2>1. \A op \in ToSet(routed) : OnEdge(op)
    BY DEF RouteInv, RoutedInv
  <2>2. \A op \in ToSet(final) : Len(op.qubits) = 2 => op.qubits \in device
    BY DEF RouteInv, RoutedInv
  <2>. QED
    BY <2>1, <2>2 DEF RoutedOpsOnEdges, OnEdge
<1>. QED
  BY <1>1, RouteInvariant, PTL

\* The line mapper places every qubit of the circuit at a place of its own, and no
\* qubit is cut off from another, on every connected device and for every circuit.
THEOREM PlacementsFit == Spec => []PlacementFits
<1>1. RouteInv /\ ReachInv /\ StartInv => PlacementFits
  <2>. SUFFICES ASSUME RouteInv, ReachInv, StartInv, pc = "next", timestep = 0, start \notin InitialMaps
                PROVE  /\ DOMAIN start = AllQubits(circuit)
                       /\ \A p, q \in DOMAIN start : start[p] = start[q] => p = q
                       /\ \A p, q \in DOMAIN start : UndirectedDistOn(start, p, q) < P
    BY DEF PlacementFits
  <2>1. start = logicalToPhysical /\ DOMAIN start = AllQubits(circuit) /\ pc \notin Idle
    BY DEF StartInv, Idle
  <2>2. \A q \in DOMAIN start : start[q] \in DOMAIN physicalToLogical /\ physicalToLogical[start[q]] = q
    BY <2>1 DEF RouteInv, PlaceInv, Inverse2
  <2>3. \A x, y \in DOMAIN physicalToLogical : undirectedDistances[x][y] < P
    BY <2>1 DEF RouteInv, DeviceInv, ReachInv, Reachable
  <2>. QED
    BY <2>1, <2>2, <2>3 DEF UndirectedDistOn
<1>. QED
  BY <1>1, ReachInvariant, PTL

\* The line mapper never misses a partner's place, no swap is refused, and the lookup
\* in an empty list of swaps happens only in the situation the property describes.
THEOREM ExceptionsHaveReasons == Spec => []ExceptionsAreExplained
<1>1. RouteInv /\ IndexInv => ExceptionsAreExplained
  <2>. SUFFICES ASSUME RouteInv, IndexInv PROVE ExceptionsAreExplained
    OBVIOUS
  <2>1. pc \notin {"KeyError", "SwapRefused"}
    BY DEF RouteInv, CallInv
  <2>2. pc = "IndexError" => Stuck
    BY DEF IndexInv
  <2>. QED
    BY <2>1, <2>2 DEF ExceptionsAreExplained, Stuck, WaitingEdges, WaitingPlaces
<1>. QED
  BY <1>1, ExceptionInvariant, PTL
=============================================================================
