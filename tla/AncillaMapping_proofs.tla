------------------------ MODULE AncillaMapping_proofs ------------------------
(***************************************************************************)
(* The pool of GreedyQubitManager is always partitioned into the qubits in *)
(* use and the free ones, for pools of any size and both strategies.       *)
(*                                                                         *)
(* Proofs about map_clean_and_borrowable_qubits: for every circuit, pool   *)
(* and strategy of the manager no assertion fails, no two temporary qubits *)
(* hold one qubit, and nothing comes into a loan.                          *)
(*                                                                         *)
(* The invariant MapInv says where each temporary qubit is in its life: it *)
(* has a mapping from the first operation the loop has seen (Begun) to the *)
(* last one expected (Expected), it is in to_free from then on, and it is  *)
(* freed before an operation of a later moment is placed (SpanInv); what   *)
(* it holds is in nobody else's hands and idle until its last moment       *)
(* (LoanInv).  MappedInv and ExclusiveInv say the same of the operations   *)
(* that were emitted.                                                      *)
(***************************************************************************)
EXTENDS AncillaMapping, SequenceTheorems, WellFoundedInduction, TLAPS

----------------------------------------------------------------------------
(* The pool of the manager *)

PoolInv == PoolTypes /\ PoolPartition

\* A sequence over a set is one over any larger set.
LEMMA SeqWidens ==
    ASSUME NEW S, NEW T, S \subseteq T, NEW s \in Seq(S)
    PROVE  s \in Seq(T)
<1>1. Len(s) \in Nat /\ s = [i \in 1 .. Len(s) |-> s[i]]
  BY LenProperties
<1>2. \A i \in 1 .. Len(s) : s[i] \in T
  BY ElementOfSeq
<1>. QED
  BY <1>1, <1>2

\* A sequence cut in two: the parts have no element in common, no repetitions,
\* and together all elements.
LEMMA CutDifferent ==
    ASSUME NEW s \in Seq(Nat), Different(s), NEW k \in 0 .. Len(s)
    PROVE  LET a == SubSeq(s, 1, k)
               b == SubSeq(s, k + 1, Len(s))
           IN  /\ a \in Seq(Nat) /\ b \in Seq(Nat)
               /\ Different(a) /\ Different(b)
               /\ Elements(a) \cap Elements(b) = {}
               /\ Elements(a) \cup Elements(b) = Elements(s)
<1>. DEFINE a == SubSeq(s, 1, k)
            b == SubSeq(s, k + 1, Len(s))
<1>1. Len(s) \in Nat /\ k \in Nat /\ k <= Len(s) /\ DOMAIN s = 1 .. Len(s)
  OBVIOUS
<1>2. a \in Seq(Nat) /\ Len(a) = k /\ \A i \in 1 .. k : a[i] = s[i]
  BY <1>1, SubSeqProperties
<1>3. b \in Seq(Nat) /\ Len(b) = Len(s) - k /\ \A i \in 1 .. Len(s) - k : b[i] = s[k + i]
  <2>1. k + 1 \in 1 .. Len(s) + 1 /\ Len(s) \in (k + 1) - 1 .. Len(s)
    BY <1>1
  <2>2. b \in Seq(Nat) /\ Len(b) = Len(s) - (k + 1) + 1
          /\ \A i \in 1 .. Len(s) - (k + 1) + 1 : b[i] = s[(k + 1) + i - 1]
    BY <2>1, SubSeqProperties
  <2>3. Len(s) - (k + 1) + 1 = Len(s) - k /\ \A i \in 1 .. Len(s) - k : (k + 1) + i - 1 = k + i
    BY <1>1
  <2>. QED
    BY <2>2, <2>3
<1>4. DOMAIN a = 1 .. k /\ DOMAIN b = 1 .. Len(s) - k
  BY <1>2, <1>3
<1>. HIDE DEF a, b
<1>5. Different(a)
  BY <1>1, <1>2, <1>4 DEF Different
<1>6. Different(b)
  <2>. SUFFICES ASSUME NEW i \in 1 .. Len(s) - k, NEW j \in 1 .. Len(s) - k, b[i] = b[j]
                PROVE  i = j
    BY <1>4 DEF Different
  <2>1. k + i \in 1 .. Len(s) /\ k + j \in 1 .. Len(s) /\ s[k + i] = s[k + j]
    BY <1>1, <1>3
  <2>2. k + i = k + j
    BY <1>1, <2>1 DEF Different
  <2>. QED
    BY <1>1, <2>2
<1>7. Elements(a) \cap Elements(b) = {}
  <2>. SUFFICES ASSUME NEW i \in 1 .. k, NEW j \in 1 .. Len(s) - k, a[i] = b[j]
                PROVE  FALSE
    BY <1>4 DEF Elements
  <2>1. i \in 1 .. Len(s) /\ k + j \in 1 .. Len(s) /\ s[i] = s[k + j]
    BY <1>1, <1>2, <1>3
  <2>2. i = k + j
    BY <1>1, <2>1 DEF Different
  <2>. QED
    BY <1>1, <2>2
<1>8. Elements(a) \cup Elements(b) = Elements(s)
  <2>1. ASSUME NEW i \in 1 .. k PROVE a[i] \in Elements(s)
    BY <1>1, <1>2 DEF Elements
  <2>2. ASSUME NEW j \in 1 .. Len(s) - k PROVE b[j] \in Elements(s)
    <3>1. k + j \in 1 .. Len(s)
      BY <1>1
    <3>. QED
      BY <1>1, <1>3, <3>1 DEF Elements
  <2>3. ASSUME NEW i \in 1 .. Len(s) PROVE s[i] \in Elements(a) \cup Elements(b)
    <3>1. CASE i <= k
      BY <1>2, <1>4, <3>1 DEF Elements
    <3>2. CASE i > k
      <4>1. i - k \in 1 .. Len(s) - k /\ k + (i - k) = i
        BY <1>1, <3>2
      <4>2. b[i - k] = s[i]
        BY <1>3, <4>1
      <4>. QED
        BY <1>4, <4>1, <4>2 DEF Elements
    <3>. QED
      BY <1>1, <3>1, <3>2
  <2>. QED
    BY <1>1, <1>4, <2>1, <2>2, <2>3 DEF Elements
<1>. QED
  BY <1>2, <1>3, <1>5, <1>6, <1>7, <1>8 DEF a, b

\* Joining sequences without repetitions and without a common element.
LEMMA JoinDifferent ==
    ASSUME NEW a \in Seq(Nat), NEW b \in Seq(Nat), Different(a), Different(b),
           Elements(a) \cap Elements(b) = {}
    PROVE  /\ a \o b \in Seq(Nat)
           /\ Different(a \o b)
           /\ Elements(a \o b) = Elements(a) \cup Elements(b)
<1>. DEFINE c == a \o b
<1>1. /\ c \in Seq(Nat)
      /\ Len(c) = Len(a) + Len(b)
      /\ \A i \in 1 .. Len(a) + Len(b) : c[i] = IF i <= Len(a) THEN a[i] ELSE b[i - Len(a)]
  BY ConcatProperties
<1>2. /\ Len(a) \in Nat /\ Len(b) \in Nat
      /\ DOMAIN a = 1 .. Len(a) /\ DOMAIN b = 1 .. Len(b) /\ DOMAIN c = 1 .. Len(a) + Len(b)
  BY <1>1
<1>. HIDE DEF c
<1>3. ASSUME NEW i \in 1 .. Len(a) + Len(b), i > Len(a)
      PROVE  i - Len(a) \in 1 .. Len(b) /\ c[i] = b[i - Len(a)]
  BY <1>1, <1>2, <1>3
<1>4. ASSUME NEW i \in 1 .. Len(a)
      PROVE  i \in 1 .. Len(a) + Len(b) /\ c[i] = a[i]
  BY <1>1, <1>2
<1>5. ASSUME NEW i \in 1 .. Len(b)
      PROVE  Len(a) + i \in 1 .. Len(a) + Len(b) /\ c[Len(a) + i] = b[i]
  <2>1. Len(a) + i \in 1 .. Len(a) + Len(b) /\ Len(a) + i > Len(a) /\ (Len(a) + i) - Len(a) = i
    BY <1>2
  <2>. QED
    BY <1>3, <2>1
<1>6. Different(c)
  <2>. SUFFICES ASSUME NEW i \in 1 .. Len(a) + Len(b), NEW j \in 1 .. Len(a) + Len(b), c[i] = c[j]
                PROVE  i = j
    BY <1>2 DEF Different
  <2>1. CASE i <= Len(a) /\ j <= Len(a)
    <3>1. i \in DOMAIN a /\ j \in DOMAIN a
      BY <1>2, <2>1
    <3>2. a[i] = a[j]
      BY <1>2, <1>4, <3>1
    <3>. QED
      BY <3>1, <3>2 DEF Different
  <2>2. CASE i > Len(a) /\ j > Len(a)
    <3>1. /\ i - Len(a) \in DOMAIN b /\ j - Len(a) \in DOMAIN b
          /\ c[i] = b[i - Len(a)] /\ c[j] = b[j - Len(a)]
      BY <1>2, <1>3, <2>2
    <3>2. i - Len(a) = j - Len(a)
      BY <3>1 DEF Different
    <3>. QED
      BY <1>2, <3>2
  <2>3. CASE i <= Len(a) /\ j > Len(a)
    <3>1. i \in DOMAIN a /\ c[i] = a[i]
      BY <1>2, <1>4, <2>3
    <3>2. j - Len(a) \in DOMAIN b /\ c[j] = b[j - Len(a)]
      BY <1>2, <1>3, <2>3
    <3>3. c[i] \in Elements(a) /\ c[j] \in Elements(b)
      BY <3>1, <3>2 DEF Elements
    <3>. QED
      BY <3>3
  <2>4. CASE i > Len(a) /\ j <= Len(a)
    <3>1. j \in DOMAIN a /\ c[j] = a[j]
      BY <1>2, <1>4, <2>4
    <3>2. i - Len(a) \in DOMAIN b /\ c[i] = b[i - Len(a)]
      BY <1>2, <1>3, <2>4
    <3>3. c[j] \in Elements(a) /\ c[i] \in Elements(b)
      BY <3>1, <3>2 DEF Elements
    <3>. QED
      BY <3>3
  <2>. QED
    BY <1>2, <2>1, <2>2, <2>3, <2>4
<1>7. Elements(c) = Elements(a) \cup Elements(b)
  <2>1. ASSUME NEW i \in 1 .. Len(a) + Len(b) PROVE c[i] \in Elements(a) \cup Elements(b)
    <3>1. CASE i <= Len(a)
      BY <1>2, <1>4, <3>1 DEF Elements
    <3>2. CASE i > Len(a)
      BY <1>2, <1>3, <3>2 DEF Elements
    <3>. QED
      BY <1>2, <3>1, <3>2
  <2>2. ASSUME NEW i \in 1 .. Len(a) PROVE a[i] \in Elements(c)
    BY <1>2, <1>4 DEF Elements
  <2>3. ASSUME NEW i \in 1 .. Len(b) PROVE b[i] \in Elements(c)
    BY <1>2, <1>5 DEF Elements
  <2>. QED
    BY <1>2, <2>1, <2>2, <2>3 DEF Elements
<1>. QED
  BY <1>1, <1>6, <1>7 DEF c

\* Growing the pool adds the numbers up to the new size to the free list.
LEMMA GrownPool ==
    ASSUME PoolInv, NEW n \in Int
    PROVE  /\ Grown(n) \in Seq(Nat)
           /\ Len(Grown(n)) = IF n <= size THEN Len(free) ELSE Len(free) + n - size
           /\ Different(Grown(n))
           /\ Elements(Grown(n)) \cap used = {}
           /\ NewSize(n) \in Nat
           /\ Elements(Grown(n)) \cup used = 0 .. NewSize(n) - 1
<1>1. size \in Nat /\ free \in Seq(Nat) /\ Len(free) \in Nat /\ used \in SUBSET Nat
  BY DEF PoolInv, PoolTypes
<1>2. /\ Different(free)
      /\ Elements(free) \cap used = {}
      /\ Elements(free) \cup used = 0 .. size - 1
  BY DEF PoolInv, PoolPartition
<1>3. CASE n <= size
  BY <1>1, <1>2, <1>3 DEF Grown, NewSize
<1>4. CASE n > size
  <2>. DEFINE new == [i \in 1 .. n - size |-> size + i - 1]
  <2>1. n \in Nat /\ n - size \in Nat
    BY <1>1, <1>4
  <2>2. new \in Seq(Nat) /\ Len(new) = n - size /\ DOMAIN new = 1 .. n - size
    <3>1. \A i \in 1 .. n - size : size + i - 1 \in Nat
      BY <1>1, <2>1
    <3>. QED
      BY <2>1, <3>1
  <2>3. Different(new)
    BY <1>1, <2>1, <2>2 DEF Different
  <2>4. Elements(new) = size .. n - 1
    <3>1. ASSUME NEW i \in 1 .. n - size PROVE new[i] \in size .. n - 1
      BY <1>1, <2>1
    <3>2. ASSUME NEW v \in size .. n - 1 PROVE v \in Elements(new)
      <4>1. v - size + 1 \in 1 .. n - size /\ new[v - size + 1] = v
        BY <1>1, <2>1
      <4>. QED
        BY <2>2, <4>1 DEF Elements
    <3>. QED
      BY <2>2, <3>1, <3>2 DEF Elements
  <2>5. Elements(new) \cap Elements(free) = {} /\ Elements(new) \cap used = {}
    BY <1>1, <1>2, <2>1, <2>4
  <2>6. Grown(n) = new \o free /\ NewSize(n) = n
    BY <1>1, <1>4 DEF Grown, NewSize
  <2>. HIDE DEF new
  <2>7. /\ new \o free \in Seq(Nat)
        /\ Different(new \o free)
        /\ Elements(new \o free) = Elements(new) \cup Elements(free)
    BY <1>1, <1>2, <2>2, <2>3, <2>5, JoinDifferent
  <2>8. Len(new \o free) = Len(free) + n - size
    <3>1. Len(new \o free) = Len(new) + Len(free)
      BY <1>1, <2>2, ConcatProperties
    <3>. QED
      BY <1>1, <2>1, <2>2, <3>1
  <2>9. Elements(new \o free) \cup used = 0 .. n - 1
    BY <1>1, <1>2, <1>4, <2>1, <2>4, <2>7
  <2>10. Elements(new \o free) \cap used = {}
    BY <1>2, <2>5, <2>7
  <2>. QED
    BY <1>1, <1>4, <2>1, <2>6, <2>7, <2>8, <2>9, <2>10
<1>. QED
  BY <1>1, <1>3, <1>4

\* qalloc() hands out qubits that were not in use, and keeps the pool partitioned.
LEMMA AllocStep ==
    ASSUME PoolInv, NEW n \in Nat \ {0}, Alloc(n)
    PROVE  /\ PoolInv'
           /\ Given(n) \in Seq(Nat) /\ Len(Given(n)) = n
           /\ Elements(Given(n)) \cap used = {} /\ Elements(Given(n)) \subseteq 0 .. size' - 1
           /\ size <= size'
<1>1. size \in Nat /\ free \in Seq(Nat) /\ Len(free) \in Nat /\ used \in SUBSET Nat
  BY DEF PoolInv, PoolTypes
<1>2. /\ Different(free)
      /\ Elements(free) \cap used = {}
      /\ Elements(free) \cup used = 0 .. size - 1
  BY DEF PoolInv, PoolPartition
<1>. DEFINE all == Grown(Wanted(n))
<1>3. n \in Nat /\ n > 0 /\ Wanted(n) \in Int
  BY <1>1 DEF Wanted
<1>4. /\ all \in Seq(Nat)
      /\ Len(all) = IF Wanted(n) <= size THEN Len(free) ELSE Len(free) + Wanted(n) - size
      /\ Different(all)
      /\ Elements(all) \cap used = {}
      /\ NewSize(Wanted(n)) \in Nat
      /\ Elements(all) \cup used = 0 .. NewSize(Wanted(n)) - 1
  BY <1>3, GrownPool
<1>5. Len(all) \in Nat /\ n <= Len(all)
  BY <1>1, <1>3, <1>4 DEF Wanted
<1>6. /\ used' = used \cup Elements(Given(n))
      /\ free' = Left(n)
      /\ size' = NewSize(Wanted(n))
  BY DEF Alloc
<1>7. /\ Given(n) \in Seq(Nat) /\ Left(n) \in Seq(Nat)
      /\ Different(Left(n))
      /\ Elements(Given(n)) \cap Elements(Left(n)) = {}
      /\ Elements(Given(n)) \cup Elements(Left(n)) = Elements(all)
  <2>1. CASE MaximizeReuse
    <3>. DEFINE k == Len(all) - n
    <3>1. k \in 0 .. Len(all)
      BY <1>3, <1>5
    <3>2. /\ Given(n) = SubSeq(all, k + 1, Len(all))
          /\ Left(n) = SubSeq(all, 1, k)
      BY <2>1 DEF Given, Left
    <3>. HIDE DEF all, k
    <3>. QED
      BY <1>4, <3>1, <3>2, CutDifferent
  <2>2. CASE ~MaximizeReuse
    <3>1. n \in 0 .. Len(all)
      BY <1>3, <1>5
    <3>2. Given(n) = SubSeq(all, 1, n) /\ Left(n) = SubSeq(all, n + 1, Len(all))
      BY <2>2 DEF Given, Left
    <3>. HIDE DEF all
    <3>. QED
      BY <1>4, <3>1, <3>2, CutDifferent
  <2>. QED
    BY <2>1, <2>2
<1>. HIDE DEF all
<1>8. Elements(Given(n)) \subseteq Nat
  BY <1>7 DEF Elements
<1>9. PoolTypes'
  BY <1>1, <1>4, <1>6, <1>7, <1>8 DEF PoolTypes
<1>10. Elements(Left(n)) \cap (used \cup Elements(Given(n))) = {}
  BY <1>4, <1>7
<1>11. Elements(Left(n)) \cup (used \cup Elements(Given(n))) = 0 .. NewSize(Wanted(n)) - 1
  BY <1>4, <1>7
<1>12. PoolInv'
  <2>1. /\ Different(free')
        /\ Elements(free') \cap used' = {}
        /\ Elements(free') \cup used' = 0 .. size' - 1
    BY <1>6, <1>7, <1>10, <1>11
  <2>2. Elements(free)' = Elements(free')
    BY DEF Elements
  <2>3. Different(free)'
    BY <2>1 DEF Different
  <2>4. PoolPartition'
    BY <2>1, <2>2, <2>3 DEF PoolPartition
  <2>. QED
    BY <1>9, <2>4 DEF PoolInv
<1>13. Elements(Given(n)) \cap used = {} /\ Elements(Given(n)) \subseteq 0 .. size' - 1
  BY <1>4, <1>6, <1>7
<1>14. size <= size'
  BY <1>1, <1>3, <1>6 DEF NewSize
<1>15. Len(Given(n)) = n
  <2>1. \A k \in 0 .. Len(all) : /\ Len(SubSeq(all, 1, k)) = k
                                 /\ Len(SubSeq(all, k + 1, Len(all))) = Len(all) - k
    BY <1>4, <1>5, SubSeqProperties
  <2>2. Given(n) = IF MaximizeReuse THEN SubSeq(all, Len(all) - n + 1, Len(all)) ELSE SubSeq(all, 1, n)
    BY DEF Given, all
  <2>3. n \in 0 .. Len(all) /\ Len(all) - n \in 0 .. Len(all) /\ Len(all) - (Len(all) - n) = n
    BY <1>3, <1>5
  <2>. QED
    BY <2>1, <2>2, <2>3
<1>. QED
  BY <1>7, <1>12, <1>13, <1>14, <1>15

\* qfree() of different qubits keeps the pool partitioned.
LEMMA FreeStep ==
    ASSUME PoolInv, NEW qs \in Seq(used), Different(qs), Free(qs)
    PROVE  PoolInv'
<1>1. size \in Nat /\ free \in Seq(Nat) /\ Len(free) \in Nat /\ used \in SUBSET Nat
  BY DEF PoolInv, PoolTypes
<1>2. /\ Different(free)
      /\ Elements(free) \cap used = {}
      /\ Elements(free) \cup used = 0 .. size - 1
  BY DEF PoolInv, PoolPartition
<1>3. /\ Elements(qs) \subseteq used
      /\ used' = used \ Elements(qs)
      /\ free' = free \o qs
      /\ size' = size
  BY DEF Free
<1>4. qs \in Seq(Nat)
  <2>1. used \subseteq Nat
    BY <1>1
  <2>. QED
    BY <2>1, SeqWidens
<1>5. Elements(free) \cap Elements(qs) = {}
  BY <1>2, <1>3
<1>6. /\ free \o qs \in Seq(Nat)
      /\ Different(free \o qs)
      /\ Elements(free \o qs) = Elements(free) \cup Elements(qs)
  BY <1>1, <1>2, <1>4, <1>5, JoinDifferent
<1>7. Elements(free \o qs) \cap (used \ Elements(qs)) = {}
  BY <1>2, <1>6
<1>8. Elements(free \o qs) \cup (used \ Elements(qs)) = 0 .. size - 1
  BY <1>2, <1>3, <1>6
<1>9. PoolTypes'
  BY <1>1, <1>3, <1>6 DEF PoolTypes
<1>10. /\ Different(free')
      /\ Elements(free') \cap used' = {}
      /\ Elements(free') \cup used' = 0 .. size' - 1
  BY <1>3, <1>6, <1>7, <1>8
<1>. QED
  BY <1>9, <1>10 DEF PoolInv, PoolPartition, Elements, Different

\* Every operation of the manager does.
LEMMA PoolStep ==
    ASSUME PoolInv, [PoolNext]_poolVars
    PROVE  PoolInv'
<1>1. size \in Nat /\ free \in Seq(Nat) /\ Len(free) \in Nat /\ used \in SUBSET Nat
  BY DEF PoolInv, PoolTypes
<1>2. /\ Different(free)
      /\ Elements(free) \cap used = {}
      /\ Elements(free) \cup used = 0 .. size - 1
  BY DEF PoolInv, PoolPartition
<1>3. ASSUME NEW n \in 1 .. MaxSize, Alloc(n)
      PROVE  PoolInv'
  BY <1>3, AllocStep, PoolAssumption
<1>4. ASSUME NEW n \in 1 .. MaxSize, Resize(n)
      PROVE  PoolInv'
  <2>1. n \in Int
    BY PoolAssumption
  <2>2. free' = Grown(n) /\ size' = NewSize(n) /\ used' = used
    BY <1>4 DEF Resize
  <2>3. /\ Grown(n) \in Seq(Nat)
        /\ Different(Grown(n))
        /\ Elements(Grown(n)) \cap used = {}
        /\ NewSize(n) \in Nat
        /\ Elements(Grown(n)) \cup used = 0 .. NewSize(n) - 1
    BY <2>1, GrownPool
  <2>. QED
    BY <1>1, <2>2, <2>3 DEF PoolInv, PoolTypes, PoolPartition, Elements, Different
<1>5. ASSUME NEW qs \in Seq(used), Different(qs), Free(qs)
      PROVE  PoolInv'
  BY <1>5, FreeStep
<1>6. ASSUME UNCHANGED poolVars
      PROVE  PoolInv'
  BY <1>6 DEF PoolInv, PoolTypes, PoolPartition, Elements, Different, poolVars
<1>7. ASSUME NEW n \in 1 .. MaxSize, NEW qs \in [1 .. n -> used], Different(qs), Free(qs)
      PROVE  PoolInv'
  <2>1. qs \in Seq(used)
    BY PoolAssumption
  <2>. QED
    BY <1>5, <1>7, <2>1
<1>8. CASE PoolNext
  <2>1. CASE \E n \in 1 .. MaxSize : Alloc(n) \/ Resize(n)
    BY <1>3, <1>4, <2>1
  <2>2. CASE \E n \in 1 .. MaxSize : \E qs \in [1 .. n -> used] : Different(qs) /\ Free(qs)
    BY <1>7, <2>2
  <2>. QED
    BY <1>8, <2>1, <2>2 DEF PoolNext
<1>. QED
  BY <1>6, <1>8

\* For any pool and either strategy: at all times the qubits created so far are
\* split into those in use and those in the free list, so qalloc() never hands out
\* a qubit that is in use.
THEOREM PoolIsPartitioned == PoolSpec => []PoolPartition
<1>1. PoolInit => PoolInv
  BY DEF PoolInit, PoolInv, PoolTypes, PoolPartition, Different, Elements
<1>2. PoolInv /\ [PoolNext]_poolVars => PoolInv'
  BY PoolStep
<1>3. PoolInv => PoolPartition
  BY DEF PoolInv
<1>. QED
  BY <1>1, <1>2, <1>3, PTL DEF PoolSpec

----------------------------------------------------------------------------
(* The circuit and the loop over its operations *)

\* A set of natural numbers has a smallest element, which Min returns.
LEMMA MinExists ==
    ASSUME NEW S \in SUBSET Nat, S # {}
    PROVE  Min(S) \in S /\ \A x \in S : Min(S) <= x
<1>. DEFINE R == OpToRel(<, Nat)
<1>1. PICK m \in S : \A y \in S : <<y, m>> \notin R
  BY NatLessThanWellFounded, WFMin
<1>2. \A y \in S : ~(y < m)
  BY <1>1 DEF OpToRel
<1>3. \A y \in S : m <= y
  BY <1>2
<1>. QED
  BY <1>3 DEF Min

\* A bounded one has a largest element, which Max returns.
LEMMA MaxExists ==
    ASSUME NEW n \in Nat, NEW S, S \subseteq 0 .. n, S # {}
    PROVE  Max(S) \in S /\ \A x \in S : Max(S) >= x
<1>. DEFINE T == {n - x : x \in S}
<1>0. \A x \in S : x \in Nat /\ n - x \in Nat
  OBVIOUS
<1>1. T \in SUBSET Nat /\ T # {}
  BY <1>0
<1>2. PICK m \in T : \A y \in T : m <= y
  BY <1>1, MinExists
<1>3. PICK s \in S : m = n - s
  BY <1>2
<1>4. ASSUME NEW x \in S PROVE s >= x
  <2>1. n - s <= n - x
    BY <1>2, <1>3
  <2>. QED
    BY <1>0, <2>1
<1>. QED
  BY <1>4 DEF Max

----------------------------------------------------------------------------
\* The invariant.

OpRecord == [at : Nat, on : OpQubits]
Places == 1 .. Len(circuit)
Acts(i, q) == q \in QubitsOf(circuit[i])
TempPlaces(i) == {j \in DOMAIN circuit[i].on : circuit[i].on[j] \in Temps}

\* Operations are in the order of their moments, and on different qubits within one.
CircuitInv ==
    /\ circuit \in Seq(OpRecord)
    /\ \A i, j \in Places : i <= j => circuit[i].at <= circuit[j].at
    /\ \A i, j \in Places : i /= j /\ circuit[i].at = circuit[j].at =>
           QubitsOf(circuit[i]) \cap QubitsOf(circuit[j]) = {}
    /\ \A i \in Places : circuit[i].at <= Len(circuit)

\* Where map_func is.
PhaseInv ==
    /\ phase \in {"setup", "free", "place", "done"}
    /\ phase = "setup" => /\ circuit = <<>> /\ allocated = <<>> /\ lastIdx = -1
                          /\ freeing = {} /\ borrowable = {}
    /\ phase \in {"setup", "done"} => pos = Len(circuit) + 1
    /\ phase \in {"free", "place"} => pos \in Places
    /\ phase /= "place" => todo = {}
    /\ lastIdx \in Int
    /\ phase = "place" => freeing = {} /\ lastIdx = Op.at /\ todo \subseteq TempPlaces(pos)
    /\ phase = "free" => \/ pos = 1 /\ lastIdx = -1
                         \/ pos > 1 /\ lastIdx = circuit[pos - 1].at

\* The loop over op_temp_qubits has seen q in operation i.
Served(i, q) == i < pos \/ (i = pos /\ phase = "place" /\ \A j \in todo : Op.on[j] /= q)
Begun(q) == \E i \in Places : Acts(i, q) /\ Served(i, q)
Expected(q) == \E i \in Places : Acts(i, q) /\ ~Served(i, q)

\* A temporary qubit has a mapping from its first operation on; once its last has been
\* seen it is in to_free, and it is freed in that moment or, at the latest, before the
\* first operation of the next.
SpanInv ==
    /\ \A q \in DOMAIN allocated : q \in Temps /\ Begun(q)
    /\ \A q \in Temps : Begun(q) /\ Expected(q) => q \in DOMAIN allocated
    /\ phase = "place" => \A j \in TempPlaces(pos) \ todo : Op.on[j] \in DOMAIN allocated
    /\ toFree = {q \in DOMAIN allocated : ~Expected(q)}
    /\ freeing \subseteq toFree
    /\ \A q \in toFree : \E i \in Places : Acts(i, q) /\ circuit[i].at = lastIdx
    /\ phase = "free" /\ toFree /= freeing => Op.at = lastIdx

\* What qubits are lent: of the manager, or system qubits idle for the whole loan.
IdleLoan(q, t) ==
    \A i, k, m \in Places :
        Acts(i, q) /\ Acts(k, q) /\ circuit[m].at \in circuit[i].at .. circuit[k].at
            => ~Acts(m, t)
Held == {allocated[q] : q \in DOMAIN allocated}
LoanInv ==
    /\ \A q \in DOMAIN allocated : allocated[q] \in System \cup {Ancilla(n) : n \in 0 .. size - 1}
    /\ LoansAreDistinct
    /\ borrowable \subseteq SystemQubits
    /\ phase = "place" => borrowable \cap Held = {}
    /\ \A q \in DOMAIN allocated, t \in SystemQubits : allocated[q] = t => IdleLoan(q, t)

\* What became of the operations so far.
Emitted == 1 .. pos - 1
Slots(i) == DOMAIN circuit[i].on
MappedInv ==
    /\ mapped \in Seq(Seq(Int)) /\ Len(mapped) = pos - 1
    /\ \A i \in Emitted : DOMAIN mapped[i] = Slots(i)
    /\ \A i \in Emitted : \A j \in Slots(i) :
           /\ circuit[i].on[j] \notin Temps => mapped[i][j] = circuit[i].on[j]
           /\ circuit[i].on[j] \in DOMAIN allocated => mapped[i][j] = allocated[circuit[i].on[j]]
           /\ phase \in {"free", "place"} /\ circuit[i].at = Op.at /\ circuit[i].on[j] \in Temps
                  /\ mapped[i][j] \in SystemQubits => circuit[i].on[j] \in DOMAIN allocated
    /\ \A q \in DOMAIN allocated : \A i, m \in Emitted : i <= m /\ Acts(i, q) =>
           \A h \in Slots(m) : mapped[m][h] = allocated[q] => circuit[m].on[h] = q

\* LoansAreExclusive, place by place.
ExclusiveInv ==
    /\ \A i, k \in Emitted : \A j \in TempPlaces(i), l \in Slots(k) :
           circuit[i].on[j] = circuit[k].on[l] =>
               /\ mapped[i][j] = mapped[k][l]
               /\ \A m \in i .. k : \A h \in Slots(m) :
                      mapped[m][h] = mapped[i][j] => circuit[m].on[h] = circuit[i].on[j]
    /\ \A i, k \in Emitted : i /= k /\ circuit[i].at = circuit[k].at =>
           Elements(mapped[i]) \cap Elements(mapped[k]) \cap SystemQubits = {}

MapInv == PoolInv /\ CircuitInv /\ PhaseInv /\ SpanInv /\ LoanInv /\ failed = FALSE

----------------------------------------------------------------------------
\* The circuit does not change while it is mapped; facts about it.

\* What CircuitInv and the assumption on the constants say of an operation's qubits.
LEMMA CircuitFacts ==
    ASSUME CircuitInv
    PROVE  /\ Len(circuit) \in Nat /\ DOMAIN circuit = Places
           /\ \A i \in Places : /\ circuit[i].at \in Nat
                                /\ circuit[i].on \in Seq(System \cup Temps)
                                /\ Different(circuit[i].on)
                                /\ QubitsOf(circuit[i]) \subseteq System \cup Temps
           /\ SystemQubits \subseteq System /\ SystemQubits \cap Temps = {}
           /\ System \subseteq Nat /\ Temps \subseteq Nat /\ System \cap Temps = {}
           /\ \A i \in Places : QubitsOf(circuit[i]) \subseteq AllQubits
<1>1. Len(circuit) \in Nat /\ DOMAIN circuit = Places
  BY DEF CircuitInv, Places
<1>2. ASSUME NEW i \in Places
      PROVE  /\ circuit[i].at \in Nat /\ circuit[i].on \in Seq(System \cup Temps)
             /\ Different(circuit[i].on)
  <2>1. circuit[i] \in OpRecord
    BY <1>1 DEF CircuitInv, Places
  <2>2. circuit[i].at \in Nat /\ circuit[i].on \in OpQubits
    BY <2>1 DEF OpRecord
  <2>3. System \cup Temps = System \cup Clean \cup Borrowable
    BY DEF Temps
  <2>. QED
    BY <2>2, <2>3, MappingAssumption
<1>3. ASSUME NEW i \in Places PROVE QubitsOf(circuit[i]) \subseteq System \cup Temps
  <2>1. circuit[i].on \in Seq(System \cup Temps)
    BY <1>2
  <2>. QED
    BY <2>1, ElementOfSeq DEF QubitsOf, Elements
<1>4. System \subseteq Nat /\ Temps \subseteq Nat /\ System \cap Temps = {}
  BY MappingAssumption DEF Temps
<1>5. AllQubits \subseteq System \cup Temps /\ \A i \in Places : QubitsOf(circuit[i]) \subseteq AllQubits
  BY <1>1, <1>3 DEF AllQubits, Elements
<1>6. SystemQubits \subseteq System /\ SystemQubits \cap Temps = {}
  BY <1>5 DEF SystemQubits
<1>. QED
  BY <1>1, <1>2, <1>3, <1>4, <1>5, <1>6

\* qubits_lifespan: the first and the last moment of a qubit.
LEMMA Lifespan ==
    ASSUME CircuitInv, NEW q, NEW i \in Places, Acts(i, q)
    PROVE  /\ First(q) \in Nat /\ Last(q) \in Nat
           /\ \A k \in Places : Acts(k, q) => First(q) <= circuit[k].at /\ circuit[k].at <= Last(q)
           /\ \E k \in Places : Acts(k, q) /\ circuit[k].at = First(q)
           /\ \E k \in Places : Acts(k, q) /\ circuit[k].at = Last(q)
<1>1. Moments(q) = {circuit[k].at : k \in {k \in Places : Acts(k, q)}}
  <2>1. DOMAIN circuit = Places
    BY CircuitFacts
  <2>. QED
    BY <2>1 DEF Moments, Elements, Acts
<1>2. /\ Moments(q) \subseteq 0 .. Len(circuit) /\ Moments(q) # {} /\ Len(circuit) \in Nat
      /\ Moments(q) \in SUBSET Nat
  <2>1. Len(circuit) \in Nat
    BY CircuitFacts
  <2>2. \A k \in Places : circuit[k].at \in Nat /\ circuit[k].at <= Len(circuit)
    BY CircuitFacts DEF CircuitInv
  <2>3. \A k \in Places : circuit[k].at \in 0 .. Len(circuit)
    BY <2>1, <2>2
  <2>. QED
    BY <1>1, <2>1, <2>3
<1>3. First(q) \in Moments(q) /\ \A x \in Moments(q) : First(q) <= x
  BY <1>2, MinExists DEF First
<1>4. Last(q) \in Moments(q) /\ \A x \in Moments(q) : Last(q) >= x
  BY <1>2, MaxExists DEF Last
<1>5. First(q) \in Nat /\ Last(q) \in Nat
  BY <1>2, <1>3, <1>4
<1>6. \A k \in Places : Acts(k, q) => circuit[k].at \in Moments(q)
  BY <1>1
<1>7. \A k \in Places : Acts(k, q) => First(q) <= circuit[k].at /\ circuit[k].at <= Last(q)
  BY <1>2, <1>3, <1>4, <1>5, <1>6
<1>. QED
  BY <1>1, <1>3, <1>4, <1>5, <1>7

\* Two operations on one qubit are in different moments, in their order.
LEMMA LaterMoment ==
    ASSUME CircuitInv, NEW i \in Places, NEW k \in Places, NEW q, Acts(i, q), Acts(k, q), i < k
    PROVE  circuit[i].at < circuit[k].at
<1>1. i <= k /\ i # k
  BY DEF Places
<1>2. circuit[i].at <= circuit[k].at
  BY <1>1 DEF CircuitInv
<1>3. circuit[i].at # circuit[k].at
  BY <1>1 DEF CircuitInv, Acts
<1>4. circuit[i].at \in Nat /\ circuit[k].at \in Nat
  BY CircuitFacts
<1>. QED
  BY <1>2, <1>3, <1>4

\* The loop over op_temp_qubits meets a temporary qubit for the first time exactly when
\* its lifespan starts in this moment, and then has no mapping for it.
LEMMA SeenBefore ==
    ASSUME CircuitInv, PhaseInv, SpanInv, phase = "place", NEW j \in todo, NEW q, q = Op.on[j]
    PROVE  /\ q \in Temps /\ Acts(pos, q) /\ ~Served(pos, q) /\ Expected(q) /\ pos \in Places
           /\ (First(q) < Op.at) <=> Begun(q)
           /\ Begun(q) <=> q \in DOMAIN allocated
<1>1. pos \in Places /\ j \in DOMAIN circuit[pos].on /\ q \in Temps /\ Op = circuit[pos]
  BY DEF PhaseInv, TempPlaces, Op
<1>2. Acts(pos, q) /\ ~Served(pos, q)
  <2>1. Acts(pos, q)
    BY <1>1 DEF Acts, QubitsOf, Elements
  <2>2. pos \in Nat
    BY <1>1 DEF Places
  <2>. QED
    BY <2>1, <2>2 DEF Served
<1>3. Expected(q)
  BY <1>1, <1>2 DEF Expected
<1>4. First(q) < Op.at => Begun(q)
  <2>. SUFFICES ASSUME First(q) < Op.at PROVE Begun(q)
    OBVIOUS
  <2>1. PICK k \in Places : Acts(k, q) /\ circuit[k].at = First(q)
    BY <1>1, <1>2, Lifespan
  <2>2. ~(pos <= k)
    <3>. SUFFICES ASSUME pos <= k PROVE FALSE
      OBVIOUS
    <3>1. circuit[pos].at <= circuit[k].at /\ circuit[pos].at \in Nat /\ circuit[k].at \in Nat
      BY <1>1, CircuitFacts DEF CircuitInv
    <3>. QED
      BY <1>1, <2>1, <3>1
  <2>3. k < pos
    BY <1>1, <2>2 DEF Places
  <2>. QED
    BY <2>1, <2>3 DEF Begun, Served
<1>5. Begun(q) => First(q) < Op.at
  <2>. SUFFICES ASSUME Begun(q) PROVE First(q) < Op.at
    OBVIOUS
  <2>1. PICK k \in Places : Acts(k, q) /\ Served(k, q)
    BY DEF Begun
  <2>2. k < pos
    BY <1>2, <2>1 DEF Served
  <2>3. circuit[k].at < circuit[pos].at
    BY <1>1, <1>2, <2>1, <2>2, LaterMoment
  <2>4. First(q) <= circuit[k].at /\ First(q) \in Nat
    BY <2>1, Lifespan
  <2>5. circuit[k].at \in Nat /\ circuit[pos].at \in Nat
    BY <1>1, CircuitFacts
  <2>. QED
    BY <1>1, <2>3, <2>4, <2>5
<1>6. Begun(q) <=> q \in DOMAIN allocated
  BY <1>1, <1>3 DEF SpanInv
<1>. QED
  BY <1>1, <1>2, <1>3, <1>4, <1>5, <1>6

\* Its last operation is served exactly when its lifespan ends in this moment.
LEMMA LastOperation ==
    ASSUME CircuitInv, pos \in Places, NEW q, Acts(pos, q)
    PROVE  Last(q) = Op.at <=> \A k \in Places : Acts(k, q) => k <= pos
<1>1. Op = circuit[pos] /\ circuit[pos].at \in Nat
  BY CircuitFacts DEF Op
<1>2. ASSUME Last(q) = Op.at, NEW k \in Places, Acts(k, q) PROVE k <= pos
  <2>. SUFFICES ASSUME pos < k PROVE FALSE
    BY DEF Places
  <2>1. circuit[pos].at < circuit[k].at
    BY <1>2, LaterMoment
  <2>2. circuit[k].at <= Last(q) /\ circuit[k].at \in Nat
    BY <1>2, Lifespan, CircuitFacts
  <2>. QED
    BY <1>1, <1>2, <2>1, <2>2
<1>3. ASSUME \A k \in Places : Acts(k, q) => k <= pos PROVE Last(q) = Op.at
  <2>1. PICK k \in Places : Acts(k, q) /\ circuit[k].at = Last(q)
    BY Lifespan
  <2>2. circuit[k].at <= circuit[pos].at /\ circuit[pos].at <= Last(q)
    BY <1>3, <2>1, Lifespan DEF CircuitInv
  <2>3. circuit[k].at \in Nat
    BY CircuitFacts
  <2>. QED
    BY <1>1, <2>1, <2>2, <2>3
<1>. QED
  BY <1>2, <1>3

\* While an operation is placed, every loan is within the lifespan of its borrower.
LEMMA LoanIsCurrent ==
    ASSUME CircuitInv, PhaseInv, SpanInv, phase = "place", NEW q \in DOMAIN allocated
    PROVE  \E i, k \in Places : /\ Acts(i, q) /\ Acts(k, q)
                                /\ Op.at \in circuit[i].at .. circuit[k].at
<1>1. pos \in Places /\ Op = circuit[pos] /\ lastIdx = Op.at
  BY DEF PhaseInv, Op
<1>2. \A m \in Places : circuit[m].at \in Nat
  BY CircuitFacts
<1>3. PICK i \in Places : Acts(i, q) /\ Served(i, q)
  BY DEF SpanInv, Begun
<1>4. circuit[i].at <= Op.at
  <2>1. i <= pos
    BY <1>1, <1>3 DEF Served, Places
  <2>. QED
    BY <1>1, <2>1 DEF CircuitInv
<1>5. \E k \in Places : Acts(k, q) /\ Op.at <= circuit[k].at
  <2>1. CASE Expected(q)
    <3>1. PICK k \in Places : Acts(k, q) /\ ~Served(k, q)
      BY <2>1 DEF Expected
    <3>2. pos <= k
      BY <1>1, <3>1 DEF Served, Places
    <3>3. circuit[pos].at <= circuit[k].at
      BY <1>1, <3>2 DEF CircuitInv
    <3>. QED
      BY <1>1, <3>1, <3>3
  <2>2. CASE ~Expected(q)
    <3>1. q \in toFree
      BY <2>2 DEF SpanInv
    <3>2. PICK k \in Places : Acts(k, q) /\ circuit[k].at = lastIdx
      BY <3>1 DEF SpanInv
    <3>3. Op.at <= circuit[k].at
      BY <1>1, <1>2, <3>2
    <3>. QED
      BY <3>2, <3>3
  <2>. QED
    BY <2>1, <2>2
<1>6. PICK k \in Places : Acts(k, q) /\ Op.at <= circuit[k].at
  BY <1>5
<1>7. Op.at \in circuit[i].at .. circuit[k].at
  BY <1>1, <1>2, <1>4, <1>6
<1>. QED
  BY <1>3, <1>6, <1>7

\* What is lent has a number, positive for system qubits and negative for the manager's.
LEMMA LoanIsNumber ==
    ASSUME CircuitInv, LoanInv, PoolInv, NEW q \in DOMAIN allocated
    PROVE  allocated[q] \in Int
<1>1. CASE allocated[q] \in System
  <2>1. System \subseteq Nat
    BY CircuitFacts
  <2>2. \A v \in System : v \in Int
    BY <2>1
  <2>. QED
    BY <1>1, <2>2
<1>2. CASE allocated[q] \in {Ancilla(n) : n \in 0 .. size - 1}
  <2>1. PICK n \in 0 .. size - 1 : allocated[q] = Ancilla(n)
    BY <1>2
  <2>2. n \in Int
    BY DEF PoolInv, PoolTypes
  <2>. QED
    BY <2>1, <2>2 DEF Ancilla
<1>3. allocated[q] \in System \cup {Ancilla(n) : n \in 0 .. size - 1}
  BY DEF LoanInv
<1>. QED
  BY <1>1, <1>2, <1>3

\* Steps that leave the transformer's variables alone: another client of the manager
\* before the call, and stuttering.
LEMMA SameMap ==
    ASSUME MapInv, UNCHANGED mapVars, PoolInv', UNCHANGED poolVars \/ phase = "setup"
    PROVE  MapInv'
<1>. USE DEF mapVars, poolVars
<1>1. CircuitInv'
  BY DEF MapInv, CircuitInv, Places
<1>2. PhaseInv'
  BY DEF MapInv, PhaseInv, Places, TempPlaces, Op
<1>3. SpanInv'
  BY DEF MapInv, SpanInv, Places, TempPlaces, Op, Acts, QubitsOf, Elements, Begun, Expected, Served
<1>4. LoanInv'
  <2>1. CASE UNCHANGED poolVars
    <3>1. LoanInv
      BY DEF MapInv
    <3>2. /\ \A i, p : Acts(i, p)' <=> Acts(i, p)
          /\ Places' = Places /\ SystemQubits' = SystemQubits /\ Held' = Held
      BY DEF Acts, Places, QubitsOf, Elements, SystemQubits, AllQubits, Held
    <3>3. \A q, t : IdleLoan(q, t)' <=> IdleLoan(q, t)
      BY <3>2 DEF IdleLoan
    <3>. QED
      BY <2>1, <3>1, <3>2, <3>3 DEF LoanInv, LoansAreDistinct, Ancilla, Number
  <2>2. CASE phase = "setup"
    <3>1. allocated' = <<>> /\ borrowable' = {} /\ phase' = "setup"
      BY <2>2 DEF MapInv, PhaseInv
    <3>. QED
      BY <3>1 DEF LoanInv, LoansAreDistinct
  <2>. QED
    BY <2>1, <2>2
<1>. QED
  BY <1>1, <1>2, <1>3, <1>4 DEF MapInv

\* The call.
LEMMA CallStep ==
    ASSUME MapInv, Call
    PROVE  MapInv'
<1>1. PICK n \in 0 .. MaxOps : \E at \in Starts(n), on \in [1 .. n -> OpQubits] :
        /\ \A i, j \in 1 .. n : i /= j /\ at[i] = at[j] => Elements(on[i]) \cap Elements(on[j]) = {}
        /\ circuit' = [i \in 1 .. n |-> [at |-> at[i], on |-> on[i]]]
  BY DEF Call
<1>2. PICK at \in Starts(n), on \in [1 .. n -> OpQubits] :
        /\ \A i, j \in 1 .. n : i /= j /\ at[i] = at[j] => Elements(on[i]) \cap Elements(on[j]) = {}
        /\ circuit' = [i \in 1 .. n |-> [at |-> at[i], on |-> on[i]]]
  BY <1>1
<1>3. n \in Nat
  BY MappingAssumption
<1>4. /\ at \in [1 .. n -> 0 .. n - 1]
      /\ \A i, j \in 1 .. n : i <= j => at[i] <= at[j]
  BY DEF Starts
<1>5. /\ circuit' \in Seq(OpRecord) /\ Len(circuit') = n
      /\ \A i \in 1 .. n : circuit'[i].at = at[i] /\ circuit'[i].on = on[i]
  <2>1. \A i \in 1 .. n : at[i] \in Nat /\ on[i] \in OpQubits
    BY <1>2, <1>3, <1>4
  <2>2. \A i \in 1 .. n : [at |-> at[i], on |-> on[i]] \in OpRecord
    BY <2>1 DEF OpRecord
  <2>. QED
    BY <1>2, <1>3, <2>2
<1>6. CircuitInv'
  <2>1. \A i \in 1 .. n : circuit'[i].at <= n
    BY <1>3, <1>4, <1>5
  <2>2. \A i, j \in 1 .. n : i <= j => circuit'[i].at <= circuit'[j].at
    BY <1>4, <1>5
  <2>3. \A i, j \in 1 .. n : i /= j /\ circuit'[i].at = circuit'[j].at =>
          Elements(circuit'[i].on) \cap Elements(circuit'[j].on) = {}
    BY <1>2, <1>5
  <2>. QED
    BY <1>5, <2>1, <2>2, <2>3 DEF CircuitInv, Places, QubitsOf, Elements
<1>7. /\ phase = "setup" /\ phase' = IF n = 0 THEN "done" ELSE "free"
      /\ UNCHANGED <<poolVars, pos, freeing, todo, toFree, lastIdx, allocated, borrowable,
                     mapped, failed>>
  BY <1>5 DEF Call
<1>8. /\ pos = 1 /\ allocated = <<>> /\ lastIdx = -1 /\ freeing = {} /\ borrowable = {}
      /\ todo = {} /\ toFree = {}
  <2>1. circuit = <<>> /\ pos = Len(circuit) + 1
    BY <1>7 DEF MapInv, PhaseInv
  <2>. QED
    BY <1>7, <2>1 DEF MapInv, PhaseInv, SpanInv
<1>9. PhaseInv'
  BY <1>3, <1>5, <1>7, <1>8 DEF PhaseInv, Places
<1>10. \A q : \A i \in Places' : ~Served(i, q)'
  BY <1>3, <1>5, <1>7, <1>8 DEF Served, Places
<1>11. SpanInv'
  BY <1>7, <1>8, <1>10 DEF SpanInv, Begun
<1>12. LoanInv'
  BY <1>7, <1>8 DEF LoanInv, LoansAreDistinct
<1>13. PoolInv'
  BY <1>7 DEF MapInv, PoolInv, PoolTypes, PoolPartition, Elements, Different, poolVars
<1>. QED
  BY <1>6, <1>7, <1>9, <1>11, <1>12, <1>13 DEF MapInv

\* One pass of the loop over sorted(to_free): what is given back was lent.
LEMMA FreeNextStep ==
    ASSUME MapInv, FreeNext
    PROVE  MapInv'
<1>. DEFINE q == Min(freeing)
<1>0. CircuitInv /\ PhaseInv /\ SpanInv /\ LoanInv /\ PoolInv /\ failed = FALSE
  BY DEF MapInv
<1>1. /\ phase = "free" /\ freeing # {} /\ freeing' = freeing \ {q}
      /\ UNCHANGED <<circuit, phase, pos, todo, lastIdx, borrowable, mapped>>
  BY DEF FreeNext
<1>2. q \in freeing /\ q \in toFree /\ q \in DOMAIN allocated /\ ~Expected(q) /\ q \in Temps
  <2>1. freeing \in SUBSET Nat
    BY <1>0, CircuitFacts DEF SpanInv
  <2>2. q \in freeing
    BY <1>1, <2>1, MinExists
  <2>. QED
    BY <1>0, <2>2 DEF SpanInv
<1>3. IsManaged(q) => Number(allocated[q]) \in used
  BY <1>0, <1>2 DEF IsManaged, LoanInv, LoansAreDistinct
<1>. HIDE DEF q
<1>4. /\ failed' = FALSE
      /\ \/ /\ MayFree(q)
            /\ IF IsManaged(q) THEN Free(<<Number(allocated[q])>>) ELSE UNCHANGED poolVars
            /\ allocated' = [p \in DOMAIN allocated \ {q} |-> allocated[p]]
            /\ toFree' = toFree \ {q}
         \/ ~MayFree(q) /\ UNCHANGED <<poolVars, allocated, toFree>>
  BY <1>0, <1>2, <1>3 DEF FreeNext, q
<1>5. CircuitInv' /\ PhaseInv'
  <2>1. CircuitInv'
    BY <1>0, <1>1 DEF CircuitInv, Places
  <2>2. PhaseInv'
    BY <1>0, <1>1 DEF PhaseInv, Places, TempPlaces, Op
  <2>. QED
    BY <2>1, <2>2
<1>6. /\ \A p : (Begun(p)' <=> Begun(p)) /\ (Expected(p)' <=> Expected(p))
      /\ \A i, p : Acts(i, p)' <=> Acts(i, p)
      /\ Places' = Places /\ Op' = Op /\ SystemQubits' = SystemQubits
      /\ \A i : TempPlaces(i)' = TempPlaces(i)
  BY <1>1 DEF Begun, Expected, Served, Acts, Places, Op, QubitsOf, Elements, SystemQubits, AllQubits,
     TempPlaces
<1>7. CASE MayFree(q)
  <2>1. /\ DOMAIN allocated' = DOMAIN allocated \ {q} /\ toFree' = toFree \ {q}
        /\ \A p \in DOMAIN allocated \ {q} : allocated'[p] = allocated[p]
        /\ IF IsManaged(q) THEN Free(<<Number(allocated[q])>>) ELSE UNCHANGED poolVars
    BY <1>4, <1>7
  <2>2. SpanInv'
    BY <1>0, <1>1, <1>2, <1>6, <2>1 DEF SpanInv
  <2>3. PoolInv' /\ size' = size /\ (IsManaged(q) => used' = used \ {Number(allocated[q])})
        /\ (~IsManaged(q) => used' = used)
    <3>1. CASE IsManaged(q)
      <4>. DEFINE qs == <<Number(allocated[q])>>
      <4>1. qs \in Seq(used) /\ Different(qs) /\ Elements(qs) = {Number(allocated[q])}
        BY <1>3, <3>1 DEF Different, Elements
      <4>2. Free(qs)
        BY <2>1, <3>1
      <4>3. PoolInv'
        BY <1>0, <4>1, <4>2, FreeStep
      <4>. QED
        BY <3>1, <4>1, <4>2, <4>3 DEF Free
    <3>2. CASE ~IsManaged(q)
      BY <1>0, <2>1, <3>2 DEF PoolInv, PoolTypes, PoolPartition, Elements, Different, poolVars
    <3>. QED
      BY <3>1, <3>2
  <2>4. ASSUME NEW p \in DOMAIN allocated', allocated[p] \notin SystemQubits
        PROVE  Number(allocated[p]) \in used'
    <3>1. p \in DOMAIN allocated /\ p # q /\ Number(allocated[p]) \in used
      BY <1>0, <2>1, <2>4 DEF LoanInv, LoansAreDistinct
    <3>2. CASE IsManaged(q)
      <4>1. allocated[p] # allocated[q]
        BY <1>0, <1>2, <3>1 DEF LoanInv, LoansAreDistinct
      <4>2. allocated[p] \in Int /\ allocated[q] \in Int
        BY <1>0, <1>2, <3>1, LoanIsNumber
      <4>3. Number(allocated[p]) # Number(allocated[q])
        BY <4>1, <4>2 DEF Number
      <4>. QED
        BY <2>3, <3>1, <3>2, <4>3
    <3>3. CASE ~IsManaged(q)
      BY <2>3, <3>1, <3>3
    <3>. QED
      BY <3>2, <3>3
  <2>5. LoanInv'
    <3>1. \A p \in DOMAIN allocated' : allocated'[p] \in System \cup {Ancilla(n) : n \in 0 .. size' - 1}
      BY <1>0, <2>1, <2>3 DEF LoanInv
    <3>2. LoansAreDistinct'
      BY <1>0, <1>6, <2>1, <2>4 DEF LoanInv, LoansAreDistinct, Number
    <3>3. borrowable' \subseteq SystemQubits' /\ phase' # "place"
      BY <1>0, <1>1, <1>6 DEF LoanInv
    <3>4. \A p \in DOMAIN allocated', t \in SystemQubits' : allocated'[p] = t => IdleLoan(p, t)'
      BY <1>0, <1>1, <1>6, <2>1 DEF LoanInv, IdleLoan
    <3>. QED
      BY <3>1, <3>2, <3>3, <3>4 DEF LoanInv, Ancilla
  <2>. QED
    BY <1>4, <1>5, <2>2, <2>3, <2>5 DEF MapInv
<1>8. CASE ~MayFree(q)
  <2>1. UNCHANGED <<poolVars, allocated, toFree>>
    BY <1>4, <1>8
  <2>2. Op.at = lastIdx
    <3>1. ~(Op.at > lastIdx)
      BY <1>8 DEF MayFree
    <3>2. pos \in Places /\ Op = circuit[pos] /\ circuit[pos].at \in Nat
      BY <1>0, <1>1, CircuitFacts DEF PhaseInv, Op
    <3>3. PICK i \in Places : Acts(i, q) /\ circuit[i].at = lastIdx
      BY <1>0, <1>2 DEF SpanInv
    <3>4. lastIdx \in Nat
      BY <1>0, <3>3, CircuitFacts
    <3>5. pos > 1 /\ lastIdx = circuit[pos - 1].at
      BY <1>0, <1>1, <3>4 DEF PhaseInv
    <3>6. pos - 1 \in Places /\ pos - 1 <= pos
      BY <3>2, <3>5 DEF Places
    <3>7. circuit[pos - 1].at <= circuit[pos].at
      BY <1>0, <3>2, <3>6 DEF CircuitInv
    <3>. QED
      BY <3>1, <3>2, <3>4, <3>5, <3>7
  <2>3. SpanInv'
    BY <1>0, <1>1, <1>6, <2>1, <2>2 DEF SpanInv
  <2>4. LoanInv'
    BY <1>0, <1>1, <2>1 DEF LoanInv, LoansAreDistinct, IdleLoan, Held, SystemQubits, AllQubits, Places, Acts,
       QubitsOf, Elements, Ancilla, Number, poolVars
  <2>5. PoolInv'
    BY <1>0, <2>1 DEF PoolInv, PoolTypes, PoolPartition, Elements, Different, poolVars
  <2>. QED
    BY <1>4, <1>5, <2>3, <2>4, <2>5 DEF MapInv
<1>. QED
  BY <1>7, <1>8


\* The loop over to_free is over.
LEMMA FreedStep ==
    ASSUME MapInv, Freed
    PROVE  MapInv'
<1>0. CircuitInv /\ PhaseInv /\ SpanInv /\ LoanInv /\ PoolInv /\ failed = FALSE
  BY DEF MapInv
<1>1. /\ phase = "free" /\ freeing = {} /\ phase' = "place" /\ lastIdx' = Op.at
      /\ borrowable' = SystemQubits \ Held /\ todo' = TempPlaces(pos)
      /\ UNCHANGED <<poolVars, circuit, pos, freeing, toFree, allocated, mapped, failed>>
  BY DEF Freed, Held, TempPlaces, Op
<1>2. pos \in Places /\ todo = {} /\ pos \in Nat
  BY <1>0, <1>1 DEF PhaseInv, Places
<1>3. CircuitInv'
  BY <1>0, <1>1 DEF CircuitInv, Places
<1>4. PhaseInv'
  <2>1. Op.at \in Int
    BY <1>0, <1>2, CircuitFacts DEF Op
  <2>. QED
    BY <1>0, <1>1, <1>2, <2>1 DEF PhaseInv, Places, TempPlaces, Op
<1>5. /\ \A i, p : Acts(i, p)' <=> Acts(i, p)
      /\ Places' = Places /\ Op' = Op /\ SystemQubits' = SystemQubits
      /\ \A i : TempPlaces(i)' = TempPlaces(i)
      /\ Held' = Held
  BY <1>1 DEF Acts, Places, Op, QubitsOf, Elements, SystemQubits, AllQubits, TempPlaces, Held
<1>6. \A i \in Places, p \in Temps : Acts(i, p) => (Served(i, p)' <=> Served(i, p))
  <2>. SUFFICES ASSUME NEW i \in Places, NEW p \in Temps, Acts(i, p)
                PROVE  Served(i, p)' <=> Served(i, p)
    OBVIOUS
  <2>1. Served(i, p) <=> i < pos
    BY <1>1, <1>2 DEF Served
  <2>2. CASE i = pos
    <3>1. PICK j \in DOMAIN circuit[pos].on : circuit[pos].on[j] = p
      BY <2>2 DEF Acts, QubitsOf, Elements
    <3>2. j \in todo' /\ Op'.on[j] = p
      BY <1>1, <1>5, <3>1 DEF TempPlaces, Op
    <3>. QED
      BY <1>1, <1>2, <2>1, <2>2, <3>2 DEF Served
  <2>3. CASE i # pos
    BY <1>1, <2>1, <2>3 DEF Served
  <2>. QED
    BY <2>2, <2>3
<1>7. \A p \in Temps : (Begun(p)' <=> Begun(p)) /\ (Expected(p)' <=> Expected(p))
  BY <1>5, <1>6 DEF Begun, Expected
<1>8. SpanInv'
  <2>1. \A q \in DOMAIN allocated' : q \in Temps /\ Begun(q)'
    BY <1>0, <1>1, <1>7 DEF SpanInv
  <2>2. \A q \in Temps : Begun(q)' /\ Expected(q)' => q \in DOMAIN allocated'
    BY <1>0, <1>1, <1>7 DEF SpanInv
  <2>3. toFree' = {q \in DOMAIN allocated' : ~Expected(q)'}
    BY <1>0, <1>1, <1>7 DEF SpanInv
  <2>4. \A q \in toFree' : \E i \in Places' : Acts(i, q)' /\ circuit'[i].at = lastIdx'
    BY <1>0, <1>1, <1>5 DEF SpanInv
  <2>5. TempPlaces(pos)' \ todo' = {} /\ freeing' \subseteq toFree'
    BY <1>1, <1>5 DEF TempPlaces
  <2>. QED
    BY <1>1, <2>1, <2>2, <2>3, <2>4, <2>5 DEF SpanInv
<1>9. LoanInv'
  <2>1. \A q \in DOMAIN allocated' : allocated'[q] \in System \cup {Ancilla(n) : n \in 0 .. size' - 1}
    BY <1>0, <1>1 DEF LoanInv, poolVars
  <2>2. LoansAreDistinct'
    BY <1>0, <1>1, <1>5 DEF LoanInv, LoansAreDistinct, poolVars, Number
  <2>3. borrowable' \subseteq SystemQubits' /\ borrowable' \cap Held' = {}
    BY <1>1, <1>5
  <2>4. \A q \in DOMAIN allocated', t \in SystemQubits' : allocated'[q] = t => IdleLoan(q, t)'
    BY <1>0, <1>1, <1>5 DEF LoanInv, IdleLoan
  <2>. QED
    BY <2>1, <2>2, <2>3, <2>4 DEF LoanInv, Ancilla
<1>10. PoolInv'
  BY <1>0, <1>1 DEF PoolInv, PoolTypes, PoolPartition, Elements, Different, poolVars
<1>. QED
  BY <1>0, <1>1, <1>3, <1>4, <1>8, <1>9, <1>10 DEF MapInv

\* transform_qubits, and on to the next operation.
LEMMA EmitStep ==
    ASSUME MapInv, Emit
    PROVE  MapInv'
<1>0. CircuitInv /\ PhaseInv /\ SpanInv /\ LoanInv /\ PoolInv /\ failed = FALSE
  BY DEF MapInv
<1>1. /\ phase = "place" /\ todo = {} /\ pos' = pos + 1 /\ freeing' = toFree
      /\ phase' = IF pos = Len(circuit) THEN "done" ELSE "free"
      /\ UNCHANGED <<poolVars, circuit, todo, toFree, lastIdx, allocated, borrowable, failed>>
  BY DEF Emit
<1>2. pos \in 1 .. Len(circuit) /\ lastIdx = circuit[pos].at /\ Len(circuit) \in Nat
  BY <1>0, <1>1, CircuitFacts DEF PhaseInv, Places, Op
<1>3. CircuitInv'
  BY <1>0, <1>1 DEF CircuitInv, Places
<1>4. PhaseInv'
  <2>1. lastIdx \in Int
    BY <1>0 DEF PhaseInv
  <2>. QED
    BY <1>1, <1>2, <2>1 DEF PhaseInv, Places
<1>5. /\ \A i, p : Acts(i, p)' <=> Acts(i, p)
      /\ Places' = Places /\ SystemQubits' = SystemQubits
  BY <1>1 DEF Acts, Places, QubitsOf, Elements, SystemQubits, AllQubits
<1>6. \A p : \A i \in Places : Served(i, p)' <=> Served(i, p)
  BY <1>1, <1>2 DEF Served, Places
<1>7. \A p : (Begun(p)' <=> Begun(p)) /\ (Expected(p)' <=> Expected(p))
  BY <1>5, <1>6 DEF Begun, Expected
<1>8. SpanInv'
  BY <1>0, <1>1, <1>5, <1>7 DEF SpanInv
<1>9. LoanInv'
  <2>1. \A q \in DOMAIN allocated' : allocated'[q] \in System \cup {Ancilla(n) : n \in 0 .. size' - 1}
    BY <1>0, <1>1 DEF LoanInv, poolVars
  <2>2. LoansAreDistinct'
    BY <1>0, <1>1, <1>5 DEF LoanInv, LoansAreDistinct, poolVars, Number
  <2>3. borrowable' \subseteq SystemQubits' /\ phase' # "place"
    BY <1>0, <1>1, <1>5 DEF LoanInv
  <2>4. \A q \in DOMAIN allocated', t \in SystemQubits' : allocated'[q] = t => IdleLoan(q, t)'
    BY <1>0, <1>1, <1>5 DEF LoanInv, IdleLoan
  <2>. QED
    BY <2>1, <2>2, <2>3, <2>4 DEF LoanInv, Ancilla
<1>10. PoolInv'
  BY <1>0, <1>1 DEF PoolInv, PoolTypes, PoolPartition, Elements, Different, poolVars
<1>. QED
  BY <1>0, <1>1, <1>3, <1>4, <1>8, <1>9, <1>10 DEF MapInv

\* One pass of the loop over op_temp_qubits: the assertions hold, a qubit the manager
\* gives is in nobody's hands, a system qubit that is lent is idle and not lent yet.
LEMMA PlaceNextStep ==
    ASSUME MapInv, PlaceNext
    PROVE  MapInv'
<1>0. CircuitInv /\ PhaseInv /\ SpanInv /\ LoanInv /\ PoolInv /\ failed = FALSE
  BY DEF MapInv
<1>. PICK j, q : j = Min(todo) /\ q = Op.on[j]
  OBVIOUS
<1>1. /\ phase = "place" /\ todo # {} /\ todo' = todo \ {j}
      /\ toFree' = IF Last(q) = Op.at THEN toFree \cup {q} ELSE toFree
      /\ UNCHANGED <<circuit, phase, pos, freeing, lastIdx, mapped>>
  BY DEF PlaceNext
<1>2. pos \in Places /\ Op = circuit[pos] /\ todo \subseteq TempPlaces(pos) /\ pos \in Nat
  BY <1>0, <1>1 DEF PhaseInv, Places, Op
<1>3. j \in todo
  <2>1. circuit[pos].on \in Seq(System \cup Temps)
    BY <1>0, <1>2, CircuitFacts
  <2>2. todo \in SUBSET Nat
    BY <1>2, <2>1 DEF TempPlaces
  <2>. QED
    BY <1>1, <2>2, MinExists
<1>4. /\ q \in Temps /\ Acts(pos, q) /\ ~Served(pos, q) /\ Expected(q)
      /\ (First(q) < Op.at) <=> Begun(q)
      /\ Begun(q) <=> q \in DOMAIN allocated
  BY <1>0, <1>1, <1>3, SeenBefore
<1>5. \A i \in todo : Op.on[i] = q => i = j
  <2>1. Different(circuit[pos].on)
    BY <1>0, <1>2, CircuitFacts
  <2>. QED
    BY <1>2, <1>3, <2>1 DEF Different, TempPlaces
<1>7. /\ failed' = FALSE
      /\ \/ q \in DOMAIN allocated /\ UNCHANGED <<poolVars, allocated, borrowable>>
         \/ /\ q \notin DOMAIN allocated /\ Alloc(1)
            /\ allocated' = Assigned(q, Ancilla(Given(1)[1]))
            /\ UNCHANGED borrowable
         \/ /\ q \notin DOMAIN allocated /\ Idle(q) # {}
            /\ allocated' = Assigned(q, Min(Idle(q)))
            /\ borrowable' = borrowable \ {Min(Idle(q))}
            /\ UNCHANGED poolVars
  <2>1. /\ (q \in DOMAIN allocated \/ First(q) < Op.at) <=> q \in DOMAIN allocated
        /\ (First(q) < Op.at /\ q \in DOMAIN allocated) <=> q \in DOMAIN allocated
    BY <1>4
  <2>2. \/ /\ q \in DOMAIN allocated \/ First(q) < Op.at
           /\ failed' = ~(First(q) < Op.at /\ q \in DOMAIN allocated)
           /\ UNCHANGED <<poolVars, allocated, borrowable>>
        \/ /\ ~(q \in DOMAIN allocated \/ First(q) < Op.at) /\ Alloc(1)
           /\ allocated' = Assigned(q, Ancilla(Given(1)[1]))
           /\ UNCHANGED <<borrowable, failed>>
        \/ /\ ~(q \in DOMAIN allocated \/ First(q) < Op.at) /\ Idle(q) # {}
           /\ allocated' = Assigned(q, Min(Idle(q)))
           /\ borrowable' = borrowable \ {Min(Idle(q))}
           /\ UNCHANGED <<poolVars, failed>>
    BY Zenon DEF PlaceNext
  <2>3. CASE q \in DOMAIN allocated
    BY <2>1, <2>2, <2>3
  <2>4. CASE q \notin DOMAIN allocated
    BY <1>0, <2>1, <2>2, <2>4
  <2>. QED
    BY <2>3, <2>4
<1>8. /\ DOMAIN allocated' = DOMAIN allocated \cup {q}
      /\ \A p \in DOMAIN allocated : allocated'[p] = allocated[p]
  BY <1>7 DEF Assigned
<1>9. CircuitInv'
  BY <1>0, <1>1 DEF CircuitInv, Places
<1>10. PhaseInv'
  BY <1>0, <1>1, <1>2 DEF PhaseInv, Places, TempPlaces, Op
<1>11. /\ \A i, p : Acts(i, p)' <=> Acts(i, p)
       /\ Places' = Places /\ Op' = Op /\ SystemQubits' = SystemQubits
       /\ \A i : TempPlaces(i)' = TempPlaces(i)
  BY <1>1 DEF Acts, Places, Op, QubitsOf, Elements, SystemQubits, AllQubits, TempPlaces
<1>12. \A i, p : Served(i, p)' <=> Served(i, p) \/ (i = pos /\ p = q)
  BY <1>1, <1>3, <1>5, <1>11 DEF Served
<1>13. /\ \A p : Begun(p)' <=> Begun(p) \/ p = q
       /\ \A p : p # q => (Expected(p)' <=> Expected(p))
  BY <1>2, <1>4, <1>11, <1>12 DEF Begun, Expected
<1>14. Expected(q)' <=> Last(q) # Op.at
  <2>1. Last(q) = Op.at <=> \A k \in Places : Acts(k, q) => k <= pos
    BY <1>0, <1>2, <1>4, LastOperation
  <2>2. \A k \in Places : Served(k, q)' <=> k <= pos
    <3>1. \A k \in Places : Served(k, q) <=> k < pos
      BY <1>2, <1>4 DEF Served
    <3>2. \A k \in Places : k <= pos <=> (k < pos \/ k = pos)
      BY <1>2 DEF Places
    <3>. QED
      BY <1>12, <3>1, <3>2
  <2>. QED
    BY <1>11, <2>1, <2>2 DEF Expected
<1>15. SpanInv'
  <2>1. \A p \in DOMAIN allocated' : p \in Temps /\ Begun(p)'
    BY <1>0, <1>4, <1>8, <1>13 DEF SpanInv
  <2>2. \A p \in Temps : Begun(p)' /\ Expected(p)' => p \in DOMAIN allocated'
    BY <1>0, <1>8, <1>13 DEF SpanInv
  <2>3. \A i \in TempPlaces(pos) \ todo' : Op.on[i] \in DOMAIN allocated'
    BY <1>0, <1>1, <1>8 DEF SpanInv
  <2>4. toFree' = {p \in DOMAIN allocated' : ~Expected(p)'}
    <3>1. toFree = {p \in DOMAIN allocated : ~Expected(p)} /\ q \notin toFree
      BY <1>0, <1>4 DEF SpanInv
    <3>2. {p \in DOMAIN allocated' : ~Expected(p)'}
             = toFree \cup {p \in {q} : ~Expected(p)'}
      BY <1>4, <1>8, <1>13, <3>1
    <3>3. CASE Last(q) = Op.at
      BY <1>1, <1>14, <3>2, <3>3
    <3>4. CASE Last(q) # Op.at
      BY <1>1, <1>14, <3>2, <3>4
    <3>. QED
      BY <3>3, <3>4
  <2>5. freeing' \subseteq toFree'
    BY <1>0, <1>1 DEF SpanInv
  <2>6. \A p \in toFree' : \E i \in Places' : Acts(i, p)' /\ circuit'[i].at = lastIdx'
    <3>1. lastIdx = circuit[pos].at
      BY <1>0, <1>1, <1>2 DEF PhaseInv
    <3>. QED
      BY <1>0, <1>1, <1>2, <1>4, <1>11, <3>1 DEF SpanInv
  <2>. QED
    BY <1>1, <1>11, <2>1, <2>2, <2>3, <2>4, <2>5, <2>6 DEF SpanInv
<1>16. \A p \in DOMAIN allocated, t \in SystemQubits' : allocated'[p] = t => IdleLoan(p, t)'
  BY <1>0, <1>1, <1>8, <1>11 DEF LoanInv, IdleLoan
<1>17. SystemQubits \subseteq Nat /\ System \subseteq Nat /\ SystemQubits \subseteq System
  BY <1>0, CircuitFacts
<1>18. CASE q \in DOMAIN allocated
  <2>1. UNCHANGED <<poolVars, allocated, borrowable>>
    BY <1>7, <1>18
  <2>2. PoolInv'
    BY <1>0, <2>1 DEF PoolInv, PoolTypes, PoolPartition, Elements, Different, poolVars
  <2>3. LoanInv'
    BY <1>0, <1>1, <1>11, <1>16, <2>1 DEF LoanInv, LoansAreDistinct, Held, poolVars, Number, Ancilla
  <2>. QED
    BY <1>7, <1>9, <1>10, <1>15, <2>2, <2>3 DEF MapInv
<1>19. CASE q \notin DOMAIN allocated /\ Alloc(1) /\ allocated' = Assigned(q, Ancilla(Given(1)[1]))
            /\ UNCHANGED borrowable
  <2>. PICK n : n = Given(1)[1]
    OBVIOUS
  <2>1. /\ PoolInv' /\ Given(1) \in Seq(Nat) /\ Len(Given(1)) = 1
        /\ Elements(Given(1)) \cap used = {} /\ Elements(Given(1)) \subseteq 0 .. size' - 1
        /\ size <= size' /\ used' = used \cup Elements(Given(1))
    <3>1. Alloc(1) /\ 1 \in Nat \ {0}
      BY <1>19
    <3>2. used' = used \cup Elements(Given(1))
      BY <3>1 DEF Alloc
    <3>. QED
      BY <1>0, <3>1, <3>2, AllocStep
  <2>2. n \in Elements(Given(1))
    BY <2>1 DEF Elements
  <2>3. n \in Nat /\ n \notin used /\ n \in used' /\ n \in 0 .. size' - 1 /\ used \subseteq used'
        /\ size \in Nat /\ size' \in Nat
    <3>1. n \in Nat
      BY <2>1
    <3>2. size \in Nat /\ size' \in Nat
      BY <1>0, <2>1 DEF PoolInv, PoolTypes
    <3>. QED
      BY <2>1, <2>2, <3>1, <3>2
  <2>4. allocated'[q] = Ancilla(n)
    BY <1>19 DEF Assigned
  <2>5. Ancilla(n) < 0 /\ Ancilla(n) \in Int /\ Number(Ancilla(n)) = n /\ Ancilla(n) \notin SystemQubits
    BY <1>17, <2>3 DEF Ancilla, Number
  <2>6. \A p \in DOMAIN allocated : allocated[p] # Ancilla(n)
    BY <1>0, <2>3, <2>5 DEF LoanInv, LoansAreDistinct
  <2>7. LoansAreDistinct'
    <3>1. \A p \in DOMAIN allocated : allocated[p] \notin SystemQubits => Number(allocated[p]) \in used'
      BY <1>0, <2>3 DEF LoanInv, LoansAreDistinct
    <3>2. \A p, r \in DOMAIN allocated : allocated[p] = allocated[r] => p = r
      BY <1>0 DEF LoanInv, LoansAreDistinct
    <3>3. \A p \in DOMAIN allocated' : allocated'[p] \notin SystemQubits => Number(allocated'[p]) \in used'
      BY <1>8, <2>3, <2>4, <2>5, <3>1
    <3>4. \A p, r \in DOMAIN allocated' : allocated'[p] = allocated'[r] => p = r
      BY <1>8, <2>4, <2>6, <3>2
    <3>. QED
      BY <1>11, <3>3, <3>4 DEF LoansAreDistinct, Number
  <2>8. \A p \in DOMAIN allocated' : allocated'[p] \in System \cup {Ancilla(m) : m \in 0 .. size' - 1}
    <3>1. \A s, s2 \in Nat : s <= s2 => \A m \in 0 .. s - 1 : m \in 0 .. s2 - 1
      OBVIOUS
    <3>2. \A m \in 0 .. size - 1 : m \in 0 .. size' - 1
      <4>1. size <= size' /\ size \in Nat /\ size' \in Nat
        BY <2>1, <2>3
      <4>. QED
        BY <3>1, <4>1
    <3>3. \A p \in DOMAIN allocated : allocated[p] \in System \cup {Ancilla(m) : m \in 0 .. size - 1}
      BY <1>0 DEF LoanInv
    <3>4. ASSUME NEW p \in DOMAIN allocated
          PROVE  allocated[p] \in System \cup {Ancilla(m) : m \in 0 .. size' - 1}
      <4>1. CASE allocated[p] \in System
        BY <4>1
      <4>2. CASE allocated[p] \in {Ancilla(m) : m \in 0 .. size - 1}
        <5>1. PICK m \in 0 .. size - 1 : allocated[p] = Ancilla(m)
          BY <4>2
        <5>2. m \in 0 .. size' - 1
          BY <3>2
        <5>. QED
          BY <5>1, <5>2
      <4>. QED
        BY <3>3, <4>1, <4>2
    <3>5. Ancilla(n) \in {Ancilla(m) : m \in 0 .. size' - 1}
      BY <2>3
    <3>. QED
      BY <1>8, <2>4, <3>4, <3>5
  <2>9. borrowable' \subseteq SystemQubits' /\ borrowable' \cap Held' = {}
    <3>1. borrowable \subseteq SystemQubits /\ borrowable \cap Held = {}
      BY <1>0, <1>1 DEF LoanInv
    <3>2. Held' = Held \cup {Ancilla(n)}
      BY <1>8, <2>4 DEF Held
    <3>. QED
      BY <1>11, <1>19, <2>5, <3>1, <3>2
  <2>10. \A p \in DOMAIN allocated', v \in SystemQubits' : allocated'[p] = v => IdleLoan(p, v)'
    BY <1>8, <1>11, <1>16, <2>4, <2>5
  <2>. QED
    BY <1>7, <1>9, <1>10, <1>15, <2>1, <2>7, <2>8, <2>9, <2>10 DEF MapInv, LoanInv, Ancilla
<1>20. CASE q \notin DOMAIN allocated /\ Idle(q) # {} /\ allocated' = Assigned(q, Min(Idle(q)))
            /\ borrowable' = borrowable \ {Min(Idle(q))} /\ UNCHANGED poolVars
  <2>. PICK t : t = Min(Idle(q))
    OBVIOUS
  <2>1. borrowable \subseteq SystemQubits /\ borrowable \cap Held = {}
    BY <1>0, <1>1 DEF LoanInv
  <2>2. t \in Idle(q) /\ t \in borrowable /\ t \in SystemQubits
    <3>1. Idle(q) \subseteq borrowable /\ Idle(q) \in SUBSET Nat
      BY <1>17, <2>1 DEF Idle
    <3>. QED
      BY <1>20, <2>1, <3>1, MinExists
  <2>3. allocated'[q] = t /\ borrowable' = borrowable \ {t} /\ UNCHANGED poolVars
    BY <1>20 DEF Assigned
  <2>4. \A p \in DOMAIN allocated : allocated[p] # t
    BY <2>1, <2>2 DEF Held
  <2>5. LoansAreDistinct'
    <3>2. \A p, r \in DOMAIN allocated' : allocated'[p] = allocated'[r] => p = r
      BY <1>0, <1>8, <2>3, <2>4 DEF LoanInv, LoansAreDistinct
    <3>3. \A p \in DOMAIN allocated' : allocated'[p] \notin SystemQubits => Number(allocated'[p]) \in used'
      BY <1>0, <1>8, <2>2, <2>3 DEF LoanInv, LoansAreDistinct, poolVars
    <3>. QED
      BY <1>11, <3>2, <3>3 DEF LoansAreDistinct, Number
  <2>6. \A p \in DOMAIN allocated' : allocated'[p] \in System \cup {Ancilla(m) : m \in 0 .. size' - 1}
    BY <1>0, <1>8, <1>17, <2>2, <2>3 DEF LoanInv, poolVars
  <2>7. borrowable' \subseteq SystemQubits' /\ borrowable' \cap Held' = {}
    <3>2. Held' = Held \cup {t}
      BY <1>8, <2>3 DEF Held
    <3>. QED
      BY <1>11, <2>1, <2>3, <3>2
  <2>8. IdleLoan(q, t)
    <3>. SUFFICES ASSUME NEW i \in Places, NEW k \in Places, NEW m \in Places,
                         Acts(i, q), Acts(k, q),
                         circuit[m].at \in circuit[i].at .. circuit[k].at, Acts(m, t)
                  PROVE  FALSE
      BY DEF IdleLoan
    <3>1. /\ First(q) \in Nat /\ Last(q) \in Nat
          /\ First(q) <= circuit[i].at /\ circuit[k].at <= Last(q)
      BY <1>0, Lifespan
    <3>2. circuit[i].at \in Nat /\ circuit[k].at \in Nat /\ circuit[m].at \in Nat
          /\ DOMAIN circuit = Places
      BY <1>0, CircuitFacts
    <3>3. circuit[m].at \in First(q) .. Last(q)
      BY <3>1, <3>2
    <3>4. circuit[m] \in OperationsBetween(First(q), Last(q))
      BY <2>2, <3>2, <3>3 DEF OperationsBetween, Elements, Acts
    <3>. QED
      BY <2>2, <3>4 DEF Idle, Acts
  <2>9. \A p \in DOMAIN allocated', v \in SystemQubits' : allocated'[p] = v => IdleLoan(p, v)'
    <3>1. IdleLoan(q, t)'
      BY <1>1, <1>11, <2>8 DEF IdleLoan
    <3>. QED
      BY <1>8, <1>16, <2>3, <3>1
  <2>10. PoolInv'
    BY <1>0, <2>3 DEF PoolInv, PoolTypes, PoolPartition, Elements, Different, poolVars
  <2>. QED
    BY <1>7, <1>9, <1>10, <1>15, <2>5, <2>6, <2>7, <2>9, <2>10 DEF MapInv, LoanInv, Ancilla
<1>. QED
  BY <1>7, <1>18, <1>19, <1>20

\* The manager's other clients, before the call.
LEMMA SetupStep ==
    ASSUME MapInv, Setup
    PROVE  MapInv'
<1>1. PoolInv /\ [PoolNext]_poolVars /\ phase = "setup" /\ UNCHANGED mapVars
  BY DEF MapInv, Setup
<1>2. PoolInv'
  BY <1>1, PoolStep
<1>. QED
  BY <1>1, <1>2, SameMap

\* The invariant is inductive, action by action.
LEMMA MapStep ==
    ASSUME MapInv, [Next]_vars
    PROVE  MapInv'
<1>1. CASE Next
  <2>1. Setup => MapInv'
    BY SetupStep
  <2>2. Call => MapInv'
    BY CallStep
  <2>3. FreeNext => MapInv'
    BY FreeNextStep
  <2>4. Freed => MapInv'
    BY FreedStep
  <2>5. PlaceNext => MapInv'
    BY PlaceNextStep
  <2>6. Emit => MapInv'
    BY EmitStep
  <2>. QED
    BY <1>1, <2>1, <2>2, <2>3, <2>4, <2>5, <2>6 DEF Next
<1>2. CASE UNCHANGED vars
  <2>1. UNCHANGED mapVars /\ UNCHANGED poolVars
    BY <1>2 DEF vars
  <2>2. PoolInv'
    BY <2>1, PoolStep DEF MapInv
  <2>. QED
    BY <2>1, <2>2, SameMap
<1>. QED
  BY <1>1, <1>2

\* It holds before the call.
LEMMA MapStart ==
    ASSUME Init
    PROVE  MapInv
<1>1. PoolInv
  BY DEF Init, PoolInit, PoolInv, PoolTypes, PoolPartition, Different, Elements
<1>2. CircuitInv
  BY DEF Init, CircuitInv, Places
<1>3. PhaseInv
  BY DEF Init, PhaseInv, Places
<1>4. SpanInv
  BY DEF Init, SpanInv, Begun, Expected, Places
<1>5. LoanInv
  BY DEF Init, LoanInv, LoansAreDistinct
<1>6. failed = FALSE
  BY DEF Init
<1>. QED
  BY <1>1, <1>2, <1>3, <1>4, <1>5, <1>6 DEF MapInv

\* So it holds throughout.
LEMMA MapInvHolds == Spec => []MapInv
<1>1. Init => MapInv
  BY MapStart
<1>2. MapInv /\ [Next]_vars => MapInv'
  BY MapStep
<1>. QED
  BY <1>1, <1>2, PTL DEF Spec

\* For any circuit, pool and strategy of the manager: the assertions of map_func and of
\* qfree hold and allocated_map never misses a key, so the transformer returns a circuit
\* and gives back each qubit exactly once.
THEOREM MappingNeverFails == Spec => []NoAssertionFails
<1>1. MapInv => NoAssertionFails
  BY DEF MapInv, NoAssertionFails
<1>. QED
  BY <1>1, MapInvHolds, PTL

\* While a temporary qubit has a mapping it is the only one with that mapping, and what
\* it holds of the manager the manager counts as in use.
THEOREM LoansAreHeldOnce == Spec => []LoansAreDistinct
<1>1. MapInv => LoansAreDistinct
  BY DEF MapInv, LoanInv
<1>. QED
  BY <1>1, MapInvHolds, PTL

\* The transformer keeps the manager's pool in order, whatever other clients did with it
\* before the call.
THEOREM MappingKeepsThePool == Spec => []PoolPartition
<1>1. MapInv => PoolPartition
  BY DEF MapInv, PoolInv
<1>. QED
  BY <1>1, MapInvHolds, PTL

----------------------------------------------------------------------------
\* The result, operation by operation.

\* Any two numbers of operations of the result are places of the circuit.
LEMMA ResultPlaces ==
    ASSUME CircuitInv, PhaseInv
    PROVE  /\ pos \in Nat \ {0}
           /\ \A i \in Emitted : i \in Places /\ i \in Nat /\ i < pos
           /\ phase = "setup" => pos = 1
<1>1. Len(circuit) \in Nat
  BY CircuitFacts
<1>2. pos = Len(circuit) + 1 \/ pos \in Places
  BY DEF PhaseInv
<1>3. phase = "setup" => Len(circuit) = 0
  BY DEF PhaseInv
<1>. QED
  BY <1>1, <1>2, <1>3 DEF Places, PhaseInv, Emitted

\* Steps that add no operation to the result.
LEMMA SameResult ==
    ASSUME MapInv, MappedInv, ExclusiveInv, UNCHANGED <<circuit, mapped, pos>>,
           \A q \in DOMAIN allocated' :
               \/ q \in DOMAIN allocated /\ allocated'[q] = allocated[q]
               \/ ~Begun(q),
           \A i \in Emitted : \A j \in Slots(i) :
               phase' \in {"free", "place"} /\ circuit[i].at = Op.at /\ circuit[i].on[j] \in Temps
                   /\ mapped[i][j] \in SystemQubits => circuit[i].on[j] \in DOMAIN allocated'
    PROVE  MappedInv' /\ ExclusiveInv'
<1>1. /\ pos \in Nat /\ \A i \in Emitted : i \in Places /\ i \in Nat /\ i < pos
  BY ResultPlaces DEF MapInv
<1>2. \A i \in Emitted, q \in DOMAIN allocated' :
         Acts(i, q) => q \in DOMAIN allocated /\ allocated'[q] = allocated[q]
  <2>1. \A q : \A i \in Emitted : Served(i, q)
    BY <1>1 DEF Served
  <2>. QED
    BY <1>1, <2>1 DEF Begun
<1>3. \A i, j : j \in Slots(i) => Acts(i, circuit[i].on[j])
  BY DEF Slots, Acts, QubitsOf, Elements
<1>4. /\ Emitted' = Emitted /\ Op' = Op /\ SystemQubits' = SystemQubits /\ \A i : Slots(i)' = Slots(i)
      /\ \A i : TempPlaces(i)' = TempPlaces(i)
      /\ \A i, q : Acts(i, q)' <=> Acts(i, q)
  BY DEF Emitted, Op, SystemQubits, AllQubits, QubitsOf, Elements, Slots, TempPlaces, Acts
<1>5. MappedInv'
  <2>1. /\ mapped' \in Seq(Seq(Int)) /\ Len(mapped') = pos' - 1
        /\ \A i \in Emitted' : DOMAIN mapped'[i] = Slots(i)'
    BY <1>4 DEF MappedInv
  <2>2. \A i \in Emitted' : \A j \in Slots(i)' :
           circuit'[i].on[j] \notin Temps => mapped'[i][j] = circuit'[i].on[j]
    BY <1>4 DEF MappedInv
  <2>3. \A i \in Emitted' : \A j \in Slots(i)' :
           circuit'[i].on[j] \in DOMAIN allocated' => mapped'[i][j] = allocated'[circuit'[i].on[j]]
    BY <1>2, <1>3, <1>4 DEF MappedInv
  <2>4. \A q \in DOMAIN allocated' : \A i, m \in Emitted' : i <= m /\ Acts(i, q)' =>
           \A h \in Slots(m)' : mapped'[m][h] = allocated'[q] => circuit'[m].on[h] = q
    BY <1>2, <1>4 DEF MappedInv
  <2>. QED
    BY <1>4, <2>1, <2>2, <2>3, <2>4 DEF MappedInv
<1>6. ExclusiveInv'
  BY <1>4 DEF ExclusiveInv, Elements
<1>. QED
  BY <1>5, <1>6

\* The steps of map_func before an operation is emitted, and those before the call.
LEMMA QuietStep ==
    ASSUME MapInv, MappedInv, ExclusiveInv,
           Setup \/ Call \/ FreeNext \/ Freed \/ PlaceNext \/ UNCHANGED vars
    PROVE  MappedInv' /\ ExclusiveInv'
<1>0. CircuitInv /\ PhaseInv /\ SpanInv /\ LoanInv /\ PoolInv
  BY DEF MapInv
<1>1. /\ pos \in Nat /\ \A i \in Emitted : i \in Places /\ i \in Nat /\ i < pos
      /\ phase = "setup" => pos = 1
  BY <1>0, ResultPlaces
<1>2. CASE Setup \/ Freed \/ UNCHANGED vars
  <2>1. UNCHANGED <<circuit, mapped, pos, allocated>>
        /\ (phase' \in {"free", "place"} => phase \in {"free", "place"})
    BY <1>2 DEF Setup, Freed, mapVars, vars
  <2>. QED
    BY <2>1, SameResult DEF MappedInv
<1>3. CASE Call
  <2>1. /\ pos = 1 /\ UNCHANGED <<pos, mapped, allocated>> /\ mapped \in Seq(Seq(Int))
        /\ Len(mapped) = pos - 1
    BY <1>1, <1>3 DEF Call, MappedInv
  <2>2. \A i \in Emitted' : FALSE
    BY <2>1 DEF Emitted
  <2>3. MappedInv'
    BY <2>1, <2>2 DEF MappedInv
  <2>4. ExclusiveInv'
    BY <2>2 DEF ExclusiveInv
  <2>. QED
    BY <2>3, <2>4
<1>4. CASE FreeNext
  <2>1. PICK q : q = Min(freeing)
    OBVIOUS
  <2>2. /\ UNCHANGED <<circuit, mapped, pos, phase>> /\ phase = "free"
        /\ \/ UNCHANGED allocated
           \/ /\ q \in DOMAIN allocated /\ MayFree(q)
              /\ allocated' = [p \in DOMAIN allocated \ {q} |-> allocated[p]]
    BY <1>4, <2>1 DEF FreeNext
  <2>3. CASE UNCHANGED allocated
    BY <2>2, <2>3, SameResult DEF MappedInv
  <2>4. CASE /\ q \in DOMAIN allocated /\ MayFree(q)
             /\ allocated' = [p \in DOMAIN allocated \ {q} |-> allocated[p]]
    <3>1. ASSUME NEW i \in Emitted, NEW j \in Slots(i), circuit[i].at = Op.at,
                 circuit[i].on[j] \in Temps, mapped[i][j] \in SystemQubits
          PROVE  circuit[i].on[j] \in DOMAIN allocated'
      <4>1. circuit[i].on[j] \in DOMAIN allocated /\ mapped[i][j] = allocated[circuit[i].on[j]]
        BY <2>2, <3>1 DEF MappedInv
      <4>2. SUFFICES ASSUME circuit[i].on[j] = q PROVE FALSE
        BY <2>4, <4>1
      <4>3. Op.at > lastIdx
        BY <2>4, <3>1, <4>1, <4>2 DEF MayFree, IsManaged
      <4>4. pos \in Places /\ Op = circuit[pos] /\ i \in Places /\ i <= pos - 1
        BY <1>0, <1>1, <2>2 DEF PhaseInv, Op
      <4>5. lastIdx = circuit[pos - 1].at /\ pos - 1 \in Places
        BY <1>0, <1>1, <2>2, <4>4 DEF PhaseInv, Places
      <4>6. circuit[i].at <= circuit[pos - 1].at
        BY <1>0, <4>4, <4>5 DEF CircuitInv
      <4>7. circuit[i].at \in Nat /\ circuit[pos - 1].at \in Nat
        BY <1>0, <4>4, <4>5, CircuitFacts
      <4>. QED
        BY <3>1, <4>3, <4>5, <4>6, <4>7
    <3>2. \A p \in DOMAIN allocated' : p \in DOMAIN allocated /\ allocated'[p] = allocated[p]
      BY <2>4
    <3>. QED
      BY <2>2, <3>1, <3>2, SameResult
  <2>. QED
    BY <2>2, <2>3, <2>4
<1>5. CASE PlaceNext
  <2>1. PICK j, q : j = Min(todo) /\ q = Op.on[j]
    OBVIOUS
  <2>2. /\ UNCHANGED <<circuit, mapped, pos, phase>> /\ phase = "place" /\ todo # {}
        /\ \/ UNCHANGED allocated
           \/ q \notin DOMAIN allocated /\ \E t : allocated' = Assigned(q, t)
    BY <1>5, <2>1 DEF PlaceNext
  <2>3. j \in todo
    <3>1. pos \in Places /\ todo \subseteq TempPlaces(pos)
      BY <1>0, <2>2 DEF PhaseInv
    <3>2. circuit[pos].on \in Seq(System \cup Temps)
      BY <1>0, <3>1, CircuitFacts
    <3>3. todo \in SUBSET Nat
      BY <3>1, <3>2 DEF TempPlaces
    <3>. QED
      BY <2>1, <2>2, <3>3, MinExists
  <2>4. Begun(q) <=> q \in DOMAIN allocated
    BY <1>0, <2>1, <2>2, <2>3, SeenBefore
  <2>5. /\ \A p \in DOMAIN allocated' : \/ p \in DOMAIN allocated /\ allocated'[p] = allocated[p]
                                        \/ ~Begun(p)
        /\ DOMAIN allocated \subseteq DOMAIN allocated'
    BY <2>2, <2>4 DEF Assigned
  <2>6. \A i \in Emitted : \A h \in Slots(i) :
           phase' \in {"free", "place"} /\ circuit[i].at = Op.at /\ circuit[i].on[h] \in Temps
               /\ mapped[i][h] \in SystemQubits => circuit[i].on[h] \in DOMAIN allocated'
    BY <2>2, <2>5 DEF MappedInv
  <2>. QED
    BY <2>2, <2>5, <2>6, SameResult
<1>. QED
  BY <1>2, <1>3, <1>4, <1>5

\* transform_qubits: the operation's temporary qubits have mappings, and what they are
\* mapped to is used by nothing else in this operation.
LEMMA EmitMapped ==
    ASSUME MapInv, MappedInv, Emit
    PROVE  MappedInv'
<1>0. CircuitInv /\ PhaseInv /\ SpanInv /\ LoanInv /\ PoolInv
  BY DEF MapInv
<1>a. /\ mapped \in Seq(Seq(Int)) /\ Len(mapped) = pos - 1
      /\ \A i \in Emitted : DOMAIN mapped[i] = Slots(i)
      /\ \A i \in Emitted : \A j \in Slots(i) :
            /\ circuit[i].on[j] \notin Temps => mapped[i][j] = circuit[i].on[j]
            /\ circuit[i].on[j] \in DOMAIN allocated => mapped[i][j] = allocated[circuit[i].on[j]]
  BY DEF MappedInv
<1>b. \A i \in Emitted : \A j \in Slots(i) :
         phase = "place" /\ circuit[i].at = Op.at /\ circuit[i].on[j] \in Temps
             /\ mapped[i][j] \in SystemQubits => circuit[i].on[j] \in DOMAIN allocated
  BY DEF MappedInv
<1>c. \A q \in DOMAIN allocated : \A i, m \in Emitted : i <= m /\ Acts(i, q) =>
         \A h \in Slots(m) : mapped[m][h] = allocated[q] => circuit[m].on[h] = q
  BY DEF MappedInv
<1>. PICK new : new = [j \in DOMAIN Op.on |-> Target(Op.on[j])]
  OBVIOUS
<1>1. /\ phase = "place" /\ todo = {} /\ pos' = pos + 1 /\ mapped' = Append(mapped, new)
      /\ UNCHANGED <<circuit, lastIdx, allocated>>
      /\ phase' \in {"free", "place"} => pos # Len(circuit)
  BY DEF Emit
<1>u. circuit' = circuit /\ allocated' = allocated
  BY <1>1
<1>2. /\ pos \in Nat /\ pos \in Places /\ Op = circuit[pos] /\ Len(circuit) \in Nat
      /\ \A i \in Emitted : i \in Places /\ i \in Nat /\ i < pos
  BY <1>0, <1>1, ResultPlaces, CircuitFacts DEF PhaseInv, Op
<1>3. /\ SystemQubits' = SystemQubits /\ \A i : Slots(i)' = Slots(i)
      /\ \A i, q : Acts(i, q)' <=> Acts(i, q)
  BY <1>1 DEF SystemQubits, AllQubits, QubitsOf, Elements, Slots, Acts
<1>4. \A j \in Slots(pos) : circuit[pos].on[j] \in Temps => circuit[pos].on[j] \in DOMAIN allocated
  BY <1>0, <1>1, <1>2 DEF SpanInv, TempPlaces, Slots
<1>5. /\ DOMAIN new = Slots(pos)
      /\ \A j \in Slots(pos) : new[j] = Target(circuit[pos].on[j])
  BY <1>2 DEF Slots
<1>6. new \in Seq(Int)
  <2>1. circuit[pos].on \in Seq(System \cup Temps) /\ System \subseteq Nat
    BY <1>0, <1>2, CircuitFacts
  <2>2. \A j \in Slots(pos) : circuit[pos].on[j] \in System \cup Temps
    BY <2>1 DEF Slots
  <2>4. \A q \in DOMAIN allocated : allocated[q] \in Int
    BY <1>0, LoanIsNumber
  <2>5. ASSUME NEW j \in Slots(pos) PROVE new[j] \in Int
    <3>1. CASE circuit[pos].on[j] \in Temps
      BY <1>4, <1>5, <2>4, <3>1 DEF Target
    <3>2. CASE circuit[pos].on[j] \notin Temps
      <4>1. new[j] = circuit[pos].on[j]
        BY <1>5, <3>2 DEF Target
      <4>2. circuit[pos].on[j] \in System
        BY <2>2, <3>2
      <4>3. \A v \in System : v \in Int
        BY <2>1
      <4>. QED
        BY <4>1, <4>2, <4>3
    <3>. QED
      BY <3>1, <3>2
  <2>6. Slots(pos) = 1 .. Len(circuit[pos].on) /\ Len(circuit[pos].on) \in Nat
    BY <2>1 DEF Slots
  <2>7. new = [j \in 1 .. Len(circuit[pos].on) |-> new[j]]
    BY <1>5, <2>6
  <2>8. new \in [1 .. Len(circuit[pos].on) -> Int]
    BY <2>5, <2>6, <2>7
  <2>. QED
    BY <2>6, <2>8
<1>7. /\ mapped' \in Seq(Seq(Int)) /\ Len(mapped') = pos /\ mapped'[pos] = new
      /\ \A i \in Emitted : mapped'[i] = mapped[i]
  BY <1>a, <1>1, <1>2, <1>6 DEF Emitted
<1>8. Emitted' = Emitted \cup {pos}
  BY <1>1, <1>2 DEF Places, Emitted
<1>9. \A i \in Emitted' : DOMAIN mapped'[i] = Slots(i)
  BY <1>a, <1>5, <1>7, <1>8
<1>10. \A i \in Emitted' : \A j \in Slots(i) :
          /\ circuit[i].on[j] \notin Temps => mapped'[i][j] = circuit[i].on[j]
          /\ circuit[i].on[j] \in DOMAIN allocated => mapped'[i][j] = allocated[circuit[i].on[j]]
  <2>1. \A q \in DOMAIN allocated : q \in Temps
    BY <1>0 DEF SpanInv
  <2>2. \A j \in Slots(pos) :
          /\ circuit[pos].on[j] \notin Temps => new[j] = circuit[pos].on[j]
          /\ circuit[pos].on[j] \in DOMAIN allocated => new[j] = allocated[circuit[pos].on[j]]
    BY <1>5, <2>1 DEF Target
  <2>. SUFFICES ASSUME NEW i \in Emitted', NEW j \in Slots(i)
                PROVE  /\ circuit[i].on[j] \notin Temps => mapped'[i][j] = circuit[i].on[j]
                       /\ circuit[i].on[j] \in DOMAIN allocated
                            => mapped'[i][j] = allocated[circuit[i].on[j]]
    OBVIOUS
  <2>3. CASE i = pos
    <3>1. mapped'[i][j] = new[j]
      BY <1>7, <2>3
    <3>. QED
      BY <2>2, <2>3, <3>1
  <2>4. CASE i \in Emitted
    <3>1. mapped'[i] = mapped[i]
      BY <1>7, <2>4
    <3>. QED
      BY <1>a, <2>4, <3>1
  <2>. QED
    BY <1>8, <2>3, <2>4
<1>11. ASSUME NEW i \in Emitted', NEW j \in Slots(i), phase' \in {"free", "place"},
              circuit[i].at = Op'.at, circuit[i].on[j] \in Temps, mapped'[i][j] \in SystemQubits
       PROVE  circuit[i].on[j] \in DOMAIN allocated
  <2>1. CASE i = pos
    BY <1>4, <1>11, <2>1
  <2>2. CASE i \in Emitted
    <3>1. pos + 1 \in Places /\ Op' = circuit[pos + 1] /\ i \in Places /\ i <= pos /\ pos <= pos + 1
      BY <1>1, <1>2, <1>11, <2>2 DEF Places, Op
    <3>2. circuit[i].at <= circuit[pos].at /\ circuit[pos].at <= circuit[pos + 1].at
      BY <1>0, <1>2, <3>1 DEF CircuitInv
    <3>3. circuit[i].at \in Nat /\ circuit[pos].at \in Nat /\ circuit[pos + 1].at \in Nat
      BY <1>0, <1>2, <3>1, CircuitFacts
    <3>4. circuit[i].at = Op.at
      BY <1>2, <1>11, <3>1, <3>2, <3>3
    <3>. QED
      BY <1>b, <1>1, <1>7, <1>11, <2>2, <3>4
  <2>. QED
    BY <1>8, <2>1, <2>2
<1>12. ASSUME NEW q \in DOMAIN allocated, NEW i \in Emitted', NEW m \in Emitted',
              i <= m, Acts(i, q), NEW h \in Slots(m), mapped'[m][h] = allocated[q]
       PROVE  circuit[m].on[h] = q
  <2>1. CASE m \in Emitted
    <3>1. i \in Emitted
      BY <1>2, <1>8, <1>12, <2>1 DEF Emitted
    <3>. QED
      BY <1>c, <1>7, <1>12, <2>1, <3>1
  <2>2. CASE m = pos
    <3>. PICK p : p = circuit[pos].on[h]
      OBVIOUS
    <3>1. Target(p) = allocated[q] /\ Acts(pos, p)
      BY <1>5, <1>7, <1>12, <2>2 DEF Acts, QubitsOf, Elements, Slots
    <3>2. CASE p \in Temps
      <4>1. p \in DOMAIN allocated /\ allocated[p] = allocated[q]
        BY <1>4, <1>12, <2>2, <3>1, <3>2 DEF Target
      <4>2. p = q
        BY <1>0, <4>1 DEF LoanInv, LoansAreDistinct
      <4>. QED
        BY <2>2, <4>2
    <3>3. CASE p \notin Temps
      <4>1. allocated[q] = p
        BY <3>1, <3>3 DEF Target
      <4>2. p \in SystemQubits
        <5>1. QubitsOf(circuit[pos]) \subseteq AllQubits
          BY <1>0, <1>2, CircuitFacts
        <5>. QED
          BY <3>1, <3>3, <5>1 DEF SystemQubits, Acts
      <4>3. IdleLoan(q, p)
        BY <1>0, <4>1, <4>2 DEF LoanInv
      <4>4. \E a, b \in Places : Acts(a, q) /\ Acts(b, q) /\ Op.at \in circuit[a].at .. circuit[b].at
        BY <1>0, <1>1, LoanIsCurrent
      <4>. QED
        BY <1>2, <3>1, <4>3, <4>4 DEF IdleLoan
    <3>. QED
      BY <3>2, <3>3
  <2>. QED
    BY <1>8, <2>1, <2>2
<1>13. Len(mapped') = pos' - 1
  BY <1>1, <1>2, <1>7
<1>14. \A i \in Emitted' : \A j \in Slots(i)' :
          phase' \in {"free", "place"} /\ circuit'[i].at = Op'.at /\ circuit'[i].on[j] \in Temps
              /\ mapped'[i][j] \in SystemQubits' => circuit'[i].on[j] \in DOMAIN allocated'
  BY <1>u, <1>3, <1>11
<1>15. \A i \in Emitted' : DOMAIN mapped'[i] = Slots(i)'
  BY <1>3, <1>9
<1>16. \A i \in Emitted' : \A j \in Slots(i)' :
          /\ circuit'[i].on[j] \notin Temps => mapped'[i][j] = circuit'[i].on[j]
          /\ circuit'[i].on[j] \in DOMAIN allocated' => mapped'[i][j] = allocated'[circuit'[i].on[j]]
  BY <1>u, <1>3, <1>10
<1>17. \A q \in DOMAIN allocated' : \A i, m \in Emitted' : i <= m /\ Acts(i, q)' =>
          \A h \in Slots(m)' : mapped'[m][h] = allocated'[q] => circuit'[m].on[h] = q
  BY <1>u, <1>3, <1>12
<1>. QED
  BY <1>7, <1>13, <1>14, <1>15, <1>16, <1>17 DEF MappedInv

\* The operation joins those before it without coming into anybody's loan.
LEMMA EmitExclusive ==
    ASSUME MapInv, MappedInv, ExclusiveInv, Emit, MappedInv'
    PROVE  ExclusiveInv'
<1>0. CircuitInv /\ PhaseInv /\ SpanInv /\ LoanInv /\ PoolInv
  BY DEF MapInv
<1>1. /\ phase = "place" /\ todo = {} /\ pos' = pos + 1
      /\ mapped' = Append(mapped, [j \in DOMAIN Op.on |-> Target(Op.on[j])])
      /\ UNCHANGED <<circuit, allocated>>
  BY DEF Emit
<1>u. circuit' = circuit /\ allocated' = allocated
  BY <1>1
<1>2. /\ pos \in Nat /\ pos \in Places /\ Op = circuit[pos]
      /\ \A i \in Emitted : i \in Places /\ i \in Nat /\ i < pos
  BY <1>0, <1>1, ResultPlaces DEF PhaseInv, Op
<1>3. /\ SystemQubits' = SystemQubits /\ \A i : Slots(i)' = Slots(i)
      /\ \A i, q : Acts(i, q)' <=> Acts(i, q)
      /\ \A i : TempPlaces(i)' = TempPlaces(i)
  BY <1>1 DEF SystemQubits, AllQubits, QubitsOf, Elements, Slots, Acts, TempPlaces
<1>4. /\ \A i \in Emitted : mapped'[i] = mapped[i]
      /\ Emitted' = Emitted \cup {pos}
  <2>1. mapped \in Seq(Seq(Int)) /\ Len(mapped) = pos - 1
    BY DEF MappedInv
  <2>2. \A i \in Emitted : mapped'[i] = mapped[i]
    BY <1>1, <1>2, <2>1 DEF Emitted
  <2>3. Emitted' = Emitted \cup {pos}
    BY <1>1, <1>2 DEF Places, Emitted
  <2>. QED
    BY <2>2, <2>3
<1>5. /\ \A i \in Emitted' : DOMAIN mapped'[i] = Slots(i)
      /\ \A i \in Emitted' : \A j \in Slots(i) :
            /\ circuit[i].on[j] \notin Temps => mapped'[i][j] = circuit[i].on[j]
            /\ circuit[i].on[j] \in DOMAIN allocated => mapped'[i][j] = allocated[circuit[i].on[j]]
      /\ \A q \in DOMAIN allocated : \A i, m \in Emitted' : i <= m /\ Acts(i, q) =>
            \A h \in Slots(m) : mapped'[m][h] = allocated[q] => circuit[m].on[h] = q
  <2>1. \A i \in Emitted' : DOMAIN mapped'[i] = Slots(i)'
    BY DEF MappedInv
  <2>2. \A i \in Emitted' : \A j \in Slots(i)' :
            /\ circuit'[i].on[j] \notin Temps => mapped'[i][j] = circuit'[i].on[j]
            /\ circuit'[i].on[j] \in DOMAIN allocated' => mapped'[i][j] = allocated'[circuit'[i].on[j]]
    BY DEF MappedInv
  <2>3. \A q \in DOMAIN allocated' : \A i, m \in Emitted' : i <= m /\ Acts(i, q)' =>
            \A h \in Slots(m)' : mapped'[m][h] = allocated'[q] => circuit'[m].on[h] = q
    BY DEF MappedInv
  <2>. QED
    BY <1>u, <1>3, <2>1, <2>2, <2>3
<1>6. \A j \in Slots(pos) : circuit[pos].on[j] \in Temps => circuit[pos].on[j] \in DOMAIN allocated
  BY <1>0, <1>1, <1>2 DEF SpanInv, TempPlaces, Slots
<1>7. \A i, j : j \in Slots(i) => Acts(i, circuit[i].on[j])
  BY DEF Slots, Acts, QubitsOf, Elements
<1>8. ASSUME NEW i \in Emitted', NEW k \in Emitted',
             NEW j \in TempPlaces(i), NEW l \in Slots(k), circuit[i].on[j] = circuit[k].on[l]
      PROVE  /\ mapped'[i][j] = mapped'[k][l]
             /\ \A m \in i .. k : \A h \in Slots(m) :
                    mapped'[m][h] = mapped'[i][j] => circuit[m].on[h] = circuit[i].on[j]
  <2>0. i \in Int /\ k \in Int /\ \A m \in i .. k : m \in Emitted' /\ i <= m
    BY <1>1, <1>2 DEF Emitted
  <2>1. CASE i \in Emitted /\ k \in Emitted
    <3>1. \A m \in i .. k : m \in Emitted
      BY <1>2, <2>0, <2>1 DEF Emitted
    <3>. QED
      BY <1>4, <1>8, <2>1, <3>1 DEF ExclusiveInv
  <2>2. CASE i = pos \/ k = pos
    <3>. PICK q : q = circuit[i].on[j]
      OBVIOUS
    <3>1. q \in Temps /\ j \in Slots(i) /\ Acts(i, q)
      BY <1>7 DEF TempPlaces, Slots
    <3>2. q \in DOMAIN allocated
      BY <1>6, <1>8, <2>2, <3>1
    <3>3. mapped'[i][j] = allocated[q] /\ mapped'[k][l] = allocated[q]
      BY <1>5, <1>8, <3>1, <3>2
    <3>. QED
      BY <1>5, <2>0, <3>1, <3>2, <3>3
  <2>. QED
    BY <1>4, <2>1, <2>2
<1>9. ASSUME NEW i \in Emitted, circuit[i].at = circuit[pos].at,
             NEW j \in Slots(i), NEW h \in Slots(pos),
             mapped'[i][j] = mapped'[pos][h], mapped'[i][j] \in SystemQubits
      PROVE  FALSE
  <2>. PICK p, r, t : p = circuit[i].on[j] /\ r = circuit[pos].on[h] /\ t = mapped'[i][j]
    OBVIOUS
  <2>1. i # pos /\ i \in Places /\ i <= pos /\ i \in Emitted' /\ pos \in Emitted'
    BY <1>2, <1>4
  <2>2. Acts(i, p) /\ Acts(pos, r) /\ ~Acts(pos, p)
    <3>1. Acts(i, p) /\ Acts(pos, r)
      BY <1>7, <1>9
    <3>2. QubitsOf(circuit[i]) \cap QubitsOf(circuit[pos]) = {}
      BY <1>0, <1>2, <1>9, <2>1 DEF CircuitInv
    <3>. QED
      BY <3>1, <3>2 DEF Acts
  <2>3. CASE p \in Temps
    <3>1. p \in DOMAIN allocated
      BY <1>1, <1>2, <1>4, <1>9, <2>3 DEF MappedInv
    <3>2. t = allocated[p]
      BY <1>5, <2>1, <3>1
    <3>3. r = p
      BY <1>5, <1>9, <2>1, <2>2, <3>1, <3>2
    <3>. QED
      BY <2>2, <3>3
  <2>4. CASE p \notin Temps
    <3>1. t = p
      BY <1>5, <2>1, <2>4
    <3>2. CASE r \notin Temps
      <4>1. mapped'[pos][h] = r
        BY <1>5, <2>1, <3>2
      <4>. QED
        BY <1>9, <2>2, <3>1, <4>1
    <3>3. CASE r \in Temps
      <4>1. r \in DOMAIN allocated /\ mapped'[pos][h] = allocated[r]
        BY <1>5, <1>6, <2>1, <3>3
      <4>2. IdleLoan(r, p)
        BY <1>0, <1>9, <3>1, <4>1 DEF LoanInv
      <4>3. circuit[pos].at \in Nat
        BY <1>0, <1>2, CircuitFacts
      <4>4. circuit[i].at \in circuit[pos].at .. circuit[pos].at
        BY <1>9, <4>3
      <4>. QED
        BY <1>2, <2>1, <2>2, <4>2, <4>4 DEF IdleLoan
    <3>. QED
      BY <3>2, <3>3
  <2>. QED
    BY <2>3, <2>4
<1>10. ASSUME NEW i \in Emitted', NEW k \in Emitted', i # k,
              circuit[i].at = circuit[k].at,
              NEW t \in SystemQubits, t \in Elements(mapped'[i]), t \in Elements(mapped'[k])
       PROVE  FALSE
  <2>1. PICK j \in Slots(i) : mapped'[i][j] = t
    BY <1>5, <1>10 DEF Elements
  <2>2. PICK h \in Slots(k) : mapped'[k][h] = t
    BY <1>5, <1>10 DEF Elements
  <2>3. CASE i \in Emitted /\ k \in Emitted
    <3>1. Elements(mapped[i]) \cap Elements(mapped[k]) \cap SystemQubits = {}
      BY <1>10, <2>3 DEF ExclusiveInv
    <3>. QED
      BY <1>4, <1>10, <2>3, <3>1
  <2>4. CASE i \in Emitted /\ k = pos
    BY <1>9, <1>10, <2>1, <2>2, <2>4
  <2>5. CASE k \in Emitted /\ i = pos
    BY <1>9, <1>10, <2>1, <2>2, <2>5
  <2>. QED
    BY <1>4, <1>10, <2>3, <2>4, <2>5
<1>11. \A i, k \in Emitted' : i /= k /\ circuit'[i].at = circuit'[k].at =>
          Elements(mapped'[i]) \cap Elements(mapped'[k]) \cap SystemQubits' = {}
  BY <1>u, <1>3, <1>10
<1>12. \A i, k \in Emitted' : \A j \in TempPlaces(i)', l \in Slots(k)' :
          circuit'[i].on[j] = circuit'[k].on[l] =>
              /\ mapped'[i][j] = mapped'[k][l]
              /\ \A m \in i .. k : \A h \in Slots(m)' :
                     mapped'[m][h] = mapped'[i][j] => circuit'[m].on[h] = circuit'[i].on[j]
  BY <1>u, <1>3, <1>8
<1>. QED
  BY <1>11, <1>12 DEF ExclusiveInv, Elements

\* What has been emitted stays as the invariants say.
LEMMA ResultHolds == Spec => [](MappedInv /\ ExclusiveInv)
<1>1. Init => MappedInv /\ ExclusiveInv
  <2>1. ASSUME Init PROVE pos = 1 /\ mapped = <<>> /\ \A i \in Emitted : FALSE
    BY <2>1 DEF Init, Emitted
  <2>2. ASSUME Init PROVE mapped \in Seq(Seq(Int)) /\ Len(mapped) = pos - 1
    BY <2>1, <2>2
  <2>3. Init => MappedInv
    <3>. SUFFICES ASSUME Init PROVE MappedInv
      OBVIOUS
    <3>1. DOMAIN allocated = {}
      BY DEF Init
    <3>. QED
      BY <2>1, <2>2, <3>1 DEF MappedInv
  <2>4. Init => ExclusiveInv
    BY <2>1 DEF ExclusiveInv
  <2>. QED
    BY <2>3, <2>4
<1>2. MapInv /\ (MappedInv /\ ExclusiveInv) /\ [Next]_vars => (MappedInv /\ ExclusiveInv)'
  BY QuietStep, EmitMapped, EmitExclusive DEF Next
<1>. QED
  BY <1>1, <1>2, MapInvHolds, PTL DEF Spec

\* From its first to its last operation a temporary qubit is mapped to one qubit and
\* nothing else is done to that one, and no two operations of a moment share a system
\* qubit: for every circuit, however long its loans and whatever was in the pool.
THEOREM LoansAreAlwaysExclusive == Spec => []LoansAreExclusive
<1>1. MapInv /\ MappedInv /\ ExclusiveInv => LoansAreExclusive
  <2>. SUFFICES ASSUME MapInv, MappedInv, ExclusiveInv PROVE LoansAreExclusive
    OBVIOUS
  <2>1. /\ pos \in Nat /\ DOMAIN mapped = Emitted
        /\ \A i \in Emitted : DOMAIN mapped[i] = Slots(i)
    <3>1. pos \in Nat \ {0}
      BY ResultPlaces DEF MapInv
    <3>2. mapped \in Seq(Seq(Int)) /\ Len(mapped) = pos - 1
      BY DEF MappedInv
    <3>3. DOMAIN mapped = Emitted
      BY <3>1, <3>2 DEF Emitted
    <3>. QED
      BY <3>1, <3>3 DEF MappedInv
  <2>2. ASSUME NEW q \in Temps, NEW i \in Emitted, NEW k \in Emitted,
               q \in QubitsOf(circuit[k]), NEW t, ActsAs(i, t, q)
        PROVE  /\ ActsAs(k, t, q)
               /\ \A m \in i .. k, p \in AllQubits : ActsAs(m, t, p) => p = q
    <3>1. PICK j \in Slots(i) : mapped[i][j] = t /\ circuit[i].on[j] = q
      BY <2>1, <2>2 DEF ActsAs
    <3>2. PICK l \in Slots(k) : circuit[k].on[l] = q
      BY <2>2 DEF QubitsOf, Elements, Slots
    <3>3. j \in TempPlaces(i)
      BY <3>1 DEF TempPlaces, Slots
    <3>4. /\ mapped[i][j] = mapped[k][l]
          /\ \A m \in i .. k : \A h \in Slots(m) :
                 mapped[m][h] = mapped[i][j] => circuit[m].on[h] = circuit[i].on[j]
      BY <3>1, <3>2, <3>3 DEF ExclusiveInv
    <3>5. ActsAs(k, t, q)
      BY <2>1, <3>1, <3>2, <3>4 DEF ActsAs
    <3>6. \A m \in i .. k : m \in Emitted
      BY <2>1 DEF Emitted
    <3>7. ASSUME NEW m \in i .. k, NEW p \in AllQubits, ActsAs(m, t, p) PROVE p = q
      <4>1. PICK h \in Slots(m) : mapped[m][h] = t /\ circuit[m].on[h] = p
        BY <2>1, <3>6, <3>7 DEF ActsAs
      <4>. QED
        BY <3>1, <3>4, <4>1
    <3>. QED
      BY <3>5, <3>7
  <2>3. \A i, k \in Emitted : i /= k /\ circuit[i].at = circuit[k].at =>
           Elements(mapped[i]) \cap Elements(mapped[k]) \cap SystemQubits = {}
    BY DEF ExclusiveInv
  <2>. QED
    BY <2>1, <2>2, <2>3 DEF LoansAreExclusive
<1>. QED
  BY <1>1, MapInvHolds, ResultHolds, PTL

\* The state of the transformer and of the pool stays well typed.
THEOREM MappingTypeCorrect == Spec => []TypeOK
<1>1. MapInv /\ MappedInv => TypeOK
  <2>. SUFFICES ASSUME MapInv, MappedInv PROVE TypeOK
    OBVIOUS
  <2>0. CircuitInv /\ PhaseInv /\ SpanInv /\ LoanInv /\ PoolInv /\ failed = FALSE
    BY DEF MapInv
  <2>1. PoolTypes /\ lastIdx \in Int /\ phase \in {"setup", "free", "place", "done"}
    BY <2>0 DEF PoolInv, PhaseInv
  <2>2. pos \in 1 .. Len(circuit) + 1
    <3>1. Len(circuit) \in Nat
      BY <2>0, CircuitFacts
    <3>2. pos = Len(circuit) + 1 \/ pos \in Places
      BY <2>0 DEF PhaseInv
    <3>. QED
      BY <3>1, <3>2 DEF Places
  <2>3. todo \subseteq Nat /\ \A i \in todo : Op.on[i] \in Temps
    <3>1. CASE phase = "place"
      <4>1. todo \subseteq TempPlaces(pos) /\ pos \in Places
        BY <2>0, <3>1 DEF PhaseInv
      <4>2. circuit[pos].on \in Seq(System \cup Temps)
        BY <2>0, <4>1, CircuitFacts
      <4>. QED
        BY <4>1, <4>2 DEF TempPlaces, Op
    <3>2. CASE phase # "place"
      BY <2>0, <3>2 DEF PhaseInv
    <3>. QED
      BY <3>1, <3>2
  <2>4. DOMAIN allocated \subseteq Temps /\ freeing \subseteq Temps /\ toFree \subseteq Temps
    BY <2>0 DEF SpanInv
  <2>5. \A q \in DOMAIN allocated : allocated[q] \in System \cup {Ancilla(n) : n \in 0 .. size - 1}
    BY <2>0 DEF LoanInv
  <2>6. borrowable \subseteq System
    <3>1. borrowable \subseteq SystemQubits /\ SystemQubits \subseteq System
      BY <2>0, CircuitFacts DEF LoanInv
    <3>. QED
      BY <3>1
  <2>7. Len(mapped) = pos - 1
    BY DEF MappedInv
  <2>. QED
    BY <2>0, <2>1, <2>2, <2>3, <2>4, <2>5, <2>6, <2>7 DEF TypeOK
<1>. QED
  BY <1>1, MapInvHolds, ResultHolds, PTL
=============================================================================
