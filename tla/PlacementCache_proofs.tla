----------------------- MODULE PlacementCache_proofs -----------------------
(***************************************************************************)
(* Proofs about PlacementCache, for circuits of any length over any        *)
(* operations: the cache describes the moments exactly, so the placement it*)
(* yields is the one the scan finds, and it never overlaps.                *)
(***************************************************************************)
EXTENDS PlacementCache, SequenceTheorems, WellFoundedInduction, TLAPS

----------------------------------------------------------------------------
\* Greatest elements.

\* A nonempty set of naturals has a least element.
LEMMA LeastExists ==
    ASSUME NEW T \in SUBSET Nat, T # {}
    PROVE  \E x \in T : \A y \in T : x <= y
<1>. DEFINE R == {ss \in Nat \X Nat : ss[1] < ss[2]}
<1>1. IsWellFoundedOn(R, Nat)
  BY NatLessThanWellFounded DEF OpToRel
<1>. HIDE DEF R
<1>2. PICK x \in T : \A y \in T : ~ (<<y, x>> \in R)
  BY <1>1, WFMin
<1>3. ASSUME NEW y \in T
      PROVE  x <= y
  <2>1. y < x => <<y, x>> \in R
    BY DEF R
  <2>. QED
    BY <1>2, <2>1
<1>. QED
  BY <1>3

\* MaxOf is the greatest element of a nonempty bounded set of naturals.
LEMMA MaxOfGreatest ==
    ASSUME NEW S \in SUBSET Nat, S # {}, NEW n \in Nat, \A s \in S : s <= n
    PROVE  MaxOf(S) \in S /\ \A s \in S : s <= MaxOf(S)
<1>. DEFINE U == {u \in Nat : \A s \in S : s <= u}
<1>1. PICK x \in U : \A y \in U : x <= y
  <2>1. n \in U
    OBVIOUS
  <2>. QED
    BY <2>1, LeastExists
<1>2. x \in S
  <2>. SUFFICES ASSUME x \notin S
                PROVE  FALSE
    OBVIOUS
  <2>1. PICK s \in S : TRUE
    OBVIOUS
  <2>2. x > s /\ x - 1 \in Nat
    BY <2>1
  <2>3. x - 1 \in U
    BY <2>2
  <2>. QED
    BY <1>1, <2>2, <2>3
<1>. QED
  BY <1>2 DEF MaxOf

----------------------------------------------------------------------------
\* The two ways to place an operation.

\* What holds of every circuit: a well-typed state with an exact cache.
Inv == TypeOK /\ CacheExact

\* The scan finds the last blocking moment.
LEMMA ScanFindsLast ==
    ASSUME TypeOK, NEW x \in Ops
    PROVE  LET e == EarliestAvailable(moments, x, Len(moments)) IN
           /\ e \in 0 .. Len(moments)
           /\ e > 0 => Blocks(moments[e], x)
           /\ \A i \in 1 .. Len(moments) : Blocks(moments[i], x) => i <= e
<1>. DEFINE S == {0} \cup {n \in 1 .. Len(moments) : Blocks(moments[n], x)}
<1>1. Len(moments) \in Nat
  BY DEF TypeOK
<1>2. S \in SUBSET Nat /\ S # {} /\ \A s \in S : s <= Len(moments)
  BY <1>1
<1>3. MaxOf(S) \in S /\ \A s \in S : s <= MaxOf(S)
  BY <1>1, <1>2, MaxOfGreatest
<1>4. EarliestAvailable(moments, x, Len(moments)) = MaxOf(S)
  BY DEF EarliestAvailable
<1>. HIDE DEF S
<1>5. MaxOf(S) \in 0 .. Len(moments)
  BY <1>1, <1>3 DEF S
<1>6. MaxOf(S) > 0 => Blocks(moments[MaxOf(S)], x)
  BY <1>1, <1>3 DEF S
<1>7. \A i \in 1 .. Len(moments) : Blocks(moments[i], x) => i <= MaxOf(S)
  BY <1>3 DEF S
<1>. QED
  BY <1>4, <1>5, <1>6, <1>7

\* The entries of an exact cache are numbers of moments or 0.
LEMMA CacheBounded ==
    ASSUME Inv, cache.on
    PROVE  /\ cache.len = Len(moments)
           /\ \A b \in Qubits : cache.q[b] \in 0 .. Len(moments)
           /\ \A b \in Keys : cache.m[b] \in 0 .. Len(moments) /\ cache.c[b] \in 0 .. Len(moments)
<1>1. Len(moments) \in Nat
  BY DEF Inv, TypeOK
<1>. QED
  BY <1>1 DEF Inv, CacheExact, IsLast, WithQubit, WithMKey, WithCKey

\* What LastConflict is the greatest of.
Conflicts(x) ==
    {0} \cup {cache.q[b] : b \in QubitsOf[x]}
        \cup {cache.m[b] : b \in MKeysOf[x] \cup CKeysOf[x]}
        \cup {cache.c[b] : b \in MKeysOf[x]}

\* An exact cache answers with the greatest moment that conflicts.
LEMMA LastConflictGreatest ==
    ASSUME Inv, cache.on, NEW x \in Ops
    PROVE  /\ LastConflict(cache, x) \in Conflicts(x)
           /\ LastConflict(cache, x) \in 0 .. Len(moments)
           /\ \A i \in Conflicts(x) : i <= LastConflict(cache, x)
<1>1. Len(moments) \in Nat
  BY DEF Inv, TypeOK
<1>2. QubitsOf[x] \subseteq Qubits /\ MKeysOf[x] \subseteq Keys /\ CKeysOf[x] \subseteq Keys
  BY PlacementAssumption
<1>3. Conflicts(x) \subseteq 0 .. Len(moments)
  BY <1>1, <1>2, CacheBounded DEF Conflicts
<1>4. Conflicts(x) # {}
  BY DEF Conflicts
<1>5. LastConflict(cache, x) = MaxOf(Conflicts(x))
  BY DEF LastConflict, Conflicts
<1>6. Conflicts(x) \in SUBSET Nat /\ \A i \in Conflicts(x) : i <= Len(moments)
  BY <1>1, <1>3
<1>. QED
  BY <1>1, <1>3, <1>4, <1>5, <1>6, MaxOfGreatest

\* A moment blocks an operation exactly when they share a qubit or a key.
LEMMA BlocksByName ==
    ASSUME NEW m, NEW x
    PROVE  Blocks(m, x) <=>
             \/ \E b \in QubitsOf[x] : b \in MomentQubits(m)
             \/ \E b \in MKeysOf[x] \cup CKeysOf[x] : b \in MomentMKeys(m)
             \/ \E b \in MKeysOf[x] : b \in MomentCKeys(m)
BY DEF Blocks, Overlaps

\* With an exact cache, the cached placement is the scan's.
LEMMA ExactCacheAgrees ==
    ASSUME Inv
    PROVE  CacheAgreesWithScan
<1>. SUFFICES ASSUME cache.on, NEW x \in Ops
              PROVE  LastConflict(cache, x) = EarliestAvailable(moments, x, Len(moments))
  BY DEF CacheAgreesWithScan
<1>. DEFINE e == EarliestAvailable(moments, x, Len(moments))
            c == LastConflict(cache, x)
<1>1. Len(moments) \in Nat
  BY DEF Inv, TypeOK
<1>2. QubitsOf[x] \subseteq Qubits /\ MKeysOf[x] \subseteq Keys /\ CKeysOf[x] \subseteq Keys
  BY PlacementAssumption
<1>3. /\ e \in 0 .. Len(moments)
      /\ e > 0 => Blocks(moments[e], x)
      /\ \A i \in 1 .. Len(moments) : Blocks(moments[i], x) => i <= e
  BY ScanFindsLast DEF Inv
<1>4. /\ c \in Conflicts(x)
      /\ c \in 0 .. Len(moments)
      /\ \A i \in Conflicts(x) : i <= c
  BY LastConflictGreatest
<1>. HIDE DEF e, c
<1>5. e <= c
  <2>. SUFFICES ASSUME e > 0
                PROVE  e <= c
    BY <1>1, <1>3, <1>4
  <2>1. e \in 1 .. Len(moments) /\ Blocks(moments[e], x)
    BY <1>1, <1>3
  <2>2. CASE \E b \in QubitsOf[x] : b \in MomentQubits(moments[e])
    <3>1. PICK b \in QubitsOf[x] : b \in MomentQubits(moments[e])
      BY <2>2
    <3>2. e <= cache.q[b] /\ cache.q[b] \in 0 .. Len(moments)
      BY <1>2, <2>1, <3>1, CacheBounded DEF Inv, CacheExact, IsLast, WithQubit
    <3>3. cache.q[b] \in Conflicts(x)
      BY <3>1 DEF Conflicts
    <3>. QED
      BY <1>1, <1>3, <1>4, <3>2, <3>3
  <2>3. CASE \E b \in MKeysOf[x] \cup CKeysOf[x] : b \in MomentMKeys(moments[e])
    <3>1. PICK b \in MKeysOf[x] \cup CKeysOf[x] : b \in MomentMKeys(moments[e])
      BY <2>3
    <3>2. e <= cache.m[b] /\ cache.m[b] \in 0 .. Len(moments)
      BY <1>2, <2>1, <3>1, CacheBounded DEF Inv, CacheExact, IsLast, WithMKey
    <3>3. cache.m[b] \in Conflicts(x)
      BY <3>1 DEF Conflicts
    <3>. QED
      BY <1>1, <1>3, <1>4, <3>2, <3>3
  <2>4. CASE \E b \in MKeysOf[x] : b \in MomentCKeys(moments[e])
    <3>1. PICK b \in MKeysOf[x] : b \in MomentCKeys(moments[e])
      BY <2>4
    <3>2. e <= cache.c[b] /\ cache.c[b] \in 0 .. Len(moments)
      BY <1>2, <2>1, <3>1, CacheBounded DEF Inv, CacheExact, IsLast, WithCKey
    <3>3. cache.c[b] \in Conflicts(x)
      BY <3>1 DEF Conflicts
    <3>. QED
      BY <1>1, <1>3, <1>4, <3>2, <3>3
  <2>. QED
    BY <2>1, <2>2, <2>3, <2>4, BlocksByName
<1>6. c <= e
  <2>. SUFFICES ASSUME c > 0
                PROVE  c <= e
    BY <1>1, <1>3, <1>4
  <2>1. c \in 1 .. Len(moments)
    BY <1>1, <1>4
  <2>2. Blocks(moments[c], x)
    <3>1. CASE \E b \in QubitsOf[x] : c = cache.q[b]
      BY <1>2, <2>1, <3>1, BlocksByName DEF Inv, CacheExact, IsLast, WithQubit
    <3>2. CASE \E b \in MKeysOf[x] \cup CKeysOf[x] : c = cache.m[b]
      BY <1>2, <2>1, <3>2, BlocksByName DEF Inv, CacheExact, IsLast, WithMKey
    <3>3. CASE \E b \in MKeysOf[x] : c = cache.c[b]
      BY <1>2, <2>1, <3>3, BlocksByName DEF Inv, CacheExact, IsLast, WithCKey
    <3>. QED
      BY <1>4, <2>1, <3>1, <3>2, <3>3 DEF Conflicts
  <2>. QED
    BY <1>3, <2>1, <2>2
<1>7. e = c
  BY <1>1, <1>3, <1>4, <1>5, <1>6
<1>. QED
  BY <1>7 DEF e, c

----------------------------------------------------------------------------
\* Every call keeps the cache exact.

\* Recording the operations s, which went to moment n, keeps an exact cache
\* exact when no moment after n has a qubit or a measurement key of theirs.
LEMMA RecordKeepsExact ==
    ASSUME Inv, cache.on, NEW s, NEW n \in 1 .. Len(moments) + 1,
           \A b \in MomentQubits(s) : cache.q[b] <= n,
           \A b \in MomentMKeys(s) : cache.m[b] <= n,
           moments' \in Seq(Moments),
           Len(moments') = IF n > Len(moments) THEN n ELSE Len(moments),
           \A i \in 1 .. Len(moments) : i # n => moments'[i] = moments[i],
           n > Len(moments) => moments'[n] = s,
           n <= Len(moments) => moments'[n] = moments[n] \cup s,
           cache' = Record(cache, s, n)
    PROVE  CacheExact' /\ cache' \in CacheType
<1>. DEFINE L == Len(moments)
            L2 == Len(moments')
<1>1. L \in Nat /\ L2 \in Nat /\ n \in Nat /\ n \in 1 .. L2 /\ L <= L2
  BY DEF Inv, TypeOK
<1>2. /\ cache.len = L
      /\ \A b \in Qubits : cache.q[b] \in 0 .. L
      /\ \A b \in Keys : cache.m[b] \in 0 .. L /\ cache.c[b] \in 0 .. L
  BY CacheBounded
<1>3. /\ cache'.on = TRUE
      /\ cache'.len = L2
      /\ cache'.q = [b \in Qubits |-> IF b \in MomentQubits(s) THEN n ELSE cache.q[b]]
      /\ cache'.m = [b \in Keys |-> IF b \in MomentMKeys(s) THEN n ELSE cache.m[b]]
      /\ cache'.c = [b \in Keys |-> IF b \in MomentCKeys(s) /\ n > cache.c[b]
                                    THEN n ELSE cache.c[b]]
      /\ cache' = [on |-> TRUE, q |-> cache'.q, m |-> cache'.m, c |-> cache'.c, len |-> cache'.len]
  BY <1>1, <1>2 DEF Record
<1>4. cache' \in CacheType
  <2>1. cache'.q \in [Qubits -> Nat]
    BY <1>1, <1>2, <1>3
  <2>2. cache'.m \in [Keys -> Nat]
    BY <1>1, <1>2, <1>3
  <2>3. cache'.c \in [Keys -> Nat]
    BY <1>1, <1>2, <1>3
  <2>. QED
    BY <1>1, <1>3, <2>1, <2>2, <2>3 DEF CacheType
\* Which moments have a name after the placement: those that had it, and n for
\* the names of s.
<1>5. /\ n > L => /\ MomentQubits(moments'[n]) = MomentQubits(s)
                  /\ MomentMKeys(moments'[n]) = MomentMKeys(s)
                  /\ MomentCKeys(moments'[n]) = MomentCKeys(s)
      /\ n <= L => /\ MomentQubits(moments'[n]) = MomentQubits(moments[n]) \cup MomentQubits(s)
                   /\ MomentMKeys(moments'[n]) = MomentMKeys(moments[n]) \cup MomentMKeys(s)
                   /\ MomentCKeys(moments'[n]) = MomentCKeys(moments[n]) \cup MomentCKeys(s)
  <2>1. CASE n > L
    BY <1>1, <2>1
  <2>2. CASE n <= L
    <3>1. moments'[n] = moments[n] \cup s
      BY <2>2
    <3>. QED
      BY <1>1, <2>2, <3>1 DEF MomentQubits, MomentMKeys, MomentCKeys
  <2>. QED
    BY <1>1, <2>1, <2>2
<1>6. \A b : WithQubit(b)' = WithQubit(b) \cup (IF b \in MomentQubits(s) THEN {n} ELSE {})
  <2>. SUFFICES ASSUME NEW b, NEW i
                PROVE  i \in WithQubit(b)' <=>
                         i \in WithQubit(b) \/ (b \in MomentQubits(s) /\ i = n)
    OBVIOUS
  <2>1. i \in WithQubit(b)' <=> i \in 1 .. L2 /\ b \in MomentQubits(moments'[i])
    BY DEF WithQubit, MomentQubits
  <2>2. i \in WithQubit(b) <=> i \in 1 .. L /\ b \in MomentQubits(moments[i])
    BY DEF WithQubit
  <2>3. CASE i = n
    BY <1>1, <1>5, <2>1, <2>2, <2>3
  <2>4. CASE i # n
    <3>1. i \in 1 .. L2 <=> i \in 1 .. L
      BY <1>1, <2>4
    <3>. QED
      BY <2>1, <2>2, <2>4, <3>1
  <2>. QED
    BY <2>3, <2>4
<1>7. \A b : WithMKey(b)' = WithMKey(b) \cup (IF b \in MomentMKeys(s) THEN {n} ELSE {})
  <2>. SUFFICES ASSUME NEW b, NEW i
                PROVE  i \in WithMKey(b)' <=>
                         i \in WithMKey(b) \/ (b \in MomentMKeys(s) /\ i = n)
    OBVIOUS
  <2>1. i \in WithMKey(b)' <=> i \in 1 .. L2 /\ b \in MomentMKeys(moments'[i])
    BY DEF WithMKey, MomentMKeys
  <2>2. i \in WithMKey(b) <=> i \in 1 .. L /\ b \in MomentMKeys(moments[i])
    BY DEF WithMKey
  <2>3. CASE i = n
    BY <1>1, <1>5, <2>1, <2>2, <2>3
  <2>4. CASE i # n
    <3>1. i \in 1 .. L2 <=> i \in 1 .. L
      BY <1>1, <2>4
    <3>. QED
      BY <2>1, <2>2, <2>4, <3>1
  <2>. QED
    BY <2>3, <2>4
<1>8. \A b : WithCKey(b)' = WithCKey(b) \cup (IF b \in MomentCKeys(s) THEN {n} ELSE {})
  <2>. SUFFICES ASSUME NEW b, NEW i
                PROVE  i \in WithCKey(b)' <=>
                         i \in WithCKey(b) \/ (b \in MomentCKeys(s) /\ i = n)
    OBVIOUS
  <2>1. i \in WithCKey(b)' <=> i \in 1 .. L2 /\ b \in MomentCKeys(moments'[i])
    BY DEF WithCKey, MomentCKeys
  <2>2. i \in WithCKey(b) <=> i \in 1 .. L /\ b \in MomentCKeys(moments[i])
    BY DEF WithCKey
  <2>3. CASE i = n
    BY <1>1, <1>5, <2>1, <2>2, <2>3
  <2>4. CASE i # n
    <3>1. i \in 1 .. L2 <=> i \in 1 .. L
      BY <1>1, <2>4
    <3>. QED
      BY <2>1, <2>2, <2>4, <3>1
  <2>. QED
    BY <2>3, <2>4
<1>9. ASSUME NEW b \in Qubits
      PROVE  IsLast(cache.q[b], WithQubit(b))'
  <2>1. IsLast(cache.q[b], WithQubit(b)) /\ WithQubit(b) \subseteq 1 .. L
    BY DEF Inv, CacheExact, WithQubit
  <2>2. cache'.q[b] = IF b \in MomentQubits(s) THEN n ELSE cache.q[b]
    BY <1>3
  <2>. QED
    BY <1>1, <1>2, <1>6, <2>1, <2>2 DEF IsLast
<1>10. ASSUME NEW b \in Keys
       PROVE  IsLast(cache.m[b], WithMKey(b))'
  <2>1. IsLast(cache.m[b], WithMKey(b)) /\ WithMKey(b) \subseteq 1 .. L
    BY DEF Inv, CacheExact, WithMKey
  <2>2. cache'.m[b] = IF b \in MomentMKeys(s) THEN n ELSE cache.m[b]
    BY <1>3
  <2>. QED
    BY <1>1, <1>2, <1>7, <2>1, <2>2 DEF IsLast
<1>11. ASSUME NEW b \in Keys
       PROVE  IsLast(cache.c[b], WithCKey(b))'
  <2>1. IsLast(cache.c[b], WithCKey(b)) /\ WithCKey(b) \subseteq 1 .. L
    BY DEF Inv, CacheExact, WithCKey
  <2>2. cache'.c[b] = IF b \in MomentCKeys(s) /\ n > cache.c[b] THEN n ELSE cache.c[b]
    BY <1>3
  <2>. QED
    BY <1>1, <1>2, <1>8, <2>1, <2>2 DEF IsLast
<1>. QED
  BY <1>3, <1>4, <1>9, <1>10, <1>11 DEF CacheExact

\* An operation that joins a moment it does not overlap gives a moment.
LEMMA JoinIsMoment ==
    ASSUME NEW m \in Moments, NEW x \in Ops, ~Overlaps(m, x)
    PROVE  m \cup {x} \in Moments
BY DEF Moments, IsMoment, Overlaps, MomentQubits

\* Placing an operation at n, with no blocking moment from n on: the moments
\* stay well formed and no call raises.
LEMMA PlacementSucceeds ==
    ASSUME TypeOK, NEW x \in Ops, NEW n \in 1 .. Len(moments) + 1,
           \A i \in 1 .. Len(moments) : Blocks(moments[i], x) => i < n,
           PlaceOp(x, n)
    PROVE  /\ moments' \in Seq(Moments)
           /\ Len(moments') = IF n > Len(moments) THEN n ELSE Len(moments)
           /\ \A i \in 1 .. Len(moments) : i # n => moments'[i] = moments[i]
           /\ n > Len(moments) => moments'[n] = {x}
           /\ n <= Len(moments) => moments'[n] = moments[n] \cup {x}
           /\ raised' = raised
<1>1. Len(moments) \in Nat /\ moments \in Seq(Moments) /\ n \in Nat
  BY DEF TypeOK
<1>2. CASE n = Len(moments) + 1
  <2>1. {x} \in Moments
    BY DEF Moments, IsMoment
  <2>2. moments' = Append(moments, {x}) /\ raised' = raised
    BY <1>2 DEF PlaceOp
  <2>. QED
    BY <1>1, <1>2, <2>1, <2>2, AppendProperties
<1>3. CASE n # Len(moments) + 1
  <2>1. n \in 1 .. Len(moments)
    BY <1>1, <1>3
  <2>2. ~Overlaps(moments[n], x)
    BY <1>1, <2>1 DEF Blocks
  <2>3. moments' = [moments EXCEPT ![n] = @ \cup {x}] /\ raised' = raised
    BY <1>3, <2>2 DEF PlaceOp
  <2>4. moments[n] \in Moments
    BY <1>1, <2>1, ElementOfSeq
  <2>5. moments[n] \cup {x} \in Moments
    BY <2>2, <2>4, JoinIsMoment
  <2>6. moments' = [moments EXCEPT ![n] = moments[n] \cup {x}]
    BY <2>3
  <2>. QED
    BY <1>1, <2>1, <2>3, <2>5, <2>6, ExceptSeq
<1>. QED
  BY <1>2, <1>3

\* The names of a one-operation moment.
LEMMA NamesOfSingleton ==
    ASSUME NEW x
    PROVE  /\ MomentQubits({x}) = QubitsOf[x]
           /\ MomentMKeys({x}) = MKeysOf[x]
           /\ MomentCKeys({x}) = CKeysOf[x]
BY DEF MomentQubits, MomentMKeys, MomentCKeys

\* The empty circuit with an empty cache.
LEMMA InitInv == Init => Inv /\ AppendNeverRaises
<1>. SUFFICES ASSUME Init
              PROVE  Inv /\ AppendNeverRaises
  OBVIOUS
<1>1. moments \in Seq(Moments) /\ Len(moments) = 0
  BY DEF Init
<1>2. cache \in CacheType
  BY DEF Init, EmptyCache, CacheType
<1>3. CacheExact
  BY <1>1 DEF Init, EmptyCache, CacheExact, IsLast, WithQubit, WithMKey, WithCKey
<1>. QED
  BY <1>1, <1>2, <1>3 DEF Init, Inv, TypeOK, AppendNeverRaises

\* One call.
LEMMA StepInv ==
    ASSUME Inv, [Next]_vars
    PROVE  Inv' /\ raised' = raised
<1>. USE DEF Inv
<1>1. /\ Len(moments) \in Nat
      /\ moments \in Seq(Moments)
      /\ cache \in CacheType
      /\ raised \in BOOLEAN
  BY DEF TypeOK
<1>2. ASSUME NEW x \in Ops, AppendOp(x)
      PROVE  Inv' /\ raised' = raised
  <2>. DEFINE e == EarliestAvailable(moments, x, Len(moments))
  <2>1. /\ e \in 0 .. Len(moments)
        /\ \A i \in 1 .. Len(moments) : Blocks(moments[i], x) => i <= e
    BY ScanFindsLast
  <2>. HIDE DEF e
  <2>2. e + 1 \in 1 .. Len(moments) + 1
    BY <1>1, <2>1
  <2>3. \A i \in 1 .. Len(moments) : Blocks(moments[i], x) => i < e + 1
    BY <1>1, <2>1
  <2>4. CASE cache.on
    <3>1. LastConflict(cache, x) = e
      BY <2>4, ExactCacheAgrees DEF CacheAgreesWithScan, e
    <3>2. PlaceOp(x, e + 1) /\ cache' = Record(cache, {x}, e + 1)
      BY <1>2, <2>4, <3>1 DEF AppendOp
    <3>3. /\ moments' \in Seq(Moments)
          /\ Len(moments') = IF e + 1 > Len(moments) THEN e + 1 ELSE Len(moments)
          /\ \A i \in 1 .. Len(moments) : i # e + 1 => moments'[i] = moments[i]
          /\ e + 1 > Len(moments) => moments'[e + 1] = {x}
          /\ e + 1 <= Len(moments) => moments'[e + 1] = moments[e + 1] \cup {x}
          /\ raised' = raised
      BY <2>2, <2>3, <3>2, PlacementSucceeds
    <3>4. /\ \A b \in MomentQubits({x}) : cache.q[b] <= e + 1
          /\ \A b \in MomentMKeys({x}) : cache.m[b] <= e + 1
      <4>1. \A i \in Conflicts(x) : i <= e /\ i \in 0 .. Len(moments)
        <5>1. QubitsOf[x] \subseteq Qubits /\ MKeysOf[x] \subseteq Keys
                /\ CKeysOf[x] \subseteq Keys
          BY PlacementAssumption
        <5>2. Conflicts(x) \subseteq 0 .. Len(moments)
          BY <1>1, <2>4, <5>1, CacheBounded DEF Conflicts
        <5>. QED
          BY <2>4, <3>1, <5>2, LastConflictGreatest
      <4>2. /\ \A b \in QubitsOf[x] : cache.q[b] \in Conflicts(x)
            /\ \A b \in MKeysOf[x] : cache.m[b] \in Conflicts(x)
        BY DEF Conflicts
      <4>3. \A i \in Conflicts(x) : i <= e + 1
        BY <1>1, <2>1, <4>1
      <4>4. MomentQubits({x}) = QubitsOf[x] /\ MomentMKeys({x}) = MKeysOf[x]
        BY NamesOfSingleton
      <4>. QED
        BY <4>2, <4>3, <4>4
    <3>5. CacheExact' /\ cache' \in CacheType
      BY <2>2, <2>4, <3>2, <3>3, <3>4, RecordKeepsExact
    <3>. QED
      BY <1>1, <3>3, <3>5 DEF TypeOK
  <2>5. CASE ~cache.on
    <3>1. PlaceOp(x, e + 1) /\ cache' = cache
      BY <1>2, <2>5 DEF AppendOp, e
    <3>2. moments' \in Seq(Moments) /\ raised' = raised
      BY <2>2, <2>3, <3>1, PlacementSucceeds
    <3>. QED
      BY <1>1, <2>5, <3>1, <3>2 DEF TypeOK, CacheExact
  <2>. QED
    BY <2>4, <2>5
<1>3. ASSUME NEW m \in Moments, AppendMoment(m)
      PROVE  Inv' /\ raised' = raised
  <2>1. moments' = Append(moments, m) /\ raised' = raised
    BY <1>3 DEF AppendMoment
  <2>2. /\ moments' \in Seq(Moments)
        /\ Len(moments') = Len(moments) + 1
        /\ \A i \in 1 .. Len(moments) : moments'[i] = moments[i]
        /\ moments'[Len(moments) + 1] = m
    BY <1>1, <2>1, AppendProperties
  <2>3. CASE cache.on
    <3>1. cache.len = Len(moments)
      BY <2>3, CacheBounded
    <3>2. cache' = Record(cache, m, Len(moments) + 1)
      BY <1>3, <2>3, <3>1 DEF AppendMoment
    <3>3. /\ \A b \in MomentQubits(m) : cache.q[b] <= Len(moments) + 1
          /\ \A b \in MomentMKeys(m) : cache.m[b] <= Len(moments) + 1
      <4>1. MomentQubits(m) \subseteq Qubits /\ MomentMKeys(m) \subseteq Keys
        BY PlacementAssumption DEF Moments, MomentQubits, MomentMKeys
      <4>. QED
        BY <1>1, <2>3, <4>1, CacheBounded
    <3>4. Len(moments) + 1 \in 1 .. Len(moments) + 1 /\ Len(moments) + 1 > Len(moments)
      BY <1>1
    <3>5. ~(Len(moments) + 1 <= Len(moments))
      BY <1>1
    <3>6. CacheExact' /\ cache' \in CacheType
      BY <2>2, <2>3, <3>2, <3>3, <3>4, <3>5, RecordKeepsExact
    <3>. QED
      BY <1>1, <2>1, <2>2, <3>6 DEF TypeOK
  <2>4. CASE ~cache.on
    BY <1>1, <1>3, <2>1, <2>2, <2>4 DEF AppendMoment, TypeOK, CacheExact
  <2>. QED
    BY <2>3, <2>4
<1>4. NoCache \in CacheType /\ ~NoCache.on
  BY DEF NoCache, EmptyCache, CacheType
<1>5. ASSUME NEW i \in 1 .. Len(moments), DelItem(i)
      PROVE  Inv' /\ raised' = raised
  <2>1. /\ SubSeq(moments, 1, i - 1) \in Seq(Moments)
        /\ SubSeq(moments, i + 1, Len(moments)) \in Seq(Moments)
    BY <1>1
  <2>2. moments' \in Seq(Moments)
    BY <1>5, <2>1, ConcatProperties DEF DelItem
  <2>. QED
    BY <1>1, <1>4, <1>5, <2>2 DEF DelItem, TypeOK, CacheExact
<1>6. ASSUME NEW i \in 1 .. Len(moments), NEW m \in Moments, SetItem(i, m)
      PROVE  Inv' /\ raised' = raised
  <2>1. moments' \in Seq(Moments)
    BY <1>1, <1>6, ExceptSeq DEF SetItem
  <2>. QED
    BY <1>1, <1>4, <1>6, <2>1 DEF SetItem, TypeOK, CacheExact
<1>7. ASSUME NewCircuit
      PROVE  Inv' /\ raised' = raised
  <2>1. moments' \in Seq(Moments) /\ Len(moments') = 0 /\ cache' = EmptyCache /\ raised' = raised
    BY <1>7 DEF NewCircuit
  <2>2. cache' \in CacheType
    BY <2>1 DEF EmptyCache, CacheType
  <2>3. CacheExact'
    BY <2>1 DEF EmptyCache, CacheExact, IsLast, WithQubit, WithMKey, WithCKey
  <2>. QED
    BY <1>1, <2>1, <2>2, <2>3 DEF TypeOK
<1>8. ASSUME UNCHANGED vars
      PROVE  Inv' /\ raised' = raised
  BY <1>8 DEF vars, TypeOK, CacheExact, WithQubit, WithMKey, WithCKey
<1>. QED
  BY <1>2, <1>3, <1>5, <1>6, <1>7, <1>8 DEF Next

----------------------------------------------------------------------------
\* The theorems.

\* The invariant holds in every state.
LEMMA InvHolds == Spec => []Inv
<1>1. Inv /\ [Next]_vars => Inv'
  BY StepInv
<1>. QED
  BY <1>1, InitInv, PTL DEF Spec

\* No sequence of appends, item assignments and deletions produces a moment with
\* two operations on one qubit.
THEOREM PlacementTypeCorrect == Spec => []TypeOK
<1>1. Inv => TypeOK
  BY DEF Inv
<1>. QED
  BY <1>1, InvHolds, PTL

\* A placement cache that is in use describes the moments exactly: every call
\* either maintains or drops it.
THEOREM CacheIsExact == Spec => []CacheExact
<1>1. Inv => CacheExact
  BY DEF Inv
<1>. QED
  BY <1>1, InvHolds, PTL

\* The constant-time placement of _PlacementCache is the placement of the scan
\* in earliest_available_moment().
THEOREM CachedPlacementIsTheScan == Spec => []CacheAgreesWithScan
BY InvHolds, ExactCacheAgrees, PTL

\* append() with the EARLIEST strategy never meets a qubit in use.
THEOREM AppendsNeverRaise == Spec => []AppendNeverRaises
<1>1. Inv /\ AppendNeverRaises /\ [Next]_vars => AppendNeverRaises'
  BY StepInv DEF AppendNeverRaises
<1>. QED
  BY <1>1, InitInv, InvHolds, PTL DEF Spec
=============================================================================
