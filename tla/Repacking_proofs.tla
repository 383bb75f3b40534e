-------------------------- MODULE Repacking_proofs --------------------------
(***************************************************************************)
(* Proofs about Repacking: align_left(), align_right(),                    *)
(* stratified_circuit(), the merging of operations and                     *)
(* synchronize_terminal_measurements() keep the order of what does not     *)
(* commute, for every circuit that satisfies CircuitInv, whichever         *)
(* operations are to be ignored.                                           *)
(*                                                                         *)
(* The first part says of each loop that it stays in a set Good[i] after   *)
(* i turns, if every turn leads from one such set to the next.  The others *)
(* say what that set is, by the operations D visited so far:               *)
(*   - Aligned: each is where it was or earlier, in order, and those to be *)
(*     ignored where they were;                                            *)
(*   - Layered, Stable: each is in a slot of its class, in order, and the  *)
(*     dictionaries know the places (Covers, Timed, Moving);               *)
(*   - Parted: each is in one component; while a moment is merged, its own *)
(*     moment holds only components over its operations (Topped), and what *)
(*     is merged to the right clashes with nothing after it (Heads).       *)
(* A circuit repacked backward is repacked (RepackedBack).                 *)
(***************************************************************************)
EXTENDS Circuit_proofs, FiniteSetTheorems

----------------------------------------------------------------------------
(* Loops *)

\* The operations of a moment, aligned one by one.
LEMMA AlignMomentStays ==
    ASSUME NEW c, NEW n, NEW m, NEW ignored, NEW N \in Nat, N = Len(Visited(m)), NEW Good, c \in Good[0],
           \A i \in 1..N : \A d \in Good[i - 1] : AlignNext(d, n, Visited(m)[i], ignored) \in Good[i]
    PROVE  AlignMoment(c, n, m, ignored) \in Good[N]
<1>. DEFINE Def(f) == f = [i \in 0..N |-> IF i = 0 THEN c ELSE AlignNext(f[i - 1], n, Visited(m)[i], ignored)]
<1>1. PICK F : F = [i \in 1..N |-> [d \in Good[i - 1] |-> AlignNext(d, n, Visited(m)[i], ignored)]]
  OBVIOUS
<1>2. \A i \in 1..N : \A d \in Good[i - 1] : F[i][d] = AlignNext(d, n, Visited(m)[i], ignored)
  BY <1>1
<1>3. PICK g : IsRun(g, N, c, F, Good)
  <2>1. \A i \in 1..N : \A d \in Good[i - 1] : F[i][d] \in Good[i]
    BY <1>2
  <2>. QED
    BY <2>1, LoopExists
<1>4. Def(g)
  <2>1. \A i \in 0..N : i # 0 => i \in 1..N /\ i - 1 \in 0..N
    OBVIOUS
  <2>2. \A i \in 0..N : i # 0 => F[i][g[i - 1]] = AlignNext(g[i - 1], n, Visited(m)[i], ignored)
    BY <1>2, <1>3, <2>1 DEF IsRun
  <2>. QED
    BY <1>3, <2>2 DEF IsRun
<1>5. PICK f : f = CHOOSE h : Def(h)
  OBVIOUS
<1>6. Def(f)
  <2>. HIDE DEF Def
  <2>. QED
    BY <1>4, <1>5
<1>7. AlignMoment(c, n, m, ignored) = f[N]
  BY <1>5 DEF AlignMoment
<1>8. f[0] = c /\ \A i \in 1..N : f[i] = AlignNext(f[i - 1], n, Visited(m)[i], ignored)
  <2>1. 0 \in 0..N /\ \A i \in 1..N : i \in 0..N /\ i # 0
    OBVIOUS
  <2>2. f[0] = c
    BY <1>6, <2>1
  <2>3. \A i \in 1..N : f[i] = AlignNext(f[i - 1], n, Visited(m)[i], ignored)
    BY <1>6, <2>1
  <2>. QED
    BY <2>2, <2>3
<1>9. \A i \in 0..N : f[i] \in Good[i]
  BY <1>8, StatesStay
<1>. QED
  BY <1>7, <1>9

\* The moments of a circuit, aligned one by one.
LEMMA AlignLeftStays ==
    ASSUME NEW ms, NEW ignored, NEW N \in Nat, N = Len(ms),
           NEW Good, Start(<<>>, 0, "EARLIEST", NoCache) \in Good[0],
           \A i \in 1..N : \A d \in Good[i - 1] : AlignMoment(d, i, ms[i], ignored) \in Good[i]
    PROVE  AlignLeft(ms, ignored) \in Good[N]
<1>. DEFINE Def(f) == f = [i \in 0..N |->
               IF i = 0 THEN Start(<<>>, 0, "EARLIEST", NoCache)
               ELSE AlignMoment(f[i - 1], i, ms[i], ignored)]
<1>1. PICK F : F = [i \in 1..N |-> [d \in Good[i - 1] |-> AlignMoment(d, i, ms[i], ignored)]]
  OBVIOUS
<1>2. \A i \in 1..N : \A d \in Good[i - 1] : F[i][d] = AlignMoment(d, i, ms[i], ignored)
  BY <1>1
<1>3. PICK g : IsRun(g, N, Start(<<>>, 0, "EARLIEST", NoCache), F, Good)
  <2>1. \A i \in 1..N : \A d \in Good[i - 1] : F[i][d] \in Good[i]
    BY <1>2
  <2>. QED
    BY <2>1, LoopExists
<1>4. Def(g)
  <2>1. \A i \in 0..N : i # 0 => i \in 1..N /\ i - 1 \in 0..N
    OBVIOUS
  <2>2. \A i \in 0..N : i # 0 => F[i][g[i - 1]] = AlignMoment(g[i - 1], i, ms[i], ignored)
    BY <1>2, <1>3, <2>1 DEF IsRun
  <2>. QED
    BY <1>3, <2>2 DEF IsRun
<1>5. PICK f : f = CHOOSE h : Def(h)
  OBVIOUS
<1>6. Def(f)
  <2>. HIDE DEF Def
  <2>. QED
    BY <1>4, <1>5
<1>7. AlignLeft(ms, ignored) = f[N]
  BY <1>5 DEF AlignLeft
<1>8. f[0] = Start(<<>>, 0, "EARLIEST", NoCache)
      /\ \A i \in 1..N : f[i] = AlignMoment(f[i - 1], i, ms[i], ignored)
  <2>1. 0 \in 0..N /\ \A i \in 1..N : i \in 0..N /\ i # 0
    OBVIOUS
  <2>2. f[0] = Start(<<>>, 0, "EARLIEST", NoCache)
    BY <1>6, <2>1
  <2>3. \A i \in 1..N : f[i] = AlignMoment(f[i - 1], i, ms[i], ignored)
    BY <1>6, <2>1
  <2>. QED
    BY <2>2, <2>3
<1>9. \A i \in 0..N : f[i] \in Good[i]
  BY <1>8, StatesStay
<1>. QED
  BY <1>7, <1>9

\* The operations of a moment get their times.
LEMMA TimeMomentStays ==
    ASSUME NEW s, NEW m, NEW class, NEW n, NEW ignored, NEW N \in Nat, N = Len(Visited(m)),
           NEW Good, [times |-> s.times, at |-> [x \in m |-> 0]] \in Good[0],
           \A i \in 1..N : \A d \in Good[i - 1] : TimeOp(d, s, Visited(m)[i], class, n, ignored) \in Good[i]
    PROVE  TimeMoment(s, m, class, n, ignored) \in Good[N]
<1>. DEFINE Def(f) == f = [i \in 0..N |->
               IF i = 0 THEN [times |-> s.times, at |-> [x \in m |-> 0]]
               ELSE TimeOp(f[i - 1], s, Visited(m)[i], class, n, ignored)]
<1>1. PICK F : F = [i \in 1..N |-> [d \in Good[i - 1] |-> TimeOp(d, s, Visited(m)[i], class, n, ignored)]]
  OBVIOUS
<1>2. \A i \in 1..N : \A d \in Good[i - 1] : F[i][d] = TimeOp(d, s, Visited(m)[i], class, n, ignored)
  BY <1>1
<1>3. PICK g : IsRun(g, N, [times |-> s.times, at |-> [x \in m |-> 0]], F, Good)
  <2>1. \A i \in 1..N : \A d \in Good[i - 1] : F[i][d] \in Good[i]
    BY <1>2
  <2>. QED
    BY <2>1, LoopExists
<1>4. Def(g)
  <2>1. \A i \in 0..N : i # 0 => i \in 1..N /\ i - 1 \in 0..N
    OBVIOUS
  <2>2. \A i \in 0..N : i # 0 => F[i][g[i - 1]] = TimeOp(g[i - 1], s, Visited(m)[i], class, n, ignored)
    BY <1>2, <1>3, <2>1 DEF IsRun
  <2>. QED
    BY <1>3, <2>2 DEF IsRun
<1>5. PICK f : f = CHOOSE h : Def(h)
  OBVIOUS
<1>6. Def(f)
  <2>. HIDE DEF Def
  <2>. QED
    BY <1>4, <1>5
<1>7. TimeMoment(s, m, class, n, ignored) = f[N]
  BY <1>5 DEF TimeMoment
<1>8. f[0] = [times |-> s.times, at |-> [x \in m |-> 0]]
      /\ \A i \in 1..N : f[i] = TimeOp(f[i - 1], s, Visited(m)[i], class, n, ignored)
  <2>1. 0 \in 0..N /\ \A i \in 1..N : i \in 0..N /\ i # 0
    OBVIOUS
  <2>2. f[0] = [times |-> s.times, at |-> [x \in m |-> 0]]
    BY <1>6, <2>1
  <2>3. \A i \in 1..N : f[i] = TimeOp(f[i - 1], s, Visited(m)[i], class, n, ignored)
    BY <1>6, <2>1
  <2>. QED
    BY <2>2, <2>3
<1>9. \A i \in 0..N : f[i] \in Good[i]
  BY <1>8, StatesStay
<1>. QED
  BY <1>7, <1>9

\* The operations of a moment are moved.
LEMMA MoveMomentStays ==
    ASSUME NEW s, NEW m, NEW at, NEW size, NEW N \in Nat, N = Len(Visited(m)), NEW Good, s \in Good[0],
           \A i \in 1..N : \A d \in Good[i - 1] : MoveOp(d, Visited(m)[i], at[Visited(m)[i]], size) \in Good[i]
    PROVE  MoveMoment(s, m, at, size) \in Good[N]
<1>. DEFINE Def(f) == f = [i \in 0..N |->
               IF i = 0 THEN s
               ELSE MoveOp(f[i - 1], Visited(m)[i], at[Visited(m)[i]], size)]
<1>1. PICK F : F = [i \in 1..N |-> [d \in Good[i - 1] |-> MoveOp(d, Visited(m)[i], at[Visited(m)[i]], size)]]
  OBVIOUS
<1>2. \A i \in 1..N : \A d \in Good[i - 1] : F[i][d] = MoveOp(d, Visited(m)[i], at[Visited(m)[i]], size)
  BY <1>1
<1>3. PICK g : IsRun(g, N, s, F, Good)
  <2>1. \A i \in 1..N : \A d \in Good[i - 1] : F[i][d] \in Good[i]
    BY <1>2
  <2>. QED
    BY <2>1, LoopExists
<1>4. Def(g)
  <2>1. \A i \in 0..N : i # 0 => i \in 1..N /\ i - 1 \in 0..N
    OBVIOUS
  <2>2. \A i \in 0..N : i # 0 => F[i][g[i - 1]] = MoveOp(g[i - 1], Visited(m)[i], at[Visited(m)[i]], size)
    BY <1>2, <1>3, <2>1 DEF IsRun
  <2>. QED
    BY <1>3, <2>2 DEF IsRun
<1>5. PICK f : f = CHOOSE h : Def(h)
  OBVIOUS
<1>6. Def(f)
  <2>. HIDE DEF Def
  <2>. QED
    BY <1>4, <1>5
<1>7. MoveMoment(s, m, at, size) = f[N]
  BY <1>5 DEF MoveMoment
<1>8. f[0] = s /\ \A i \in 1..N : f[i] = MoveOp(f[i - 1], Visited(m)[i], at[Visited(m)[i]], size)
  <2>1. 0 \in 0..N /\ \A i \in 1..N : i \in 0..N /\ i # 0
    OBVIOUS
  <2>2. f[0] = s
    BY <1>6, <2>1
  <2>3. \A i \in 1..N : f[i] = MoveOp(f[i - 1], Visited(m)[i], at[Visited(m)[i]], size)
    BY <1>6, <2>1
  <2>. QED
    BY <2>2, <2>3
<1>9. \A i \in 0..N : f[i] \in Good[i]
  BY <1>8, StatesStay
<1>. QED
  BY <1>7, <1>9

\* The empty moments are left out.
LEMMA NotEmptyStays ==
    ASSUME NEW ms, NEW N \in Nat, N = Len(ms), NEW Good, <<>> \in Good[0],
           \A i \in 1..N : \A d \in Good[i - 1] : (IF ms[i] = {} THEN d ELSE Append(d, ms[i])) \in Good[i]
    PROVE  NotEmpty(ms) \in Good[N]
<1>. DEFINE Def(f) == f = [i \in 0..N |->
               IF i = 0 THEN <<>>
               ELSE (IF ms[i] = {} THEN f[i - 1] ELSE Append(f[i - 1], ms[i]))]
<1>1. PICK F : F = [i \in 1..N |-> [d \in Good[i - 1] |-> (IF ms[i] = {} THEN d ELSE Append(d, ms[i]))]]
  OBVIOUS
<1>2. \A i \in 1..N : \A d \in Good[i - 1] : F[i][d] = (IF ms[i] = {} THEN d ELSE Append(d, ms[i]))
  BY <1>1
<1>3. PICK g : IsRun(g, N, <<>>, F, Good)
  <2>1. \A i \in 1..N : \A d \in Good[i - 1] : F[i][d] \in Good[i]
    BY <1>2
  <2>. QED
    BY <2>1, LoopExists
<1>4. Def(g)
  <2>1. \A i \in 0..N : i # 0 => i \in 1..N /\ i - 1 \in 0..N
    OBVIOUS
  <2>2. \A i \in 0..N : i # 0 => F[i][g[i - 1]] = (IF ms[i] = {} THEN g[i - 1] ELSE Append(g[i - 1], ms[i]))
    BY <1>2, <1>3, <2>1 DEF IsRun
  <2>. QED
    BY <1>3, <2>2 DEF IsRun
<1>5. PICK f : f = CHOOSE h : Def(h)
  OBVIOUS
<1>6. Def(f)
  <2>. HIDE DEF Def
  <2>. QED
    BY <1>4, <1>5
<1>7. NotEmpty(ms) = f[N]
  BY <1>5 DEF NotEmpty
<1>8. f[0] = <<>> /\ \A i \in 1..N : f[i] = (IF ms[i] = {} THEN f[i - 1] ELSE Append(f[i - 1], ms[i]))
  <2>1. 0 \in 0..N /\ \A i \in 1..N : i \in 0..N /\ i # 0
    OBVIOUS
  <2>2. f[0] = <<>>
    BY <1>6, <2>1
  <2>3. \A i \in 1..N : f[i] = (IF ms[i] = {} THEN f[i - 1] ELSE Append(f[i - 1], ms[i]))
    BY <1>6, <2>1
  <2>. QED
    BY <2>2, <2>3
<1>9. \A i \in 0..N : f[i] \in Good[i]
  BY <1>8, StatesStay
<1>. QED
  BY <1>7, <1>9

\* The moments of a circuit, stratified one by one.
LEMMA StratifyStays ==
    ASSUME NEW ms, NEW class, NEW n, NEW ignored, NEW N \in Nat, N = Len(ms),
           NEW Good, [ms |-> <<>>, times |-> EmptyCache, last |-> 0] \in Good[0],
           \A i \in 1..N : \A d \in Good[i - 1] : StratifyMoment(d, ms[i], class, n, ignored) \in Good[i]
    PROVE  StratifyMoments(ms, class, n, ignored) \in Good[N]
<1>. DEFINE Def(f) == f = [i \in 0..N |->
               IF i = 0 THEN [ms |-> <<>>, times |-> EmptyCache, last |-> 0]
               ELSE StratifyMoment(f[i - 1], ms[i], class, n, ignored)]
<1>1. PICK F : F = [i \in 1..N |-> [d \in Good[i - 1] |-> StratifyMoment(d, ms[i], class, n, ignored)]]
  OBVIOUS
<1>2. \A i \in 1..N : \A d \in Good[i - 1] : F[i][d] = StratifyMoment(d, ms[i], class, n, ignored)
  BY <1>1
<1>3. PICK g : IsRun(g, N, [ms |-> <<>>, times |-> EmptyCache, last |-> 0], F, Good)
  <2>1. \A i \in 1..N : \A d \in Good[i - 1] : F[i][d] \in Good[i]
    BY <1>2
  <2>. QED
    BY <2>1, LoopExists
<1>4. Def(g)
  <2>1. \A i \in 0..N : i # 0 => i \in 1..N /\ i - 1 \in 0..N
    OBVIOUS
  <2>2. \A i \in 0..N : i # 0 => F[i][g[i - 1]] = StratifyMoment(g[i - 1], ms[i], class, n, ignored)
    BY <1>2, <1>3, <2>1 DEF IsRun
  <2>. QED
    BY <1>3, <2>2 DEF IsRun
<1>5. PICK f : f = CHOOSE h : Def(h)
  OBVIOUS
<1>6. Def(f)
  <2>. HIDE DEF Def
  <2>. QED
    BY <1>4, <1>5
<1>7. StratifyMoments(ms, class, n, ignored) = f[N]
  BY <1>5 DEF StratifyMoments
<1>8. f[0] = [ms |-> <<>>, times |-> EmptyCache, last |-> 0]
      /\ \A i \in 1..N : f[i] = StratifyMoment(f[i - 1], ms[i], class, n, ignored)
  <2>1. 0 \in 0..N /\ \A i \in 1..N : i \in 0..N /\ i # 0
    OBVIOUS
  <2>2. f[0] = [ms |-> <<>>, times |-> EmptyCache, last |-> 0]
    BY <1>6, <2>1
  <2>3. \A i \in 1..N : f[i] = StratifyMoment(f[i - 1], ms[i], class, n, ignored)
    BY <1>6, <2>1
  <2>. QED
    BY <2>2, <2>3
<1>9. \A i \in 0..N : f[i] \in Good[i]
  BY <1>8, StatesStay
<1>. QED
  BY <1>7, <1>9

\* The turns of the while loop.
LEMMA MergeRightStays ==
    ASSUME NEW cs, NEW c, NEW can, NEW N \in Nat, N = Cardinality(Ops) + Cardinality(CompQubits(c)),
           NEW Good, [cs |-> cs, c |-> c, qs |-> CompQubits(c)] \in Good[0],
           \A i \in 1..N : \A d \in Good[i - 1] : MergeLeft(d, can) \in Good[i]
    PROVE  MergeRight(cs, c, can) \in Good[N]
<1>. DEFINE Def(f) == f = [i \in 0..N |->
               IF i = 0 THEN [cs |-> cs, c |-> c, qs |-> CompQubits(c)]
               ELSE MergeLeft(f[i - 1], can)]
<1>1. PICK F : F = [i \in 1..N |-> [d \in Good[i - 1] |-> MergeLeft(d, can)]]
  OBVIOUS
<1>2. \A i \in 1..N : \A d \in Good[i - 1] : F[i][d] = MergeLeft(d, can)
  BY <1>1
<1>3. PICK g : IsRun(g, N, [cs |-> cs, c |-> c, qs |-> CompQubits(c)], F, Good)
  <2>1. \A i \in 1..N : \A d \in Good[i - 1] : F[i][d] \in Good[i]
    BY <1>2
  <2>. QED
    BY <2>1, LoopExists
<1>4. Def(g)
  <2>1. \A i \in 0..N : i # 0 => i \in 1..N /\ i - 1 \in 0..N
    OBVIOUS
  <2>2. \A i \in 0..N : i # 0 => F[i][g[i - 1]] = MergeLeft(g[i - 1], can)
    BY <1>2, <1>3, <2>1 DEF IsRun
  <2>. QED
    BY <1>3, <2>2 DEF IsRun
<1>5. PICK f : f = CHOOSE h : Def(h)
  OBVIOUS
<1>6. Def(f)
  <2>. HIDE DEF Def
  <2>. QED
    BY <1>4, <1>5
<1>7. MergeRight(cs, c, can) = f[N]
  BY <1>5 DEF MergeRight
<1>8. f[0] = [cs |-> cs, c |-> c, qs |-> CompQubits(c)] /\ \A i \in 1..N : f[i] = MergeLeft(f[i - 1], can)
  <2>1. 0 \in 0..N /\ \A i \in 1..N : i \in 0..N /\ i # 0
    OBVIOUS
  <2>2. f[0] = [cs |-> cs, c |-> c, qs |-> CompQubits(c)]
    BY <1>6, <2>1
  <2>3. \A i \in 1..N : f[i] = MergeLeft(f[i - 1], can)
    BY <1>6, <2>1
  <2>. QED
    BY <2>2, <2>3
<1>9. \A i \in 0..N : f[i] \in Good[i]
  BY <1>8, StatesStay
<1>. QED
  BY <1>7, <1>9

\* The operations of a moment, merged one by one.
LEMMA MergeMomentStays ==
    ASSUME NEW cs, NEW m, NEW can, NEW N \in Nat, N = Len(Visited(m)), NEW Good, Append(cs, {}) \in Good[0],
           \A i \in 1..N : \A d \in Good[i - 1] : MergeOp(d, Visited(m)[i], can) \in Good[i]
    PROVE  MergeMoment(cs, m, can) \in Good[N]
<1>. DEFINE Def(f) == f = [i \in 0..N |->
               IF i = 0 THEN Append(cs, {})
               ELSE MergeOp(f[i - 1], Visited(m)[i], can)]
<1>1. PICK F : F = [i \in 1..N |-> [d \in Good[i - 1] |-> MergeOp(d, Visited(m)[i], can)]]
  OBVIOUS
<1>2. \A i \in 1..N : \A d \in Good[i - 1] : F[i][d] = MergeOp(d, Visited(m)[i], can)
  BY <1>1
<1>3. PICK g : IsRun(g, N, Append(cs, {}), F, Good)
  <2>1. \A i \in 1..N : \A d \in Good[i - 1] : F[i][d] \in Good[i]
    BY <1>2
  <2>. QED
    BY <2>1, LoopExists
<1>4. Def(g)
  <2>1. \A i \in 0..N : i # 0 => i \in 1..N /\ i - 1 \in 0..N
    OBVIOUS
  <2>2. \A i \in 0..N : i # 0 => F[i][g[i - 1]] = MergeOp(g[i - 1], Visited(m)[i], can)
    BY <1>2, <1>3, <2>1 DEF IsRun
  <2>. QED
    BY <1>3, <2>2 DEF IsRun
<1>5. PICK f : f = CHOOSE h : Def(h)
  OBVIOUS
<1>6. Def(f)
  <2>. HIDE DEF Def
  <2>. QED
    BY <1>4, <1>5
<1>7. MergeMoment(cs, m, can) = f[N]
  BY <1>5 DEF MergeMoment
<1>8. f[0] = Append(cs, {}) /\ \A i \in 1..N : f[i] = MergeOp(f[i - 1], Visited(m)[i], can)
  <2>1. 0 \in 0..N /\ \A i \in 1..N : i \in 0..N /\ i # 0
    OBVIOUS
  <2>2. f[0] = Append(cs, {})
    BY <1>6, <2>1
  <2>3. \A i \in 1..N : f[i] = MergeOp(f[i - 1], Visited(m)[i], can)
    BY <1>6, <2>1
  <2>. QED
    BY <2>2, <2>3
<1>9. \A i \in 0..N : f[i] \in Good[i]
  BY <1>8, StatesStay
<1>. QED
  BY <1>7, <1>9

\* The moments of a circuit, merged one by one.
LEMMA MergeStays ==
    ASSUME NEW ms, NEW can, NEW N \in Nat, N = Len(ms), NEW Good, <<>> \in Good[0],
           \A i \in 1..N : \A d \in Good[i - 1] : MergeMoment(d, ms[i], can) \in Good[i]
    PROVE  Merge(ms, can) \in Good[N]
<1>. DEFINE Def(f) == f = [i \in 0..N |-> IF i = 0 THEN <<>> ELSE MergeMoment(f[i - 1], ms[i], can)]
<1>1. PICK F : F = [i \in 1..N |-> [d \in Good[i - 1] |-> MergeMoment(d, ms[i], can)]]
  OBVIOUS
<1>2. \A i \in 1..N : \A d \in Good[i - 1] : F[i][d] = MergeMoment(d, ms[i], can)
  BY <1>1
<1>3. PICK g : IsRun(g, N, <<>>, F, Good)
  <2>1. \A i \in 1..N : \A d \in Good[i - 1] : F[i][d] \in Good[i]
    BY <1>2
  <2>. QED
    BY <2>1, LoopExists
<1>4. Def(g)
  <2>1. \A i \in 0..N : i # 0 => i \in 1..N /\ i - 1 \in 0..N
    OBVIOUS
  <2>2. \A i \in 0..N : i # 0 => F[i][g[i - 1]] = MergeMoment(g[i - 1], ms[i], can)
    BY <1>2, <1>3, <2>1 DEF IsRun
  <2>. QED
    BY <1>3, <2>2 DEF IsRun
<1>5. PICK f : f = CHOOSE h : Def(h)
  OBVIOUS
<1>6. Def(f)
  <2>. HIDE DEF Def
  <2>. QED
    BY <1>4, <1>5
<1>7. Merge(ms, can) = f[N]
  BY <1>5 DEF Merge
<1>8. f[0] = <<>> /\ \A i \in 1..N : f[i] = MergeMoment(f[i - 1], ms[i], can)
  <2>1. 0 \in 0..N /\ \A i \in 1..N : i \in 0..N /\ i # 0
    OBVIOUS
  <2>2. f[0] = <<>>
    BY <1>6, <2>1
  <2>3. \A i \in 1..N : f[i] = MergeMoment(f[i - 1], ms[i], can)
    BY <1>6, <2>1
  <2>. QED
    BY <2>2, <2>3
<1>9. \A i \in 0..N : f[i] \in Good[i]
  BY <1>8, StatesStay
<1>. QED
  BY <1>7, <1>9

----------------------------------------------------------------------------
(* Visiting a circuit *)

\* The operations of a moment that are visited first.
Visiting(m, i) == {Visited(m)[j] : j \in 1..i}

\* Every operation of a moment is visited once.
LEMMA VisitingFacts ==
    ASSUME NEW m \in SUBSET Ops, NEW N, N = Len(Visited(m))
    PROVE  /\ N \in Nat /\ Visiting(m, 0) = {} /\ Visiting(m, N) = m
           /\ \A i \in 1..N : /\ Visited(m)[i] \in m /\ Visited(m)[i] \notin Visiting(m, i - 1)
                              /\ Visiting(m, i - 1) \subseteq m
                              /\ Visiting(m, i) = Visiting(m, i - 1) \cup {Visited(m)[i]}
<1>1. PICK n : n = Cardinality(m)
  OBVIOUS
<1>2. IsFiniteSet(m) /\ n \in Nat /\ ExistsBijection(1..n, m)
  <2>1. IsFiniteSet(m)
    BY OperationsAssumption, FS_Subset
  <2>. QED
    BY <1>1, <2>1, FS_CardinalityType
<1>3. PICK f : f = Visited(m)
  OBVIOUS
<1>4. f \in [1..n -> m] /\ IsInjective(f)
  <2>1. \E h \in [1..n -> m] : IsInjective(h)
    BY <1>2 DEF ExistsBijection, Bijection, Injection
  <2>. QED
    BY <1>1, <1>3, <2>1 DEF Visited, SetToSeq
<1>5. N = n
  <2>1. f \in Seq(m) /\ DOMAIN f = 1..n
    BY <1>2, <1>4
  <2>. QED
    BY <1>2, <1>3, <2>1
<1>6. \A x \in m : \E i \in 1..n : f[i] = x
  <2>1. IsFiniteSet(1..n) /\ Cardinality(1..n) = n
    <3>1. 1 \in Int /\ n \in Int
      BY <1>2
    <3>2. IsFiniteSet(1..n) /\ Cardinality(1..n) = IF 1 > n THEN 0 ELSE n - 1 + 1
      BY <3>1, FS_Interval
    <3>. QED
      BY <1>2, <3>2
  <2>2. f \in Injection(1..n, m)
    BY <1>4 DEF Injection
  <2>3. f \in Surjection(1..n, m)
    BY <1>1, <1>2, <2>1, <2>2, FS_Injection
  <2>. QED
    BY <2>3 DEF Surjection
<1>7. \A i, j \in 1..n : f[i] = f[j] => i = j
  BY <1>4 DEF IsInjective
<1>8. \A i : Visiting(m, i) = {f[j] : j \in 1..i}
  BY <1>3 DEF Visiting
<1>9. Visiting(m, 0) = {} /\ Visiting(m, n) = m
  <2>1. 1..0 = {}
    OBVIOUS
  <2>2. Visiting(m, 0) = {}
    BY <1>8, <2>1
  <2>3. \A j \in 1..n : f[j] \in m
    BY <1>4
  <2>4. {f[j] : j \in 1..n} = m
    BY <1>6, <2>3
  <2>. QED
    BY <1>8, <2>2, <2>4
<1>10. ASSUME NEW i \in 1..n
       PROVE  /\ f[i] \in m /\ f[i] \notin Visiting(m, i - 1) /\ Visiting(m, i - 1) \subseteq m
              /\ Visiting(m, i) = Visiting(m, i - 1) \cup {f[i]}
  <2>1. 1..i = 1..(i - 1) \cup {i} /\ \A j \in 1..(i - 1) : j \in 1..n /\ j # i
    BY <1>2
  <2>2. f[i] \in m /\ \A j \in 1..(i - 1) : f[j] \in m /\ f[j] # f[i]
    BY <1>4, <1>7, <2>1
  <2>. QED
    BY <1>8, <2>1, <2>2
<1>. QED
  BY <1>2, <1>3, <1>5, <1>9, <1>10

\* The operations in the first n moments.
Before(ms, n) == {x \in OpsIn(ms) : At(ms, x) <= n}

\* Moment by moment they become all operations.
LEMMA BeforeFacts ==
    ASSUME NEW ms, Circ(ms)
    PROVE  /\ Before(ms, 0) = {} /\ Before(ms, Len(ms)) = OpsIn(ms)
           /\ \A n \in 1..Len(ms) : /\ Before(ms, n) = Before(ms, n - 1) \cup ms[n]
                                    /\ Before(ms, n - 1) \cap ms[n] = {} /\ ms[n] \in SUBSET Ops
<1>1. /\ Len(ms) \in Nat /\ \A x \in OpsIn(ms) : At(ms, x) \in 1..Len(ms) /\ x \in ms[At(ms, x)] /\ x \in Ops
      /\ \A n \in 1..Len(ms) : \A x \in ms[n] : x \in OpsIn(ms) /\ At(ms, x) = n
  BY AtFacts
<1>2. Before(ms, 0) = {} /\ Before(ms, Len(ms)) = OpsIn(ms)
  BY <1>1 DEF Before
<1>3. ASSUME NEW n \in 1..Len(ms)
      PROVE  /\ Before(ms, n) = Before(ms, n - 1) \cup ms[n]
             /\ Before(ms, n - 1) \cap ms[n] = {} /\ ms[n] \in SUBSET Ops
  <2>1. \A x \in OpsIn(ms) : At(ms, x) <= n <=> At(ms, x) <= n - 1 \/ At(ms, x) = n
    BY <1>1
  <2>2. \A x \in OpsIn(ms) : ~(At(ms, x) <= n - 1 /\ At(ms, x) = n)
    BY <1>1
  <2>3. \A x \in OpsIn(ms) : At(ms, x) = n <=> x \in ms[n]
    BY <1>1
  <2>4. \A x \in ms[n] : x \in OpsIn(ms) /\ x \in Ops
    BY <1>1
  <2>. QED
    BY <2>1, <2>2, <2>3, <2>4 DEF Before
<1>. QED
  BY <1>2, <1>3

\* No moment of the circuit holds operations that clash.
Peaceful(ms) == \A n \in DOMAIN ms : \A x, y \in ms[n] : x # y => ~Clash(x, y)

\* D is what has been visited when it is the turn of x, in moment n.
Turn(ms, D, n, x) ==
    /\ n \in 1..Len(ms) /\ x \in ms[n] /\ x \notin D
    /\ D \subseteq OpsIn(ms) /\ \A y \in D : At(ms, y) <= n

\* What has been visited and clashes with x is from an earlier moment.
LEMMA TurnFacts ==
    ASSUME NEW ms, Circ(ms), Peaceful(ms), NEW D, NEW n, NEW x, Turn(ms, D, n, x)
    PROVE  /\ Len(ms) \in Nat /\ n \in Nat /\ x \in Ops /\ x \in OpsIn(ms) /\ At(ms, x) = n
           /\ \A y \in D : At(ms, y) \in Nat /\ At(ms, y) <= n /\ y \in Ops /\ y \in OpsIn(ms)
           /\ \A y \in D : Clash(x, y) \/ Clash(y, x) => At(ms, y) < n
<1>1. /\ Len(ms) \in Nat /\ DOMAIN ms = 1..Len(ms)
      /\ \A y \in OpsIn(ms) : At(ms, y) \in 1..Len(ms) /\ y \in ms[At(ms, y)] /\ y \in Ops
      /\ \A i \in 1..Len(ms) : \A y \in ms[i] : y \in OpsIn(ms) /\ At(ms, y) = i
  BY AtFacts
<1>2. n \in 1..Len(ms) /\ x \in ms[n] /\ x \notin D /\ D \subseteq OpsIn(ms) /\ \A y \in D : At(ms, y) <= n
  BY DEF Turn
<1>3. \A y \in D : Clash(x, y) \/ Clash(y, x) => At(ms, y) # n
  BY <1>1, <1>2 DEF Peaceful
<1>. QED
  BY <1>1, <1>2, <1>3

\* Every operation has its turn.
LEMMA TurnComes ==
    ASSUME NEW ms, Circ(ms), NEW n \in 1..Len(ms), NEW i \in 1..Len(Visited(ms[n]))
    PROVE  Turn(ms, Before(ms, n - 1) \cup Visiting(ms[n], i - 1), n, Visited(ms[n])[i])
<1>1. /\ Len(ms) \in Nat /\ \A x \in OpsIn(ms) : At(ms, x) \in 1..Len(ms) /\ x \in Ops
      /\ \A k \in 1..Len(ms) : \A x \in ms[k] : x \in OpsIn(ms) /\ At(ms, x) = k
  BY AtFacts
<1>2. ms[n] \in SUBSET Ops /\ Before(ms, n - 1) \cap ms[n] = {}
  BY BeforeFacts
<1>3. /\ Visited(ms[n])[i] \in ms[n] /\ Visited(ms[n])[i] \notin Visiting(ms[n], i - 1)
      /\ Visiting(ms[n], i - 1) \subseteq ms[n]
  BY <1>2, VisitingFacts
<1>4. \A y \in Before(ms, n - 1) : y \in OpsIn(ms) /\ At(ms, y) <= n
  BY <1>1 DEF Before
<1>. QED
  BY <1>1, <1>2, <1>3, <1>4 DEF Turn

----------------------------------------------------------------------------
(* align_left() *)

\* t holds the operations D of the circuit ms, none later than it was, those of ign
\* where they were, and in order.
Aligned(ms, t, D, ign) ==
    /\ Circ(t) /\ OpsIn(t) = D
    /\ \A x \in D : At(t, x) <= At(ms, x) /\ (x \in ign => At(t, x) = At(ms, x))
    /\ \A x, y \in D : Clash(x, y) /\ At(ms, x) < At(ms, y) => At(t, x) < At(t, y)

\* One more operation, in a moment behind all that it clashes with.
LEMMA AlignedMore ==
    ASSUME NEW ms, Circ(ms), Peaceful(ms), NEW D, NEW n, NEW x, Turn(ms, D, n, x), NEW t, NEW ign,
           Aligned(ms, t, D, ign), NEW t2, Circ(t2), OpsIn(t2) = D \cup {x}, At(t2, x) \in 1..n,
           \A y \in D : At(t2, y) = At(t, y), \A y \in D : Clash(y, x) => At(t, y) < At(t2, x),
           x \in ign => At(t2, x) = n
    PROVE  Aligned(ms, t2, D \cup {x}, ign)
<1>1. /\ n \in Nat /\ At(ms, x) = n
      /\ \A y \in D : At(ms, y) \in Nat /\ At(ms, y) <= n
  BY TurnFacts
<1>2. \A y \in D \cup {x} : At(t2, y) <= At(ms, y) /\ (y \in ign => At(t2, y) = At(ms, y))
  BY <1>1 DEF Aligned
<1>3. \A y, z \in D \cup {x} : Clash(y, z) /\ At(ms, y) < At(ms, z) => At(t2, y) < At(t2, z)
  <2>1. \A z \in D \cup {x} : ~(n < At(ms, z))
    BY <1>1
  <2>2. \A y, z \in D \cup {x} : Clash(y, z) /\ At(ms, y) < At(ms, z) => y \in D
    BY <1>1, <2>1
  <2>. QED
    BY <2>2 DEF Aligned
<1>. QED
  BY <1>2, <1>3 DEF Aligned

\* append() of one operation, without a cache.
LEMMA AppendOne ==
    ASSUME NEW t, Circ(t), NEW x \in Ops, x \notin OpsIn(t),
           NEW r, r = Insert(t, NoCache, Len(t), <<Op(x)>>, "EARLIEST"),
           NEW p, p = EarliestAvailable(t, x, Len(t)) + 1
    PROVE  /\ r \in State /\ ~r.raised /\ p \in 1..(Len(t) + 1) /\ Grown(t, r.ms, {x}, p, Len(t))
           /\ \A y \in OpsIn(t) : Clash(y, x) => At(t, y) < p
<1>1. PICK es : es = <<Op(x)>>
  OBVIOUS
<1>2. /\ es \in Seq(Elements) /\ Len(es) = 1 /\ DOMAIN es = 1..1 /\ es[1] = Op(x) /\ OpsOf(es[1]) = {x}
      /\ ~es[1].whole /\ es[1].op = x
  <2>1. PICK e : e = Op(x)
    OBVIOUS
  <2>2. e \in Elements /\ OpsOf(e) = {x} /\ ~e.whole /\ e.op = x
    BY <2>1 DEF Elements, Op, OpsOf
  <2>. QED
    BY <1>1, <2>1, <2>2
<1>3. Given(es, t)
  BY <1>2 DEF Given, Proper, New
<1>4. Len(t) \in Nat
  BY AtFacts
<1>5. p = Spot(t, es[1])
  BY <1>2 DEF Spot
<1>6. PICK t2 : t2 = Appended(t, es[1])
  OBVIOUS
<1>7. /\ p \in 1..(Len(t) + 1) /\ Grown(t, t2, {x}, p, Len(t))
      /\ \A y \in OpsIn(t) : Clash(y, x) => At(t, y) < p
  <2>1. es[1] \in Elements /\ OpsOf(es[1]) \cap OpsIn(t) = {}
    BY <1>2
  <2>. QED
    BY <1>2, <1>5, <1>6, <2>1, AppendedFacts
<1>8. PICK G : G = [n \in 0..1 |-> IF n = 0 THEN t ELSE t2]
  OBVIOUS
<1>9. Appending(G, t, es)
  <2>1. Ordered(t, Len(t), es, 1..0, t)
    <3>1. 1..0 = {}
      OBVIOUS
    <3>. QED
      BY <1>3, <1>4, <3>1, OrderedStart
  <2>2. Ordered(t, Len(t), es, 1..1, t2)
    <3>1. 0 \in Nat /\ 0 + 1 = 1 /\ 1 \in 1..Len(es)
      BY <1>2
    <3>2. Ordered(t, Len(t), es, 1..(0 + 1), Appended(t, es[0 + 1]))
      BY <1>3, <1>4, <2>1, <3>1, OrderedAppend
    <3>. QED
      BY <1>6, <3>1, <3>2
  <2>. QED
    BY <1>2, <1>6, <1>8, <2>1, <2>2 DEF Appending
<1>10. r.ms = t2
  <2>1. Insert(t, NoCache, Len(t), es, "EARLIEST").ms = G[Len(es)]
    BY <1>3, <1>9, PlainAgrees
  <2>. QED
    BY <1>1, <1>2, <1>8, <2>1
<1>11. r \in State /\ ~r.raised
  <2>1. "EARLIEST" \in Strategies /\ Exact(t, NoCache) /\ Len(t) \in 0..Len(t)
    BY <1>4, NoCacheExact DEF Strategies
  <2>2. Inserted(r, t, Len(t), es, "EARLIEST")
    BY <1>1, <1>3, <2>1, InsertFacts
  <2>. QED
    BY <2>2 DEF Inserted
<1>. QED
  BY <1>7, <1>10, <1>11

\* Empty moments at the end move nothing.
LEMMA PaddedFacts ==
    ASSUME NEW t, Circ(t), NEW n \in Nat
    PROVE  /\ Circ(PaddedTo(t, n)) /\ OpsIn(PaddedTo(t, n)) = OpsIn(t)
           /\ Len(PaddedTo(t, n)) = Greater(n, Len(t))
           /\ \A x \in OpsIn(t) : At(PaddedTo(t, n), x) = At(t, x)
<1>1. Len(t) \in Nat /\ \A x \in OpsIn(t) : At(t, x) \in 1..Len(t)
  BY AtFacts
<1>2. PICK k \in Int : k = n - Len(t)
  BY <1>1
<1>3. PICK t2 : t2 = PaddedTo(t, n)
  OBVIOUS
<1>4. Shifted(t, t2, Len(t), Greater(0, k))
  <2>1. Shifted(t, t \o Empties(k), Len(t), Greater(0, k))
    BY EmptiesAtEnd
  <2>. QED
    BY <1>2, <1>3, <2>1 DEF PaddedTo
<1>5. Len(t) + Greater(0, k) = Greater(n, Len(t))
  BY <1>1, <1>2 DEF Greater
<1>6. \A x \in OpsIn(t) : ~(At(t, x) > Len(t))
  BY <1>1
<1>. QED
  BY <1>3, <1>4, <1>5, <1>6 DEF Shifted

\* An operation in the moment it was in: nothing that it clashes with has come there.
LEMMA AlignStays ==
    ASSUME NEW ms, Circ(ms), Peaceful(ms), NEW D, NEW n, NEW x, Turn(ms, D, n, x), NEW ign, x \in ign,
           NEW c \in State, ~c.raised, Aligned(ms, c.ms, D, ign), NEW r, r = AlignOp(c, n, x, ign)
    PROVE  r \in State /\ ~r.raised /\ Aligned(ms, r.ms, D \cup {x}, ign)
<1>1. /\ n \in Nat /\ 1 <= n /\ x \in Ops /\ x \notin D
      /\ \A y \in D : At(ms, y) \in Nat
      /\ \A y \in D : Clash(x, y) \/ Clash(y, x) => At(ms, y) < n
  BY TurnFacts DEF Turn
<1>2. PICK t : t = c.ms
  OBVIOUS
<1>3. /\ Circ(t) /\ OpsIn(t) = D
      /\ \A y \in D : At(t, y) <= At(ms, y)
  BY <1>2 DEF Aligned
<1>4. Len(t) \in Nat /\ \A y \in D : At(t, y) \in 1..Len(t)
  BY <1>3, AtFacts
<1>5. PICK t0 : t0 = PaddedTo(t, n)
  OBVIOUS
<1>6. /\ Circ(t0) /\ OpsIn(t0) = D /\ Len(t0) = Greater(n, Len(t)) /\ Len(t0) \in Nat /\ n <= Len(t0)
      /\ \A y \in D : At(t0, y) = At(t, y)
  <2>1. Greater(n, Len(t)) \in Nat /\ n <= Greater(n, Len(t))
    BY <1>1, <1>4 DEF Greater
  <2>. QED
    BY <1>1, <1>3, <1>5, <2>1, PaddedFacts
<1>7. PICK c0 : c0 = [c EXCEPT !.ms = t0]
  OBVIOUS
<1>8. c0 \in State /\ c0.ms = t0 /\ c0.raised = c.raised
  <2>1. t0 \in Seq(Moments)
    BY <1>6 DEF Circ
  <2>. QED
    BY <1>7, <2>1 DEF State
<1>9. r = Put(c0, n, x)
  BY <1>2, <1>5, <1>7 DEF AlignOp
<1>10. \A y \in D : Clash(y, x) => At(t0, y) < n
  BY <1>1, <1>3, <1>4, <1>6
<1>11. n \in 1..Len(t0)
  BY <1>1, <1>6
<1>12. ~Overlaps(t0[n], x)
  <2>1. ~Blocks(t0[n], x)
    <3>1. \A y \in OpsIn(t0) : ~(At(t0, y) = n /\ Clash(y, x))
      BY <1>1, <1>4, <1>6, <1>10
    <3>. QED
      BY <1>6, <1>11, <3>1, BlocksAt
  <2>. QED
    BY <2>1 DEF Blocks
<1>13. PICK t2 : t2 = Joined(t0, n, x)
  OBVIOUS
<1>14. r = [c0 EXCEPT !.ms = t2] /\ Grown(t0, t2, {x}, n, Len(t0))
  <2>1. n \in 1..(Len(c0.ms) + 1) /\ (n <= Len(c0.ms) => ~Overlaps(c0.ms[n], x))
    BY <1>6, <1>8, <1>11, <1>12
  <2>2. Circ(c0.ms) /\ x \notin OpsIn(c0.ms)
    BY <1>1, <1>6, <1>8
  <2>. QED
    BY <1>1, <1>8, <1>9, <1>13, <2>1, <2>2, PutFacts
<1>15. /\ Circ(t2) /\ OpsIn(t2) = D \cup {x} /\ At(t2, x) = n
       /\ \A y \in D : At(t2, y) = At(t, y)
  <2>1. \A y \in D : ~(At(t0, y) > Len(t0))
    BY <1>6, AtFacts
  <2>. QED
    BY <1>6, <1>14, <2>1 DEF Grown
<1>16. r \in State /\ r.ms = t2 /\ ~r.raised
  <2>1. t2 \in Seq(Moments)
    BY <1>15 DEF Circ
  <2>. QED
    BY <1>8, <1>14, <2>1 DEF State
<1>17. Aligned(ms, t2, D \cup {x}, ign)
  <2>1. At(t2, x) \in 1..n /\ \A y \in D : Clash(y, x) => At(t, y) < At(t2, x)
    BY <1>1, <1>6, <1>10, <1>15
  <2>. QED
    BY <1>2, <1>15, <2>1, AlignedMore
<1>. QED
  BY <1>16, <1>17

\* An operation that moves up to the first moment where it fits, which is not behind
\* the one it was in.
LEMMA AlignMoves ==
    ASSUME NEW ms, Circ(ms), Peaceful(ms), NEW D, NEW n, NEW x, Turn(ms, D, n, x), NEW ign, x \notin ign,
           NEW c \in State, ~c.raised, Aligned(ms, c.ms, D, ign), NEW r, r = AlignOp(c, n, x, ign)
    PROVE  r \in State /\ ~r.raised /\ Aligned(ms, r.ms, D \cup {x}, ign)
<1>1. /\ n \in Nat /\ 1 <= n /\ x \in Ops /\ x \notin D
      /\ \A y \in D : At(ms, y) \in Nat
      /\ \A y \in D : Clash(x, y) \/ Clash(y, x) => At(ms, y) < n
  BY TurnFacts DEF Turn
<1>2. PICK t : t = c.ms
  OBVIOUS
<1>3. /\ Circ(t) /\ OpsIn(t) = D
      /\ \A y \in D : At(t, y) <= At(ms, y)
  BY <1>2 DEF Aligned
<1>4. Len(t) \in Nat /\ \A y \in D : At(t, y) \in 1..Len(t)
  BY <1>3, AtFacts
<1>5. r = Insert(t, NoCache, Len(t), <<Op(x)>>, "EARLIEST")
  BY <1>2 DEF AlignOp
<1>6. PICK e : e = EarliestAvailable(t, x, Len(t))
  OBVIOUS
<1>7. e \in 0..Len(t) /\ (e > 0 => Blocks(t[e], x))
  <2>1. Len(t) \in 0..Len(t)
    BY <1>4
  <2>. QED
    BY <1>3, <1>6, <2>1, ScanFacts
<1>8. PICK p : p = e + 1
  OBVIOUS
<1>9. /\ r \in State /\ ~r.raised /\ p \in 1..(Len(t) + 1) /\ Grown(t, r.ms, {x}, p, Len(t))
      /\ \A y \in OpsIn(t) : Clash(y, x) => At(t, y) < p
  BY <1>1, <1>3, <1>5, <1>6, <1>8, AppendOne
<1>10. p <= n
  <2>1. CASE e = 0
    BY <1>1, <1>8, <2>1
  <2>2. CASE e > 0
    <3>1. e \in 1..Len(t)
      BY <1>7, <2>2
    <3>2. PICK y \in D : At(t, y) = e /\ Clash(y, x)
      BY <1>3, <1>7, <2>2, <3>1, BlocksAt
    <3>3. e <= At(ms, y) /\ At(ms, y) < n /\ At(ms, y) \in Nat
      BY <1>1, <1>3, <3>2
    <3>. QED
      BY <1>1, <1>8, <3>1, <3>3
  <2>. QED
    BY <1>7, <2>1, <2>2
<1>11. PICK t2 : t2 = r.ms
  OBVIOUS
<1>12. /\ Circ(t2) /\ OpsIn(t2) = D \cup {x} /\ At(t2, x) = p
       /\ \A y \in D : At(t2, y) = At(t, y)
  <2>1. \A y \in D : ~(At(t, y) > Len(t))
    BY <1>4
  <2>. QED
    BY <1>3, <1>9, <1>11, <2>1 DEF Grown
<1>13. Aligned(ms, t2, D \cup {x}, ign)
  <2>1. At(t2, x) \in 1..n /\ \A y \in D : Clash(y, x) => At(t, y) < At(t2, x)
    BY <1>1, <1>3, <1>9, <1>10, <1>12
  <2>. QED
    BY <1>2, <1>12, <2>1, AlignedMore
<1>. QED
  BY <1>9, <1>11, <1>13

\* One moment.
LEMMA AlignMomentFacts ==
    ASSUME NEW ms, Circ(ms), Peaceful(ms), NEW n \in 1..Len(ms), NEW ign,
           NEW c \in State, ~c.raised, Aligned(ms, c.ms, Before(ms, n - 1), ign),
           NEW r, r = AlignMoment(c, n, ms[n], ign)
    PROVE  r \in State /\ ~r.raised /\ Aligned(ms, r.ms, Before(ms, n), ign)
<1>1. PICK m, N : m = ms[n] /\ N = Len(Visited(m))
  OBVIOUS
<1>2. m \in SUBSET Ops /\ Before(ms, n) = Before(ms, n - 1) \cup m
  BY <1>1, BeforeFacts
<1>3. /\ N \in Nat /\ Visiting(m, 0) = {} /\ Visiting(m, N) = m
      /\ \A i \in 1..N : Visiting(m, i) = Visiting(m, i - 1) \cup {Visited(m)[i]}
  BY <1>1, <1>2, VisitingFacts
<1>4. PICK Good : Good = [i \in 0..N |-> {d \in State :
                             ~d.raised /\ Aligned(ms, d.ms, Before(ms, n - 1) \cup Visiting(m, i), ign)}]
  OBVIOUS
<1>5. c \in Good[0]
  <2>1. 0 \in 0..N /\ Before(ms, n - 1) \cup Visiting(m, 0) = Before(ms, n - 1)
    BY <1>3
  <2>. QED
    BY <1>4, <2>1
<1>6. ASSUME NEW i \in 1..N, NEW d \in Good[i - 1] PROVE AlignNext(d, n, Visited(m)[i], ign) \in Good[i]
  <2>1. i \in 0..N /\ i - 1 \in 0..N
    BY <1>3
  <2>2. PICK D, x : D = Before(ms, n - 1) \cup Visiting(m, i - 1) /\ x = Visited(m)[i]
    OBVIOUS
  <2>3. d \in State /\ ~d.raised /\ Aligned(ms, d.ms, D, ign)
    BY <1>4, <2>1, <2>2
  <2>4. Turn(ms, D, n, x)
    BY <1>1, <2>2, TurnComes
  <2>5. PICK e : e = AlignOp(d, n, x, ign)
    OBVIOUS
  <2>6. e \in State /\ ~e.raised /\ Aligned(ms, e.ms, D \cup {x}, ign)
    BY <2>3, <2>4, <2>5, AlignStays, AlignMoves
  <2>7. D \cup {x} = Before(ms, n - 1) \cup Visiting(m, i)
    BY <1>3, <2>2
  <2>8. AlignNext(d, n, x, ign) = e
    BY <2>3, <2>5 DEF AlignNext
  <2>. QED
    BY <1>4, <2>1, <2>2, <2>6, <2>7, <2>8
<1>7. r \in Good[N]
  BY <1>1, <1>3, <1>5, <1>6, AlignMomentStays
<1>8. N \in 0..N /\ Before(ms, n - 1) \cup Visiting(m, N) = Before(ms, n)
  BY <1>2, <1>3
<1>. QED
  BY <1>4, <1>7, <1>8

\* The whole circuit.
LEMMA AlignLeftFacts ==
    ASSUME NEW ms, Circ(ms), Peaceful(ms), NEW ign, NEW r, r = AlignLeft(ms, ign)
    PROVE  r \in State /\ ~r.raised /\ Aligned(ms, r.ms, OpsIn(ms), ign)
<1>1. PICK N : N = Len(ms) /\ N \in Nat
  BY AtFacts
<1>2. Before(ms, 0) = {} /\ Before(ms, N) = OpsIn(ms)
  BY <1>1, BeforeFacts
<1>3. PICK Good : Good = [n \in 0..N |-> {d \in State : ~d.raised /\ Aligned(ms, d.ms, Before(ms, n), ign)}]
  OBVIOUS
<1>4. PICK c : c = Start(<<>>, 0, "EARLIEST", NoCache)
  OBVIOUS
<1>5. c \in Good[0]
  <2>1. Circ(<<>>) /\ OpsIn(<<>>) = {}
    BY EmptyExact
  <2>2. Aligned(ms, <<>>, {}, ign)
    BY <2>1 DEF Aligned
  <2>3. c.ms = <<>> /\ c.raised = FALSE
    BY <1>4 DEF Start
  <2>4. c \in State
    <3>1. <<>> \in Seq(Moments) /\ "EARLIEST" \in Strategies
      BY DEF Strategies
    <3>. QED
      BY <1>4, <3>1, NoCacheOff DEF Start, State
  <2>. QED
    BY <1>1, <1>2, <1>3, <2>2, <2>3, <2>4
<1>6. ASSUME NEW n \in 1..N, NEW d \in Good[n - 1] PROVE AlignMoment(d, n, ms[n], ign) \in Good[n]
  <2>1. n \in 0..N /\ n - 1 \in 0..N
    BY <1>1
  <2>2. d \in State /\ ~d.raised /\ Aligned(ms, d.ms, Before(ms, n - 1), ign)
    BY <1>3, <2>1
  <2>3. PICK e : e = AlignMoment(d, n, ms[n], ign)
    OBVIOUS
  <2>4. e \in State /\ ~e.raised /\ Aligned(ms, e.ms, Before(ms, n), ign)
    BY <1>1, <2>2, <2>3, AlignMomentFacts
  <2>. QED
    BY <1>3, <2>1, <2>3, <2>4
<1>7. AlignLeft(ms, ign) \in Good[N]
  BY <1>1, <1>4, <1>5, <1>6, AlignLeftStays
<1>. QED
  BY <1>1, <1>2, <1>3, <1>7

----------------------------------------------------------------------------
(* Backward *)

\* t holds the operations of ms, each once, and none has passed one it clashes with.
Repacked(ms, t) ==
    /\ Circ(t) /\ OpsIn(t) = OpsIn(ms)
    /\ \A x, y \in OpsIn(ms) : Clash(x, y) /\ At(ms, x) < At(ms, y) => At(t, x) < At(t, y)

\* A circuit backward.
LEMMA ReverseFacts ==
    ASSUME NEW ms, Circ(ms), NEW t, t = Reverse(ms)
    PROVE  /\ Circ(t) /\ OpsIn(t) = OpsIn(ms) /\ Len(t) = Len(ms)
           /\ \A x \in OpsIn(ms) : At(t, x) = Len(ms) + 1 - At(ms, x)
           /\ \A n \in 1..Len(ms) : t[n] = ms[Len(ms) + 1 - n] /\ Len(ms) + 1 - n \in 1..Len(ms)
<1>1. PICK N : N = Len(ms)
  OBVIOUS
<1>2. N \in Nat /\ DOMAIN ms = 1..N /\ ms \in Seq(Moments)
  BY <1>1, AtFacts DEF Circ
<1>3. \A n \in 1..N : N + 1 - n \in 1..N /\ (N - n) + 1 = N + 1 - n /\ N + 1 - (N + 1 - n) = n
  BY <1>2
<1>4. t = [n \in 1..N |-> ms[(N - n) + 1]]
  BY <1>1 DEF Reverse
<1>5. \A n \in 1..N : t[n] = ms[N + 1 - n]
  BY <1>3, <1>4
<1>6. t \in Seq(Moments) /\ Len(t) = N /\ DOMAIN t = 1..N
  <2>1. \A n \in 1..N : ms[(N - n) + 1] \in Moments
    BY <1>2, <1>3
  <2>. QED
    BY <1>2, <1>4, <2>1
<1>7. Circ(t)
  <2>1. ASSUME NEW i \in DOMAIN t, NEW j \in DOMAIN t, i # j PROVE t[i] \cap t[j] = {}
    <3>1. i \in 1..N /\ j \in 1..N
      BY <1>6
    <3>2. N + 1 - i # N + 1 - j
      BY <1>2, <2>1, <3>1
    <3>3. N + 1 - i \in DOMAIN ms /\ N + 1 - j \in DOMAIN ms
      BY <1>2, <1>3, <3>1
    <3>4. ms[N + 1 - i] \cap ms[N + 1 - j] = {}
      BY <3>2, <3>3 DEF Circ
    <3>. QED
      BY <1>5, <3>1, <3>4
  <2>. QED
    BY <1>6, <2>1 DEF Circ
<1>8. ASSUME NEW x \in OpsIn(ms) PROVE x \in OpsIn(t) /\ At(t, x) = N + 1 - At(ms, x)
  <2>1. PICK n : n = At(ms, x)
    OBVIOUS
  <2>2. n \in 1..N /\ x \in ms[n]
    BY <1>1, <2>1, AtFacts
  <2>3. N + 1 - n \in 1..N /\ x \in t[N + 1 - n]
    BY <1>3, <1>5, <2>2
  <2>4. Len(t) = N
    BY <1>6
  <2>. QED
    BY <1>7, <2>1, <2>3, <2>4, AtFacts
<1>9. ASSUME NEW x \in OpsIn(t) PROVE x \in OpsIn(ms)
  <2>1. PICK n \in 1..N : x \in t[n]
    BY <1>6, <1>7, AtFacts
  <2>2. x \in ms[N + 1 - n] /\ N + 1 - n \in 1..N
    BY <1>3, <1>5, <2>1
  <2>. QED
    BY <1>1, <2>2, AtFacts
<1>. QED
  BY <1>1, <1>3, <1>5, <1>6, <1>7, <1>8, <1>9

\* Backward it is as peaceful.
LEMMA ReversePeaceful ==
    ASSUME NEW ms, Circ(ms), Peaceful(ms)
    PROVE  Peaceful(Reverse(ms))
<1>1. PICK t : t = Reverse(ms)
  OBVIOUS
<1>2. /\ Circ(t) /\ Len(t) = Len(ms)
      /\ \A n \in 1..Len(ms) : t[n] = ms[Len(ms) + 1 - n] /\ Len(ms) + 1 - n \in 1..Len(ms)
  BY <1>1, ReverseFacts
<1>3. DOMAIN t = 1..Len(ms) /\ DOMAIN ms = 1..Len(ms)
  BY <1>2, AtFacts
<1>. QED
  BY <1>1, <1>2, <1>3 DEF Peaceful

\* What is repacked backward is repacked.
LEMMA RepackedBack ==
    ASSUME NEW ms, Circ(ms), NEW t, Repacked(Reverse(ms), t)
    PROVE  Repacked(ms, Reverse(t))
<1>1. PICK rs, ts : rs = Reverse(ms) /\ ts = Reverse(t)
  OBVIOUS
<1>2. /\ Circ(t) /\ OpsIn(t) = OpsIn(rs)
      /\ \A x, y \in OpsIn(rs) : Clash(x, y) /\ At(rs, x) < At(rs, y) => At(t, x) < At(t, y)
  BY <1>1 DEF Repacked
<1>3. OpsIn(rs) = OpsIn(ms) /\ \A x \in OpsIn(ms) : At(rs, x) = Len(ms) + 1 - At(ms, x)
  BY <1>1, ReverseFacts
<1>4. Circ(ts) /\ OpsIn(ts) = OpsIn(t) /\ \A x \in OpsIn(t) : At(ts, x) = Len(t) + 1 - At(t, x)
  BY <1>1, <1>2, ReverseFacts
<1>5. /\ Len(ms) \in Nat /\ \A x \in OpsIn(ms) : At(ms, x) \in Nat
      /\ Len(t) \in Nat /\ \A x \in OpsIn(t) : At(t, x) \in Nat
  BY <1>2, AtFacts
<1>6. ASSUME NEW x \in OpsIn(ms), NEW y \in OpsIn(ms), Clash(x, y), At(ms, x) < At(ms, y)
      PROVE  At(ts, x) < At(ts, y)
  <2>1. Clash(y, x)
    BY <1>6, ClashSymmetric
  <2>2. At(rs, y) < At(rs, x)
    BY <1>3, <1>5, <1>6
  <2>3. At(t, y) < At(t, x)
    BY <1>2, <1>3, <2>1, <2>2
  <2>. QED
    BY <1>2, <1>3, <1>4, <1>5, <2>3
<1>. QED
  BY <1>1, <1>2, <1>3, <1>4, <1>6 DEF Repacked

\* A repacked circuit keeps the order.
LEMMA RepackedKeeps ==
    ASSUME NEW t, Repacked(moments, t)
    PROVE  KeepsOrder(t)
<1>1. \A n \in DOMAIN t : IsMoment(t[n])
  BY DEF Repacked, Circ, Moments
<1>. QED
  BY <1>1 DEF Repacked, KeepsOrder

\* align_left() and align_right() keep the order.
LEMMA SoundAlign ==
    ASSUME CircuitInv, Peaceful(moments), NEW ignored \in SUBSET OpsIn(moments)
    PROVE  AlignKeepsOrder(ignored)
<1>1. Circ(moments)
  BY DEF CircuitInv
<1>2. ASSUME NEW ms, Circ(ms), Peaceful(ms), NEW c, c = AlignLeft(ms, ignored), OpsIn(ms) = OpsIn(moments)
      PROVE  /\ c \in State /\ ~c.raised /\ Repacked(ms, c.ms)
             /\ \A x \in ignored : At(c.ms, x) = At(ms, x)
  <2>1. c \in State /\ ~c.raised /\ Aligned(ms, c.ms, OpsIn(ms), ignored)
    BY <1>2, AlignLeftFacts
  <2>. QED
    BY <1>2, <2>1 DEF Aligned, Repacked
<1>3. PICK left : left = AlignLeft(moments, ignored)
  OBVIOUS
<1>4. ~left.raised /\ KeepsOrder(left.ms) /\ \A x \in ignored : At(left.ms, x) = At(moments, x)
  BY <1>1, <1>2, <1>3, RepackedKeeps
<1>5. PICK back, c, t, right : /\ back = Reverse(moments) /\ c = AlignLeft(back, ignored)
                               /\ t = Reverse(c.ms) /\ right = [c EXCEPT !.ms = t]
  OBVIOUS
<1>6. Circ(back) /\ Peaceful(back) /\ OpsIn(back) = OpsIn(moments)
  BY <1>1, <1>5, ReverseFacts, ReversePeaceful
<1>7. c \in State /\ ~c.raised /\ Repacked(back, c.ms)
  BY <1>2, <1>5, <1>6
<1>8. ~right.raised /\ right.ms = t
  BY <1>5, <1>7 DEF State
<1>9. KeepsOrder(right.ms)
  <2>1. Repacked(moments, t)
    BY <1>1, <1>5, <1>7, RepackedBack
  <2>. QED
    BY <1>8, <2>1, RepackedKeeps
<1>10. right = AlignRight(moments, ignored)
  BY <1>5 DEF AlignRight
<1>. QED
  BY <1>3, <1>4, <1>8, <1>9, <1>10 DEF AlignKeepsOrder

----------------------------------------------------------------------------
(* Synchronizing *)

\* The moments of t hold the operations S by their places.
SeatedBy(t, S, place) ==
    /\ t \in Seq(Moments) /\ \A x \in S : place[x] \in 1..Len(t)
    /\ \A i \in 1..Len(t) : \A x : x \in t[i] <=> x \in S /\ place[x] = i

\* The places are where At finds them.
LEMMA PlacesFacts ==
    ASSUME NEW t, NEW S, NEW place, SeatedBy(t, S, place)
    PROVE  Circ(t) /\ OpsIn(t) = S /\ \A x \in S : At(t, x) = place[x]
<1>1. DOMAIN t = 1..Len(t)
  BY DEF SeatedBy
<1>2. Circ(t)
  BY <1>1 DEF Circ, SeatedBy
<1>3. \A x \in S : x \in OpsIn(t) /\ At(t, x) = place[x]
  BY <1>2, AtFacts DEF SeatedBy
<1>4. \A x \in OpsIn(t) : x \in S
  BY <1>2, AtFacts DEF SeatedBy
<1>. QED
  BY <1>2, <1>3, <1>4

\* A sequence with the type of its elements.
LEMMA TypedSeq ==
    ASSUME NEW T, NEW U, NEW s \in Seq(T), \A i \in 1..Len(s) : s[i] \in U
    PROVE  s \in Seq(U)
OBVIOUS

\* What Terminal finds: measurements that nothing later overlaps or reads.
LEMMA TerminalFacts ==
    ASSUME NEW ms, Circ(ms), NEW x \in Terminal(ms)
    PROVE  /\ x \in OpsIn(ms) /\ x \in Ops /\ MKeysOf[x] # {}
           /\ \A y \in OpsIn(ms) : At(ms, x) < At(ms, y) =>
                 QubitsOf[y] \cap QubitsOf[x] = {} /\ CKeysOf[y] \cap MKeysOf[x] = {}
<1>1. /\ Len(ms) \in Nat /\ DOMAIN ms = 1..Len(ms)
      /\ \A y \in OpsIn(ms) : At(ms, y) \in 1..Len(ms) /\ y \in ms[At(ms, y)] /\ y \in Ops
      /\ \A n \in 1..Len(ms) : \A y \in ms[n] : y \in OpsIn(ms) /\ At(ms, y) = n
  BY AtFacts
<1>2. PICK n \in 1..Len(ms) : /\ x \in ms[n] /\ MKeysOf[x] # {}
                              /\ \A i \in n + 1 .. Len(ms) : ~Overlaps(ms[i], x) /\ MomentCKeys(ms[i]) \cap MKeysOf[x] = {}
  BY <1>1 DEF Terminal
<1>3. x \in OpsIn(ms) /\ At(ms, x) = n /\ x \in Ops
  BY <1>1, <1>2
<1>4. ASSUME NEW y \in OpsIn(ms), n < At(ms, y)
      PROVE  QubitsOf[y] \cap QubitsOf[x] = {} /\ CKeysOf[y] \cap MKeysOf[x] = {}
  <2>1. PICK i : i = At(ms, y)
    OBVIOUS
  <2>2. i \in n + 1 .. Len(ms) /\ y \in ms[i]
    BY <1>1, <1>4, <2>1
  <2>3. ~Overlaps(ms[i], x) /\ MomentCKeys(ms[i]) \cap MKeysOf[x] = {}
    BY <1>2, <2>2
  <2>4. QubitsOf[y] \subseteq MomentQubits(ms[i]) /\ CKeysOf[y] \subseteq MomentCKeys(ms[i])
    BY <2>2 DEF MomentQubits, MomentCKeys
  <2>. QED
    BY <2>3, <2>4 DEF Overlaps
<1>. QED
  BY <1>2, <1>3, <1>4

\* Two operations of a circuit clash where they share a qubit or a key that one of them
\* measures.
LEMMA ClashMeans ==
    ASSUME NEW x, NEW y
    PROVE  Clash(x, y) <=> \/ QubitsOf[x] \cap QubitsOf[y] # {}
                           \/ MKeysOf[x] \cap (MKeysOf[y] \cup CKeysOf[y]) # {}
                           \/ CKeysOf[x] \cap MKeysOf[y] # {}
<1>1. MomentQubits({x}) = QubitsOf[x] /\ MomentMKeys({x}) = MKeysOf[x] /\ MomentCKeys({x}) = CKeysOf[x]
  BY DEF MomentQubits, MomentMKeys, MomentCKeys
<1>. QED
  BY <1>1 DEF Clash, Blocks, Overlaps

\* t, of length K, is ms but for the operations in last, which are in its last moment.
ToEnd(ms, last, t, K) ==
    /\ K \in {Len(ms), Len(ms) + 1} /\ t \in Seq(SUBSET Ops) /\ Len(t) = K
    /\ \A i \in 1..K : t[i] = (IF i <= Len(ms) THEN ms[i] \ last ELSE {}) \cup (IF i = K THEN last ELSE {})

\* The operations in last, which are terminal, come into one moment at the end.
LEMMA MovedToEnd ==
    ASSUME NEW ms, Circ(ms), NEW last \in SUBSET Terminal(ms), last # {}, NEW t, NEW K, ToEnd(ms, last, t, K)
    PROVE  /\ Circ(t) /\ OpsIn(t) = OpsIn(ms) /\ K \in Nat /\ K > 0
           /\ \A x \in OpsIn(ms) : At(t, x) = IF x \in last THEN K ELSE At(ms, x)
<1>1. PICK N, S : N = Len(ms) /\ S = OpsIn(ms)
  OBVIOUS
<1>2. /\ N \in Nat /\ DOMAIN ms = 1..N
      /\ \A x \in S : At(ms, x) \in 1..N /\ x \in ms[At(ms, x)] /\ x \in Ops
      /\ \A i \in 1..N : \A x \in ms[i] : x \in S /\ At(ms, x) = i
  BY <1>1, AtFacts
<1>3. \A x \in last : x \in S
  BY <1>1, TerminalFacts
<1>4. K \in Nat /\ K > 0 /\ \A i \in 1..N : i \in 1..K
  BY <1>1, <1>2, <1>3 DEF ToEnd
<1>5. PICK place : place = [x \in S |-> IF x \in last THEN K ELSE At(ms, x)]
  OBVIOUS
<1>6. \A x \in S : place[x] \in 1..K
  BY <1>2, <1>4, <1>5
<1>7. ASSUME NEW i \in 1..K PROVE \A x : x \in t[i] <=> x \in S /\ place[x] = i
  <2>1. t[i] = (IF i <= N THEN ms[i] \ last ELSE {}) \cup (IF i = K THEN last ELSE {})
    BY <1>1 DEF ToEnd
  <2>2. ASSUME NEW x \in t[i] PROVE x \in S /\ place[x] = i
    <3>1. CASE x \in last
      <4>1. i = K
        BY <2>1, <3>1
      <4>. QED
        BY <1>3, <1>5, <3>1, <4>1
    <3>2. CASE x \notin last
      <4>1. i \in 1..N /\ x \in ms[i]
        BY <1>2, <2>1, <3>2
      <4>. QED
        BY <1>2, <1>5, <3>2, <4>1
    <3>. QED
      BY <3>1, <3>2
  <2>3. ASSUME NEW x \in S, place[x] = i PROVE x \in t[i]
    <3>1. CASE x \in last
      BY <1>5, <2>1, <2>3, <3>1
    <3>2. CASE x \notin last
      <4>1. At(ms, x) = i
        BY <1>5, <2>3, <3>2
      <4>2. i \in 1..N /\ x \in ms[i]
        BY <1>2, <4>1
      <4>. QED
        BY <2>1, <3>2, <4>2
    <3>. QED
      BY <3>1, <3>2
  <2>. QED
    BY <2>2, <2>3
<1>8. ASSUME NEW i \in 1..K PROVE t[i] \in Moments
  <2>1. \A x \in t[i] : x \in S /\ x \in Ops /\ place[x] = i
    BY <1>2, <1>7
  <2>2. ASSUME NEW x \in t[i], NEW y \in t[i], x # y PROVE QubitsOf[x] \cap QubitsOf[y] = {}
    <3>1. x \in S /\ y \in S /\ At(ms, x) \in 1..N /\ At(ms, y) \in 1..N
      BY <1>2, <2>1
    <3>2. CASE At(ms, x) = At(ms, y)
      <4>1. PICK n \in 1..N : n = At(ms, x)
        BY <3>1
      <4>2. x \in ms[n] /\ y \in ms[n] /\ ms[n] \in Moments
        BY <1>1, <1>2, <3>1, <3>2, <4>1 DEF Circ
      <4>. QED
        BY <2>2, <4>2 DEF Moments, IsMoment
    <3>3. ASSUME NEW u \in t[i], NEW v \in t[i], At(ms, u) < At(ms, v) PROVE QubitsOf[u] \cap QubitsOf[v] = {}
      <4>1. u \in S /\ v \in S /\ place[u] = i /\ place[v] = i /\ At(ms, u) \in 1..N /\ At(ms, v) \in 1..N
        BY <1>2, <2>1
      <4>2. u \in last
        BY <1>1, <1>4, <1>5, <3>3, <4>1
      <4>3. QubitsOf[v] \cap QubitsOf[u] = {}
        BY <1>1, <3>3, <4>1, <4>2, TerminalFacts
      <4>. QED
        BY <4>3
    <3>4. At(ms, x) < At(ms, y) \/ At(ms, y) < At(ms, x) \/ At(ms, x) = At(ms, y)
      BY <3>1
    <3>. QED
      BY <2>2, <3>2, <3>3, <3>4
  <2>. QED
    BY <2>1, <2>2 DEF Moments, IsMoment
<1>9. t \in Seq(Moments)
  <2>1. t \in Seq(SUBSET Ops) /\ Len(t) = K
    BY DEF ToEnd
  <2>. QED
    BY <1>8, <2>1, TypedSeq
<1>10. Circ(t) /\ OpsIn(t) = S /\ \A x \in S : At(t, x) = place[x]
  <2>1. Len(t) = K
    BY DEF ToEnd
  <2>2. \A x \in S : place[x] \in 1..Len(t)
    BY <1>6, <2>1
  <2>3. \A i \in 1..Len(t) : \A x : x \in t[i] <=> x \in S /\ place[x] = i
    BY <1>7, <2>1
  <2>4. SeatedBy(t, S, place)
    BY <1>9, <2>2, <2>3 DEF SeatedBy
  <2>. QED
    BY <2>4, PlacesFacts
<1>. QED
  BY <1>1, <1>4, <1>5, <1>10

\* Terminal measurements of keys that are measured once pass nothing on their way.
LEMMA MovedInOrder ==
    ASSUME CircuitInv, MeasuredOnce, NEW last \in SUBSET Terminal(moments), NEW t, NEW K \in Nat, K >= Len(moments),
           Circ(t), OpsIn(t) = OpsIn(moments),
           \A x \in OpsIn(moments) : At(t, x) = IF x \in last THEN K ELSE At(moments, x)
    PROVE  Repacked(moments, t)
<1>1. /\ Circ(moments) /\ Len(moments) \in Nat
      /\ \A x \in OpsIn(moments) : At(moments, x) \in 1..Len(moments)
  BY AtFacts DEF CircuitInv
<1>2. ASSUME NEW x \in OpsIn(moments), NEW y \in OpsIn(moments), Clash(x, y), At(moments, x) < At(moments, y)
      PROVE  At(t, x) < At(t, y)
  <2>1. ~(x \in last)
    <3>. SUFFICES ASSUME x \in last PROVE FALSE
      OBVIOUS
    <3>1. x # y
      BY <1>1, <1>2
    <3>2. MKeysOf[x] # {} /\ QubitsOf[y] \cap QubitsOf[x] = {} /\ CKeysOf[y] \cap MKeysOf[x] = {}
      BY <1>1, <1>2, TerminalFacts
    <3>3. MKeysOf[x] \cap MKeysOf[y] = {} /\ (CKeysOf[x] \cap MKeysOf[y] # {} => At(moments, y) < At(moments, x))
      BY <3>1, <3>2 DEF MeasuredOnce
    <3>4. CKeysOf[x] \cap MKeysOf[y] = {}
      BY <1>1, <1>2, <3>3
    <3>. QED
      BY <1>2, <3>2, <3>3, <3>4, ClashMeans
  <2>2. At(t, x) = At(moments, x) /\ At(t, y) >= At(moments, y)
    BY <1>1, <2>1
  <2>3. At(t, x) \in Nat /\ At(t, y) \in Nat
    BY <1>1
  <2>. QED
    BY <1>1, <1>2, <2>2, <2>3
<1>. QED
  BY <1>2 DEF Repacked

\* synchronize_terminal_measurements() puts them all into the last moment, in order.
LEMMA SoundSynchronize ==
    ASSUME CircuitInv, NEW ignored \in SUBSET OpsIn(moments)
    PROVE  SynchronizeKeepsOrder(ignored)
<1>. SUFFICES ASSUME NEW after \in BOOLEAN, NEW t, t = Synchronize(moments, after, ignored)
              PROVE  /\ MeasuredOnce => KeepsOrder(t)
                     /\ \A x \in Terminal(moments) \ ignored : x \in Last(t)
  BY DEF SynchronizeKeepsOrder
<1>1. PICK N \in Nat : N = Len(moments) /\ DOMAIN moments = 1..N /\ Circ(moments)
  BY AtFacts DEF CircuitInv
<1>2. PICK last : last = Terminal(moments) \ ignored
  OBVIOUS
<1>3. CASE last = {}
  <2>1. t = moments
    BY <1>2, <1>3 DEF Synchronize
  <2>2. Repacked(moments, moments)
    BY <1>1 DEF Repacked
  <2>. QED
    BY <1>2, <1>3, <2>1, <2>2, RepackedKeeps
<1>4. CASE last # {}
  <2>1. N > 0
    <3>1. PICK x \in Terminal(moments) : TRUE
      BY <1>2, <1>4
    <3>2. x \in OpsIn(moments)
      BY <1>1, TerminalFacts
    <3>3. At(moments, x) \in 1..N
      BY <1>1, <3>2, AtFacts
    <3>. QED
      BY <3>3
  <2>2. PICK rest : rest = [n \in 1..N |-> moments[n] \ last]
    OBVIOUS
  <2>3. PICK room : room = IF Last(rest) # {} /\ after THEN Append(rest, {}) ELSE rest
    OBVIOUS
  <2>4. PICK K : K = Len(room)
    OBVIOUS
  <2>5. t = [room EXCEPT ![K] = @ \cup last]
    BY <1>1, <1>2, <1>4, <2>2, <2>3, <2>4 DEF Synchronize
  <2>6. rest \in Seq(SUBSET Ops) /\ Len(rest) = N
    <3>1. \A n \in 1..N : moments[n] \in SUBSET Ops
      BY <1>1 DEF Circ, Moments
    <3>. QED
      BY <2>2, <3>1
  <2>7. /\ K \in {N, N + 1} /\ room \in Seq(SUBSET Ops)
        /\ \A i \in 1..K : room[i] = IF i <= N THEN moments[i] \ last ELSE {}
    <3>1. CASE room = rest
      BY <2>2, <2>4, <2>6, <3>1
    <3>2. CASE room = Append(rest, {})
      <4>1. room \in Seq(SUBSET Ops) /\ K = N + 1
        BY <2>4, <2>6, <3>2
      <4>2. room[N + 1] = {} /\ \A i \in 1..N : room[i] = moments[i] \ last
        BY <2>2, <2>6, <3>2
      <4>3. \A i \in 1..K : i = N + 1 \/ i \in 1..N
        BY <4>1
      <4>4. ~(N + 1 <= N) /\ \A i \in 1..N : i <= N
        OBVIOUS
      <4>. QED
        BY <4>1, <4>2, <4>3, <4>4
    <3>. QED
      BY <2>3, <3>1, <3>2
  <2>8. K \in 1..K /\ K \in Nat /\ K >= N
    BY <2>1, <2>7
  <2>9. /\ t \in Seq(SUBSET Ops) /\ Len(t) = K
        /\ \A i \in 1..K : t[i] = (IF i <= N THEN moments[i] \ last ELSE {}) \cup (IF i = K THEN last ELSE {})
    <3>1. PICK L : L = room[K] \cup last
      OBVIOUS
    <3>2. L \in SUBSET Ops
      <4>1. last \in SUBSET Ops
        BY <1>1, <1>2, TerminalFacts
      <4>2. room[K] \in SUBSET Ops
        BY <2>4, <2>7, <2>8
      <4>. QED
        BY <3>1, <4>1, <4>2
    <3>3. t = [room EXCEPT ![K] = L]
      BY <2>5, <3>1
    <3>4. t \in Seq(SUBSET Ops) /\ Len(t) = K /\ \A i \in 1..K : t[i] = IF i = K THEN L ELSE room[i]
      BY <2>4, <2>7, <2>8, <3>2, <3>3
    <3>5. \A i \in 1..K : room[i] = IF i <= N THEN moments[i] \ last ELSE {}
      BY <2>7
    <3>6. ASSUME NEW i \in 1..K
          PROVE  t[i] = (IF i <= N THEN moments[i] \ last ELSE {}) \cup (IF i = K THEN last ELSE {})
      <4>1. CASE i = K
        BY <2>8, <3>1, <3>4, <3>5, <4>1
      <4>2. CASE i # K
        BY <3>4, <3>5, <4>2
      <4>. QED
        BY <4>1, <4>2
    <3>. QED
      BY <3>4, <3>6
  <2>10. /\ Circ(t) /\ OpsIn(t) = OpsIn(moments)
         /\ \A x \in OpsIn(moments) : At(t, x) = IF x \in last THEN K ELSE At(moments, x)
    <3>1. last \in SUBSET Terminal(moments)
      BY <1>2
    <3>2. ToEnd(moments, last, t, K)
      BY <1>1, <2>7, <2>9 DEF ToEnd
    <3>. QED
      BY <1>1, <1>4, <3>1, <3>2, MovedToEnd
  <2>11. MeasuredOnce => KeepsOrder(t)
    <3>1. last \in SUBSET Terminal(moments)
      BY <1>2
    <3>. QED
      BY <1>1, <2>8, <2>10, <3>1, MovedInOrder, RepackedKeeps
  <2>12. \A x \in last : x \in Last(t)
    BY <2>8, <2>9 DEF Last
  <2>. QED
    BY <1>2, <2>11, <2>12
<1>. QED
  BY <1>3, <1>4

----------------------------------------------------------------------------
(* Times *)

\* The place p is in a stratum at the slot of class k, counted from 0.
InStratum(p, k, size) == \E q \in Nat : p = q * size + k + 1

\* Stratum finds the next slot of the class.
LEMMA StratumFacts ==
    ASSUME NEW min \in Nat, NEW size \in Nat \ {0}, NEW k \in 0..(size - 1), NEW i, i = Stratum(min, k, size)
    PROVE  i \in Nat /\ min <= i /\ i < min + size /\ InStratum(i + 1, k, size)
<1>1. PICK q : q = min \div size
  OBVIOUS
<1>2. q \in Nat /\ q * size <= min /\ min < q * size + size
  BY <1>1
<1>3. PICK t : t = q * size
  OBVIOUS
<1>4. t \in Nat /\ t <= min /\ min < t + size
  BY <1>2, <1>3
<1>5. i = IF t + k < min THEN t + k + size ELSE t + k
  BY <1>1, <1>3 DEF Stratum
<1>6. i \in Nat /\ min <= i /\ i < min + size
  BY <1>4, <1>5
<1>7. CASE t + k < min
  <2>1. (q + 1) * size = t + size /\ q + 1 \in Nat
    BY <1>2, <1>3
  <2>2. i + 1 = (q + 1) * size + k + 1
    BY <1>4, <1>5, <1>7, <2>1
  <2>. QED
    BY <1>6, <2>1, <2>2 DEF InStratum
<1>8. CASE ~(t + k < min)
  <2>1. i + 1 = q * size + k + 1
    BY <1>3, <1>4, <1>5, <1>8
  <2>. QED
    BY <1>2, <1>6, <2>1 DEF InStratum
<1>. QED
  BY <1>7, <1>8

\* From index 1 the slot of the last class is in the first stratum.
LEMMA FirstStratum ==
    ASSUME NEW n \in Nat \ {0}
    PROVE  Stratum(1, n, n + 1) = n
<1>1. PICK q : q = 1 \div (n + 1)
  OBVIOUS
<1>2. q \in Nat /\ q * (n + 1) <= 1
  BY <1>1
<1>3. q = 0
  <2>1. q >= 1 => q * (n + 1) >= n + 1
    BY <1>2
  <2>. QED
    BY <1>2, <2>1
<1>4. q * (n + 1) + n = n
  BY <1>3
<1>. QED
  BY <1>1, <1>4 DEF Stratum

\* A remainder is unique.
LEMMA Digits ==
    ASSUME NEW a \in Nat, NEW b \in Nat, NEW s \in Nat, NEW k \in Nat, NEW j \in Nat, k < s, j < s,
           a * s + k = b * s + j
    PROVE  k = j
OBVIOUS

\* A slot belongs to one class.
LEMMA OneClass ==
    ASSUME NEW p, NEW size \in Nat \ {0}, NEW k \in 0..(size - 1), NEW j \in 0..(size - 1),
           InStratum(p, k, size), InStratum(p, j, size)
    PROVE  k = j
<1>1. PICK a \in Nat : p = a * size + k + 1
  BY DEF InStratum
<1>2. PICK b \in Nat : p = b * size + j + 1
  BY DEF InStratum
<1>3. a * size + k = b * size + j
  BY <1>1, <1>2
<1>. QED
  BY <1>3, Digits

\* Dictionaries of times up to L, but for what the operations U act on.
Bounded(t, L, U) ==
    /\ \A b \in Qubits : t.q[b] <= L \/ \E x \in U : b \in QubitsOf[x]
    /\ \A b \in Keys : t.m[b] <= L \/ \E x \in U : b \in MKeysOf[x]
    /\ \A b \in Keys : t.c[b] <= L \/ \E x \in U : b \in CKeysOf[x]

\* Dictionaries that know the places of all operations of a circuit.
Covers(t, ms) ==
    \A y \in OpsIn(ms) : /\ \A b \in QubitsOf[y] : At(ms, y) <= t.q[b]
                         /\ \A b \in MKeysOf[y] : At(ms, y) <= t.m[b]
                         /\ \A b \in CKeysOf[y] : At(ms, y) <= t.c[b]

\* What they say of an operation.
LEMMA ConflictFacts ==
    ASSUME NEW t \in Plain!CacheType, NEW L \in Nat, Bounded(t, L, {}), NEW x \in Ops
    PROVE  LastConflict(t, x) \in 0..L /\ \A i \in Conflicts(t, x) : i <= LastConflict(t, x)
<1>1. t.q \in [Qubits -> Nat] /\ t.m \in [Keys -> Nat] /\ t.c \in [Keys -> Nat]
  BY DEF Plain!CacheType
<1>2. QubitsOf[x] \subseteq Qubits /\ MKeysOf[x] \subseteq Keys /\ CKeysOf[x] \subseteq Keys
  BY PlacementAssumption
<1>3. /\ \A b \in QubitsOf[x] : t.q[b] \in 0..L
      /\ \A b \in MKeysOf[x] \cup CKeysOf[x] : t.m[b] \in 0..L
      /\ \A b \in MKeysOf[x] : t.c[b] \in 0..L
  BY <1>1, <1>2 DEF Bounded
<1>4. PICK S : S = Conflicts(t, x)
  OBVIOUS
<1>5. S \in SUBSET Nat /\ 0 \in S /\ \A i \in S : i <= L
  BY <1>3, <1>4 DEF Conflicts
<1>6. LastConflict(t, x) = MaxOf(S)
  BY <1>4 DEF LastConflict, Conflicts
<1>7. MaxOf(S) \in S /\ \A i \in S : i <= MaxOf(S)
  <2>1. S # {}
    BY <1>5
  <2>. QED
    BY <1>5, <2>1, Extremes
<1>. QED
  BY <1>4, <1>5, <1>6, <1>7

\* What is before an operation it clashes with is no later than they say.
LEMMA ConflictCovers ==
    ASSUME NEW t \in Plain!CacheType, NEW L \in Nat, Bounded(t, L, {}), NEW ms, Circ(ms), Covers(t, ms),
           NEW x \in Ops, NEW y \in OpsIn(ms), Clash(y, x)
    PROVE  At(ms, y) <= LastConflict(t, x)
<1>1. PICK a, p : a = LastConflict(t, x) /\ p = At(ms, y)
  OBVIOUS
<1>2. a \in Nat /\ \A i \in Conflicts(t, x) : i <= a
  BY <1>1, ConflictFacts
<1>3. p \in Nat /\ y \in Ops
  BY <1>1, AtFacts
<1>4. /\ QubitsOf[x] \subseteq Qubits /\ MKeysOf[x] \subseteq Keys /\ CKeysOf[x] \subseteq Keys
      /\ t.q \in [Qubits -> Nat] /\ t.m \in [Keys -> Nat] /\ t.c \in [Keys -> Nat]
  BY PlacementAssumption DEF Plain!CacheType
<1>5. /\ \A b \in QubitsOf[y] : p <= t.q[b]
      /\ \A b \in MKeysOf[y] : p <= t.m[b]
      /\ \A b \in CKeysOf[y] : p <= t.c[b]
  BY <1>1 DEF Covers
<1>6. CASE \E b \in QubitsOf[x] : b \in QubitsOf[y]
  <2>1. PICK b \in QubitsOf[x] : b \in QubitsOf[y]
    BY <1>6
  <2>2. t.q[b] \in Conflicts(t, x) /\ t.q[b] \in Nat
    BY <1>4, <2>1 DEF Conflicts
  <2>. QED
    BY <1>1, <1>2, <1>3, <1>5, <2>1, <2>2
<1>7. CASE \E b \in MKeysOf[x] \cup CKeysOf[x] : b \in MKeysOf[y]
  <2>1. PICK b \in MKeysOf[x] \cup CKeysOf[x] : b \in MKeysOf[y]
    BY <1>7
  <2>2. t.m[b] \in Conflicts(t, x) /\ t.m[b] \in Nat
    BY <1>4, <2>1 DEF Conflicts
  <2>. QED
    BY <1>1, <1>2, <1>3, <1>5, <2>1, <2>2
<1>8. CASE \E b \in MKeysOf[x] : b \in CKeysOf[y]
  <2>1. PICK b \in MKeysOf[x] : b \in CKeysOf[y]
    BY <1>8
  <2>2. t.c[b] \in Conflicts(t, x) /\ t.c[b] \in Nat
    BY <1>4, <2>1 DEF Conflicts
  <2>. QED
    BY <1>1, <1>2, <1>3, <1>5, <2>1, <2>2
<1>. QED
  BY <1>6, <1>7, <1>8, ClashMeans

\* Dictionaries that say the same of what an operation acts on.
LEMMA SameConflict ==
    ASSUME NEW t, NEW u, NEW x, \A b \in QubitsOf[x] : t.q[b] = u.q[b],
           \A b \in MKeysOf[x] \cup CKeysOf[x] : t.m[b] = u.m[b], \A b \in MKeysOf[x] : t.c[b] = u.c[b]
    PROVE  LastConflict(t, x) = LastConflict(u, x)
<1>1. PICK S, T : S = Conflicts(t, x) /\ T = Conflicts(u, x)
  OBVIOUS
<1>2. S = T
  BY <1>1 DEF Conflicts
<1>3. LastConflict(t, x) = MaxOf(S) /\ LastConflict(u, x) = MaxOf(T)
  BY <1>1 DEF LastConflict, Conflicts
<1>. QED
  BY <1>2, <1>3

\* u is t with the operation x in moment n.
Recorded(u, t, x, n) ==
    /\ u \in Plain!CacheType
    /\ \A b \in Qubits : u.q[b] = IF b \in QubitsOf[x] THEN n ELSE t.q[b]
    /\ \A b \in Keys : u.m[b] = IF b \in MKeysOf[x] THEN n ELSE t.m[b]
    /\ \A b \in Keys : u.c[b] = IF b \in CKeysOf[x] /\ n > t.c[b] THEN n ELSE t.c[b]

\* Record does that.
LEMMA RecordOne ==
    ASSUME NEW t \in Plain!CacheType, NEW x \in Ops, NEW n \in Nat, NEW u, u = Record(t, {x}, n)
    PROVE  Recorded(u, t, x, n)
<1>1. MomentQubits({x}) = QubitsOf[x] /\ MomentMKeys({x}) = MKeysOf[x] /\ MomentCKeys({x}) = CKeysOf[x]
  BY DEF MomentQubits, MomentMKeys, MomentCKeys
<1>2. /\ t.q \in [Qubits -> Nat] /\ t.m \in [Keys -> Nat] /\ t.c \in [Keys -> Nat] /\ t.len \in Nat
  BY DEF Plain!CacheType
<1>3. PICK q, m, c : /\ q = [b \in Qubits |-> IF b \in QubitsOf[x] THEN n ELSE t.q[b]]
                     /\ m = [b \in Keys |-> IF b \in MKeysOf[x] THEN n ELSE t.m[b]]
                     /\ c = [b \in Keys |-> IF b \in CKeysOf[x] /\ n > t.c[b] THEN n ELSE t.c[b]]
  OBVIOUS
<1>4. q \in [Qubits -> Nat] /\ m \in [Keys -> Nat] /\ c \in [Keys -> Nat]
  BY <1>2, <1>3
<1>5. u = [on |-> TRUE, q |-> q, m |-> m, c |-> c, len |-> IF n > t.len THEN n ELSE t.len]
  BY <1>1, <1>3 DEF Record
<1>6. PICK l \in Nat : l = IF n > t.len THEN n ELSE t.len
  BY <1>2
<1>7. u = [on |-> TRUE, q |-> q, m |-> m, c |-> c, len |-> l]
  BY <1>5, <1>6
<1>8. u.on = TRUE /\ u.q = q /\ u.m = m /\ u.c = c /\ u.len = l
  BY <1>7
<1>9. u.q \in [Qubits -> Nat] /\ u.m \in [Keys -> Nat] /\ u.c \in [Keys -> Nat] /\ u.len \in Nat
  BY <1>4, <1>6, <1>8
<1>10. u \in Plain!CacheType
  BY <1>8, <1>9 DEF Record, Plain!CacheType
<1>11. \A b \in Qubits : q[b] = IF b \in QubitsOf[x] THEN n ELSE t.q[b]
  BY <1>3
<1>12. \A b \in Keys : m[b] = IF b \in MKeysOf[x] THEN n ELSE t.m[b]
  BY <1>3
<1>13. \A b \in Keys : c[b] = IF b \in CKeysOf[x] /\ n > t.c[b] THEN n ELSE t.c[b]
  BY <1>3
<1>14. u.q = q /\ u.m = m /\ u.c = c
  BY <1>8
<1>. QED
  BY <1>10, <1>11, <1>12, <1>13, <1>14, Zenon DEF Recorded

\* The time that an operation gets.
Slot(s, x, class, n, ign) ==
    IF x \in ign THEN Stratum(Greater(LastConflict(s.times, x), s.last + 1), n, n + 1)
    ELSE Stratum(LastConflict(s.times, x), class[x], n + 1)

\* The slot in a stratum that an operation goes to: ignored operations have one more.
Kind(x, class, n, ign) == IF x \in ign THEN n ELSE class[x]

\* A circuit that is being stratified.
Layers == [ms : Seq(Moments), times : Plain!CacheType, last : Nat]

\* Where it may be between two moments.
Settling(s) ==
    /\ s \in Layers /\ Circ(s.ms) /\ Bounded(s.times, Len(s.ms), {}) /\ Covers(s.times, s.ms)
    /\ s.last < Len(s.ms) \/ (s.last = 0 /\ Len(s.ms) = 0)

\* The time is one of the class, behind all that is before the operation, and within the
\* next stratum.
LEMMA SlotFacts ==
    ASSUME NEW s, Settling(s), NEW x \in Ops, NEW n \in Nat \ {0}, NEW class \in [Ops -> 0..(n - 1)], NEW ign,
           NEW i, i = Slot(s, x, class, n, ign)
    PROVE  /\ i \in Nat /\ i < Len(s.ms) + (n + 1) /\ InStratum(i + 1, Kind(x, class, n, ign), n + 1)
           /\ \A y \in OpsIn(s.ms) : Clash(y, x) => At(s.ms, y) <= i
<1>1. PICK L, min : L = Len(s.ms) /\ min = LastConflict(s.times, x)
  OBVIOUS
<1>2. L \in Nat /\ s.times \in Plain!CacheType /\ s.last \in Nat
  BY <1>1, AtFacts DEF Settling, Layers
<1>3. min \in 0..L
  BY <1>1, <1>2, ConflictFacts DEF Settling
<1>4. \A y \in OpsIn(s.ms) : Clash(y, x) => At(s.ms, y) <= min /\ At(s.ms, y) \in Nat
  BY <1>1, <1>2, ConflictCovers, AtFacts DEF Settling
<1>5. min \in Nat /\ n + 1 \in Nat \ {0} /\ n \in 0..(n + 1 - 1) /\ class[x] \in 0..(n + 1 - 1)
  BY <1>3
<1>6. CASE x \notin ign
  <2>1. i = Stratum(min, class[x], n + 1) /\ Kind(x, class, n, ign) = class[x]
    BY <1>1, <1>6 DEF Slot, Kind
  <2>2. i \in Nat /\ min <= i /\ i < min + (n + 1) /\ InStratum(i + 1, class[x], n + 1)
    BY <1>5, <2>1, StratumFacts
  <2>3. i < L + (n + 1) /\ \A y \in OpsIn(s.ms) : Clash(y, x) => At(s.ms, y) <= i
    BY <1>2, <1>3, <1>4, <1>5, <2>2
  <2>. QED
    BY <1>1, <2>1, <2>2, <2>3
<1>7. CASE x \in ign
  <2>1. PICK g : g = Greater(min, s.last + 1)
    OBVIOUS
  <2>2. g \in Nat /\ min <= g /\ (g = min \/ g = s.last + 1)
    BY <1>2, <1>5, <2>1 DEF Greater
  <2>3. i = Stratum(g, n, n + 1) /\ Kind(x, class, n, ign) = n
    BY <1>1, <1>7, <2>1 DEF Slot, Kind
  <2>4. i \in Nat /\ g <= i /\ i < g + (n + 1) /\ InStratum(i + 1, n, n + 1)
    BY <1>5, <2>2, <2>3, StratumFacts
  <2>5. i < L + (n + 1)
    <3>1. CASE g <= L
      BY <1>2, <1>5, <2>2, <2>4, <3>1
    <3>2. CASE ~(g <= L)
      <4>1. L = 0 /\ s.last = 0 /\ g = 1
        BY <1>1, <1>2, <1>3, <2>2, <3>2 DEF Settling
      <4>2. i = n
        BY <2>3, <4>1, FirstStratum
      <4>. QED
        BY <4>1, <4>2
    <3>. QED
      BY <3>1, <3>2
  <2>6. \A y \in OpsIn(s.ms) : Clash(y, x) => At(s.ms, y) <= i
    BY <1>4, <1>5, <2>2, <2>4
  <2>. QED
    BY <1>1, <2>3, <2>4, <2>5, <2>6
<1>. QED
  BY <1>6, <1>7

\* The operations V of a moment m have their times; nothing is forgotten, and nothing
\* else is different.
Timed(s, d, m, V, class, n, ign) ==
    /\ d.times \in Plain!CacheType /\ d \in [times : {d.times}, at : [m -> Nat]]
    /\ \A b \in Qubits : s.times.q[b] <= d.times.q[b] /\ (d.times.q[b] = s.times.q[b] \/ \E x \in V : b \in QubitsOf[x])
    /\ \A b \in Keys : s.times.m[b] <= d.times.m[b] /\ (d.times.m[b] = s.times.m[b] \/ \E x \in V : b \in MKeysOf[x])
    /\ \A b \in Keys : s.times.c[b] <= d.times.c[b] /\ (d.times.c[b] = s.times.c[b] \/ \E x \in V : b \in CKeysOf[x])
    /\ \A x \in V : d.at[x] = Slot(s, x, class, n, ign)

\* No two operations of a moment clash.
Calm(m) == m \in SUBSET Ops /\ \A x, y \in m : x # y => ~Clash(x, y)

\* One more.
LEMMA TimeStep ==
    ASSUME NEW s, Settling(s), NEW m, Calm(m), NEW V \in SUBSET m, NEW x \in m, x \notin V,
           NEW n \in Nat \ {0}, NEW class \in [Ops -> 0..(n - 1)], NEW ign,
           NEW d, Timed(s, d, m, V, class, n, ign), NEW r, r = TimeOp(d, s, x, class, n, ign)
    PROVE  Timed(s, r, m, V \cup {x}, class, n, ign)
<1>1. x \in Ops /\ s.times \in Plain!CacheType /\ d.times \in Plain!CacheType /\ d.at \in [m -> Nat]
  BY DEF Calm, Settling, Layers, Timed
<1>2. QubitsOf[x] \subseteq Qubits /\ MKeysOf[x] \subseteq Keys /\ CKeysOf[x] \subseteq Keys
  BY <1>1, PlacementAssumption
<1>3. \A y \in V : ~Clash(y, x)
  BY DEF Calm
<1>4. \A y \in V : /\ QubitsOf[y] \cap QubitsOf[x] = {}
                   /\ MKeysOf[y] \cap (MKeysOf[x] \cup CKeysOf[x]) = {} /\ CKeysOf[y] \cap MKeysOf[x] = {}
  BY <1>3, ClashMeans
<1>5. PICK min : min = LastConflict(d.times, x)
  OBVIOUS
<1>6. min = LastConflict(s.times, x)
  <2>1. \A b \in QubitsOf[x] : d.times.q[b] = s.times.q[b]
    BY <1>2, <1>4 DEF Timed
  <2>2. \A b \in MKeysOf[x] \cup CKeysOf[x] : d.times.m[b] = s.times.m[b]
    BY <1>2, <1>4 DEF Timed
  <2>3. \A b \in MKeysOf[x] : d.times.c[b] = s.times.c[b]
    BY <1>2, <1>4 DEF Timed
  <2>. QED
    BY <1>5, <2>1, <2>2, <2>3, SameConflict
<1>7. min \in Nat /\ \A i \in Conflicts(s.times, x) : i <= min
  <2>1. Len(s.ms) \in Nat
    BY AtFacts DEF Settling
  <2>. QED
    BY <1>1, <1>6, <2>1, ConflictFacts DEF Settling
<1>8. PICK k \in Nat : k = min + 1
  BY <1>7
<1>9. PICK u : u = Record(d.times, {x}, k)
  OBVIOUS
<1>10. /\ u \in Plain!CacheType
       /\ \A b \in Qubits : u.q[b] = IF b \in QubitsOf[x] THEN k ELSE d.times.q[b]
       /\ \A b \in Keys : u.m[b] = IF b \in MKeysOf[x] THEN k ELSE d.times.m[b]
       /\ \A b \in Keys : u.c[b] = IF b \in CKeysOf[x] /\ k > d.times.c[b] THEN k ELSE d.times.c[b]
  <2>1. Recorded(u, d.times, x, k)
    BY <1>1, <1>9, RecordOne
  <2>. QED
    BY <2>1 DEF Recorded
<1>11. PICK i : i = Slot(s, x, class, n, ign)
  OBVIOUS
<1>12. i \in Nat
  BY <1>1, <1>11, SlotFacts
<1>13. PICK at : at = [d.at EXCEPT ![x] = i]
  OBVIOUS
<1>14. at \in [m -> Nat] /\ at[x] = i /\ \A y \in m : y # x => at[y] = d.at[y]
  BY <1>1, <1>12, <1>13
<1>15. r = [times |-> u, at |-> at]
  BY <1>5, <1>6, <1>8, <1>9, <1>11, <1>13 DEF TimeOp, Slot
<1>16. r.times = u /\ r.at = at /\ r \in [times : {r.times}, at : [m -> Nat]]
  <2>1. r.times = u /\ r.at = at
    BY <1>15
  <2>2. r \in [times : {u}, at : [m -> Nat]]
    BY <1>14, <1>15
  <2>. QED
    BY <2>1, <2>2
<1>17. /\ s.times.q \in [Qubits -> Nat] /\ s.times.m \in [Keys -> Nat] /\ s.times.c \in [Keys -> Nat]
       /\ d.times.q \in [Qubits -> Nat] /\ d.times.m \in [Keys -> Nat] /\ d.times.c \in [Keys -> Nat]
  BY <1>1 DEF Plain!CacheType
<1>18. ASSUME NEW b \in Qubits
       PROVE  s.times.q[b] <= u.q[b] /\ (u.q[b] = s.times.q[b] \/ \E y \in V \cup {x} : b \in QubitsOf[y])
  <2>1. CASE b \in QubitsOf[x]
    <3>1. s.times.q[b] <= min /\ s.times.q[b] \in Nat
      BY <1>7, <1>17, <2>1 DEF Conflicts
    <3>. QED
      BY <1>7, <1>8, <1>10, <2>1, <3>1
  <2>2. CASE b \notin QubitsOf[x]
    BY <1>10, <2>2 DEF Timed
  <2>. QED
    BY <2>1, <2>2
<1>19. ASSUME NEW b \in Keys
       PROVE  s.times.m[b] <= u.m[b] /\ (u.m[b] = s.times.m[b] \/ \E y \in V \cup {x} : b \in MKeysOf[y])
  <2>1. CASE b \in MKeysOf[x]
    <3>1. s.times.m[b] <= min /\ s.times.m[b] \in Nat
      BY <1>7, <1>17, <2>1 DEF Conflicts
    <3>. QED
      BY <1>7, <1>8, <1>10, <2>1, <3>1
  <2>2. CASE b \notin MKeysOf[x]
    BY <1>10, <2>2 DEF Timed
  <2>. QED
    BY <2>1, <2>2
<1>20. ASSUME NEW b \in Keys
       PROVE  s.times.c[b] <= u.c[b] /\ (u.c[b] = s.times.c[b] \/ \E y \in V \cup {x} : b \in CKeysOf[y])
  <2>1. /\ s.times.c[b] \in Nat /\ d.times.c[b] \in Nat /\ s.times.c[b] <= d.times.c[b]
        /\ d.times.c[b] = s.times.c[b] \/ \E y \in V : b \in CKeysOf[y]
    BY <1>17 DEF Timed
  <2>2. CASE b \in CKeysOf[x] /\ k > d.times.c[b]
    BY <1>7, <1>8, <1>10, <2>1, <2>2
  <2>3. CASE ~(b \in CKeysOf[x] /\ k > d.times.c[b])
    BY <1>10, <2>1, <2>3
  <2>. QED
    BY <2>2, <2>3
<1>21. \A y \in V \cup {x} : at[y] = Slot(s, y, class, n, ign)
  BY <1>11, <1>14 DEF Timed
<1>. QED
  BY <1>10, <1>16, <1>18, <1>19, <1>20, <1>21 DEF Timed

\* The whole moment.
LEMMA TimeMomentFacts ==
    ASSUME NEW s, Settling(s), NEW m, Calm(m), NEW n \in Nat \ {0}, NEW class \in [Ops -> 0..(n - 1)], NEW ign,
           NEW r, r = TimeMoment(s, m, class, n, ign)
    PROVE  Timed(s, r, m, m, class, n, ign)
<1>1. PICK N : N = Len(Visited(m))
  OBVIOUS
<1>2. m \in SUBSET Ops
  BY DEF Calm
<1>3. /\ N \in Nat /\ Visiting(m, 0) = {} /\ Visiting(m, N) = m
      /\ \A i \in 1..N : /\ Visited(m)[i] \in m /\ Visited(m)[i] \notin Visiting(m, i - 1)
                         /\ Visiting(m, i - 1) \subseteq m
                         /\ Visiting(m, i) = Visiting(m, i - 1) \cup {Visited(m)[i]}
  BY <1>1, <1>2, VisitingFacts
<1>4. PICK T : T = [times : Plain!CacheType, at : [m -> Nat]]
  OBVIOUS
<1>5. PICK Good : Good = [i \in 0..N |-> {d \in T : Timed(s, d, m, Visiting(m, i), class, n, ign)}]
  OBVIOUS
<1>6. [times |-> s.times, at |-> [x \in m |-> 0]] \in Good[0]
  <2>1. PICK d : d = [times |-> s.times, at |-> [x \in m |-> 0]]
    OBVIOUS
  <2>2. s.times \in Plain!CacheType
    BY DEF Settling, Layers
  <2>3. d \in T /\ d.times = s.times /\ d \in [times : {d.times}, at : [m -> Nat]]
    BY <1>4, <2>1, <2>2
  <2>4. s.times.q \in [Qubits -> Nat] /\ s.times.m \in [Keys -> Nat] /\ s.times.c \in [Keys -> Nat]
    BY <2>2 DEF Plain!CacheType
  <2>5. Timed(s, d, m, Visiting(m, 0), class, n, ign)
    BY <1>3, <2>2, <2>3, <2>4 DEF Timed
  <2>6. 0 \in 0..N
    BY <1>3
  <2>. QED
    BY <1>5, <2>1, <2>3, <2>5, <2>6
<1>7. ASSUME NEW i \in 1..N, NEW d \in Good[i - 1] PROVE TimeOp(d, s, Visited(m)[i], class, n, ign) \in Good[i]
  <2>1. i \in 0..N /\ i - 1 \in 0..N
    BY <1>3
  <2>2. Timed(s, d, m, Visiting(m, i - 1), class, n, ign)
    BY <1>5, <2>1
  <2>3. PICK e : e = TimeOp(d, s, Visited(m)[i], class, n, ign)
    OBVIOUS
  <2>4. Timed(s, e, m, Visiting(m, i), class, n, ign)
    <3>1. PICK V, x : V = Visiting(m, i - 1) /\ x = Visited(m)[i]
      OBVIOUS
    <3>2. V \in SUBSET m /\ x \in m /\ x \notin V /\ Visiting(m, i) = V \cup {x}
      BY <1>3, <3>1
    <3>3. Timed(s, e, m, V \cup {x}, class, n, ign)
      BY <2>2, <2>3, <3>1, <3>2, TimeStep
    <3>. QED
      BY <3>2, <3>3
  <2>5. e \in T
    BY <1>4, <2>4 DEF Timed
  <2>. QED
    BY <1>5, <2>1, <2>3, <2>4, <2>5
<1>8. r \in Good[N]
  BY <1>1, <1>3, <1>6, <1>7, TimeMomentStays
<1>9. N \in 0..N
  BY <1>3
<1>. QED
  BY <1>3, <1>5, <1>8, <1>9

----------------------------------------------------------------------------
(* Stratifying *)

\* No key has two readers.
OneReader(ms) == \A x, y \in OpsIn(ms) : x # y => CKeysOf[x] \cap CKeysOf[y] = {}

\* d holds the operations D of the circuit ms in order, each in a slot of its kind, and its
\* dictionaries know their places, but for what the operations U act on.
Layered(ms, d, D, U, kind, size) ==
    /\ d \in Layers /\ Circ(d.ms) /\ OpsIn(d.ms) = D
    /\ \A x, y \in D : Clash(x, y) /\ At(ms, x) < At(ms, y) => At(d.ms, x) < At(d.ms, y)
    /\ \A x \in D : InStratum(At(d.ms, x), kind[x], size)
    /\ Covers(d.times, d.ms) /\ Bounded(d.times, Len(d.ms), U)

\* Dictionaries in which x is in moment k, and nothing else differs.
Told(u, t, x, k) ==
    /\ u \in Plain!CacheType
    /\ \A b \in Qubits : u.q[b] = IF b \in QubitsOf[x] THEN k ELSE t.q[b]
    /\ \A b \in Keys : u.m[b] = IF b \in MKeysOf[x] THEN k ELSE t.m[b]
    /\ \A b \in Keys : u.c[b] = IF b \in CKeysOf[x] THEN k ELSE t.c[b]

\* x may go to index i, ...
MayMove(s, x, i, size) ==
    /\ s \in Layers /\ Circ(s.ms) /\ x \in Ops /\ x \notin OpsIn(s.ms)
    /\ i \in Nat /\ i < Len(s.ms) + size /\ \A y \in OpsIn(s.ms) : Clash(y, x) => At(s.ms, y) <= i

\* ... and that is where it went.
HasMoved(s, r, x, i) ==
    /\ r \in Layers /\ r.last = s.last /\ Told(r.times, s.times, x, i + 1)
    /\ Circ(r.ms) /\ OpsIn(r.ms) = OpsIn(s.ms) \cup {x} /\ At(r.ms, x) = i + 1
    /\ \A y \in OpsIn(s.ms) : At(r.ms, y) = At(s.ms, y)
    /\ Len(s.ms) <= Len(r.ms) /\ i + 1 <= Len(r.ms)

\* What a move does to the circuit and to the dictionaries.
LEMMA MoveFacts ==
    ASSUME NEW s, NEW x, NEW size \in Nat \ {0}, NEW i, MayMove(s, x, i, size), NEW r, r = MoveOp(s, x, i, size)
    PROVE  HasMoved(s, r, x, i)
<1>1. /\ s \in Layers /\ Circ(s.ms) /\ x \in Ops /\ x \notin OpsIn(s.ms)
      /\ i \in Nat /\ i < Len(s.ms) + size /\ \A y \in OpsIn(s.ms) : Clash(y, x) => At(s.ms, y) <= i
  BY DEF MayMove
<1>2. PICK L \in Nat : L = Len(s.ms) /\ \A y \in OpsIn(s.ms) : At(s.ms, y) \in 1..L
  BY <1>1, AtFacts
<1>3. PICK ms : ms = IF i >= L THEN PaddedTo(s.ms, L + size) ELSE s.ms
  OBVIOUS
<1>4. /\ Circ(ms) /\ OpsIn(ms) = OpsIn(s.ms) /\ \A y \in OpsIn(s.ms) : At(ms, y) = At(s.ms, y)
      /\ Len(ms) \in Nat /\ L <= Len(ms) /\ i < Len(ms)
  <2>1. CASE i >= L
    <3>1. L + size \in Nat /\ Greater(L + size, L) = L + size
      BY DEF Greater
    <3>2. /\ Circ(ms) /\ OpsIn(ms) = OpsIn(s.ms) /\ Len(ms) = L + size
          /\ \A y \in OpsIn(s.ms) : At(ms, y) = At(s.ms, y)
      BY <1>1, <1>2, <1>3, <2>1, <3>1, PaddedFacts
    <3>. QED
      BY <1>1, <1>2, <3>1, <3>2
  <2>2. CASE ~(i >= L)
    BY <1>1, <1>2, <1>3, <2>2
  <2>. QED
    BY <2>1, <2>2
<1>5. PICK k \in Nat : k = i + 1
  BY <1>1
<1>6. k \in 1..Len(ms)
  BY <1>1, <1>4, <1>5
<1>7. ~Overlaps(ms[k], x)
  <2>1. \A y \in OpsIn(ms) : ~(At(ms, y) = k /\ Clash(y, x))
    BY <1>1, <1>2, <1>4, <1>5
  <2>2. ~Blocks(ms[k], x)
    BY <1>4, <1>6, <2>1, BlocksAt
  <2>. QED
    BY <2>2 DEF Blocks
<1>8. PICK t : t = [ms EXCEPT ![k] = @ \cup {x}]
  OBVIOUS
<1>9. Grown(ms, t, {x}, k, Len(ms)) /\ Len(t) = Len(ms)
  BY <1>1, <1>4, <1>6, <1>7, <1>8, JoinGrows
<1>10. /\ Circ(t) /\ OpsIn(t) = OpsIn(s.ms) \cup {x} /\ At(t, x) = k
      /\ \A y \in OpsIn(s.ms) : At(t, y) = At(s.ms, y)
  <2>1. \A y \in OpsIn(ms) : ~(At(ms, y) > Len(ms))
    BY <1>4, AtFacts
  <2>. QED
    BY <1>4, <1>9, <2>1 DEF Grown
<1>11. PICK u : u = Record(s.times, {x}, k)
  OBVIOUS
<1>12. Recorded(u, s.times, x, k) /\ u \in Plain!CacheType
  <2>1. s.times \in Plain!CacheType
    BY <1>1 DEF Layers
  <2>2. Recorded(u, s.times, x, k)
    BY <1>1, <1>11, <2>1, RecordOne
  <2>. QED
    BY <2>2 DEF Recorded
<1>13. PICK c : c = [b \in Keys |-> IF b \in CKeysOf[x] THEN k ELSE u.c[b]]
  OBVIOUS
<1>14. PICK v : v = [u EXCEPT !.c = c]
  OBVIOUS
<1>15. c \in [Keys -> Nat]
  <2>1. u.c \in [Keys -> Nat]
    BY <1>12 DEF Plain!CacheType
  <2>. QED
    BY <1>13, <2>1
<1>16. v \in Plain!CacheType /\ v.q = u.q /\ v.m = u.m /\ v.c = c
  BY <1>12, <1>14, <1>15 DEF Plain!CacheType
<1>17. Told(v, s.times, x, k)
  <2>1. \A b \in Keys : v.c[b] = IF b \in CKeysOf[x] THEN k ELSE s.times.c[b]
    BY <1>12, <1>13, <1>16 DEF Recorded
  <2>. QED
    BY <1>12, <1>16, <2>1 DEF Told, Recorded
<1>18. r = [s EXCEPT !.ms = t, !.times = v]
  BY <1>2, <1>3, <1>5, <1>8, <1>11, <1>13, <1>14 DEF MoveOp
<1>19. r \in Layers /\ r.ms = t /\ r.times = v /\ r.last = s.last
  <2>1. t \in Seq(Moments)
    BY <1>10 DEF Circ
  <2>. QED
    BY <1>1, <1>16, <1>18, <2>1 DEF Layers
<1>20. L <= Len(t) /\ k <= Len(t)
  BY <1>4, <1>6, <1>9
<1>. QED
  BY <1>2, <1>5, <1>10, <1>17, <1>19, <1>20 DEF HasMoved

\* Told dictionaries cover what has moved.
LEMMA ToldCovers ==
    ASSUME NEW ms, Circ(ms), NEW t \in Plain!CacheType, Covers(t, ms), NEW x \in Ops, x \notin OpsIn(ms),
           NEW k \in Nat, NEW u, Told(u, t, x, k), NEW ms2, Circ(ms2), OpsIn(ms2) = OpsIn(ms) \cup {x}, At(ms2, x) = k,
           \A y \in OpsIn(ms) : At(ms2, y) = At(ms, y), \A y \in OpsIn(ms) : Clash(y, x) => At(ms, y) < k,
           \A y \in OpsIn(ms) : CKeysOf[y] \cap CKeysOf[x] = {}
    PROVE  Covers(u, ms2)
<1>1. \A y \in OpsIn(ms) : At(ms, y) \in Nat /\ y \in Ops
  BY AtFacts
<1>2. \A y \in Ops : QubitsOf[y] \subseteq Qubits /\ MKeysOf[y] \subseteq Keys /\ CKeysOf[y] \subseteq Keys
  BY PlacementAssumption
<1>3. /\ \A b \in QubitsOf[x] : k <= u.q[b]
      /\ \A b \in MKeysOf[x] : k <= u.m[b]
      /\ \A b \in CKeysOf[x] : k <= u.c[b]
  BY <1>2 DEF Told
<1>4. ASSUME NEW y \in OpsIn(ms)
      PROVE  /\ \A b \in QubitsOf[y] : At(ms, y) <= u.q[b]
             /\ \A b \in MKeysOf[y] : At(ms, y) <= u.m[b]
             /\ \A b \in CKeysOf[y] : At(ms, y) <= u.c[b]
  <2>1. PICK p : p = At(ms, y) /\ p \in Nat
    BY <1>1
  <2>2. /\ \A b \in QubitsOf[y] : p <= t.q[b]
        /\ \A b \in MKeysOf[y] : p <= t.m[b]
        /\ \A b \in CKeysOf[y] : p <= t.c[b]
    BY <2>1 DEF Covers
  <2>3. ASSUME NEW b \in QubitsOf[y] PROVE p <= u.q[b]
    <3>1. b \in Qubits
      BY <1>1, <1>2
    <3>2. b \in QubitsOf[x] => p < k
      BY <2>1, ClashMeans
    <3>3. u.q[b] = IF b \in QubitsOf[x] THEN k ELSE t.q[b]
      BY <3>1 DEF Told
    <3>. QED
      BY <2>1, <2>2, <3>2, <3>3
  <2>4. ASSUME NEW b \in MKeysOf[y] PROVE p <= u.m[b]
    <3>1. b \in Keys
      BY <1>1, <1>2
    <3>2. b \in MKeysOf[x] => p < k
      BY <2>1, ClashMeans
    <3>3. u.m[b] = IF b \in MKeysOf[x] THEN k ELSE t.m[b]
      BY <3>1 DEF Told
    <3>. QED
      BY <2>1, <2>2, <3>2, <3>3
  <2>5. ASSUME NEW b \in CKeysOf[y] PROVE p <= u.c[b]
    <3>1. b \in Keys /\ b \notin CKeysOf[x]
      BY <1>1, <1>2
    <3>2. u.c[b] = t.c[b]
      BY <3>1 DEF Told
    <3>. QED
      BY <2>2, <3>2
  <2>. QED
    BY <2>1, <2>3, <2>4, <2>5
<1>. QED
  BY <1>3, <1>4 DEF Covers

\* They are as bounded.
LEMMA ToldBounded ==
    ASSUME NEW t \in Plain!CacheType, NEW L \in Nat, NEW U, Bounded(t, L, U), NEW x \in Ops, NEW k \in Nat,
           NEW u, Told(u, t, x, k), NEW L2 \in Nat, L <= L2, k <= L2
    PROVE  Bounded(u, L2, U \ {x})
<1>1. t.q \in [Qubits -> Nat] /\ t.m \in [Keys -> Nat] /\ t.c \in [Keys -> Nat]
  BY DEF Plain!CacheType
<1>2. \A b \in Qubits : u.q[b] <= L2 \/ \E y \in U \ {x} : b \in QubitsOf[y]
  <2>. SUFFICES ASSUME NEW b \in Qubits PROVE u.q[b] <= L2 \/ \E y \in U \ {x} : b \in QubitsOf[y]
    OBVIOUS
  <2>1. CASE b \in QubitsOf[x]
    BY <2>1 DEF Told
  <2>2. CASE b \notin QubitsOf[x]
    <3>1. u.q[b] = t.q[b] /\ t.q[b] \in Nat /\ (t.q[b] <= L \/ \E y \in U : b \in QubitsOf[y])
      BY <1>1, <2>2 DEF Told, Bounded
    <3>. QED
      BY <2>2, <3>1
  <2>. QED
    BY <2>1, <2>2
<1>3. \A b \in Keys : u.m[b] <= L2 \/ \E y \in U \ {x} : b \in MKeysOf[y]
  <2>. SUFFICES ASSUME NEW b \in Keys PROVE u.m[b] <= L2 \/ \E y \in U \ {x} : b \in MKeysOf[y]
    OBVIOUS
  <2>1. CASE b \in MKeysOf[x]
    BY <2>1 DEF Told
  <2>2. CASE b \notin MKeysOf[x]
    <3>1. u.m[b] = t.m[b] /\ t.m[b] \in Nat /\ (t.m[b] <= L \/ \E y \in U : b \in MKeysOf[y])
      BY <1>1, <2>2 DEF Told, Bounded
    <3>. QED
      BY <2>2, <3>1
  <2>. QED
    BY <2>1, <2>2
<1>4. \A b \in Keys : u.c[b] <= L2 \/ \E y \in U \ {x} : b \in CKeysOf[y]
  <2>. SUFFICES ASSUME NEW b \in Keys PROVE u.c[b] <= L2 \/ \E y \in U \ {x} : b \in CKeysOf[y]
    OBVIOUS
  <2>1. CASE b \in CKeysOf[x]
    BY <2>1 DEF Told
  <2>2. CASE b \notin CKeysOf[x]
    <3>1. u.c[b] = t.c[b] /\ t.c[b] \in Nat /\ (t.c[b] <= L \/ \E y \in U : b \in CKeysOf[y])
      BY <1>1, <2>2 DEF Told, Bounded
    <3>. QED
      BY <2>2, <3>1
  <2>. QED
    BY <2>1, <2>2
<1>. QED
  BY <1>2, <1>3, <1>4 DEF Bounded

\* Index i is in a slot of the kind of x, within the next stratum, and not before what is
\* in D and clashes with x.
Fits(d, D, x, i, kind, size) ==
    /\ i \in Nat /\ i < Len(d.ms) + size /\ InStratum(i + 1, kind[x], size)
    /\ \A y \in D : Clash(y, x) => At(d.ms, y) <= i

\* r is d after x went to index i.
MovedOn(ms, d, r, D, U, x, i, kind, size) ==
    /\ Layered(ms, r, D \cup {x}, U \ {x}, kind, size) /\ r.last = d.last
    /\ \A y \in D : At(r.ms, y) = At(d.ms, y)
    /\ Len(d.ms) <= Len(r.ms) /\ i + 1 <= Len(r.ms)

\* One more operation.
LEMMA MoveStep ==
    ASSUME NEW ms, Circ(ms), Peaceful(ms), OneReader(ms), NEW D, NEW n, NEW x, Turn(ms, D, n, x), NEW U,
           NEW kind, NEW size \in Nat \ {0}, NEW d, Layered(ms, d, D, U, kind, size),
           NEW i, Fits(d, D, x, i, kind, size), NEW r, r = MoveOp(d, x, i, size)
    PROVE  MovedOn(ms, d, r, D, U, x, i, kind, size)
<1>1. /\ n \in Nat /\ x \in Ops /\ x \notin D /\ x \in OpsIn(ms) /\ At(ms, x) = n
      /\ \A y \in D : At(ms, y) \in Nat /\ At(ms, y) <= n /\ y \in OpsIn(ms)
  BY TurnFacts DEF Turn
<1>2. /\ d \in Layers /\ d.times \in Plain!CacheType /\ Circ(d.ms) /\ OpsIn(d.ms) = D /\ Len(d.ms) \in Nat
      /\ \A y \in D : At(d.ms, y) \in Nat
  BY AtFacts DEF Layered, Layers
<1>3. /\ i \in Nat /\ i < Len(d.ms) + size /\ InStratum(i + 1, kind[x], size)
      /\ \A y \in D : Clash(y, x) => At(d.ms, y) <= i
  BY DEF Fits
<1>4. /\ r \in Layers /\ r.last = d.last /\ Told(r.times, d.times, x, i + 1)
      /\ Circ(r.ms) /\ OpsIn(r.ms) = D \cup {x} /\ At(r.ms, x) = i + 1
      /\ \A y \in D : At(r.ms, y) = At(d.ms, y)
      /\ Len(d.ms) <= Len(r.ms) /\ i + 1 <= Len(r.ms)
  <2>1. MayMove(d, x, i, size)
    BY <1>1, <1>2, <1>3 DEF MayMove
  <2>2. HasMoved(d, r, x, i)
    BY <2>1, MoveFacts
  <2>. QED
    BY <1>2, <2>2 DEF HasMoved
<1>5. \A y \in D : Clash(y, x) => At(d.ms, y) < i + 1
  BY <1>2, <1>3
<1>6. PICK k \in Nat : k = i + 1
  BY <1>3
<1>7. Covers(r.times, r.ms)
  <2>1. \A y \in D : CKeysOf[y] \cap CKeysOf[x] = {}
    BY <1>1 DEF OneReader
  <2>2. Covers(d.times, d.ms)
    BY DEF Layered
  <2>3. PICK ms1, ms2, t, u : ms1 = d.ms /\ ms2 = r.ms /\ t = d.times /\ u = r.times
    OBVIOUS
  <2>4. /\ Circ(ms1) /\ t \in Plain!CacheType /\ Covers(t, ms1) /\ OpsIn(ms1) = D /\ Told(u, t, x, k) /\ Circ(ms2)
        /\ OpsIn(ms2) = D \cup {x} /\ At(ms2, x) = k
        /\ \A y \in D : At(ms2, y) = At(ms1, y)
        /\ \A y \in D : Clash(y, x) => At(ms1, y) < k
    BY <1>2, <1>4, <1>5, <1>6, <2>2, <2>3
  <2>5. Covers(u, ms2)
    BY <1>1, <2>1, <2>4, ToldCovers
  <2>. QED
    BY <2>3, <2>5
<1>8. Bounded(r.times, Len(r.ms), U \ {x})
  <2>1. Bounded(d.times, Len(d.ms), U)
    BY DEF Layered
  <2>2. Len(r.ms) \in Nat
    BY <1>4, AtFacts
  <2>. QED
    BY <1>1, <1>2, <1>4, <1>6, <2>1, <2>2, ToldBounded
<1>9. \A y, z \in D \cup {x} : Clash(y, z) /\ At(ms, y) < At(ms, z) => At(r.ms, y) < At(r.ms, z)
  <2>. SUFFICES ASSUME NEW y \in D \cup {x}, NEW z \in D \cup {x}, Clash(y, z), At(ms, y) < At(ms, z)
                PROVE  At(r.ms, y) < At(r.ms, z)
    OBVIOUS
  <2>1. y \in D
    BY <1>1
  <2>2. CASE z = x
    BY <1>4, <1>5, <2>1, <2>2
  <2>3. CASE z # x
    <3>1. At(d.ms, y) < At(d.ms, z)
      BY <2>1, <2>3 DEF Layered
    <3>. QED
      BY <1>4, <2>1, <2>3, <3>1
  <2>. QED
    BY <2>2, <2>3
<1>10. \A y \in D \cup {x} : InStratum(At(r.ms, y), kind[y], size)
  BY <1>3, <1>4 DEF Layered
<1>. QED
  BY <1>4, <1>7, <1>8, <1>9, <1>10 DEF Layered, MovedOn

\* Every operation of the moment m may go to the index that at gives, while D is in
\* the circuit s.
Destined(s, m, D, at, kind, size) == \A x \in m : Fits(s, D, x, at[x], kind, size)

\* The operations V of the moment m have gone there.
Moving(ms, s, d, m, D, V, at, kind, size) ==
    /\ Layered(ms, d, D \cup V, m \ V, kind, size) /\ d.last = s.last /\ Len(s.ms) <= Len(d.ms)
    /\ \A y \in D : At(d.ms, y) = At(s.ms, y)
    /\ \A x \in V : at[x] + 1 <= Len(d.ms)

\* One more goes there.
LEMMA MovingStep ==
    ASSUME NEW ms, Circ(ms), Peaceful(ms), OneReader(ms), NEW j \in 1..Len(ms), NEW m, m = ms[j], NEW D,
           D = Before(ms, j - 1), NEW kind, NEW size \in Nat \ {0}, NEW s \in Layers, NEW at,
           Destined(s, m, D, at, kind, size), NEW V \in SUBSET m, NEW x \in m, Turn(ms, D \cup V, j, x),
           NEW d, Moving(ms, s, d, m, D, V, at, kind, size), NEW r, r = MoveOp(d, x, at[x], size)
    PROVE  Moving(ms, s, r, m, D, V \cup {x}, at, kind, size)
<1>1. PICK i : i = at[x]
  OBVIOUS
<1>2. /\ i \in Nat /\ i < Len(s.ms) + size /\ InStratum(i + 1, kind[x], size)
      /\ \A y \in D : Clash(y, x) => At(s.ms, y) <= i
  BY <1>1 DEF Destined, Fits
<1>3. /\ Layered(ms, d, D \cup V, m \ V, kind, size) /\ d.last = s.last /\ Len(s.ms) <= Len(d.ms)
      /\ \A y \in D : At(d.ms, y) = At(s.ms, y)
      /\ \A y \in V : at[y] + 1 <= Len(d.ms)
  BY DEF Moving
<1>4. Len(s.ms) \in Nat /\ Len(d.ms) \in Nat
  BY <1>3, AtFacts DEF Layered, Layers
<1>5. \A y \in D \cup V : Clash(y, x) => At(d.ms, y) <= i
  <2>1. \A y \in D \cup V : At(ms, y) \in Nat /\ y \in OpsIn(ms) /\ (Clash(y, x) => At(ms, y) < j)
    BY TurnFacts
  <2>2. \A y \in D \cup V : Clash(y, x) => y \in D
    <3>1. j \in Nat
      BY AtFacts
    <3>. QED
      BY <2>1, <3>1 DEF Before
  <2>. QED
    BY <1>2, <1>3, <2>2
<1>6. i < Len(d.ms) + size
  BY <1>2, <1>3, <1>4
<1>7. PICK E, U : E = D \cup V /\ U = m \ V
  OBVIOUS
<1>8. /\ Layered(ms, r, E \cup {x}, U \ {x}, kind, size) /\ r.last = d.last
      /\ \A y \in E : At(r.ms, y) = At(d.ms, y)
      /\ Len(d.ms) <= Len(r.ms) /\ i + 1 <= Len(r.ms)
  <2>1. Turn(ms, E, j, x) /\ Layered(ms, d, E, U, kind, size) /\ Fits(d, E, x, i, kind, size)
    BY <1>2, <1>3, <1>5, <1>6, <1>7 DEF Fits
  <2>2. r = MoveOp(d, x, i, size)
    BY <1>1
  <2>3. MovedOn(ms, d, r, E, U, x, i, kind, size)
    BY <2>1, <2>2, MoveStep
  <2>. QED
    BY <2>3 DEF MovedOn
<1>9. Len(r.ms) \in Nat
  BY <1>8, AtFacts DEF Layered
<1>10. Layered(ms, r, D \cup (V \cup {x}), m \ (V \cup {x}), kind, size)
  <2>1. E \cup {x} = D \cup (V \cup {x}) /\ U \ {x} = m \ (V \cup {x})
    BY <1>7
  <2>. QED
    BY <1>8, <2>1
<1>11. r.last = s.last /\ Len(s.ms) <= Len(r.ms) /\ \A y \in D : At(r.ms, y) = At(s.ms, y)
  BY <1>3, <1>4, <1>7, <1>8, <1>9
<1>12. \A y \in V \cup {x} : at[y] + 1 <= Len(r.ms)
  <2>. SUFFICES ASSUME NEW y \in V \cup {x} PROVE at[y] + 1 <= Len(r.ms)
    OBVIOUS
  <2>1. CASE y = x
    BY <1>1, <1>8, <2>1
  <2>2. CASE y # x
    <3>1. Moving(ms, s, d, m, D, V, at, kind, size) /\ y \in V
      BY <2>2
    <3>2. y \in m /\ at[y] \in Nat
      <4>1. y \in m
        BY <3>1
      <4>. QED
        BY <4>1 DEF Destined, Fits
    <3>. QED
      BY <1>3, <1>4, <1>8, <1>9, <3>1, <3>2
  <2>. QED
    BY <2>1, <2>2
<1>. QED
  BY <1>10, <1>11, <1>12 DEF Moving

\* The whole moment.
LEMMA MoveMomentFacts ==
    ASSUME NEW ms, Circ(ms), Peaceful(ms), OneReader(ms), NEW j \in 1..Len(ms), NEW m, m = ms[j], NEW D,
           D = Before(ms, j - 1), NEW kind, NEW size \in Nat \ {0}, NEW s, NEW at,
           Destined(s, m, D, at, kind, size), Layered(ms, s, D, m, kind, size),
           NEW r, r = MoveMoment(s, m, at, size)
    PROVE  Moving(ms, s, r, m, D, m, at, kind, size)
<1>1. PICK N : N = Len(Visited(m))
  OBVIOUS
<1>2. m \in SUBSET Ops
  BY BeforeFacts
<1>3. /\ N \in Nat /\ Visiting(m, 0) = {} /\ Visiting(m, N) = m
      /\ \A i \in 1..N : /\ Visited(m)[i] \in m /\ Visiting(m, i - 1) \subseteq m
                         /\ Visiting(m, i) = Visiting(m, i - 1) \cup {Visited(m)[i]}
  BY <1>1, <1>2, VisitingFacts
<1>4. PICK Good : Good = [i \in 0..N |-> {d \in Layers : Moving(ms, s, d, m, D, Visiting(m, i), at, kind, size)}]
  OBVIOUS
<1>5. s \in Layers /\ Len(s.ms) \in Nat
  BY AtFacts DEF Layered
<1>6. s \in Good[0]
  <2>1. D \cup Visiting(m, 0) = D /\ m \ Visiting(m, 0) = m /\ 0 \in 0..N
    BY <1>3
  <2>2. Layered(ms, s, D \cup Visiting(m, 0), m \ Visiting(m, 0), kind, size)
    BY <2>1
  <2>3. Moving(ms, s, s, m, D, Visiting(m, 0), at, kind, size)
    BY <1>3, <1>5, <2>2 DEF Moving
  <2>. QED
    BY <1>4, <1>5, <2>1, <2>3
<1>7. ASSUME NEW i \in 1..N, NEW d \in Good[i - 1] PROVE MoveOp(d, Visited(m)[i], at[Visited(m)[i]], size) \in Good[i]
  <2>1. i \in 0..N /\ i - 1 \in 0..N
    BY <1>3
  <2>2. PICK V, x, e : V = Visiting(m, i - 1) /\ x = Visited(m)[i] /\ e = MoveOp(d, x, at[x], size)
    OBVIOUS
  <2>3. Moving(ms, s, d, m, D, V, at, kind, size)
    BY <1>4, <2>1, <2>2
  <2>4. Turn(ms, D \cup V, j, x) /\ x \in m /\ V \in SUBSET m
    BY <1>1, <1>3, <2>2, TurnComes
  <2>5. Moving(ms, s, e, m, D, V \cup {x}, at, kind, size)
    BY <1>5, <2>2, <2>3, <2>4, MovingStep
  <2>6. Moving(ms, s, e, m, D, Visiting(m, i), at, kind, size) /\ e \in Layers
    <3>1. V \cup {x} = Visiting(m, i)
      BY <1>3, <2>2
    <3>2. e \in Layers
      BY <2>5 DEF Moving, Layered
    <3>. QED
      BY <2>5, <3>1, <3>2
  <2>. QED
    BY <1>4, <2>1, <2>2, <2>6
<1>8. r \in Good[N]
  BY <1>1, <1>3, <1>6, <1>7, MoveMomentStays
<1>9. N \in 0..N
  BY <1>3
<1>. QED
  BY <1>3, <1>4, <1>8, <1>9

\* The kinds of all operations.
Kinds(class, n, ign) == [x \in Ops |-> Kind(x, class, n, ign)]

\* Between two moments: D is in the circuit, and there is a slot for ignored operations.
Stable(ms, s, D, class, n, ign) ==
    /\ Layered(ms, s, D, {}, Kinds(class, n, ign), n + 1)
    /\ s.last < Len(s.ms) \/ (s.last = 0 /\ Len(s.ms) = 0)

\* The greatest of the indices slot of the operations I.
LatestSlot(slot, I) == MaxOf({slot[x] : x \in I})

\* Their greatest index fits all of the operations I.
FitsAll(s, D, I, slot, last, kind, size) ==
    (\E z \in I : last = slot[z]) /\ \A x \in I : Fits(s, D, x, last, kind, size)

\* The greatest time of the ignored operations is as good as their own.
LEMMA TogetherFits ==
    ASSUME NEW s, NEW m \in SUBSET Ops, NEW D, NEW k, NEW kind, NEW size \in Nat, OpsIn(s.ms) = D,
           Circ(s.ms), NEW slot, Destined(s, m, D, slot, kind, size),
           NEW I \in SUBSET m, \A x \in I : kind[x] = k, I # {}, NEW last, last = LatestSlot(slot, I)
    PROVE  FitsAll(s, D, I, slot, last, kind, size)
<1>1. size \in Nat
  OBVIOUS
<1>2. \A x \in I : x \in m /\ kind[x] = k
  OBVIOUS
<1>3. PICK S : S = {slot[x] : x \in I}
  OBVIOUS
<1>4. Len(s.ms) \in Nat /\ \A y \in D : At(s.ms, y) \in Nat
  BY AtFacts
<1>5. PICK L : L = Len(s.ms) + size
  OBVIOUS
<1>6. L \in Nat /\ \A x \in I : slot[x] \in Nat /\ slot[x] < L
  <2>1. \A x \in I : slot[x] \in Nat /\ slot[x] < Len(s.ms) + size
    BY <1>2 DEF Destined, Fits
  <2>. QED
    BY <1>1, <1>4, <1>5, <2>1
<1>7. S \in SUBSET Nat /\ S # {} /\ \A i \in S : i <= L
  BY <1>1, <1>3, <1>6
<1>8. last \in S /\ \A i \in S : i <= last
  <2>1. MaxOf(S) \in S /\ \A i \in S : i <= MaxOf(S)
    BY <1>6, <1>7, Extremes
  <2>. QED
    BY <1>1, <1>3, <2>1 DEF LatestSlot
<1>9. PICK z \in I : last = slot[z]
  BY <1>3, <1>8
<1>10. last \in Nat /\ last < Len(s.ms) + (size) /\ InStratum(last + 1, k, size)
  <2>1. Fits(s, D, z, last, kind, size)
    BY <1>2, <1>9 DEF Destined
  <2>. QED
    BY <1>2, <2>1 DEF Fits
<1>11. ASSUME NEW x \in I PROVE Fits(s, D, x, last, kind, size)
  <2>1. slot[x] <= last /\ slot[x] \in Nat
    BY <1>3, <1>6, <1>8
  <2>2. \A y \in D : Clash(y, x) => At(s.ms, y) <= slot[x]
    BY <1>2 DEF Destined, Fits
  <2>3. \A y \in D : Clash(y, x) => At(s.ms, y) <= last
    BY <1>4, <1>10, <2>1, <2>2
  <2>. QED
    BY <1>2, <1>10, <2>3 DEF Fits
<1>. QED
  BY <1>9, <1>11 DEF FitsAll

\* One moment.
LEMMA StratifyMomentFacts ==
    ASSUME NEW ms, Circ(ms), Peaceful(ms), OneReader(ms), NEW j \in 1..Len(ms),
           NEW n \in Nat \ {0}, NEW class \in [Ops -> 0..(n - 1)], NEW ign,
           NEW s, Stable(ms, s, Before(ms, j - 1), class, n, ign),
           NEW r, r = StratifyMoment(s, ms[j], class, n, ign)
    PROVE  Stable(ms, r, Before(ms, j), class, n, ign)
<1>1. PICK m, D, kind, size : /\ m = ms[j] /\ D = Before(ms, j - 1) /\ kind = Kinds(class, n, ign)
                              /\ size = n + 1
  OBVIOUS
<1>2. m \in SUBSET Ops /\ Before(ms, j) = D \cup m /\ size \in Nat \ {0}
  BY <1>1, BeforeFacts
<1>3. Calm(m)
  <2>1. j \in DOMAIN ms
    BY AtFacts
  <2>. QED
    BY <1>1, <1>2, <2>1 DEF Calm, Peaceful
<1>4. /\ Layered(ms, s, D, {}, kind, size) /\ s \in Layers /\ Circ(s.ms) /\ OpsIn(s.ms) = D
      /\ s.last < Len(s.ms) \/ (s.last = 0 /\ Len(s.ms) = 0)
  BY <1>1 DEF Stable, Layered
<1>5. Settling(s)
  BY <1>4 DEF Layered, Settling
<1>6. PICK t : t = TimeMoment(s, m, class, n, ign)
  OBVIOUS
<1>7. Timed(s, t, m, m, class, n, ign)
  BY <1>3, <1>5, <1>6, TimeMomentFacts
<1>8. PICK slot : slot = t.at
  OBVIOUS
<1>9. Destined(s, m, D, slot, kind, size)
  <2>1. ASSUME NEW x \in m PROVE Fits(s, D, x, slot[x], kind, size)
    <3>1. x \in Ops
      BY <1>2
    <3>2. PICK i : i = Slot(s, x, class, n, ign)
      OBVIOUS
    <3>3. /\ i \in Nat /\ i < Len(s.ms) + (n + 1) /\ InStratum(i + 1, Kind(x, class, n, ign), n + 1)
          /\ \A y \in OpsIn(s.ms) : Clash(y, x) => At(s.ms, y) <= i
      BY <1>5, <3>1, <3>2, SlotFacts
    <3>4. slot[x] = i /\ kind[x] = Kind(x, class, n, ign)
      BY <1>1, <1>7, <1>8, <3>1, <3>2 DEF Timed, Kinds
    <3>. QED
      BY <1>1, <1>4, <3>3, <3>4 DEF Fits
  <2>. QED
    BY <2>1 DEF Destined
<1>10. PICK last : last = IF m \cap ign = {} THEN s.last ELSE MaxOf({slot[x] : x \in m \cap ign})
  OBVIOUS
<1>11. /\ m \cap ign # {} => \E z \in m \cap ign : last = slot[z]
       /\ \A x \in m \cap ign : Fits(s, D, x, last, kind, size)
  <2>1. CASE m \cap ign = {}
    BY <2>1
  <2>2. CASE m \cap ign # {}
    <3>1. PICK I \in SUBSET m : I = m \cap ign
      OBVIOUS
    <3>2. last = LatestSlot(slot, I) /\ size \in Nat /\ I # {}
      BY <1>1, <1>10, <2>2, <3>1 DEF LatestSlot
    <3>3. \A x \in I : kind[x] = n
      BY <1>1, <1>2, <3>1 DEF Kinds, Kind
    <3>4. FitsAll(s, D, I, slot, last, kind, size)
      BY <1>2, <1>4, <1>9, <3>1, <3>2, <3>3, TogetherFits
    <3>. QED
      BY <3>1, <3>4 DEF FitsAll
  <2>. QED
    BY <2>1, <2>2
<1>12. last \in Nat
  <2>1. s.last \in Nat
    BY <1>4 DEF Layers
  <2>2. \A x \in m : slot[x] \in Nat
    BY <1>9 DEF Destined, Fits
  <2>. QED
    BY <1>10, <1>11, <2>1, <2>2
<1>13. PICK at : at = [x \in m |-> IF x \in ign THEN last ELSE slot[x]]
  OBVIOUS
<1>14. PICK s1 : s1 = [s EXCEPT !.times = t.times, !.last = last]
  OBVIOUS
<1>15. s1 \in Layers /\ s1.ms = s.ms /\ s1.times = t.times /\ s1.last = last
  <2>1. t.times \in Plain!CacheType
    BY <1>7 DEF Timed
  <2>. QED
    BY <1>4, <1>12, <1>14, <2>1 DEF Layers
<1>16. Destined(s1, m, D, at, kind, size)
  <2>1. ASSUME NEW x \in m PROVE Fits(s, D, x, at[x], kind, size)
    <3>1. CASE x \in ign
      BY <1>11, <1>13, <3>1
    <3>2. CASE x \notin ign
      BY <1>9, <1>13, <3>2 DEF Destined
    <3>. QED
      BY <3>1, <3>2
  <2>. QED
    BY <1>15, <2>1 DEF Destined, Fits
<1>17. Layered(ms, s1, D, m, kind, size)
  <2>1. PICK u, v, L : u = s.times /\ v = t.times /\ L = Len(s.ms)
    OBVIOUS
  <2>2. /\ \A b \in Qubits : u.q[b] <= v.q[b] /\ (v.q[b] = u.q[b] \/ \E x \in m : b \in QubitsOf[x])
        /\ \A b \in Keys : u.m[b] <= v.m[b] /\ (v.m[b] = u.m[b] \/ \E x \in m : b \in MKeysOf[x])
        /\ \A b \in Keys : u.c[b] <= v.c[b] /\ (v.c[b] = u.c[b] \/ \E x \in m : b \in CKeysOf[x])
    BY <1>7, <2>1 DEF Timed
  <2>3. /\ u.q \in [Qubits -> Nat] /\ u.m \in [Keys -> Nat] /\ u.c \in [Keys -> Nat]
        /\ v.q \in [Qubits -> Nat] /\ v.m \in [Keys -> Nat] /\ v.c \in [Keys -> Nat]
    <3>1. u \in Plain!CacheType /\ v \in Plain!CacheType
      BY <1>4, <1>7, <2>1 DEF Timed, Layers
    <3>. QED
      BY <3>1 DEF Plain!CacheType
  <2>4. Bounded(v, L, m)
    <3>1. Bounded(u, L, {})
      BY <1>4, <2>1 DEF Layered
    <3>. QED
      BY <2>2, <3>1 DEF Bounded
  <2>5. Covers(v, s.ms)
    <3>1. Covers(u, s.ms)
      BY <1>4, <2>1 DEF Layered
    <3>2. \A y \in D : At(s.ms, y) \in Nat /\ y \in Ops
      BY <1>4, AtFacts
    <3>3. ASSUME NEW y \in D
          PROVE  /\ \A b \in QubitsOf[y] : At(s.ms, y) <= v.q[b]
                 /\ \A b \in MKeysOf[y] : At(s.ms, y) <= v.m[b]
                 /\ \A b \in CKeysOf[y] : At(s.ms, y) <= v.c[b]
      <4>1. QubitsOf[y] \subseteq Qubits /\ MKeysOf[y] \subseteq Keys /\ CKeysOf[y] \subseteq Keys
        BY <3>2, PlacementAssumption
      <4>2. PICK p \in Nat : p = At(s.ms, y)
        BY <3>2
      <4>3. /\ \A b \in QubitsOf[y] : p <= u.q[b]
            /\ \A b \in MKeysOf[y] : p <= u.m[b]
            /\ \A b \in CKeysOf[y] : p <= u.c[b]
        BY <1>4, <3>1, <4>2 DEF Covers
      <4>4. \A b \in QubitsOf[y] : p <= v.q[b]
        BY <2>2, <2>3, <4>1, <4>3
      <4>5. \A b \in MKeysOf[y] : p <= v.m[b]
        BY <2>2, <2>3, <4>1, <4>3
      <4>6. \A b \in CKeysOf[y] : p <= v.c[b]
        BY <2>2, <2>3, <4>1, <4>3
      <4>. QED
        BY <4>2, <4>4, <4>5, <4>6
    <3>. QED
      BY <1>4, <3>3 DEF Covers
  <2>. QED
    BY <1>4, <1>15, <2>1, <2>4, <2>5 DEF Layered
<1>18. r = MoveMoment(s1, m, at, size)
  BY <1>1, <1>6, <1>8, <1>10, <1>13, <1>14 DEF StratifyMoment
<1>19. Moving(ms, s1, r, m, D, m, at, kind, size)
  BY <1>1, <1>2, <1>16, <1>17, <1>18, MoveMomentFacts
<1>20. Layered(ms, r, D \cup m, {}, kind, size) /\ r.last = last /\ Len(s.ms) <= Len(r.ms)
  <2>1. m \ m = {}
    OBVIOUS
  <2>. QED
    BY <1>15, <1>19, <2>1 DEF Moving
<1>21. r.last < Len(r.ms) \/ (r.last = 0 /\ Len(r.ms) = 0)
  <2>1. Len(s.ms) \in Nat /\ Len(r.ms) \in Nat
    BY <1>4, <1>20, AtFacts DEF Layered
  <2>2. CASE m \cap ign = {}
    <3>1. last = s.last /\ s.last \in Nat
      BY <1>4, <1>10, <2>2 DEF Layers
    <3>. QED
      BY <1>4, <1>20, <2>1, <3>1
  <2>3. CASE m \cap ign # {}
    <3>1. PICK z \in m \cap ign : TRUE
      BY <2>3
    <3>2. at[z] = last
      BY <1>13, <3>1
    <3>3. last + 1 <= Len(r.ms)
      BY <1>19, <3>1, <3>2 DEF Moving
    <3>. QED
      BY <1>12, <1>20, <2>1, <3>3
  <2>. QED
    BY <2>2, <2>3
<1>. QED
  BY <1>1, <1>2, <1>20, <1>21 DEF Stable

\* All moments.
LEMMA StratifyMomentsFacts ==
    ASSUME NEW ms, Circ(ms), Peaceful(ms), OneReader(ms),
           NEW n \in Nat \ {0}, NEW class \in [Ops -> 0..(n - 1)], NEW ign,
           NEW d, d = StratifyMoments(ms, class, n, ign)
    PROVE  Stable(ms, d, OpsIn(ms), class, n, ign)
<1>1. PICK N \in Nat : N = Len(ms)
  BY AtFacts
<1>2. PICK Good : Good = [i \in 0..N |-> {e \in Layers : Stable(ms, e, Before(ms, i), class, n, ign)}]
  OBVIOUS
<1>3. PICK s : s = [ms |-> <<>>, times |-> EmptyCache, last |-> 0]
  OBVIOUS
<1>4. s \in Good[0]
  <2>1. /\ Circ(<<>>) /\ OpsIn(<<>>) = {} /\ EmptyCache \in Plain!CacheType
        /\ \A b \in Qubits : EmptyCache.q[b] = 0
        /\ \A b \in Keys : EmptyCache.m[b] = 0 /\ EmptyCache.c[b] = 0
    BY EmptyExact DEF Exact, EmptyCache
  <2>2. s \in Layers /\ s.ms = <<>> /\ s.times = EmptyCache /\ s.last = 0 /\ Len(s.ms) = 0
    BY <1>3, <2>1 DEF Layers, Circ
  <2>3. Covers(s.times, s.ms) /\ Bounded(s.times, Len(s.ms), {})
    BY <2>1, <2>2 DEF Covers, Bounded
  <2>4. Before(ms, 0) = {}
    BY BeforeFacts
  <2>5. Layered(ms, s, {}, {}, Kinds(class, n, ign), n + 1)
    BY <2>1, <2>2, <2>3 DEF Layered
  <2>6. Stable(ms, s, Before(ms, 0), class, n, ign)
    BY <2>2, <2>4, <2>5 DEF Stable
  <2>. QED
    BY <1>2, <2>2, <2>6
<1>5. ASSUME NEW i \in 1..N, NEW e \in Good[i - 1]
      PROVE  StratifyMoment(e, ms[i], class, n, ign) \in Good[i]
  <2>1. i - 1 \in 0..N /\ i \in 0..N /\ i \in 1..Len(ms)
    BY <1>1
  <2>2. Stable(ms, e, Before(ms, i - 1), class, n, ign)
    BY <1>2, <2>1
  <2>3. PICK r : r = StratifyMoment(e, ms[i], class, n, ign)
    OBVIOUS
  <2>4. Stable(ms, r, Before(ms, i), class, n, ign)
    BY <2>1, <2>2, <2>3, StratifyMomentFacts
  <2>5. r \in Layers
    BY <2>4 DEF Stable, Layered
  <2>. QED
    BY <1>2, <2>1, <2>3, <2>4, <2>5
<1>6. d \in Good[N]
  BY <1>1, <1>3, <1>4, <1>5, StratifyStays
<1>7. Before(ms, N) = OpsIn(ms)
  BY <1>1, BeforeFacts
<1>. QED
  BY <1>1, <1>2, <1>6, <1>7

\* t holds the operations D of ms, in moments that are not fewer or in another order.
Squeezed(ms, t, D) ==
    /\ Circ(t) /\ OpsIn(t) = D
    /\ \A x, y \in D : At(ms, x) < At(ms, y) <=> At(t, x) < At(t, y)

\* Empty moments are left out, and no others.
LEMMA NotEmptyFacts ==
    ASSUME NEW ms, Circ(ms), NEW t, t = NotEmpty(ms)
    PROVE  Squeezed(ms, t, OpsIn(ms))
<1>1. PICK N \in Nat : N = Len(ms)
  BY AtFacts
<1>2. PICK Good : Good = [i \in 0..N |-> {u \in Seq(Moments) : Squeezed(ms, u, Before(ms, i))}]
  OBVIOUS
<1>3. <<>> \in Good[0]
  <2>1. Circ(<<>>) /\ OpsIn(<<>>) = {} /\ Before(ms, 0) = {}
    BY EmptyExact, BeforeFacts
  <2>2. Squeezed(ms, <<>>, Before(ms, 0))
    BY <2>1 DEF Squeezed
  <2>. QED
    BY <1>2, <2>1, <2>2 DEF Circ
<1>4. ASSUME NEW i \in 1..N, NEW u \in Good[i - 1]
      PROVE  (IF ms[i] = {} THEN u ELSE Append(u, ms[i])) \in Good[i]
  <2>1. PICK D, m : D = Before(ms, i - 1) /\ m = ms[i]
    OBVIOUS
  <2>2. i - 1 \in 0..N /\ i \in 0..N /\ i \in 1..Len(ms)
    BY <1>1
  <2>3. Squeezed(ms, u, D)
    BY <1>2, <2>1, <2>2
  <2>4. Before(ms, i) = D \cup m /\ D \cap m = {}
    BY <2>1, <2>2, BeforeFacts
  <2>5. CASE m = {}
    <3>1. Before(ms, i) = D
      BY <2>4, <2>5
    <3>2. u \in Seq(Moments)
      BY <2>3 DEF Squeezed, Circ
    <3>. QED
      BY <1>2, <2>1, <2>2, <2>3, <2>5, <3>1, <3>2
  <2>6. CASE m # {}
    <3>1. Circ(u) /\ OpsIn(u) = D
      BY <2>3 DEF Squeezed
    <3>2. m \in Moments
      BY <2>1, <2>2, AtFacts DEF Circ
    <3>3. PICK v : v = Append(u, m)
      OBVIOUS
    <3>4. PICK L \in Nat : L = Len(u)
      BY <3>1, AtFacts
    <3>5. Grown(u, v, m, L + 1, L)
      <4>1. v = InsertAt(u, L + 1, m)
        BY <3>1, <3>2, <3>3, <3>4, AppendIsInsert DEF Circ
      <4>2. m \cap OpsIn(u) = {} /\ L \in 0..Len(u)
        BY <2>4, <3>1, <3>4
      <4>. QED
        BY <3>1, <3>2, <3>4, <4>1, <4>2, InsertGrows
    <3>6. \A x \in D : At(u, x) \in 1..L
      BY <3>1, <3>4, AtFacts
    <3>7. /\ Circ(v) /\ OpsIn(v) = D \cup m /\ \A x \in m : At(v, x) = L + 1
          /\ \A x \in D : At(v, x) = At(u, x)
      BY <3>1, <3>5, <3>6 DEF Grown
    <3>8. /\ \A x \in D : At(ms, x) \in Nat /\ At(ms, x) <= i - 1
          /\ \A x \in m : At(ms, x) = i
      BY <2>1, <2>2, AtFacts DEF Before
    <3>9. \A x, y \in D \cup m : At(ms, x) < At(ms, y) <=> At(v, x) < At(v, y)
      <4>1. ASSUME NEW x \in D, NEW y \in D PROVE At(ms, x) < At(ms, y) <=> At(v, x) < At(v, y)
        BY <2>3, <3>7 DEF Squeezed
      <4>2. ASSUME NEW x \in D, NEW y \in m PROVE At(ms, x) < At(ms, y) /\ At(v, x) < At(v, y)
        BY <3>6, <3>7, <3>8
      <4>3. ASSUME NEW x \in m, NEW y \in D PROVE ~(At(ms, x) < At(ms, y)) /\ ~(At(v, x) < At(v, y))
        BY <3>6, <3>7, <3>8
      <4>4. ASSUME NEW x \in m, NEW y \in m PROVE ~(At(ms, x) < At(ms, y)) /\ ~(At(v, x) < At(v, y))
        BY <3>7, <3>8
      <4>. QED
        BY <4>1, <4>2, <4>3, <4>4
    <3>10. Squeezed(ms, v, Before(ms, i)) /\ v \in Seq(Moments)
      BY <2>4, <3>7, <3>9 DEF Squeezed, Circ
    <3>. QED
      BY <1>2, <2>1, <2>2, <2>6, <3>3, <3>10
  <2>. QED
    BY <2>5, <2>6
<1>5. t \in Good[N]
  BY <1>1, <1>3, <1>4, NotEmptyStays
<1>6. Before(ms, N) = OpsIn(ms)
  BY <1>1, BeforeFacts
<1>. QED
  BY <1>1, <1>2, <1>5, <1>6

\* A moment holds operations of one kind.
Homogeneous(t, kind) == \A i \in DOMAIN t : \A x, y \in t[i] : kind[x] = kind[y]

\* Stratifying keeps the order and leaves one kind in a moment.
LEMMA StratifyFacts ==
    ASSUME NEW ms, Circ(ms), Peaceful(ms), OneReader(ms),
           NEW n \in Nat \ {0}, NEW class \in [Ops -> 0..(n - 1)], NEW ign,
           NEW t, t = Stratify(ms, class, n, ign)
    PROVE  Repacked(ms, t) /\ Homogeneous(t, Kinds(class, n, ign))
<1>1. PICK d, u, kind, size : /\ d = StratifyMoments(ms, class, n, ign) /\ u = d.ms
                              /\ kind = Kinds(class, n, ign) /\ size = n + 1
  OBVIOUS
<1>2. Layered(ms, d, OpsIn(ms), {}, kind, size)
  BY <1>1, StratifyMomentsFacts DEF Stable
<1>3. /\ Circ(u) /\ OpsIn(u) = OpsIn(ms)
      /\ \A x, y \in OpsIn(ms) : Clash(x, y) /\ At(ms, x) < At(ms, y) => At(u, x) < At(u, y)
      /\ \A x \in OpsIn(ms) : InStratum(At(u, x), kind[x], size)
  BY <1>1, <1>2 DEF Layered
<1>4. Squeezed(u, t, OpsIn(u))
  BY <1>1, <1>3, NotEmptyFacts DEF Stratify
<1>5. Repacked(ms, t)
  BY <1>3, <1>4 DEF Squeezed, Repacked
<1>6. size \in Nat \ {0} /\ \A x \in Ops : kind[x] \in 0..(size - 1)
  <2>1. n \in 0..n /\ \A x \in Ops : class[x] \in 0..n
    OBVIOUS
  <2>2. \A x \in Ops : Kind(x, class, n, ign) \in 0..n
    BY <2>1 DEF Kind
  <2>3. \A x \in Ops : kind[x] \in 0..n
    BY <1>1, <2>2 DEF Kinds
  <2>4. size \in Nat \ {0} /\ size - 1 = n
    BY <1>1
  <2>. QED
    BY <2>3, <2>4
<1>7. ASSUME NEW i \in DOMAIN t, NEW x \in t[i], NEW y \in t[i] PROVE kind[x] = kind[y]
  <2>1. /\ x \in OpsIn(ms) /\ y \in OpsIn(ms) /\ At(t, x) = i /\ At(t, y) = i /\ i \in Nat
        /\ x \in Ops /\ y \in Ops
    BY <1>5, AtFacts DEF Repacked
  <2>2. ~(At(u, x) < At(u, y)) /\ ~(At(u, y) < At(u, x))
    BY <1>3, <1>4, <2>1 DEF Squeezed
  <2>3. At(u, x) \in Nat /\ At(u, y) \in Nat
    BY <1>3, <2>1, AtFacts
  <2>4. At(u, x) = At(u, y)
    BY <2>2, <2>3
  <2>5. PICK p : p = At(u, x)
    OBVIOUS
  <2>6. InStratum(p, kind[x], size) /\ InStratum(p, kind[y], size)
    BY <1>3, <2>1, <2>4, <2>5
  <2>7. kind[x] \in 0..(size - 1) /\ kind[y] \in 0..(size - 1)
    BY <1>6, <2>1
  <2>. QED
    BY <1>6, <2>6, <2>7, OneClass
<1>. QED
  BY <1>1, <1>5, <1>7 DEF Homogeneous

\* So does stratifying backward.
LEMMA StratifyBackFacts ==
    ASSUME NEW ms, Circ(ms), Peaceful(ms), OneReader(ms),
           NEW n \in Nat \ {0}, NEW class \in [Ops -> 0..(n - 1)], NEW ign,
           NEW t, t = Reverse(Stratify(Reverse(ms), class, n, ign))
    PROVE  Repacked(ms, t) /\ Homogeneous(t, Kinds(class, n, ign))
<1>1. PICK back, u, kind : /\ back = Reverse(ms) /\ u = Stratify(back, class, n, ign)
                           /\ kind = Kinds(class, n, ign)
  OBVIOUS
<1>2. Circ(back) /\ Peaceful(back) /\ OpsIn(back) = OpsIn(ms)
  BY <1>1, ReverseFacts, ReversePeaceful
<1>3. OneReader(back)
  BY <1>2 DEF OneReader
<1>4. Repacked(back, u) /\ Homogeneous(u, kind)
  BY <1>1, <1>2, <1>3, StratifyFacts
<1>5. Repacked(ms, t)
  BY <1>1, <1>4, RepackedBack
<1>6. Circ(u)
  BY <1>4 DEF Repacked
<1>7. /\ Circ(t) /\ Len(t) = Len(u)
      /\ \A i \in 1..Len(u) : t[i] = u[Len(u) + 1 - i] /\ Len(u) + 1 - i \in 1..Len(u)
  BY <1>1, <1>6, ReverseFacts
<1>8. DOMAIN t = 1..Len(u) /\ DOMAIN u = 1..Len(u)
  BY <1>6, <1>7, AtFacts
<1>9. Homogeneous(t, kind)
  <2>1. SUFFICES ASSUME NEW i \in 1..Len(u), NEW x \in t[i], NEW y \in t[i] PROVE kind[x] = kind[y]
    BY <1>8 DEF Homogeneous
  <2>2. PICK j \in DOMAIN u : t[i] = u[j]
    BY <1>7, <1>8
  <2>3. x \in u[j] /\ y \in u[j]
    BY <2>1, <2>2
  <2>. QED
    BY <1>4, <2>2, <2>3, Zenon DEF Homogeneous
<1>. QED
  BY <1>1, <1>5, <1>9

\* Stratifying keeps the order, in every order of the classes.
LEMMA SoundStratify ==
    ASSUME CircuitInv, Peaceful(moments), OneReader(moments), NEW ignored \in SUBSET OpsIn(moments)
    PROVE  StratifyKeepsOrder(ignored)
<1>1. Circ(moments)
  BY DEF CircuitInv
<1>2. PICK class : class = [x \in Ops |-> Classes(x)]
  OBVIOUS
<1>3. class \in [Ops -> 0..(2 - 1)]
  BY <1>2 DEF Classes
<1>4. SUFFICES ASSUME NEW ms2 \in Stratified(moments, class, 2, ignored)
               PROVE  /\ KeepsOrder(ms2)
                      /\ \A n \in DOMAIN ms2 : \A x, y \in ms2[n] :
                            (x \in ignored <=> y \in ignored) /\ (x \notin ignored => Classes(x) = Classes(y))
  BY <1>2 DEF StratifyKeepsOrder
<1>5. PICK p \in [0..(2 - 1) -> 0..(2 - 1)] :
         /\ \A i, j \in 0..(2 - 1) : p[i] = p[j] => i = j
         /\ \/ ms2 = Stratify(moments, [x \in Ops |-> p[class[x]]], 2, ignored)
            \/ ms2 = Reverse(Stratify(Reverse(moments), [x \in Ops |-> p[class[x]]], 2, ignored))
  BY <1>4 DEF Stratified
<1>6. PICK c : c = [x \in Ops |-> p[class[x]]]
  OBVIOUS
<1>7. c \in [Ops -> 0..(2 - 1)] /\ 2 \in Nat \ {0}
  BY <1>3, <1>5, <1>6
<1>8. Repacked(moments, ms2) /\ Homogeneous(ms2, Kinds(c, 2, ignored))
  BY <1>1, <1>5, <1>6, <1>7, StratifyFacts, StratifyBackFacts
<1>9. KeepsOrder(ms2)
  BY <1>8, RepackedKeeps
<1>10. ASSUME NEW n \in DOMAIN ms2, NEW x \in ms2[n], NEW y \in ms2[n]
       PROVE  (x \in ignored <=> y \in ignored) /\ (x \notin ignored => Classes(x) = Classes(y))
  <2>1. x \in Ops /\ y \in Ops
    BY <1>8, AtFacts DEF Repacked
  <2>2. Kind(x, c, 2, ignored) = Kind(y, c, 2, ignored)
    BY <1>8, <2>1 DEF Homogeneous, Kinds
  <2>3. c[x] \in 0..1 /\ c[y] \in 0..1
    BY <1>7, <2>1
  <2>4. (x \in ignored <=> y \in ignored) /\ (x \notin ignored => c[x] = c[y])
    BY <2>2, <2>3 DEF Kind
  <2>5. c[x] = c[y] => class[x] = class[y]
    BY <1>3, <1>5, <1>6, <2>1
  <2>. QED
    BY <1>2, <2>1, <2>4, <2>5
<1>. QED
  BY <1>9, <1>10

----------------------------------------------------------------------------
(* Merging *)

\* Operations without keys.
Keyless(can) == can \subseteq Ops /\ \A x \in can : MKeysOf[x] = {} /\ CKeysOf[x] = {}

\* They clash only on qubits.
LEMMA KeylessClash ==
    ASSUME NEW can, Keyless(can), NEW x, NEW y, x \in can \/ y \in can, Clash(x, y)
    PROVE  QubitsOf[x] \cap QubitsOf[y] # {}
BY ClashMeans DEF Keyless

\* A component acts on the qubits of its operations.
LEMMA CompFacts ==
    ASSUME NEW d
    PROVE  /\ \A y \in d : QubitsOf[y] \subseteq CompQubits(d)
           /\ \A b \in CompQubits(d) : \E y \in d : b \in QubitsOf[y]
BY DEF CompQubits, MomentQubits

\* The components of every moment.
Boards == Seq(SUBSET SUBSET Ops)

\* One of them is exchanged.
LEMMA BoardWith ==
    ASSUME NEW T, NEW s \in Seq(T), NEW i \in 1..Len(s), NEW v \in T, NEW r, r = [s EXCEPT ![i] = v]
    PROVE  r \in Seq(T) /\ Len(r) = Len(s) /\ \A j \in 1..Len(s) : r[j] = IF j = i THEN v ELSE s[j]
OBVIOUS

\* The components cs are of operations of D, and of several only where all may be merged; ...
PartsOf(cs, D, can) ==
    \A i \in 1..Len(cs) : \A d \in cs[i] : d \subseteq D /\ (d \subseteq can \/ \E x \in d : d = {x})

\* ... each operation of D is in one, ...
PartsCover(cs, D) == \A x \in D : \E i \in 1..Len(cs) : \E d \in cs[i] : x \in d

\* ... and in no other; ...
PartsOnce(cs) == \A i, j \in 1..Len(cs) : \A d \in cs[i], e \in cs[j] : d \cap e # {} => i = j /\ d = e

\* ... those of a moment are on different qubits; ...
PartsApart(cs) == \A i \in 1..Len(cs) : \A d, e \in cs[i] : d # e => CompQubits(d) \cap CompQubits(e) = {}

\* ... and what does not commute is in one component or in the order of the circuit ms.
PartsOrdered(ms, cs) ==
    \A i, j \in 1..Len(cs) : \A d \in cs[i], e \in cs[j] : \A x \in d, y \in e :
        Clash(x, y) /\ At(ms, x) < At(ms, y) => d = e \/ i < j

\* All of this.
Parted(ms, cs, D, can) ==
    cs \in Boards /\ PartsOf(cs, D, can) /\ PartsCover(cs, D) /\ PartsOnce(cs) /\ PartsApart(cs) /\ PartsOrdered(ms, cs)

\* The component d is over an operation of moment n, ...
Over(ms, d, n) == \E z \in d : z \in ms[n] /\ CompQubits(d) \subseteq QubitsOf[z]

\* ... as are all components of the last moment, while moment n is merged.
Topped(ms, cs, n) == n \in 1..Len(ms) /\ Len(cs) = n /\ \A d \in cs[n] : Over(ms, d, n)

\* There is room for the next operation of that moment in the last moment, and it passes
\* nothing there.
LEMMA TopIsFree ==
    ASSUME NEW ms, Circ(ms), NEW can, Keyless(can), NEW n, NEW cs, Topped(ms, cs, n), NEW D, Parted(ms, cs, D, can),
           NEW x \in ms[n], x \notin D, NEW d \in cs[n]
    PROVE  CompQubits(d) \cap QubitsOf[x] = {} /\ \A y \in d : Clash(y, x) => ~(At(ms, y) < n)
<1>1. n \in 1..Len(ms) /\ n \in 1..Len(cs) /\ n \in Nat /\ Len(cs) = n
  BY AtFacts DEF Topped
<1>2. PICK z \in d : z \in ms[n] /\ CompQubits(d) \subseteq QubitsOf[z]
  BY DEF Topped, Over
<1>3. d \subseteq D /\ (d \subseteq can \/ \E y \in d : d = {y})
  BY <1>1 DEF Parted, PartsOf
<1>4. QubitsOf[z] \cap QubitsOf[x] = {}
  <2>1. ms[n] \in Moments /\ z # x
    BY <1>1, <1>2, <1>3, AtFacts DEF Circ
  <2>. QED
    BY <1>2, <2>1 DEF Moments, IsMoment
<1>5. CompQubits(d) \cap QubitsOf[x] = {}
  BY <1>2, <1>4
<1>6. ASSUME NEW y \in d, Clash(y, x) PROVE ~(At(ms, y) < n)
  <2>1. CASE d \subseteq can
    <3>1. QubitsOf[y] \cap QubitsOf[x] # {}
      BY <1>6, <2>1, KeylessClash
    <3>2. QubitsOf[y] \subseteq CompQubits(d)
      BY <1>6, CompFacts
    <3>. QED
      BY <1>5, <3>1, <3>2
  <2>2. CASE d = {z}
    <3>1. At(ms, y) = n
      BY <1>1, <1>2, <1>6, <2>2, AtFacts
    <3>. QED
      BY <1>1, <3>1
  <2>. QED
    BY <1>2, <1>3, <2>1, <2>2
<1>. QED
  BY <1>5, <1>6

\* The component c may be in moment i.
MayJoin(ms, cs, c, i, can) ==
    /\ c \in SUBSET Ops /\ (c \subseteq can \/ \E x \in c : c = {x}) /\ i \in 1..Len(cs)
    /\ \A e \in cs[i] : CompQubits(e) \cap CompQubits(c) = {}
    /\ \A j \in 1..Len(cs) : \A e \in cs[j] : \A y \in c, z \in e : Clash(y, z) =>
          (At(ms, y) < At(ms, z) => i < j) /\ (At(ms, z) < At(ms, y) => j < i)

\* It joins the moment.
Joining(cs, c, i, r) == r = [cs EXCEPT ![i] = @ \cup {c}]

\* What else it does.
HasJoined(cs, c, i, r) ==
    Len(r) = Len(cs) /\ \A j \in 1..Len(cs) : r[j] = IF j = i THEN cs[j] \cup {c} ELSE cs[j]

\* Then the components are as they should be.
LEMMA PartedMore ==
    ASSUME NEW ms, NEW can, NEW cs, NEW D, Parted(ms, cs, D, can), NEW c, c \cap D = {}, NEW i,
           MayJoin(ms, cs, c, i, can), NEW r, Joining(cs, c, i, r)
    PROVE  Parted(ms, r, D \cup c, can) /\ HasJoined(cs, c, i, r)
<1>1. PICK N : N = Len(cs)
  OBVIOUS
<1>2. /\ cs \in Boards /\ N \in Nat /\ i \in 1..N /\ DOMAIN cs = 1..N /\ c \in SUBSET Ops
      /\ (c \subseteq can \/ \E x \in c : c = {x})
  BY <1>1 DEF Parted, MayJoin, Boards
<1>3. /\ r \in Boards /\ Len(r) = N
      /\ \A j \in 1..N : r[j] = IF j = i THEN cs[j] \cup {c} ELSE cs[j]
  <2>1. PICK T : T = SUBSET SUBSET Ops
    OBVIOUS
  <2>2. PICK S : S = cs[i] \cup {c}
    OBVIOUS
  <2>3. cs \in Seq(T) /\ Boards = Seq(T)
    BY <1>2, <2>1 DEF Boards
  <2>4. S \in T
    <3>1. cs[i] \in T
      BY <1>1, <1>2, <2>3
    <3>. QED
      BY <1>2, <2>1, <2>2, <3>1
  <2>5. r = [cs EXCEPT ![i] = S]
    BY <2>2 DEF Joining
  <2>6. r \in Seq(T) /\ Len(r) = N /\ \A j \in 1..N : r[j] = IF j = i THEN S ELSE cs[j]
    BY <1>1, <1>2, <2>3, <2>4, <2>5, BoardWith
  <2>. QED
    BY <2>2, <2>3, <2>6
<1>4. \A j \in 1..N : \A d : d \in r[j] <=> d \in cs[j] \/ (j = i /\ d = c)
  BY <1>3
<1>5. \A j \in 1..N : \A d \in cs[j] : d \subseteq D
  BY <1>1 DEF Parted, PartsOf
<1>6. \A j \in 1..N : \A d \in r[j] : d \subseteq D \cup c /\ (d \subseteq can \/ \E x \in d : d = {x})
  BY <1>1, <1>2, <1>4 DEF Parted, PartsOf
<1>7. \A x \in D \cup c : \E j \in 1..N : \E d \in r[j] : x \in d
  <2>1. \A x \in D : \E j \in 1..N : \E d \in r[j] : x \in d
    BY <1>1, <1>4 DEF Parted, PartsCover
  <2>2. \A x \in c : c \in r[i] /\ x \in c
    BY <1>2, <1>4
  <2>. QED
    BY <1>2, <2>1, <2>2
<1>8. ASSUME NEW j \in 1..N, NEW k \in 1..N, NEW d \in r[j], NEW e \in r[k], d \cap e # {} PROVE j = k /\ d = e
  <2>1. CASE d \in cs[j] /\ e \in cs[k]
    BY <1>1, <1>8, <2>1 DEF Parted, PartsOnce
  <2>2. CASE d \in cs[j] /\ k = i /\ e = c
    BY <1>5, <1>8, <2>2
  <2>3. CASE e \in cs[k] /\ j = i /\ d = c
    BY <1>5, <1>8, <2>3
  <2>. QED
    BY <1>4, <2>1, <2>2, <2>3
<1>9. ASSUME NEW j \in 1..N, NEW d \in r[j], NEW e \in r[j], d # e PROVE CompQubits(d) \cap CompQubits(e) = {}
  <2>1. CASE d \in cs[j] /\ e \in cs[j]
    BY <1>1, <1>9, <2>1 DEF Parted, PartsApart
  <2>2. CASE d \in cs[j] /\ j = i /\ e = c
    BY <2>2 DEF MayJoin
  <2>3. CASE e \in cs[j] /\ j = i /\ d = c
    BY <2>3 DEF MayJoin
  <2>. QED
    BY <1>4, <1>9, <2>1, <2>2, <2>3
<1>10. ASSUME NEW j \in 1..N, NEW k \in 1..N, NEW d \in r[j], NEW e \in r[k], NEW x \in d, NEW y \in e,
              Clash(x, y), At(ms, x) < At(ms, y)
       PROVE  d = e \/ j < k
  <2>1. CASE d \in cs[j] /\ e \in cs[k]
    BY <1>1, <1>10, <2>1 DEF Parted, PartsOrdered
  <2>2. CASE d \in cs[j] /\ k = i /\ e = c
    <3>1. Clash(y, x)
      BY <1>10, ClashSymmetric
    <3>. QED
      BY <1>1, <1>10, <2>2, <3>1 DEF MayJoin
  <2>3. CASE e \in cs[k] /\ j = i /\ d = c
    BY <1>1, <1>10, <2>3 DEF MayJoin
  <2>. QED
    BY <1>4, <2>1, <2>2, <2>3
<1>11. Parted(ms, r, D \cup c, can)
  <2>1. PartsOf(r, D \cup c, can)
    BY <1>3, <1>6 DEF PartsOf
  <2>2. PartsCover(r, D \cup c)
    BY <1>3, <1>7 DEF PartsCover
  <2>3. PartsOnce(r)
    BY <1>3, <1>8 DEF PartsOnce
  <2>4. PartsApart(r)
    BY <1>3, <1>9 DEF PartsApart
  <2>5. PartsOrdered(ms, r)
    BY <1>3, <1>10 DEF PartsOrdered
  <2>. QED
    BY <1>3, <2>1, <2>2, <2>3, <2>4, <2>5 DEF Parted
<1>. QED
  BY <1>1, <1>3, <1>11 DEF HasJoined

\* The components M leave their moment.
Leaving(cs, M, r) == r = [i \in DOMAIN cs |-> cs[i] \ M]
HasLeft(cs, M, r) == Len(r) = Len(cs) /\ \A i \in 1..Len(cs) : r[i] = cs[i] \ M

\* The others are as they should be.
LEMMA PartedLess ==
    ASSUME NEW ms, NEW can, NEW cs, NEW D, Parted(ms, cs, D, can), NEW k \in 1..Len(cs), NEW M \in SUBSET cs[k],
           NEW r, Leaving(cs, M, r)
    PROVE  Parted(ms, r, D \ UNION M, can) /\ HasLeft(cs, M, r)
<1>1. PICK N : N = Len(cs)
  OBVIOUS
<1>2. cs \in Boards /\ N \in Nat /\ DOMAIN cs = 1..N
  BY <1>1 DEF Parted, Boards
<1>3. r \in Boards /\ Len(r) = N /\ \A i \in 1..N : r[i] = cs[i] \ M
  <2>1. \A i \in 1..N : cs[i] \ M \in SUBSET SUBSET Ops
    BY <1>1, <1>2 DEF Boards
  <2>. QED
    BY <1>2, <2>1 DEF Boards, Leaving
<1>4. \A i \in 1..N : \A d \in r[i] : d \in cs[i] /\ d \notin M
  BY <1>3
<1>5. \A i \in 1..N : \A d \in r[i] : d \cap UNION M = {}
  <2>1. ASSUME NEW i \in 1..N, NEW d \in r[i], NEW e \in M PROVE d \cap e = {}
    <3>1. d \in cs[i] /\ d # e /\ e \in cs[k]
      BY <1>4, <2>1
    <3>. QED
      BY <1>1, <3>1 DEF Parted, PartsOnce
  <2>. QED
    BY <2>1
<1>6. \A i \in 1..N : \A d \in r[i] : d \subseteq D \ UNION M /\ (d \subseteq can \/ \E x \in d : d = {x})
  BY <1>1, <1>4, <1>5 DEF Parted, PartsOf
<1>7. ASSUME NEW x \in D \ UNION M PROVE \E i \in 1..N : \E d \in r[i] : x \in d
  <2>1. PICK i \in 1..N : \E d \in cs[i] : x \in d
    BY <1>1 DEF Parted, PartsCover
  <2>2. PICK d \in cs[i] : x \in d
    BY <2>1
  <2>3. d \in r[i]
    BY <1>3, <1>7, <2>2
  <2>. QED
    BY <2>2, <2>3
<1>8. \A i, j \in 1..N : \A d \in r[i], e \in r[j] : d \cap e # {} => i = j /\ d = e
  BY <1>1, <1>4 DEF Parted, PartsOnce
<1>9. \A i \in 1..N : \A d, e \in r[i] : d # e => CompQubits(d) \cap CompQubits(e) = {}
  BY <1>1, <1>4 DEF Parted, PartsApart
<1>10. \A i, j \in 1..N : \A d \in r[i], e \in r[j] : \A x \in d, y \in e :
          Clash(x, y) /\ At(ms, x) < At(ms, y) => d = e \/ i < j
  BY <1>1, <1>4 DEF Parted, PartsOrdered
<1>11. Parted(ms, r, D \ UNION M, can)
  <2>1. PartsOf(r, D \ UNION M, can)
    BY <1>3, <1>6 DEF PartsOf
  <2>2. PartsCover(r, D \ UNION M)
    BY <1>3, <1>7 DEF PartsCover
  <2>3. PartsOnce(r)
    BY <1>3, <1>8 DEF PartsOnce
  <2>4. PartsApart(r)
    BY <1>3, <1>9 DEF PartsApart
  <2>5. PartsOrdered(ms, r)
    BY <1>3, <1>10 DEF PartsOrdered
  <2>. QED
    BY <1>3, <2>1, <2>2, <2>3, <2>4, <2>5 DEF Parted
<1>. QED
  BY <1>1, <1>3, <1>11 DEF HasLeft

\* What can be merged with c is in the last moment on one of its open qubits.
LEMMA MergeableFacts ==
    ASSUME NEW cs \in Boards, NEW c, NEW qs, NEW left, left = Mergeable(cs, c, qs)
    PROVE  \E k \in Nat : /\ left # {} => k \in 1..Len(cs)
                          /\ k \in 1..Len(cs) => left = {d \in cs[k] : CompQubits(d) \cap qs # {}}
                          /\ \A j \in 1..Len(cs) : \A e \in cs[j] : CompQubits(e) \cap qs # {} => j <= k
<1>1. PICK N \in Nat : N = Len(cs)
  BY DEF Boards
<1>2. DOMAIN cs = 1..N
  BY <1>1 DEF Boards
<1>3. PICK k : k = LastTouching(cs, c, qs)
  OBVIOUS
<1>4. PICK S : S = {0} \cup {n \in 1..N : \E d \in cs[n] :
                      \/ CompQubits(d) \cap qs # {}
                      \/ MomentMKeys(d) \cap MomentCKeys(c) # {}
                      \/ MomentCKeys(d) \cap MomentMKeys(c) # {}}
  OBVIOUS
<1>5. S \in SUBSET Nat /\ S # {} /\ \A i \in S : i <= N
  BY <1>4
<1>6. k = MaxOf(S)
  BY <1>2, <1>3, <1>4 DEF LastTouching
<1>7. k \in S /\ \A i \in S : i <= k
  <2>1. MaxOf(S) \in S /\ \A i \in S : i <= MaxOf(S)
    BY <1>1, <1>5, Extremes
  <2>. QED
    BY <1>6, <2>1
<1>8. k \in Nat /\ (k = 0 \/ k \in 1..N)
  BY <1>4, <1>7
<1>9. left = IF k = 0 THEN {} ELSE {d \in cs[k] : CompQubits(d) \cap qs # {}}
  BY <1>3 DEF Mergeable
<1>10. \A j \in 1..N : \A e \in cs[j] : CompQubits(e) \cap qs # {} => j <= k
  BY <1>4, <1>7
<1>. QED
  BY <1>1, <1>8, <1>9, <1>10

\* The operations of c are from moment n, or clash with nothing after them.
Heads(ms, c, D) == \A y \in c, z \in D : Clash(y, z) => ~(At(ms, y) < At(ms, z))

\* The component c of the operation x is still to be put down: what has merged into it is
\* on qubits of x, and no operation that is left is after what it does not commute with.
Merging(ms, s, D, can, x, n) ==
    /\ s \in [cs : Boards, c : SUBSET Ops, qs : SUBSET QubitsOf[x]]
    /\ x \in s.c /\ s.c \subseteq can /\ s.c \subseteq D \cup {x} /\ CompQubits(s.c) \subseteq QubitsOf[x]
    /\ Parted(ms, s.cs, D \ s.c, can) /\ Topped(ms, s.cs, n)
    /\ Heads(ms, s.c, D \ s.c)

\* A turn of the loop.
LEMMA MergingStep ==
    ASSUME NEW ms, NEW can, Keyless(can), NEW n, NEW D, NEW x, NEW s, Merging(ms, s, D, can, x, n)
    PROVE  Merging(ms, MergeLeft(s, can), D, can, x, n)
<1>1. PICK cs, c, qs : cs = s.cs /\ c = s.c /\ qs = s.qs
  OBVIOUS
<1>2. /\ cs \in Boards /\ c \in SUBSET Ops /\ qs \in SUBSET QubitsOf[x]
      /\ x \in c /\ c \subseteq can /\ c \subseteq D \cup {x} /\ CompQubits(c) \subseteq QubitsOf[x]
      /\ Parted(ms, cs, D \ c, can) /\ Topped(ms, cs, n) /\ Heads(ms, c, D \ c)
  BY <1>1 DEF Merging
<1>3. PICK left : left = Mergeable(cs, c, qs)
  OBVIOUS
<1>4. CASE left = {} \/ qs = {}
  <2>1. MergeLeft(s, can) = s
    BY <1>1, <1>3, <1>4 DEF MergeLeft
  <2>. QED
    BY <2>1
<1>5. CASE ~(left = {} \/ qs = {})
  <2>1. PICK k \in Nat :
           /\ left # {} => k \in 1..Len(cs)
           /\ k \in 1..Len(cs) => left = {d \in cs[k] : CompQubits(d) \cap qs # {}}
           /\ \A j \in 1..Len(cs) : \A e \in cs[j] : CompQubits(e) \cap qs # {} => j <= k
    BY <1>2, <1>3, MergeableFacts
  <2>2. k \in 1..Len(cs) /\ left \subseteq cs[k]
    BY <1>5, <2>1
  <2>3. PICK M : M = {d \in left : CompQubits(d) \subseteq qs /\ d \subseteq can}
    OBVIOUS
  <2>4. M \in SUBSET cs[k] /\ \A d \in M : CompQubits(d) \subseteq qs /\ d \subseteq can
    BY <2>2, <2>3
  <2>5. PICK cs2, c2, qs2 : /\ cs2 = [i \in DOMAIN cs |-> cs[i] \ M] /\ c2 = c \cup UNION M
                            /\ qs2 = qs \ UNION {CompQubits(d) : d \in left \ M}
    OBVIOUS
  <2>6. MergeLeft(s, can) = [cs |-> cs2, c |-> c2, qs |-> qs2]
    BY <1>1, <1>3, <1>5, <2>3, <2>5 DEF MergeLeft
  <2>7. PICK E : E = D \ c
    OBVIOUS
  <2>8. D \ c2 = E \ UNION M
    BY <2>5, <2>7
  <2>9. /\ Parted(ms, cs2, D \ c2, can) /\ Len(cs2) = Len(cs)
        /\ \A i \in 1..Len(cs) : cs2[i] = cs[i] \ M
    <3>1. Parted(ms, cs, E, can)
      BY <1>2, <2>7
    <3>2. Leaving(cs, M, cs2)
      BY <2>5 DEF Leaving
    <3>3. Parted(ms, cs2, E \ UNION M, can) /\ HasLeft(cs, M, cs2)
      BY <2>2, <2>4, <3>1, <3>2, PartedLess
    <3>. QED
      BY <2>8, <3>3 DEF HasLeft
  <2>10. \A d \in M : d \subseteq D \ c
    BY <1>2, <2>2, <2>4 DEF Parted, PartsOf
  <2>11. c2 \in SUBSET Ops /\ qs2 \in SUBSET QubitsOf[x] /\ cs2 \in Boards
    <3>1. \A d \in M : d \subseteq Ops
      BY <2>4 DEF Keyless
    <3>2. cs2 \in Boards
      BY <2>9 DEF Parted
    <3>. QED
      BY <1>2, <2>5, <3>1, <3>2
  <2>12. x \in c2 /\ c2 \subseteq can /\ c2 \subseteq D \cup {x}
    BY <1>2, <2>4, <2>5, <2>10
  <2>13. CompQubits(c2) \subseteq QubitsOf[x]
    <3>1. ASSUME NEW y \in c2 PROVE QubitsOf[y] \subseteq QubitsOf[x]
      <4>1. CASE y \in c
        BY <1>2, <4>1, CompFacts
      <4>2. ASSUME NEW d \in M, y \in d PROVE QubitsOf[y] \subseteq QubitsOf[x]
        <5>1. QubitsOf[y] \subseteq CompQubits(d)
          BY <4>2, CompFacts
        <5>. QED
          BY <1>2, <2>4, <5>1
      <4>. QED
        BY <2>5, <3>1, <4>1, <4>2
    <3>. QED
      BY <3>1, CompFacts
  <2>14. Topped(ms, cs2, n)
    <3>1. n \in 1..Len(ms) /\ Len(cs) = n /\ \A d \in cs[n] : Over(ms, d, n)
      BY <1>2 DEF Topped
    <3>2. n \in 1..Len(cs)
      BY <2>2, <3>1
    <3>3. cs2[n] \subseteq cs[n]
      BY <2>9, <3>2
    <3>. QED
      BY <2>9, <3>1, <3>3 DEF Topped
  <2>15. Heads(ms, c2, D \ c2)
    <3>1. ASSUME NEW y \in c2, NEW z \in D \ c2, Clash(y, z), At(ms, y) < At(ms, z) PROVE FALSE
      <4>1. CASE y \in c
        <5>1. z \in D \ c
          BY <2>5
        <5>. QED
          BY <1>2, <3>1, <4>1, <5>1 DEF Heads
      <4>2. ASSUME NEW d \in M, y \in d PROVE FALSE
        <5>1. PICK i \in 1..Len(cs) : \E e \in cs2[i] : z \in e
          BY <2>9 DEF Parted, PartsCover
        <5>2. PICK e \in cs2[i] : z \in e
          BY <5>1
        <5>3. e \in cs[i] /\ e \notin M
          BY <2>9, <5>2
        <5>4. PICK b \in QubitsOf[y] : b \in QubitsOf[z]
          <6>1. y \in can
            BY <2>4, <4>2
          <6>. QED
            BY <3>1, <6>1, KeylessClash
        <5>5. b \in CompQubits(e) /\ b \in CompQubits(d)
          BY <4>2, <5>2, <5>4, CompFacts
        <5>6. b \in qs
          BY <2>4, <5>5
        <5>7. i <= k
          BY <2>1, <5>3, <5>5, <5>6
        <5>8. d = e \/ k < i
          BY <1>2, <2>2, <2>4, <3>1, <4>2, <5>2, <5>3 DEF Parted, PartsOrdered
        <5>. QED
          BY <4>2, <5>3, <5>7, <5>8
      <4>. QED
        BY <2>5, <3>1, <4>1, <4>2
    <3>. QED
      BY <3>1 DEF Heads
  <2>16. PICK r : r = [cs |-> cs2, c |-> c2, qs |-> qs2]
    OBVIOUS
  <2>17. /\ r.cs = cs2 /\ r.c = c2 /\ r.qs = qs2
         /\ r \in [cs : Boards, c : SUBSET Ops, qs : SUBSET QubitsOf[x]]
    BY <2>11, <2>16
  <2>18. Merging(ms, r, D, can, x, n)
    BY <2>9, <2>12, <2>13, <2>14, <2>15, <2>17 DEF Merging
  <2>. QED
    BY <2>6, <2>16, <2>18
<1>. QED
  BY <1>4, <1>5

\* Where the components are when D has been visited, in moments up to n.
MergedTo(ms, cs, D, can, n) == Parted(ms, cs, D, can) /\ Topped(ms, cs, n)

\* The loop.
LEMMA MergeRightFacts ==
    ASSUME NEW ms, Circ(ms), NEW can, Keyless(can), NEW n, NEW cs, NEW D, MergedTo(ms, cs, D, can, n),
           NEW x, Turn(ms, D, n, x), x \in can, NEW s, s = MergeRight(cs, {x}, can)
    PROVE  Merging(ms, s, D, can, x, n)
<1>1. x \in Ops /\ CompQubits({x}) = QubitsOf[x]
  <2>1. CompQubits({x}) = QubitsOf[x]
    BY DEF CompQubits, MomentQubits
  <2>. QED
    BY <2>1 DEF Keyless
<1>2. PICK N \in Nat : N = Cardinality(Ops) + Cardinality(CompQubits({x}))
  <2>1. IsFiniteSet(Ops) /\ IsFiniteSet(CompQubits({x}))
    BY <1>1, OperationsAssumption
  <2>2. Cardinality(Ops) \in Nat /\ Cardinality(CompQubits({x})) \in Nat
    BY <2>1, FS_CardinalityType
  <2>. QED
    BY <2>2
<1>3. PICK T : T = [cs : Boards, c : SUBSET Ops, qs : SUBSET QubitsOf[x]]
  OBVIOUS
<1>4. PICK Good : Good = [i \in 0..N |-> {e \in T : Merging(ms, e, D, can, x, n)}]
  OBVIOUS
<1>5. PICK s0 : s0 = [cs |-> cs, c |-> {x}, qs |-> CompQubits({x})]
  OBVIOUS
<1>6. s0 \in Good[0]
  <2>1. Parted(ms, cs, D, can) /\ Topped(ms, cs, n) /\ cs \in Boards
    BY DEF MergedTo, Parted
  <2>2. s0.cs = cs /\ s0.c = {x} /\ s0.qs = QubitsOf[x] /\ s0 \in T
    BY <1>1, <1>3, <1>5, <2>1
  <2>3. D \ {x} = D
    BY DEF Turn
  <2>4. Heads(ms, {x}, D)
    <3>1. \A z \in D : At(ms, z) <= n /\ At(ms, z) \in Nat
      BY AtFacts DEF Turn
    <3>2. At(ms, x) = n /\ n \in Nat
      BY AtFacts DEF Turn
    <3>. QED
      BY <3>1, <3>2 DEF Heads
  <2>5. Merging(ms, s0, D, can, x, n)
    BY <1>1, <1>3, <2>1, <2>2, <2>3, <2>4 DEF Merging
  <2>. QED
    BY <1>4, <2>2, <2>5
<1>7. ASSUME NEW i \in 1..N, NEW e \in Good[i - 1] PROVE MergeLeft(e, can) \in Good[i]
  <2>1. i - 1 \in 0..N /\ i \in 0..N
    OBVIOUS
  <2>2. Merging(ms, e, D, can, x, n)
    BY <1>4, <2>1
  <2>3. PICK r : r = MergeLeft(e, can)
    OBVIOUS
  <2>4. Merging(ms, r, D, can, x, n)
    BY <2>2, <2>3, MergingStep
  <2>5. r \in T
    BY <1>3, <2>4 DEF Merging
  <2>. QED
    BY <1>4, <2>1, <2>3, <2>4, <2>5
<1>8. s \in Good[N]
  BY <1>2, <1>5, <1>6, <1>7, MergeRightStays
<1>. QED
  BY <1>4, <1>8

\* A component of x alone, or one with what has merged into it, comes into the last moment.
LEMMA MergedAtTop ==
    ASSUME NEW ms, Circ(ms), NEW can, Keyless(can), NEW n, NEW D, NEW x, Turn(ms, D, n, x), NEW cs, NEW c,
           c \in SUBSET Ops, x \in c, c \subseteq D \cup {x}, c \subseteq can \/ c = {x},
           CompQubits(c) \subseteq QubitsOf[x], MergedTo(ms, cs, D \ c, can, n), Heads(ms, c, D \ c),
           NEW r, Joining(cs, c, n, r)
    PROVE  MergedTo(ms, r, D \cup {x}, can, n)
<1>1. PICK E : E = D \ c
  OBVIOUS
<1>2. E \cup c = D \cup {x} /\ c \cap E = {} /\ x \notin E /\ E \subseteq D
  BY <1>1 DEF Turn
<1>3. /\ Parted(ms, cs, E, can) /\ Topped(ms, cs, n) /\ n \in 1..Len(cs) /\ Len(cs) = n /\ n \in Nat
      /\ x \in ms[n] /\ n \in 1..Len(ms)
  BY <1>1, AtFacts DEF MergedTo, Topped, Turn
<1>4. MayJoin(ms, cs, c, n, can)
  <2>1. \A e \in cs[n] : CompQubits(e) \cap CompQubits(c) = {}
    <3>1. ASSUME NEW e \in cs[n] PROVE CompQubits(e) \cap QubitsOf[x] = {}
      BY <1>2, <1>3, TopIsFree
    <3>. QED
      BY <3>1
  <2>2. ASSUME NEW j \in 1..Len(cs), NEW e \in cs[j], NEW y \in c, NEW z \in e, Clash(y, z)
        PROVE  (At(ms, y) < At(ms, z) => n < j) /\ (At(ms, z) < At(ms, y) => j < n)
    <3>1. z \in E
      BY <1>3 DEF Parted, PartsOf
    <3>2. ~(At(ms, y) < At(ms, z))
      BY <1>1, <2>2, <3>1 DEF Heads
    <3>3. ASSUME At(ms, z) < At(ms, y), j = n PROVE FALSE
      <4>1. Clash(z, y)
        BY <2>2, ClashSymmetric
      <4>2. CASE y = x
        <5>1. At(ms, x) = n
          BY <1>3, AtFacts
        <5>. QED
          BY <1>2, <1>3, <3>3, <4>1, <4>2, <5>1, TopIsFree
      <4>3. CASE y # x
        <5>1. y \in can
          BY <4>3
        <5>2. QubitsOf[y] \cap QubitsOf[z] # {}
          BY <2>2, <5>1, KeylessClash
        <5>3. QubitsOf[y] \subseteq CompQubits(c) /\ QubitsOf[z] \subseteq CompQubits(e)
          BY CompFacts
        <5>. QED
          BY <2>1, <3>3, <5>2, <5>3
      <4>. QED
        BY <4>2, <4>3
    <3>. QED
      BY <1>3, <3>2, <3>3
  <2>. QED
    BY <1>3, <2>1, <2>2 DEF MayJoin
<1>5. Parted(ms, r, E \cup c, can) /\ HasJoined(cs, c, n, r)
  BY <1>2, <1>3, <1>4, PartedMore
<1>6. Topped(ms, r, n)
  <2>1. Over(ms, c, n)
    BY <1>3 DEF Over
  <2>2. r[n] = cs[n] \cup {c} /\ Len(r) = Len(cs)
    BY <1>3, <1>5 DEF HasJoined
  <2>3. \A d \in cs[n] : Over(ms, d, n)
    BY <1>3 DEF Topped
  <2>. QED
    BY <1>3, <1>5, <2>1, <2>2, <2>3 DEF Topped
<1>. QED
  BY <1>2, <1>5, <1>6 DEF MergedTo

\* An operation alone in the last moment.
LEMMA AloneAtTop ==
    ASSUME NEW ms, Circ(ms), NEW can, Keyless(can), NEW n, NEW cs, NEW D, MergedTo(ms, cs, D, can, n),
           NEW x, Turn(ms, D, n, x), NEW r, Joining(cs, {x}, n, r)
    PROVE  MergedTo(ms, r, D \cup {x}, can, n)
<1>1. x \in Ops /\ At(ms, x) = n /\ n \in Nat /\ \A z \in D : At(ms, z) <= n /\ At(ms, z) \in Nat
  BY AtFacts DEF Turn
<1>2. CompQubits({x}) = QubitsOf[x]
  BY DEF CompQubits, MomentQubits
<1>3. D \ {x} = D
  BY DEF Turn
<1>4. Heads(ms, {x}, D)
  BY <1>1 DEF Heads
<1>5. PICK c : c = {x}
  OBVIOUS
<1>6. /\ c \in SUBSET Ops /\ x \in c /\ c \subseteq D \cup {x} /\ c = {x} /\ CompQubits(c) \subseteq QubitsOf[x]
      /\ MergedTo(ms, cs, D \ c, can, n) /\ Heads(ms, c, D \ c) /\ Joining(cs, c, n, r)
  BY <1>1, <1>2, <1>3, <1>4, <1>5
<1>. QED
  BY <1>6, MergedAtTop

\* What is merged into one component on all of its qubits.
Absorbed(cs, r, d, k, x) ==
    r = [cs EXCEPT ![k] = (@ \ {d}) \cup {{x} \cup d}]

\* It passes nothing.
LEMMA MergedIntoOne ==
    ASSUME NEW ms, Circ(ms), NEW can, Keyless(can), NEW n, NEW cs, NEW D, MergedTo(ms, cs, D, can, n),
           NEW x, Turn(ms, D, n, x), x \in can, NEW k \in 1..Len(cs), NEW d \in cs[k], d \subseteq can,
           CompQubits(d) \cap QubitsOf[x] # {}, QubitsOf[x] \subseteq CompQubits(d),
           \A j \in 1..Len(cs) : \A e \in cs[j] : CompQubits(e) \cap QubitsOf[x] # {} => j <= k,
           NEW r, Absorbed(cs, r, d, k, x)
    PROVE  MergedTo(ms, r, D \cup {x}, can, n)
<1>1. Parted(ms, cs, D, can) /\ Topped(ms, cs, n) /\ cs \in Boards
  BY DEF MergedTo, Parted
<1>2. x \notin D /\ x \in Ops /\ At(ms, x) = n /\ n \in Nat /\ \A z \in D : At(ms, z) <= n /\ At(ms, z) \in Nat
  BY AtFacts DEF Turn
<1>3. PICK c, E, cs2 : c = {x} \cup d /\ E = D \ d /\ cs2 = [i \in DOMAIN cs |-> cs[i] \ {d}]
  OBVIOUS
<1>4. d \subseteq D
  BY <1>1 DEF Parted, PartsOf
<1>5. c \in SUBSET Ops /\ c \subseteq can /\ c \cap E = {} /\ E \cup c = D \cup {x}
  BY <1>2, <1>3, <1>4 DEF Keyless
<1>6. Parted(ms, cs2, E, can) /\ HasLeft(cs, {d}, cs2)
  <2>1. {d} \in SUBSET cs[k] /\ UNION {d} = d
    OBVIOUS
  <2>2. Leaving(cs, {d}, cs2)
    BY <1>3 DEF Leaving
  <2>3. PICK M : M = {d}
    OBVIOUS
  <2>4. Parted(ms, cs2, D \ UNION M, can) /\ HasLeft(cs, M, cs2)
    BY <1>1, <2>1, <2>2, <2>3, PartedLess
  <2>. QED
    BY <1>3, <2>1, <2>3, <2>4
<1>7. Len(cs2) = Len(cs) /\ \A i \in 1..Len(cs) : cs2[i] = cs[i] \ {d}
  BY <1>6 DEF HasLeft
<1>8. CompQubits(c) = CompQubits(d)
  <2>1. CompQubits(c) = QubitsOf[x] \cup CompQubits(d)
    BY <1>3 DEF CompQubits, MomentQubits
  <2>. QED
    BY <2>1
<1>9. MayJoin(ms, cs2, c, k, can)
  <2>1. \A e \in cs2[k] : CompQubits(e) \cap CompQubits(c) = {}
    <3>1. ASSUME NEW e \in cs2[k] PROVE CompQubits(e) \cap CompQubits(d) = {}
      BY <1>1, <1>7, <3>1 DEF Parted, PartsApart
    <3>. QED
      BY <1>8, <3>1
  <2>2. ASSUME NEW j \in 1..Len(cs2), NEW e \in cs2[j], NEW y \in c, NEW z \in e, Clash(y, z)
        PROVE  (At(ms, y) < At(ms, z) => k < j) /\ (At(ms, z) < At(ms, y) => j < k)
    <3>1. e \in cs[j] /\ e # d /\ j \in 1..Len(cs) /\ z \in D
      BY <1>1, <1>7, <2>2 DEF Parted, PartsOf
    <3>2. CASE y \in d
      <4>1. Clash(z, y)
        BY <2>2, ClashSymmetric
      <4>. QED
        BY <1>1, <2>2, <3>1, <3>2, <4>1 DEF Parted, PartsOrdered
    <3>3. CASE y = x
      <4>1. ~(At(ms, y) < At(ms, z))
        BY <1>2, <3>1, <3>3
      <4>2. PICK b \in QubitsOf[x] : b \in QubitsOf[z]
        BY <2>2, <3>3, KeylessClash
      <4>3. b \in CompQubits(e) /\ b \in CompQubits(d)
        BY <4>2, CompFacts
      <4>4. j <= k
        BY <3>1, <4>2, <4>3
      <4>5. j # k
        BY <1>1, <3>1, <4>3 DEF Parted, PartsApart
      <4>6. j \in Nat /\ k \in Nat
        BY <3>1 DEF Boards
      <4>. QED
        BY <4>1, <4>4, <4>5, <4>6
    <3>. QED
      BY <1>3, <3>2, <3>3
  <2>. QED
    BY <1>5, <1>7, <2>1, <2>2 DEF MayJoin
<1>10. Joining(cs2, c, k, r)
  <2>1. PICK S : S = (cs[k] \ {d}) \cup {c}
    OBVIOUS
  <2>2. DOMAIN cs = 1..Len(cs)
    BY <1>1 DEF Boards
  <2>3. r = [i \in DOMAIN cs |-> IF i = k THEN S ELSE cs[i]]
    <3>1. r = [cs EXCEPT ![k] = S]
      BY <1>3, <2>1 DEF Absorbed
    <3>2. cs = [i \in DOMAIN cs |-> cs[i]]
      BY <1>1 DEF Boards
    <3>. QED
      BY <3>1, <3>2
  <2>4. [cs2 EXCEPT ![k] = @ \cup {c}] = [i \in DOMAIN cs |-> IF i = k THEN S ELSE cs2[i]]
    <3>1. cs2[k] \cup {c} = S
      BY <1>7, <2>1
    <3>2. DOMAIN cs2 = DOMAIN cs
      BY <1>3
    <3>. QED
      BY <1>3, <3>1, <3>2
  <2>5. ASSUME NEW i \in 1..Len(cs), i # k PROVE cs2[i] = cs[i]
    <3>1. d \notin cs[i]
      <4>1. PICK b \in CompQubits(d) : TRUE
        OBVIOUS
      <4>2. d \cap d # {}
        BY <4>1, CompFacts
      <4>. QED
        BY <1>1, <2>5, <4>2 DEF Parted, PartsOnce
    <3>. QED
      BY <1>7, <3>1
  <2>. QED
    BY <2>2, <2>3, <2>4, <2>5 DEF Joining
<1>11. Parted(ms, r, E \cup c, can) /\ HasJoined(cs2, c, k, r)
  BY <1>5, <1>6, <1>9, <1>10, PartedMore
<1>12. Topped(ms, r, n)
  <2>1. n \in 1..Len(ms) /\ Len(cs) = n /\ \A e \in cs[n] : Over(ms, e, n)
    BY <1>1 DEF Topped
  <2>2. Len(r) = n /\ n \in 1..Len(cs)
    BY <1>7, <1>11, <2>1 DEF HasJoined
  <2>3. r[n] = IF n = k THEN cs2[n] \cup {c} ELSE cs2[n]
    BY <1>7, <1>11, <2>2 DEF HasJoined
  <2>4. cs2[n] \subseteq cs[n]
    BY <1>7, <2>2
  <2>5. n = k => Over(ms, c, n)
    BY <1>3, <1>8, <2>1 DEF Over
  <2>. QED
    BY <2>1, <2>2, <2>3, <2>4, <2>5 DEF Topped
<1>. QED
  BY <1>5, <1>11, <1>12 DEF MergedTo

\* A component among finitely many.
LEMMA OneComponent ==
    ASSUME NEW left \in SUBSET SUBSET Ops, Cardinality(left) = 1
    PROVE  \E d : left = {d}
<1>1. IsFiniteSet(left)
  <2>1. IsFiniteSet(SUBSET Ops)
    BY OperationsAssumption, FS_SUBSET
  <2>. QED
    BY <2>1, FS_Subset
<1>. QED
  BY <1>1, FS_Singleton

\* One operation.
LEMMA MergeOpFacts ==
    ASSUME NEW ms, Circ(ms), NEW can, Keyless(can), NEW n, NEW cs, NEW D, MergedTo(ms, cs, D, can, n),
           NEW x, Turn(ms, D, n, x), NEW r, r = MergeOp(cs, x, can)
    PROVE  MergedTo(ms, r, D \cup {x}, can, n)
<1>1. Parted(ms, cs, D, can) /\ Topped(ms, cs, n) /\ cs \in Boards /\ Len(cs) = n
  BY DEF MergedTo, Parted, Topped
<1>2. PICK left, c : left = Mergeable(cs, {x}, QubitsOf[x]) /\ c = {x} \cup UNION left
  OBVIOUS
<1>3. PICK k : k = CHOOSE i \in DOMAIN cs : left \subseteq cs[i]
  OBVIOUS
<1>4. PICK one : one = (Cardinality(left) = 1 /\ QubitsOf[x] \subseteq CompQubits(UNION left))
  OBVIOUS
<1>5. PICK alone, all, run : /\ alone = [cs EXCEPT ![n] = @ \cup {{x}}]
                             /\ all = [cs EXCEPT ![k] = (@ \ left) \cup {c}]
                             /\ run = AddMerged(MergeRight(cs, {x}, can))
  OBVIOUS
<1>6. r = IF x \notin can THEN alone
          ELSE IF Cardinality(left) = 1 /\ QubitsOf[x] \subseteq CompQubits(UNION left)
          THEN IF UNION left \subseteq can THEN all ELSE alone
          ELSE run
  BY <1>1, <1>2, <1>3, <1>5 DEF MergeOp
<1>7. r = alone \/ (r = run /\ x \in can)
      \/ /\ r = all /\ x \in can /\ Cardinality(left) = 1 /\ QubitsOf[x] \subseteq CompQubits(UNION left)
         /\ UNION left \subseteq can
  BY <1>6
<1>8. CASE r = alone
  BY <1>5, <1>8, AloneAtTop DEF Joining
<1>9. CASE r = run /\ x \in can
  <2>1. PICK s : s = MergeRight(cs, {x}, can)
    OBVIOUS
  <2>2. Merging(ms, s, D, can, x, n)
    BY <1>9, <2>1, MergeRightFacts
  <2>3. PICK cs2, c2 : cs2 = s.cs /\ c2 = s.c
    OBVIOUS
  <2>4. /\ c2 \in SUBSET Ops /\ x \in c2 /\ c2 \subseteq can /\ c2 \subseteq D \cup {x}
        /\ CompQubits(c2) \subseteq QubitsOf[x] /\ MergedTo(ms, cs2, D \ c2, can, n) /\ Heads(ms, c2, D \ c2)
    BY <2>2, <2>3 DEF Merging, MergedTo
  <2>5. Joining(cs2, c2, n, r)
    <3>1. Len(cs2) = n
      BY <2>4 DEF MergedTo, Topped
    <3>. QED
      BY <1>5, <1>9, <2>1, <2>3, <3>1 DEF AddMerged, Joining
  <2>. QED
    BY <2>4, <2>5, MergedAtTop
<1>10. CASE /\ r = all /\ x \in can /\ Cardinality(left) = 1 /\ QubitsOf[x] \subseteq CompQubits(UNION left)
            /\ UNION left \subseteq can
  <2>1. PICK h \in Nat :
           /\ left # {} => h \in 1..Len(cs)
           /\ h \in 1..Len(cs) => left = {e \in cs[h] : CompQubits(e) \cap QubitsOf[x] # {}}
           /\ \A j \in 1..Len(cs) : \A e \in cs[j] : CompQubits(e) \cap QubitsOf[x] # {} => j <= h
    <3>1. PICK own, qs : own = {x} /\ qs = QubitsOf[x]
      OBVIOUS
    <3>2. left = Mergeable(cs, own, qs)
      BY <1>2, <3>1
    <3>3. PICK h \in Nat :
             /\ left # {} => h \in 1..Len(cs)
             /\ h \in 1..Len(cs) => left = {e \in cs[h] : CompQubits(e) \cap qs # {}}
             /\ \A j \in 1..Len(cs) : \A e \in cs[j] : CompQubits(e) \cap qs # {} => j <= h
      BY <1>1, <3>2, MergeableFacts
    <3>. QED
      BY <3>1, <3>3
  <2>2. left \in SUBSET SUBSET Ops
    <3>1. CASE left = {}
      BY <3>1
    <3>2. CASE left # {}
      <4>1. h \in 1..Len(cs) /\ left \subseteq cs[h]
        BY <2>1, <3>2
      <4>. QED
        BY <1>1, <4>1 DEF Boards
    <3>. QED
      BY <3>1, <3>2
  <2>3. PICK d : left = {d}
    BY <1>10, <2>2, OneComponent
  <2>4. h \in 1..Len(cs) /\ d \in cs[h] /\ CompQubits(d) \cap QubitsOf[x] # {} /\ UNION left = d
    BY <2>1, <2>3
  <2>5. k = h
    <3>1. DOMAIN cs = 1..Len(cs)
      BY <1>1 DEF Boards
    <3>2. h \in DOMAIN cs /\ left \subseteq cs[h]
      BY <2>3, <2>4, <3>1
    <3>3. k \in 1..Len(cs) /\ d \in cs[k]
      BY <1>3, <2>3, <3>1, <3>2
    <3>4. d \cap d # {}
      BY <2>4, CompFacts
    <3>. QED
      BY <1>1, <2>4, <3>3, <3>4 DEF Parted, PartsOnce
  <2>6. Absorbed(cs, r, d, h, x)
    BY <1>2, <1>5, <1>10, <2>3, <2>4, <2>5 DEF Absorbed
  <2>7. QubitsOf[x] \subseteq CompQubits(d) /\ d \subseteq can /\ x \in can
    BY <1>10, <2>4
  <2>. QED
    BY <2>1, <2>4, <2>6, <2>7, MergedIntoOne
<1>. QED
  BY <1>7, <1>8, <1>9, <1>10

\* A moment without components, yet, at the end.
LEMMA MergeStart ==
    ASSUME NEW ms, NEW can, NEW cs, NEW D, Parted(ms, cs, D, can), NEW n \in 1..Len(ms), Len(cs) = n - 1, n \in Nat,
           NEW r, r = Append(cs, {})
    PROVE  MergedTo(ms, r, D, can, n)
<1>1. PICK T : T = SUBSET SUBSET Ops
  OBVIOUS
<1>2. cs \in Seq(T) /\ {} \in T
  BY <1>1 DEF Parted, Boards
<1>3. /\ r \in Seq(T) /\ Len(r) = n /\ \A i \in 1..n : i # n => i \in 1..Len(cs) /\ r[i] = cs[i]
      /\ r[n] = {} /\ \A i \in 1..Len(cs) : i \in 1..n /\ r[i] = cs[i]
  BY <1>2
<1>4. \A i \in 1..n : \A d \in r[i] : i \in 1..Len(cs) /\ d \in cs[i]
  BY <1>3
<1>5. PICK R : R = 1..Len(r)
  OBVIOUS
<1>6. R = 1..n
  BY <1>3, <1>5
<1>7. \A j \in R : \A d \in r[j] : d \subseteq D /\ (d \subseteq can \/ \E x \in d : d = {x})
  BY <1>4, <1>6 DEF Parted, PartsOf
<1>8. \A x \in D : \E j \in R : \E d \in r[j] : x \in d
  <2>1. ASSUME NEW x \in D PROVE \E j \in R : \E d \in r[j] : x \in d
    <3>1. PICK j \in 1..Len(cs) : \E d \in cs[j] : x \in d
      BY DEF Parted, PartsCover
    <3>. QED
      BY <1>3, <1>6, <3>1
  <2>. QED
    BY <2>1
<1>9. \A j, k \in R : \A d \in r[j], e \in r[k] : d \cap e # {} => j = k /\ d = e
  BY <1>4, <1>6 DEF Parted, PartsOnce
<1>10. \A j \in R : \A d, e \in r[j] : d # e => CompQubits(d) \cap CompQubits(e) = {}
  BY <1>4, <1>6 DEF Parted, PartsApart
<1>11. \A j, k \in R : \A d \in r[j], e \in r[k] : \A x \in d, y \in e :
          Clash(x, y) /\ At(ms, x) < At(ms, y) => d = e \/ j < k
  BY <1>4, <1>6 DEF Parted, PartsOrdered
<1>12. r \in Boards
  BY <1>1, <1>3 DEF Boards
<1>13. Parted(ms, r, D, can)
  <2>1. PartsOf(r, D, can)
    BY <1>5, <1>7 DEF PartsOf
  <2>2. PartsCover(r, D)
    BY <1>5, <1>8 DEF PartsCover
  <2>3. PartsOnce(r)
    BY <1>5, <1>9 DEF PartsOnce
  <2>4. PartsApart(r)
    BY <1>5, <1>10 DEF PartsApart
  <2>5. PartsOrdered(ms, r)
    BY <1>5, <1>11 DEF PartsOrdered
  <2>. QED
    BY <1>12, <2>1, <2>2, <2>3, <2>4, <2>5 DEF Parted
<1>14. Topped(ms, r, n)
  BY <1>3 DEF Topped
<1>. QED
  BY <1>13, <1>14 DEF MergedTo

\* The components of the first n moments.
MergedMoments(ms, cs, can, n) == Parted(ms, cs, Before(ms, n), can) /\ Len(cs) = n

\* One moment.
LEMMA MergeMomentFacts ==
    ASSUME NEW ms, Circ(ms), NEW can, Keyless(can), NEW j \in 1..Len(ms), NEW cs, MergedMoments(ms, cs, can, j - 1),
           NEW r, r = MergeMoment(cs, ms[j], can)
    PROVE  MergedMoments(ms, r, can, j)
<1>1. PICK m, D : m = ms[j] /\ D = Before(ms, j - 1)
  OBVIOUS
<1>2. m \in SUBSET Ops /\ Before(ms, j) = D \cup m /\ j \in Nat
  BY <1>1, BeforeFacts, AtFacts
<1>3. PICK N : N = Len(Visited(m))
  OBVIOUS
<1>4. /\ N \in Nat /\ Visiting(m, 0) = {} /\ Visiting(m, N) = m
      /\ \A i \in 1..N : Visiting(m, i) = Visiting(m, i - 1) \cup {Visited(m)[i]}
  BY <1>2, <1>3, VisitingFacts
<1>5. PICK Good : Good = [i \in 0..N |-> {e \in Boards : MergedTo(ms, e, D \cup Visiting(m, i), can, j)}]
  OBVIOUS
<1>6. Append(cs, {}) \in Good[0]
  <2>1. PICK s : s = Append(cs, {})
    OBVIOUS
  <2>2. Parted(ms, cs, D, can) /\ Len(cs) = j - 1
    BY <1>1 DEF MergedMoments
  <2>3. MergedTo(ms, s, D, can, j)
    BY <1>2, <2>1, <2>2, MergeStart
  <2>4. D \cup Visiting(m, 0) = D /\ s \in Boards /\ 0 \in 0..N
    BY <1>4, <2>3 DEF MergedTo, Parted
  <2>5. s \in Good[0]
    BY <1>5, <2>3, <2>4
  <2>. QED
    BY <2>1, <2>5
<1>7. ASSUME NEW i \in 1..N, NEW e \in Good[i - 1] PROVE MergeOp(e, Visited(m)[i], can) \in Good[i]
  <2>1. i - 1 \in 0..N /\ i \in 0..N
    BY <1>4
  <2>2. PICK x, V : x = Visited(m)[i] /\ V = D \cup Visiting(m, i - 1)
    OBVIOUS
  <2>3. MergedTo(ms, e, V, can, j)
    BY <1>5, <2>1, <2>2
  <2>4. Turn(ms, V, j, x)
    BY <1>1, <1>3, <2>2, TurnComes
  <2>5. PICK r2 : r2 = MergeOp(e, x, can)
    OBVIOUS
  <2>6. MergedTo(ms, r2, V \cup {x}, can, j)
    BY <2>3, <2>4, <2>5, MergeOpFacts
  <2>7. V \cup {x} = D \cup Visiting(m, i)
    BY <1>4, <2>2
  <2>8. r2 \in Boards
    BY <2>6 DEF MergedTo, Parted
  <2>. QED
    BY <1>5, <2>1, <2>2, <2>5, <2>6, <2>7, <2>8
<1>8. r \in Good[N]
  BY <1>1, <1>3, <1>4, <1>6, <1>7, MergeMomentStays
<1>9. MergedTo(ms, r, D \cup m, can, j)
  <2>1. N \in 0..N
    BY <1>4
  <2>2. MergedTo(ms, r, D \cup Visiting(m, N), can, j)
    BY <1>5, <1>8, <2>1
  <2>. QED
    BY <1>4, <2>2
<1>. QED
  BY <1>2, <1>9 DEF MergedTo, Topped, MergedMoments

\* All moments.
LEMMA MergeFacts ==
    ASSUME NEW ms, Circ(ms), NEW can, Keyless(can), NEW r, r = Merge(ms, can)
    PROVE  Parted(ms, r, OpsIn(ms), can)
<1>1. PICK N \in Nat : N = Len(ms)
  BY AtFacts
<1>2. PICK Good : Good = [i \in 0..N |-> {e \in Boards : MergedMoments(ms, e, can, i)}]
  OBVIOUS
<1>3. <<>> \in Good[0]
  <2>1. <<>> \in Boards /\ Len(<<>>) = 0 /\ 1..0 = {}
    BY DEF Boards
  <2>2. Before(ms, 0) = {}
    BY BeforeFacts
  <2>3. Parted(ms, <<>>, {}, can)
    BY <2>1 DEF Parted, PartsOf, PartsCover, PartsOnce, PartsApart, PartsOrdered
  <2>4. MergedMoments(ms, <<>>, can, 0)
    BY <2>1, <2>2, <2>3 DEF MergedMoments
  <2>. QED
    BY <1>1, <1>2, <2>1, <2>4
<1>4. ASSUME NEW i \in 1..N, NEW e \in Good[i - 1] PROVE MergeMoment(e, ms[i], can) \in Good[i]
  <2>1. i - 1 \in 0..N /\ i \in 0..N /\ i \in 1..Len(ms)
    BY <1>1
  <2>2. MergedMoments(ms, e, can, i - 1)
    BY <1>2, <2>1
  <2>3. PICK s : s = MergeMoment(e, ms[i], can)
    OBVIOUS
  <2>4. MergedMoments(ms, s, can, i)
    BY <2>1, <2>2, <2>3, MergeMomentFacts
  <2>5. s \in Boards
    BY <2>4 DEF MergedMoments, Parted
  <2>. QED
    BY <1>2, <2>1, <2>3, <2>4, <2>5
<1>5. r \in Good[N]
  BY <1>1, <1>3, <1>4, MergeStays
<1>6. Before(ms, N) = OpsIn(ms)
  BY <1>1, BeforeFacts
<1>. QED
  BY <1>1, <1>2, <1>5, <1>6 DEF MergedMoments

\* Components that are as they should be keep the order.
LEMMA PartedKeeps ==
    ASSUME NEW cs, NEW can, Parted(moments, cs, OpsIn(moments), can)
    PROVE  ComponentsKeepOrder(cs)
<1>1. PICK S : S = OpsIn(moments)
  OBVIOUS
<1>2. DOMAIN cs = 1..Len(cs)
  BY DEF Parted, Boards
<1>3. \A x \in S : \E i \in DOMAIN cs : \E d \in cs[i] : x \in d
  BY <1>1, <1>2 DEF Parted, PartsCover
<1>4. \A i, j \in DOMAIN cs : \A d \in cs[i], e \in cs[j] : \A x : x \in d /\ x \in e => i = j /\ d = e
  <2>1. ASSUME NEW i \in 1..Len(cs), NEW j \in 1..Len(cs), NEW d \in cs[i], NEW e \in cs[j], NEW x, x \in d, x \in e
        PROVE  i = j /\ d = e
    <3>1. d \cap e # {}
      BY <2>1
    <3>. QED
      BY <2>1, <3>1 DEF Parted, PartsOnce
  <2>. QED
    BY <1>2, <2>1
<1>5. ASSUME NEW x \in S PROVE Cardinality({n \in DOMAIN cs : \E d \in cs[n] : x \in d}) = 1
  <2>1. PICK i \in DOMAIN cs : \E d \in cs[i] : x \in d
    BY <1>3
  <2>2. {n \in DOMAIN cs : \E d \in cs[n] : x \in d} = {i}
    BY <1>4, <2>1
  <2>. QED
    BY <2>2, FS_Singleton
<1>6. \A n \in DOMAIN cs : \A d, e \in cs[n] : d # e => CompQubits(d) \cap CompQubits(e) = {}
  BY <1>2 DEF Parted, PartsApart
<1>7. PICK place : place = [x \in S |-> CHOOSE n \in DOMAIN cs : \E d \in cs[n] : x \in d]
  OBVIOUS
<1>8. \A x \in S : place[x] \in DOMAIN cs /\ \E d \in cs[place[x]] : x \in d
  BY <1>3, <1>7
<1>9. ASSUME NEW x \in S, NEW y \in S, Clash(x, y), At(moments, x) < At(moments, y)
      PROVE  (\E d \in cs[place[x]] : x \in d /\ y \in d) \/ place[x] < place[y]
  <2>1. PICK d \in cs[place[x]] : x \in d
    BY <1>8
  <2>2. PICK e \in cs[place[y]] : y \in e
    BY <1>8
  <2>3. d = e \/ place[x] < place[y]
    BY <1>2, <1>8, <1>9, <2>1, <2>2 DEF Parted, PartsOrdered
  <2>. QED
    BY <2>1, <2>2, <2>3
<1>10. \A x, y \in S : Clash(x, y) /\ At(moments, x) < At(moments, y) =>
          LET Place(z) == CHOOSE n \in DOMAIN cs : \E d \in cs[n] : z \in d
          IN  (\E d \in cs[Place(x)] : x \in d /\ y \in d) \/ Place(x) < Place(y)
  BY <1>7, <1>9
<1>. QED
  BY <1>1, <1>5, <1>6, <1>10 DEF ComponentsKeepOrder

\* Merging keeps the order.
LEMMA SoundMerge ==
    ASSUME CircuitInv, NEW ignored
    PROVE  MergeKeepsOrder(ignored)
<1>1. Circ(moments)
  BY DEF CircuitInv
<1>2. PICK can : can = {x \in Ops \ ignored : MKeysOf[x] \cup CKeysOf[x] = {}}
  OBVIOUS
<1>3. Keyless(can)
  BY <1>2 DEF Keyless
<1>4. PICK cs : cs = Merge(moments, can)
  OBVIOUS
<1>5. Parted(moments, cs, OpsIn(moments), can)
  BY <1>1, <1>3, <1>4, MergeFacts
<1>6. ComponentsKeepOrder(cs)
  BY <1>5, PartedKeeps
<1>. QED
  BY <1>2, <1>4, <1>6 DEF MergeKeepsOrder

----------------------------------------------------------------------------
(* The theorem *)

\* A circuit that is as it should be is repacked in order.
LEMMA SoundRepacking == CircuitInv => RepackingKeepsOrder
<1>1. SUFFICES ASSUME CircuitInv, Settled, NEW ignored \in SUBSET OpsIn(moments)
               PROVE  /\ AlignKeepsOrder(ignored) /\ StratifyKeepsOrder(ignored)
                      /\ MergeKeepsOrder(ignored) /\ SynchronizeKeepsOrder(ignored)
  BY DEF RepackingKeepsOrder
<1>2. Peaceful(moments) /\ OneReader(moments)
  BY <1>1 DEF Settled, Peaceful, OneReader
<1>3. AlignKeepsOrder(ignored)
  BY <1>1, <1>2, SoundAlign
<1>4. StratifyKeepsOrder(ignored)
  BY <1>1, <1>2, SoundStratify
<1>5. MergeKeepsOrder(ignored)
  BY <1>1, SoundMerge
<1>6. SynchronizeKeepsOrder(ignored)
  BY <1>1, SoundSynchronize
<1>. QED
  BY <1>3, <1>4, <1>5, <1>6

\* However a circuit was edited: align_left(), align_right(), stratified_circuit(), the
\* merging of operations and synchronize_terminal_measurements() lose nothing, put no two
\* operations on one qubit of a moment, and let none pass one it does not commute with.
THEOREM RepackingIsOrdered == Spec => []RepackingKeepsOrder
<1>1. CircuitInv => RepackingKeepsOrder
  BY SoundRepacking
<1>. QED
  BY <1>1, CircuitStaysSound, PTL
=============================================================================
