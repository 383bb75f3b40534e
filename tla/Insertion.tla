----------------------------- MODULE Insertion -----------------------------
(***************************************************************************)
(* Circuit.insert() with its five strategies, insert_into_range(),         *)
(* insert_at_frontier() and batch_insert() of cirq/circuits/circuit.py, as *)
(* functions of the moments.                                               *)
(*                                                                         *)
(* What is inserted is a sequence of elements, each an operation or a whole*)
(* moment.  A call in progress is a record: the moments ms, the insertion  *)
(* point k (the number of moments before it), the strategy, which          *)
(* NEW_THEN_INLINE changes on the way, the number top of the last moment   *)
(* touched, the placement cache, and whether an overlap ended the call.    *)
(***************************************************************************)
EXTENDS Placement, SequencesExt

Strategies == {"NEW", "NEW_THEN_INLINE", "INLINE", "EARLIEST", "LATEST"}

Op(x) == [whole |-> FALSE, op |-> x]
Whole(m) == [whole |-> TRUE, ops |-> m]
OpsOf(e) == IF e.whole THEN e.ops ELSE {e.op}

Greater(i, j) == IF i > j THEN i ELSE j

Start(ms, k, strategy, cache) ==
    [ms |-> ms, k |-> k, strategy |-> strategy, top |-> 0, cache |-> cache, raised |-> FALSE]

----------------------------------------------------------------------------
\* Pieces of insert().

\* limit index to 0..len(self._moments), also deal with indices smaller 0
InsertIndex(i, len) == Greater(0, IF i >= 0 THEN (IF i > len THEN len ELSE i) ELSE len + i)

\* _can_add_op_at(), for moment number n; any operation can go outside.
CanAdd(ms, n, x) == n \in 1 .. Len(ms) => ~Blocks(ms[n], x)

\* Mutant: batches are formed by qubits alone.
MutGroupByQubits(bs, e) ==
    IF bs # <<>> /\ ~e.whole /\ ~Last(bs)[1].whole
         /\ ~Overlaps(UNION {OpsOf(f) : f \in ToSet(Last(bs))}, e.op)
    THEN [bs EXCEPT ![Len(bs)] = Append(@, e)]
    ELSE Append(bs, <<e>>)

\* One more element: an operation that fits in the moment of the last batch joins it.
AddToBatches(bs, e) ==
    IF bs # <<>> /\ ~e.whole /\ ~Last(bs)[1].whole
         /\ ~Blocks(UNION {OpsOf(f) : f \in ToSet(Last(bs))}, e.op)
    THEN [bs EXCEPT ![Len(bs)] = Append(@, e)]
    ELSE Append(bs, <<e>>)

\* _group_into_moment_compatible(): consecutive operations that fit in one moment
\* form a batch, a whole moment is a batch of its own.
Group(es) ==
    LET batches[n \in 0 .. Len(es)] ==
            IF n = 0 THEN <<>> ELSE AddToBatches(batches[n - 1], es[n])
    IN  batches[Len(es)]

\* Put x into moment number n, a new one at the end if there is none;
\* with_operation() raises on an overlap.
Put(c, n, x) ==
    IF n = Len(c.ms) + 1 THEN [c EXCEPT !.ms = Append(@, {x})]
    ELSE IF Overlaps(c.ms[n], x) THEN [c EXCEPT !.raised = TRUE]
    ELSE [c EXCEPT !.ms[n] = @ \cup {x}]

\* The body of the inner loop: one element of a batch.
InsertElement(c, e) ==
    LET fresh == ~c.cache.on /\ ~e.whole /\ c.strategy \in {"NEW", "NEW_THEN_INLINE"}
        n == IF c.cache.on
             THEN 1 + (IF e.whole THEN c.cache.len ELSE LastConflict(c.cache, e.op))
             ELSE IF e.whole \/ fresh THEN c.k + 1
             ELSE IF c.strategy = "INLINE" THEN c.k
             ELSE EarliestAvailable(c.ms, e.op, c.k) + 1
        c1 == [c EXCEPT !.cache = IF @.on THEN Record(@, OpsOf(e), n) ELSE @,
                        !.ms = IF e.whole THEN InsertAt(@, n, e.ops)
                               ELSE IF fresh THEN InsertAt(@, n, {}) ELSE @]
        c2 == IF e.whole THEN c1 ELSE Put(c1, n, e.op)
    IN  IF c.raised THEN c
        ELSE [c2 EXCEPT !.top = Greater(n, @),
                        !.strategy = IF @ = "NEW_THEN_INLINE" THEN "INLINE" ELSE @,
                        !.k = IF c.strategy = "NEW_THEN_INLINE" THEN @ + 1 ELSE @]

\* The inner loop.
InsertElements(c, b) ==
    LET after[n \in 0 .. Len(b)] == IF n = 0 THEN c ELSE InsertElement(after[n - 1], b[n])
    IN  after[Len(b)]

\* Some operation of the batch fits neither at the insertion point (EARLIEST
\* only) nor in the moment before it.
NeedsMoment(c, b) ==
    /\ ~c.cache.on
    /\ ~b[1].whole
    /\ c.strategy \in {"INLINE", "EARLIEST"}
    /\ \E e \in ToSet(b) :
          /\ c.strategy = "EARLIEST" => ~CanAdd(c.ms, c.k + 1, e.op)
          /\ c.k = 0 \/ ~CanAdd(c.ms, c.k, e.op)

\* The end of a batch.
Finished(c) == [c EXCEPT !.k = Greater(@, c.top)]

\* The body of the outer loop.
InsertBatch(c, b) ==
    LET c1 == IF ~NeedsMoment(c, b) THEN c
              ELSE [c EXCEPT !.ms = InsertAt(@, c.k + 1, {}),
                             !.k = IF c.strategy = "INLINE" THEN @ + 1 ELSE @]
    IN  IF c.raised THEN c ELSE Finished(InsertElements([c1 EXCEPT !.top = 1], b))

\* The outer loop.
InsertAll(c, bs) ==
    LET after[n \in 0 .. Len(bs)] == IF n = 0 THEN c ELSE InsertBatch(after[n - 1], bs[n])
    IN  after[Len(bs)]

\* _latest_available_moment(), as a moment number: the one before the first
\* blocking moment after the insertion point.
LatestAvailable(ms, x, k) ==
    IF k = Len(ms) THEN k + 1
    ELSE Min({Len(ms) + 1} \cup {n \in k + 1 .. Len(ms) : Blocks(ms[n], x)}) - 1

\* Mutant: the returned index forgets that a new moment moves the later ones.
MutLatestForgetsShift(c, e) ==
    LET n == LatestAvailable(c.ms, e.op, c.k) IN
    IF c.raised THEN c
    ELSE IF e.whole \/ n <= c.k
    THEN [c EXCEPT !.ms = InsertAt(@, c.k + 1, OpsOf(e)), !.top = Greater(c.k + 1, @)]
    ELSE [Put(c, n, e.op) EXCEPT !.top = Greater(n, @)]

\* _insert_latest(): one element.
InsertLatest(c, e) ==
    LET n == LatestAvailable(c.ms, e.op, c.k) IN
    IF c.raised THEN c
    ELSE IF e.whole \/ n <= c.k
    THEN [c EXCEPT !.ms = InsertAt(@, c.k + 1, OpsOf(e)), !.top = Greater(c.k + 1, @ + 1)]
    ELSE [Put(c, n, e.op) EXCEPT !.top = Greater(n, @)]

\* Its loops: the batches from the last to the first, each in the given order.
InsertBatchLatest(c, b) ==
    LET after[n \in 0 .. Len(b)] == IF n = 0 THEN c ELSE InsertLatest(after[n - 1], b[n])
    IN  after[Len(b)]
InsertAllLatest(c, bs) ==
    LET after[n \in 0 .. Len(bs)] ==
            IF n = 0 THEN c ELSE InsertBatchLatest(after[n - 1], bs[Len(bs) - n + 1])
    IN  after[Len(bs)]

\* Its result: the index is as it was if nothing was inserted.
LatestDone(c, k) == [c EXCEPT !.k = IF c.top = 0 THEN k ELSE c.top]

----------------------------------------------------------------------------
\* Mutant: the cache survives whenever the insertion is at the end.
MutCacheAnyStrategy(ms, cache, k, strategy) == IF k # Len(ms) THEN NoCache ELSE cache

\* The cache is good for appending with EARLIEST only.
KeptCache(ms, cache, k, strategy) ==
    IF strategy # "EARLIEST" \/ k # Len(ms) THEN NoCache ELSE cache

\* insert(), at insertion point k.  The result's k is the returned index.
Insert(ms, cache, k, es, strategy) ==
    LET c == Start(ms, k, strategy, KeptCache(ms, cache, k, strategy))
        batches == IF c.cache.on THEN <<es>>
                   ELSE IF strategy = "NEW" THEN [i \in DOMAIN es |-> <<es[i]>>]
                   ELSE Group(es)
    IN  IF strategy = "LATEST" THEN LatestDone(InsertAllLatest(c, batches), k)
        ELSE InsertAll(c, batches)

\* Mutant: the constructor takes an operation's place from the qubits only.
MutPlaceByQubits(c, e) ==
    LET n == 1 + (IF e.whole THEN c.cache.len
                  ELSE Max({0} \cup {c.cache.q[b] : b \in QubitsOf[e.op]})) IN
    [cache |-> Record(c.cache, OpsOf(e), n), at |-> Append(c.at, n)]

\* _load_contents_with_earliest_strategy(): the place of one element.
FindPlace(c, e) ==
    LET n == 1 + (IF e.whole THEN c.cache.len ELSE LastConflict(c.cache, e.op)) IN
    [cache |-> Record(c.cache, OpsOf(e), n), at |-> Append(c.at, n)]

\* The places of all elements.
Places(es) ==
    LET found[n \in 0 .. Len(es)] ==
            IF n = 0 THEN [cache |-> EmptyCache, at |-> <<>>] ELSE FindPlace(found[n - 1], es[n])
    IN  found[Len(es)]

\* Circuit(*contents) with EARLIEST: moments are kept as they are; otherwise the
\* moments are made once the place of everything is found.
Load(es) ==
    LET c == Places(es)
    IN  [ms |-> [n \in 1 .. c.cache.len |-> UNION {OpsOf(es[i]) : i \in {j \in DOMAIN es : c.at[j] = n}}],
         cache |-> IF \A i \in DOMAIN es : es[i].whole THEN NoCache ELSE c.cache]

\* insert_into_range(): one operation of the forward pass, which looks at qubits only.
FillNext(c, x, end) ==
    LET free == {n \in c.k + 1 .. end : ~Overlaps(c.ms[n], x)} IN
    IF c.rest # <<>> \/ free = {} THEN [c EXCEPT !.rest = Append(@, Op(x)), !.k = end]
    ELSE [c EXCEPT !.k = Min(free) - 1, !.ms[Min(free)] = @ \cup {x}]

\* Fill the moments start+1 .. end.
FillRange(ms, xs, start, end) ==
    LET filled[n \in 0 .. Len(xs)] ==
            IF n = 0 THEN [ms |-> ms, k |-> start, rest |-> <<>>] ELSE FillNext(filled[n - 1], xs[n], end)
    IN  filled[Len(xs)]

\* insert_into_range(): fill the range, then insert the rest at its end.
InsertIntoRange(ms, xs, start, end) ==
    LET c == FillRange(ms, xs, start, end)
    IN  IF c.rest = <<>> THEN Start(c.ms, end, "EARLIEST", NoCache)
        ELSE Insert(c.ms, NoCache, end, c.rest, "EARLIEST")

----------------------------------------------------------------------------
\* insert_at_frontier().  A frontier maps qubits to indices.

\* One operation, as early as start and the frontier allow.
PickIndex(c, x, start) ==
    LET i == Max({start} \cup {c.frontier[b] : b \in QubitsOf[x]}) IN
    [at |-> Append(c.at, i),
     frontier |-> [b \in Qubits |-> IF b \in QubitsOf[x] THEN Greater(c.frontier[b], i + 1)
                                    ELSE c.frontier[b]]]

\* _pick_inserted_ops_moment_indices(): the operations one by one; at[i] is the index
\* of the i-th.
PickIndices(xs, start, frontier) ==
    LET picked[n \in 0 .. Len(xs)] ==
            IF n = 0 THEN [at |-> <<>>, frontier |-> frontier] ELSE PickIndex(picked[n - 1], xs[n], start)
    IN  picked[Len(xs)]

\* next_moments_operating_on()
NextOn(ms, b, start) ==
    Min({Len(ms)} \cup {i \in start .. Len(ms) - 1 : b \in MomentQubits(ms[i + 1])})

Empties(n) == [i \in 1 .. n |-> {}]

\* Mutant: the room is made before the last of the moments that follow.
MutPushFrontierAtLast(ms, early, late) ==
    LET n == Max({0} \cup {early[b] - late[b] : b \in DOMAIN late})
        at == Max({late[b] : b \in DOMAIN late})
    IN  IF n = 0 THEN [ms |-> ms, frontier |-> early]
        ELSE [ms |-> SubSeq(ms, 1, at) \o Empties(n) \o SubSeq(ms, at + 1, Len(ms)),
              frontier |-> [b \in Qubits |-> IF b \notin DOMAIN late /\ early[b] > at
                                             THEN early[b] + n ELSE early[b]]]

\* _push_frontier(): make room between the inserted operations and what follows.
PushFrontier(ms, early, late) ==
    LET n == Max({0} \cup {early[b] - late[b] : b \in DOMAIN late})
        at == Min({late[b] : b \in DOMAIN late})
    IN  IF n = 0 THEN [ms |-> ms, frontier |-> early]
        ELSE [ms |-> SubSeq(ms, 1, at) \o Empties(n) \o SubSeq(ms, at + 1, Len(ms)),
              frontier |-> [b \in Qubits |-> IF b \notin DOMAIN late /\ early[b] > at
                                             THEN early[b] + n ELSE early[b]]]

\* _insert_operations(): xs[i] goes to index at[i], with empty moments at the end where
\* there are too few.
InsertOperations(ms, xs, at) ==
    LET long == ms \o Empties(1 + Max(ToSet(at)) - Len(ms))
        put[n \in 0 .. Len(xs)] ==
            IF n = 0 THEN Start(long, 0, "INLINE", NoCache) ELSE Put(put[n - 1], at[n] + 1, xs[n])
    IN  put[Len(xs)]

\* insert_at_frontier(), for a frontier not after start.
InsertAtFrontier(ms, xs, start, frontier) ==
    LET late == [b \in UNION {QubitsOf[x] : x \in ToSet(xs)} |-> NextOn(ms, b, start)]
        picked == PickIndices(xs, start, frontier)
        room == PushFrontier(ms, picked.frontier, late)
        c == InsertOperations(room.ms, xs, picked.at)
    IN  [ms |-> c.ms, raised |-> c.raised, frontier |-> room.frontier]

----------------------------------------------------------------------------
\* batch_insert(): one insertion, shifted by what the earlier ones report to have
\* inserted; r is what it gives, k where it was asked for.
AfterInsertion(c, k, r) ==
    [ms |-> r.ms, raised |-> c.raised \/ r.raised, shift |-> c.shift + Greater(0, r.k - k)]
InsertShifted(c, p) ==
    AfterInsertion(c, p.at + c.shift,
        Insert(c.ms, NoCache, InsertIndex(p.at + c.shift, Len(c.ms)), p.es, "EARLIEST"))

\* Insertions at increasing points of the original circuit.
BatchInsert(ms, ins) ==
    LET done[n \in 0 .. Len(ins)] ==
            IF n = 0 THEN [ms |-> ms, raised |-> FALSE, shift |-> 0]
            ELSE InsertShifted(done[n - 1], ins[n])
    IN  done[Len(ins)]
=============================================================================
