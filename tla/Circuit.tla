------------------------------ MODULE Circuit ------------------------------
(***************************************************************************)
(* A mutable circuit under every edit of cirq/circuits/circuit.py: its     *)
(* moments, the placement cache, and the properties it computes lazily and *)
(* forgets when it is mutated.  An operation occurs at most once in the    *)
(* circuit, so that its place can be followed from edit to edit.           *)
(***************************************************************************)
EXTENDS Repacking

CONSTANTS
    MaxMoments,     \* bound: length of the circuit
    MaxInsert       \* bound: elements of one call

ASSUME EditAssumption == MaxMoments \in Nat /\ MaxInsert \in Nat

VARIABLES
    moments,    \* _moments
    cache,      \* _placement_cache
    memo        \* _all_qubits, _frozen, ...: <<>>, or <<the moments they are of>>

vars == <<moments, cache, memo>>

OpsIn(ms) == UNION ToSet(ms)
Absent == Ops \ OpsIn(moments)

\* What a call may be given: operations that are not in the circuit, and at most
\* one whole moment of them.
OpSeqs(n) == {xs \in BoundedSeq(Absent, n) : \A i, j \in DOMAIN xs : i # j => xs[i] # xs[j]}
Wholes == {m \in Moments : m \subseteq Absent /\ m # {}}
Inputs ==
    {[i \in DOMAIN xs |-> Op(xs[i])] : xs \in OpSeqs(MaxInsert)} \cup
    {<<Whole(m)>> : m \in Wholes} \cup
    {<<Whole(m), Op(x)>> : m \in Wholes, x \in Absent} \cup
    {<<Op(x), Whole(m)>> : m \in Wholes, x \in Absent}
GivenOps(es) == UNION {OpsOf(e) : e \in ToSet(es)}
Proper(es) == \A i, j \in DOMAIN es : i # j => OpsOf(es[i]) \cap OpsOf(es[j]) = {}

Init ==
    /\ moments = <<>>
    /\ cache = EmptyCache
    /\ memo = <<>>

----------------------------------------------------------------------------
\* Edits.

\* The circuit changes, and _mutated() runs.
Changed(ms, c) ==
    /\ Len(ms) <= MaxMoments
    /\ moments' = ms
    /\ cache' = c
    /\ memo' = <<>>

\* freeze(), all_qubits(), _is_measurement_() ...: the first call computes.
ComputeMemo ==
    /\ memo = <<>>
    /\ memo' = <<moments>>
    /\ UNCHANGED <<moments, cache>>

\* Mutant: _insert_latest() does not call _mutated().
MutInsertLatestKeepsMemo(i, es, strategy) ==
    LET r == Insert(moments, cache, InsertIndex(i, Len(moments)), es, strategy) IN
    /\ Len(r.ms) <= MaxMoments
    /\ moments' = r.ms
    /\ cache' = r.cache
    /\ memo' = IF strategy = "LATEST" THEN memo ELSE <<>>

\* insert() and, at the end, append().  _insert_latest() mutates nothing if it
\* is given nothing.
InsertAny(i, es, strategy) ==
    LET r == Insert(moments, cache, InsertIndex(i, Len(moments)), es, strategy) IN
    /\ Len(r.ms) <= MaxMoments
    /\ moments' = r.ms
    /\ cache' = r.cache
    /\ memo' = IF strategy = "LATEST" /\ r.top = 0 THEN memo ELSE <<>>

\* insert_into_range() for a range within the circuit.
InsertRange(xs, start, end) ==
    Changed(InsertIntoRange(moments, xs, start, end).ms, NoCache)

\* insert_at_frontier() with a new frontier.
InsertFrontier(xs, start) ==
    Changed(InsertAtFrontier(moments, xs, start, [b \in Qubits |-> 0]).ms, NoCache)

\* batch_insert() at two points; it works on a copy.
InsertBatches(i, xs, j, ys) ==
    LET r == BatchInsert(moments, <<[at |-> i, es |-> xs], [at |-> j, es |-> ys]>>) IN
    /\ ~r.raised
    /\ Changed(r.ms, NoCache)

\* __setitem__(), __delitem__()
SetItem(n, m) == Changed([moments EXCEPT ![n] = m], NoCache)
DelItem(n) == Changed(RemoveAt(moments, n), NoCache)

\* clear_operations_touching()
ClearTouching(qs, ns) ==
    Changed([n \in DOMAIN moments |->
                IF n \in ns THEN {x \in moments[n] : QubitsOf[x] \cap qs = {}} ELSE moments[n]],
            NoCache)

\* batch_remove() of two operations: on a copy, so all or none.
BatchRemove(n1, x1, n2, x2) ==
    LET ms1 == [moments EXCEPT ![n1] = @ \ {x1}] IN
    /\ x1 \in moments[n1]
    /\ x2 \in ms1[n2]
    /\ Changed([ms1 EXCEPT ![n2] = @ \ {x2}], NoCache)

\* batch_replace() of one operation; Moment() raises if the new one overlaps.
BatchReplace(n, old, new) ==
    /\ old \in moments[n]
    /\ ~Overlaps(moments[n] \ {old}, new)
    /\ Changed([moments EXCEPT ![n] = (@ \ {old}) \cup {new}], NoCache)

\* Mutant: the second insertion is checked against the circuit before the first.
MutBatchInsertIntoChecksOld(n1, x1, n2, x2) ==
    LET ms1 == [moments EXCEPT ![n1] = @ \cup {x1}] IN
    /\ ~Overlaps(moments[n1], x1)
    /\ ~Overlaps(moments[n2], x2)
    /\ Changed([ms1 EXCEPT ![n2] = @ \cup {x2}], NoCache)

\* batch_insert_into() at two moments; with_operations() raises on an overlap.
BatchInsertInto(n1, x1, n2, x2) ==
    LET ms1 == [moments EXCEPT ![n1] = @ \cup {x1}] IN
    /\ ~Overlaps(moments[n1], x1)
    /\ ~Overlaps(ms1[n2], x2)
    /\ Changed([ms1 EXCEPT ![n2] = @ \cup {x2}], NoCache)

\* copy(): go on with the copy, which has no cache.
Copy ==
    /\ cache' = NoCache
    /\ memo' = <<>>
    /\ UNCHANGED moments

\* Circuit(*contents): go on with a new circuit.
NewCircuit(es) ==
    LET r == IF es = <<>> THEN [ms |-> <<>>, cache |-> EmptyCache] ELSE Load(es) IN
    Changed(r.ms, r.cache)

Next ==
    \/ ComputeMemo
    \/ \E es \in Inputs : Proper(es) /\ NewCircuit(es)
    \/ \E es \in Inputs, i \in -2 .. MaxMoments + 1, s \in Strategies :
          Proper(es) /\ InsertAny(i, es, s)
    \/ \E xs \in OpSeqs(MaxInsert), end \in 0 .. Len(moments) : \E start \in 0 .. end :
          xs # <<>> /\ (InsertRange(xs, start, end) \/ InsertFrontier(xs, end))
    \/ \E x, y \in Absent, i, j \in 0 .. Len(moments) :
          x # y /\ i < j /\ InsertBatches(i, <<Op(x)>>, j, <<Op(y)>>)
    \/ \E n \in DOMAIN moments :
          \/ DelItem(n)
          \/ \E m \in Wholes : SetItem(n, m)
          \/ \E b \in Qubits : ClearTouching({b}, {n})
          \/ \E old \in Ops, new \in Absent : BatchReplace(n, old, new)
    \/ \E n1, n2 \in DOMAIN moments, x1, x2 \in Ops :
          \/ BatchRemove(n1, x1, n2, x2)
          \/ {x1, x2} \subseteq Absent /\ x1 # x2 /\ BatchInsertInto(n1, x1, n2, x2)
    \/ Copy

Spec == Init /\ [][Next]_vars

----------------------------------------------------------------------------
\* Properties.

\* Well-formed state: at most one operation on a qubit in any moment, and no
\* operation twice.
TypeOK ==
    /\ \A n \in DOMAIN moments : moments[n] \subseteq Ops /\ IsMoment(moments[n])
    /\ \A n1, n2 \in DOMAIN moments : n1 # n2 => moments[n1] \cap moments[n2] = {}
    /\ cache.on \in BOOLEAN
    /\ Len(memo) <= 1

MemoFresh == memo # <<>> => memo[1] = moments

Plain == INSTANCE PlacementCache WITH raised <- FALSE

\* No edit leaves a circuit with anything it remembers of moments it no longer has:
\* what it computed lazily is about its moments, and a placement cache in use has
\* the last moment of every qubit and key.
CachesAreFresh == MemoFresh /\ Plain!CacheExact

Calls == [k : 0 .. Len(moments), es : {es \in Inputs : Proper(es)}, s : Strategies]
Result(c) == Insert(moments, cache, c.k, c.es, c.s)

At(ms, x) == CHOOSE n \in DOMAIN ms : x \in ms[n]
Clash(x, y) == Blocks({x}, y)

\* The operations that were there keep their relative places.
KeepsOld(ms, ms2) ==
    \A x, y \in OpsIn(ms) : At(ms, x) <= At(ms, y) <=> At(ms2, x) <= At(ms2, y)

\* What is inserted comes after everything before the insertion point that it
\* does not commute with, ...
FollowsEarlier(ms, k, new, ms2) ==
    \A x \in OpsIn(ms), y \in new :
        Clash(x, y) /\ At(ms, x) <= k => At(ms2, x) < At(ms2, y)

\* ... before everything after the insertion point, ...
PrecedesLater(ms, k, new, ms2) ==
    \A x \in OpsIn(ms), y \in new :
        Clash(x, y) /\ At(ms, x) > k => At(ms2, y) < At(ms2, x)

\* ... and in the given order.
InGivenOrder(es, ms2) ==
    \A i, j \in DOMAIN es : i < j =>
        \A x \in OpsOf(es[i]), y \in OpsOf(es[j]) : Clash(x, y) => At(ms2, x) < At(ms2, y)

\* insert() never meets an overlap, and loses and repeats nothing.  With any
\* strategy it changes the order of no two operations that were there, moves nothing
\* back over an operation it must follow, and keeps the given order; with all
\* strategies but EARLIEST it also stays before everything at or after the insertion
\* point.  It returns "the insertion index that will place operations just after the
\* operations that were inserted by this method", also when new moments move those
\* placed first.
InsertKeepsOrder ==
    \A c \in Calls : LET r == Result(c) IN
        /\ ~r.raised
        /\ OpsIn(r.ms) = OpsIn(moments) \cup GivenOps(c.es)
        /\ \A n \in DOMAIN r.ms : IsMoment(r.ms[n])
        /\ \A x \in GivenOps(c.es) : At(r.ms, x) <= r.k
        /\ KeepsOld(moments, r.ms)
        /\ FollowsEarlier(moments, c.k, GivenOps(c.es), r.ms)
        /\ InGivenOrder(c.es, r.ms)
        /\ c.s # "EARLIEST" => PrecedesLater(moments, c.k, GivenOps(c.es), r.ms)

\* The three ways to build a circuit agree: appending with the cache, in one batch,
\* does what appending does without it, batch by batch, and the constructor's fast
\* loading builds what appending to an empty circuit builds.
AppendsAgree ==
    \A es \in Inputs : es # <<>> /\ Proper(es) =>
        LET r == Insert(moments, cache, Len(moments), es, "EARLIEST")
            p == Insert(moments, NoCache, Len(moments), es, "EARLIEST")
        IN  /\ r.ms = p.ms /\ r.k = p.k
            /\ Load(es).ms = Insert(<<>>, NoCache, 0, es, "EARLIEST").ms

\* insert_at_frontier() finds room for everything, and on every qubit the inserted
\* operations follow what was before start, precede what was after, and keep the
\* given order.
FrontierKeepsOrder ==
    \A xs \in OpSeqs(MaxInsert) \ {<<>>}, k \in 0 .. Len(moments) :
        LET r == InsertAtFrontier(moments, xs, k, [b \in Qubits |-> 0])
            Shared(x, y) == QubitsOf[x] \cap QubitsOf[y] # {}
        IN  /\ ~r.raised
            /\ KeepsOld(moments, r.ms)
            /\ \A x \in OpsIn(moments), y \in ToSet(xs) : Shared(x, y) =>
                  (At(moments, x) <= k <=> At(r.ms, x) < At(r.ms, y))
            /\ \A i, j \in DOMAIN xs : i < j /\ Shared(xs[i], xs[j]) =>
                  At(r.ms, xs[i]) < At(r.ms, xs[j])

\* The circuits repacking is stated for: no moment holds both a measurement and an
\* operation that reads its key, and a key has at most one reader.
Settled ==
    /\ \A n \in DOMAIN moments : \A x, y \in moments[n] : x # y => ~Clash(x, y)
    /\ \A x, y \in OpsIn(moments) : x # y => CKeysOf[x] \cap CKeysOf[y] = {}

\* ms2 holds what is in the circuit, in moments, and no operation passes one it does
\* not commute with.
KeepsOrder(ms2) ==
    /\ OpsIn(ms2) = OpsIn(moments)
    /\ \A n \in DOMAIN ms2 : IsMoment(ms2[n])
    /\ \A x, y \in OpsIn(moments) :
          Clash(x, y) /\ At(moments, x) < At(moments, y) => At(ms2, x) < At(ms2, y)

\* Aligning, to the left or to the right, meets no overlap where an operation is to
\* stay and passes nothing; on the left what is to stay keeps its moment.
AlignKeepsOrder(ignored) ==
    LET Keeps(c) == ~c.raised /\ KeepsOrder(c.ms)
        Stays(c) == \A x \in ignored : At(c.ms, x) = At(moments, x)
        left == AlignLeft(moments, ignored)
    IN  Keeps(left) /\ Keeps(AlignRight(moments, ignored)) /\ Stays(left)

Classes(x) == IF Cardinality(QubitsOf[x]) = 1 THEN 0 ELSE 1

\* Stratifying by the number of qubits passes nothing, in every order of the classes,
\* leaves one class in a moment, and keeps ignored operations apart from all classes.
StratifyKeepsOrder(ignored) ==
    \A ms2 \in Stratified(moments, [x \in Ops |-> Classes(x)], 2, ignored) :
        /\ KeepsOrder(ms2)
        /\ \A n \in DOMAIN ms2 : \A x, y \in ms2[n] :
              (x \in ignored <=> y \in ignored) /\ (x \notin ignored => Classes(x) = Classes(y))

\* In the components cs of the moments is each operation once, those of a moment are
\* on different qubits, and what does not commute is in one component or in its order.
ComponentsKeepOrder(cs) ==
    LET In(n, x) == \E d \in cs[n] : x \in d
        Place(x) == CHOOSE n \in DOMAIN cs : In(n, x)
        Joined(x, y) == \E d \in cs[Place(x)] : x \in d /\ y \in d
    IN  /\ \A x \in OpsIn(moments) : Cardinality({n \in DOMAIN cs : In(n, x)}) = 1
        /\ \A n \in DOMAIN cs : \A d, e \in cs[n] :
              d # e => CompQubits(d) \cap CompQubits(e) = {}
        /\ \A x, y \in OpsIn(moments) : Clash(x, y) /\ At(moments, x) < At(moments, y)
              => Joined(x, y) \/ Place(x) < Place(y)

\* Merging the operations without keys that are not ignored loses none, keeps the
\* components of a moment on different qubits, and makes no operation pass another:
\* what it does not commute with is in its own component or stays behind.
MergeKeepsOrder(ignored) ==
    ComponentsKeepOrder(Merge(moments, {x \in Ops \ ignored : MKeysOf[x] \cup CKeysOf[x] = {}}))

\* A key is measured at most once, and before a measurement reads it.
MeasuredOnce ==
    \A x, y \in OpsIn(moments) : x # y /\ MKeysOf[x] # {} =>
        /\ MKeysOf[x] \cap MKeysOf[y] = {}
        /\ CKeysOf[x] \cap MKeysOf[y] # {} => At(moments, y) < At(moments, x)

\* Moving the terminal measurements to the end brings them all into one moment and,
\* where a key is measured once, lets none of them pass an operation, one that reads
\* its result in particular.
SynchronizeKeepsOrder(ignored) ==
    \A after \in BOOLEAN :
        LET ms2 == Synchronize(moments, after, ignored)
        IN  /\ MeasuredOnce => KeepsOrder(ms2)
            /\ \A x \in Terminal(moments) \ ignored : x \in Last(ms2)

\* The transformers that put operations into other moments, whichever operations are
\* tagged to be ignored, lose nothing, put no two operations on one qubit of a moment,
\* and let no operation pass one it does not commute with.
RepackingKeepsOrder ==
    Settled => \A ignored \in SUBSET OpsIn(moments) :
        /\ AlignKeepsOrder(ignored)
        /\ StratifyKeepsOrder(ignored)
        /\ MergeKeepsOrder(ignored)
        /\ SynchronizeKeepsOrder(ignored)

\* batch_insert() "transparently handles the fact that earlier insertions may
\* shift the index that later insertions should occur at": one operation at each
\* of two points lands between what is before and what is after its own point.
BatchInsertLands ==
    \A x, y \in Absent, i, j \in 0 .. Len(moments) : x # y /\ i < j =>
        LET r == BatchInsert(moments, <<[at |-> i, es |-> <<Op(x)>>],
                                        [at |-> j, es |-> <<Op(y)>>]>>)
        IN  /\ PrecedesLater(moments, i, {x}, r.ms)
            /\ PrecedesLater(moments, j, {y}, r.ms)
=============================================================================
