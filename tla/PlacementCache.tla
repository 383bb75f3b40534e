--------------------------- MODULE PlacementCache ---------------------------
(***************************************************************************)
(* A circuit that is built by append() with the EARLIEST strategy, with the*)
(* placement cache that spares append() the scan over the moments, and the *)
(* item assignments that invalidate it (cirq/circuits/circuit.py).         *)
(***************************************************************************)
EXTENDS Placement

CONSTANT MaxMoments      \* bound: length of the circuit

ASSUME MaxMomentsAssumption == MaxMoments \in Nat

VARIABLES
    moments,    \* _moments
    cache,      \* _placement_cache
    raised      \* a call ended with "Overlapping operations"

vars == <<moments, cache, raised>>

CacheType == [on : BOOLEAN, q : [Qubits -> Nat], m : [Keys -> Nat], c : [Keys -> Nat],
              len : Nat]

\* Every moment is a set of operations on different qubits: what
\* Moment.__init__() and with_operation() enforce.
TypeOK ==
    /\ moments \in Seq(Moments)
    /\ cache \in CacheType
    /\ raised \in BOOLEAN

Init ==
    /\ moments = <<>>
    /\ cache = EmptyCache
    /\ raised = FALSE

\* Mutant: the operation joins the last moment, unchecked.
MutPlaceInLast(x, n) ==
    /\ moments' = IF moments = <<>> THEN <<{x}>>
                  ELSE [moments EXCEPT ![Len(moments)] = @ \cup {x}]
    /\ UNCHANGED raised

\* Add x to moment number n, a new one at the end if there is none.
PlaceOp(x, n) ==
    IF n = Len(moments) + 1
    THEN moments' = Append(moments, {x}) /\ UNCHANGED raised
    ELSE IF Overlaps(moments[n], x)
         THEN UNCHANGED moments /\ raised' = TRUE
         ELSE moments' = [moments EXCEPT ![n] = @ \cup {x}] /\ UNCHANGED raised

\* append(x): with the cache, which is consulted and updated before the
\* operation is placed, or by the scan.
AppendOp(x) ==
    \/ /\ cache.on
       /\ LET n == LastConflict(cache, x) + 1 IN
          /\ n <= MaxMoments
          /\ cache' = Record(cache, {x}, n)
          /\ PlaceOp(x, n)
    \/ /\ ~cache.on
       /\ LET n == EarliestAvailable(moments, x, Len(moments)) + 1 IN
          /\ n <= MaxMoments
          /\ PlaceOp(x, n)
       /\ UNCHANGED cache

\* append() of a moment puts it at the end, intact.
AppendMoment(m) ==
    /\ Len(moments) < MaxMoments
    /\ moments' = Append(moments, m)
    /\ cache' = IF cache.on THEN Record(cache, m, cache.len + 1) ELSE cache
    /\ UNCHANGED raised

\* Mutant: assigning a moment keeps the cache.
MutSetItemKeepsCache(i, m) ==
    /\ moments' = [moments EXCEPT ![i] = m]
    /\ UNCHANGED <<cache, raised>>

\* __setitem__() and __delitem__(), both of which end with _mutated().
SetItem(i, m) ==
    /\ moments' = [moments EXCEPT ![i] = m]
    /\ cache' = NoCache
    /\ UNCHANGED raised

DelItem(i) ==
    /\ moments' = SubSeq(moments, 1, i - 1) \o SubSeq(moments, i + 1, Len(moments))
    /\ cache' = NoCache
    /\ UNCHANGED raised

\* with_tags() with a tag: the tagged circuit starts with the cache of an empty
\* circuit and is then given the moments.
WithTags ==
    /\ cache' = EmptyCache
    /\ UNCHANGED <<moments, raised>>

\* Circuit(): start over with an empty circuit.
NewCircuit ==
    /\ moments' = <<>>
    /\ cache' = EmptyCache
    /\ UNCHANGED raised

Next ==
    \/ \E x \in Ops : AppendOp(x)
    \/ \E m \in Moments : AppendMoment(m)
    \/ \E i \in 1 .. Len(moments) : DelItem(i) \/ \E m \in Moments : SetItem(i, m)
    \/ NewCircuit

Spec == Init /\ [][Next]_vars

\* The same with with_tags() among the calls.
TaggedSpec == Init /\ [][Next \/ WithTags]_vars

----------------------------------------------------------------------------
\* Properties.

\* The numbers of the moments that act on a qubit, measure a key, read a key.
WithQubit(b) == {i \in 1 .. Len(moments) : b \in MomentQubits(moments[i])}
WithMKey(b) == {i \in 1 .. Len(moments) : b \in MomentMKeys(moments[i])}
WithCKey(b) == {i \in 1 .. Len(moments) : b \in MomentCKeys(moments[i])}

IsLast(n, S) == n \in S \cup {0} /\ \A i \in S : i <= n

\* _PlacementCache: "Here, we keep track of the greatest moment that contains
\* each qubit, measurement key, and control key"; a cache in use describes the
\* moments exactly.
CacheExact ==
    cache.on =>
        /\ cache.len = Len(moments)
        /\ \A b \in Qubits : IsLast(cache.q[b], WithQubit(b))
        /\ \A b \in Keys : IsLast(cache.m[b], WithMKey(b)) /\ IsLast(cache.c[b], WithCKey(b))

\* The cached placement is the one the scan of earliest_available_moment() finds,
\* for whatever operation comes next.
CacheAgreesWithScan ==
    cache.on => \A x \in Ops :
        LastConflict(cache, x) = EarliestAvailable(moments, x, Len(moments))

\* append() with the EARLIEST strategy never fails on an overlap.
AppendNeverRaises == ~raised
=============================================================================
