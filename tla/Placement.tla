----------------------------- MODULE Placement -----------------------------
(***************************************************************************)
(* Where an operation may go in a circuit (cirq/circuits/circuit.py,       *)
(* cirq/circuits/moment.py).                                               *)
(*                                                                         *)
(* A moment is the set of its operations.  Of an operation only the qubits,*)
(* the measurement keys it writes and the control keys it reads matter.    *)
(* Moments are numbered from 1, so moment number n is the code's index     *)
(* n - 1, and the code's insertion index k is the number of moments before *)
(* the insertion point.  "No moment" is 0 here and -1 in the code.         *)
(***************************************************************************)
EXTENDS Integers, Sequences

CONSTANTS
    Ops,        \* operations
    Qubits,     \* qubits
    Keys,       \* measurement keys
    QubitsOf,   \* the qubits of each operation
    MKeysOf,    \* its measurement keys
    CKeysOf     \* its control keys

ASSUME PlacementAssumption ==
    /\ QubitsOf \in [Ops -> SUBSET Qubits]
    /\ MKeysOf \in [Ops -> SUBSET Keys]
    /\ CKeysOf \in [Ops -> SUBSET Keys]

----------------------------------------------------------------------------
\* Moments.

MomentQubits(m) == UNION {QubitsOf[x] : x \in m}
MomentMKeys(m) == UNION {MKeysOf[x] : x \in m}
MomentCKeys(m) == UNION {CKeysOf[x] : x \in m}

\* No two operations of a moment share a qubit.
IsMoment(m) == \A x, y \in m : x # y => QubitsOf[x] \cap QubitsOf[y] = {}
Moments == {m \in SUBSET Ops : IsMoment(m)}

\* Moment.with_operation() raises for an operation on a qubit in use.
Overlaps(m, x) == MomentQubits(m) \cap QubitsOf[x] # {}

\* The moment x cannot join or pass: it acts on a qubit of x, measures a key x
\* measures or reads, or reads a key x measures.
Blocks(m, x) ==
    \/ Overlaps(m, x)
    \/ MomentMKeys(m) \cap (MKeysOf[x] \cup CKeysOf[x]) # {}
    \/ MomentCKeys(m) \cap MKeysOf[x] # {}

MaxOf(S) == CHOOSE n \in S : \A i \in S : i <= n

\* Mutant: the scan starts one moment too early.
MutScanSkipsLast(ms, x, k) ==
    MaxOf({0} \cup {n \in 1 .. k - 1 : Blocks(ms[n], x)})

\* earliest_available_moment(): the scan backward from moment number k stops at
\* the last moment that blocks x; the result counts the moments up to there.
EarliestAvailable(ms, x, k) ==
    MaxOf({0} \cup {n \in 1 .. k : Blocks(ms[n], x)})

----------------------------------------------------------------------------
\* _PlacementCache: the number of the last moment with each qubit or key.
\* A circuit without a cache (None) has on = FALSE.

EmptyCache ==
    [on |-> TRUE, q |-> [b \in Qubits |-> 0], m |-> [b \in Keys |-> 0],
     c |-> [b \in Keys |-> 0], len |-> 0]
NoCache == [EmptyCache EXCEPT !.on = FALSE]

\* Mutant: a measurement does not look for the operations its key controls.
MutConflictNoControls(cache, x) ==
    MaxOf({0} \cup {cache.q[b] : b \in QubitsOf[x]}
              \cup {cache.m[b] : b \in MKeysOf[x] \cup CKeysOf[x]})

\* get_earliest_accommodating_moment_index() for an operation: the last moment
\* recorded for anything it conflicts with.
LastConflict(cache, x) ==
    MaxOf({0} \cup {cache.q[b] : b \in QubitsOf[x]}
              \cup {cache.m[b] : b \in MKeysOf[x] \cup CKeysOf[x]}
              \cup {cache.c[b] : b \in MKeysOf[x]})

\* Its updates, and _PlacementCache.append()'s, for a placement into moment n of
\* the operations in s.
Record(cache, s, n) ==
    [on |-> TRUE,
     q |-> [b \in Qubits |-> IF b \in MomentQubits(s) THEN n ELSE cache.q[b]],
     m |-> [b \in Keys |-> IF b \in MomentMKeys(s) THEN n ELSE cache.m[b]],
     c |-> [b \in Keys |-> IF b \in MomentCKeys(s) /\ n > cache.c[b] THEN n ELSE cache.c[b]],
     len |-> IF n > cache.len THEN n ELSE cache.len]
=============================================================================
