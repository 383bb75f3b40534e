------------------------- MODULE GreedyQubitManager -------------------------
(***************************************************************************)
(* The pool of ancilla qubits of cirq/ops/greedy_qubit_manager.py: qubits  *)
(* are numbered in the order of their creation and are either in use or in *)
(* the list of free ones, from whose front (FIFO) or back (LIFO,           *)
(* maximize_reuse) they are handed out.  All qubits have dimension 2.      *)
(***************************************************************************)
EXTENDS Integers, Sequences

CONSTANTS
    MaximizeReuse,    \* maximize_reuse
    MaxSize           \* bound: qubits in the pool

ASSUME PoolAssumption == MaximizeReuse \in BOOLEAN /\ MaxSize \in Nat

VARIABLES
    used,    \* _used_qubits
    free,    \* _free_qubits
    size     \* _size

poolVars == <<used, free, size>>

Elements(s) == {s[i] : i \in DOMAIN s}

PoolTypes ==
    /\ used \in SUBSET Nat
    /\ free \in Seq(Nat)
    /\ size \in Nat

PoolInit ==
    /\ used = {}
    /\ free = <<>>
    /\ size = 0

\* Mutant: the new qubits are numbered from the number of those in use.
MutGrown(n) ==
    IF n <= size THEN free
    ELSE [i \in 1 .. n - size |-> Len(free) + i - 1] \o free

\* resize(): the free list once the pool has n qubits, the new ones in front.
Grown(n) ==
    IF n <= size THEN free
    ELSE [i \in 1 .. n - size |-> size + i - 1] \o free

NewSize(n) == IF n <= size THEN size ELSE n

Resize(n) ==
    /\ n <= MaxSize
    /\ free' = Grown(n)
    /\ size' = NewSize(n)
    /\ UNCHANGED used

\* qalloc(n) and qborrow(n), for n > 0: grow the pool if too few are free, then
\* take n from the back or from the front.  Given is what is returned.
Wanted(n) == size + n - Len(free)
Given(n) ==
    LET all == Grown(Wanted(n)) IN
    IF MaximizeReuse THEN SubSeq(all, Len(all) - n + 1, Len(all)) ELSE SubSeq(all, 1, n)
Left(n) ==
    LET all == Grown(Wanted(n)) IN
    IF MaximizeReuse THEN SubSeq(all, 1, Len(all) - n) ELSE SubSeq(all, n + 1, Len(all))

Alloc(n) ==
    /\ Wanted(n) <= MaxSize
    /\ used' = used \cup Elements(Given(n))
    /\ free' = Left(n)
    /\ size' = NewSize(Wanted(n))

\* qfree(qs) for a list of different qubits; anything not in use fails the
\* assertion before a change is made.
Free(qs) ==
    /\ Elements(qs) \subseteq used
    /\ used' = used \ Elements(qs)
    /\ free' = free \o qs
    /\ UNCHANGED size

Different(s) == \A i, j \in DOMAIN s : s[i] = s[j] => i = j

PoolNext ==
    \/ \E n \in 1 .. MaxSize : Alloc(n) \/ Resize(n)
    \/ \E n \in 1 .. MaxSize : \E qs \in [1 .. n -> used] : Different(qs) /\ Free(qs)

PoolSpec == PoolInit /\ [][PoolNext]_poolVars

----------------------------------------------------------------------------
\* Properties.

\* Every qubit ever created is either in use or free, never both, and occurs once
\* in the free list: no sequence of resizes, allocations and frees hands out a
\* qubit in use or loses one.
PoolPartition ==
    /\ Different(free)
    /\ Elements(free) \cap used = {}
    /\ Elements(free) \cup used = 0 .. size - 1
=============================================================================
