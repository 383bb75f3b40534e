--------------------------- MODULE AncillaMapping ---------------------------
(***************************************************************************)
(* map_clean_and_borrowable_qubits of                                      *)
(* cirq/transformers/qubit_management_transformers.py: replaces the        *)
(* temporary qubits of a circuit, one operation after the other, by system *)
(* qubits that are idle for as long as they are needed and by qubits of a  *)
(* GreedyQubitManager, which may have been used before.                    *)
(*                                                                         *)
(* Qubits of the circuit are positive numbers in their sort order; qubit n *)
(* of the manager is Ancilla(n), a negative number.                        *)
(***************************************************************************)
EXTENDS GreedyQubitManager, FiniteSetsExt

CONSTANTS
    System, Clean, Borrowable,    \* the qubits a circuit may have
    OpQubits,         \* the sequences of qubits an operation may act on
    MaxOps,           \* bound: operations of a circuit
    SetupSize         \* bound: qubits in the pool before the mapping

ASSUME MappingAssumption ==
    /\ System \cup Clean \cup Borrowable \subseteq Nat \ {0}
    /\ System \cap Clean = {} /\ System \cap Borrowable = {} /\ Clean \cap Borrowable = {}
    /\ \A on \in OpQubits :
           on \in Seq(System \cup Clean \cup Borrowable) /\ Different(on)
    /\ MaxOps \in Nat
    /\ SetupSize \in 0 .. MaxSize

VARIABLES
    circuit,       \* the input
    phase,         \* "setup" before the call, then "free", "place" and "done"
    pos,           \* the operation map_func is working on
    freeing,       \* what is left of sorted(to_free)
    todo,          \* what is left of op_temp_qubits: places in the operation's qubits
    toFree,        \* to_free
    lastIdx,       \* last_op_idx
    allocated,     \* allocated_map
    borrowable,    \* borrowable_qubits
    mapped,        \* the operations of the result
    failed         \* an assertion failed or a key was missing

mapVars == <<circuit, phase, pos, freeing, todo, toFree, lastIdx, allocated,
             borrowable, mapped, failed>>
vars == <<poolVars, mapVars>>

Temps == Clean \cup Borrowable
Ancilla(n) == -(n + 1)
Number(a) == -a - 1
QubitsOf(op) == Elements(op.on)

\* circuit.all_qubits()
AllQubits == UNION {QubitsOf(op) : op \in Elements(circuit)}
Op == circuit[pos]

\* Mutant: all_qubits is all of the circuit's qubits.
MutSystemQubits == AllQubits

\* all_qubits
SystemQubits == AllQubits \ Temps

\* Well-typed state: temporary qubits are mapped to system qubits or to qubits the
\* manager has created, and only system qubits are lent (map_func's variables).
TypeOK ==
    /\ PoolTypes
    /\ phase \in {"setup", "free", "place", "done"}
    /\ pos \in 1 .. Len(circuit) + 1
    /\ freeing \subseteq Temps /\ toFree \subseteq Temps
    /\ todo \subseteq Nat /\ \A i \in todo : Op.on[i] \in Temps
    /\ DOMAIN allocated \subseteq Temps
    /\ \A q \in DOMAIN allocated :
           allocated[q] \in System \cup {Ancilla(n) : n \in 0 .. size - 1}
    /\ borrowable \subseteq System
    /\ Len(mapped) = pos - 1
    /\ lastIdx \in Int /\ failed \in BOOLEAN

Init ==
    /\ PoolInit
    /\ circuit = <<>>
    /\ phase = "setup"
    /\ pos = 1
    /\ freeing = {} /\ toFree = {} /\ todo = {}
    /\ lastIdx = -1
    /\ allocated = <<>>
    /\ borrowable = {}
    /\ mapped = <<>>
    /\ failed = FALSE

\* The manager's other clients, before the transformer is called with it.
Setup ==
    /\ phase = "setup"
    /\ PoolNext
    /\ size' <= SetupSize
    /\ UNCHANGED mapVars

\* The moments of n operations: they are in order and none is empty.
Starts(n) == {at \in [1 .. n -> 0 .. n - 1] :
                 /\ \A i, j \in 1 .. n : i <= j => at[i] <= at[j]
                 /\ \A i \in 1 .. n : at[i] > 0 => \E j \in 1 .. n : at[j] = at[i] - 1}

\* The transformer is called with any circuit whose moments hold operations on
\* different qubits.
Call ==
    /\ phase = "setup"
    /\ \E n \in 0 .. MaxOps : \E at \in Starts(n), on \in [1 .. n -> OpQubits] :
           /\ \A i, j \in 1 .. n :
                  i /= j /\ at[i] = at[j] => Elements(on[i]) \cap Elements(on[j]) = {}
           /\ circuit' = [i \in 1 .. n |-> [at |-> at[i], on |-> on[i]]]
    /\ phase' = IF Len(circuit') = 0 THEN "done" ELSE "free"
    /\ UNCHANGED <<poolVars, pos, freeing, todo, toFree, lastIdx, allocated, borrowable,
                   mapped, failed>>

----------------------------------------------------------------------------
\* map_func, on the operation at pos.

\* qubits_lifespan[q]: the moments of the first and of the last operation on q.
Moments(q) == {op.at : op \in {o \in Elements(circuit) : q \in QubitsOf(o)}}
First(q) == Min(Moments(q))
Last(q) == Max(Moments(q))

IsManaged(q) == allocated[q] \notin SystemQubits

\* Mutant: a borrowed system qubit is given back within the moment.
MutMayFree(q) == TRUE

\* A system qubit is given back only once the moment is over.
MayFree(q) == Op.at > lastIdx \/ IsManaged(q)

\* Mutant: the qubit stays in to_free.
MutFreeNext ==
    /\ phase = "free" /\ ~failed /\ freeing /= {}
    /\ LET q == Min(freeing) IN
       /\ freeing' = freeing \ {q}
       /\ IF q \notin DOMAIN allocated
          THEN failed' = TRUE /\ UNCHANGED <<poolVars, allocated>>
          ELSE /\ MayFree(q)
               /\ IF IsManaged(q) THEN Free(<<Number(allocated[q])>>) ELSE UNCHANGED poolVars
               /\ allocated' = [p \in DOMAIN allocated \ {q} |-> allocated[p]]
               /\ UNCHANGED failed
    /\ UNCHANGED <<toFree, circuit, phase, pos, todo, lastIdx, borrowable, mapped>>

\* One pass of the loop over sorted(to_free).
FreeNext ==
    /\ phase = "free" /\ ~failed /\ freeing /= {}
    /\ LET q == Min(freeing) IN
       /\ freeing' = freeing \ {q}
       /\ \/ /\ \/ q \notin DOMAIN allocated
                \/ MayFree(q) /\ IsManaged(q) /\ Number(allocated[q]) \notin used
             /\ failed' = TRUE
             /\ UNCHANGED <<poolVars, allocated, toFree>>
          \/ /\ q \in DOMAIN allocated /\ MayFree(q)
             /\ IF IsManaged(q) THEN Free(<<Number(allocated[q])>>) ELSE UNCHANGED poolVars
             /\ allocated' = [p \in DOMAIN allocated \ {q} |-> allocated[p]]
             /\ toFree' = toFree \ {q}
             /\ UNCHANGED failed
          \/ /\ q \in DOMAIN allocated /\ ~MayFree(q)
             /\ UNCHANGED <<poolVars, allocated, toFree, failed>>
    /\ UNCHANGED <<circuit, phase, pos, todo, lastIdx, borrowable, mapped>>

\* Mutant: system qubits that are lent already may be lent again.
MutFreed ==
    /\ phase = "free" /\ ~failed /\ freeing = {}
    /\ phase' = "place"
    /\ lastIdx' = Op.at
    /\ borrowable' = SystemQubits
    /\ todo' = {i \in DOMAIN Op.on : Op.on[i] \in Temps}
    /\ UNCHANGED <<poolVars, circuit, pos, freeing, toFree, allocated, mapped, failed>>

\* The loop is over: last_op_idx, borrowable_qubits and op_temp_qubits are set.
Freed ==
    /\ phase = "free" /\ ~failed /\ freeing = {}
    /\ phase' = "place"
    /\ lastIdx' = Op.at
    /\ borrowable' = SystemQubits \ {allocated[q] : q \in DOMAIN allocated}
    /\ todo' = {i \in DOMAIN Op.on : Op.on[i] \in Temps}
    /\ UNCHANGED <<poolVars, circuit, pos, freeing, toFree, allocated, mapped, failed>>

\* Mutant: only the first moment is searched.
MutOperationsBetween(first, last) ==
    {op \in Elements(circuit) : op.at = first /\ QubitsOf(op) \cap borrowable /= {}}

\* findall_operations_between(): the operations on borrowable qubits, from moment
\* first to moment last.
OperationsBetween(first, last) ==
    {op \in Elements(circuit) : op.at \in first .. last /\ QubitsOf(op) \cap borrowable /= {}}

\* filtered_borrowable_qubits: those with no operation in the lifespan of q.
Idle(q) == borrowable \ UNION {QubitsOf(op) : op \in OperationsBetween(First(q), Last(q))}

\* allocated_map[q] = t
Assigned(q, t) == [p \in DOMAIN allocated \cup {q} |-> IF p = q THEN t ELSE allocated[p]]

\* One pass of the loop over op_temp_qubits: q has a mapping already, is given one
\* by the manager, or borrows a system qubit.
PlaceNext ==
    /\ phase = "place" /\ ~failed /\ todo /= {}
    /\ LET q == Op.on[Min(todo)]
           seen == q \in DOMAIN allocated \/ First(q) < Op.at
           toManager == q \in Clean \/ Idle(q) = {}
       IN
       /\ toFree' = IF Last(q) = Op.at THEN toFree \cup {q} ELSE toFree
       /\ \/ /\ seen
             /\ failed' = ~(First(q) < Op.at /\ q \in DOMAIN allocated)
             /\ UNCHANGED <<poolVars, allocated, borrowable>>
          \/ /\ ~seen /\ toManager
             /\ Alloc(1)
             /\ allocated' = Assigned(q, Ancilla(Given(1)[1]))
             /\ UNCHANGED <<borrowable, failed>>
          \/ /\ ~seen /\ ~toManager
             /\ allocated' = Assigned(q, Min(Idle(q)))
             /\ borrowable' = borrowable \ {Min(Idle(q))}
             /\ UNCHANGED <<poolVars, failed>>
    /\ todo' = todo \ {Min(todo)}
    /\ UNCHANGED <<circuit, phase, pos, freeing, lastIdx, mapped>>

\* transform_qubits, and on to the next operation.
Target(q) == IF q \in Temps THEN allocated[q] ELSE q

Emit ==
    /\ phase = "place" /\ ~failed /\ todo = {}
    /\ mapped' = Append(mapped, [i \in DOMAIN Op.on |-> Target(Op.on[i])])
    /\ pos' = pos + 1
    /\ phase' = IF pos = Len(circuit) THEN "done" ELSE "free"
    /\ freeing' = toFree
    /\ UNCHANGED <<poolVars, circuit, todo, toFree, lastIdx, allocated, borrowable, failed>>

Next == Setup \/ Call \/ FreeNext \/ Freed \/ PlaceNext \/ Emit

Spec == Init /\ [][Next]_vars

----------------------------------------------------------------------------
\* Properties.

\* The assertions of map_func and qfree hold and no key is missing: a temporary
\* qubit is given back exactly once and never before its last operation.
NoAssertionFails == ~failed

\* A slot of the result: operation i acts on its target in the place of qubit q.
ActsAs(i, t, q) == \E j \in DOMAIN mapped[i] : mapped[i][j] = t /\ circuit[i].on[j] = q

\* From its first to its last operation a temporary qubit is mapped to one qubit
\* and nothing else is done to that one: neither the system qubit's own operations
\* nor those of another temporary qubit come in between.  "for borrowable system
\* qubits managed by the transformer, we do not reuse qubits within the same moment":
\* two operations of a moment share no system qubit.
LoansAreExclusive ==
    /\ \A q \in AllQubits \cap Temps :
           \A i, k \in {n \in DOMAIN mapped : q \in QubitsOf(circuit[n])} :
               \A t \in Elements(mapped[i]) :
                   ActsAs(i, t, q) =>
                       /\ ActsAs(k, t, q)
                       /\ \A j \in i .. k, p \in AllQubits : ActsAs(j, t, p) => p = q
    /\ \A i, j \in DOMAIN mapped :
           i /= j /\ circuit[i].at = circuit[j].at =>
               Elements(mapped[i]) \cap Elements(mapped[j]) \cap SystemQubits = {}

\* While a temporary qubit holds a qubit of the manager the manager counts it as in
\* use, and no two temporary qubits hold one qubit.
LoansAreDistinct ==
    \A q \in DOMAIN allocated :
        /\ allocated[q] \notin SystemQubits => Number(allocated[q]) \in used
        /\ \A p \in DOMAIN allocated : allocated[p] = allocated[q] => p = q
=============================================================================
