--------------------------- MODULE MappingManager ---------------------------
(***************************************************************************)
(* MappingManager (cirq/transformers/routing/mapping_manager.py): where    *)
(* the logical qubits of a circuit are on a device while swaps move them.  *)
(* The code numbers the qubits of both kinds that the initial mapping      *)
(* names; here they keep their names.                                      *)
(***************************************************************************)
EXTENDS DeviceGraph

VARIABLES
    device,               \* _induced_subgraph_int
    distances,            \* _distances
    undirectedDistances,  \* _undirected_distances
    logicalToPhysical,    \* _logical_to_physical
    physicalToLogical     \* _physical_to_logical

mappingVars == <<device, distances, undirectedDistances, logicalToPhysical, physicalToLogical>>

Logical == DOMAIN logicalToPhysical

\* Before there is a mapping manager.
MappingInit ==
    /\ device = {} /\ distances = << >> /\ undirectedDistances = << >>
    /\ logicalToPhysical = << >> /\ physicalToLogical = << >>

\* For an injective function.
Inverted(f) == [p \in {f[q] : q \in DOMAIN f} |-> CHOOSE q \in DOMAIN f : f[q] = p]

\* __init__, for the graph g and the initial mapping m.
NewManager(g, m) ==
    \E induced \in {Induced(g, {m[q] : q \in DOMAIN m})} :
        \E undirected \in {Undirected(induced)} :
            /\ device' = induced
            /\ distances' = FloydWarshall(induced)
            /\ undirectedDistances' = FloydWarshall(undirected)
            /\ logicalToPhysical' = m
            /\ physicalToLogical' = Inverted(m)

\* dist_on_device, for a mapping l2p
DistOn(l2p, q1, q2) == distances[l2p[q1]][l2p[q2]]
UndirectedDistOn(l2p, q1, q2) == undirectedDistances[l2p[q1]][l2p[q2]]

\* Adjacency that does not look at the direction of an edge.
MutIsAdjacent(q1, q2) == UndirectedDistOn(logicalToPhysical, q1, q2) = 1

\* is_adjacent
IsAdjacent(q1, q2) == DistOn(logicalToPhysical, q1, q2) = 1

\* apply_swap refuses qubits that are not neighbours in either direction.
CanSwap(q1, q2) == UndirectedDistOn(logicalToPhysical, q1, q2) <= 1

\* A mapping with the entries of a and b exchanged.
Exchanged(f, a, b) == [f EXCEPT ![a] = f[b], ![b] = f[a]]

\* The entries of the second array are read after the first has been changed, as
\* if the places of the qubits had not been remembered.
MutApplySwap(q1, q2) ==
    /\ logicalToPhysical' = Exchanged(logicalToPhysical, q1, q2)
    /\ physicalToLogical' = [physicalToLogical EXCEPT ![logicalToPhysical'[q1]] = q2,
                                                       ![logicalToPhysical'[q2]] = q1]
    /\ UNCHANGED <<device, distances, undirectedDistances>>

\* apply_swap: the physical entries are those of the mapping before the swap.
ApplySwap(q1, q2) ==
    /\ logicalToPhysical' = Exchanged(logicalToPhysical, q1, q2)
    /\ physicalToLogical' =
          Exchanged(physicalToLogical, logicalToPhysical[q1], logicalToPhysical[q2])
    /\ UNCHANGED <<device, distances, undirectedDistances>>

\* shortest_path, undirected: one of these.
ShortestPaths(q1, q2) ==
    LET physical == PathsOf(Undirected(device), UndirectedDistOn(logicalToPhysical, q1, q2),
                            logicalToPhysical[q1], logicalToPhysical[q2])
    IN  {[i \in DOMAIN s |-> physicalToLogical[s[i]]] : s \in physical}

MappingTypeOK ==
    /\ device \in SUBSET Edges
    /\ logicalToPhysical \in [Logical -> Physical]
    /\ physicalToLogical \in [DOMAIN physicalToLogical -> Logical]

\* The two arrays, which apply_swap changes one after the other, are inverse to
\* each other: no logical qubit is lost and none is in two places.
MapsAreInverse ==
    /\ \A q \in Logical : /\ logicalToPhysical[q] \in DOMAIN physicalToLogical
                          /\ physicalToLogical[logicalToPhysical[q]] = q
    /\ \A p \in DOMAIN physicalToLogical : /\ physicalToLogical[p] \in Logical
                                           /\ logicalToPhysical[physicalToLogical[p]] = p
=============================================================================
