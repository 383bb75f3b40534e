---------------------------- MODULE DeviceGraph -----------------------------
(***************************************************************************)
(* The device graphs the routing code is given and the functions of the   *)
(* graph library (networkx) it applies to them.  External: modelled from   *)
(* how cirq/transformers/routing uses them.                                *)
(*                                                                         *)
(* Physical qubits are the integers 0..P-1; a device is a set of directed  *)
(* edges, symmetric when the graph is undirected.                          *)
(***************************************************************************)
EXTENDS Naturals, FiniteSets, Sequences, SequencesExt, FiniteSetsExt

CONSTANTS
    P,        \* number of physical qubits
    Devices   \* devices

Physical == 0..(P - 1)
Edges == {e \in Physical \X Physical : e[1] # e[2]}

ASSUME DeviceAssumption == P \in Nat \ {0} /\ Devices \subseteq SUBSET Edges

Undirected(g) == g \cup {<<e[2], e[1]>> : e \in g}
IsDirected(g) == g # Undirected(g)
Neighbors(g, x) == {e[2] : e \in {d \in g : d[1] = x}}
Degree(g, x) == Cardinality({e \in g : x \in {e[1], e[2]}})

\* induced_subgraph
Induced(g, nodes) == {e \in g : e[1] \in nodes /\ e[2] \in nodes}

\* The qubits at most k edges away from a.
Balls(g, a) ==
    LET ball[k \in 0..P] ==
            IF k = 0 THEN {a} ELSE UNION {{x} \cup Neighbors(g, x) : x \in ball[k - 1]}
    IN  ball
Ball(g, a, k) == Balls(g, a)[k]

\* floyd_warshall_predecessor_and_distance: the lengths of the shortest paths, P
\* where there is no path.
FloydWarshall(g) ==
    [a \in Physical |-> [b \in Physical |->
        Min({P} \cup {k \in 0..(P - 1) : b \in Ball(g, a, k)})]]

\* No two of the qubits S are further apart than the device is large, on the edges
\* between them.
Reachable(g, S) == \A x, y \in S : FloydWarshall(Undirected(Induced(g, S)))[x][y] < P

\* reconstruct_path, from the predecessors of floyd_warshall_...: one of these.
PathsOf(g, d, a, b) ==
    {s \in [1..(d + 1) -> Physical] :
        /\ s[1] = a /\ s[d + 1] = b
        /\ \A i \in 1..d : <<s[i], s[i + 1]>> \in g}

\* center: the first of the qubits whose greatest distance to others is least;
\* defined when every qubit is reached from every other.
HasCenter(g) == \A x \in Physical : Ball(g, x, P - 1) = Physical
Center(g) ==
    LET reach == Min({k \in 0..P : \E x \in Physical : Ball(g, x, k) = Physical})
    IN  Min({x \in Physical : Ball(g, x, reach) = Physical})

\* The elements of a finite set in the order Before.
InOrder(S, Before(_, _)) ==
    CHOOSE s \in [1..Cardinality(S) -> S] :
        ToSet(s) = S /\ \A i, j \in DOMAIN s : i < j => Before(s[i], s[j])

\* bfs_successors: the qubits in the order in which a breadth-first search from
\* a meets them.
Queues(g, a) ==
    LET queue[i \in 0..P] ==
            IF i = 0 THEN <<a>>
            ELSE LET q == queue[i - 1]
                 IN  IF i > Len(q) THEN q
                     ELSE q \o InOrder(Neighbors(g, q[i]) \ ToSet(q), <)
    IN  queue
BreadthFirst(g, a) == Tail(Queues(g, a)[P])
=============================================================================
