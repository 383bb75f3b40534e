------------------------------ MODULE RouteCQC ------------------------------
(***************************************************************************)
(* RouteCQC.route_circuit (cirq/transformers/routing/route_circuit_cqc.py):*)
(* a circuit is cut into timesteps, and swaps are inserted until every     *)
(* operation on two qubits is between neighbours on the device.            *)
(*                                                                         *)
(* An operation is [id, kind, qubits]: a gate, a measurement, or one with a *)
(* key of its own, on a sequence of logical qubits.                         *)
(* Where the code takes the first of several swaps, the order is that of   *)
(* the graph library and the model takes any.                              *)
(***************************************************************************)
EXTENDS MappingManager, LineInitialMapper

CONSTANTS
    Names,         \* names of the circuits' operations
    Circuits,      \* circuits that are routed
    InitialMaps,   \* mappings a caller's own initial_mapper returns
    Radii          \* values of lookahead_radius

Operation == [id : Names \cup {"SWAP", "CNOT", "H"}, kind : {"gate", "measure", "measureKey"},
              qubits : Seq(Nat)]

\* A gate is refused equal qubits when the operation is made.
OnDistinctQubits(op) == \A i, j \in DOMAIN op.qubits : i # j => op.qubits[i] # op.qubits[j]

ASSUME CircuitAssumption ==
    /\ Circuits \subseteq Seq(Seq(Operation))
    /\ \A c \in Circuits : \A i \in DOMAIN c : \A j \in DOMAIN c[i] : OnDistinctQubits(c[i][j])

\* A caller's mapping is one-to-one, onto qubits with paths between them.
ASSUME RouteAssumption ==
    /\ \A m \in InitialMaps :
          /\ m \in [DOMAIN m -> Physical]
          /\ \A a, b \in DOMAIN m : m[a] = m[b] => a = b
          /\ \A g \in Devices : Reachable(g, {m[q] : q \in DOMAIN m})
    /\ Radii \subseteq Nat \ {0}

VARIABLES
    graph,     \* device_graph
    circuit,   \* the circuit
    radius,    \* lookahead_radius
    start,     \* initial_mapping
    single,    \* single_qubit_ops
    double,    \* two_qubit_ops, without those routed
    routed,    \* routed_ops, as one sequence
    final,     \* final_circuit
    timestep,  \* index of the current timestep
    seen,      \* swaps chosen in this timestep
    swaps,     \* chosen swaps still to be inserted
    pc         \* where route_circuit is, or the exception that ended it

callVars == <<graph, circuit, radius>>
routeVars == <<start, single, double, routed, final, timestep, seen, swaps, pc>>
vars == <<mappingVars, callVars, routeVars>>

-----------------------------------------------------------------------------
(* _get_one_and_two_qubit_ops_as_timesteps *)

\* The timestep of the last operation on op's qubits, not the one after it.
MutEarliestTimestep(steps, op) ==
    Max({1} \cup {t \in DOMAIN steps :
            \E i \in DOMAIN steps[t] : ToSet(steps[t][i].qubits) \cap ToSet(op.qubits) # {}})

\* earliest_available_moment: after the last timestep with one of op's qubits.
EarliestTimestep(steps, op) ==
    1 + Max({0} \cup {t \in DOMAIN steps :
                 \E i \in DOMAIN steps[t] : ToSet(steps[t][i].qubits) \cap ToSet(op.qubits) # {}})

Extended(steps, t) == steps \o [i \in 1..(t - Len(steps)) |-> << >>]

\* The operations a measurement in the middle is replaced by.
OneByOne(op) == [i \in DOMAIN op.qubits |-> [op EXCEPT !.qubits = <<op.qubits[i]>>]]

\* One list grows by one more than the other.
MutVisit(acc, op, last) ==
    LET t == EarliestTimestep(acc.double, op)
        grown == [acc EXCEPT !.single = Extended(@, t + 1), !.double = Extended(@, t)]
    IN  IF Len(op.qubits) = 2 THEN [grown EXCEPT !.double[t] = Append(@, op)]
        ELSE [grown EXCEPT !.single[t] = Append(@, op)]

\* The visit of one operation; last: in the last moment.
Visit(acc, op, last) ==
    LET t == EarliestTimestep(acc.double, op)
        grown == [acc EXCEPT !.single = Extended(@, t), !.double = Extended(@, t)]
    IN  IF Len(op.qubits) > 2 /\ ~last
        THEN IF op.kind = "measureKey" THEN [grown EXCEPT !.raised = TRUE]
             ELSE [grown EXCEPT !.single[t] = @ \o OneByOne(op)]
        ELSE IF Len(op.qubits) = 2 THEN [grown EXCEPT !.double[t] = Append(@, op)]
        ELSE [grown EXCEPT !.single[t] = Append(@, op)]

\* The timesteps after the first n visits.
StepsOf(visits) ==
    LET steps[n \in 0..Len(visits)] ==
            IF n = 0 THEN [single |-> << >>, double |-> << >>, raised |-> FALSE]
            ELSE Visit(steps[n - 1], visits[n].op, visits[n].last)
    IN  steps

\* Every operation, with whether its moment is the last.
Visits(c) ==
    FlattenSeq([i \in DOMAIN c |-> [j \in DOMAIN c[i] |-> [op |-> c[i][j], last |-> i = Len(c)]]])

Timesteps(c) == StepsOf(Visits(c))[Len(Visits(c))]

-----------------------------------------------------------------------------
(* The choice of swaps *)

\* _initial_candidate_swaps: an edge of the device at a qubit that waits, from
\* the first such qubit; the index tells which.
Waiting == [k \in 1..(2 * Len(double[timestep])) |->
              double[timestep][(k + 1) \div 2].qubits[2 - (k % 2)]]

CandidateSwaps ==
    LET at(k) == logicalToPhysical[Waiting[k]]
        ends(k) == {p \in DOMAIN physicalToLogical :
                       <<at(k), p>> \in Undirected(device) /\ \A j \in 1..(k - 1) : at(j) # p}
    IN  UNION {{[from |-> k, swap |-> <<Waiting[k], physicalToLogical[p]>>] : p \in ends(k)} :
                  k \in DOMAIN Waiting}

SingleSwaps == {<<c.swap>> : c \in CandidateSwaps}

\* Pairs of swaps of neighbouring candidates are left out.
MutPairsOfSwaps ==
    LET after(c) == {d \in CandidateSwaps :
                        c.from + 1 < d.from /\ ToSet(c.swap) \cap ToSet(d.swap) = {}}
    IN  UNION {{<<c.swap, d.swap>> : d \in after(c)} : c \in CandidateSwaps}

\* _disjoint_nc2_combinations
PairsOfSwaps ==
    LET after(c) == {d \in CandidateSwaps :
                        c.from < d.from /\ ToSet(c.swap) \cap ToSet(d.swap) = {}}
    IN  UNION {{<<c.swap, d.swap>> : d \in after(c)} : c \in CandidateSwaps}

\* The mapping after one swap or two.
MapAfter(s) ==
    LET first == Exchanged(logicalToPhysical, s[1][1], s[1][2])
    IN  IF Len(s) = 1 THEN first ELSE Exchanged(first, s[2][1], s[2][2])

\* _cost: the largest distance and the sum of distances after the swaps.
Cost(s, ops) ==
    LET after == MapAfter(s)
        dist(i) == UndirectedDistOn(after, ops[i].qubits[1], ops[i].qubits[2])
        sum[n \in 0..Len(ops)] == IF n = 0 THEN 0 ELSE sum[n - 1] + dist(n)
    IN  <<Max({0} \cup {dist(i) : i \in DOMAIN ops}), sum[Len(ops)]>>

Cheaper(c, d) == c[1] < d[1] \/ (c[1] = d[1] /\ c[2] < d[2])

Cheapest(sigma, ops) ==
    LET costs == {<<s, Cost(s, ops)>> : s \in sigma}
        best == {c[2] : c \in costs}
    IN  {c[1] : c \in {c \in costs : \A d \in best : ~Cheaper(d, c[2])}}

\* _choose_optimal_swap: the candidates that are left after the timesteps it
\* looks at; it answers None when there are several and it could look no further.
Optimal(sigma) ==
    LET far == Min({radius, Len(double) - timestep + 1})
        left[n \in 0..far] ==
            IF n = 0 THEN sigma
            ELSE LET s == left[n - 1]
                 IN  IF Cardinality(s) <= 1 THEN s ELSE Cheapest(s, double[timestep + n - 1])
    IN  left[far]

LooksFar == timestep - 1 + radius <= Len(double)
IsNone(sigma) == Cardinality(sigma) > 1 /\ LooksFar

\* _brute_force_strategy: along a shortest path between the qubits farthest apart.
FurthestOps ==
    LET dist(op) == UndirectedDistOn(logicalToPhysical, op.qubits[1], op.qubits[2])
    IN  {op \in ToSet(double[timestep]) : \A o \in ToSet(double[timestep]) : dist(o) <= dist(op)}

\* The swaps of the places on the path, as if no qubit had moved.
MutAlongPath(path) == [i \in 1..(Len(path) - 2) |-> <<path[i], path[i + 1]>>]

\* One swap too few.
MutShortPath(path) == [i \in 1..(Len(path) - 3) |-> <<path[1], path[i + 1]>>]

AlongPath(path) == [i \in 1..(Len(path) - 2) |-> <<path[1], path[i + 1]>>]

BruteForceSwaps ==
    UNION {{AlongPath(path) : path \in ShortestPaths(op.qubits[1], op.qubits[2])} : op \in FurthestOps}

-----------------------------------------------------------------------------
(* _route *)

Init ==
    /\ MappingInit
    /\ graph \in Devices /\ circuit \in Circuits /\ radius \in Radii
    /\ start = << >> /\ single = << >> /\ double = << >> /\ routed = << >> /\ final = << >>
    /\ timestep = 0
    /\ seen = {} /\ swaps = << >>
    /\ pc = "call"

Raise(exception) ==
    /\ pc' = exception
    /\ UNCHANGED <<mappingVars, callVars, start, single, double, routed, final, timestep, seen, swaps>>

\* Gates on more than two qubits are refused.
TooLarge(op) == Len(op.qubits) > 2 /\ op.kind = "gate"
Refuse ==
    /\ pc = "call"
    /\ \E i \in DOMAIN AllOperations(circuit) : TooLarge(AllOperations(circuit)[i])
    /\ Raise("ValueError")

\* With the initial mapping m.
Begin(m) ==
    \E steps \in {Timesteps(circuit)} :
        IF steps.raised THEN Raise("ValueError")
        ELSE /\ NewManager(graph, m)
             /\ start' = m
             /\ single' = steps.single /\ double' = steps.double
             /\ pc' = "next"
             /\ UNCHANGED <<callVars, routed, final, timestep, seen, swaps>>

Placeable ==
    /\ pc = "call"
    /\ \A i \in DOMAIN AllOperations(circuit) : ~TooLarge(AllOperations(circuit)[i])

PlaceByCaller ==
    /\ Placeable
    /\ \E m \in InitialMaps : AllQubits(circuit) \subseteq DOMAIN m /\ Begin(m)

PlaceByLine ==
    /\ Placeable
    /\ IF ~HasCenter(graph) THEN Raise("NetworkXError")
       ELSE \E mapping \in {InitialMapping(graph, circuit)} :
                IF mapping.raised # "" THEN Raise(mapping.raised) ELSE Begin(mapping.map)

\* mapped_op: op on the physical qubits its logical ones are on.
MappedOp(op) == [op EXCEPT !.qubits = [i \in DOMAIN op.qubits |-> logicalToPhysical[op.qubits[i]]]]
MappedOps(ops) == [i \in DOMAIN ops |-> MappedOp(ops[i])]

\* The next timestep begins with its operations on one qubit.
NextTimestep ==
    /\ pc = "next" /\ timestep < Len(double)
    /\ timestep' = timestep + 1
    /\ routed' = routed \o MappedOps(single[timestep + 1])
    /\ seen' = {}
    /\ pc' = "process"
    /\ UNCHANGED <<mappingVars, callVars, start, single, double, final, swaps>>

\* _replace_swaps_with_directional_decomposition: an inserted swap on an edge that
\* goes one way only becomes three CNOTs along it.  A swap of the circuit itself is
\* replaced as well, where the code replaces only one that equals an inserted swap;
\* it is along the edge in either case.
Decomposed(op) ==
    LET oneWay == Induced(device, ToSet(op.qubits))
        edge == CHOOSE e \in oneWay : TRUE
        cnot == [op EXCEPT !.id = "CNOT", !.qubits = edge]
        hadamards == <<[op EXCEPT !.id = "H", !.qubits = <<edge[1]>>],
                       [op EXCEPT !.id = "H", !.qubits = <<edge[2]>>]>>
    IN  IF op.id # "SWAP" \/ Cardinality(oneWay) # 1 THEN <<op>>
        ELSE <<cnot>> \o hadamards \o <<cnot>> \o hadamards \o <<cnot>>

Finish ==
    /\ pc = "next" /\ timestep = Len(double)
    /\ final' = IF IsDirected(graph)
                THEN FlattenSeq([i \in DOMAIN routed |-> Decomposed(routed[i])]) ELSE routed
    /\ pc' = "done"
    /\ UNCHANGED <<mappingVars, callVars, start, single, double, routed, timestep, seen, swaps>>

Executable(op) == IsAdjacent(op.qubits[1], op.qubits[2])

\* The elements of s at the positions in T, in their order.
Select(s, T) ==
    LET selected[n \in 0..Len(s)] ==
            IF n = 0 THEN << >>
            ELSE IF n \in T THEN Append(selected[n - 1], s[n]) ELSE selected[n - 1]
    IN  selected[Len(s)]

\* process_executable_two_qubit_ops
ProcessExecutable ==
    /\ pc = "process"
    /\ LET ops == double[timestep]
           near == {i \in DOMAIN ops : Executable(ops[i])}
       IN  /\ routed' = routed \o MappedOps(Select(ops, near))
           /\ double' = [double EXCEPT ![timestep] = Select(ops, DOMAIN ops \ near)]
           /\ pc' = IF near = DOMAIN ops THEN "next" ELSE "choose"
    /\ UNCHANGED <<mappingVars, callVars, start, single, final, timestep, seen, swaps>>

\* Swaps that have been chosen in this timestep before are not chosen again.
Take(chosen) ==
    /\ IF chosen \in seen THEN swaps' \in BruteForceSwaps /\ UNCHANGED seen
                          ELSE swaps' = chosen /\ seen' = seen \cup {chosen}
    /\ pc' = "swap"

\* One swap, else two, else the shortest path.  A list of candidates that is
\* empty has no first element, and the lookup raises IndexError.
ChooseSwaps ==
    /\ pc = "choose"
    /\ \E one \in {Optimal(SingleSwaps)} :
          \E best \in {IF IsNone(one) THEN Optimal(PairsOfSwaps) ELSE one} :
             \/ ~IsNone(best) /\ \E chosen \in best : Take(chosen)
             \/ IsNone(best) /\ swaps' \in BruteForceSwaps /\ pc' = "swap" /\ UNCHANGED seen
             \/ best = {} /\ pc' = "IndexError" /\ UNCHANGED <<swaps, seen>>
    /\ UNCHANGED <<mappingVars, callVars, start, single, double, routed, final, timestep>>

InsertSwap ==
    /\ pc = "swap" /\ swaps # << >>
    /\ LET q == Head(swaps)
       IN  IF CanSwap(q[1], q[2])
           THEN /\ routed' = Append(routed, MappedOp([id |-> "SWAP", kind |-> "gate", qubits |-> q]))
                /\ ApplySwap(q[1], q[2])
                /\ swaps' = Tail(swaps)
                /\ UNCHANGED pc
           ELSE /\ pc' = "SwapRefused"
                /\ UNCHANGED <<mappingVars, routed, swaps>>
    /\ UNCHANGED <<callVars, start, single, double, final, timestep, seen>>

SwapsInserted ==
    /\ pc = "swap" /\ swaps = << >>
    /\ pc' = "process"
    /\ UNCHANGED <<mappingVars, callVars, start, single, double, routed, final, timestep, seen, swaps>>

\* _route and what follows it
Route == NextTimestep \/ ProcessExecutable \/ ChooseSwaps \/ InsertSwap \/ SwapsInserted \/ Finish

Next == Refuse \/ PlaceByCaller \/ PlaceByLine \/ Route

Spec == Init /\ [][Next]_vars

\* One thread, which goes on once it routes.
FairSpec == Spec /\ WF_vars(Route)

-----------------------------------------------------------------------------
(* Properties *)

Exceptions == {"ValueError", "NetworkXError", "KeyError", "IndexError", "SwapRefused"}

TypeOK ==
    /\ MappingTypeOK
    /\ timestep \in 0..Len(double) /\ Len(single) = Len(double)
    /\ pc \in {"call", "next", "process", "choose", "swap", "done"} \cup Exceptions

\* The line mapper places every qubit of the circuit, no two at one place, and
\* leaves no gap: routing works inside the placed qubits and could not cross one.
PlacementFits ==
    pc = "next" /\ timestep = 0 /\ start \notin InitialMaps =>
        /\ DOMAIN start = AllQubits(circuit)
        /\ \A p, q \in DOMAIN start : start[p] = start[q] => p = q
        /\ \A p, q \in DOMAIN start : UndirectedDistOn(start, p, q) < P

\* The line mapper meets the partner of a lone qubit before the qubit itself (no
\* KeyError).  Swaps on a path, done one after the other by logical qubits, and pairs
\* of swaps find their qubits next to each other: apply_swap never refuses one.  And
\* _choose_optimal_swap looks for the first of an empty list only where it can look
\* no further, there is more than one edge at the waiting qubits, and no two of these
\* edges are disjoint.
ExceptionsAreExplained ==
    /\ pc \notin {"KeyError", "SwapRefused"}
    /\ pc = "IndexError" =>
        LET places == {logicalToPhysical[Waiting[k]] : k \in DOMAIN Waiting}
            edges == {{e[1], e[2]} : e \in {d \in Undirected(device) : d[1] \in places}}
        IN  LooksFar /\ Cardinality(edges) > 1 /\ \A e, f \in edges : e \cap f # {}

\* Reading the routed circuit from the initial mapping, with every swap moving
\* two qubits, gives back operations on logical qubits.
Unrouted ==
    LET Read(acc, op) ==
            IF op.id = "SWAP"
            THEN [acc EXCEPT !.p2l = Exchanged(@, op.qubits[1], op.qubits[2])]
            ELSE [acc EXCEPT !.ops = Append(@, [op EXCEPT !.qubits =
                                         [i \in DOMAIN op.qubits |-> acc.p2l[op.qubits[i]]]])]
        read[n \in 0..Len(routed)] ==
            IF n = 0 THEN [ops |-> << >>, p2l |-> Inverted(start)]
            ELSE Read(read[n - 1], routed[n])
    IN  read[Len(routed)]

\* What happens to a qubit: the operations on it and its place in each, where a
\* measurement of many may have become one of it alone.
History(ops, q) ==
    LET own == Select(ops, {i \in DOMAIN ops : q \in ToSet(ops[i].qubits)})
    IN  [i \in DOMAIN own |->
            <<own[i].id, IF own[i].kind = "gate" THEN own[i].qubits ELSE <<q>> >>]

\* A measurement of more than two qubits that is split is put at the earliest timestep of
\* all of them, but takes no place there: what follows it on a qubit that could have been
\* measured earlier may be put before it.  Here no such qubit is used again.
MeasuredInStep ==
    LET visits == Visits(circuit)
        steps == StepsOf(visits)
        AheadAt(n, q) == EarliestTimestep(steps[n - 1].double, [visits[n].op EXCEPT !.qubits = <<q>>])
                            < EarliestTimestep(steps[n - 1].double, visits[n].op)
    IN  \A m, n \in DOMAIN visits :
           n < m /\ Len(visits[n].op.qubits) > 2 =>
              \A q \in ToSet(visits[n].op.qubits) \cap ToSet(visits[m].op.qubits) : ~AheadAt(n, q)

\* No swap of the circuit itself, which Unrouted would take for an inserted one.
WithoutSwaps == \A i \in DOMAIN AllOperations(circuit) : AllOperations(circuit)[i].id # "SWAP"

\* The routed circuit is the circuit: read back, every logical qubit sees its
\* operations, all of them and in their order, and ends where the mapping says.
RoutedIsCircuit ==
    pc \in {"next", "done"} /\ MeasuredInStep /\ WithoutSwaps =>
        LET back == Unrouted
            ops == AllOperations(circuit)
        IN  /\ back.p2l = physicalToLogical
            /\ \A q \in Logical : IsPrefix(History(back.ops, q), History(ops, q))
            /\ pc = "done" => \A q \in Logical : History(back.ops, q) = History(ops, q)

\* Every gate on two qubits is on an edge of the device in its direction, every
\* swap on an edge in one of the two, and in the end nothing is against an edge.
RoutedOpsOnEdges ==
    LET On(ops, edges) == \A op \in ops : Len(op.qubits) = 2 => op.qubits \in edges
        inserted == {op \in ToSet(routed) : op.id = "SWAP"}
    IN  /\ On(inserted, Undirected(device))
        /\ On(ToSet(routed) \ inserted, device)
        /\ On(ToSet(final), device)

\* On an undirected device the swaps of a timestep come to an end, and so does
\* the routing.
RoutingEnds == ~IsDirected(graph) /\ pc # "call" ~> pc \in {"done"} \cup Exceptions
=============================================================================
