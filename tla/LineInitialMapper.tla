-------------------------- MODULE LineInitialMapper -------------------------
(***************************************************************************)
(* LineInitialMapper (cirq/transformers/routing/line_initial_mapper.py):   *)
(* the logical qubits of a circuit are strung into lines, and the lines    *)
(* are laid on the device from its center.                                 *)
(***************************************************************************)
EXTENDS DeviceGraph

\* A circuit is a sequence of moments, a moment a sequence of operations, and an
\* operation has the field qubits, a sequence of logical qubits.
AllOperations(circuit) == FlattenSeq(circuit)
AllQubits(circuit) ==
    UNION {ToSet(AllOperations(circuit)[i].qubits) : i \in DOMAIN AllOperations(circuit)}

-----------------------------------------------------------------------------
(* _make_circuit_graph: a component is named by the qubit it began with. *)

NoLines(qs) == [line |-> [q \in qs |-> <<q>>],     \* circuit_graph
                component |-> [q \in qs |-> q],    \* component_id
                partner |-> [q \in qs |-> q]]      \* partners; itself: none

DegreeLtTwo(g, q) == LET line == g.line[g.component[q]] IN q \in {Head(line), Last(line)}

\* A line after the first n qubits of order have been put at it, each at the left
\* while the line begins with q0.
Joined(line, q0, order) ==
    LET joined[n \in 0..Len(order)] ==
            IF n = 0 THEN line
            ELSE IF Head(joined[n - 1]) = q0 THEN <<order[n]>> \o joined[n - 1]
            ELSE Append(joined[n - 1], order[n])
    IN  joined

\* Line c1, from q1 on, is copied to line c0, at its end q0.
CopyLine(g, c0, q0, c1, q1) ==
    LET order == IF Last(g.line[c1]) = q1 THEN Reverse(g.line[c1]) ELSE g.line[c1]
    IN  [g EXCEPT !.line[c0] = Joined(g.line[c0], q0, order)[Len(order)],
                  !.component = [q \in DOMAIN @ |-> IF q \in ToSet(order) THEN c0 ELSE @[q]]]

AddEdge(g, op) ==
    LET q0 == op.qubits[1]
        q1 == op.qubits[2]
        c0 == g.component[q0]
        c1 == g.component[q1]
        met == [g EXCEPT !.partner = [g.partner EXCEPT ![q0] = IF @ = q0 THEN q1 ELSE @,
                                                       ![q1] = IF @ = q1 THEN q0 ELSE @]]
    IN  IF ~(DegreeLtTwo(g, q0) /\ DegreeLtTwo(g, q1) /\ c0 # c1) THEN met
        ELSE IF Len(g.line[c0]) < Len(g.line[c1]) THEN CopyLine(met, c1, q1, c0, q0)
        ELSE CopyLine(met, c0, q0, c1, q1)

\* The lines after the first n operations.
CircuitGraphs(ops, qs) ==
    LET graphs[n \in 0..Len(ops)] ==
            IF n = 0 THEN NoLines(qs)
            ELSE IF Len(ops[n].qubits) # 2 THEN graphs[n - 1]
            ELSE AddEdge(graphs[n - 1], ops[n])
    IN  graphs
MakeCircuitGraph(circuit) ==
    CircuitGraphs(AllOperations(circuit), AllQubits(circuit))[Len(AllOperations(circuit))]

\* The lines in use, the longest first.
LinesOf(g) ==
    LET Before(c, d) == \/ Len(g.line[c]) > Len(g.line[d])
                        \/ Len(g.line[c]) = Len(g.line[d]) /\ c < d
        components == InOrder({g.component[q] : q \in DOMAIN g.component}, Before)
    IN  [i \in DOMAIN components |-> g.line[components[i]]]

-----------------------------------------------------------------------------
(* initial_mapping *)

\* _closest_unmapped_qubit; P: there is none, and the code raises ValueError.
ClosestUnmapped(device, source, mapped) ==
    LET met == BreadthFirst(device, source)
        free == {i \in DOMAIN met : met[i] \notin mapped}
    IN  IF free = {} THEN P ELSE met[Min(free)]

\* The first neighbor of highest degree.
Preferred(device, qs) ==
    CHOOSE x \in qs : \A y \in qs : \/ Degree(device, x) > Degree(device, y)
                                    \/ Degree(device, x) = Degree(device, y) /\ x <= y

\* Neighbors that carry a qubit already are taken again.
MutNextPhysical(device, current, mapped, partner, isolated) ==
    IF current \notin mapped THEN current
    ELSE IF ~isolated THEN Preferred(device, Neighbors(device, current))
    ELSE ClosestUnmapped(device, partner, mapped)

NextPhysical(device, current, mapped, partner, isolated) ==
    LET free == Neighbors(device, current) \ mapped
    IN  IF current \notin mapped THEN current
        ELSE IF ~isolated /\ free # {} THEN Preferred(device, free)
        ELSE ClosestUnmapped(device, partner, mapped)

\* The placement, and the exception that ended it, if any, with qubit lq placed.
Place(device, g, acc, lq) ==
    LET isolated == Len(g.line[g.component[lq]]) = 1
        hasPartner == isolated /\ g.partner[lq] # lq
        source == IF hasPartner THEN acc.map[g.partner[lq]] ELSE Center(device)
        pq == NextPhysical(device, acc.pq, Range(acc.map), source, isolated)
    IN  IF acc.raised # "" THEN acc
        ELSE IF hasPartner /\ g.partner[lq] \notin DOMAIN acc.map
             THEN [acc EXCEPT !.raised = "KeyError"]
        ELSE IF pq = P THEN [acc EXCEPT !.raised = "ValueError"]
        ELSE [acc EXCEPT !.pq = pq,
                         !.map = [q \in DOMAIN @ \cup {lq} |-> IF q = lq THEN pq ELSE @[q]]]

\* The placement of the first n of the qubits qs.
Placements(device, g, qs) ==
    LET placed[n \in 0..Len(qs)] ==
            IF n = 0 THEN [pq |-> Center(device), map |-> << >>, raised |-> ""]
            ELSE Place(device, g, placed[n - 1], qs[n])
    IN  placed

\* The placement of circuit's qubits, line by line.
InitialMapping(device, circuit) ==
    LET g == MakeCircuitGraph(circuit)
        qs == FlattenSeq(LinesOf(g))
    IN  Placements(device, g, qs)[Len(qs)]
=============================================================================
