----------------------------- MODULE MCRouteCQC -----------------------------
(* Instances of RouteCQC for TLC. *)
EXTENDS RouteCQC

Line == {<<0, 1>>, <<1, 2>>, <<2, 3>>, <<3, 4>>}
Ring == Line \cup {<<4, 0>>}
Star == {<<0, 1>>, <<0, 2>>, <<0, 3>>, <<0, 4>>}
Square == {<<0, 1>>, <<1, 2>>, <<2, 3>>, <<3, 0>>, <<0, 4>>, <<4, 0>>}
Fork == {<<0, 1>>, <<1, 2>>, <<2, 3>>, <<2, 4>>}

\* Undirected devices, and a line and a square whose edges go one way.
MCDevices == {Undirected(g) : g \in {Line, Star, Ring, Fork}} \cup {Line, Square}

\* A mapping that moves every qubit, and one of four.
MCMaps == {[q \in Physical |-> (2 * q + 1) % 5], [q \in 0..3 |-> 3 - q]}

Gate(qs) == [kind |-> "gate", qubits |-> qs]
Measure(qs) == [kind |-> "measure", qubits |-> qs]
Gates == {Gate(<<0>>)} \cup {Gate(<<a, b>>) : <<a, b>> \in {<<a, b>> \in (0..3) \X (0..3) : a # b}}
Colliding == {Gate(qs) : qs \in {<<0>>, <<0, 3>>, <<3, 0>>, <<0, 2>>, <<1, 3>>}}
Distant == {Gate(qs) : qs \in {<<0, 2>>, <<3, 1>>, <<0, 4>>}}
Measures == {Measure(<<0, 1, 2>>), [kind |-> "measureKey", qubits |-> <<0, 1, 2>>], Gate(<<0, 1, 2>>),
             Measure(<<2, 0>>), Gate(<<0, 3>>), Gate(<<1>>)}

\* Circuits of n operations, each in a moment of its own.
CircuitsOf(n, ops) ==
    {[i \in 1..n |-> <<[id |-> ToString(i), kind |-> os[i].kind, qubits |-> os[i].qubits]>>] :
        os \in [1..n -> ops]}

\* One moment that needs more qubits than there are.
TooManyQubits == {<<[i \in 1..6 |-> [id |-> ToString(i), kind |-> "gate", qubits |-> <<i>>]]>>}

\* Every circuit of two gates, longer ones of gates that collide, and some with
\* measurements.
MCCircuits == {<< >>} \cup CircuitsOf(2, Gates) \cup CircuitsOf(3, Colliding) \cup CircuitsOf(4, Distant)
                 \cup CircuitsOf(3, Measures) \cup TooManyQubits
=============================================================================
