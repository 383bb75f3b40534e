----------------------------- MODULE MCCircuit -----------------------------
(* An instance of Circuit: one-qubit gates, a two-qubit gate, a measurement   *)
(* and a gate controlled by its result.                                       *)
EXTENDS Circuit

GateQubits ==
    [x \in Ops |-> CASE x \in {"xa", "ya", "ma"} -> {"a"}
                     [] x \in {"xb", "cb"} -> {"b"}
                     [] x = "cz" -> {"a", "b"}]
GateMKeys == [x \in Ops |-> IF x = "ma" THEN {"k"} ELSE {}]
GateCKeys == [x \in Ops |-> IF x = "cb" THEN {"k"} ELSE {}]
=============================================================================
