-------------------------- MODULE MCPlacementCache --------------------------
(* An instance of PlacementCache: gates on one and on two qubits, a           *)
(* measurement, and a gate controlled by its result.                          *)
EXTENDS PlacementCache

GateQubits == [xa |-> {"a"}, cz |-> {"a", "b"}, ma |-> {"a"}, cb |-> {"b"}, mb |-> {"b"}]
GateMKeys == [xa |-> {}, cz |-> {}, ma |-> {"k"}, cb |-> {}, mb |-> {"k"}]
GateCKeys == [xa |-> {}, cz |-> {}, ma |-> {}, cb |-> {"k"}, mb |-> {}]
=============================================================================
