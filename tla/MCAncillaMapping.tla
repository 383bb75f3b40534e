-------------------------- MODULE MCAncillaMapping --------------------------
(* An instance of AncillaMapping: operations on one qubit, on a system and a  *)
(* temporary qubit, and on two borrowable qubits.                             *)
EXTENDS AncillaMapping

OneOrTwo ==
    {<<q>> : q \in System \cup Temps} \cup (System \X Temps)
        \cup {pq \in Borrowable \X Borrowable : pq[1] < pq[2]}
=============================================================================
