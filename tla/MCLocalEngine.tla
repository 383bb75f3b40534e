--------------------------- MODULE MCLocalEngine ---------------------------
(* Instances of LocalEngine for TLC. *)
EXTENDS LocalEngine

\* Three jobs leave two of five samples, the fourth takes three.
MCReps == <<1, 1, 1, 3, 1>>

\* The default schedule, none at all, one without gaps and one with gaps.
MCInitialSchedules ==
    {<<Slot(0, MaxTime + 1, "UNALLOCATED")>>,
     << >>,
     <<Slot(0, 2, "UNALLOCATED"), Slot(2, 3, "MAINTENANCE"), Slot(3, MaxTime + 1, "UNALLOCATED")>>,
     <<Slot(1, 2, "MAINTENANCE"), Slot(3, 5, "UNALLOCATED")>>}

\* None, one or several sweeps; two sweeps of different lengths can share out equally.
MCSweeps == {<< >>, << <<1>> >>, << <<1, 2>> >>, << <<1>>, <<2>> >>, << <<1>>, <<1, 2, 3>> >>}

\* Up to four programs with one or two repetitions.
MCRequests ==
    UNION {{[i \in 1..n |-> [prog |-> i, reps |-> r[i], sweeps |-> s[i]]] :
               r \in [1..n -> 1..2], s \in [1..n -> MCSweeps]} : n \in 1..4}
=============================================================================
