-------------------------- MODULE MCStreamManager --------------------------
(* Instances of StreamManager for TLC. *)
EXTENDS StreamManager, TLC

CONSTANTS e1, e2, p1

\* All submissions in one program.
SharedProgram == [e \in Execs |-> p1]

\* Submissions of one program, none failing, are interchangeable.
Symmetry == Permutations(Execs)
=============================================================================
