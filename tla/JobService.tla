----------------------------- MODULE JobService -----------------------------
(***************************************************************************)
(* What StreamManager.submit() promises its callers, without streams,      *)
(* queues, message ids or retries: a submission ends at most once, with an *)
(* answer about its own job or with an exception; an answer is given only  *)
(* for a job the service has created, and a job is created at most once    *)
(* and only for a submission that was made.                                *)
(***************************************************************************)
CONSTANTS Execs, NoExec

VARIABLES
    phase,    \* "idle", "running" or "ended"
    answer,   \* the job the submission was answered about, NoExec if none
    made      \* jobs that exist

vars == <<phase, answer, made>>

Init ==
    /\ phase = [e \in Execs |-> "idle"]
    /\ answer = [e \in Execs |-> NoExec]
    /\ made = {}

Begin(e) ==
    /\ phase[e] = "idle"
    /\ phase' = [phase EXCEPT ![e] = "running"]
    /\ UNCHANGED <<answer, made>>

\* A job may come into being after its submission was given up.
Make(e) ==
    /\ phase[e] # "idle"
    /\ e \notin made
    /\ made' = made \cup {e}
    /\ UNCHANGED <<phase, answer>>

EndAnswered(e) ==
    /\ phase[e] = "running"
    /\ e \in made
    /\ phase' = [phase EXCEPT ![e] = "ended"]
    /\ answer' = [answer EXCEPT ![e] = e]
    /\ UNCHANGED made

EndRaised(e) ==
    /\ phase[e] = "running"
    /\ phase' = [phase EXCEPT ![e] = "ended"]
    /\ UNCHANGED <<answer, made>>

Next == \E e \in Execs : Begin(e) \/ Make(e) \/ EndAnswered(e) \/ EndRaised(e)

Spec == Init /\ [][Next]_vars
=============================================================================
