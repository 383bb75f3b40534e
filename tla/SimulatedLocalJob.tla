------------------------- MODULE SimulatedLocalJob -------------------------
(***************************************************************************)
(* Jobs of a SimulatedLocalProcessor (cirq_google/engine/                  *)
(* simulated_local_job.py, simulated_local_processor.py and                *)
(* simulated_local_program.py): the thread that runs a job's circuits, or  *)
(* the caller's own thread when the simulation is synchronous, against     *)
(* cancel() and delete() from other threads.                               *)
(***************************************************************************)
EXTENDS Naturals

CONSTANTS
    Jobs,          \* jobs that may be created
    FlakyJobs,     \* jobs whose circuits the sampler may fail to run
    Interrupters   \* bound on the calls of cancel() and delete()

ASSUME JobAssumption == Interrupters \in Nat

JobStates == {"READY", "RUNNING", "SUCCESS", "FAILURE", "CANCELLED", "STATE_UNSPECIFIED"}

VARIABLES
    simType,    \* LocalSimulationType of the processor
    state,      \* _state of each job, "none" before it is created
    failure,    \* jobs with _failure_code and _failure_message set
    worker,     \* where _execute_results is
    program,    \* jobs their program holds
    calls       \* calls of cancel() and delete()

jobVars == <<simType, state, failure, worker, program, calls>>

JobTypeOK ==
    /\ simType \in {"SYNCHRONOUS", "ASYNCHRONOUS"}
    /\ state \in [Jobs -> JobStates \cup {"none"}]
    /\ failure \subseteq Jobs
    /\ worker \in [Jobs -> {"none", "started", "sampling", "failing", "result", "error"}]
    /\ program \subseteq Jobs
    /\ calls \in 0..Interrupters

JobInit ==
    /\ simType \in {"SYNCHRONOUS", "ASYNCHRONOUS"}
    /\ state = [j \in Jobs |-> "none"]
    /\ failure = {}
    /\ worker = [j \in Jobs |-> "none"]
    /\ program = {}
    /\ calls = 0

\* run_sweep_async: the job's thread starts with it when the simulation is
\* asynchronous; the program gets to know the job.
CreateJob(j) ==
    /\ state' = [state EXCEPT ![j] = "READY"]
    /\ worker' = [worker EXCEPT ![j] = IF simType = "ASYNCHRONOUS" THEN "started" ELSE "none"]
    /\ program' = program \cup {j}
    /\ UNCHANGED <<simType, failure, calls>>

\* results_async of a synchronous job runs the circuits on the caller's thread.
ExecuteNow(j) ==
    /\ worker' = [worker EXCEPT ![j] = "started"]
    /\ UNCHANGED <<simType, state, failure, program, calls>>

\* _execute_results: RUNNING, whatever the state was, ...
WorkerStart(j) ==
    /\ worker[j] = "started"
    /\ worker' = [worker EXCEPT ![j] = "sampling"]
    /\ state' = [state EXCEPT ![j] = "RUNNING"]
    /\ UNCHANGED <<simType, failure, program, calls>>

\* ... then SUCCESS and the results, ...
WorkerSucceeds(j) ==
    /\ worker[j] = "sampling"
    /\ worker' = [worker EXCEPT ![j] = "result"]
    /\ state' = [state EXCEPT ![j] = "SUCCESS"]
    /\ UNCHANGED <<simType, failure, program, calls>>

\* ... or the failure's code and message, and after them the state.
WorkerFails(j) ==
    /\ worker[j] = "sampling" /\ j \in FlakyJobs
    /\ worker' = [worker EXCEPT ![j] = "failing"]
    /\ failure' = failure \cup {j}
    /\ UNCHANGED <<simType, state, program, calls>>

WorkerRaises(j) ==
    /\ worker[j] = "failing"
    /\ worker' = [worker EXCEPT ![j] = "error"]
    /\ state' = [state EXCEPT ![j] = "FAILURE"]
    /\ UNCHANGED <<simType, failure, program, calls>>

Worker(j) == WorkerStart(j) \/ WorkerSucceeds(j) \/ WorkerFails(j) \/ WorkerRaises(j)

\* cancel(), by anyone who got the job from its program.
CancelJob(j) ==
    /\ calls < Interrupters
    /\ state[j] # "none"
    /\ state' = [state EXCEPT ![j] = "CANCELLED"]
    /\ calls' = calls + 1
    /\ UNCHANGED <<simType, failure, worker, program>>

\* delete(): the second one raises before it changes anything.
DeleteJob(j) ==
    /\ calls < Interrupters
    /\ j \in program
    /\ program' = program \ {j}
    /\ state' = [state EXCEPT ![j] = "STATE_UNSPECIFIED"]
    /\ calls' = calls + 1
    /\ UNCHANGED <<simType, failure, worker>>
=============================================================================
