---------------------------- MODULE LocalEngine ----------------------------
(***************************************************************************)
(* A simulated local processor in use.  Three parts of it share no state   *)
(* and are explored one at a time: collecting samples through its sampler, *)
(* the reservations on its schedule, and a call of run_batch.              *)
(***************************************************************************)
EXTENDS Collector, LocalSchedule, ProcessorSampler

CONSTANTS
    Requests,       \* sequences of requests given to run_batch
    CircuitsPerJob  \* values of circuits_per_job above one

\* Programs are numbered, and so are the points of sweeps.
ASSUME RequestAssumption ==
    \A q \in Requests : q \in Seq([prog : Nat, reps : Nat, sweeps : Seq(Seq(Nat))])

VARIABLES
    part,        \* the part in use
    requests,    \* programs given to run_batch
    perJob,      \* circuits_per_job of the sampler
    answer       \* what run_batch raised or returned

batchVars == <<requests, perJob, answer>>
vars == <<part, collectorVars, scheduleVars, batchVars>>

NotCalled == [raised |-> FALSE, results |-> << >>]

Init ==
    /\ CollectorInit /\ ScheduleInit
    /\ answer = NotCalled
    /\ \/ part = "batch" /\ requests \in Requests /\ perJob \in CircuitsPerJob
       \/ part \in {"collect", "schedule"} /\ requests = << >> /\ perJob = 1
    /\ part # "collect" => simType = "SYNCHRONOUS"
    /\ part # "schedule" => first = CHOOSE s \in InitialSchedules : TRUE

\* run_batch_async of a sampler that puts several circuits into a job.
CallRunBatch ==
    /\ answer = NotCalled /\ requests # << >>
    /\ answer' = RunBatch(requests, perJob)
    /\ UNCHANGED <<requests, perJob>>

Next ==
    \/ part = "collect" /\ CollectorNext /\ UNCHANGED <<part, scheduleVars, batchVars>>
    \/ part = "schedule" /\ ScheduleNext /\ UNCHANGED <<part, collectorVars, batchVars>>
    \/ part = "batch" /\ CallRunBatch /\ UNCHANGED <<part, collectorVars, scheduleVars>>

Spec == Init /\ [][Next]_vars

\* The scope's thread and the threads of the jobs run on.
Collecting(A) == part = "collect" /\ A /\ UNCHANGED <<part, scheduleVars, batchVars>>
FairSpec ==
    /\ Spec
    /\ WF_vars(Collecting(Loop))
    /\ \A j \in Jobs : WF_vars(Collecting(Thread(j)))

TypeOK == CollectorTypeOK /\ ScheduleTypeOK

\* What run_batch promises however programs are packed into jobs: every program gets the
\* results of its own sweeps, in the order of the programs.  It is kept for a program whose
\* params are one sweep, and for one that is packed with no other; and run_batch raises only
\* if a program with a list of sweeps is next to one that is like it, or has no sweep at all.
\* (Of several programs with a list of as many sweeps, a simulated job runs each on one.)
BatchIsPerProgram ==
    /\ answer.raised => \E i \in DOMAIN requests :
                           Len(requests[i].sweeps) # 1 /\ (~Lone(requests, i) \/ requests[i].sweeps = << >>)
    /\ answer.results # << >> =>
          /\ Len(answer.results) = Len(requests)
          /\ \A i \in DOMAIN requests :
                Len(requests[i].sweeps) = 1 \/ Lone(requests, i) => answer.results[i] = Alone(requests[i])

\* A collection ends, even when jobs fail and tasks of others must be
\* interrupted, whether the jobs run in threads of their own or not.
CollectionIsDone == part = "collect" ~> Ended
=============================================================================
