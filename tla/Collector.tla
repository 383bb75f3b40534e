----------------------------- MODULE Collector -----------------------------
(***************************************************************************)
(* Collector.collect_async (cirq/work/collector.py) over a                 *)
(* ProcessorSampler (cirq_google/engine/processor_sampler.py) of a         *)
(* simulated local processor: the pool of sampling jobs in flight, each a  *)
(* task of one duet scope that passes the sampler's limiter, creates a job *)
(* and awaits its results.                                                 *)
(*                                                                         *)
(* All tasks run on one thread and give way only where they await.  The    *)
(* duet library is external: a Limiter lets Limit tasks in, an             *)
(* AsyncCollector hands out what was added before it raises the error, and *)
(* a scope left by an exception interrupts its tasks.                      *)
(***************************************************************************)
EXTENDS SimulatedLocalJob, Integers, Sequences, SequencesExt, FiniteSets

CONSTANTS
    Reps,            \* repetitions of each job; jobs are 1..N, in the order of next_job
    Limit,           \* max_concurrent_jobs of the sampler
    Concurrency,     \* concurrency of collect_async
    MaxTotalSamples, \* max_total_samples of collect_async
    MaxBatch         \* bound on the jobs one next_job() returns

ASSUME CollectorAssumption ==
    /\ IsFiniteSet(Jobs) /\ Jobs = 1..Cardinality(Jobs)
    /\ Reps \in [Jobs -> Nat \ {0}]
    /\ Limit \in Nat \ {0} /\ Concurrency \in Nat \ {0}
    /\ MaxTotalSamples \in Nat /\ MaxBatch \in Nat

VARIABLES
    main,       \* where collect_async is
    queued,     \* queued_jobs
    offered,    \* jobs next_job() has returned
    remaining,  \* remaining_samples
    running,    \* running_jobs
    task,       \* run_job of each job
    held,       \* tasks inside the limiter
    buffer,     \* results added and not yet taken
    error,      \* job_error: the job whose error was kept, 0 if none
    delivered,  \* jobs handed to on_job_result, in order
    log         \* jobs whose task has ended by itself, in order

collectorVars == <<main, queued, offered, remaining, running, task, held,
                   buffer, error, delivered, log, jobVars>>

Active == {j \in Jobs : task[j] \in {"spawned", "submitted", "awaiting"}}
Started == {j \in Jobs : task[j] # "none"}

CollectorTypeOK ==
    /\ JobTypeOK
    /\ main \in {"fill", "wait", "raising", "returned", "raised"}
    /\ queued \in Seq(Jobs) /\ buffer \in Seq(Jobs)
    /\ delivered \in Seq(Jobs) /\ log \in Seq(Jobs)
    /\ offered \in 0..Cardinality(Jobs)
    /\ remaining \in Int /\ running \in Int
    /\ task \in [Jobs -> {"none", "spawned", "submitted", "awaiting", "ended", "interrupted"}]
    /\ held \in 0..Limit
    /\ error \in Jobs \cup {0}

CollectorInit ==
    /\ JobInit
    /\ main = "fill"
    /\ queued = << >> /\ buffer = << >> /\ delivered = << >> /\ log = << >>
    /\ offered = 0
    /\ remaining = MaxTotalSamples /\ running = 0
    /\ task = [j \in Jobs |-> "none"]
    /\ held = 0
    /\ error = 0

-----------------------------------------------------------------------------
(* collect_async *)

\* Mutants: one job too many; the limit on samples is not looked at.
MutHasRoom == remaining > 0 /\ running <= Concurrency
MutHasRoomAlways == running < Concurrency

HasRoom == remaining > 0 /\ running < Concurrency

\* Mutant: halt when the samples are used up, without the results under way.
MutStopFilling == main' = IF running = 0 \/ remaining <= 0 THEN "returned" ELSE "wait"

\* The pool is as full as it can be: halt, or wait for a result.
StopFilling == main' = IF running = 0 THEN "returned" ELSE "wait"

\* Ask next_job(): the next jobs, perhaps none for the time being.
AskNextJob ==
    /\ main = "fill" /\ HasRoom /\ queued = << >>
    /\ \E n \in 0..MaxBatch :
          /\ offered + n <= Cardinality(Jobs)
          /\ offered' = offered + n
          /\ queued' = [i \in 1..n |-> offered + i]
          /\ IF n = 0 THEN StopFilling ELSE UNCHANGED main
    /\ UNCHANGED <<remaining, running, task, held, buffer, error, delivered, log, jobVars>>

StartJob ==
    /\ main = "fill" /\ HasRoom /\ queued # << >>
    /\ queued' = Tail(queued)
    /\ remaining' = remaining - Reps[Head(queued)]
    /\ running' = running + 1
    /\ task' = [task EXCEPT ![Head(queued)] = "spawned"]
    /\ UNCHANGED <<main, offered, held, buffer, error, delivered, log, jobVars>>

PoolIsFull ==
    /\ main = "fill" /\ ~HasRoom
    /\ StopFilling
    /\ UNCHANGED <<queued, offered, remaining, running, task, held, buffer, error,
                   delivered, log, jobVars>>

\* The one thread of the scope: not in the middle of a task's step, and not
\* inside a synchronous simulation.
LoopFree ==
    /\ \A j \in Jobs : task[j] # "submitted"
    /\ simType = "SYNCHRONOUS" =>
          \A j \in Jobs : worker[j] \notin {"started", "sampling", "failing"}

\* Mutant: the job whose result is taken still counts as running.
MutTakeResult ==
    /\ main = "wait" /\ LoopFree /\ buffer # << >>
    /\ buffer' = Tail(buffer)
    /\ delivered' = Append(delivered, Head(buffer))
    /\ main' = "fill"
    /\ UNCHANGED <<queued, offered, remaining, running, task, held, error, log, jobVars>>

\* results.__anext__: what has been added comes before the error.
TakeResult ==
    /\ main = "wait" /\ LoopFree /\ buffer # << >>
    /\ buffer' = Tail(buffer)
    /\ running' = running - 1
    /\ delivered' = Append(delivered, Head(buffer))
    /\ main' = "fill"
    /\ UNCHANGED <<queued, offered, remaining, task, held, error, log, jobVars>>

TakeError ==
    /\ main = "wait" /\ LoopFree /\ buffer = << >> /\ error # 0
    /\ main' = "raising"
    /\ UNCHANGED <<queued, offered, remaining, running, task, held, buffer, error,
                   delivered, log, jobVars>>

\* The scope ends when its tasks have.
LeaveScope ==
    /\ main = "raising" /\ Active = {}
    /\ main' = "raised"
    /\ UNCHANGED <<queued, offered, remaining, running, task, held, buffer, error,
                   delivered, log, jobVars>>

-----------------------------------------------------------------------------
(* run_job and ProcessorSampler._run_sweep_async *)

\* Leaving the limiter, by a result, an exception or an interruption.
Release == held' = held - 1

\* Mutant: the limiter is not entered in turn.
MutSubmit(j) ==
    /\ main = "wait" /\ LoopFree /\ task[j] = "spawned"
    /\ held' = held + 1
    /\ task' = [task EXCEPT ![j] = "submitted"]
    /\ CreateJob(j)
    /\ UNCHANGED <<main, queued, offered, remaining, running, buffer, error, delivered, log>>

Submit(j) ==
    /\ main = "wait" /\ LoopFree /\ task[j] = "spawned"
    /\ held < Limit
    /\ held' = held + 1
    /\ task' = [task EXCEPT ![j] = "submitted"]
    /\ CreateJob(j)
    /\ UNCHANGED <<main, queued, offered, remaining, running, buffer, error, delivered, log>>

AwaitResults(j) ==
    /\ task[j] = "submitted"
    /\ task' = [task EXCEPT ![j] = "awaiting"]
    /\ IF simType = "SYNCHRONOUS" THEN ExecuteNow(j) ELSE UNCHANGED jobVars
    /\ UNCHANGED <<main, queued, offered, remaining, running, held, buffer, error,
                   delivered, log>>

\* Mutant: results that come after an error are added all the same.
MutFinishOk(j) ==
    /\ main = "wait" /\ LoopFree /\ task[j] = "awaiting" /\ worker[j] = "result"
    /\ task' = [task EXCEPT ![j] = "ended"]
    /\ Release
    /\ buffer' = Append(buffer, j)
    /\ log' = Append(log, j)
    /\ UNCHANGED <<main, queued, offered, remaining, running, error, delivered, jobVars>>

\* The job has its results: run_job adds them unless a job has failed before.
FinishOk(j) ==
    /\ main = "wait" /\ LoopFree /\ task[j] = "awaiting" /\ worker[j] = "result"
    /\ task' = [task EXCEPT ![j] = "ended"]
    /\ Release
    /\ buffer' = IF error = 0 THEN Append(buffer, j) ELSE buffer
    /\ log' = Append(log, j)
    /\ UNCHANGED <<main, queued, offered, remaining, running, error, delivered, jobVars>>

\* The job has failed: run_job keeps the first error.
FinishError(j) ==
    /\ main = "wait" /\ LoopFree /\ task[j] = "awaiting" /\ worker[j] = "error"
    /\ task' = [task EXCEPT ![j] = "ended"]
    /\ Release
    /\ error' = IF error = 0 THEN j ELSE error
    /\ log' = Append(log, j)
    /\ UNCHANGED <<main, queued, offered, remaining, running, buffer, delivered, jobVars>>

\* Mutant: an interrupted task keeps its place in the limiter.
MutInterrupt(j) ==
    /\ main = "raising" /\ j \in Active
    /\ task' = [task EXCEPT ![j] = "interrupted"]
    /\ UNCHANGED <<main, queued, offered, remaining, running, held, buffer, error, delivered,
                   log, jobVars>>

\* A task is interrupted, in or before the limiter; its job's thread goes on.
Interrupt(j) ==
    /\ main = "raising" /\ j \in Active
    /\ task' = [task EXCEPT ![j] = "interrupted"]
    /\ IF task[j] = "spawned" THEN UNCHANGED held ELSE Release
    /\ UNCHANGED <<main, queued, offered, remaining, running, buffer, error, delivered,
                   log, jobVars>>

-----------------------------------------------------------------------------
Loop ==
    \/ AskNextJob \/ StartJob \/ PoolIsFull \/ TakeResult \/ TakeError \/ LeaveScope
    \/ \E j \in Jobs : Submit(j) \/ AwaitResults(j) \/ FinishOk(j) \/ FinishError(j) \/ Interrupt(j)

\* The threads of the jobs, and those that cancel or delete them.
Thread(j) ==
    /\ Worker(j)
    /\ UNCHANGED <<main, queued, offered, remaining, running, task, held, buffer, error,
                   delivered, log>>

Meddle(j) ==
    /\ CancelJob(j) \/ DeleteJob(j)
    /\ UNCHANGED <<main, queued, offered, remaining, running, task, held, buffer, error,
                   delivered, log>>

CollectorNext == Loop \/ \E j \in Jobs : Thread(j) \/ Meddle(j)

-----------------------------------------------------------------------------
(* Properties *)

Ended == main \in {"returned", "raised"}

\* The repetitions of jobs 1..n.
SamplesOf[n \in 0..Cardinality(Jobs)] == IF n = 0 THEN 0 ELSE SamplesOf[n - 1] + Reps[n]

\* However late results and errors are noticed, no more than Concurrency sampling
\* jobs are under way; jobs are started in the order next_job() gave them, and though
\* they may ask for more samples than max_total_samples, only the last one can cross
\* the limit.  When collect has ended, with or without an error, none of its tasks is
\* left and every place in the sampler's limiter is free again.
LimitsAreKept ==
    /\ Cardinality(Active) <= Concurrency
    /\ \A j \in Started : 1..j \subseteq Started /\ SamplesOf[j - 1] < MaxTotalSamples
    /\ Ended => held = 0 /\ Active = {}

IsFailed(j) == worker[j] = "error"
BeforeError ==
    LET n == CHOOSE n \in 0..Len(log) :
                /\ \A i \in 1..n : ~IsFailed(log[i])
                /\ n < Len(log) => IsFailed(log[n + 1])
    IN  SubSeq(log, 1, n)

\* The results handed to the collector are those of the tasks that ended before
\* the first error, in that order, none twice; all of them once collect ends.  It
\* returns normally only when no job has failed and every job it started has been
\* handed to on_job_result.
DeliveredBeforeError ==
    /\ IsPrefix(delivered, BeforeError)
    /\ Ended => delivered = BeforeError
    /\ main = "returned" => error = 0 /\ ToSet(delivered) = Started
=============================================================================
