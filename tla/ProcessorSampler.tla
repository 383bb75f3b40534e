-------------------------- MODULE ProcessorSampler --------------------------
(***************************************************************************)
(* ProcessorSampler (cirq_google/engine/processor_sampler.py) on a         *)
(* simulated local processor: how run_batch_async puts programs with equal *)
(* repetitions and equal params into jobs of up to circuits_per_job        *)
(* programs, what such a job returns, and how its results are taken apart  *)
(* again.                                                                  *)
(***************************************************************************)
EXTENDS Naturals, Sequences, SequencesExt

\* Mutant: params are not compared.
MutSameBatch(r, s) == r.reps = s.reps

\* A request is a program with its repetitions and the sweeps that to_sweeps makes of
\* its params, each the sequence of its points: a Sweep or a resolver is one sweep, a
\* list of resolvers as many as it has.  Params are equal when their sweeps are.
SameBatch(r, s) == r.reps = s.reps /\ r.sweeps = s.sweeps

\* A batch takes the next request while it has room and the request is like its
\* first; otherwise the request opens a batch.
AddRequest(batches, r, circuitsPerJob) ==
    IF /\ batches # << >>
       /\ Len(Last(batches)) < circuitsPerJob
       /\ SameBatch(Last(batches)[1], r)
    THEN [batches EXCEPT ![Len(batches)] = Append(@, r)]
    ELSE Append(batches, <<r>>)

\* The two loops that form the batches, after each request.
Batches(requests, circuitsPerJob) ==
    LET batches[n \in 0..Len(requests)] ==
            IF n = 0 THEN << >>
            ELSE AddRequest(batches[n - 1], requests[n], circuitsPerJob)
    IN  batches

\* Mutant: a sweep is not given to every program.
MutJobSweeps(batch) == batch[1].sweeps

\* A simulated job runs the batch with the sweeps of its first request: one sweep goes
\* to every program, and one program takes every sweep.
JobSweeps(batch) ==
    LET sweeps == batch[1].sweeps
    IN  IF Len(sweeps) = 1 /\ Len(batch) > 1 THEN [i \in 1..Len(batch) |-> sweeps[1]] ELSE sweeps

JobPrograms(batch) ==
    LET n == Len(batch[1].sweeps)
    IN  IF Len(batch) = 1 /\ n > 1 THEN [i \in 1..n |-> batch[1].prog]
        ELSE [i \in 1..Len(batch) |-> batch[i].prog]

\* The sampler pairs them, and the job puts the results of the pairs into one list.
Sampled(programs, sweeps, reps) ==
    LET results[n \in 0..Len(programs)] ==
            IF n = 0 THEN << >>
            ELSE results[n - 1] \o [k \in 1..Len(sweeps[n]) |->
                     [prog |-> programs[n], reps |-> reps, point |-> sweeps[n][k]]]
    IN  results[Len(programs)]

JobResults(batch) == Sampled(JobPrograms(batch), JobSweeps(batch), batch[1].reps)

\* ValueError: the sampler finds no pair for a program or a sweep, or the results
\* cannot be shared out equally.
Refused(batch) ==
    \/ Len(JobPrograms(batch)) # Len(JobSweeps(batch))
    \/ Len(JobResults(batch)) % Len(batch) # 0

\* The loop over all_batch_results: equal shares, in order.
Regroup(batch, res) ==
    LET n == Len(res) \div Len(batch)
    IN  [j \in 1..Len(batch) |-> SubSeq(res, (j - 1) * n + 1, j * n)]

\* final_results, after each batch.
FinalResults(batches) ==
    LET final[n \in 0..Len(batches)] ==
            IF n = 0 THEN << >>
            ELSE final[n - 1] \o Regroup(batches[n], JobResults(batches[n]))
    IN  final

\* An exception of one job, or the one of its results, is that of the call.
RunBatch(requests, circuitsPerJob) ==
    LET batches == Batches(requests, circuitsPerJob)[Len(requests)]
    IN  IF \E n \in 1..Len(batches) : Refused(batches[n])
        THEN [raised |-> TRUE, results |-> << >>]
        ELSE [raised |-> FALSE, results |-> FinalResults(batches)[Len(batches)]]

\* No neighbour is like it: it is packed with no other.
Lone(requests, i) == \A j \in {i - 1, i + 1} \cap 1..Len(requests) : ~SameBatch(requests[i], requests[j])

\* Reference: every program alone, on every point of all its sweeps.
Alone(r) == Sampled([i \in 1..Len(r.sweeps) |-> r.prog], r.sweeps, r.reps)
=============================================================================
