----------------------------- MODULE EngineJob -----------------------------
(***************************************************************************)
(* One EngineJob object (cirq_google/engine/engine_job.py), shared by      *)
(* several callers, against the Quantum Engine service: the job it caches, *)
(* the wait for the result over the stream or by polling, the job that is  *)
(* not found and is created again (engine.py), and the retries of unary    *)
(* calls (engine_client.py).                                               *)
(*                                                                         *)
(* A unary call is three steps, its sending, the service's handling of it  *)
(* (Serve) and the arrival of the reply, because a coroutine that awaits   *)
(* the reply assigns it to the object after others have run.               *)
(*                                                                         *)
(* The service and the stream's future are external.  The future keeps     *)
(* what JobService promises: it ends at most once, with an answer only     *)
(* about a job that exists, and the job may come into being after the      *)
(* submission has failed (StreamCreate).                                   *)
(***************************************************************************)
EXTENDS Naturals, FiniteSets

CONSTANTS
    Callers,      \* coroutines that use the object, one call each
    Ids,          \* job ids
    StreamedId,   \* the id chosen when the job was submitted
    MaxTries,     \* attempts of a unary call (100 ms doubling to the maximal delay)
    MaxDeletes,   \* bound on deletions of the job
    HasTimeout    \* the context has a timeout for polling

ASSUME EngineJobAssumption ==
    /\ StreamedId \in Ids
    /\ MaxTries \in Nat \ {0}
    /\ MaxDeletes \in Nat
    /\ HasTimeout \in BOOLEAN

TERMINAL_STATES == {"SUCCESS", "FAILURE", "CANCELLED"}
States == {"READY", "RUNNING"} \cup TERMINAL_STATES

VARIABLES
    \* fields of the EngineJob
    job,        \* state in the cached _job, "none" for None
    results,    \* state of the job _results were fetched of, "none" for None
    jobId,      \* job_id
    hasFuture,  \* _job_result_future is set
    recreate,   \* _recreate_job is set
    \* callers
    pc,         \* where the caller is in its call
    reply,      \* reply of its outstanding unary call, "none" before it
    tries,      \* attempts of that call so far
    out,        \* how its call ended
    \* service and stream
    program,    \* the program exists
    svc,        \* state of each job, "absent" if there is none
    wire,       \* the stream's request may still reach the service
    fut,        \* outcome of the stream's future
    \* history
    past,       \* states jobs have been in
    made,       \* number of jobs created
    deletes,    \* number of jobs deleted
    races       \* what may make a creation meet its own job, or a job vanish

fields == <<job, results, jobId, hasFuture, recreate>>
service == <<program, svc, wire, fut, past, made, deletes>>
vars == <<fields, pc, reply, tries, out, service, races>>

Outcomes == [how : {"none", "result", "failed", "NOT_FOUND", "CONFLICT",
                    "unavailable", "timeout", "stream", "looked"},
             state : States \cup {"none"}]
Unary == {"get", "createProgram", "createJob", "fetch", "look", "update"}

TypeOK ==
    /\ job \in States \cup {"none"}
    /\ results \in States \cup {"none"}
    /\ jobId \in Ids
    /\ hasFuture \in BOOLEAN
    /\ recreate \in BOOLEAN
    /\ pc \in [Callers -> Unary \cup {"idle", "future", "poll", "done"}]
    /\ reply \in [Callers -> States \cup {"none", "ok", "NOT_FOUND", "CONFLICT", "unavailable"}]
    /\ tries \in [Callers -> 1..MaxTries]
    /\ out \in [Callers -> Outcomes]
    /\ program \in BOOLEAN
    /\ svc \in [Ids -> States \cup {"absent"}]
    /\ wire \in BOOLEAN
    /\ fut \in States \cup {"none", "pending", "StreamError", "GoogleAPICallError"}
    /\ past \subseteq States
    /\ made \in Nat
    /\ deletes \in 0..MaxDeletes
    /\ races \subseteq {"late", "lost", "taken"}

-----------------------------------------------------------------------------
(* How an EngineJob comes into being. *)

\* Mutant: the job is given no way to recreate it.
MutInitStreaming ==
    /\ job = "none" /\ hasFuture = TRUE /\ recreate = FALSE
    /\ program = FALSE /\ svc = [i \in Ids |-> "absent"]
    /\ wire = TRUE /\ fut = "pending"
    /\ past = {} /\ made = 0

\* Engine.run_sweep_async with streaming: no job yet, a future, a way to recreate.
InitStreaming ==
    /\ job = "none" /\ hasFuture = TRUE /\ recreate = TRUE
    /\ program = FALSE /\ svc = [i \in Ids |-> "absent"]
    /\ wire = TRUE /\ fut = "pending"
    /\ past = {} /\ made = 0

\* Without streaming: the job was created by unary calls and its state cached.
InitUnary ==
    /\ job = "READY" /\ hasFuture = FALSE /\ recreate = FALSE
    /\ program = TRUE /\ svc = [i \in Ids |-> IF i = StreamedId THEN "READY" ELSE "absent"]
    /\ wire = FALSE /\ fut = "none"
    /\ past = {"READY"} /\ made = 1

Init ==
    /\ InitStreaming \/ InitUnary
    /\ results = "none"
    /\ jobId = StreamedId
    /\ pc = [c \in Callers |-> "idle"]
    /\ reply = [c \in Callers |-> "none"]
    /\ tries = [c \in Callers |-> 1]
    /\ out = [c \in Callers |-> [how |-> "none", state |-> "none"]]
    /\ deletes = 0
    /\ races = {}

-----------------------------------------------------------------------------
(* Moves of a caller. *)

Goto(c, l) ==
    /\ pc' = [pc EXCEPT ![c] = l]
    /\ reply' = [reply EXCEPT ![c] = "none"]
    /\ tries' = [tries EXCEPT ![c] = 1]
    /\ UNCHANGED out

End(c, how, s) ==
    /\ pc' = [pc EXCEPT ![c] = "done"]
    /\ reply' = [reply EXCEPT ![c] = "none"]
    /\ tries' = [tries EXCEPT ![c] = 1]
    /\ out' = [out EXCEPT ![c] = [how |-> how, state |-> s]]

\* results_async: the cached results, or the wait for them.
CallResults(c) ==
    /\ pc[c] = "idle"
    /\ IF results # "none" THEN End(c, "result", results)
       ELSE Goto(c, IF hasFuture THEN "future" ELSE "poll")
    /\ UNCHANGED <<fields, service, races>>

\* execution_status() and status() refresh the cached job ...
NeedsRefresh == job \notin TERMINAL_STATES

CallStatus(c) ==
    /\ pc[c] = "idle"
    /\ IF NeedsRefresh THEN Goto(c, "look") ELSE End(c, "looked", job)
    /\ UNCHANGED <<fields, service, races>>

\* ... failure(), description(), labels() and others answer from it.
CallInner(c) ==
    /\ pc[c] = "idle"
    /\ IF job = "none" THEN Goto(c, "look") ELSE End(c, "looked", job)
    /\ UNCHANGED <<fields, service, races>>

\* set_description() and the changes of labels return the job as it is now.
CallUpdate(c) ==
    /\ pc[c] = "idle"
    /\ Goto(c, "update")
    /\ UNCHANGED <<fields, service, races>>

\* The reply of status() or of an update is assigned to the object.
GotLook(c) ==
    /\ pc[c] \in {"look", "update"}
    /\ reply[c] \in States
    /\ job' = reply[c]
    /\ End(c, "looked", reply[c])
    /\ UNCHANGED <<results, jobId, hasFuture, recreate, service, races>>

\* _await_result_async: the stream's future answers with a result ...
FutureResult(c) ==
    /\ pc[c] = "future" /\ fut = "SUCCESS"
    /\ results' = fut
    /\ End(c, "result", fut)
    /\ UNCHANGED <<job, jobId, hasFuture, recreate, service, races>>

\* ... or with a job, which has failed, ...
FutureJob(c) ==
    /\ pc[c] = "future" /\ fut \in TERMINAL_STATES \ {"SUCCESS"}
    /\ job' = fut
    /\ End(c, "failed", fut)
    /\ UNCHANGED <<results, jobId, hasFuture, recreate, service, races>>

\* ... or fails: a StreamError is passed over, another error is raised.
FutureError(c) ==
    /\ pc[c] = "future"
    /\ \/ fut = "StreamError" /\ Goto(c, "poll")
       \/ fut = "GoogleAPICallError" /\ End(c, "stream", "none")
    /\ UNCHANGED <<fields, service, races>>

\* Mutant: the results are asked for whatever the job's state.
MutAfterPolling(c, s) == Goto(c, "fetch")

\* _raise_on_failure, and the request for the results of a job that succeeded.
AfterPolling(c, s) ==
    IF s = "SUCCESS" THEN Goto(c, "fetch") ELSE End(c, "failed", s)

\* Mutant: the loop looks at the cached job, which nothing refreshes.
MutPoll(c) ==
    /\ pc[c] = "poll"
    /\ IF job = "none" THEN Goto(c, "get")
       ELSE IF NeedsRefresh THEN Goto(c, "poll") ELSE AfterPolling(c, job)
    /\ UNCHANGED <<fields, service, races>>

\* _await_completion_by_polling: a terminal state in the cache ends it.
Poll(c) ==
    /\ pc[c] = "poll"
    /\ IF NeedsRefresh THEN Goto(c, "get") ELSE AfterPolling(c, job)
    /\ UNCHANGED <<fields, service, races>>

\* Mutant: the loop ends with the first poll.
MutPollReply(c) ==
    /\ pc[c] = "get" /\ reply[c] \in States
    /\ job' = reply[c]
    /\ AfterPolling(c, reply[c])
    /\ UNCHANGED <<results, jobId, hasFuture, recreate, service, races>>

PollReply(c) ==
    /\ pc[c] = "get" /\ reply[c] \in States
    /\ job' = reply[c]
    /\ IF reply[c] \in TERMINAL_STATES THEN AfterPolling(c, reply[c]) ELSE Goto(c, "poll")
    /\ UNCHANGED <<results, jobId, hasFuture, recreate, service, races>>

\* The timeout scope around the polling loop.
PollTimeout(c) ==
    /\ HasTimeout
    /\ pc[c] \in {"poll", "get"}
    /\ End(c, "timeout", "none")
    /\ UNCHANGED <<fields, service, races>>

\* Mutant: the way to recreate the job is not given up.
MutStartRecreate(c) ==
    /\ pc[c] = "get" /\ reply[c] = "NOT_FOUND" /\ recreate
    /\ races' = races \cup {"taken"}
    /\ Goto(c, "createProgram")
    /\ UNCHANGED <<fields, service>>

\* The job is not there: create it again, once, or raise.
StartRecreate(c) ==
    /\ pc[c] = "get" /\ reply[c] = "NOT_FOUND" /\ recreate
    /\ recreate' = FALSE
    /\ races' = races \cup {"taken"}
    /\ Goto(c, "createProgram")
    /\ UNCHANGED <<job, results, jobId, hasFuture, service>>

PollNotFound(c) ==
    /\ pc[c] = "get" /\ reply[c] = "NOT_FOUND" /\ ~recreate
    /\ End(c, "NOT_FOUND", "none")
    /\ UNCHANGED <<fields, service, races>>

\* create_program_and_job: a program that exists already is used.
ProgramReply(c) ==
    /\ pc[c] = "createProgram" /\ reply[c] \in {"ok", "CONFLICT"}
    /\ Goto(c, "createJob")
    /\ UNCHANGED <<fields, service, races>>

\* Mutant: the job is created again under an id of its own.
MutRecreateId == CHOOSE i \in Ids : i # StreamedId

\* The id the job is created with: the one the stream was asked for.
RecreateId == StreamedId

\* The new EngineJob's fields are copied into this one, and polling starts over.
JobReply(c) ==
    /\ pc[c] = "createJob" /\ reply[c] \in States
    /\ job' = reply[c]
    /\ results' = "none"
    /\ jobId' = RecreateId
    /\ hasFuture' = FALSE
    /\ Goto(c, "poll")
    /\ UNCHANGED <<recreate, service, races>>

\* Any other answer to a unary call is raised.
UnaryError(c) ==
    /\ \/ pc[c] = "createJob" /\ reply[c] = "CONFLICT"
       \/ pc[c] \in {"fetch", "look", "update"} /\ reply[c] = "NOT_FOUND"
    /\ End(c, reply[c], "none")
    /\ UNCHANGED <<fields, service, races>>

\* get_job_results has answered: results_async caches the results.
FetchReply(c) ==
    /\ pc[c] = "fetch" /\ reply[c] \in States
    /\ results' = reply[c]
    /\ End(c, "result", reply[c])
    /\ UNCHANGED <<job, jobId, hasFuture, recreate, service, races>>

\* Mutant: the attempts are not bounded.
MutRetry(c) ==
    /\ reply[c] = "unavailable"
    /\ reply' = [reply EXCEPT ![c] = "none"]
    /\ tries' = [tries EXCEPT ![c] = @ + 1]
    /\ UNCHANGED <<pc, out, fields, service, races>>

\* _run_retry_async: try again while the delay is below the maximum.
Retry(c) ==
    /\ reply[c] = "unavailable"
    /\ IF tries[c] < MaxTries
       THEN /\ reply' = [reply EXCEPT ![c] = "none"]
            /\ tries' = [tries EXCEPT ![c] = @ + 1]
            /\ UNCHANGED <<pc, out>>
       ELSE End(c, "unavailable", "none")
    /\ UNCHANGED <<fields, service, races>>

-----------------------------------------------------------------------------
(* The service and the stream. *)

SetJob(i, s) ==
    /\ svc' = [svc EXCEPT ![i] = s]
    /\ past' = past \cup {s}
    /\ made' = IF svc[i] = "absent" THEN made + 1 ELSE made

\* The service handles the call caller c waits for, and answers r.
Handle(c, r) ==
    \/ /\ pc[c] \in {"get", "fetch", "look", "update"}
       /\ r = IF svc[jobId] = "absent" THEN "NOT_FOUND" ELSE svc[jobId]
       /\ UNCHANGED <<program, svc, past, made>>
    \/ /\ pc[c] = "createProgram"
       /\ r = IF program THEN "CONFLICT" ELSE "ok"
       /\ program' = TRUE
       /\ UNCHANGED <<svc, past, made>>
    \/ /\ pc[c] = "createJob"
       /\ r = IF svc[RecreateId] = "absent" THEN "READY" ELSE "CONFLICT"
       /\ IF svc[RecreateId] = "absent" THEN SetJob(RecreateId, "READY")
                                        ELSE UNCHANGED <<svc, past, made>>
       /\ UNCHANGED program

Replies == States \cup {"ok", "NOT_FOUND", "CONFLICT"}

Serve(c) ==
    /\ reply[c] = "none"
    /\ \E r \in Replies : Handle(c, r) /\ reply' = [reply EXCEPT ![c] = r]
    /\ UNCHANGED <<fields, pc, tries, out, wire, fut, deletes, races>>

\* An error 500 or 503, before the service has handled the call ...
Unavailable(c) ==
    /\ pc[c] \in Unary /\ reply[c] = "none"
    /\ reply' = [reply EXCEPT ![c] = "unavailable"]
    /\ UNCHANGED <<fields, pc, tries, out, service, races>>

\* ... or after it.
ReplyLost(c) ==
    /\ pc[c] \in {"createProgram", "createJob"} /\ reply[c] = "none"
    /\ \E r \in Replies : Handle(c, r)
    /\ reply' = [reply EXCEPT ![c] = "unavailable"]
    /\ races' = races \cup {"lost"}
    /\ UNCHANGED <<fields, pc, tries, out, wire, fut, deletes>>

Progress(i) ==
    /\ \/ svc[i] = "READY" /\ SetJob(i, "RUNNING")
       \/ svc[i] = "RUNNING" /\ \E s \in {"SUCCESS", "FAILURE"} : SetJob(i, s)
    /\ UNCHANGED <<fields, pc, reply, tries, out, program, wire, fut, deletes, races>>

\* Mutant: cancel() takes the job for cancelled, even if it has ended before.
MutCancel ==
    /\ svc[jobId] # "absent"
    /\ job' = "CANCELLED"
    /\ IF svc[jobId] \in {"READY", "RUNNING"} THEN SetJob(jobId, "CANCELLED")
                                            ELSE UNCHANGED <<svc, past, made>>
    /\ UNCHANGED <<results, jobId, hasFuture, recreate, pc, reply, tries, out, program, wire,
                   fut, deletes, races>>

\* cancel(), by a holder of the object or by another client.
Cancel ==
    /\ svc[jobId] \in {"READY", "RUNNING"}
    /\ SetJob(jobId, "CANCELLED")
    /\ UNCHANGED <<fields, pc, reply, tries, out, program, wire, fut, deletes, races>>

\* delete(), by a holder of the object or by another client.
Delete ==
    /\ deletes < MaxDeletes /\ svc[jobId] # "absent"
    /\ svc' = [svc EXCEPT ![jobId] = "absent"]
    /\ deletes' = deletes + 1
    /\ UNCHANGED <<fields, pc, reply, tries, out, program, wire, fut, past, made, races>>

\* The stream's request reaches the service, perhaps after the future has failed.
StreamCreate ==
    /\ wire
    /\ wire' = FALSE
    /\ IF program THEN UNCHANGED <<program, svc, past, made>>
                  ELSE program' = TRUE /\ SetJob(StreamedId, "READY")
    /\ races' = IF fut = "pending" THEN races ELSE races \cup {"late"}
    /\ UNCHANGED <<fields, pc, reply, tries, out, fut, deletes>>

\* The future completes: with the job's end, or with an error.
StreamEnd ==
    /\ fut = "pending"
    /\ \/ svc[StreamedId] \in TERMINAL_STATES /\ fut' = svc[StreamedId]
       \/ fut' \in {"StreamError", "GoogleAPICallError"}
    /\ UNCHANGED <<fields, pc, reply, tries, out, program, svc, wire, past, made, deletes, races>>

-----------------------------------------------------------------------------
Call(c) == CallResults(c) \/ CallStatus(c) \/ CallInner(c) \/ CallUpdate(c)

Step(c) ==
    \/ FutureResult(c) \/ FutureJob(c) \/ FutureError(c)
    \/ Poll(c) \/ PollReply(c) \/ PollNotFound(c) \/ StartRecreate(c)
    \/ ProgramReply(c) \/ JobReply(c) \/ FetchReply(c) \/ GotLook(c)
    \/ UnaryError(c) \/ Retry(c)

Next ==
    \/ \E c \in Callers : Call(c) \/ Step(c) \/ PollTimeout(c)
    \/ \E c \in Callers : Serve(c) \/ Unavailable(c) \/ ReplyLost(c)
    \/ \E i \in Ids : Progress(i)
    \/ Cancel \/ Delete \/ StreamCreate \/ StreamEnd

Spec == Init /\ [][Next]_vars

\* Coroutines run on, calls are answered, jobs finish, and the stream's future
\* ends (StreamManager's EverySubmissionEnds).
FairSpec ==
    /\ Spec
    /\ \A c \in Callers : WF_vars(Step(c)) /\ WF_vars(Serve(c))
    /\ \A i \in Ids : WF_vars(Progress(i))
    /\ WF_vars(StreamEnd)

-----------------------------------------------------------------------------
(* Properties *)

\* What callers are told is true, whatever others have put into the cache
\* meanwhile: results are of a job that has succeeded (only a deletion between the
\* last poll and the request for the results can undo it), a failure that is raised
\* is one the job has had, and a terminal state in the cache, which stops polling
\* for good, is the state the service has, unless the job has been deleted.
AnswersAreTrue ==
    /\ \A c \in Callers :
          /\ out[c].how = "result" /\ deletes = 0 => out[c].state = "SUCCESS"
          /\ out[c].how = "failed" => out[c].state \in past \cap TERMINAL_STATES
    /\ job \in TERMINAL_STATES /\ deletes = 0 => svc[jobId] = job

\* However stream, late requests, retries and several callers meet, a job is
\* run a second time only after it has been deleted.
RunsOnce == made <= 1 + deletes

\* Creating the job again conflicts with a job only when the stream's request
\* arrived late or the reply of an own attempt was lost: never because two callers
\* create it.  And results_async, the object's other methods apart, fails to find
\* the job only when it was deleted or the only attempt to create it has been taken.
ErrorsAreExplained ==
    \A c \in Callers :
        /\ out[c].how = "CONFLICT" => races \cap {"late", "lost"} # {}
        /\ pc[c] = "get" /\ reply[c] = "NOT_FOUND" /\ ~recreate =>
              deletes > 0 \/ "taken" \in races

\* Every call on the object ends, with or without a timeout.
EveryCallEnds == \A c \in Callers : pc[c] # "idle" ~> pc[c] = "done"
=============================================================================
