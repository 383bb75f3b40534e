--------------------------- MODULE StreamManager ---------------------------
(***************************************************************************)
(* The client side of Quantum Engine's bidirectional stream RPC            *)
(* (cirq_google/engine/stream_manager.py) together with the parts of its   *)
(* environment the code depends on: the gRPC stream and the server.        *)
(*                                                                         *)
(* Two threads run the code.  The caller's thread executes submit(), stop()*)
(* and cancel() on a returned future.  The asyncio thread executes one     *)
(* stream coroutine per call that started one (_manage_stream), one        *)
(* execution coroutine per submission (_manage_execution), and the request *)
(* iterators gRPC pulls requests from (_request_iterator).  A coroutine    *)
(* runs undisturbed between two awaits, so every action of the asyncio     *)
(* thread is the code from one await to the next.  stop() runs on the other*)
(* thread and is cut at every access to state the coroutines share.        *)
(*                                                                         *)
(* stop() replaces the demultiplexer and the request queue by new objects  *)
(* while coroutines may still hold the old ones: both are numbered by an   *)
(* epoch, the number of stop() calls that came before.                     *)
(***************************************************************************)
EXTENDS Naturals, Sequences, FiniteSets

CONSTANTS
    Execs,            \* submissions; submission e runs job e
    NoExec,           \* "no job"
    Programs,         \* program names
    ProgramOf,        \* the program each job belongs to
    FailingJobs,      \* jobs whose outcome is a failed job, not a result
    Faults,           \* stream error codes beyond the retry protocol
    QueueCap,         \* maxsize of the request queue (100 in the code)
    MaxBreaks,        \* bound: stream failures
    BreakKinds,       \* the kinds of exception a stream can fail with
    MaxStops,         \* bound: calls of stop()
    MaxUnsolicited,   \* bound: orderly closes the server decides on
    MaxCancels        \* bound: cancel() calls on submit()'s futures

CreateProgramAndJob == "create_quantum_program_and_job"
CreateJob == "create_quantum_job"
GetResult == "get_quantum_result"
Kinds == {CreateProgramAndJob, CreateJob, GetResult}

ProtocolErrors == {"PROGRAM_DOES_NOT_EXIST", "PROGRAM_ALREADY_EXISTS",
                   "JOB_DOES_NOT_EXIST", "JOB_ALREADY_EXISTS"}
ErrorCodes == ProtocolErrors \cup Faults
Answers == {"result", "job"}
Bodies == Answers \cup ErrorCodes

Epochs == 0 .. MaxStops

ASSUME StreamAssumption ==
    /\ NoExec \notin Execs
    /\ ProgramOf \in [Execs -> Programs]
    /\ FailingJobs \subseteq Execs
    /\ Faults \subseteq {"INTERNAL"}
    /\ BreakKinds \subseteq {"retryable", "fatal"}
    /\ QueueCap \in Nat \ {0}
    /\ {MaxBreaks, MaxStops, MaxUnsolicited, MaxCancels} \subseteq Nat

VARIABLES
    nextId,     \* _next_available_message_id
    subs,       \* _subscribers of each epoch's ResponseDemux
    demux,      \* epoch of the current _response_demux
    queues,     \* the request queue of each epoch
    epoch,      \* epoch of the current _request_queue
    stopPc,     \* where stop() is
    cancelReq,  \* stop() cancelled the stream coroutine, which has not seen it
    st,         \* the stream coroutine of each epoch
    err,        \* the exception it is handling
    conn,       \* the connection it last opened
    conns,      \* connections opened so far
    iters,      \* request iterators still pulling from each queue, by connection
    pc,         \* the execution coroutine of each submission
    qe,         \* epoch of the request queue it was given
    kind,       \* its current request
    mid,        \* that request's message id
    fut,        \* its response future
    out,        \* what its own future was completed with
    programs,   \* server: programs that exist
    jobs,       \* server: jobs that exist
    cancelled,  \* server: jobs that were cancelled
    wire,       \* requests the server received and has not handled
    replies,    \* responses on their way to the client
    breaks,     \* stream failures so far
    closes,     \* unsolicited orderly closes so far
    cancels     \* cancel() calls so far

managerVars == <<nextId, subs, demux, queues, epoch, stopPc, cancelReq>>
streamVars == <<st, err, conn, conns, iters>>
execVars == <<pc, qe, kind, mid, fut, out>>
serverVars == <<programs, jobs, cancelled, wire, replies>>
boundVars == <<breaks, closes, cancels>>
vars == <<managerVars, streamVars, execVars, serverVars, boundVars>>

----------------------------------------------------------------------------
\* Shapes of the data.

Stop == [stop |-> TRUE]                     \* the None that ends an iterator
Request == [id : Nat, exec : Execs, kind : Kinds]
Sub == [id : Nat, exec : Execs]
Future == [state : {"none", "pending", "cancelled", "retryable", "fatal"} \cup Bodies,
           job : Execs \cup {NoExec}]
Outcome == [how : {"none", "fatal", "cancelled", "not_found"} \cup Bodies,
            job : Execs \cup {NoExec}]

NoFuture == [state |-> "none", job |-> NoExec]
Pending == [state |-> "pending", job |-> NoExec]
Raised(x) == [state |-> x, job |-> NoExec]
NoOutcome == [how |-> "none", job |-> NoExec]

ManagerTypes ==
    /\ nextId \in Nat
    /\ subs \in [Epochs -> SUBSET Sub]
    /\ demux \in Epochs
    /\ queues \in [Epochs -> Seq(Request \cup {Stop})]
    /\ epoch \in Epochs
    /\ stopPc \in {"idle", "notify", "clear", "demux", "queue"}
    /\ cancelReq \in BOOLEAN

StreamTypes ==
    /\ st \in [Epochs -> {"none", "scheduled", "opening", "open", "failed", "closing", "done"}]
    /\ err \in [Epochs -> BreakKinds \cup {"none"}]
    /\ conn \in [Epochs -> Nat]
    /\ conns \in Nat
    /\ iters \in [Epochs -> Seq(Nat)]

ExecTypes ==
    /\ pc \in [Execs -> {"idle", "scheduled", "blocked", "awaiting", "cancelling", "done"}]
    /\ qe \in [Execs -> Epochs]
    /\ kind \in [Execs -> Kinds]
    /\ mid \in [Execs -> Nat]
    /\ fut \in [Execs -> Future]
    /\ out \in [Execs -> Outcome]

ServerTypes ==
    /\ programs \subseteq Programs
    /\ jobs \subseteq Execs
    /\ cancelled \subseteq jobs
    /\ wire \subseteq [req : Request, conn : Nat]
    /\ replies \subseteq [id : Nat, job : Execs, body : Bodies, conn : Nat]

BoundTypes == breaks \in Nat /\ closes \in Nat /\ cancels \in Nat

\* Every variable has its type, and only jobs that exist are cancelled.
TypeOK == ManagerTypes /\ StreamTypes /\ ExecTypes /\ ServerTypes /\ BoundTypes

Init ==
    /\ nextId = 0
    /\ subs = [g \in Epochs |-> {}]
    /\ demux = 0
    /\ queues = [g \in Epochs |-> <<>>]
    /\ epoch = 0
    /\ stopPc = "idle"
    /\ cancelReq = FALSE
    /\ st = [g \in Epochs |-> "none"]
    /\ err = [g \in Epochs |-> "none"]
    /\ conn = [g \in Epochs |-> 0]
    /\ conns = 0
    /\ iters = [g \in Epochs |-> <<>>]
    /\ pc = [e \in Execs |-> "idle"]
    /\ qe = [e \in Execs |-> 0]
    /\ kind = [e \in Execs |-> CreateProgramAndJob]
    /\ mid = [e \in Execs |-> 0]
    /\ fut = [e \in Execs |-> NoFuture]
    /\ out = [e \in Execs |-> NoOutcome]
    /\ programs \in SUBSET Programs      \* some were created outside StreamManager
    /\ jobs = {}
    /\ cancelled = {}
    /\ wire = {}
    /\ replies = {}
    /\ breaks = 0
    /\ closes = 0
    /\ cancels = 0

----------------------------------------------------------------------------
\* ResponseDemux.  A subscriber is the pair of a message id and the execution
\* that holds the future subscribe() returned for it.

Waits(s) == mid[s.exec] = s.id /\ fut[s.exec].state = "pending"

\* publish(): pop the subscriber of the response's id, complete its future.
Publish(r) ==
    LET hit == {s \in subs[demux] : s.id = r.id} IN
    /\ subs' = [subs EXCEPT ![demux] = @ \ hit]
    /\ fut' = [e \in Execs |->
                 IF \E s \in hit : s.exec = e /\ Waits(s)
                 THEN [state |-> r.body, job |-> r.job] ELSE fut[e]]

\* The loop of publish_exception(): fail every outstanding future.
FailAll(x) ==
    fut' = [e \in Execs |->
              IF \E s \in subs[demux] : s.exec = e /\ Waits(s)
              THEN Raised(x) ELSE fut[e]]

ClearSubscribers == subs' = [subs EXCEPT ![demux] = {}]

\* Mutant: the subscribers are dropped without being told.
MutPublishExceptionSilent(x) == ClearSubscribers /\ UNCHANGED fut

PublishException(x) == FailAll(x) /\ ClearSubscribers

----------------------------------------------------------------------------
\* The request queue, an asyncio.Queue(maxsize=100).

Room(g) == Len(queues[g]) < QueueCap
Put(g, item) == queues' = [queues EXCEPT ![g] = Append(@, item)]

----------------------------------------------------------------------------
\* The caller's thread.

StreamLive(g) == st[g] \notin {"none", "done"}

Submit(e) ==
    /\ stopPc = "idle"
    /\ pc[e] = "idle"
    /\ pc' = [pc EXCEPT ![e] = "scheduled"]
    /\ qe' = [qe EXCEPT ![e] = epoch]
    /\ st' = IF StreamLive(epoch) THEN st ELSE [st EXCEPT ![epoch] = "scheduled"]
    /\ UNCHANGED <<managerVars, err, conn, conns, iters, kind, mid, fut, out,
                   serverVars, boundVars>>

\* Mutant: stop() leaves the stream coroutine running.
MutStopKeepsStream ==
    /\ stopPc = "idle"
    /\ epoch < MaxStops
    /\ stopPc' = "notify"
    /\ cancelReq' = FALSE
    /\ UNCHANGED <<nextId, subs, demux, queues, epoch, streamVars, execVars,
                   serverVars, boundVars>>

\* stop() up to the cancellation of the stream coroutine's future.
StopCancelStream ==
    /\ stopPc = "idle"
    /\ epoch < MaxStops
    /\ stopPc' = "notify"
    /\ cancelReq' = StreamLive(epoch)
    /\ UNCHANGED <<nextId, subs, demux, queues, epoch, streamVars, execVars,
                   serverVars, boundVars>>

\* publish_exception(CancelledError()), which reaches the futures and then
\* clears the dictionary while the asyncio thread may subscribe in between.
StopNotify ==
    /\ stopPc = "notify"
    /\ stopPc' = "clear"
    /\ FailAll("cancelled")
    /\ UNCHANGED <<nextId, subs, demux, queues, epoch, cancelReq, streamVars,
                   pc, qe, kind, mid, out, serverVars, boundVars>>

StopClear ==
    /\ stopPc = "clear"
    /\ stopPc' = "demux"
    /\ ClearSubscribers
    /\ UNCHANGED <<nextId, demux, queues, epoch, cancelReq, streamVars, execVars,
                   serverVars, boundVars>>

\* Mutant: the message id counter is reset with the demultiplexer.
MutResetDemuxAndIds ==
    /\ stopPc = "demux"
    /\ stopPc' = "queue"
    /\ demux' = demux + 1
    /\ nextId' = 0
    /\ UNCHANGED <<subs, queues, epoch, cancelReq, streamVars, execVars,
                   serverVars, boundVars>>

\* _reset(): a new demultiplexer, then a new queue.
StopResetDemux ==
    /\ stopPc = "demux"
    /\ stopPc' = "queue"
    /\ demux' = demux + 1
    /\ UNCHANGED <<nextId, subs, queues, epoch, cancelReq, streamVars, execVars,
                   serverVars, boundVars>>

\* The queue is made by a coroutine stop() waits for.  It is scheduled behind
\* the cancellation of the stream coroutine, which has therefore run.
StopResetQueue ==
    /\ stopPc = "queue"
    /\ ~cancelReq
    /\ stopPc' = "idle"
    /\ epoch' = epoch + 1
    /\ UNCHANGED <<nextId, subs, demux, queues, cancelReq, streamVars, execVars,
                   serverVars, boundVars>>

----------------------------------------------------------------------------
\* The stream coroutine, _manage_stream(), started with the queue of epoch g.

OpenOn(g, c) == st[g] = "open" /\ conn[g] = c
LiveConn(c) == \E g \in Epochs : OpenOn(g, c)

StreamOpen(g) ==
    /\ st[g] \in {"scheduled", "opening"}
    /\ st' = [st EXCEPT ![g] = "open"]
    /\ conns' = conns + 1
    /\ conn' = [conn EXCEPT ![g] = conns + 1]
    /\ iters' = [iters EXCEPT ![g] = Append(@, conns + 1)]
    /\ UNCHANGED <<managerVars, err, execVars, serverVars, boundVars>>

StreamResponse(g, r) ==
    /\ OpenOn(g, r.conn)
    /\ Publish(r)
    /\ replies' = replies \ {r}
    /\ UNCHANGED <<nextId, demux, queues, epoch, stopPc, cancelReq, streamVars,
                   pc, qe, kind, mid, out, programs, jobs, cancelled, wire, boundVars>>

\* The stream raises: what was on its way to the client is lost.
StreamBreak(g, x) ==
    /\ breaks < MaxBreaks
    /\ st[g] = "open"
    /\ st' = [st EXCEPT ![g] = "failed"]
    /\ err' = [err EXCEPT ![g] = x]
    /\ replies' = {r \in replies : r.conn # conn[g]}
    /\ breaks' = breaks + 1
    /\ UNCHANGED <<managerVars, conn, conns, iters, execVars, programs, jobs,
                   cancelled, wire, closes, cancels>>

\* Mutant: the old iterator is not told to stop.
MutNotifyWithoutStop(g) ==
    /\ st[g] = "failed"
    /\ PublishException(err[g])
    /\ st' = [st EXCEPT ![g] = "opening"]
    /\ err' = [err EXCEPT ![g] = "none"]
    /\ UNCHANGED <<nextId, demux, queues, epoch, stopPc, cancelReq, conn, conns, iters,
                   pc, qe, kind, mid, out, serverVars, boundVars>>

\* except BaseException: the iterator is told to stop, then every execution
\* waiting on the current demultiplexer is told of the exception.
StreamNotify(g) ==
    /\ st[g] = "failed"
    /\ Room(g)
    /\ Put(g, Stop)
    /\ PublishException(err[g])
    /\ st' = [st EXCEPT ![g] = "opening"]
    /\ err' = [err EXCEPT ![g] = "none"]
    /\ UNCHANGED <<nextId, demux, epoch, stopPc, cancelReq, conn, conns, iters,
                   pc, qe, kind, mid, out, serverVars, boundVars>>

\* The response iterator ends without an exception and the loop starts over.
\* The server ends a stream whose requests have ended and are all answered, or
\* (MaxUnsolicited) any other stream.
Quiet(c) == (\A w \in wire : w.conn # c) /\ (\A r \in replies : r.conn # c)
Pulling(g, c) == \E i \in DOMAIN iters[g] : iters[g][i] = c

StreamEnd(g) ==
    /\ st[g] = "open"
    /\ ~Pulling(g, conn[g])
    /\ Quiet(conn[g])
    /\ st' = [st EXCEPT ![g] = "opening"]
    /\ UNCHANGED <<managerVars, err, conn, conns, iters, execVars, serverVars, boundVars>>

StreamEndUnsolicited(g) ==
    /\ closes < MaxUnsolicited
    /\ st[g] = "open"
    /\ \A r \in replies : r.conn # conn[g]
    /\ st' = [st EXCEPT ![g] = "opening"]
    /\ closes' = closes + 1
    /\ UNCHANGED <<managerVars, err, conn, conns, iters, execVars, serverVars,
                   breaks, cancels>>

\* CancelledError reaches the coroutine: before its first step it just ends;
\* at the stream it goes on to stop the iterator; inside the other handler,
\* blocked on a full queue, it ends there.
StreamCancelled(g) ==
    /\ cancelReq
    /\ g = epoch
    /\ cancelReq' = FALSE
    /\ \/ st[g] = "scheduled" /\ st' = [st EXCEPT ![g] = "done"]
       \/ st[g] \in {"opening", "open", "failed"} /\ st' = [st EXCEPT ![g] = "closing"]
       \/ st[g] = "failed" /\ ~Room(g) /\ st' = [st EXCEPT ![g] = "done"]
    /\ replies' = {r \in replies : r.conn # conn[g]}
    /\ UNCHANGED <<nextId, subs, demux, queues, epoch, stopPc, err, conn, conns, iters,
                   execVars, programs, jobs, cancelled, wire, boundVars>>

StreamClose(g) ==
    /\ st[g] = "closing"
    /\ Room(g)
    /\ Put(g, Stop)
    /\ st' = [st EXCEPT ![g] = "done"]
    /\ UNCHANGED <<nextId, subs, demux, epoch, stopPc, cancelReq, err, conn, conns,
                   iters, execVars, serverVars, boundVars>>

----------------------------------------------------------------------------
\* The request iterators.  Those waiting in queue.get() are served in the
\* order they came.  One whose stream is gone still takes the next item: gRPC
\* then fails to write it and drops it together with the iterator.

IterForward(g) ==
    /\ iters[g] # <<>> /\ queues[g] # <<>>
    /\ Head(queues[g]) # Stop
    /\ OpenOn(g, Head(iters[g]))
    /\ queues' = [queues EXCEPT ![g] = Tail(@)]
    /\ wire' = wire \cup {[req |-> Head(queues[g]), conn |-> conn[g]]}
    /\ UNCHANGED <<nextId, subs, demux, epoch, stopPc, cancelReq, streamVars, execVars,
                   programs, jobs, cancelled, replies, boundVars>>

IterStop(g) ==
    /\ iters[g] # <<>> /\ queues[g] # <<>>
    /\ Head(queues[g]) = Stop \/ ~OpenOn(g, Head(iters[g]))
    /\ queues' = [queues EXCEPT ![g] = Tail(@)]
    /\ iters' = [iters EXCEPT ![g] = Tail(@)]
    /\ UNCHANGED <<nextId, subs, demux, epoch, stopPc, cancelReq, st, err, conn, conns,
                   execVars, serverVars, boundVars>>

\* The write in progress when the stream went away fails.
IterDie(g) ==
    /\ iters[g] # <<>>
    /\ ~OpenOn(g, Head(iters[g]))
    /\ iters' = [iters EXCEPT ![g] = Tail(@)]
    /\ UNCHANGED <<managerVars, st, err, conn, conns, execVars, serverVars, boundVars>>

----------------------------------------------------------------------------
\* The execution coroutine, _manage_execution().

\* One turn of its loop up to the first await that suspends: a new message id,
\* a subscription with the current demultiplexer, and a put on the queue it was
\* given, where it blocks when that queue is full.
Send(e, k) ==
    LET req == [id |-> nextId, exec |-> e, kind |-> k] IN
    /\ nextId' = nextId + 1
    /\ subs' = [subs EXCEPT ![demux] = @ \cup {[id |-> nextId, exec |-> e]}]
    /\ mid' = [mid EXCEPT ![e] = nextId]
    /\ fut' = [fut EXCEPT ![e] = Pending]
    /\ kind' = [kind EXCEPT ![e] = k]
    /\ \/ Room(qe[e]) /\ Put(qe[e], req) /\ pc' = [pc EXCEPT ![e] = "awaiting"]
       \/ ~Room(qe[e]) /\ pc' = [pc EXCEPT ![e] = "blocked"] /\ UNCHANGED queues
    /\ UNCHANGED <<demux, epoch, stopPc, cancelReq, streamVars, qe, out, serverVars,
                   boundVars>>

ExecStart(e) ==
    /\ pc[e] = "scheduled"
    /\ Send(e, CreateProgramAndJob)

ExecPut(e) ==
    /\ pc[e] = "blocked"
    /\ Room(qe[e])
    /\ Put(qe[e], [id |-> mid[e], exec |-> e, kind |-> kind[e]])
    /\ pc' = [pc EXCEPT ![e] = "awaiting"]
    /\ UNCHANGED <<nextId, subs, demux, epoch, stopPc, cancelReq, streamVars, qe, kind,
                   mid, fut, out, serverVars, boundVars>>

\* Mutant: JOB_ALREADY_EXISTS is taken for a permanent error.
MutRetryWithoutJobRace(code, k) ==
    CASE code = "PROGRAM_DOES_NOT_EXIST" /\ k = CreateJob -> {CreateProgramAndJob}
      [] code = "PROGRAM_ALREADY_EXISTS" /\ k = CreateProgramAndJob -> {GetResult}
      [] code = "JOB_DOES_NOT_EXIST" /\ k = GetResult -> {CreateJob}
      [] OTHER -> {}

\* _get_retry_request_or_raise(): the request to send after an error, if any.
Retry(code, k) ==
    CASE code = "PROGRAM_DOES_NOT_EXIST" /\ k = CreateJob -> {CreateProgramAndJob}
      [] code = "PROGRAM_ALREADY_EXISTS" /\ k = CreateProgramAndJob -> {GetResult}
      [] code = "JOB_DOES_NOT_EXIST" /\ k = GetResult -> {CreateJob}
      [] code = "JOB_ALREADY_EXISTS" /\ k # GetResult -> {GetResult}
      [] OTHER -> {}

Finish(e, how, job) ==
    /\ pc' = [pc EXCEPT ![e] = "done"]
    /\ out' = [out EXCEPT ![e] = [how |-> how, job |-> job]]

Resumable(e) == pc[e] = "awaiting" /\ fut[e].state # "pending"

ExecRetryBrokenStream(e) ==
    /\ Resumable(e)
    /\ fut[e].state = "retryable"
    /\ Send(e, GetResult)

ExecRetryError(e) ==
    /\ Resumable(e)
    /\ fut[e].state \in ErrorCodes
    /\ \E k \in Retry(fut[e].state, kind[e]) : Send(e, k)

\* A result or job is returned; a fatal stream failure or an error that calls
\* for no other request is raised.
ExecReturn(e) ==
    /\ Resumable(e)
    /\ \/ fut[e].state \in Answers \cup {"fatal"}
       \/ fut[e].state \in ErrorCodes /\ Retry(fut[e].state, kind[e]) = {}
    /\ Finish(e, fut[e].state, fut[e].job)
    /\ UNCHANGED <<managerVars, streamVars, qe, kind, mid, fut, serverVars, boundVars>>

ExecCancelled(e) ==
    /\ Resumable(e)
    /\ fut[e].state = "cancelled"
    /\ pc' = [pc EXCEPT ![e] = "cancelling"]
    /\ UNCHANGED <<managerVars, streamVars, qe, kind, mid, fut, out, serverVars, boundVars>>

\* Mutant: a submission that has ended can still be cancelled.
MutCancelAfterEnd(e) ==
    /\ cancels < MaxCancels
    /\ cancels' = cancels + 1
    /\ pc[e] # "idle"
    /\ Finish(e, "cancelled", NoExec)
    /\ UNCHANGED <<managerVars, streamVars, qe, kind, mid, fut, serverVars, breaks, closes>>

\* cancel() on the future submit() returned.  A coroutine that has not started
\* never starts; one waiting for the queue or for a response goes on to cancel
\* its job; one doing that already is cut short.
ExecCancel(e) ==
    /\ cancels < MaxCancels
    /\ cancels' = cancels + 1
    /\ \/ /\ pc[e] \in {"scheduled", "cancelling"}
          /\ Finish(e, "cancelled", NoExec)
          /\ UNCHANGED fut
       \/ /\ pc[e] \in {"blocked", "awaiting"}
          /\ pc' = [pc EXCEPT ![e] = "cancelling"]
          /\ fut' = IF fut[e].state = "pending"
                    THEN [fut EXCEPT ![e] = Raised("cancelled")] ELSE fut
          /\ UNCHANGED out
    /\ UNCHANGED <<managerVars, streamVars, qe, kind, mid, serverVars, breaks, closes>>

\* Mutant: the job is taken as cancelled whether or not it exists.
MutCancelUnknownJob(e) ==
    /\ pc[e] = "cancelling"
    /\ cancelled' = cancelled \cup {e}
    /\ Finish(e, "cancelled", NoExec)
    /\ UNCHANGED <<managerVars, streamVars, qe, kind, mid, fut, programs, jobs, wire,
                   replies, boundVars>>

\* _cancel(): the unary RPC, answered with NOT_FOUND for a job unknown so far.
ExecCancelJob(e) ==
    /\ pc[e] = "cancelling"
    /\ cancelled' = cancelled \cup ({e} \cap jobs)
    /\ Finish(e, IF e \in jobs THEN "cancelled" ELSE "not_found", NoExec)
    /\ UNCHANGED <<managerVars, streamVars, qe, kind, mid, fut, programs, jobs, wire,
                   replies, boundVars>>

----------------------------------------------------------------------------
\* The server, as far as the retry protocol tells: what it answers to each
\* kind of request given the programs and jobs that exist.

Answer(e) == IF e \in FailingJobs \cup cancelled THEN "job" ELSE "result"

ServerBody(q) ==
    LET p == ProgramOf[q.exec] IN
    CASE q.kind = CreateProgramAndJob /\ p \in programs ->
            {"PROGRAM_ALREADY_EXISTS"} \cup (IF q.exec \in jobs THEN {"JOB_ALREADY_EXISTS"} ELSE {})
      [] q.kind = CreateJob /\ p \notin programs -> {"PROGRAM_DOES_NOT_EXIST"}
      [] q.kind = CreateJob /\ q.exec \in jobs -> {"JOB_ALREADY_EXISTS"}
      [] q.kind = GetResult /\ q.exec \notin jobs -> {"JOB_DOES_NOT_EXIST"}
      [] OTHER -> {Answer(q.exec)}

\* A request left behind by a broken stream is still carried out, or lost.
ServerHandle(w) ==
    /\ wire' = wire \ {w}
    /\ \E b \in ServerBody(w.req) \cup Faults :
        /\ IF b \in Answers
           THEN /\ programs' = programs \cup {ProgramOf[w.req.exec]}
                /\ jobs' = jobs \cup {w.req.exec}
           ELSE UNCHANGED <<programs, jobs>>
        /\ replies' = IF LiveConn(w.conn)
                      THEN replies \cup {[id |-> w.req.id, job |-> w.req.exec,
                                          body |-> b, conn |-> w.conn]}
                      ELSE replies
    /\ UNCHANGED <<managerVars, streamVars, execVars, cancelled, boundVars>>

ServerLose(w) ==
    /\ ~LiveConn(w.conn)
    /\ wire' = wire \ {w}
    /\ UNCHANGED <<managerVars, streamVars, execVars, programs, jobs, cancelled, replies,
                   boundVars>>

----------------------------------------------------------------------------

StopSteps ==
    StopCancelStream \/ StopNotify \/ StopClear \/ StopResetDemux \/ StopResetQueue

StreamSteps(g) ==
    \/ StreamOpen(g) \/ StreamNotify(g) \/ StreamEnd(g)
    \/ StreamCancelled(g) \/ StreamClose(g)
    \/ \E r \in replies : StreamResponse(g, r)

IterSteps(g) == IterForward(g) \/ IterStop(g) \/ IterDie(g)

ExecSteps(e) ==
    \/ ExecStart(e) \/ ExecPut(e) \/ ExecRetryBrokenStream(e) \/ ExecRetryError(e)
    \/ ExecReturn(e) \/ ExecCancelled(e) \/ ExecCancelJob(e)

\* Every submission has ended; the streams stay open.
Quiescent == (\A e \in Execs : pc[e] = "done") /\ UNCHANGED vars

Next ==
    \/ StopSteps
    \/ \E g \in Epochs : \/ StreamSteps(g) \/ IterSteps(g)
                         \/ StreamEndUnsolicited(g)
                         \/ \E x \in BreakKinds : StreamBreak(g, x)
    \/ \E e \in Execs : Submit(e) \/ ExecSteps(e) \/ ExecCancel(e)
    \/ \E w \in wire : ServerHandle(w) \/ ServerLose(w)
    \/ Quiescent

Spec == Init /\ [][Next]_vars

\* The asyncio loop runs every coroutine that can run, a connected stream
\* delivers, and the server handles what it receives.  Nothing obliges callers
\* to call, or streams to break.
Fairness ==
    /\ \A g \in Epochs : WF_vars(StreamSteps(g)) /\ WF_vars(IterForward(g) \/ IterStop(g))
    /\ \A e \in Execs : WF_vars(ExecSteps(e))
    /\ WF_vars(\E w \in wire : ServerHandle(w))
    /\ WF_vars(StopSteps /\ stopPc # "idle")

FairSpec == Spec /\ Fairness

----------------------------------------------------------------------------
\* Properties.

Waiting(e) == pc[e] = "awaiting" /\ fut[e].state = "pending"
InQueue(e) == \E i \in DOMAIN queues[qe[e]] :
                 queues[qe[e]][i] # Stop /\ queues[qe[e]][i].id = mid[e]
AtServer(e) == \/ \E w \in wire : w.req.id = mid[e] /\ LiveConn(w.conn)
               \/ \E r \in replies : r.id = mid[e] /\ LiveConn(r.conn)

\* A submission is only ever answered about its own job: stale requests sent
\* on a later stream, late responses and reused epochs never complete another
\* submission's future (ResponseDemux.publish, _generate_message_id).
ResponseIsOwn ==
    \A e \in Execs : out[e].how \in Answers => out[e].job = e

\* As long as the server closes no stream on its own and stop() is not called,
\* an execution that waits for a response is subscribed to it, and its request
\* is in the queue, at the server of the open stream, or on a stream whose
\* failure is about to be announced.  No request is swallowed by an iterator
\* left over from an earlier stream.
NoRequestStranded ==
    \A e \in Execs : Waiting(e) =>
        /\ [id |-> mid[e], exec |-> e] \in subs[demux]
        /\ InQueue(e) \/ AtServer(e) \/ st[qe[e]] = "failed"

\* The retry protocol copes with every order in which programs and jobs appear
\* at the server: a submission is failed with a StreamError only for an error
\* outside the protocol (_get_retry_request_or_raise).
OnlyForeignErrorsRaised ==
    \A e \in Execs : out[e].how \notin ProtocolErrors

\* Across stop() and a new submit() at most one stream is open: stop() returns
\* only after the old stream coroutine has left its stream.
OneOpenStream ==
    \A g, h \in Epochs : st[g] = "open" /\ st[h] = "open" => g = h

\* Whatever streams break and reopen, every submission ends.
EverySubmissionEnds ==
    \A e \in Execs : pc[e] = "scheduled" ~> pc[e] = "done"

\* submit() and the coroutines behind it implement JobService.
Service == INSTANCE JobService WITH
    phase <- [e \in Execs |-> CASE pc[e] = "idle" -> "idle"
                                [] pc[e] = "done" -> "ended"
                                [] OTHER -> "running"],
    answer <- [e \in Execs |-> IF out[e].how \in Answers THEN out[e].job ELSE NoExec],
    made <- jobs

\* Every behaviour of the stream manager is one of JobService.
ImplementsService == Service!Spec

\* submit(): "concurrent.futures.CancelledError: if the stream is stopped while
\* a job is in flight".  Once stop() has returned, no execution submitted before
\* it waits for a response any more.
StopCancelsInFlight ==
    stopPc = "idle" => \A e \in Execs : Waiting(e) => qe[e] = epoch

\* _manage_stream(): "When the stream breaks, the stream is reopened".
BrokenStreamIsReopened ==
    \A g \in Epochs : st[g] = "failed" ~> st[g] # "failed"
=============================================================================
