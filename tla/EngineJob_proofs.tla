-------------------------- MODULE EngineJob_proofs --------------------------
(***************************************************************************)
(* What callers of an EngineJob are told is true, the job is run once, and *)
(* the errors of results_async have the causes they should have: for any   *)
(* number of callers, attempts and deletions.                              *)
(*                                                                         *)
(* The invariants the runs check are not inductive.  Identity and Counted  *)
(* follow the job in the service, Spent and OneCreator the way to create   *)
(* it, Explained and NotFound what a caller may meet there, and            *)
(* Recorded, Failed and Settled tie every copy of the job's state to the   *)
(* service's.                                                              *)
(***************************************************************************)
EXTENDS EngineJob, TLAPS

Creating == {"createProgram", "createJob"}

\* Only the job of the stream's id is ever created, and its program is there.
Identity ==
    /\ jobId = StreamedId
    /\ \A i \in Ids : i # StreamedId => svc[i] = "absent"
    /\ svc[StreamedId] # "absent" => program

\* Jobs made and jobs deleted differ by the one that is there.
Counted == made = deletes + IF svc[StreamedId] = "absent" THEN 0 ELSE 1

\* Nobody polls, and the future is not forgotten, before the future has ended.
Spent ==
    /\ ~hasFuture => fut # "pending"
    /\ \A c \in Callers : pc[c] \in Creating \cup {"poll", "get"} => fut # "pending"

\* One caller at most creates the job; it has used up the way to do so.
OneCreator ==
    /\ \A c \in Callers : pc[c] \in Creating => ~recreate
    /\ \A c, d \in Callers : pc[c] \in Creating /\ pc[d] \in Creating => c = d
    /\ \A c \in Callers :
          \/ pc[c] = "createJob"
          \/ pc[c] = "createProgram" /\ reply[c] \in {"ok", "CONFLICT"}
          => program

\* The creator meets a job only if the stream's request was late, or its own.
Explained ==
    \A c \in Callers :
       /\ pc[c] = "get" /\ reply[c] = "NOT_FOUND" /\ recreate =>
             svc[StreamedId] = "absent" \/ "late" \in races
       /\ pc[c] \in Creating =>
             \/ svc[StreamedId] = "absent"
             \/ races \cap {"late", "lost"} # {}
             \/ pc[c] = "createJob" /\ reply[c] \in States
       /\ pc[c] = "createJob" /\ reply[c] = "CONFLICT" => races \cap {"late", "lost"} # {}
       /\ out[c].how = "CONFLICT" => races \cap {"late", "lost"} # {}

\* A job that cannot be created again is there, or was deleted, or was tried.
NotFound ==
    /\ ~recreate => svc[StreamedId] # "absent" \/ deletes > 0 \/ "taken" \in races
    /\ \A c \in Callers :
          reply[c] = "NOT_FOUND" /\ ~recreate => deletes > 0 \/ "taken" \in races

\* Every copy of the job's state is one the job has had.
Recorded ==
    /\ svc[StreamedId] # "absent" => svc[StreamedId] \in past
    /\ job # "none" => job \in past
    /\ fut \in States => fut \in past
    /\ \A c \in Callers : reply[c] \in States => reply[c] \in past

\* A failure that was raised is one the job has had.
Failed ==
    \A c \in Callers : out[c].how = "failed" => out[c].state \in past \cap TERMINAL_STATES

\* While nothing is deleted, a terminal copy is the state the job still has.
Settled ==
    deletes = 0 =>
       /\ job \in TERMINAL_STATES => svc[StreamedId] = job
       /\ fut \in TERMINAL_STATES => svc[StreamedId] = fut
       /\ results \in {"none", "SUCCESS"}
       /\ \A c \in Callers :
             /\ reply[c] \in TERMINAL_STATES => svc[StreamedId] = reply[c]
             /\ pc[c] = "fetch" =>
                   /\ svc[StreamedId] = "SUCCESS"
                   /\ reply[c] \in {"none", "unavailable", "SUCCESS"}
             /\ out[c].how = "result" => out[c].state = "SUCCESS"

JobInv ==
    /\ TypeOK
    /\ Identity /\ Counted /\ Spent /\ OneCreator
    /\ Explained /\ NotFound /\ Recorded /\ Failed /\ Settled

-----------------------------------------------------------------------------
(* Types *)

Hows == {"none", "result", "failed", "NOT_FOUND", "CONFLICT", "unavailable", "timeout",
         "stream", "looked"}

CallersOK ==
    /\ pc \in [Callers -> Unary \cup {"idle", "future", "poll", "done"}]
    /\ reply \in [Callers -> States \cup {"none", "ok", "NOT_FOUND", "CONFLICT", "unavailable"}]
    /\ tries \in [Callers -> 1 .. MaxTries]
    /\ out \in [Callers -> Outcomes]

FieldsOK ==
    /\ job \in States \cup {"none"}
    /\ results \in States \cup {"none"}
    /\ jobId \in Ids
    /\ hasFuture \in BOOLEAN
    /\ recreate \in BOOLEAN
    /\ races \subseteq {"late", "lost", "taken"}

ServiceOK ==
    /\ program \in BOOLEAN
    /\ svc \in [Ids -> States \cup {"absent"}]
    /\ wire \in BOOLEAN
    /\ fut \in States \cup {"none", "pending", "StreamError", "GoogleAPICallError"}
    /\ past \subseteq States
    /\ made \in Nat
    /\ deletes \in 0 .. MaxDeletes

\* The parts of the type invariant, one for the callers, the object and the service.
LEMMA TypeParts == TypeOK <=> CallersOK /\ FieldsOK /\ ServiceOK
  BY DEF TypeOK, CallersOK, FieldsOK, ServiceOK

\* A caller that goes on keeps the types of the callers' variables.
LEMMA GotoMoves ==
    ASSUME CallersOK, NEW c \in Callers, NEW l \in Unary \cup {"future", "poll"}, Goto(c, l)
    PROVE  CallersOK'
  BY EngineJobAssumption DEF CallersOK, Goto

\* A call that ends records how, for its caller only.
LEMMA EndMoves ==
    ASSUME CallersOK, NEW c \in Callers, NEW how \in Hows, NEW s \in States \cup {"none"},
           End(c, how, s)
    PROVE  /\ CallersOK'
           /\ reply' = [reply EXCEPT ![c] = "none"]
           /\ out'[c].how = how /\ out'[c].state = s
           /\ \A d \in Callers : d # c => out'[d] = out[d]
<1>1. [how |-> how, state |-> s] \in Outcomes
  BY DEF Outcomes, Hows
<1>2. CallersOK'
  BY <1>1, EngineJobAssumption DEF CallersOK, End
<1>3. out'[c] = [how |-> how, state |-> s] /\ \A d \in Callers : d # c => out'[d] = out[d]
  BY DEF CallersOK, End
<1>. QED
  BY <1>2, <1>3 DEF End

\* What the service does keeps the types of its variables.
LEMMA SetJobTypes ==
    ASSUME ServiceOK, NEW i \in Ids, NEW s \in States, SetJob(i, s)
    PROVE  /\ svc' \in [Ids -> States \cup {"absent"}]
           /\ past' \subseteq States
           /\ made' \in Nat
  BY DEF ServiceOK, SetJob

\* So does the handling of a call, whatever it answers.
LEMMA HandleTypes ==
    ASSUME ServiceOK, NEW c \in Callers, NEW r \in Replies, Handle(c, r)
    PROVE  /\ program' \in BOOLEAN
           /\ svc' \in [Ids -> States \cup {"absent"}]
           /\ past' \subseteq States
           /\ made' \in Nat
<1>1. RecreateId \in Ids /\ "READY" \in States
  BY EngineJobAssumption DEF RecreateId, States
<1>. QED
  BY <1>1, SetJobTypes DEF ServiceOK, Handle

\* Every step keeps the type invariant.
LEMMA TypeStep ==
    ASSUME TypeOK, Next
    PROVE  TypeOK'
<1>. SUFFICES CallersOK' /\ FieldsOK' /\ ServiceOK'
  BY DEF TypeOK, CallersOK, FieldsOK, ServiceOK
<1>0. CallersOK /\ FieldsOK /\ ServiceOK
  BY TypeParts
<1>a. /\ TERMINAL_STATES \subseteq States
      /\ {"READY", "RUNNING", "SUCCESS", "FAILURE", "CANCELLED"} \subseteq States
  BY DEF States, TERMINAL_STATES
<1>. USE <1>0, <1>a
<1>1. ASSUME NEW c \in Callers, Call(c)
      PROVE  CallersOK' /\ FieldsOK' /\ ServiceOK'
  <2>1. FieldsOK' /\ ServiceOK'
    BY <1>1 DEF Call, CallResults, CallStatus, CallInner, CallUpdate, FieldsOK, ServiceOK,
       fields, service
  <2>2. \/ \E l \in {"future", "poll", "look", "update"} : Goto(c, l)
        \/ \E s \in States \cup {"none"} : End(c, "result", s) \/ End(c, "looked", s)
    BY <1>1 DEF Call, CallResults, CallStatus, CallInner, CallUpdate, NeedsRefresh, FieldsOK
  <2>. QED
    BY <2>1, <2>2, GotoMoves, EndMoves DEF Unary, Hows
<1>2. ASSUME NEW c \in Callers, Step(c)
      PROVE  CallersOK' /\ FieldsOK' /\ ServiceOK'
  <2>1. FieldsOK' /\ ServiceOK'
    <3>1. ServiceOK'
      BY <1>2 DEF Step, FutureResult, FutureJob, FutureError, Poll, PollReply, PollNotFound,
         StartRecreate, ProgramReply, JobReply, FetchReply, GotLook, UnaryError, Retry,
         ServiceOK, service
    <3>2. CASE FutureResult(c) \/ FutureJob(c)
      BY <3>1, <3>2 DEF FutureResult, FutureJob, FieldsOK
    <3>3. CASE \/ FutureError(c) \/ Poll(c) \/ PollNotFound(c) \/ ProgramReply(c)
               \/ UnaryError(c) \/ Retry(c)
      BY <3>1, <3>3 DEF FutureError, Poll, PollNotFound, ProgramReply, UnaryError, Retry,
         FieldsOK, fields
    <3>4. CASE PollReply(c) \/ FetchReply(c) \/ GotLook(c)
      BY <3>1, <3>4 DEF PollReply, FetchReply, GotLook, FieldsOK
    <3>5. CASE StartRecreate(c)
      BY <3>1, <3>5 DEF StartRecreate, FieldsOK
    <3>6. CASE JobReply(c)
      BY <3>1, <3>6, EngineJobAssumption DEF JobReply, RecreateId, FieldsOK
    <3>. QED
      BY <1>2, <3>2, <3>3, <3>4, <3>5, <3>6 DEF Step
  <2>2. \/ \E l \in Unary \cup {"poll"} : Goto(c, l)
        \/ \E h \in Hows, s \in States \cup {"none"} : End(c, h, s)
        \/ Retry(c) /\ tries[c] < MaxTries
    BY <1>2 DEF Step, FutureResult, FutureJob, FutureError, Poll, PollReply, PollNotFound,
       StartRecreate, ProgramReply, JobReply, FetchReply, GotLook, UnaryError, Retry,
       AfterPolling, NeedsRefresh, FieldsOK, ServiceOK, CallersOK, Hows, Unary
  <2>3. CASE Retry(c) /\ tries[c] < MaxTries
    BY <2>1, <2>3, EngineJobAssumption DEF Retry, CallersOK
  <2>. QED
    BY <2>1, <2>2, <2>3, GotoMoves, EndMoves
<1>3. ASSUME NEW c \in Callers, PollTimeout(c)
      PROVE  CallersOK' /\ FieldsOK' /\ ServiceOK'
  BY <1>3, EndMoves DEF PollTimeout, Hows, FieldsOK, ServiceOK, fields, service
<1>4. ASSUME NEW c \in Callers, Serve(c) \/ Unavailable(c) \/ ReplyLost(c)
      PROVE  CallersOK' /\ FieldsOK' /\ ServiceOK'
  <2>1. CallersOK' /\ FieldsOK'
    BY <1>4 DEF Serve, Unavailable, ReplyLost, Replies, CallersOK, FieldsOK, fields
  <2>2. ServiceOK'
    BY <1>4, HandleTypes DEF Serve, Unavailable, ReplyLost, ServiceOK, service
  <2>. QED
    BY <2>1, <2>2
<1>5. ASSUME \/ \E i \in Ids : Progress(i)
             \/ Cancel \/ Delete \/ StreamCreate \/ StreamEnd
      PROVE  CallersOK' /\ FieldsOK' /\ ServiceOK'
  <2>1. CallersOK' /\ FieldsOK'
    BY <1>5 DEF Progress, Cancel, Delete, StreamCreate, StreamEnd, CallersOK, FieldsOK, fields
  <2>2. ASSUME NEW i \in Ids, Progress(i) PROVE ServiceOK'
    BY <2>2, SetJobTypes DEF Progress, ServiceOK
  <2>3. ASSUME Cancel PROVE ServiceOK'
    BY <2>3, SetJobTypes DEF Cancel, ServiceOK, FieldsOK
  <2>4. ASSUME Delete PROVE ServiceOK'
    BY <2>4, EngineJobAssumption DEF Delete, ServiceOK, FieldsOK
  <2>5. ASSUME StreamCreate PROVE ServiceOK'
    BY <2>5, SetJobTypes, EngineJobAssumption DEF StreamCreate, ServiceOK
  <2>6. ASSUME StreamEnd PROVE ServiceOK'
    BY <2>6 DEF StreamEnd, ServiceOK
  <2>. QED
    BY <1>5, <2>1, <2>2, <2>3, <2>4, <2>5, <2>6
<1>. QED
  BY <1>1, <1>2, <1>3, <1>4, <1>5 DEF Next

-----------------------------------------------------------------------------
(* Every step keeps every part of the invariant. *)

\* No step creates a job of another id, or one whose program is not there.
LEMMA IdentityStep ==
    ASSUME JobInv, Next
    PROVE  Identity'
<1>. USE EngineJobAssumption DEF JobInv, TypeOK, Identity, OneCreator, States,
         TERMINAL_STATES, fields, service
<1>1. ASSUME NEW c \in Callers, Call(c) PROVE Identity'
  BY <1>1 DEF Call, CallResults, CallStatus, CallInner, CallUpdate, NeedsRefresh, Goto,
     End
<1>2. ASSUME NEW c \in Callers, FutureResult(c) \/ FutureJob(c) \/ FutureError(c)
      PROVE  Identity'
  BY <1>2 DEF FutureResult, FutureJob, FutureError, Goto, End
<1>3. ASSUME NEW c \in Callers, Poll(c) \/ PollReply(c) \/ PollNotFound(c) \/ PollTimeout(c)
      PROVE  Identity'
  BY <1>3 DEF Poll, PollReply, PollNotFound, PollTimeout, NeedsRefresh, AfterPolling,
     Goto, End
<1>4. ASSUME NEW c \in Callers, StartRecreate(c) \/ ProgramReply(c) \/ JobReply(c)
      PROVE  Identity'
  BY <1>4 DEF StartRecreate, ProgramReply, JobReply, RecreateId, Goto
<1>5. ASSUME NEW c \in Callers, FetchReply(c) \/ GotLook(c) \/ UnaryError(c) \/ Retry(c)
      PROVE  Identity'
  BY <1>5 DEF FetchReply, GotLook, UnaryError, Retry, End
<1>6. ASSUME NEW c \in Callers, Serve(c) PROVE Identity'
  BY <1>6 DEF Serve, Handle, Replies, RecreateId, SetJob
<1>7. ASSUME NEW c \in Callers, Unavailable(c) \/ ReplyLost(c) PROVE Identity'
  BY <1>7 DEF Unavailable, ReplyLost, Handle, Replies, RecreateId, SetJob
<1>8. ASSUME NEW i \in Ids, Progress(i) PROVE Identity'
  BY <1>8 DEF Progress, SetJob
<1>9. ASSUME Cancel \/ Delete PROVE Identity'
  BY <1>9 DEF Cancel, Delete, SetJob
<1>10. ASSUME StreamCreate \/ StreamEnd PROVE Identity'
  BY <1>10 DEF StreamCreate, StreamEnd, SetJob
<1>. QED
  BY <1>1, <1>2, <1>3, <1>4, <1>5, <1>6, <1>7, <1>8, <1>9, <1>10 DEF Next, Step

\* Jobs appear in SetJob and vanish in Delete, which count them.
LEMMA CountedStep ==
    ASSUME JobInv, Next
    PROVE  Counted'
<1>. USE EngineJobAssumption DEF JobInv, TypeOK, Identity, Counted, States,
         TERMINAL_STATES, fields, service
<1>1. ASSUME NEW c \in Callers, Call(c) PROVE Counted'
  BY <1>1 DEF Call, CallResults, CallStatus, CallInner, CallUpdate, NeedsRefresh, Goto,
     End
<1>2. ASSUME NEW c \in Callers, FutureResult(c) \/ FutureJob(c) \/ FutureError(c)
      PROVE  Counted'
  BY <1>2 DEF FutureResult, FutureJob, FutureError, Goto, End
<1>3. ASSUME NEW c \in Callers, Poll(c) \/ PollReply(c) \/ PollNotFound(c) \/ PollTimeout(c)
      PROVE  Counted'
  BY <1>3 DEF Poll, PollReply, PollNotFound, PollTimeout, NeedsRefresh, AfterPolling,
     Goto, End
<1>4. ASSUME NEW c \in Callers, StartRecreate(c) \/ ProgramReply(c) \/ JobReply(c)
      PROVE  Counted'
  BY <1>4 DEF StartRecreate, ProgramReply, JobReply, RecreateId, Goto
<1>5. ASSUME NEW c \in Callers, FetchReply(c) \/ GotLook(c) \/ UnaryError(c) \/ Retry(c)
      PROVE  Counted'
  BY <1>5 DEF FetchReply, GotLook, UnaryError, Retry, End
<1>6. ASSUME NEW c \in Callers, Serve(c) PROVE Counted'
  BY <1>6 DEF Serve, Handle, Replies, RecreateId, SetJob
<1>7. ASSUME NEW c \in Callers, Unavailable(c) \/ ReplyLost(c) PROVE Counted'
  BY <1>7 DEF Unavailable, ReplyLost, Handle, Replies, RecreateId, SetJob
<1>8. ASSUME NEW i \in Ids, Progress(i) PROVE Counted'
  BY <1>8 DEF Progress, SetJob
<1>9. ASSUME Cancel \/ Delete PROVE Counted'
  BY <1>9 DEF Cancel, Delete, SetJob
<1>10. ASSUME StreamCreate \/ StreamEnd PROVE Counted'
  BY <1>10 DEF StreamCreate, StreamEnd, SetJob
<1>. QED
  BY <1>1, <1>2, <1>3, <1>4, <1>5, <1>6, <1>7, <1>8, <1>9, <1>10 DEF Next, Step

\* Polling starts after the future has ended with a StreamError, or without one.
LEMMA SpentStep ==
    ASSUME JobInv, Next
    PROVE  Spent'
<1>. USE EngineJobAssumption DEF JobInv, TypeOK, Spent, OneCreator, Creating, States,
         TERMINAL_STATES, fields, service
<1>1. ASSUME NEW c \in Callers, Call(c) PROVE Spent'
  BY <1>1 DEF Call, CallResults, CallStatus, CallInner, CallUpdate, NeedsRefresh, Goto,
     End
<1>2. ASSUME NEW c \in Callers, FutureResult(c) \/ FutureJob(c) \/ FutureError(c)
      PROVE  Spent'
  BY <1>2 DEF FutureResult, FutureJob, FutureError, Goto, End
<1>3. ASSUME NEW c \in Callers, Poll(c) \/ PollReply(c) \/ PollNotFound(c) \/ PollTimeout(c)
      PROVE  Spent'
  BY <1>3 DEF Poll, PollReply, PollNotFound, PollTimeout, NeedsRefresh, AfterPolling,
     Goto, End
<1>4. ASSUME NEW c \in Callers, StartRecreate(c) \/ ProgramReply(c) \/ JobReply(c)
      PROVE  Spent'
  BY <1>4 DEF StartRecreate, ProgramReply, JobReply, RecreateId, Goto
<1>5. ASSUME NEW c \in Callers, FetchReply(c) \/ GotLook(c) \/ UnaryError(c) \/ Retry(c)
      PROVE  Spent'
  BY <1>5 DEF FetchReply, GotLook, UnaryError, Retry, End
<1>6. ASSUME NEW c \in Callers, Serve(c) PROVE Spent'
  BY <1>6 DEF Serve, Handle, Replies, RecreateId, SetJob
<1>7. ASSUME NEW c \in Callers, Unavailable(c) \/ ReplyLost(c) PROVE Spent'
  BY <1>7 DEF Unavailable, ReplyLost, Handle, Replies, RecreateId, SetJob
<1>8. ASSUME NEW i \in Ids, Progress(i) PROVE Spent'
  BY <1>8 DEF Progress, SetJob
<1>9. ASSUME Cancel \/ Delete PROVE Spent'
  BY <1>9 DEF Cancel, Delete, SetJob
<1>10. ASSUME StreamCreate \/ StreamEnd PROVE Spent'
  BY <1>10 DEF StreamCreate, StreamEnd, SetJob
<1>. QED
  BY <1>1, <1>2, <1>3, <1>4, <1>5, <1>6, <1>7, <1>8, <1>9, <1>10 DEF Next, Step

\* The first caller that creates the job takes the way to do so from the others.
LEMMA OneCreatorStep ==
    ASSUME JobInv, Next
    PROVE  OneCreator'
<1>. USE EngineJobAssumption DEF JobInv, TypeOK, OneCreator, Creating, States,
         TERMINAL_STATES, fields, service
<1>1. ASSUME NEW c \in Callers, Call(c) PROVE OneCreator'
  BY <1>1 DEF Call, CallResults, CallStatus, CallInner, CallUpdate, NeedsRefresh, Goto,
     End
<1>2. ASSUME NEW c \in Callers, FutureResult(c) \/ FutureJob(c) \/ FutureError(c)
      PROVE  OneCreator'
  BY <1>2 DEF FutureResult, FutureJob, FutureError, Goto, End
<1>3. ASSUME NEW c \in Callers, Poll(c) \/ PollReply(c) \/ PollNotFound(c) \/ PollTimeout(c)
      PROVE  OneCreator'
  BY <1>3 DEF Poll, PollReply, PollNotFound, PollTimeout, NeedsRefresh, AfterPolling,
     Goto, End
<1>4. ASSUME NEW c \in Callers, StartRecreate(c) \/ ProgramReply(c) \/ JobReply(c)
      PROVE  OneCreator'
  BY <1>4 DEF StartRecreate, ProgramReply, JobReply, RecreateId, Goto
<1>5. ASSUME NEW c \in Callers, FetchReply(c) \/ GotLook(c) \/ UnaryError(c) \/ Retry(c)
      PROVE  OneCreator'
  BY <1>5 DEF FetchReply, GotLook, UnaryError, Retry, End
<1>6. ASSUME NEW c \in Callers, Serve(c) PROVE OneCreator'
  BY <1>6 DEF Serve, Handle, Replies, RecreateId, SetJob
<1>7. ASSUME NEW c \in Callers, Unavailable(c) \/ ReplyLost(c) PROVE OneCreator'
  BY <1>7 DEF Unavailable, ReplyLost, Handle, Replies, RecreateId, SetJob
<1>8. ASSUME NEW i \in Ids, Progress(i) PROVE OneCreator'
  BY <1>8 DEF Progress, SetJob
<1>9. ASSUME Cancel \/ Delete PROVE OneCreator'
  BY <1>9 DEF Cancel, Delete, SetJob
<1>10. ASSUME StreamCreate \/ StreamEnd PROVE OneCreator'
  BY <1>10 DEF StreamCreate, StreamEnd, SetJob
<1>. QED
  BY <1>1, <1>2, <1>3, <1>4, <1>5, <1>6, <1>7, <1>8, <1>9, <1>10 DEF Next, Step

\* The job the creator found absent comes into being only by a late request of the
\* stream or by its own call.
LEMMA ExplainedStep ==
    ASSUME JobInv, Next
    PROVE  Explained'
<1>. USE EngineJobAssumption DEF JobInv, TypeOK, Identity, Spent, OneCreator, Explained,
         Creating, Outcomes, States, TERMINAL_STATES, fields, service
<1>1. ASSUME NEW c \in Callers, Call(c) PROVE Explained'
  BY <1>1 DEF Call, CallResults, CallStatus, CallInner, CallUpdate, NeedsRefresh, Goto,
     End
<1>2. ASSUME NEW c \in Callers, FutureResult(c) \/ FutureJob(c) \/ FutureError(c)
      PROVE  Explained'
  BY <1>2 DEF FutureResult, FutureJob, FutureError, Goto, End
<1>3. ASSUME NEW c \in Callers, Poll(c) \/ PollReply(c) \/ PollNotFound(c) \/ PollTimeout(c)
      PROVE  Explained'
  BY <1>3 DEF Poll, PollReply, PollNotFound, PollTimeout, NeedsRefresh, AfterPolling,
     Goto, End
<1>4. ASSUME NEW c \in Callers, StartRecreate(c) \/ ProgramReply(c) \/ JobReply(c)
      PROVE  Explained'
  BY <1>4 DEF StartRecreate, ProgramReply, JobReply, RecreateId, Goto
<1>5. ASSUME NEW c \in Callers, FetchReply(c) \/ GotLook(c) \/ UnaryError(c) \/ Retry(c)
      PROVE  Explained'
  BY <1>5 DEF FetchReply, GotLook, UnaryError, Retry, End
<1>6. ASSUME NEW c \in Callers, Serve(c) PROVE Explained'
  BY <1>6 DEF Serve, Handle, Replies, RecreateId, SetJob
<1>7. ASSUME NEW c \in Callers, Unavailable(c) \/ ReplyLost(c) PROVE Explained'
  BY <1>7 DEF Unavailable, ReplyLost, Handle, Replies, RecreateId, SetJob
<1>8. ASSUME NEW i \in Ids, Progress(i) PROVE Explained'
  BY <1>8 DEF Progress, SetJob
<1>9. ASSUME Cancel \/ Delete PROVE Explained'
  BY <1>9 DEF Cancel, Delete, SetJob
<1>10. ASSUME StreamCreate \/ StreamEnd PROVE Explained'
  BY <1>10 DEF StreamCreate, StreamEnd, SetJob
<1>. QED
  BY <1>1, <1>2, <1>3, <1>4, <1>5, <1>6, <1>7, <1>8, <1>9, <1>10 DEF Next, Step

\* A job vanishes only by deletion; recreate is given up only for an attempt.
LEMMA NotFoundStep ==
    ASSUME JobInv, Next
    PROVE  NotFound'
<1>. USE EngineJobAssumption DEF JobInv, TypeOK, Identity, NotFound, OneCreator,
         Creating, States, TERMINAL_STATES, fields, service
<1>1. ASSUME NEW c \in Callers, Call(c) PROVE NotFound'
  BY <1>1 DEF Call, CallResults, CallStatus, CallInner, CallUpdate, NeedsRefresh, Goto,
     End
<1>2. ASSUME NEW c \in Callers, FutureResult(c) \/ FutureJob(c) \/ FutureError(c)
      PROVE  NotFound'
  BY <1>2 DEF FutureResult, FutureJob, FutureError, Goto, End
<1>3. ASSUME NEW c \in Callers, Poll(c) \/ PollReply(c) \/ PollNotFound(c) \/ PollTimeout(c)
      PROVE  NotFound'
  BY <1>3 DEF Poll, PollReply, PollNotFound, PollTimeout, NeedsRefresh, AfterPolling,
     Goto, End
<1>4. ASSUME NEW c \in Callers, StartRecreate(c) \/ ProgramReply(c) \/ JobReply(c)
      PROVE  NotFound'
  BY <1>4 DEF StartRecreate, ProgramReply, JobReply, RecreateId, Goto
<1>5. ASSUME NEW c \in Callers, FetchReply(c) \/ GotLook(c) \/ UnaryError(c) \/ Retry(c)
      PROVE  NotFound'
  BY <1>5 DEF FetchReply, GotLook, UnaryError, Retry, End
<1>6. ASSUME NEW c \in Callers, Serve(c) PROVE NotFound'
  BY <1>6 DEF Serve, Handle, Replies, RecreateId, SetJob
<1>7. ASSUME NEW c \in Callers, Unavailable(c) \/ ReplyLost(c) PROVE NotFound'
  BY <1>7 DEF Unavailable, ReplyLost, Handle, Replies, RecreateId, SetJob
<1>8. ASSUME NEW i \in Ids, Progress(i) PROVE NotFound'
  BY <1>8 DEF Progress, SetJob
<1>9. ASSUME Cancel \/ Delete PROVE NotFound'
  BY <1>9 DEF Cancel, Delete, SetJob
<1>10. ASSUME StreamCreate \/ StreamEnd PROVE NotFound'
  BY <1>10 DEF StreamCreate, StreamEnd, SetJob
<1>. QED
  BY <1>1, <1>2, <1>3, <1>4, <1>5, <1>6, <1>7, <1>8, <1>9, <1>10 DEF Next, Step

\* SetJob records every state a job takes; everything else is a copy.
LEMMA RecordedStep ==
    ASSUME JobInv, Next
    PROVE  Recorded'
<1>. USE EngineJobAssumption DEF JobInv, TypeOK, Identity, Recorded, States,
         TERMINAL_STATES, fields, service
<1>1. ASSUME NEW c \in Callers, Call(c) PROVE Recorded'
  BY <1>1 DEF Call, CallResults, CallStatus, CallInner, CallUpdate, NeedsRefresh, Goto,
     End
<1>2. ASSUME NEW c \in Callers, FutureResult(c) \/ FutureJob(c) \/ FutureError(c)
      PROVE  Recorded'
  BY <1>2 DEF FutureResult, FutureJob, FutureError, Goto, End
<1>3. ASSUME NEW c \in Callers, Poll(c) \/ PollReply(c) \/ PollNotFound(c) \/ PollTimeout(c)
      PROVE  Recorded'
  BY <1>3 DEF Poll, PollReply, PollNotFound, PollTimeout, NeedsRefresh, AfterPolling,
     Goto, End
<1>4. ASSUME NEW c \in Callers, StartRecreate(c) \/ ProgramReply(c) \/ JobReply(c)
      PROVE  Recorded'
  BY <1>4 DEF StartRecreate, ProgramReply, JobReply, RecreateId, Goto
<1>5. ASSUME NEW c \in Callers, FetchReply(c) \/ GotLook(c) \/ UnaryError(c) \/ Retry(c)
      PROVE  Recorded'
  BY <1>5 DEF FetchReply, GotLook, UnaryError, Retry, End
<1>6. ASSUME NEW c \in Callers, Serve(c) PROVE Recorded'
  BY <1>6 DEF Serve, Handle, Replies, RecreateId, SetJob
<1>7. ASSUME NEW c \in Callers, Unavailable(c) \/ ReplyLost(c) PROVE Recorded'
  BY <1>7 DEF Unavailable, ReplyLost, Handle, Replies, RecreateId, SetJob
<1>8. ASSUME NEW i \in Ids, Progress(i) PROVE Recorded'
  BY <1>8 DEF Progress, SetJob
<1>9. ASSUME Cancel \/ Delete PROVE Recorded'
  BY <1>9 DEF Cancel, Delete, SetJob
<1>10. ASSUME StreamCreate \/ StreamEnd PROVE Recorded'
  BY <1>10 DEF StreamCreate, StreamEnd, SetJob
<1>. QED
  BY <1>1, <1>2, <1>3, <1>4, <1>5, <1>6, <1>7, <1>8, <1>9, <1>10 DEF Next, Step

\* A failure is raised with the terminal state of the cached job, a reply or the future.
LEMMA FailedStep ==
    ASSUME JobInv, Next
    PROVE  Failed'
<1>. USE EngineJobAssumption DEF JobInv, Recorded, Failed, TERMINAL_STATES, States,
         fields, service
<1>1. ASSUME NEW c \in Callers, Call(c) PROVE Failed'
  <2>1. ASSUME CallStatus(c) \/ CallInner(c), NEW s \in States \cup {"none"}, End(c, "looked", s)
        PROVE  Failed'
    BY <1>1, <2>1, EndMoves, TypeParts DEF CallStatus, CallInner, Hows
  <2>2. ASSUME NEW s \in States \cup {"none"}, CallResults(c), End(c, "result", s) PROVE Failed'
    BY <1>1, <2>2, EndMoves, TypeParts DEF CallResults, Hows
  <2>3. ASSUME NEW l, Call(c), Goto(c, l) PROVE Failed'
    BY <2>3 DEF Call, CallResults, CallStatus, CallInner, CallUpdate, Goto
  <2>. QED
    BY <1>1, <2>1, <2>2, <2>3, TypeParts
    DEF Call, CallResults, CallStatus, CallInner, CallUpdate, NeedsRefresh, FieldsOK
<1>2. ASSUME NEW c \in Callers, FutureResult(c) \/ FutureJob(c) \/ FutureError(c)
      PROVE  Failed'
  <2>1. CASE FutureResult(c) \/ FutureJob(c)
    BY <2>1, EndMoves, TypeParts DEF FutureResult, FutureJob, Hows
  <2>2. CASE FutureError(c)
    BY <2>2, EndMoves, TypeParts DEF FutureError, Goto, Hows
  <2>. QED
    BY <1>2, <2>1, <2>2
<1>3. ASSUME NEW c \in Callers, Poll(c) \/ PollReply(c) \/ PollNotFound(c) \/ PollTimeout(c)
      PROVE  Failed'
  <2>1. CASE Poll(c)
    BY <2>1, EndMoves, TypeParts DEF Poll, AfterPolling, NeedsRefresh, Goto, Hows, FieldsOK
  <2>2. CASE PollReply(c)
    BY <2>2, EndMoves, TypeParts DEF PollReply, AfterPolling, Goto, Hows
  <2>3. CASE PollNotFound(c) \/ PollTimeout(c)
    BY <2>3, EndMoves, TypeParts DEF PollNotFound, PollTimeout, Hows
  <2>. QED
    BY <1>3, <2>1, <2>2, <2>3
<1>4. ASSUME NEW c \in Callers, StartRecreate(c) \/ ProgramReply(c) \/ JobReply(c)
      PROVE  Failed'
  BY <1>4 DEF StartRecreate, ProgramReply, JobReply, RecreateId, Goto
<1>5. ASSUME NEW c \in Callers, FetchReply(c) \/ GotLook(c) \/ UnaryError(c) \/ Retry(c)
      PROVE  Failed'
  <2>1. CASE FetchReply(c) \/ GotLook(c)
    BY <2>1, EndMoves, TypeParts DEF FetchReply, GotLook, Hows
  <2>2. CASE UnaryError(c)
    BY <2>2, EndMoves, TypeParts DEF UnaryError, Hows
  <2>3. CASE Retry(c)
    BY <2>3, EndMoves, TypeParts DEF Retry, Hows
  <2>. QED
    BY <1>5, <2>1, <2>2, <2>3
<1>6. ASSUME NEW c \in Callers, Serve(c) PROVE Failed'
  BY <1>6 DEF Serve, Handle, Replies, RecreateId, SetJob
<1>7. ASSUME NEW c \in Callers, Unavailable(c) \/ ReplyLost(c) PROVE Failed'
  BY <1>7 DEF Unavailable, ReplyLost, Handle, Replies, RecreateId, SetJob
<1>8. ASSUME NEW i \in Ids, Progress(i) PROVE Failed'
  BY <1>8 DEF Progress, SetJob
<1>9. ASSUME Cancel \/ Delete PROVE Failed'
  BY <1>9 DEF Cancel, Delete, SetJob
<1>10. ASSUME StreamCreate \/ StreamEnd PROVE Failed'
  BY <1>10 DEF StreamCreate, StreamEnd, SetJob
<1>. QED
  BY <1>1, <1>2, <1>3, <1>4, <1>5, <1>6, <1>7, <1>8, <1>9, <1>10 DEF Next, Step

\* A job that has ended does not change again until it is deleted.
LEMMA SettledStep ==
    ASSUME JobInv, Next
    PROVE  Settled'
<1>. USE EngineJobAssumption DEF JobInv, TypeOK, Identity, Settled, OneCreator,
         Outcomes, States, TERMINAL_STATES, fields, service
<1>1. ASSUME NEW c \in Callers, Call(c) PROVE Settled'
  BY <1>1 DEF Call, CallResults, CallStatus, CallInner, CallUpdate, NeedsRefresh, Goto,
     End
<1>2. ASSUME NEW c \in Callers, FutureResult(c) \/ FutureJob(c) \/ FutureError(c)
      PROVE  Settled'
  BY <1>2 DEF FutureResult, FutureJob, FutureError, Goto, End
<1>3. ASSUME NEW c \in Callers, Poll(c) \/ PollReply(c) \/ PollNotFound(c) \/ PollTimeout(c)
      PROVE  Settled'
  BY <1>3 DEF Poll, PollReply, PollNotFound, PollTimeout, NeedsRefresh, AfterPolling,
     Goto, End
<1>4. ASSUME NEW c \in Callers, StartRecreate(c) \/ ProgramReply(c) \/ JobReply(c)
      PROVE  Settled'
  BY <1>4 DEF StartRecreate, ProgramReply, JobReply, RecreateId, Goto
<1>5. ASSUME NEW c \in Callers, FetchReply(c) \/ GotLook(c) \/ UnaryError(c) \/ Retry(c)
      PROVE  Settled'
  BY <1>5 DEF FetchReply, GotLook, UnaryError, Retry, End
<1>6. ASSUME NEW c \in Callers, Serve(c) PROVE Settled'
  BY <1>6 DEF Serve, Handle, Replies, RecreateId, SetJob
<1>7. ASSUME NEW c \in Callers, Unavailable(c) \/ ReplyLost(c) PROVE Settled'
  BY <1>7 DEF Unavailable, ReplyLost, Handle, Replies, RecreateId, SetJob
<1>8. ASSUME NEW i \in Ids, Progress(i) PROVE Settled'
  BY <1>8 DEF Progress, SetJob
<1>9. ASSUME Cancel \/ Delete PROVE Settled'
  BY <1>9 DEF Cancel, Delete, SetJob
<1>10. ASSUME StreamCreate \/ StreamEnd PROVE Settled'
  BY <1>10 DEF StreamCreate, StreamEnd, SetJob
<1>. QED
  BY <1>1, <1>2, <1>3, <1>4, <1>5, <1>6, <1>7, <1>8, <1>9, <1>10 DEF Next, Step

-----------------------------------------------------------------------------
(* Theorems *)

\* A stuttering step keeps the invariant.
LEMMA JobInvStutters ==
    ASSUME JobInv, UNCHANGED vars
    PROVE  JobInv'
  BY DEF JobInv, TypeOK, vars, fields, service, Outcomes,
     Identity, Counted, Spent, OneCreator, Explained, NotFound, Recorded, Failed, Settled

\* Both ways an EngineJob comes into being establish the invariant.
LEMMA JobInvInit ==
    ASSUME Init
    PROVE  JobInv
<1>. USE EngineJobAssumption DEF Init, InitStreaming, InitUnary, States, TERMINAL_STATES
<1>1. [how |-> "none", state |-> "none"] \in Outcomes
  BY DEF Outcomes
<1>2. TypeOK
  <2>1. CallersOK
    BY <1>1 DEF CallersOK, Unary
  <2>2. FieldsOK
    BY DEF FieldsOK
  <2>3. ServiceOK
    <3>1. svc \in [Ids -> States \cup {"absent"}]
      OBVIOUS
    <3>2. program \in BOOLEAN
      OBVIOUS
    <3>3. wire \in BOOLEAN
      OBVIOUS
    <3>4. made \in Nat
      OBVIOUS
    <3>5. past \subseteq States
      OBVIOUS
    <3>6. fut \in States \cup {"none", "pending", "StreamError", "GoogleAPICallError"}
      OBVIOUS
    <3>7. deletes \in 0 .. MaxDeletes
      OBVIOUS
    <3>. QED
      BY <3>1, <3>2, <3>3, <3>4, <3>5, <3>6, <3>7 DEF ServiceOK
  <2>. QED
    BY <2>1, <2>2, <2>3, TypeParts
<1>3. Identity /\ Counted /\ Spent /\ OneCreator
  BY DEF Identity, Counted, Spent, OneCreator, Creating
<1>4. Explained /\ NotFound /\ Recorded /\ Failed /\ Settled
  BY DEF Explained, NotFound, Recorded, Failed, Settled, Creating
<1>. QED
  BY <1>2, <1>3, <1>4 DEF JobInv

\* JobInv is an invariant of the EngineJob.
LEMMA JobInvHolds == Spec => []JobInv
<1>1. Init => JobInv
  BY JobInvInit
<1>2. JobInv /\ [Next]_vars => JobInv'
  <2>1. JobInv /\ Next => JobInv'
    BY TypeStep, IdentityStep, CountedStep, SpentStep, OneCreatorStep, ExplainedStep,
       NotFoundStep, RecordedStep, FailedStep, SettledStep DEF JobInv
  <2>. QED
    BY <2>1, JobInvStutters
<1>. QED
  BY <1>1, <1>2, PTL DEF Spec

\* The fields of the object, the callers' replies and the service's jobs keep
\* their types.
THEOREM JobTypeCorrect == Spec => []TypeOK
<1>1. JobInv => TypeOK
  BY DEF JobInv
<1>. QED
  BY <1>1, JobInvHolds, PTL

\* However the stream, late requests, retries and callers meet, engine_job.py and
\* engine.py run a job a second time only after it has been deleted.
THEOREM JobRunsOnce == Spec => []RunsOnce
<1>1. JobInv => RunsOnce
  BY DEF JobInv, TypeOK, Counted, RunsOnce
<1>. QED
  BY <1>1, JobInvHolds, PTL

\* results_async meets a conflict only through a late stream request or a lost
\* reply, and misses a job only after a deletion or the one attempt to create it.
THEOREM JobErrorsAreExplained == Spec => []ErrorsAreExplained
<1>1. JobInv => ErrorsAreExplained
  BY DEF JobInv, Explained, NotFound, ErrorsAreExplained
<1>. QED
  BY <1>1, JobInvHolds, PTL

\* Results are those of a job that has succeeded, failures are failures the job has
\* had, and a terminal state in the cache is the service's, unless it was deleted.
THEOREM JobAnswersAreTrue == Spec => []AnswersAreTrue
<1>1. JobInv => AnswersAreTrue
  BY DEF JobInv, Identity, Failed, Settled, AnswersAreTrue
<1>. QED
  BY <1>1, JobInvHolds, PTL
=============================================================================
