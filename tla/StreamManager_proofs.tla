----------------------- MODULE StreamManager_proofs -----------------------
(***************************************************************************)
(* Proofs about StreamManager, for every set of submissions and programs   *)
(* and all values of the bounds.                                           *)
(***************************************************************************)
EXTENDS StreamManager, SequenceTheorems, TLAPS

\* The demultiplexer is one epoch ahead of the queue between the two halves of
\* _reset(), and stop() only runs while epochs remain.
EpochInv ==
    /\ demux = IF stopPc = "queue" THEN epoch + 1 ELSE epoch
    /\ stopPc # "idle" => epoch < MaxStops

----------------------------------------------------------------------------
\* What the demultiplexer and one turn of an execution do to typed state.

\* Completing futures with a typed response or exception keeps them futures
\* (ResponseDemux.publish, publish_exception).
LEMMA FutureTypes ==
    ASSUME TypeOK
    PROVE  /\ \A x \in {"none", "cancelled", "retryable", "fatal"} :
                 FailAll(x) => fut' \in [Execs -> Future]
           /\ \A r \in replies : Publish(r) => /\ subs' \in [Epochs -> SUBSET Sub]
                                               /\ fut' \in [Execs -> Future]
           /\ ClearSubscribers => subs' \in [Epochs -> SUBSET Sub]
<1>1. ASSUME NEW x \in {"none", "cancelled", "retryable", "fatal"}, FailAll(x)
      PROVE  fut' \in [Execs -> Future]
  <2>1. Raised(x) \in Future
    BY DEF Raised, Future
  <2>. QED
    BY <1>1, <2>1 DEF FailAll, TypeOK, ExecTypes
<1>2. ASSUME NEW r \in replies, Publish(r)
      PROVE  subs' \in [Epochs -> SUBSET Sub] /\ fut' \in [Execs -> Future]
  <2>1. [state |-> r.body, job |-> r.job] \in Future
    BY DEF Future, TypeOK, ServerTypes
  <2>. QED
    BY <1>2, <2>1 DEF Publish, TypeOK, ManagerTypes, ExecTypes
<1>3. ASSUME ClearSubscribers PROVE subs' \in [Epochs -> SUBSET Sub]
  BY <1>3 DEF ClearSubscribers, TypeOK, ManagerTypes
<1>. QED
  BY <1>1, <1>2, <1>3

\* Putting a request or the None on a queue keeps it a queue.
LEMMA PutType ==
    ASSUME TypeOK, NEW g \in Epochs, NEW item \in Request \cup {Stop}, Put(g, item)
    PROVE  queues' \in [Epochs -> Seq(Request \cup {Stop})]
BY DEF Put, TypeOK, ManagerTypes

\* A group of variables that keeps its values keeps its types.
LEMMA SameTypes ==
    ASSUME TypeOK
    PROVE  /\ UNCHANGED managerVars => ManagerTypes'
           /\ UNCHANGED streamVars => StreamTypes'
           /\ UNCHANGED execVars => ExecTypes'
           /\ UNCHANGED serverVars => ServerTypes'
           /\ UNCHANGED boundVars => BoundTypes'
<1>1. UNCHANGED managerVars => ManagerTypes'
  BY DEF TypeOK, managerVars, ManagerTypes
<1>2. UNCHANGED streamVars => StreamTypes'
  BY DEF TypeOK, streamVars, StreamTypes
<1>3. UNCHANGED execVars => ExecTypes'
  BY DEF TypeOK, execVars, ExecTypes
<1>4. UNCHANGED serverVars => ServerTypes'
  BY DEF TypeOK, serverVars, ServerTypes
<1>5. UNCHANGED boundVars => BoundTypes'
  BY DEF TypeOK, boundVars, BoundTypes
<1>. QED
  BY <1>1, <1>2, <1>3, <1>4, <1>5

\* One turn of the loop of _manage_execution() keeps every variable typed.
LEMMA SendType ==
    ASSUME TypeOK, StreamAssumption, NEW e \in Execs, NEW k \in Kinds, Send(e, k)
    PROVE  TypeOK'
<1>. DEFINE req == [id |-> nextId, exec |-> e, kind |-> k]
<1>1. req \in Request
  BY DEF Request, TypeOK, ManagerTypes
<1>2. qe[e] \in Epochs
  BY DEF TypeOK, ExecTypes
<1>3. queues' \in [Epochs -> Seq(Request \cup {Stop})]
  <2>1. CASE Put(qe[e], req)
    BY <1>1, <1>2, <2>1, PutType
  <2>2. CASE UNCHANGED queues
    BY <2>2 DEF TypeOK, ManagerTypes
  <2>. QED
    BY <2>1, <2>2 DEF Send
<1>4. ManagerTypes'
  <2>1. [id |-> nextId, exec |-> e] \in Sub
    BY DEF Sub, TypeOK, ManagerTypes
  <2>2. subs' \in [Epochs -> SUBSET Sub]
    BY <2>1 DEF Send, TypeOK, ManagerTypes
  <2>. QED
    BY <1>3, <2>2 DEF Send, TypeOK, ManagerTypes
<1>5. ExecTypes'
  <2>1. fut' \in [Execs -> Future]
    <3>1. Pending \in Future
      BY DEF Pending, Future
    <3>. QED
      BY <3>1 DEF Send, TypeOK, ExecTypes
  <2>2. mid' \in [Execs -> Nat] /\ kind' \in [Execs -> Kinds]
    BY DEF Send, TypeOK, ExecTypes, ManagerTypes
  <2>3. pc' \in [Execs -> {"idle", "scheduled", "blocked", "awaiting", "cancelling", "done"}]
    BY DEF Send, TypeOK, ExecTypes
  <2>. QED
    BY <2>1, <2>2, <2>3 DEF Send, TypeOK, ExecTypes
<1>6. UNCHANGED streamVars /\ UNCHANGED serverVars /\ UNCHANGED boundVars
  BY DEF Send
<1>. QED
  BY <1>4, <1>5, <1>6, SameTypes DEF TypeOK

\* Whatever error comes back, a retry is one of the three requests
\* (_get_retry_request_or_raise).
LEMMA RetryKinds ==
    ASSUME NEW c, NEW k PROVE Retry(c, k) \subseteq Kinds
<1>1. CASE c = "PROGRAM_DOES_NOT_EXIST" /\ k = CreateJob
  BY <1>1 DEF Retry, Kinds, CreateJob, CreateProgramAndJob
<1>2. CASE c = "PROGRAM_ALREADY_EXISTS" /\ k = CreateProgramAndJob
  BY <1>2 DEF Retry, Kinds
<1>3. CASE c = "JOB_DOES_NOT_EXIST" /\ k = GetResult
  BY <1>3 DEF Retry, Kinds
<1>4. CASE c = "JOB_ALREADY_EXISTS" /\ k # GetResult
  BY <1>4 DEF Retry, Kinds
<1>. QED
  BY <1>1, <1>2, <1>3, <1>4 DEF Retry

\* Every step of the manager, the stream, the executions and the server keeps
\* the state well typed.
LEMMA TypeStep ==
    ASSUME TypeOK, EpochInv, StreamAssumption, [Next]_vars
    PROVE  TypeOK'
<1>1. ASSUME NEW e \in Execs, Submit(e) PROVE TypeOK'
  <2>11. StreamTypes'
    BY <1>1 DEF Submit, TypeOK, ManagerTypes, StreamTypes
  <2>12. ExecTypes'
    BY <1>1 DEF Submit, TypeOK, ManagerTypes, ExecTypes
  <2>13. ManagerTypes' /\ ServerTypes' /\ BoundTypes'
    BY <1>1, SameTypes DEF Submit, managerVars, serverVars, boundVars
  <2>. QED
    BY <2>11, <2>12, <2>13 DEF TypeOK
<1>2. CASE StopCancelStream
  <2>11. ManagerTypes'
    BY <1>2 DEF StopCancelStream, StreamLive, TypeOK, ManagerTypes
  <2>12. StreamTypes' /\ ExecTypes' /\ ServerTypes' /\ BoundTypes'
    BY <1>2, SameTypes DEF StopCancelStream, StreamLive, streamVars, execVars, serverVars, boundVars
  <2>. QED
    BY <2>11, <2>12 DEF TypeOK
<1>3. CASE StopNotify
  <2>11. ManagerTypes'
    BY <1>3 DEF StopNotify, TypeOK, ManagerTypes
  <2>12. ExecTypes'
    BY <1>3, FutureTypes DEF StopNotify, TypeOK, ExecTypes
  <2>13. StreamTypes' /\ ServerTypes' /\ BoundTypes'
    BY <1>3, SameTypes DEF StopNotify, streamVars, serverVars, boundVars
  <2>. QED
    BY <2>11, <2>12, <2>13 DEF TypeOK
<1>4. CASE StopClear
  <2>11. ManagerTypes'
    BY <1>4, FutureTypes DEF StopClear, TypeOK, ManagerTypes
  <2>12. StreamTypes' /\ ExecTypes' /\ ServerTypes' /\ BoundTypes'
    BY <1>4, SameTypes DEF StopClear, streamVars, execVars, serverVars, boundVars
  <2>. QED
    BY <2>11, <2>12 DEF TypeOK
<1>5. CASE StopResetDemux
  <2>11. ManagerTypes'
    BY <1>5 DEF StopResetDemux, TypeOK, ManagerTypes, EpochInv, Epochs, StreamAssumption
  <2>12. StreamTypes' /\ ExecTypes' /\ ServerTypes' /\ BoundTypes'
    BY <1>5, SameTypes DEF StopResetDemux, streamVars, execVars, serverVars, boundVars
  <2>. QED
    BY <2>11, <2>12 DEF TypeOK
<1>6. CASE StopResetQueue
  <2>11. ManagerTypes'
    BY <1>6 DEF StopResetQueue, TypeOK, ManagerTypes, EpochInv, Epochs, StreamAssumption
  <2>12. StreamTypes' /\ ExecTypes' /\ ServerTypes' /\ BoundTypes'
    BY <1>6, SameTypes DEF StopResetQueue, streamVars, execVars, serverVars, boundVars
  <2>. QED
    BY <2>11, <2>12 DEF TypeOK
<1>7. ASSUME NEW g \in Epochs, StreamOpen(g) PROVE TypeOK'
  <2>11. StreamTypes'
    BY <1>7 DEF StreamOpen, TypeOK, StreamTypes
  <2>12. ManagerTypes' /\ ExecTypes' /\ ServerTypes' /\ BoundTypes'
    BY <1>7, SameTypes DEF StreamOpen, managerVars, execVars, serverVars, boundVars
  <2>. QED
    BY <2>11, <2>12 DEF TypeOK
<1>8. ASSUME NEW g \in Epochs, NEW r \in replies, StreamResponse(g, r) PROVE TypeOK'
  <2>11. ManagerTypes'
    BY <1>8, FutureTypes DEF StreamResponse, TypeOK, ManagerTypes
  <2>12. ExecTypes'
    BY <1>8, FutureTypes DEF StreamResponse, TypeOK, ExecTypes
  <2>13. ServerTypes'
    BY <1>8 DEF StreamResponse, TypeOK, ServerTypes
  <2>14. StreamTypes' /\ BoundTypes'
    BY <1>8, SameTypes DEF StreamResponse, streamVars, boundVars
  <2>. QED
    BY <2>11, <2>12, <2>13, <2>14 DEF TypeOK
<1>9. ASSUME NEW g \in Epochs, NEW x \in BreakKinds, StreamBreak(g, x) PROVE TypeOK'
  <2>11. StreamTypes'
    BY <1>9 DEF StreamBreak, TypeOK, StreamTypes
  <2>12. ServerTypes'
    BY <1>9 DEF StreamBreak, TypeOK, ServerTypes
  <2>13. BoundTypes'
    BY <1>9 DEF StreamBreak, TypeOK, BoundTypes
  <2>14. ManagerTypes' /\ ExecTypes'
    BY <1>9, SameTypes DEF StreamBreak, managerVars, execVars
  <2>. QED
    BY <2>11, <2>12, <2>13, <2>14 DEF TypeOK
<1>10. ASSUME NEW g \in Epochs, StreamNotify(g) PROVE TypeOK'
  <2>1. err[g] \in {"none", "cancelled", "retryable", "fatal"}
    BY DEF TypeOK, StreamTypes, StreamAssumption
  <2>11. ManagerTypes'
    BY <1>10, FutureTypes, PutType DEF StreamNotify, TypeOK, ManagerTypes, PublishException
  <2>12. StreamTypes'
    BY <1>10 DEF StreamNotify, TypeOK, StreamTypes
  <2>13. ExecTypes'
    BY <1>10, FutureTypes, <2>1 DEF StreamNotify, TypeOK, ExecTypes, PublishException
  <2>14. ServerTypes' /\ BoundTypes'
    BY <1>10, SameTypes DEF StreamNotify, serverVars, boundVars
  <2>. QED
    BY <2>11, <2>12, <2>13, <2>14 DEF TypeOK
<1>11. ASSUME NEW g \in Epochs, StreamEnd(g) \/ StreamEndUnsolicited(g) PROVE TypeOK'
  <2>11. StreamTypes'
    BY <1>11 DEF StreamEnd, StreamEndUnsolicited, TypeOK, StreamTypes
  <2>12. BoundTypes'
    BY <1>11 DEF StreamEnd, StreamEndUnsolicited, TypeOK, BoundTypes, boundVars
  <2>13. ManagerTypes' /\ ExecTypes' /\ ServerTypes'
    BY <1>11, SameTypes DEF StreamEnd, StreamEndUnsolicited, managerVars, execVars, serverVars
  <2>. QED
    BY <2>11, <2>12, <2>13 DEF TypeOK
<1>12. ASSUME NEW g \in Epochs, StreamCancelled(g) PROVE TypeOK'
  <2>11. ManagerTypes'
    BY <1>12 DEF StreamCancelled, TypeOK, ManagerTypes
  <2>12. StreamTypes'
    BY <1>12 DEF StreamCancelled, TypeOK, StreamTypes
  <2>13. ServerTypes'
    BY <1>12 DEF StreamCancelled, TypeOK, ServerTypes
  <2>14. ExecTypes' /\ BoundTypes'
    BY <1>12, SameTypes DEF StreamCancelled, execVars, boundVars
  <2>. QED
    BY <2>11, <2>12, <2>13, <2>14 DEF TypeOK
<1>13. ASSUME NEW g \in Epochs, StreamClose(g) PROVE TypeOK'
  <2>11. ManagerTypes'
    BY <1>13, PutType DEF StreamClose, TypeOK, ManagerTypes
  <2>12. StreamTypes'
    BY <1>13 DEF StreamClose, TypeOK, StreamTypes
  <2>13. ExecTypes' /\ ServerTypes' /\ BoundTypes'
    BY <1>13, SameTypes DEF StreamClose, execVars, serverVars, boundVars
  <2>. QED
    BY <2>11, <2>12, <2>13 DEF TypeOK
<1>14. ASSUME NEW g \in Epochs, IterForward(g) PROVE TypeOK'
  <2>1. Head(queues[g]) \in Request /\ conn[g] \in Nat
    BY <1>14 DEF IterForward, TypeOK, ManagerTypes, StreamTypes
  <2>11. ManagerTypes'
    BY <1>14 DEF IterForward, TypeOK, ManagerTypes
  <2>12. ServerTypes'
    BY <1>14, <2>1 DEF IterForward, TypeOK, ServerTypes
  <2>13. StreamTypes' /\ ExecTypes' /\ BoundTypes'
    BY <1>14, SameTypes DEF IterForward, streamVars, execVars, boundVars
  <2>. QED
    BY <2>11, <2>12, <2>13 DEF TypeOK
<1>15. ASSUME NEW g \in Epochs, IterStop(g) PROVE TypeOK'
  <2>11. ManagerTypes'
    BY <1>15 DEF IterStop, TypeOK, ManagerTypes
  <2>12. StreamTypes'
    BY <1>15 DEF IterStop, TypeOK, StreamTypes
  <2>13. ExecTypes' /\ ServerTypes' /\ BoundTypes'
    BY <1>15, SameTypes DEF IterStop, execVars, serverVars, boundVars
  <2>. QED
    BY <2>11, <2>12, <2>13 DEF TypeOK
<1>25. ASSUME NEW g \in Epochs, IterDie(g) PROVE TypeOK'
  <2>11. StreamTypes'
    BY <1>25 DEF IterDie, TypeOK, StreamTypes
  <2>12. ManagerTypes' /\ ExecTypes' /\ ServerTypes' /\ BoundTypes'
    BY <1>25, SameTypes DEF IterDie, managerVars, execVars, serverVars, boundVars
  <2>. QED
    BY <2>11, <2>12 DEF TypeOK
<1>16. ASSUME NEW e \in Execs, ExecStart(e) \/ ExecRetryBrokenStream(e) \/ ExecRetryError(e)
       PROVE  TypeOK'
  <2>2. CASE ExecStart(e)
    BY <2>2, SendType DEF ExecStart, Kinds
  <2>3. CASE ExecRetryBrokenStream(e)
    BY <2>3, SendType DEF ExecRetryBrokenStream, Kinds
  <2>4. CASE ExecRetryError(e)
    BY <2>4, SendType, RetryKinds DEF ExecRetryError
  <2>. QED
    BY <1>16, <2>2, <2>3, <2>4
<1>17. ASSUME NEW e \in Execs, ExecPut(e) PROVE TypeOK'
  <2>1. [id |-> mid[e], exec |-> e, kind |-> kind[e]] \in Request
    BY DEF Request, TypeOK, ExecTypes
  <2>11. ManagerTypes'
    BY <1>17, <2>1, PutType DEF ExecPut, TypeOK, ManagerTypes, ExecTypes
  <2>12. ExecTypes'
    BY <1>17 DEF ExecPut, TypeOK, ExecTypes
  <2>13. StreamTypes' /\ ServerTypes' /\ BoundTypes'
    BY <1>17, SameTypes DEF ExecPut, streamVars, serverVars, boundVars
  <2>. QED
    BY <2>11, <2>12, <2>13 DEF TypeOK
<1>18. ASSUME NEW e \in Execs, ExecReturn(e) PROVE TypeOK'
  <2>1. [how |-> fut[e].state, job |-> fut[e].job] \in Outcome
    <3>1. fut[e].state \in Bodies \cup {"fatal"}
      BY <1>18 DEF ExecReturn, Bodies
    <3>2. fut[e].job \in Execs \cup {NoExec}
      BY DEF Future, TypeOK, ExecTypes
    <3>. QED
      BY <3>1, <3>2 DEF Outcome
  <2>11. ExecTypes'
    BY <1>18, <2>1 DEF ExecReturn, TypeOK, ExecTypes, Finish
  <2>12. ManagerTypes' /\ StreamTypes' /\ ServerTypes' /\ BoundTypes'
    BY <1>18, SameTypes DEF ExecReturn, managerVars, streamVars, serverVars, boundVars
  <2>. QED
    BY <2>11, <2>12 DEF TypeOK
<1>19. ASSUME NEW e \in Execs, ExecCancelled(e) PROVE TypeOK'
  <2>11. ExecTypes'
    BY <1>19 DEF ExecCancelled, TypeOK, ExecTypes
  <2>12. ManagerTypes' /\ StreamTypes' /\ ServerTypes' /\ BoundTypes'
    BY <1>19, SameTypes DEF ExecCancelled, managerVars, streamVars, serverVars, boundVars
  <2>. QED
    BY <2>11, <2>12 DEF TypeOK
<1>20. ASSUME NEW e \in Execs, ExecCancel(e) PROVE TypeOK'
  <2>1. [how |-> "cancelled", job |-> NoExec] \in Outcome /\ Raised("cancelled") \in Future
    BY DEF Outcome, Raised, Future
  <2>11. ExecTypes'
    BY <1>20, <2>1 DEF ExecCancel, TypeOK, ExecTypes, Finish
  <2>12. BoundTypes'
    BY <1>20 DEF ExecCancel, TypeOK, BoundTypes
  <2>13. ManagerTypes' /\ StreamTypes' /\ ServerTypes'
    BY <1>20, SameTypes DEF ExecCancel, managerVars, streamVars, serverVars
  <2>. QED
    BY <2>11, <2>12, <2>13 DEF TypeOK
<1>21. ASSUME NEW e \in Execs, ExecCancelJob(e) PROVE TypeOK'
  <2>1. \A h \in {"cancelled", "not_found"} : [how |-> h, job |-> NoExec] \in Outcome
    BY DEF Outcome
  <2>11. ExecTypes'
    BY <1>21, <2>1 DEF ExecCancelJob, TypeOK, ExecTypes, Finish
  <2>12. ServerTypes'
    BY <1>21 DEF ExecCancelJob, TypeOK, ServerTypes
  <2>13. ManagerTypes' /\ StreamTypes' /\ BoundTypes'
    BY <1>21, SameTypes DEF ExecCancelJob, managerVars, streamVars, boundVars
  <2>. QED
    BY <2>11, <2>12, <2>13 DEF TypeOK
<1>22. ASSUME NEW w \in wire, ServerHandle(w) PROVE TypeOK'
  <2>1. /\ w.req.id \in Nat /\ w.req.exec \in Execs /\ w.conn \in Nat
        /\ ProgramOf[w.req.exec] \in Programs
    BY DEF TypeOK, ServerTypes, Request, StreamAssumption
  <2>2. ServerBody(w.req) \cup Faults \subseteq Bodies
    BY DEF ServerBody, Answer, Bodies, Answers, ErrorCodes, ProtocolErrors
  <2>11. ServerTypes'
    BY <1>22, <2>1, <2>2 DEF ServerHandle, TypeOK, ServerTypes
  <2>12. ManagerTypes' /\ StreamTypes' /\ ExecTypes' /\ BoundTypes'
    BY <1>22, SameTypes DEF ServerHandle, managerVars, streamVars, execVars, boundVars
  <2>. QED
    BY <2>11, <2>12 DEF TypeOK
<1>23. ASSUME NEW w \in wire, ServerLose(w) PROVE TypeOK'
  <2>11. ServerTypes'
    BY <1>23 DEF ServerLose, TypeOK, ServerTypes
  <2>12. ManagerTypes' /\ StreamTypes' /\ ExecTypes' /\ BoundTypes'
    BY <1>23, SameTypes DEF ServerLose, managerVars, streamVars, execVars, boundVars
  <2>. QED
    BY <2>11, <2>12 DEF TypeOK
<1>24. CASE UNCHANGED vars
  BY <1>24, SameTypes DEF vars, TypeOK
<1>. QED
  BY <1>1, <1>2, <1>3, <1>4, <1>5, <1>6, <1>7, <1>8, <1>9, <1>10, <1>11, <1>12, <1>13,
     <1>14, <1>15, <1>16, <1>17, <1>18, <1>19, <1>20, <1>21, <1>22, <1>23, <1>24, <1>25
     DEF Next, StopSteps, StreamSteps, IterSteps, ExecSteps, Quiescent

\* The epochs of demultiplexer and queue move as stop() says.
LEMMA EpochStep ==
    ASSUME TypeOK, EpochInv, [Next]_vars
    PROVE  EpochInv'
<1>1. CASE StopSteps
  BY <1>1 DEF StopSteps, StopCancelStream, StopNotify, StopClear, StopResetDemux,
              StopResetQueue, EpochInv, TypeOK, ManagerTypes, Epochs
<1>2. ASSUME NEW e \in Execs, NEW k, Send(e, k)
      PROVE  UNCHANGED <<demux, epoch, stopPc>>
  BY <1>2 DEF Send
<1>3. CASE ~StopSteps
  <2>1. UNCHANGED <<demux, epoch, stopPc>>
    BY <1>2, <1>3
       DEF Next, vars, managerVars, StreamSteps, IterSteps, ExecSteps, Quiescent, Submit,
           StreamOpen, StreamResponse, StreamBreak, StreamNotify, StreamEnd,
           StreamEndUnsolicited, StreamCancelled, StreamClose, IterForward, IterStop,
           IterDie, ExecStart, ExecPut, ExecRetryBrokenStream, ExecRetryError, ExecReturn,
           ExecCancelled, ExecCancel, ExecCancelJob, ServerHandle, ServerLose
  <2>. QED
    BY <2>1 DEF EpochInv
<1>. QED
  BY <1>1, <1>3

\* Types and epochs hold together.
LEMMA StreamTypesAndEpochs == Spec => [](TypeOK /\ EpochInv)
<1>1. Init => TypeOK /\ EpochInv
  <2>. SUFFICES ASSUME Init PROVE TypeOK /\ EpochInv
    OBVIOUS
  <2>1. 0 \in Epochs
    BY StreamAssumption DEF StreamAssumption, Epochs
  <2>2. ManagerTypes
    <3>1. subs \in [Epochs -> SUBSET Sub]
      BY DEF Init
    <3>2. queues \in [Epochs -> Seq(Request \cup {Stop})]
      BY DEF Init
    <3>. QED
      BY <2>1, <3>1, <3>2 DEF Init, ManagerTypes
  <2>3. StreamTypes /\ BoundTypes
    <3>1. iters \in [Epochs -> Seq(Nat)]
      BY DEF Init
    <3>. QED
      BY <3>1 DEF Init, StreamTypes, BoundTypes
  <2>4. ExecTypes
    <3>1. NoFuture \in Future /\ NoOutcome \in Outcome /\ CreateProgramAndJob \in Kinds
      BY DEF NoFuture, Future, NoOutcome, Outcome, Kinds
    <3>. QED
      BY <2>1, <3>1 DEF Init, ExecTypes
  <2>5. ServerTypes
    BY DEF Init, ServerTypes
  <2>. QED
    BY <2>2, <2>3, <2>4, <2>5 DEF TypeOK, EpochInv, Init
<1>2. TypeOK /\ EpochInv /\ [Next]_vars => (TypeOK /\ EpochInv)'
  BY TypeStep, EpochStep, StreamAssumption
<1>. QED
  BY <1>1, <1>2, PTL DEF Spec

\* In every reachable state each variable has its type (all of
\* stream_manager.py).
THEOREM StreamTypeCorrect == Spec => []TypeOK
  BY StreamTypesAndEpochs, PTL

----------------------------------------------------------------------------
\* Responses reach their own submission.  A message id is claimed by the
\* execution it was generated for wherever it occurs: at a subscriber, in a
\* request on a queue, at the server or still to be put, in a response.

SubClaim(i, e) == \E g \in Epochs : [id |-> i, exec |-> e] \in subs[g]
QueueClaim(i, e) == \E g \in Epochs : \E n \in 1 .. Len(queues[g]) :
                      /\ queues[g][n] # Stop
                      /\ queues[g][n].id = i /\ queues[g][n].exec = e
WireClaim(i, e) == \E w \in wire : w.req.id = i /\ w.req.exec = e
ReplyClaim(i, e) == \E r \in replies : r.id = i /\ r.job = e
BlockedClaim(i, e) == pc[e] = "blocked" /\ mid[e] = i

Claim(i, e) == \/ SubClaim(i, e) \/ QueueClaim(i, e) \/ WireClaim(i, e)
               \/ ReplyClaim(i, e) \/ BlockedClaim(i, e)

\* Ids in use were generated, and each has one owner.
ClaimInv ==
    \A i \in Nat, e \in Execs :
        Claim(i, e) => i < nextId /\ \A f \in Execs : Claim(i, f) => f = e

\* A response future and a returned response are about their owner's job.
OwnInv ==
    \A e \in Execs : /\ fut[e].state \in Bodies => fut[e].job = e
                     /\ out[e].how \in Bodies => out[e].job = e

\* A step that generates no id and adds no claim keeps ids unambiguous.
LEMMA OldClaims ==
    ASSUME TypeOK, ClaimInv, nextId' = nextId,
           \A i \in Nat, e \in Execs : Claim(i, e)' => Claim(i, e)
    PROVE  ClaimInv'
BY DEF ClaimInv

\* The items of a queue after a put are the old ones and the new one.
LEMMA PutClaims ==
    ASSUME TypeOK, NEW g \in Epochs, NEW item \in Request \cup {Stop}, Put(g, item),
           NEW i \in Nat, NEW e \in Execs, QueueClaim(i, e)'
    PROVE  QueueClaim(i, e) \/ (item # Stop /\ item.id = i /\ item.exec = e)
<1>0. PICK h \in Epochs : \E n \in 1 .. Len(queues'[h]) :
        queues'[h][n] # Stop /\ queues'[h][n].id = i /\ queues'[h][n].exec = e
  BY DEF QueueClaim
<1>1. PICK n \in 1 .. Len(queues'[h]) :
        queues'[h][n] # Stop /\ queues'[h][n].id = i /\ queues'[h][n].exec = e
  BY <1>0
<1>2. queues[h] \in Seq(Request \cup {Stop})
  BY DEF TypeOK, ManagerTypes
<1>3. CASE h = g
  <2>1. queues'[h] = Append(queues[h], item)
    BY <1>3 DEF Put, TypeOK, ManagerTypes
  <2>2. CASE n \in 1 .. Len(queues[h])
    BY <1>1, <1>2, <2>1, <2>2 DEF QueueClaim
  <2>3. CASE n = Len(queues[h]) + 1
    BY <1>1, <1>2, <2>1, <2>3
  <2>. QED
    BY <1>2, <2>1, <2>2, <2>3
<1>4. CASE h # g
  BY <1>1, <1>4 DEF Put, TypeOK, ManagerTypes, QueueClaim
<1>. QED
  BY <1>3, <1>4

\* Taking the first item off a queue adds none.
LEMMA TakeClaims ==
    ASSUME TypeOK, NEW g \in Epochs, queues[g] # <<>>,
           queues' = [queues EXCEPT ![g] = Tail(@)],
           NEW i \in Nat, NEW e \in Execs, QueueClaim(i, e)'
    PROVE  QueueClaim(i, e)
<1>0. PICK h \in Epochs : \E n \in 1 .. Len(queues'[h]) :
        queues'[h][n] # Stop /\ queues'[h][n].id = i /\ queues'[h][n].exec = e
  BY DEF QueueClaim
<1>1. PICK n \in 1 .. Len(queues'[h]) :
        queues'[h][n] # Stop /\ queues'[h][n].id = i /\ queues'[h][n].exec = e
  BY <1>0
<1>2. queues[h] \in Seq(Request \cup {Stop})
  BY DEF TypeOK, ManagerTypes
<1>3. CASE h = g
  <2>1. queues'[h] = Tail(queues[h])
    BY <1>3 DEF TypeOK, ManagerTypes
  <2>2. n + 1 \in 1 .. Len(queues[h]) /\ queues'[h][n] = queues[h][n + 1]
    <3>. DEFINE q == queues[h]
    <3>1. q \in Seq(Request \cup {Stop}) /\ q # <<>>
      BY <1>2, <1>3
    <3>2. /\ Len(Tail(q)) = Len(q) - 1
          /\ \A m \in 1 .. Len(Tail(q)) : Tail(q)[m] = q[m + 1]
      BY <3>1, HeadTailProperties
    <3>3. Len(q) \in Nat
      BY <3>1
    <3>4. n \in 1 .. Len(Tail(q))
      BY <2>1
    <3>5. n + 1 \in 1 .. Len(q)
      BY <3>2, <3>3, <3>4
    <3>6. queues'[h][n] = q[n + 1]
      BY <2>1, <3>2, <3>4
    <3>. QED
      BY <3>5, <3>6
  <2>. QED
    BY <1>1, <2>2 DEF QueueClaim
<1>4. CASE h # g
  BY <1>1, <1>4 DEF TypeOK, ManagerTypes, QueueClaim
<1>. QED
  BY <1>3, <1>4

\* One turn of _manage_execution() claims the fresh id and nothing else.
LEMMA SendClaims ==
    ASSUME TypeOK, ClaimInv, OwnInv, NEW e \in Execs, NEW k \in Kinds, Send(e, k)
    PROVE  ClaimInv' /\ OwnInv'
<1>. DEFINE req == [id |-> nextId, exec |-> e, kind |-> k]
<1>1. \A i \in Nat, f \in Execs : Claim(i, f)' => Claim(i, f) \/ (i = nextId /\ f = e)
  <2>. SUFFICES ASSUME NEW i \in Nat, NEW f \in Execs, Claim(i, f)'
                PROVE  Claim(i, f) \/ (i = nextId /\ f = e)
    OBVIOUS
  <2>1. CASE SubClaim(i, f)'
    BY <2>1 DEF SubClaim, Claim, Send, TypeOK, ManagerTypes
  <2>2. CASE QueueClaim(i, f)'
    <3>1. CASE Put(qe[e], req)
      <4>1. req \in Request /\ qe[e] \in Epochs
        BY DEF Request, TypeOK, ManagerTypes, ExecTypes
      <4>. QED
        BY <2>2, <3>1, <4>1, PutClaims DEF Claim
    <3>2. CASE UNCHANGED queues
      BY <2>2, <3>2 DEF QueueClaim, Claim
    <3>. QED
      BY <3>1, <3>2 DEF Send
  <2>3. CASE WireClaim(i, f)' \/ ReplyClaim(i, f)'
    BY <2>3 DEF WireClaim, ReplyClaim, Claim, Send, serverVars
  <2>4. CASE BlockedClaim(i, f)'
    BY <2>4 DEF BlockedClaim, Claim, Send, TypeOK, ExecTypes
  <2>. QED
    BY <2>1, <2>2, <2>3, <2>4 DEF Claim
<1>2. nextId \in Nat /\ nextId' = nextId + 1
  BY DEF Send, TypeOK, ManagerTypes
<1>3. ClaimInv'
  BY <1>1, <1>2 DEF ClaimInv
<1>4. OwnInv'
  <2>1. "pending" \notin Bodies
    BY StreamAssumption DEF StreamAssumption, Bodies, Answers, ErrorCodes, ProtocolErrors
  <2>. QED
    BY <2>1 DEF OwnInv, Send, Pending, TypeOK, ExecTypes
<1>. QED
  BY <1>3, <1>4

\* A step that only removes subscribers, requests and responses adds no claim.
LEMMA ShrinkingClaims ==
    ASSUME TypeOK, ClaimInv, nextId' = nextId,
           \A g \in Epochs : subs'[g] \subseteq subs[g],
           \A i \in Nat, e \in Execs : QueueClaim(i, e)' => QueueClaim(i, e),
           wire' \subseteq wire, replies' \subseteq replies,
           \A e \in Execs : pc'[e] = "blocked" => pc[e] = "blocked" /\ mid'[e] = mid[e]
    PROVE  ClaimInv'
<1>1. \A i \in Nat, e \in Execs : Claim(i, e)' => Claim(i, e)
  BY DEF Claim, SubClaim, WireClaim, ReplyClaim, BlockedClaim
<1>. QED
  BY <1>1, OldClaims

\* The states a future or an outcome has without a response are no response.
LEMMA NotBodies ==
    {"none", "pending", "cancelled", "retryable", "fatal", "not_found"} \cap Bodies = {}
BY StreamAssumption DEF StreamAssumption, Bodies, Answers, ErrorCodes, ProtocolErrors

\* Failing futures with an exception gives no submission a response.
LEMMA FailAllOwn ==
    ASSUME TypeOK, OwnInv, NEW x \in {"none", "cancelled", "retryable", "fatal"}, FailAll(x),
           UNCHANGED out
    PROVE  OwnInv'
BY NotBodies DEF OwnInv, FailAll, Raised

\* Ending with an exception gives no submission a response.
LEMMA FinishOwn ==
    ASSUME TypeOK, OwnInv, NEW e \in Execs, NEW h \in {"cancelled", "not_found"},
           Finish(e, h, NoExec), UNCHANGED fut
    PROVE  OwnInv'
BY NotBodies DEF OwnInv, Finish, TypeOK, ExecTypes

\* The subscriber of a response's id is the execution whose job it is about: the two
\* claim the same message id.
LEMMA SubscriberOwnsResponse ==
    ASSUME TypeOK, ClaimInv, NEW r \in replies, NEW s \in subs[demux], s.id = r.id
    PROVE  s.exec = r.job
<1>1. r.id \in Nat /\ r.job \in Execs /\ Claim(r.id, r.job)
  BY DEF TypeOK, ServerTypes, Claim, ReplyClaim
<1>2. demux \in Epochs /\ s \in Sub
  BY DEF TypeOK, ManagerTypes
<1>3. s = [id |-> r.id, exec |-> s.exec] /\ s.exec \in Execs
  BY <1>2 DEF Sub
<1>4. Claim(r.id, s.exec)
  BY <1>2, <1>3 DEF Claim, SubClaim
<1>. QED
  BY <1>1, <1>3, <1>4 DEF ClaimInv

\* Publishing a response completes the future of the execution whose request it
\* answers.
LEMMA PublishOwn ==
    ASSUME TypeOK, ClaimInv, OwnInv, NEW r \in replies, Publish(r), UNCHANGED out
    PROVE  OwnInv'
  BY SubscriberOwnsResponse DEF Publish, OwnInv

\* Every step keeps message ids unambiguous and responses with their owners.
LEMMA OwnStep ==
    ASSUME TypeOK, ClaimInv, OwnInv, [Next]_vars
    PROVE  ClaimInv' /\ OwnInv'
<1>. USE DEF managerVars, streamVars, execVars, serverVars, boundVars
<1>0. ASSUME UNCHANGED <<fut, out>> PROVE OwnInv'
  BY <1>0 DEF OwnInv
<1>1. ASSUME UNCHANGED queues PROVE \A i \in Nat, e \in Execs : QueueClaim(i, e)' => QueueClaim(i, e)
  BY <1>1 DEF QueueClaim
<1>2. ASSUME NEW g \in Epochs, Put(g, Stop)
      PROVE  \A i \in Nat, e \in Execs : QueueClaim(i, e)' => QueueClaim(i, e)
  BY <1>2, PutClaims
<1>3. ASSUME NEW e \in Execs, Submit(e) PROVE ClaimInv' /\ OwnInv'
  BY <1>0, <1>1, <1>3, ShrinkingClaims DEF Submit, TypeOK, ExecTypes
<1>4. CASE StopCancelStream \/ StopResetDemux \/ StopResetQueue
  BY <1>0, <1>1, <1>4, ShrinkingClaims DEF StopCancelStream, StopResetDemux, StopResetQueue
<1>5. CASE StopNotify
  BY <1>1, <1>5, ShrinkingClaims, FailAllOwn DEF StopNotify
<1>6. CASE StopClear
  BY <1>0, <1>1, <1>6, ShrinkingClaims DEF StopClear, ClearSubscribers, TypeOK, ManagerTypes
<1>7. ASSUME NEW g \in Epochs,
             StreamOpen(g) \/ StreamEnd(g) \/ StreamEndUnsolicited(g) \/ IterDie(g)
      PROVE  ClaimInv' /\ OwnInv'
  BY <1>0, <1>1, <1>7, ShrinkingClaims DEF StreamOpen, StreamEnd, StreamEndUnsolicited, IterDie
<1>8. ASSUME NEW g \in Epochs, NEW r \in replies, StreamResponse(g, r) PROVE ClaimInv' /\ OwnInv'
  BY <1>1, <1>8, ShrinkingClaims, PublishOwn DEF StreamResponse, Publish, TypeOK, ManagerTypes
<1>9. ASSUME NEW g \in Epochs, NEW x \in BreakKinds, StreamBreak(g, x) PROVE ClaimInv' /\ OwnInv'
  BY <1>0, <1>1, <1>9, ShrinkingClaims DEF StreamBreak
<1>10. ASSUME NEW g \in Epochs, StreamNotify(g) PROVE ClaimInv' /\ OwnInv'
  <2>1. err[g] \in {"none", "cancelled", "retryable", "fatal"}
    BY StreamAssumption DEF TypeOK, StreamTypes, StreamAssumption
  <2>2. OwnInv'
    BY <1>10, <2>1, FailAllOwn DEF StreamNotify, PublishException
  <2>. QED
    BY <1>2, <1>10, <2>2, ShrinkingClaims
       DEF StreamNotify, PublishException, ClearSubscribers, TypeOK, ManagerTypes
<1>11. ASSUME NEW g \in Epochs, StreamCancelled(g) PROVE ClaimInv' /\ OwnInv'
  BY <1>0, <1>1, <1>11, ShrinkingClaims DEF StreamCancelled
<1>12. ASSUME NEW g \in Epochs, StreamClose(g) PROVE ClaimInv' /\ OwnInv'
  BY <1>0, <1>2, <1>12, ShrinkingClaims DEF StreamClose
<1>13. ASSUME NEW g \in Epochs, IterForward(g) PROVE ClaimInv' /\ OwnInv'
  <2>. DEFINE q == Head(queues[g])
  <2>1. /\ Len(queues[g]) \in Nat /\ 1 \in 1 .. Len(queues[g])
        /\ q = queues[g][1] /\ q # Stop
    BY <1>13 DEF IterForward, TypeOK, ManagerTypes
  <2>2. \A i \in Nat, e \in Execs : WireClaim(i, e)' => Claim(i, e)
    BY <1>13, <2>1 DEF IterForward, WireClaim, QueueClaim, Claim
  <2>3. \A i \in Nat, e \in Execs : QueueClaim(i, e)' => QueueClaim(i, e)
    BY <1>13, TakeClaims DEF IterForward
  <2>4. \A i \in Nat, e \in Execs : Claim(i, e)' => Claim(i, e)
    BY <1>13, <2>2, <2>3 DEF IterForward, Claim, SubClaim, ReplyClaim, BlockedClaim
  <2>. QED
    BY <1>0, <1>13, <2>4, OldClaims DEF IterForward
<1>14. ASSUME NEW g \in Epochs, IterStop(g) PROVE ClaimInv' /\ OwnInv'
  BY <1>0, <1>14, TakeClaims, ShrinkingClaims DEF IterStop
<1>15. ASSUME NEW e \in Execs, ExecStart(e) \/ ExecRetryBrokenStream(e) \/ ExecRetryError(e)
       PROVE  ClaimInv' /\ OwnInv'
  <2>1. CASE ExecStart(e)
    BY <2>1, SendClaims DEF ExecStart, Kinds
  <2>2. CASE ExecRetryBrokenStream(e)
    BY <2>2, SendClaims DEF ExecRetryBrokenStream, Kinds
  <2>3. CASE ExecRetryError(e)
    BY <2>3, SendClaims, RetryKinds DEF ExecRetryError
  <2>. QED
    BY <1>15, <2>1, <2>2, <2>3
<1>16. ASSUME NEW e \in Execs, ExecPut(e) PROVE ClaimInv' /\ OwnInv'
  <2>. DEFINE req == [id |-> mid[e], exec |-> e, kind |-> kind[e]]
  <2>1. req \in Request /\ qe[e] \in Epochs /\ Put(qe[e], req) /\ pc[e] = "blocked"
    BY <1>16 DEF ExecPut, Request, TypeOK, ExecTypes
  <2>2. \A i \in Nat, f \in Execs : QueueClaim(i, f)' => Claim(i, f)
    BY <2>1, PutClaims DEF Claim, BlockedClaim
  <2>3. \A i \in Nat, f \in Execs : Claim(i, f)' => Claim(i, f)
    BY <1>16, <2>2 DEF ExecPut, Claim, SubClaim, WireClaim, ReplyClaim, BlockedClaim,
                       TypeOK, ExecTypes
  <2>. QED
    BY <1>0, <1>16, <2>3, OldClaims DEF ExecPut
<1>17. ASSUME NEW e \in Execs, ExecReturn(e) PROVE ClaimInv' /\ OwnInv'
  <2>1. ClaimInv'
    BY <1>1, <1>17, ShrinkingClaims DEF ExecReturn, Finish, TypeOK, ExecTypes
  <2>2. OwnInv'
    BY <1>17 DEF OwnInv, ExecReturn, Finish, TypeOK, ExecTypes
  <2>. QED
    BY <2>1, <2>2
<1>18. ASSUME NEW e \in Execs, ExecCancelled(e) PROVE ClaimInv' /\ OwnInv'
  BY <1>0, <1>1, <1>18, ShrinkingClaims DEF ExecCancelled, TypeOK, ExecTypes
<1>19. ASSUME NEW e \in Execs, ExecCancel(e) PROVE ClaimInv' /\ OwnInv'
  <2>1. ClaimInv'
    BY <1>1, <1>19, ShrinkingClaims DEF ExecCancel, Finish, TypeOK, ExecTypes
  <2>2. OwnInv'
    <3>1. CASE Finish(e, "cancelled", NoExec) /\ UNCHANGED fut
      BY <3>1, FinishOwn
    <3>2. CASE UNCHANGED out /\ (fut' = [fut EXCEPT ![e] = Raised("cancelled")] \/ UNCHANGED fut)
      BY <3>2, NotBodies DEF OwnInv, Raised, TypeOK, ExecTypes
    <3>. QED
      BY <1>19, <3>1, <3>2 DEF ExecCancel
  <2>. QED
    BY <2>1, <2>2
<1>20. ASSUME NEW e \in Execs, ExecCancelJob(e) PROVE ClaimInv' /\ OwnInv'
  <2>1. ClaimInv'
    BY <1>1, <1>20, ShrinkingClaims DEF ExecCancelJob, Finish, TypeOK, ExecTypes
  <2>. QED
    BY <1>20, <2>1, FinishOwn DEF ExecCancelJob
<1>21. ASSUME NEW w \in wire, ServerHandle(w) PROVE ClaimInv' /\ OwnInv'
  <2>1. \A i \in Nat, e \in Execs : ReplyClaim(i, e)' => Claim(i, e)
    BY <1>21 DEF ServerHandle, ReplyClaim, WireClaim, Claim
  <2>2. \A i \in Nat, e \in Execs : Claim(i, e)' => Claim(i, e)
    BY <1>1, <1>21, <2>1 DEF ServerHandle, Claim, SubClaim, WireClaim, BlockedClaim
  <2>. QED
    BY <1>0, <1>21, <2>2, OldClaims DEF ServerHandle
<1>22. ASSUME NEW w \in wire, ServerLose(w) PROVE ClaimInv' /\ OwnInv'
  BY <1>0, <1>1, <1>22, ShrinkingClaims DEF ServerLose
<1>23. CASE UNCHANGED vars
  BY <1>0, <1>1, <1>23, ShrinkingClaims DEF vars
<1>. QED
  BY <1>3, <1>4, <1>5, <1>6, <1>7, <1>8, <1>9, <1>10, <1>11, <1>12, <1>13, <1>14, <1>15,
     <1>16, <1>17, <1>18, <1>19, <1>20, <1>21, <1>22, <1>23
     DEF Next, StopSteps, StreamSteps, IterSteps, ExecSteps, Quiescent

\* Both hold in every reachable state.
LEMMA OwnInvHolds == Spec => [](ClaimInv /\ OwnInv)
<1>1. Init => ClaimInv /\ OwnInv
  BY NotBodies DEF Init, ClaimInv, Claim, SubClaim, QueueClaim, WireClaim, ReplyClaim,
     BlockedClaim, OwnInv, NoFuture, NoOutcome
<1>2. TypeOK /\ ClaimInv /\ OwnInv /\ [Next]_vars => (ClaimInv /\ OwnInv)'
  BY OwnStep
<1>. QED
  BY <1>1, <1>2, StreamTypeCorrect, PTL DEF Spec

\* Whatever breaks, is retried, cancelled or stopped, a submission is answered
\* about its own job only (ResponseDemux, _manage_execution).
THEOREM ResponsesReachTheirOwner == Spec => []ResponseIsOwn
<1>1. OwnInv => ResponseIsOwn
  BY DEF OwnInv, ResponseIsOwn, Bodies
<1>. QED
  BY <1>1, OwnInvHolds, PTL

----------------------------------------------------------------------------
\* One stream is open.  The stream coroutines of earlier epochs have left their
\* streams, and so has the current one once stop() has seen it cancelled.

StopInv ==
    /\ stopPc = "idle" => ~cancelReq
    /\ \A g \in Epochs :
          /\ g < epoch \/ (g = epoch /\ stopPc # "idle" /\ ~cancelReq) =>
                st[g] \in {"none", "closing", "done"}
          /\ g > epoch => st[g] = "none"

\* Every step keeps the streams of earlier epochs closed (stop(), _manage_stream).
LEMMA StopStep ==
    ASSUME TypeOK, EpochInv, StopInv, [Next]_vars
    PROVE  StopInv'
<1>. USE DEF TypeOK, ManagerTypes, StreamTypes, Epochs, managerVars, streamVars
<1>1. CASE UNCHANGED <<stopPc, cancelReq, epoch, st>>
  BY <1>1 DEF StopInv
<1>2. ASSUME NEW e \in Execs, Submit(e) PROVE StopInv'
  <2>1. epoch \in Epochs /\ stopPc = "idle" /\ stopPc' = "idle" /\ UNCHANGED <<cancelReq, epoch>>
    BY <1>2 DEF Submit
  <2>2. CASE st' = st
    BY <1>1, <2>1, <2>2, <1>2 DEF Submit
  <2>3. CASE st' = [st EXCEPT ![epoch] = "scheduled"]
    BY <2>1, <2>3 DEF StopInv
  <2>. QED
    BY <1>2, <2>2, <2>3 DEF Submit
<1>3. CASE StopSteps
  <2>1. CASE StopCancelStream
    BY <2>1 DEF StopInv, StopCancelStream, StreamLive
  <2>2. CASE StopNotify \/ StopClear \/ StopResetDemux
    BY <2>2 DEF StopInv, StopNotify, StopClear, StopResetDemux
  <2>3. CASE StopResetQueue
    <3>1. epoch' = epoch + 1 /\ epoch \in Nat /\ stopPc = "queue" /\ stopPc' = "idle"
      BY <2>3 DEF StopResetQueue
    <3>2. ~cancelReq /\ ~cancelReq' /\ st' = st
      BY <2>3 DEF StopResetQueue
    <3>. QED
      BY <3>1, <3>2 DEF StopInv
  <2>. QED
    BY <1>3, <2>1, <2>2, <2>3 DEF StopSteps
<1>4. ASSUME NEW g \in Epochs,
             \/ StreamOpen(g) \/ StreamNotify(g) \/ StreamEnd(g) \/ StreamEndUnsolicited(g)
             \/ \E x \in BreakKinds : StreamBreak(g, x)
      PROVE  StopInv'
  <2>1. /\ st[g] \in {"scheduled", "opening", "open", "failed"}
        /\ \E s \in {"open", "failed", "opening"} : st' = [st EXCEPT ![g] = s]
        /\ UNCHANGED <<stopPc, cancelReq, epoch>>
    BY <1>4 DEF StreamOpen, StreamNotify, StreamEnd, StreamEndUnsolicited, StreamBreak
  <2>. QED
    BY <2>1 DEF StopInv
<1>5. ASSUME NEW g \in Epochs, StreamCancelled(g) PROVE StopInv'
  BY <1>5 DEF StopInv, StreamCancelled
<1>6. ASSUME NEW g \in Epochs, StreamClose(g) PROVE StopInv'
  BY <1>6 DEF StopInv, StreamClose
<1>7. ASSUME NEW g \in Epochs, IterSteps(g) \/ \E r \in replies : StreamResponse(g, r)
      PROVE  StopInv'
  BY <1>1, <1>7 DEF IterSteps, IterForward, IterStop, IterDie, StreamResponse
<1>8. ASSUME NEW e \in Execs, NEW k, Send(e, k) PROVE StopInv'
  BY <1>1, <1>8 DEF Send
<1>9. ASSUME NEW e \in Execs, ExecSteps(e) \/ ExecCancel(e) PROVE StopInv'
  BY <1>1, <1>8, <1>9 DEF ExecSteps, ExecStart, ExecPut, ExecRetryBrokenStream, ExecRetryError,
     ExecReturn, ExecCancelled, ExecCancel, ExecCancelJob
<1>10. ASSUME NEW w \in wire, ServerHandle(w) \/ ServerLose(w) PROVE StopInv'
  BY <1>1, <1>10 DEF ServerHandle, ServerLose
<1>11. CASE UNCHANGED vars
  BY <1>1, <1>11 DEF vars
<1>. QED
  BY <1>2, <1>3, <1>4, <1>5, <1>6, <1>7, <1>9, <1>10, <1>11
     DEF Next, StreamSteps, Quiescent

\* It holds in every reachable state.
LEMMA StreamsAreLeft == Spec => []StopInv
<1>1. Init => StopInv
  BY DEF Init, StopInv
<1>2. TypeOK /\ EpochInv /\ StopInv /\ [Next]_vars => StopInv'
  BY StopStep
<1>. QED
  BY <1>1, <1>2, StreamTypesAndEpochs, PTL DEF Spec

\* However stop() and submit() alternate, at most one stream is open (stop() waits
\* for the cancelled coroutine before it makes the new queue).
THEOREM AtMostOneStream == Spec => []OneOpenStream
<1>1. TypeOK /\ StopInv => OneOpenStream
  BY DEF StopInv, OneOpenStream, TypeOK, ManagerTypes, Epochs
<1>. QED
  BY <1>1, StreamTypeCorrect, StreamsAreLeft, PTL

----------------------------------------------------------------------------
\* The retry protocol.  An error comes back for the request that was sent.

\* The protocol has a request to send after the answer b to a request of kind k.
Handled(b, k) == b \in ProtocolErrors => Retry(b, k) # {}

Queued(q) == \E g \in Epochs : \E n \in 1 .. Len(queues[g]) : queues[g][n] = q

\* A request its execution still waits for is the one the execution sent last.
AsSent(q) == q.id = mid[q.exec] => q.kind = kind[q.exec]

KindInv ==
    /\ \A q \in Request : Queued(q) => AsSent(q)
    /\ \A w \in wire : AsSent(w.req)
    /\ \A r \in replies : r.id = mid[r.job] => Handled(r.body, kind[r.job])
    /\ \A e \in Execs : Handled(fut[e].state, kind[e])
    /\ \A e \in Execs : out[e].how \notin ProtocolErrors

\* What is no answer of the server, or no error, is no protocol error.
LEMMA NoProtocolError ==
    {"none", "pending", "cancelled", "retryable", "fatal", "not_found"} \cap ProtocolErrors = {}
BY DEF ProtocolErrors

\* Every error the server answers a request with calls for another request
\* (_get_retry_request_or_raise), unless it is a fault outside the protocol.
LEMMA ServerErrorsHandled ==
    ASSUME NEW q \in Request, NEW b \in ServerBody(q) \cup Faults
    PROVE  Handled(b, q.kind)
<1>. USE DEF Retry, Handled, ProtocolErrors, CreateProgramAndJob, CreateJob, GetResult
<1>1. CASE b \in Faults
  BY <1>1, StreamAssumption DEF StreamAssumption
<1>2. CASE b \in ServerBody(q) /\ q.kind = CreateProgramAndJob
  BY <1>2 DEF ServerBody, Answer
<1>3. CASE b \in ServerBody(q) /\ q.kind = CreateJob
  BY <1>3 DEF ServerBody, Answer
<1>4. CASE b \in ServerBody(q) /\ q.kind = GetResult
  BY <1>4 DEF ServerBody, Answer
<1>. QED
  BY <1>1, <1>2, <1>3, <1>4 DEF Request, Kinds

\* The items of the queues after a put are the old ones and the new one.
LEMMA PutItems ==
    ASSUME TypeOK, NEW g \in Epochs, NEW item, Put(g, item), NEW q, Queued(q)'
    PROVE  Queued(q) \/ q = item
<1>0. PICK h \in Epochs : \E n \in 1 .. Len(queues'[h]) : queues'[h][n] = q
  BY DEF Queued
<1>1. PICK n \in 1 .. Len(queues'[h]) : queues'[h][n] = q
  BY <1>0
<1>2. queues[h] \in Seq(Request \cup {Stop})
  BY DEF TypeOK, ManagerTypes
<1>3. CASE h = g
  <2>1. queues'[h] = Append(queues[h], item)
    BY <1>3 DEF Put, TypeOK, ManagerTypes
  <2>. QED
    BY <1>1, <1>2, <2>1 DEF Queued
<1>4. CASE h # g
  BY <1>1, <1>4 DEF Put, TypeOK, ManagerTypes, Queued
<1>. QED
  BY <1>3, <1>4

\* Taking the first item off a queue leaves only items that were there.
LEMMA TakeItems ==
    ASSUME TypeOK, NEW g \in Epochs, queues[g] # <<>>,
           queues' = [queues EXCEPT ![g] = Tail(@)], NEW q, Queued(q)'
    PROVE  Queued(q)
<1>0. PICK h \in Epochs : \E n \in 1 .. Len(queues'[h]) : queues'[h][n] = q
  BY DEF Queued
<1>1. PICK n \in 1 .. Len(queues'[h]) : queues'[h][n] = q
  BY <1>0
<1>2. queues[h] \in Seq(Request \cup {Stop})
  BY DEF TypeOK, ManagerTypes
<1>3. CASE h = g
  <2>1. queues'[h] = Tail(queues[h])
    BY <1>3 DEF TypeOK, ManagerTypes
  <2>2. /\ Len(Tail(queues[h])) = Len(queues[h]) - 1
        /\ \A m \in 1 .. Len(Tail(queues[h])) : Tail(queues[h])[m] = queues[h][m + 1]
    BY <1>2, <1>3, HeadTailProperties
  <2>3. Len(queues[h]) \in Nat
    BY <1>2, LenProperties
  <2>4. n \in 1 .. Len(Tail(queues[h]))
    BY <2>1
  <2>5. n + 1 \in 1 .. Len(queues[h])
    BY <2>2, <2>3, <2>4
  <2>6. queues[h][n + 1] = q
    BY <1>1, <2>1, <2>2, <2>4
  <2>. QED
    BY <2>5, <2>6 DEF Queued
<1>4. CASE h # g
  BY <1>1, <1>4 DEF TypeOK, ManagerTypes, Queued
<1>. QED
  BY <1>3, <1>4

\* The request an iterator takes is one that was on the queue.
LEMMA HeadQueued ==
    ASSUME TypeOK, NEW g \in Epochs, queues[g] # <<>>, Head(queues[g]) # Stop
    PROVE  Head(queues[g]) \in Request /\ Queued(Head(queues[g]))
<1>1. queues[g] \in Seq(Request \cup {Stop})
  BY DEF TypeOK, ManagerTypes
<1>2. Head(queues[g]) = queues[g][1] /\ 1 \in 1 .. Len(queues[g])
  BY <1>1
<1>. QED
  BY <1>1, <1>2 DEF Queued

\* One turn of _manage_execution() sends a request under an id of its own, which no
\* other request or response has.
LEMMA SendKind ==
    ASSUME TypeOK, ClaimInv, KindInv, NEW e \in Execs, NEW k \in Kinds, Send(e, k)
    PROVE  KindInv'
<1>. DEFINE req == [id |-> nextId, exec |-> e, kind |-> k]
<1>0. nextId \in Nat /\ qe[e] \in Epochs /\ mid \in [Execs -> Nat] /\ kind \in [Execs -> Kinds]
  BY DEF TypeOK, ManagerTypes, ExecTypes
<1>1. mid' = [mid EXCEPT ![e] = nextId] /\ kind' = [kind EXCEPT ![e] = k]
  BY DEF Send
<1>2. ASSUME NEW q \in Request, AsSent(q), Claim(q.id, q.exec)
      PROVE  AsSent(q)'
  <2>1. q.exec \in Execs /\ q.id \in Nat /\ q.id < nextId
    BY <1>2 DEF Request, ClaimInv
  <2>. QED
    BY <1>0, <1>1, <1>2, <2>1 DEF AsSent
<1>3. \A q \in Request : Queued(q)' => AsSent(q)'
  <2>. SUFFICES ASSUME NEW q \in Request, Queued(q)' PROVE AsSent(q)'
    OBVIOUS
  <2>1. CASE Queued(q)
    <3>1. q # Stop
      BY DEF Request, Stop
    <3>2. Claim(q.id, q.exec)
      BY <2>1, <3>1 DEF Queued, Claim, QueueClaim
    <3>. QED
      BY <1>2, <2>1, <3>2 DEF KindInv
  <2>2. CASE q = req
    BY <1>0, <1>1, <2>2 DEF AsSent
  <2>3. Queued(q) \/ q = req
    <3>1. CASE Put(qe[e], req)
      BY <1>0, <3>1, PutItems
    <3>2. CASE UNCHANGED queues
      BY <3>2 DEF Queued
    <3>. QED
      BY <3>1, <3>2 DEF Send
  <2>. QED
    BY <2>1, <2>2, <2>3
<1>4. \A w \in wire' : AsSent(w.req)'
  <2>. SUFFICES ASSUME NEW w \in wire PROVE AsSent(w.req)'
    BY DEF Send, serverVars
  <2>1. w.req \in Request /\ Claim(w.req.id, w.req.exec)
    BY DEF TypeOK, ServerTypes, Claim, WireClaim
  <2>. QED
    BY <1>2, <2>1 DEF KindInv
<1>5. \A r \in replies' : r.id = mid'[r.job] => Handled(r.body, kind'[r.job])
  <2>. SUFFICES ASSUME NEW r \in replies, r.id = mid'[r.job] PROVE Handled(r.body, kind'[r.job])
    BY DEF Send, serverVars
  <2>1. r.job \in Execs /\ r.id \in Nat /\ Claim(r.id, r.job)
    BY DEF TypeOK, ServerTypes, Claim, ReplyClaim
  <2>2. r.job # e
    BY <1>0, <1>1, <2>1 DEF ClaimInv
  <2>. QED
    BY <1>0, <1>1, <2>1, <2>2 DEF KindInv
<1>6. \A f \in Execs : Handled(fut'[f].state, kind'[f])
  <2>1. fut' = [fut EXCEPT ![e] = Pending] /\ fut \in [Execs -> Future]
    BY DEF Send, TypeOK, ExecTypes
  <2>2. \A f \in Execs : f # e => fut'[f] = fut[f] /\ kind'[f] = kind[f]
    BY <1>0, <1>1, <2>1
  <2>3. fut'[e].state = "pending"
    BY <2>1 DEF Pending
  <2>. QED
    BY <2>2, <2>3, NoProtocolError DEF Handled, KindInv
<1>7. \A f \in Execs : out'[f].how \notin ProtocolErrors
  BY DEF Send, KindInv
<1>. QED
  BY <1>3, <1>4, <1>5, <1>6, <1>7 DEF KindInv

\* A step that sends nothing new and answers nobody keeps requests as they were sent.
LEMMA NothingNewKind ==
    ASSUME TypeOK, KindInv, UNCHANGED <<mid, kind>>,
           \A q \in Request : Queued(q)' => Queued(q),
           wire' \subseteq wire, replies' \subseteq replies,
           \A e \in Execs : fut'[e] = fut[e] \/ fut'[e].state \notin ProtocolErrors,
           \A e \in Execs : out'[e] = out[e] \/ out'[e].how \notin ProtocolErrors
    PROVE  KindInv'
<1>1. \A q \in Request : AsSent(q)' = AsSent(q)
  BY DEF AsSent
<1>2. \A w \in wire' : AsSent(w.req)'
  BY DEF KindInv, AsSent
<1>. QED
  BY <1>1, <1>2 DEF KindInv, Handled

\* Every step keeps errors answerable.
LEMMA KindStep ==
    ASSUME TypeOK, ClaimInv, KindInv, [Next]_vars
    PROVE  KindInv'
<1>. USE DEF managerVars, streamVars, execVars, serverVars, boundVars
<1>1. ASSUME UNCHANGED queues PROVE \A q \in Request : Queued(q)' => Queued(q)
  BY <1>1 DEF Queued
<1>2. ASSUME NEW g \in Epochs, Put(g, Stop) PROVE \A q \in Request : Queued(q)' => Queued(q)
  BY <1>2, PutItems DEF Request, Stop
<1>3. ASSUME NEW x \in {"none", "cancelled", "retryable", "fatal"}, FailAll(x)
      PROVE  \A e \in Execs : fut'[e] = fut[e] \/ fut'[e].state \notin ProtocolErrors
  BY <1>3, NoProtocolError DEF FailAll, Raised
<1>4. ASSUME NEW e \in Execs, NEW h \in {"cancelled", "not_found"}, Finish(e, h, NoExec)
      PROVE  \A f \in Execs : out'[f] = out[f] \/ out'[f].how \notin ProtocolErrors
  BY <1>4, NoProtocolError DEF Finish, TypeOK, ExecTypes
<1>5. ASSUME NEW e \in Execs, Submit(e) PROVE KindInv'
  BY <1>1, <1>5, NothingNewKind DEF Submit
<1>6. CASE StopSteps
  <2>1. CASE StopNotify
    BY <1>1, <1>3, <2>1, NothingNewKind DEF StopNotify
  <2>2. CASE StopCancelStream \/ StopClear \/ StopResetDemux \/ StopResetQueue
    BY <1>1, <2>2, NothingNewKind DEF StopCancelStream, StopClear, StopResetDemux, StopResetQueue
  <2>. QED
    BY <1>6, <2>1, <2>2 DEF StopSteps
<1>7. ASSUME NEW g \in Epochs,
             \/ StreamOpen(g) \/ StreamEnd(g) \/ StreamEndUnsolicited(g) \/ IterDie(g)
             \/ StreamCancelled(g) \/ \E x \in BreakKinds : StreamBreak(g, x)
      PROVE  KindInv'
  BY <1>1, <1>7, NothingNewKind
     DEF StreamOpen, StreamEnd, StreamEndUnsolicited, IterDie, StreamCancelled, StreamBreak
<1>8. ASSUME NEW g \in Epochs, NEW r \in replies, StreamResponse(g, r) PROVE KindInv'
  <2>1. \A q \in Request : AsSent(q)' = AsSent(q) /\ (Queued(q)' => Queued(q))
    BY <1>1, <1>8 DEF StreamResponse, AsSent
  <2>2. \A w \in wire' : AsSent(w.req)'
    BY <1>8 DEF StreamResponse, AsSent, KindInv
  <2>3. ASSUME NEW s \in subs[demux], s.id = r.id, Waits(s) PROVE Handled(r.body, kind[s.exec])
    <3>1. s.exec = r.job
      BY <2>3, SubscriberOwnsResponse
    <3>. QED
      BY <2>3, <3>1 DEF KindInv, Waits
  <2>4. ASSUME NEW e \in Execs PROVE Handled(fut'[e].state, kind[e])
    <3>1. CASE \E s \in subs[demux] : s.id = r.id /\ s.exec = e /\ Waits(s)
      <4>1. fut'[e] = [state |-> r.body, job |-> r.job]
        BY <1>8, <3>1 DEF StreamResponse, Publish
      <4>2. Handled(r.body, kind[e])
        BY <2>3, <3>1
      <4>. QED
        BY <4>1, <4>2
    <3>2. CASE ~ \E s \in subs[demux] : s.id = r.id /\ s.exec = e /\ Waits(s)
      BY <1>8, <3>2 DEF StreamResponse, Publish, KindInv
    <3>. QED
      BY <3>1, <3>2
  <2>. QED
    BY <1>8, <2>1, <2>2, <2>4 DEF StreamResponse, KindInv
<1>9. ASSUME NEW g \in Epochs, StreamNotify(g) PROVE KindInv'
  <2>1. err[g] \in {"none", "cancelled", "retryable", "fatal"}
    BY StreamAssumption DEF TypeOK, StreamTypes, StreamAssumption
  <2>. QED
    BY <1>2, <1>3, <1>9, <2>1, NothingNewKind DEF StreamNotify, PublishException
<1>10. ASSUME NEW g \in Epochs, StreamClose(g) PROVE KindInv'
  BY <1>2, <1>10, NothingNewKind DEF StreamClose
<1>11. ASSUME NEW g \in Epochs, IterForward(g) PROVE KindInv'
  <2>1. \A q \in Request : AsSent(q)' = AsSent(q) /\ (Queued(q)' => Queued(q))
    BY <1>11, TakeItems DEF IterForward, AsSent
  <2>2. Head(queues[g]) \in Request /\ Queued(Head(queues[g]))
    BY <1>11, HeadQueued DEF IterForward
  <2>3. \A w \in wire' : AsSent(w.req)'
    BY <1>11, <2>1, <2>2 DEF IterForward, KindInv, AsSent
  <2>. QED
    BY <1>11, <2>1, <2>3 DEF IterForward, KindInv
<1>12. ASSUME NEW g \in Epochs, IterStop(g) PROVE KindInv'
  BY <1>12, TakeItems, NothingNewKind DEF IterStop
<1>13. ASSUME NEW e \in Execs, ExecStart(e) \/ ExecRetryBrokenStream(e) \/ ExecRetryError(e)
       PROVE  KindInv'
  <2>1. CASE ExecStart(e)
    BY <2>1, SendKind DEF ExecStart, Kinds
  <2>2. CASE ExecRetryBrokenStream(e)
    BY <2>2, SendKind DEF ExecRetryBrokenStream, Kinds
  <2>3. CASE ExecRetryError(e)
    BY <2>3, SendKind, RetryKinds DEF ExecRetryError
  <2>. QED
    BY <1>13, <2>1, <2>2, <2>3
<1>14. ASSUME NEW e \in Execs, ExecPut(e) PROVE KindInv'
  <2>. DEFINE req == [id |-> mid[e], exec |-> e, kind |-> kind[e]]
  <2>1. qe[e] \in Epochs /\ Put(qe[e], req) /\ AsSent(req)
    BY <1>14 DEF ExecPut, TypeOK, ExecTypes, AsSent
  <2>2. \A q \in Request : AsSent(q)' = AsSent(q) /\ (Queued(q)' => Queued(q) \/ q = req)
    BY <1>14, <2>1, PutItems DEF ExecPut, AsSent
  <2>3. \A w \in wire' : AsSent(w.req)'
    BY <1>14 DEF ExecPut, AsSent, KindInv
  <2>. QED
    BY <1>14, <2>1, <2>2, <2>3 DEF ExecPut, KindInv
<1>15. ASSUME NEW e \in Execs, ExecReturn(e) PROVE KindInv'
  <2>1. fut[e].state \notin ProtocolErrors
    BY <1>15, NoProtocolError DEF ExecReturn, KindInv, Handled, Answers, ProtocolErrors
  <2>2. \A f \in Execs : out'[f] = out[f] \/ out'[f].how \notin ProtocolErrors
    BY <1>15, <2>1 DEF ExecReturn, Finish, TypeOK, ExecTypes
  <2>. QED
    BY <1>1, <1>15, <2>2, NothingNewKind DEF ExecReturn
<1>16. ASSUME NEW e \in Execs, ExecCancelled(e) PROVE KindInv'
  BY <1>1, <1>16, NothingNewKind DEF ExecCancelled
<1>17. ASSUME NEW e \in Execs, ExecCancel(e) PROVE KindInv'
  <2>1. CASE Finish(e, "cancelled", NoExec) /\ UNCHANGED fut
    BY <1>1, <1>4, <1>17, <2>1, NothingNewKind DEF ExecCancel
  <2>2. CASE UNCHANGED out /\ (fut' = [fut EXCEPT ![e] = Raised("cancelled")] \/ UNCHANGED fut)
    <3>1. \A f \in Execs : fut'[f] = fut[f] \/ fut'[f].state \notin ProtocolErrors
      BY <2>2, NoProtocolError DEF Raised, TypeOK, ExecTypes
    <3>. QED
      BY <1>1, <1>17, <2>2, <3>1, NothingNewKind DEF ExecCancel
  <2>. QED
    BY <1>17, <2>1, <2>2 DEF ExecCancel
<1>18. ASSUME NEW e \in Execs, ExecCancelJob(e) PROVE KindInv'
  BY <1>1, <1>4, <1>18, NothingNewKind DEF ExecCancelJob
<1>19. ASSUME NEW w \in wire, ServerHandle(w) PROVE KindInv'
  <2>1. \A q \in Request : AsSent(q)' = AsSent(q) /\ (Queued(q)' => Queued(q))
    BY <1>1, <1>19 DEF ServerHandle, AsSent
  <2>2. \A v \in wire' : AsSent(v.req)'
    BY <1>19 DEF ServerHandle, AsSent, KindInv
  <2>3. PICK b \in ServerBody(w.req) \cup Faults :
          replies' \subseteq replies \cup {[id |-> w.req.id, job |-> w.req.exec,
                                            body |-> b, conn |-> w.conn]}
    BY <1>19 DEF ServerHandle
  <2>4. w.req \in Request /\ AsSent(w.req) /\ Handled(b, w.req.kind)
    BY <2>3, ServerErrorsHandled DEF TypeOK, ServerTypes, KindInv
  <2>5. \A r \in replies' : r.id = mid'[r.job] => Handled(r.body, kind'[r.job])
    BY <1>19, <2>3, <2>4 DEF ServerHandle, KindInv, AsSent
  <2>. QED
    BY <1>19, <2>1, <2>2, <2>5 DEF ServerHandle, KindInv
<1>20. ASSUME NEW w \in wire, ServerLose(w) PROVE KindInv'
  BY <1>1, <1>20, NothingNewKind DEF ServerLose
<1>21. CASE UNCHANGED vars
  BY <1>1, <1>21, NothingNewKind DEF vars
<1>. QED
  BY <1>5, <1>6, <1>7, <1>8, <1>9, <1>10, <1>11, <1>12, <1>13, <1>14, <1>15, <1>16, <1>17,
     <1>18, <1>19, <1>20, <1>21 DEF Next, StreamSteps, IterSteps, ExecSteps, Quiescent

\* Whatever programs and jobs exist at the server and whenever they appear, no
\* submission is failed with an error of the retry protocol.
THEOREM ProtocolErrorsAreRetried == Spec => []OnlyForeignErrorsRaised
<1>1. Init => KindInv
  BY NoProtocolError DEF Init, KindInv, Queued, Handled, NoFuture, NoOutcome
<1>2. TypeOK /\ ClaimInv /\ KindInv /\ [Next]_vars => KindInv'
  BY KindStep
<1>3. KindInv => OnlyForeignErrorsRaised
  BY DEF KindInv, OnlyForeignErrorsRaised
<1>. QED
  BY <1>1, <1>2, <1>3, StreamTypeCorrect, OwnInvHolds, PTL DEF Spec

----------------------------------------------------------------------------
\* The refinement.  Requests are those of submissions that were made, answers
\* are about jobs that exist, and a submission that has not ended has no outcome.

StartedInv ==
    /\ \A q \in Request : Queued(q) => pc[q.exec] # "idle"
    /\ \A w \in wire : pc[w.req.exec] # "idle"
    /\ \A e \in Execs : pc[e] # "done" => out[e] = NoOutcome
    /\ \A e \in Execs : fut[e].state \in Answers => e \in jobs
    /\ \A r \in replies : r.body \in Answers => r.job \in jobs

\* What is no response of the server is no answer.
LEMMA NoAnswer ==
    {"none", "pending", "cancelled", "retryable", "fatal", "not_found"} \cap Answers = {}
BY DEF Answers

\* A step that adds no request or response, answers nobody and ends submissions only
\* with their own outcome keeps the invariant.
LEMMA NothingNewStarted ==
    ASSUME TypeOK, StartedInv,
           \A q \in Request : Queued(q)' => Queued(q),
           wire' \subseteq wire, replies' \subseteq replies, jobs \subseteq jobs',
           \A e \in Execs : fut'[e] = fut[e] \/ fut'[e].state \notin Answers,
           \A e \in Execs : pc'[e] = "idle" => pc[e] = "idle",
           \A e \in Execs : pc'[e] # "done" => pc[e] # "done" /\ out'[e] = out[e]
    PROVE  StartedInv'
<1>1. \A q \in Request : q.exec \in Execs
  BY DEF Request
<1>2. \A w \in wire : w.req.exec \in Execs
  BY <1>1 DEF TypeOK, ServerTypes
<1>. QED
  BY <1>1, <1>2 DEF StartedInv

\* One turn of _manage_execution() is taken by a submission that was made.
LEMMA SendStarted ==
    ASSUME TypeOK, StartedInv, NEW e \in Execs, pc[e] \notin {"idle", "done"}, NEW k \in Kinds,
           Send(e, k)
    PROVE  StartedInv'
<1>. DEFINE req == [id |-> nextId, exec |-> e, kind |-> k]
<1>1. qe[e] \in Epochs /\ \A q \in Request : q.exec \in Execs
  BY DEF TypeOK, ExecTypes, Request
<1>2. pc'[e] \notin {"idle", "done"} /\ \A f \in Execs : f # e => pc'[f] = pc[f]
  BY DEF Send, TypeOK, ExecTypes
<1>3. ASSUME NEW q \in Request, Queued(q)' PROVE Queued(q) \/ q = req
  <2>1. CASE Put(qe[e], req)
    BY <1>1, <1>3, <2>1, PutItems
  <2>2. CASE UNCHANGED queues
    BY <1>3, <2>2 DEF Queued
  <2>. QED
    BY <2>1, <2>2 DEF Send
<1>4. \A q \in Request : Queued(q)' => pc'[q.exec] # "idle"
  BY <1>1, <1>2, <1>3 DEF StartedInv
<1>5. \A w \in wire' : pc'[w.req.exec] # "idle"
  <2>1. \A w \in wire : w.req.exec \in Execs
    BY <1>1 DEF TypeOK, ServerTypes
  <2>. QED
    BY <1>2, <2>1 DEF StartedInv, Send, serverVars
<1>6. \A f \in Execs : fut'[f].state \in Answers => f \in jobs'
  <2>1. \A f \in Execs : fut'[f] = IF f = e THEN Pending ELSE fut[f]
    BY DEF Send, TypeOK, ExecTypes
  <2>2. Pending.state \notin Answers
    BY DEF Pending, Answers
  <2>. QED
    BY <2>1, <2>2 DEF StartedInv, Send, serverVars
<1>7. \A f \in Execs : pc'[f] # "done" => out'[f] = NoOutcome
  BY <1>2 DEF StartedInv, Send
<1>. QED
  BY <1>4, <1>5, <1>6, <1>7 DEF StartedInv, Send, serverVars

\* Every step keeps it.
LEMMA StartedStep ==
    ASSUME TypeOK, ClaimInv, StartedInv, [Next]_vars
    PROVE  StartedInv'
<1>. USE DEF managerVars, streamVars, execVars, serverVars, boundVars
<1>1. ASSUME UNCHANGED queues PROVE \A q \in Request : Queued(q)' => Queued(q)
  BY <1>1 DEF Queued
<1>2. ASSUME NEW g \in Epochs, Put(g, Stop) PROVE \A q \in Request : Queued(q)' => Queued(q)
  BY <1>2, PutItems DEF Request, Stop
<1>3. ASSUME NEW x \in {"none", "cancelled", "retryable", "fatal"}, FailAll(x)
      PROVE  \A e \in Execs : fut'[e] = fut[e] \/ fut'[e].state \notin Answers
  BY <1>3, NoAnswer DEF FailAll, Raised
<1>4. ASSUME NEW e \in Execs, NEW h, NEW j, Finish(e, h, j)
      PROVE  /\ \A f \in Execs : pc'[f] = "idle" => pc[f] = "idle"
             /\ \A f \in Execs : pc'[f] # "done" => pc[f] # "done" /\ out'[f] = out[f]
  BY <1>4 DEF Finish, TypeOK, ExecTypes
<1>5. ASSUME NEW e \in Execs, Submit(e) PROVE StartedInv'
  BY <1>1, <1>5, NothingNewStarted DEF Submit, TypeOK, ExecTypes
<1>6. CASE StopSteps
  <2>1. CASE StopNotify
    BY <1>1, <1>3, <2>1, NothingNewStarted DEF StopNotify
  <2>2. CASE StopCancelStream \/ StopClear \/ StopResetDemux \/ StopResetQueue
    BY <1>1, <2>2, NothingNewStarted DEF StopCancelStream, StopClear, StopResetDemux, StopResetQueue
  <2>. QED
    BY <1>6, <2>1, <2>2 DEF StopSteps
<1>7. ASSUME NEW g \in Epochs,
             \/ StreamOpen(g) \/ StreamEnd(g) \/ StreamEndUnsolicited(g) \/ IterDie(g)
             \/ StreamCancelled(g) \/ \E x \in BreakKinds : StreamBreak(g, x)
      PROVE  StartedInv'
  BY <1>1, <1>7, NothingNewStarted
     DEF StreamOpen, StreamEnd, StreamEndUnsolicited, IterDie, StreamCancelled, StreamBreak
<1>8. ASSUME NEW g \in Epochs, NEW r \in replies, StreamResponse(g, r) PROVE StartedInv'
  <2>1. \A q \in Request : Queued(q)' => Queued(q)
    BY <1>1, <1>8 DEF StreamResponse
  <2>2. ASSUME NEW e \in Execs, fut'[e].state \in Answers PROVE e \in jobs
    <3>1. CASE \E s \in subs[demux] : s.id = r.id /\ s.exec = e /\ Waits(s)
      <4>1. fut'[e] = [state |-> r.body, job |-> r.job]
        BY <1>8, <3>1 DEF StreamResponse, Publish
      <4>2. r.job = e
        BY <3>1, SubscriberOwnsResponse
      <4>. QED
        BY <2>2, <4>1, <4>2 DEF StartedInv
    <3>2. CASE ~ \E s \in subs[demux] : s.id = r.id /\ s.exec = e /\ Waits(s)
      BY <1>8, <2>2, <3>2 DEF StreamResponse, Publish, StartedInv
    <3>. QED
      BY <3>1, <3>2
  <2>. QED
    BY <1>8, <2>1, <2>2 DEF StreamResponse, StartedInv
<1>9. ASSUME NEW g \in Epochs, StreamNotify(g) PROVE StartedInv'
  <2>1. err[g] \in {"none", "cancelled", "retryable", "fatal"}
    BY StreamAssumption DEF TypeOK, StreamTypes, StreamAssumption
  <2>. QED
    BY <1>2, <1>3, <1>9, <2>1, NothingNewStarted DEF StreamNotify, PublishException
<1>10. ASSUME NEW g \in Epochs, StreamClose(g) PROVE StartedInv'
  BY <1>2, <1>10, NothingNewStarted DEF StreamClose
<1>11. ASSUME NEW g \in Epochs, IterForward(g) PROVE StartedInv'
  <2>1. \A q \in Request : Queued(q)' => Queued(q)
    BY <1>11, TakeItems DEF IterForward
  <2>2. Head(queues[g]) \in Request /\ Queued(Head(queues[g]))
    BY <1>11, HeadQueued DEF IterForward
  <2>3. \A w \in wire' : pc[w.req.exec] # "idle"
    BY <1>11, <2>2 DEF IterForward, StartedInv
  <2>. QED
    BY <1>11, <2>1, <2>3 DEF IterForward, StartedInv
<1>12. ASSUME NEW g \in Epochs, IterStop(g) PROVE StartedInv'
  BY <1>12, TakeItems, NothingNewStarted DEF IterStop
<1>13. ASSUME NEW e \in Execs, ExecStart(e) \/ ExecRetryBrokenStream(e) \/ ExecRetryError(e)
       PROVE  StartedInv'
  <2>1. CASE ExecStart(e)
    BY <2>1, SendStarted DEF ExecStart, Kinds
  <2>2. CASE ExecRetryBrokenStream(e)
    BY <2>2, SendStarted DEF ExecRetryBrokenStream, Kinds, Resumable
  <2>3. CASE ExecRetryError(e)
    BY <2>3, SendStarted, RetryKinds DEF ExecRetryError, Resumable
  <2>. QED
    BY <1>13, <2>1, <2>2, <2>3
<1>14. ASSUME NEW e \in Execs, ExecPut(e) PROVE StartedInv'
  <2>. DEFINE req == [id |-> mid[e], exec |-> e, kind |-> kind[e]]
  <2>1. qe[e] \in Epochs /\ Put(qe[e], req) /\ pc' = [pc EXCEPT ![e] = "awaiting"]
    BY <1>14 DEF ExecPut, TypeOK, ExecTypes
  <2>2. \A q \in Request : Queued(q)' => Queued(q) \/ q = req
    BY <2>1, PutItems
  <2>3. \A f \in Execs : (pc'[f] = "idle" => pc[f] = "idle") /\ (pc'[f] # "done" => pc[f] # "done")
    BY <1>14, <2>1 DEF ExecPut, TypeOK, ExecTypes
  <2>4. pc'[e] # "idle" /\ \A q \in Request : q.exec \in Execs
    BY <2>1 DEF TypeOK, ExecTypes, Request
  <2>5. \A q \in Request : Queued(q)' => pc'[q.exec] # "idle"
    BY <2>2, <2>3, <2>4 DEF StartedInv
  <2>6. \A w \in wire' : pc'[w.req.exec] # "idle"
    BY <1>14, <2>3, <2>4 DEF ExecPut, StartedInv, TypeOK, ServerTypes
  <2>. QED
    BY <1>14, <2>3, <2>5, <2>6 DEF ExecPut, StartedInv
<1>15. ASSUME NEW e \in Execs, ExecReturn(e) PROVE StartedInv'
  BY <1>1, <1>4, <1>15, NothingNewStarted DEF ExecReturn
<1>16. ASSUME NEW e \in Execs, ExecCancelled(e) PROVE StartedInv'
  BY <1>1, <1>16, NothingNewStarted DEF ExecCancelled, Resumable, TypeOK, ExecTypes
<1>17. ASSUME NEW e \in Execs, ExecCancel(e) PROVE StartedInv'
  <2>1. CASE Finish(e, "cancelled", NoExec) /\ UNCHANGED fut
    BY <1>1, <1>4, <1>17, <2>1, NothingNewStarted DEF ExecCancel
  <2>2. CASE /\ pc[e] \in {"blocked", "awaiting"} /\ pc' = [pc EXCEPT ![e] = "cancelling"]
             /\ fut' = [fut EXCEPT ![e] = Raised("cancelled")] \/ UNCHANGED fut
             /\ UNCHANGED out
    <3>1. \A f \in Execs : fut'[f] = fut[f] \/ fut'[f].state \notin Answers
      BY <2>2, NoAnswer DEF Raised, TypeOK, ExecTypes
    <3>2. \A f \in Execs : (pc'[f] = "idle" => pc[f] = "idle") /\ (pc'[f] # "done" => pc[f] # "done")
      BY <2>2 DEF TypeOK, ExecTypes
    <3>. QED
      BY <1>1, <1>17, <2>2, <3>1, <3>2, NothingNewStarted DEF ExecCancel
  <2>. QED
    BY <1>17, <2>1, <2>2 DEF ExecCancel
<1>18. ASSUME NEW e \in Execs, ExecCancelJob(e) PROVE StartedInv'
  BY <1>1, <1>4, <1>18, NothingNewStarted DEF ExecCancelJob
<1>19. ASSUME NEW w \in wire, ServerHandle(w) PROVE StartedInv'
  <2>1. \A q \in Request : Queued(q)' => Queued(q)
    BY <1>1, <1>19 DEF ServerHandle
  <2>2. jobs \subseteq jobs' /\ \A r \in replies' : r.body \in Answers => r.job \in jobs'
    BY <1>19 DEF ServerHandle, StartedInv
  <2>. QED
    BY <1>19, <2>1, <2>2 DEF ServerHandle, StartedInv
<1>20. ASSUME NEW w \in wire, ServerLose(w) PROVE StartedInv'
  BY <1>1, <1>20, NothingNewStarted DEF ServerLose
<1>21. CASE UNCHANGED vars
  BY <1>1, <1>21, NothingNewStarted DEF vars
<1>. QED
  BY <1>5, <1>6, <1>7, <1>8, <1>9, <1>10, <1>11, <1>12, <1>13, <1>14, <1>15, <1>16, <1>17,
     <1>18, <1>19, <1>20, <1>21 DEF Next, StreamSteps, IterSteps, ExecSteps, Quiescent

\* What JobService sees of a submission.
Phase(e) == CASE pc[e] = "idle" -> "idle" [] pc[e] = "done" -> "ended" [] OTHER -> "running"
AnswerTo(e) == IF out[e].how \in Answers THEN out[e].job ELSE NoExec

\* A step that neither begins nor ends a submission and makes no job is not seen.
LEMMA Unseen ==
    ASSUME UNCHANGED <<out, jobs>>, \A e \in Execs : Phase(e)' = Phase(e)
    PROVE  UNCHANGED Service!vars
  BY DEF Service!vars, Phase

\* A submission that ends is seen to end, with an answer about its own job, which
\* exists, or with an exception.
LEMMA EndIsSeen ==
    ASSUME TypeOK, StartedInv, NEW e \in Execs, pc[e] \notin {"idle", "done"}, NEW h, NEW j,
           Finish(e, h, j), UNCHANGED jobs, h \in Answers => j = e /\ e \in jobs
    PROVE  Service!Next
<1>1. \A f \in Execs : /\ pc'[f] = IF f = e THEN "done" ELSE pc[f]
                       /\ out'[f] = IF f = e THEN [how |-> h, job |-> j] ELSE out[f]
  BY DEF Finish, TypeOK, ExecTypes
<1>2. Phase(e) = "running" /\ Phase(e)' = "ended" /\ \A f \in Execs : f # e => Phase(f)' = Phase(f)
  BY <1>1 DEF Phase
<1>3. /\ AnswerTo(e) = NoExec /\ AnswerTo(e)' = IF h \in Answers THEN e ELSE NoExec
      /\ \A f \in Execs : f # e => AnswerTo(f)' = AnswerTo(f)
  BY <1>1, NoAnswer DEF AnswerTo, StartedInv, NoOutcome
<1>4. CASE h \in Answers
  <2>1. Service!EndAnswered(e)
    BY <1>2, <1>3, <1>4 DEF Service!EndAnswered, Phase, AnswerTo
  <2>. QED
    BY <2>1 DEF Service!Next
<1>5. CASE h \notin Answers
  <2>1. \A f \in Execs : AnswerTo(f)' = AnswerTo(f)
    BY <1>3, <1>5
  <2>2. Service!EndRaised(e)
    BY <1>2, <2>1 DEF Service!EndRaised, Phase, AnswerTo
  <2>. QED
    BY <2>2 DEF Service!Next
<1>. QED
  BY <1>4, <1>5

\* Every step of the stream manager is a step of JobService or is not seen.
LEMMA ServiceStep ==
    ASSUME TypeOK, OwnInv, StartedInv, [Next]_vars
    PROVE  [Service!Next]_(Service!vars)
<1>. USE DEF managerVars, streamVars, execVars, serverVars, boundVars
<1>0. ASSUME UNCHANGED <<pc, out, jobs>> PROVE UNCHANGED Service!vars
  BY <1>0, Unseen DEF Phase
<1>1. ASSUME NEW e \in Execs, Submit(e) PROVE Service!Next
  <2>1. Phase(e) = "idle" /\ Phase(e)' = "running" /\ \A f \in Execs : f # e => Phase(f)' = Phase(f)
    BY <1>1 DEF Submit, Phase, TypeOK, ExecTypes
  <2>2. Service!Begin(e)
    BY <1>1, <2>1 DEF Submit, Service!Begin, Phase
  <2>. QED
    BY <2>2 DEF Service!Next
<1>2. CASE StopSteps
  BY <1>0, <1>2 DEF StopSteps, StopCancelStream, StopNotify, StopClear, StopResetDemux, StopResetQueue
<1>3. ASSUME NEW g \in Epochs,
             \/ StreamSteps(g) \/ IterSteps(g) \/ StreamEndUnsolicited(g)
             \/ \E x \in BreakKinds : StreamBreak(g, x)
      PROVE  UNCHANGED Service!vars
  BY <1>0, <1>3 DEF StreamSteps, IterSteps, StreamOpen, StreamNotify, StreamEnd, StreamCancelled,
     StreamClose, StreamResponse, IterForward, IterStop, IterDie, StreamEndUnsolicited, StreamBreak
<1>4. ASSUME NEW e \in Execs, NEW k, Send(e, k), pc[e] \in {"scheduled", "awaiting"}
      PROVE  UNCHANGED Service!vars
  BY <1>4, Unseen DEF Send, Phase, TypeOK, ExecTypes
<1>5. ASSUME NEW e \in Execs, ExecStart(e) \/ ExecRetryBrokenStream(e) \/ ExecRetryError(e)
      PROVE  UNCHANGED Service!vars
  BY <1>4, <1>5 DEF ExecStart, ExecRetryBrokenStream, ExecRetryError, Resumable
<1>6. ASSUME NEW e \in Execs, ExecPut(e) \/ ExecCancelled(e) PROVE UNCHANGED Service!vars
  BY <1>6, Unseen DEF ExecPut, ExecCancelled, Resumable, Phase, TypeOK, ExecTypes
<1>7. ASSUME NEW e \in Execs, ExecReturn(e) PROVE Service!Next
  <2>1. fut[e].state \in Answers => fut[e].job = e /\ e \in jobs
    BY DEF OwnInv, StartedInv, Bodies
  <2>. QED
    BY <1>7, <2>1, EndIsSeen DEF ExecReturn, Resumable
<1>8. ASSUME NEW e \in Execs, ExecCancelJob(e) PROVE Service!Next
  <2>1. {"cancelled", "not_found"} \cap Answers = {}
    BY NoAnswer
  <2>. QED
    BY <1>8, <2>1, EndIsSeen DEF ExecCancelJob
<1>9. ASSUME NEW e \in Execs, ExecCancel(e) PROVE [Service!Next]_(Service!vars)
  <2>1. CASE pc[e] \in {"scheduled", "cancelling"} /\ Finish(e, "cancelled", NoExec)
    BY <1>9, <2>1, NoAnswer, EndIsSeen DEF ExecCancel
  <2>2. CASE /\ pc[e] \in {"blocked", "awaiting"} /\ pc' = [pc EXCEPT ![e] = "cancelling"]
             /\ UNCHANGED out
    BY <1>9, <2>2, Unseen DEF ExecCancel, Phase, TypeOK, ExecTypes
  <2>. QED
    BY <1>9, <2>1, <2>2 DEF ExecCancel
<1>10. ASSUME NEW w \in wire, ServerHandle(w) PROVE [Service!Next]_(Service!vars)
  <2>1. UNCHANGED <<pc, out>> /\ (UNCHANGED jobs \/ jobs' = jobs \cup {w.req.exec})
    BY <1>10 DEF ServerHandle
  <2>2. w.req.exec \in Execs /\ Phase(w.req.exec) # "idle"
    BY DEF TypeOK, ServerTypes, Request, StartedInv, Phase
  <2>3. CASE w.req.exec \in jobs \/ UNCHANGED jobs
    BY <1>0, <2>1, <2>3
  <2>4. CASE w.req.exec \notin jobs /\ jobs' = jobs \cup {w.req.exec}
    <3>1. Service!Make(w.req.exec)
      BY <2>1, <2>2, <2>4 DEF Service!Make, Phase
    <3>. QED
      BY <2>2, <3>1 DEF Service!Next
  <2>. QED
    BY <2>1, <2>3, <2>4
<1>11. ASSUME NEW w \in wire, ServerLose(w) PROVE UNCHANGED Service!vars
  BY <1>0, <1>11 DEF ServerLose
<1>12. CASE UNCHANGED vars
  BY <1>0, <1>12 DEF vars
<1>. QED
  BY <1>1, <1>2, <1>3, <1>5, <1>6, <1>7, <1>8, <1>9, <1>10, <1>11, <1>12
     DEF Next, ExecSteps, Quiescent

\* submit() and everything behind it, streams that break, requests that are sent
\* again and stop() included, do no more than JobService allows.
THEOREM StreamImplementsService == Spec => ImplementsService
<1>1. Init => StartedInv
  BY NoAnswer DEF Init, StartedInv, Queued, NoFuture
<1>2. TypeOK /\ ClaimInv /\ StartedInv /\ [Next]_vars => StartedInv'
  BY StartedStep
<1>3. Init => Service!Init
  BY NoAnswer DEF Init, Service!Init, NoOutcome
<1>4. TypeOK /\ OwnInv /\ StartedInv /\ [Next]_vars => [Service!Next]_(Service!vars)
  BY ServiceStep
<1>. QED
  BY <1>1, <1>2, <1>3, <1>4, StreamTypeCorrect, OwnInvHolds, PTL
     DEF Spec, ImplementsService, Service!Spec

----------------------------------------------------------------------------
\* No request is stranded, as long as stop() is not called and no stream is closed
\* by the server.  Every failed stream leaves an iterator behind that takes one more
\* item from the queue.  The None that StreamNotify puts there is for it: so there
\* are as many items in front of the first request somebody waits for as iterators
\* left over, or one less while the failure is still to be announced.

Leftover ==
    IF st[0] = "open" /\ Pulling(0, conn[0]) THEN Len(iters[0]) - 1 ELSE Len(iters[0])

Live(q) == q # Stop /\ \E e \in Execs : Waiting(e) /\ q.id = mid[e]
Expects(e) == pc[e] \in {"blocked", "awaiting"} /\ fut[e].state = "pending"

\* Connections are numbered in the order of their iterators.
ItersInv ==
    /\ conn[0] <= conns
    /\ \A n \in 1 .. Len(iters[0]) :
          iters[0][n] <= conns /\ (iters[0][n] = conn[0] => n = Len(iters[0]))

LeftInv ==
    /\ Leftover <= Len(queues[0]) + IF st[0] = "failed" THEN 1 ELSE 0
    /\ st[0] # "failed" => \A n \in 1 .. Leftover : ~Live(queues[0][n])

SubscribedInv ==
    \A e \in Execs :
       /\ Expects(e) => [id |-> mid[e], exec |-> e] \in subs[0]
       /\ pc[e] = "blocked" =>
             \A n \in 1 .. Len(queues[0]) : queues[0][n] = Stop \/ queues[0][n].id # mid[e]

FoundInv == \A e \in Execs : Waiting(e) => InQueue(e) \/ AtServer(e) \/ st[0] = "failed"

StrandInv ==
    /\ st[0] \notin {"closing", "done"}
    /\ ItersInv /\ LeftInv /\ SubscribedInv /\ FoundInv

\* What is known of a manager that is never stopped.
Unstopped == MaxStops = 0 /\ TypeOK /\ EpochInv /\ StopInv

\* Without stop() there is one epoch.
LEMMA OneEpoch ==
    ASSUME Unstopped
    PROVE  /\ Epochs = {0} /\ epoch = 0 /\ demux = 0 /\ stopPc = "idle" /\ ~cancelReq
           /\ \A e \in Execs : qe[e] = 0
           /\ queues[0] \in Seq(Request \cup {Stop}) /\ iters[0] \in Seq(Nat)
           /\ Len(queues[0]) \in Nat /\ Len(iters[0]) \in Nat
           /\ conn[0] \in Nat /\ conns \in Nat
<1>. USE DEF Unstopped
<1>1. Epochs = {0}
  BY DEF Epochs
<1>2. epoch = 0 /\ stopPc = "idle" /\ demux = 0
  BY <1>1 DEF EpochInv, TypeOK, ManagerTypes
<1>3. \A e \in Execs : qe[e] = 0
  BY <1>1 DEF TypeOK, ExecTypes
<1>4. queues[0] \in Seq(Request \cup {Stop}) /\ iters[0] \in Seq(Nat)
  BY <1>1 DEF TypeOK, ManagerTypes, StreamTypes
<1>. QED
  BY <1>1, <1>2, <1>3, <1>4, LenProperties DEF StopInv, TypeOK, StreamTypes

\* The open stream's iterator is the last one: if it is also the first, it is alone.
LEMMA LeftoverValue ==
    ASSUME iters[0] \in Seq(Nat), Len(iters[0]) \in Nat, ItersInv
    PROVE  /\ Leftover \in Nat /\ Leftover <= Len(iters[0])
           /\ iters[0] # <<>> /\ OpenOn(0, Head(iters[0])) => Len(iters[0]) = 1 /\ Leftover = 0
           /\ iters[0] # <<>> /\ ~OpenOn(0, Head(iters[0])) => Leftover >= 1
<1>1. ASSUME Pulling(0, conn[0]) PROVE Len(iters[0]) >= 1 /\ iters[0][Len(iters[0])] = conn[0]
  BY <1>1 DEF Pulling, ItersInv
<1>2. ASSUME iters[0] # <<>> PROVE Head(iters[0]) = iters[0][1] /\ Len(iters[0]) >= 1
  BY <1>2
<1>3. Leftover \in Nat /\ Leftover <= Len(iters[0])
  BY <1>1 DEF Leftover
<1>4. ASSUME iters[0] # <<>>, OpenOn(0, Head(iters[0]))
      PROVE  Len(iters[0]) = 1 /\ Leftover = 0
  <2>1. iters[0][1] = conn[0] /\ 1 \in 1 .. Len(iters[0]) /\ st[0] = "open"
    BY <1>2, <1>4 DEF OpenOn
  <2>2. Len(iters[0]) = 1
    BY <2>1 DEF ItersInv
  <2>. QED
    BY <2>1, <2>2 DEF Leftover, Pulling
<1>5. ASSUME iters[0] # <<>>, ~OpenOn(0, Head(iters[0])) PROVE Leftover >= 1
  <2>1. CASE st[0] = "open" /\ Pulling(0, conn[0])
    <3>1. Len(iters[0]) # 1
      BY <1>1, <1>2, <1>5, <2>1 DEF OpenOn
    <3>2. Leftover = Len(iters[0]) - 1 /\ Len(iters[0]) >= 1
      BY <1>2, <1>5, <2>1 DEF Leftover
    <3>3. PICK n \in Nat : n = Len(iters[0])
      OBVIOUS
    <3>4. Leftover = n - 1 /\ n >= 1 /\ n # 1
      BY <3>1, <3>2, <3>3
    <3>5. n \in Nat /\ n >= 1 /\ n # 1 => n - 1 >= 1
      OBVIOUS
    <3>. QED
      BY <3>3, <3>4, <3>5
  <2>2. CASE ~(st[0] = "open" /\ Pulling(0, conn[0]))
    BY <1>2, <1>5, <2>2 DEF Leftover
  <2>. QED
    BY <2>1, <2>2
<1>. QED
  BY <1>3, <1>4, <1>5

\* A step that touches neither the queue nor the iterators, opens, breaks and closes
\* no stream, sends nothing and takes nothing from an execution that goes on waiting.
LEMMA StrandKept ==
    ASSUME Unstopped, Unstopped', StrandInv,
           UNCHANGED <<queues, iters, conn, conns>>,
           st'[0] = st[0] \/ (st[0] = "none" /\ st'[0] = "scheduled"),
           \A e \in Execs : pc'[e] \in {"blocked", "awaiting"} =>
                /\ pc'[e] = pc[e] /\ mid'[e] = mid[e]
                /\ fut'[e].state = "pending" =>
                      /\ fut[e].state = "pending"
                      /\ [id |-> mid[e], exec |-> e] \in subs[0] =>
                            [id |-> mid[e], exec |-> e] \in subs'[0]
                      /\ AtServer(e) => AtServer(e)'
    PROVE  StrandInv'
<1>1. Leftover' = Leftover
  BY DEF Leftover, Pulling
<1>2. \A q : Live(q)' => Live(q)
  BY DEF Live, Waiting
<1>3. LeftInv'
  BY <1>1, <1>2 DEF StrandInv, LeftInv
<1>4. ItersInv'
  BY DEF StrandInv, ItersInv
<1>5. SubscribedInv'
  BY DEF StrandInv, SubscribedInv, Expects
<1>6. \A e \in Execs : qe[e] = 0 /\ qe'[e] = 0
  BY DEF Unstopped, TypeOK, ExecTypes, Epochs
<1>7. ASSUME NEW e \in Execs, Waiting(e)' PROVE InQueue(e)' \/ AtServer(e)' \/ st'[0] = "failed"
  <2>1. Waiting(e) /\ mid'[e] = mid[e] /\ (AtServer(e) => AtServer(e)')
    BY <1>7 DEF Waiting
  <2>2. InQueue(e) => InQueue(e)'
    BY <1>6, <2>1 DEF InQueue
  <2>3. st[0] = "failed" => st'[0] = "failed"
    OBVIOUS
  <2>. QED
    BY <2>1, <2>2, <2>3 DEF StrandInv, FoundInv
<1>. QED
  BY <1>3, <1>4, <1>5, <1>7 DEF StrandInv, FoundInv

\* A stream opens, ends once it has nothing left to answer, breaks, or announces that
\* it has broken (_manage_stream).
LEMMA StrandStream ==
    ASSUME Unstopped, Unstopped', StrandInv,
           \/ StreamOpen(0) \/ StreamEnd(0) \/ StreamNotify(0)
           \/ \E x \in BreakKinds : StreamBreak(0, x)
    PROVE  StrandInv'
<1>. USE DEF managerVars, streamVars, execVars, serverVars, boundVars
<1>0. /\ Epochs = {0} /\ demux = 0
      /\ queues[0] \in Seq(Request \cup {Stop}) /\ iters[0] \in Seq(Nat)
      /\ Len(queues[0]) \in Nat /\ Len(iters[0]) \in Nat
      /\ conn[0] \in Nat /\ conns \in Nat
      /\ \A e \in Execs : qe[e] = 0
  BY OneEpoch
<1>1. /\ Leftover \in Nat /\ Leftover <= Len(iters[0])
      /\ DOMAIN queues = {0} /\ DOMAIN iters = {0} /\ DOMAIN conn = {0} /\ DOMAIN st = {0}
  BY <1>0, LeftoverValue DEF StrandInv, Unstopped, TypeOK, ManagerTypes, StreamTypes
<1>2. CASE StreamOpen(0)
  <2>1. /\ st'[0] = "open" /\ st[0] \in {"scheduled", "opening"}
        /\ conns' = conns + 1 /\ conn'[0] = conns + 1
        /\ iters'[0] = Append(iters[0], conns + 1)
        /\ UNCHANGED <<queues, subs, pc, qe, mid, fut, wire, replies>>
    BY <1>1, <1>2 DEF StreamOpen
  <2>2. /\ Len(iters'[0]) = Len(iters[0]) + 1
        /\ iters'[0][Len(iters[0]) + 1] = conns + 1
        /\ \A n \in 1 .. Len(iters[0]) : iters'[0][n] = iters[0][n]
    BY <1>0, <2>1
  <2>3. ItersInv'
    BY <1>0, <2>1, <2>2 DEF StrandInv, ItersInv
  <2>4. Leftover = Len(iters[0]) /\ Leftover' = Len(iters[0])
    <3>1. Len(iters[0]) + 1 \in DOMAIN iters'[0]
      BY <1>0, <2>1
    <3>2. Pulling(0, conn[0])'
      BY <2>1, <2>2, <3>1 DEF Pulling
    <3>. QED
      BY <1>0, <2>1, <2>2, <3>2 DEF Leftover
  <2>5. LeftInv'
    BY <2>1, <2>4 DEF StrandInv, LeftInv, Live, Waiting
  <2>6. SubscribedInv'
    BY <2>1 DEF StrandInv, SubscribedInv, Expects
  <2>7. FoundInv'
    BY <1>0, <2>1 DEF StrandInv, FoundInv, Waiting, InQueue, AtServer, LiveConn, OpenOn
  <2>. QED
    BY <2>1, <2>3, <2>5, <2>6, <2>7 DEF StrandInv
<1>3. CASE StreamEnd(0)
  <2>1. /\ st'[0] = "opening" /\ st[0] = "open" /\ ~Pulling(0, conn[0]) /\ Quiet(conn[0])
        /\ UNCHANGED <<queues, subs, pc, qe, mid, fut, wire, replies, iters, conn, conns>>
    BY <1>1, <1>3 DEF StreamEnd
  <2>3. ItersInv'
    BY <2>1 DEF StrandInv, ItersInv
  <2>4. Leftover = Len(iters[0]) /\ Leftover' = Len(iters[0])
    BY <2>1 DEF Leftover
  <2>5. LeftInv'
    BY <2>1, <2>4 DEF StrandInv, LeftInv, Live, Waiting
  <2>6. SubscribedInv'
    BY <2>1 DEF StrandInv, SubscribedInv, Expects
  <2>7. FoundInv'
    BY <1>0, <2>1 DEF StrandInv, FoundInv, Waiting, InQueue, AtServer, LiveConn, OpenOn, Quiet
  <2>. QED
    BY <2>1, <2>3, <2>5, <2>6, <2>7 DEF StrandInv
<1>4. ASSUME NEW x \in BreakKinds, StreamBreak(0, x) PROVE StrandInv'
  <2>1. /\ st'[0] = "failed" /\ st[0] = "open"
        /\ UNCHANGED <<queues, subs, pc, qe, mid, fut, iters, conn, conns>>
    BY <1>1, <1>4 DEF StreamBreak
  <2>3. ItersInv'
    BY <2>1 DEF StrandInv, ItersInv
  <2>4. Leftover' = Len(iters[0]) /\ Leftover >= Len(iters[0]) - 1
    BY <1>0, <2>1 DEF Leftover
  <2>5. LeftInv'
    <3>1. Leftover <= Len(queues[0])
      BY <1>0, <2>1 DEF StrandInv, LeftInv
    <3>. QED
      BY <1>0, <1>1, <2>1, <2>4, <3>1 DEF LeftInv
  <2>6. SubscribedInv'
    BY <2>1 DEF StrandInv, SubscribedInv, Expects
  <2>7. FoundInv'
    BY <2>1 DEF FoundInv
  <2>. QED
    BY <2>1, <2>3, <2>5, <2>6, <2>7 DEF StrandInv
<1>5. CASE StreamNotify(0)
  <2>1. /\ st'[0] = "opening" /\ st[0] = "failed" /\ queues'[0] = Append(queues[0], Stop)
        /\ FailAll(err[0])
        /\ UNCHANGED <<pc, qe, mid, iters, conn, conns>>
    BY <1>1, <1>5 DEF StreamNotify, Put, PublishException
  <2>2. /\ Len(queues'[0]) = Len(queues[0]) + 1
        /\ queues'[0][Len(queues[0]) + 1] = Stop
        /\ \A n \in 1 .. Len(queues[0]) : queues'[0][n] = queues[0][n]
    BY <1>0, <2>1, Stop \in Request \cup {Stop}
  <2>3. ItersInv'
    BY <2>1 DEF StrandInv, ItersInv
  <2>4. Leftover = Len(iters[0]) /\ Leftover' = Len(iters[0])
    BY <2>1 DEF Leftover
  <2>5. err[0] # "pending"
    BY <1>0, StreamAssumption DEF Unstopped, TypeOK, StreamTypes, StreamAssumption
  <2>6. \A e \in Execs : ~Expects(e)'
    <3>. SUFFICES ASSUME NEW e \in Execs, Expects(e)' PROVE FALSE
      OBVIOUS
    <3>1. fut'[e] = IF \E s \in subs[0] : s.exec = e /\ Waits(s) THEN Raised(err[0]) ELSE fut[e]
      BY <1>0, <2>1 DEF FailAll
    <3>2. CASE fut[e].state = "pending"
      <4>. DEFINE s == [id |-> mid[e], exec |-> e]
      <4>1. s \in subs[0]
        BY <2>1, <3>2 DEF Expects, StrandInv, SubscribedInv
      <4>2. s.exec = e /\ Waits(s)
        BY <3>2 DEF Waits
      <4>3. fut'[e] = Raised(err[0])
        BY <3>1, <4>1, <4>2
      <4>. QED
        BY <2>5, <4>3 DEF Raised, Expects
    <3>3. CASE fut[e].state # "pending"
      BY <2>5, <3>1, <3>3 DEF Raised, Expects
    <3>. QED
      BY <3>2, <3>3
  <2>7. \A e \in Execs : ~Waiting(e)'
    BY <2>6 DEF Waiting, Expects
  <2>8. LeftInv'
    BY <1>0, <2>1, <2>2, <2>4, <2>7 DEF StrandInv, LeftInv, Live
  <2>9. SubscribedInv'
    BY <1>0, <2>1, <2>2, <2>6 DEF StrandInv, SubscribedInv
  <2>10. FoundInv'
    BY <2>7 DEF FoundInv
  <2>. QED
    BY <2>1, <2>3, <2>8, <2>9, <2>10 DEF StrandInv
<1>. QED
  BY <1>2, <1>3, <1>4, <1>5

\* A request iterator of an open stream forwards a request or ends; one left over takes
\* an item nobody waits for, or dies (_request_iterator).
LEMMA StrandIter ==
    ASSUME Unstopped, Unstopped', StrandInv, IterForward(0) \/ IterStop(0) \/ IterDie(0)
    PROVE  StrandInv'
<1>. USE DEF managerVars, streamVars, execVars, serverVars, boundVars
<1>0. /\ Epochs = {0}
      /\ queues[0] \in Seq(Request \cup {Stop}) /\ iters[0] \in Seq(Nat)
      /\ Len(queues[0]) \in Nat /\ Len(iters[0]) \in Nat
      /\ \A e \in Execs : qe[e] = 0
  BY OneEpoch
<1>a. queues'[0] \in Seq(Request \cup {Stop}) /\ Len(queues'[0]) \in Nat
  <2>1. queues'[0] \in Seq(Request \cup {Stop})
    BY <1>0 DEF Unstopped, TypeOK, ManagerTypes
  <2>. QED
    BY <2>1, LenProperties
<1>b. ASSUME Leftover' = 0 PROVE LeftInv'
  <2>1. Leftover' <= Len(queues'[0]) + IF st'[0] = "failed" THEN 1 ELSE 0
    <3>1. \A m \in Nat : 0 <= m + IF st'[0] = "failed" THEN 1 ELSE 0
      OBVIOUS
    <3>. QED
      BY <1>a, <1>b, <3>1
  <2>2. \A n \in 1 .. Leftover' : FALSE
    BY <1>b
  <2>. QED
    BY <2>1, <2>2 DEF LeftInv
<1>1. /\ Leftover \in Nat /\ Leftover <= Len(iters[0])
      /\ iters[0] # <<>> /\ OpenOn(0, Head(iters[0])) => Len(iters[0]) = 1 /\ Leftover = 0
      /\ iters[0] # <<>> /\ ~OpenOn(0, Head(iters[0])) => Leftover >= 1
      /\ DOMAIN queues = {0} /\ DOMAIN iters = {0}
  BY <1>0, LeftoverValue DEF StrandInv, Unstopped, TypeOK, ManagerTypes, StreamTypes
<1>2. /\ UNCHANGED <<st, conn, conns, subs, pc, qe, mid, fut, replies>> /\ iters[0] # <<>>
      /\ IterForward(0) \/ IterStop(0) => queues[0] # <<>> /\ queues'[0] = Tail(queues[0])
      /\ IterStop(0) \/ IterDie(0) => iters'[0] = Tail(iters[0])
      /\ IterForward(0) => iters' = iters
      /\ IterStop(0) \/ IterDie(0) => wire' = wire
      /\ IterDie(0) => queues' = queues
  BY <1>1 DEF IterForward, IterStop, IterDie
<1>3. ASSUME queues[0] # <<>>, queues'[0] = Tail(queues[0])
      PROVE  /\ Len(queues'[0]) = Len(queues[0]) - 1 /\ Len(queues[0]) >= 1
             /\ \A n \in 1 .. Len(queues[0]) - 1 : queues'[0][n] = queues[0][n + 1]
             /\ Head(queues[0]) = queues[0][1]
             /\ \A n \in 1 .. Len(queues[0]) : n # 1 => n - 1 \in DOMAIN queues'[0]
  BY <1>0, <1>3
<1>4. ASSUME iters'[0] = Tail(iters[0])
      PROVE  /\ Len(iters'[0]) = Len(iters[0]) - 1 /\ Len(iters[0]) >= 1
             /\ \A n \in 1 .. Len(iters[0]) - 1 : iters'[0][n] = iters[0][n + 1]
             /\ Head(iters[0]) = iters[0][1]
             /\ DOMAIN iters'[0] = 1 .. Len(iters[0]) - 1
  BY <1>0, <1>2, <1>4
<1>5. SubscribedInv'
  <2>1. \A e \in Execs : Expects(e)' => Expects(e)
    BY <1>2 DEF Expects
  <2>2. \A n \in 1 .. Len(queues'[0]) : \E m \in 1 .. Len(queues[0]) : queues'[0][n] = queues[0][m]
    <3>1. CASE queues' = queues
      BY <3>1
    <3>2. CASE queues[0] # <<>> /\ queues'[0] = Tail(queues[0])
      <4>1. ASSUME NEW n \in 1 .. Len(queues'[0])
            PROVE  n + 1 \in 1 .. Len(queues[0]) /\ queues'[0][n] = queues[0][n + 1]
        BY <1>0, <1>3, <3>2
      <4>. QED
        BY <4>1
    <3>. QED
      BY <1>2, <3>1, <3>2
  <2>. QED
    BY <1>2, <2>1, <2>2 DEF StrandInv, SubscribedInv
<1>6. ItersInv'
  <2>1. CASE iters' = iters
    BY <1>2, <2>1 DEF StrandInv, ItersInv
  <2>2. CASE iters'[0] = Tail(iters[0])
    BY <1>0, <1>2, <1>4, <2>2 DEF StrandInv, ItersInv
  <2>. QED
    BY <1>2, <2>1, <2>2
<1>7. \A q : Live(q)' <=> Live(q)
  BY <1>2 DEF Live, Waiting
<1>8. ASSUME NEW e \in Execs, Waiting(e)', AtServer(e) PROVE AtServer(e)'
  <2>1. wire \subseteq wire'
    BY <1>2 DEF IterForward
  <2>. QED
    BY <1>2, <1>8, <2>1 DEF AtServer, LiveConn, OpenOn
<1>9. ASSUME NEW e \in Execs, InQueue(e), queues[0] # <<>>, queues'[0] = Tail(queues[0]),
             queues[0][1] = Stop \/ queues[0][1].id # mid[e]
      PROVE  InQueue(e)'
  <2>1. PICK n \in 1 .. Len(queues[0]) : queues[0][n] # Stop /\ queues[0][n].id = mid[e]
    BY <1>0, <1>9 DEF InQueue
  <2>2. n # 1 /\ n - 1 \in DOMAIN queues'[0] /\ n - 1 \in 1 .. Len(queues[0]) - 1
    BY <1>0, <1>3, <1>9, <2>1
  <2>3. queues'[0][n - 1] = queues[0][n]
    BY <1>0, <1>3, <1>9, <2>2
  <2>. QED
    BY <1>0, <1>2, <2>1, <2>2, <2>3 DEF InQueue
<1>10. CASE IterForward(0)
  <2>1. /\ Leftover = 0 /\ OpenOn(0, Head(iters[0]))
        /\ wire' = wire \cup {[req |-> queues[0][1], conn |-> conn[0]]}
    BY <1>1, <1>2, <1>3, <1>10 DEF IterForward
  <2>2. Leftover' = Leftover
    BY <1>2, <1>10 DEF Leftover, Pulling
  <2>3. LeftInv'
    BY <1>b, <2>1, <2>2
  <2>4. ASSUME NEW e \in Execs, Waiting(e)' PROVE InQueue(e)' \/ AtServer(e)' \/ st'[0] = "failed"
    <3>1. CASE queues[0][1] = Stop \/ queues[0][1].id # mid[e]
      BY <1>2, <1>8, <1>9, <1>10, <2>4, <3>1 DEF StrandInv, FoundInv, Waiting
    <3>2. CASE queues[0][1].id = mid[e]
      <4>. DEFINE w == [req |-> queues[0][1], conn |-> conn[0]]
      <4>1. w \in wire' /\ w.req.id = mid'[e] /\ w.conn = conn'[0] /\ st'[0] = "open"
        BY <1>2, <2>1, <3>2 DEF OpenOn
      <4>. QED
        BY <1>0, <4>1 DEF AtServer, LiveConn, OpenOn
    <3>. QED
      BY <3>1, <3>2
  <2>. QED
    BY <1>2, <1>5, <1>6, <2>3, <2>4 DEF StrandInv, FoundInv
<1>11. ASSUME IterStop(0) \/ IterDie(0), ~OpenOn(0, Head(iters[0])) PROVE Leftover' = Leftover - 1
  <2>1. CASE st[0] = "open"
    <3>1. iters[0][1] # conn[0]
      BY <1>2, <1>4, <1>11, <2>1 DEF OpenOn
    <3>2. Pulling(0, conn[0])' <=> Pulling(0, conn[0])
      <4>1. ASSUME NEW n \in 1 .. Len(iters[0]), iters[0][n] = conn[0]
            PROVE  n - 1 \in DOMAIN iters'[0] /\ iters'[0][n - 1] = conn[0]
        BY <1>0, <1>2, <1>4, <1>11, <3>1, <4>1
      <4>2. ASSUME NEW n \in DOMAIN iters'[0]
            PROVE  n + 1 \in 1 .. Len(iters[0]) /\ iters'[0][n] = iters[0][n + 1]
        <5>1. /\ n \in 1 .. Len(iters[0]) - 1
              /\ \A m \in 1 .. Len(iters[0]) - 1 : iters'[0][m] = iters[0][m + 1]
          BY <1>2, <1>4, <1>11, <4>2
        <5>2. n + 1 \in 1 .. Len(iters[0])
          BY <1>0, <5>1
        <5>. QED
          BY <5>1, <5>2
      <4>. QED
        BY <1>0, <1>2, <4>1, <4>2 DEF Pulling
    <3>. QED
      BY <1>0, <1>2, <1>4, <1>11, <3>2 DEF Leftover
  <2>2. CASE st[0] # "open"
    BY <1>0, <1>2, <1>4, <1>11, <2>2 DEF Leftover
  <2>. QED
    BY <2>1, <2>2
<1>12. CASE IterStop(0)
  <2>1. CASE OpenOn(0, Head(iters[0]))
    <3>1. queues[0][1] = Stop /\ Len(iters[0]) = 1 /\ Leftover = 0 /\ Len(iters'[0]) = 0
      BY <1>0, <1>1, <1>2, <1>3, <1>4, <1>12, <2>1 DEF IterStop
    <3>2. Leftover' = 0
      BY <1>0, <1>2, <1>4, <1>12, <3>1 DEF Leftover, Pulling
    <3>3. LeftInv'
      BY <1>b, <3>2
    <3>4. FoundInv'
      BY <1>2, <1>8, <1>9, <1>12, <3>1 DEF StrandInv, FoundInv, Waiting
    <3>. QED
      BY <1>2, <1>5, <1>6, <3>3, <3>4 DEF StrandInv
  <2>2. CASE ~OpenOn(0, Head(iters[0]))
    <3>1. Leftover >= 1 /\ Leftover' = Leftover - 1
      BY <1>1, <1>2, <1>11, <1>12, <2>2
    <3>2. LeftInv'
      <4>1. /\ Len(queues'[0]) = Len(queues[0]) - 1
            /\ \A n \in 1 .. Len(queues[0]) - 1 : queues'[0][n] = queues[0][n + 1]
        BY <1>2, <1>3, <1>12
      <4>2. Leftover' <= Len(queues'[0]) + IF st'[0] = "failed" THEN 1 ELSE 0
        BY <1>0, <1>1, <1>2, <3>1, <4>1 DEF StrandInv, LeftInv
      <4>3. ASSUME st'[0] # "failed", NEW n \in 1 .. Leftover' PROVE ~Live(queues'[0][n])
        <5>1. /\ Leftover <= Len(queues[0]) /\ \A m \in 1 .. Leftover : ~Live(queues[0][m])
          BY <1>0, <1>1, <1>2, <4>3 DEF StrandInv, LeftInv
        <5>2. n + 1 \in 1 .. Leftover /\ n \in 1 .. Len(queues[0]) - 1
          BY <1>0, <1>1, <3>1, <4>3, <5>1
        <5>. QED
          BY <4>1, <5>1, <5>2
      <4>4. ASSUME st'[0] # "failed", NEW n \in 1 .. Leftover' PROVE ~Live(queues[0][n])'
        BY <1>7, <4>3, <4>4
      <4>. QED
        BY <4>2, <4>4 DEF LeftInv
    <3>3. ASSUME NEW e \in Execs, Waiting(e)' PROVE InQueue(e)' \/ AtServer(e)' \/ st'[0] = "failed"
      <4>1. CASE st[0] = "failed"
        BY <1>2, <4>1
      <4>2. CASE st[0] # "failed"
        <5>1. ~Live(queues[0][1])
          BY <1>1, <3>1, <4>2 DEF StrandInv, LeftInv
        <5>2. queues[0][1] = Stop \/ queues[0][1].id # mid[e]
          BY <1>2, <3>3, <5>1 DEF Live, Waiting
        <5>. QED
          BY <1>2, <1>8, <1>9, <1>12, <3>3, <4>2, <5>2 DEF StrandInv, FoundInv, Waiting
      <4>. QED
        BY <4>1, <4>2
    <3>. QED
      BY <1>2, <1>5, <1>6, <3>2, <3>3 DEF StrandInv, FoundInv
  <2>. QED
    BY <2>1, <2>2
<1>13. CASE IterDie(0)
  <2>1. Leftover' = Leftover - 1
    BY <1>11, <1>13 DEF IterDie
  <2>2. LeftInv'
    BY <1>0, <1>1, <1>2, <1>7, <1>13, <2>1 DEF StrandInv, LeftInv
  <2>3. \A e \in Execs : Waiting(e)' => Waiting(e) /\ (InQueue(e) => InQueue(e)')
    BY <1>2, <1>13 DEF Waiting, InQueue
  <2>4. FoundInv'
    BY <1>2, <1>8, <2>3 DEF StrandInv, FoundInv
  <2>. QED
    BY <1>2, <1>5, <1>6, <2>2, <2>4 DEF StrandInv
<1>. QED
  BY <1>10, <1>12, <1>13

\* The ids on the queue were generated.
LEMMA QueuedIds ==
    ASSUME Unstopped, ClaimInv, NEW n \in 1 .. Len(queues[0]), queues[0][n] # Stop
    PROVE  queues[0][n].id \in Nat /\ queues[0][n].id < nextId
<1>1. queues[0] \in Seq(Request \cup {Stop}) /\ Epochs = {0}
  BY OneEpoch
<1>2. queues[0][n] \in Request
  BY <1>1
<1>3. queues[0][n].id \in Nat /\ queues[0][n].exec \in Execs
  BY <1>2 DEF Request
<1>4. QueueClaim(queues[0][n].id, queues[0][n].exec)
  BY <1>1 DEF QueueClaim
<1>. QED
  BY <1>3, <1>4 DEF ClaimInv, Claim

\* An execution sends a request under a fresh id, or puts one it was blocked with: the
\* request comes behind the items meant for iterators left over (_manage_execution).
LEMMA StrandSend ==
    ASSUME Unstopped, Unstopped', ClaimInv, StrandInv, NEW e \in Execs,
           ExecPut(e) \/ \E k \in Kinds : Send(e, k)
    PROVE  StrandInv'
<1>. USE DEF managerVars, streamVars, execVars, serverVars, boundVars
<1>0. /\ Epochs = {0} /\ demux = 0
      /\ queues[0] \in Seq(Request \cup {Stop}) /\ iters[0] \in Seq(Nat)
      /\ Len(queues[0]) \in Nat /\ Len(iters[0]) \in Nat
      /\ \A f \in Execs : qe[f] = 0
  BY OneEpoch
<1>1. /\ DOMAIN queues = {0} /\ DOMAIN subs = {0} /\ nextId \in Nat
      /\ DOMAIN pc = Execs /\ DOMAIN mid = Execs /\ DOMAIN fut = Execs
      /\ \A f \in Execs : mid[f] \in Nat
  BY <1>0 DEF Unstopped, TypeOK, ManagerTypes, ExecTypes
<1>2. /\ UNCHANGED <<st, conn, conns, iters, qe, wire, replies>>
      /\ \A f \in Execs : f # e => pc'[f] = pc[f] /\ mid'[f] = mid[f] /\ fut'[f] = fut[f]
      /\ subs[0] \subseteq subs'[0]
  <2>1. CASE ExecPut(e)
    BY <1>0, <1>1, <2>1 DEF ExecPut
  <2>2. ASSUME NEW k \in Kinds, Send(e, k)
        PROVE  /\ UNCHANGED <<st, conn, conns, iters, qe, wire, replies>>
               /\ \A f \in Execs : f # e => pc'[f] = pc[f] /\ mid'[f] = mid[f] /\ fut'[f] = fut[f]
               /\ subs[0] \subseteq subs'[0]
    BY <1>0, <1>1, <2>2 DEF Send
  <2>. QED
    BY <2>1, <2>2
<1>3. [id |-> mid'[e], exec |-> e] \in subs'[0] \/ ~Expects(e)'
  <2>1. CASE ExecPut(e)
    BY <1>1, <2>1 DEF ExecPut, StrandInv, SubscribedInv, Expects
  <2>2. CASE \E k \in Kinds : Send(e, k)
    BY <1>0, <1>1, <2>2 DEF Send
  <2>. QED
    BY <2>1, <2>2
\* The request's id is on the queue nowhere else, and no other execution is blocked with it.
<1>4. /\ \A n \in 1 .. Len(queues[0]) : queues[0][n] = Stop \/ queues[0][n].id # mid'[e]
      /\ \A f \in Execs : f # e /\ pc[f] = "blocked" => mid[f] # mid'[e]
  <2>1. \A f \in Execs : pc[f] = "blocked" => mid[f] < nextId /\ Claim(mid[f], f)
    BY <1>1 DEF ClaimInv, Claim, BlockedClaim
  <2>2. CASE ExecPut(e)
    <3>1. pc[e] = "blocked" /\ mid' = mid
      BY <2>2 DEF ExecPut
    <3>2. \A f \in Execs : f # e /\ pc[f] = "blocked" => mid[f] # mid[e]
      BY <1>1, <2>1, <3>1 DEF ClaimInv
    <3>. QED
      BY <3>1, <3>2 DEF StrandInv, SubscribedInv
  <2>3. CASE \E k \in Kinds : Send(e, k)
    <3>1. mid'[e] = nextId
      BY <1>1, <2>3 DEF Send
    <3>2. \A n \in 1 .. Len(queues[0]) : queues[0][n] = Stop \/ queues[0][n].id # nextId
      BY <1>1, QueuedIds
    <3>. QED
      BY <1>1, <2>1, <3>1, <3>2
  <2>. QED
    BY <2>2, <2>3
<1>5. /\ Leftover' = Leftover /\ Leftover \in Nat
      /\ Leftover <= Len(queues[0]) + IF st[0] = "failed" THEN 1 ELSE 0
  <2>1. Leftover' = Leftover
    BY <1>2 DEF Leftover, Pulling
  <2>. QED
    BY <1>0, <2>1, LeftoverValue DEF StrandInv, LeftInv
<1>7. ASSUME NEW n \in 1 .. Len(queues[0]), NEW q, q = queues[0][n], Live(q)' PROVE Live(q)
  <2>1. PICK f \in Execs : q # Stop /\ Waiting(f)' /\ q.id = mid'[f]
    BY <1>7 DEF Live
  <2>2. f # e
    BY <1>4, <1>7, <2>1
  <2>. QED
    BY <1>2, <2>1, <2>2 DEF Live, Waiting
<1>8. ItersInv'
  BY <1>2 DEF StrandInv, ItersInv
<1>9. \A f \in Execs : f # e /\ Waiting(f)' => Waiting(f) /\ (AtServer(f) => AtServer(f)')
  BY <1>2 DEF Waiting, AtServer, LiveConn, OpenOn
<1>10. CASE queues' = queues /\ pc'[e] # "awaiting"
  <2>2. LeftInv'
    <3>1. ASSUME st'[0] # "failed", NEW n \in 1 .. Leftover' PROVE ~Live(queues[0][n])'
      <4>1. n \in 1 .. Len(queues[0]) /\ n \in 1 .. Leftover
        BY <1>0, <1>2, <1>5, <3>1
      <4>2. ~Live(queues[0][n]) /\ queues'[0][n] = queues[0][n]
        BY <1>2, <1>10, <3>1, <4>1 DEF StrandInv, LeftInv
      <4>. QED
        BY <1>7, <4>1, <4>2
    <3>. QED
      BY <1>2, <1>5, <1>10, <3>1 DEF LeftInv
  <2>3. SubscribedInv'
    BY <1>2, <1>3, <1>4, <1>10 DEF StrandInv, SubscribedInv, Expects
  <2>4. FoundInv'
    BY <1>2, <1>9, <1>10 DEF StrandInv, FoundInv, Waiting, InQueue
  <2>. QED
    BY <1>2, <1>8, <2>2, <2>3, <2>4 DEF StrandInv
<1>11. ASSUME NEW q \in Request, q.id = mid'[e], queues'[0] = Append(queues[0], q), pc'[e] = "awaiting"
       PROVE  StrandInv'
  <2>1. /\ Len(queues'[0]) = Len(queues[0]) + 1
        /\ queues'[0][Len(queues[0]) + 1] = q
        /\ \A n \in 1 .. Len(queues[0]) : queues'[0][n] = queues[0][n]
        /\ DOMAIN queues'[0] = 1 .. Len(queues[0]) + 1
    BY <1>0, <1>11
  <2>2. LeftInv'
    <3>1. Leftover' <= Len(queues'[0]) + IF st'[0] = "failed" THEN 1 ELSE 0
      <4>1. \A l, m \in Nat, d \in {0, 1} : l <= m + d => l <= (m + 1) + d
        OBVIOUS
      <4>. QED
        BY <1>0, <1>2, <1>5, <2>1, <4>1
    <3>2. ASSUME st'[0] # "failed", NEW n \in 1 .. Leftover' PROVE ~Live(queues[0][n])'
      <4>1. n \in 1 .. Len(queues[0]) /\ n \in 1 .. Leftover
        BY <1>0, <1>2, <1>5, <3>2
      <4>2. ~Live(queues[0][n])
        BY <1>2, <3>2, <4>1 DEF StrandInv, LeftInv
      <4>3. queues'[0][n] = queues[0][n]
        BY <2>1, <4>1
      <4>. QED
        BY <1>7, <4>1, <4>2, <4>3
    <3>. QED
      BY <3>1, <3>2 DEF LeftInv
  <2>3. SubscribedInv'
    <3>1. ASSUME NEW f \in Execs, pc'[f] = "blocked", NEW n \in 1 .. Len(queues'[0])
          PROVE  queues'[0][n] = Stop \/ queues'[0][n].id # mid'[f]
      <4>1. f # e /\ pc[f] = "blocked" /\ mid'[f] = mid[f]
        BY <1>2, <1>11, <3>1
      <4>2. CASE n \in 1 .. Len(queues[0])
        BY <2>1, <4>1, <4>2 DEF StrandInv, SubscribedInv
      <4>3. CASE n = Len(queues[0]) + 1
        BY <1>4, <1>11, <2>1, <4>1, <4>3
      <4>. QED
        BY <1>0, <2>1, <4>2, <4>3
    <3>2. \A f \in Execs : Expects(f)' => [id |-> mid'[f], exec |-> f] \in subs'[0]
      BY <1>2, <1>3 DEF StrandInv, SubscribedInv, Expects
    <3>. QED
      BY <3>1, <3>2 DEF SubscribedInv
  <2>4. ASSUME NEW f \in Execs, Waiting(f)' PROVE InQueue(f)' \/ AtServer(f)' \/ st'[0] = "failed"
    <3>1. CASE f = e
      <4>1. q # Stop
        BY <1>11 DEF Request, Stop
      <4>2. Len(queues[0]) + 1 \in DOMAIN queues'[0]
        BY <1>0, <2>1
      <4>. QED
        BY <1>0, <1>2, <1>11, <2>1, <3>1, <4>1, <4>2 DEF InQueue
    <3>2. CASE f # e
      <4>1. InQueue(f) => InQueue(f)'
        <5>. SUFFICES ASSUME InQueue(f) PROVE InQueue(f)'
          OBVIOUS
        <5>1. PICK n \in 1 .. Len(queues[0]) : queues[0][n] # Stop /\ queues[0][n].id = mid[f]
          BY <1>0 DEF InQueue
        <5>2. n \in DOMAIN queues'[0] /\ queues'[0][n] = queues[0][n]
          BY <1>0, <2>1
        <5>. QED
          BY <1>0, <1>2, <3>2, <5>1, <5>2 DEF InQueue
      <4>. QED
        BY <1>2, <1>9, <2>4, <3>2, <4>1 DEF StrandInv, FoundInv
    <3>. QED
      BY <3>1, <3>2
  <2>. QED
    BY <1>2, <1>8, <2>2, <2>3, <2>4 DEF StrandInv, FoundInv
<1>12. \/ queues' = queues /\ pc'[e] # "awaiting"
       \/ \E q \in Request : /\ q.id = mid'[e] /\ queues'[0] = Append(queues[0], q)
                             /\ pc'[e] = "awaiting"
  <2>1. CASE ExecPut(e)
    <3>. DEFINE q == [id |-> mid[e], exec |-> e, kind |-> kind[e]]
    <3>1. q \in Request /\ q.id = mid'[e]
      BY <2>1 DEF Request, ExecPut, Unstopped, TypeOK, ExecTypes
    <3>2. queues'[0] = Append(queues[0], q) /\ pc'[e] = "awaiting"
      BY <1>0, <1>1, <2>1 DEF ExecPut, Put
    <3>. QED
      BY <3>1, <3>2
  <2>2. ASSUME NEW k \in Kinds, Send(e, k), ~(queues' = queues /\ pc'[e] # "awaiting")
        PROVE  \E q \in Request : /\ q.id = mid'[e] /\ queues'[0] = Append(queues[0], q)
                                  /\ pc'[e] = "awaiting"
    <3>. DEFINE q == [id |-> nextId, exec |-> e, kind |-> k]
    <3>1. q \in Request /\ q.id = mid'[e]
      BY <1>1, <2>2 DEF Request, Send
    <3>2. queues'[0] = Append(queues[0], q) /\ pc'[e] = "awaiting"
      BY <1>0, <1>1, <2>2 DEF Send, Put
    <3>. QED
      BY <3>1, <3>2
  <2>. QED
    BY <2>1, <2>2
<1>. QED
  BY <1>10, <1>11, <1>12

\* Every step of a manager that is not stopped, on streams the server does not close on
\* its own, keeps every request that is waited for where it can be answered.
LEMMA StrandStep ==
    ASSUME Unstopped, Unstopped', ClaimInv, StrandInv, MaxUnsolicited = 0, [Next]_vars
    PROVE  StrandInv'
<1>. USE DEF managerVars, streamVars, execVars, serverVars, boundVars
<1>0. /\ Epochs = {0} /\ epoch = 0 /\ demux = 0 /\ stopPc = "idle" /\ ~cancelReq
      /\ DOMAIN st = {0} /\ DOMAIN subs = {0} /\ closes \in Nat /\ MaxStops = 0
      /\ DOMAIN pc = Execs /\ DOMAIN mid = Execs /\ DOMAIN fut = Execs
      /\ st[0] \notin {"closing", "done"}
  BY OneEpoch DEF Unstopped, TypeOK, ManagerTypes, StreamTypes, ExecTypes, BoundTypes, StrandInv
<1>1. CASE UNCHANGED vars
  BY <1>1, StrandKept DEF vars, AtServer, LiveConn, OpenOn
<1>2. CASE StopSteps
  BY <1>0, <1>2 DEF StopSteps, StopCancelStream, StopNotify, StopClear, StopResetDemux,
     StopResetQueue
<1>3. ASSUME NEW g \in Epochs, StreamCancelled(g) \/ StreamClose(g) \/ StreamEndUnsolicited(g)
      PROVE  FALSE
  BY <1>0, <1>3 DEF StreamCancelled, StreamClose, StreamEndUnsolicited
<1>4. ASSUME NEW g \in Epochs,
             \/ StreamOpen(g) \/ StreamEnd(g) \/ StreamNotify(g)
             \/ \E x \in BreakKinds : StreamBreak(g, x)
      PROVE  StrandInv'
  BY <1>0, <1>4, StrandStream
<1>5. ASSUME NEW g \in Epochs, IterSteps(g) PROVE StrandInv'
  BY <1>0, <1>5, StrandIter DEF IterSteps
<1>6. ASSUME NEW e \in Execs,
             ExecStart(e) \/ ExecPut(e) \/ ExecRetryBrokenStream(e) \/ ExecRetryError(e)
      PROVE  StrandInv'
  <2>1. ExecPut(e) \/ \E k \in Kinds : Send(e, k)
    BY <1>6, RetryKinds DEF ExecStart, ExecRetryBrokenStream, ExecRetryError, Kinds
  <2>. QED
    BY <2>1, StrandSend
<1>7. ASSUME NEW g \in Epochs, NEW r \in replies, StreamResponse(g, r) PROVE StrandInv'
  <2>1. /\ UNCHANGED <<queues, iters, conn, conns, st, pc, mid, wire>>
        /\ replies' = replies \ {r}
        /\ subs'[0] = subs[0] \ {s \in subs[0] : s.id = r.id}
        /\ \A e \in Execs : fut'[e] = IF \E s \in subs[0] : s.id = r.id /\ s.exec = e /\ Waits(s)
                                      THEN [state |-> r.body, job |-> r.job] ELSE fut[e]
    BY <1>0, <1>7 DEF StreamResponse, Publish
  <2>2. r.body # "pending"
    <3>1. r.body \in Bodies
      BY DEF Unstopped, TypeOK, ServerTypes
    <3>. QED
      BY <3>1, NotBodies
  <2>3. ASSUME NEW e \in Execs, pc'[e] \in {"blocked", "awaiting"}, fut'[e].state = "pending"
        PROVE  fut[e].state = "pending" /\ mid[e] # r.id
    <3>1. fut[e].state = "pending"
      BY <2>1, <2>2, <2>3
    <3>2. [id |-> mid[e], exec |-> e] \in subs[0]
      BY <2>1, <2>3, <3>1 DEF StrandInv, SubscribedInv, Expects
    <3>3. CASE mid[e] = r.id
      <4>. DEFINE s == [id |-> mid[e], exec |-> e]
      <4>1. s.id = r.id /\ s.exec = e /\ Waits(s)
        BY <3>1, <3>3 DEF Waits
      <4>. QED
        BY <2>1, <2>2, <2>3, <3>2, <4>1
    <3>. QED
      BY <3>1, <3>3
  <2>4. \A e \in Execs : mid[e] # r.id /\ AtServer(e) => AtServer(e)'
    BY <2>1 DEF AtServer, LiveConn, OpenOn
  <2>. QED
    BY <2>1, <2>3, <2>4, StrandKept
<1>8. ASSUME NEW e \in Execs,
             \/ Submit(e) \/ ExecReturn(e) \/ ExecCancelled(e) \/ ExecCancelJob(e)
             \/ ExecCancel(e)
      PROVE  StrandInv'
  <2>1. /\ UNCHANGED <<queues, iters, conn, conns, subs, mid, wire, replies>>
        /\ \A f \in Execs : pc'[f] \in {"blocked", "awaiting"} => pc'[f] = pc[f] /\ fut'[f] = fut[f]
        /\ st'[0] = st[0] \/ (st[0] = "none" /\ st'[0] = "scheduled")
    <3>1. CASE Submit(e)
      BY <1>0, <3>1 DEF Submit, StreamLive
    <3>2. CASE ExecReturn(e) \/ ExecCancelled(e) \/ ExecCancelJob(e)
      BY <1>0, <3>2 DEF ExecReturn, ExecCancelled, ExecCancelJob, Finish
    <3>3. CASE ExecCancel(e)
      BY <1>0, <3>3 DEF ExecCancel, Finish
    <3>. QED
      BY <1>8, <3>1, <3>2, <3>3
  <2>2. st[0] = "open" => st'[0] = "open"
    BY <2>1
  <2>3. \A f \in Execs : AtServer(f) => AtServer(f)'
    BY <1>0, <2>1, <2>2 DEF AtServer, LiveConn, OpenOn
  <2>. QED
    BY <2>1, <2>3, StrandKept
<1>9. ASSUME NEW w \in wire, ServerHandle(w) \/ ServerLose(w) PROVE StrandInv'
  <2>1. /\ UNCHANGED <<queues, iters, conn, conns, st, subs, pc, mid, fut>>
        /\ wire' = wire \ {w} /\ replies \subseteq replies'
        /\ LiveConn(w.conn) => \E r \in replies' : r.id = w.req.id /\ r.conn = w.conn
    <3>1. CASE ServerHandle(w)
      <4>1. PICK b \in ServerBody(w.req) \cup Faults :
              replies' = IF LiveConn(w.conn)
                         THEN replies \cup {[id |-> w.req.id, job |-> w.req.exec,
                                             body |-> b, conn |-> w.conn]}
                         ELSE replies
        BY <3>1 DEF ServerHandle
      <4>. DEFINE r == [id |-> w.req.id, job |-> w.req.exec, body |-> b, conn |-> w.conn]
      <4>2. LiveConn(w.conn) => r \in replies' /\ r.id = w.req.id /\ r.conn = w.conn
        BY <4>1
      <4>3. replies \subseteq replies'
        BY <4>1
      <4>. QED
        BY <3>1, <4>2, <4>3 DEF ServerHandle
    <3>2. CASE ServerLose(w)
      BY <3>2 DEF ServerLose
    <3>. QED
      BY <1>9, <3>1, <3>2
  <2>2. \A c : LiveConn(c)' <=> LiveConn(c)
    BY <2>1 DEF LiveConn, OpenOn
  <2>3. \A e \in Execs : AtServer(e) => AtServer(e)'
    BY <2>1, <2>2 DEF AtServer
  <2>. QED
    BY <2>1, <2>3, StrandKept
<1>. QED
  BY <1>1, <1>2, <1>3, <1>4, <1>5, <1>6, <1>7, <1>8, <1>9
     DEF Next, StreamSteps, ExecSteps, Quiescent

\* Unless stop() is called or the server closes a stream on its own, no iterator left
\* over from a broken stream swallows a request somebody waits for, and every execution
\* that waits is subscribed to its response (_manage_stream, _request_iterator).
THEOREM NoRequestIsStranded ==
    ASSUME MaxStops = 0, MaxUnsolicited = 0
    PROVE  Spec => []NoRequestStranded
<1>1. Init => StrandInv
  <2>. SUFFICES ASSUME Init PROVE StrandInv
    OBVIOUS
  <2>1. /\ st[0] = "none" /\ queues[0] = <<>> /\ iters[0] = <<>> /\ conn[0] = 0 /\ conns = 0
        /\ \A e \in Execs : pc[e] = "idle"
    BY DEF Init, Epochs
  <2>2. Leftover = 0
    BY <2>1 DEF Leftover
  <2>3. ItersInv
    BY <2>1 DEF ItersInv
  <2>4. LeftInv
    BY <2>1, <2>2 DEF LeftInv
  <2>5. SubscribedInv /\ FoundInv
    BY <2>1 DEF SubscribedInv, FoundInv, Expects, Waiting
  <2>. QED
    BY <2>1, <2>3, <2>4, <2>5 DEF StrandInv
<1>2. TypeOK /\ EpochInv /\ StopInv /\ (TypeOK /\ EpochInv /\ StopInv)'
         /\ ClaimInv /\ StrandInv /\ [Next]_vars => StrandInv'
  BY StrandStep DEF Unstopped
<1>3. TypeOK /\ EpochInv /\ StopInv /\ StrandInv => NoRequestStranded
  BY OneEpoch DEF Unstopped, StrandInv, SubscribedInv, FoundInv, NoRequestStranded, Waiting, Expects
<1>. QED
  BY <1>1, <1>2, <1>3, StreamTypesAndEpochs, StreamsAreLeft, OwnInvHolds, PTL DEF Spec
=============================================================================
