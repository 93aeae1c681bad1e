----------------------------- MODULE Ofrep_proofs ----------------------------
(***************************************************************************)
(* Proofs about the evaluation handler beside the bridge, for any finite   *)
(* set of requests and any evaluations.                                    *)
(*                                                                         *)
(* What a caller was answered depends on what its worker found and on what *)
(* the bridge had been when the handler asked, so the invariant follows    *)
(* each request by itself: RequestInv(r) ties its place to its worker, its *)
(* answer, its exposure and the bridge.  The steps of the other requests   *)
(* leave it alone, and those of the bridge only move forward.              *)
(***************************************************************************)
EXTENDS Ofrep, Bridge_proofs, Response_proofs, FiniteSetTheorems

USE DEF ofrepVars, handlerVars

\* What is known of an answer that has been written.
AnswerInv(r) ==
    /\ answer[r].retry <=> answer[r].status = StatusServiceUnavailable
    /\ answer[r].value => worker[r] = "done" /\ result[r].value
    /\ answer[r].outcome = "not_ready" /\ promised[r] => worker[r] = "done"
    /\ at[r] # "finished" => answer[r].outcome \in Outcomes

RequestInv(r) ==
    /\ at[r] # "idle" => state # "none"
    /\ at[r] \in {"idle", "entered", "decoding", "decoded"} => worker[r] = "none"
    /\ at[r] \in {"idle", "entered"} => ~promised[r]
    /\ promised[r] => readyAt
    /\ worker[r] # "none" => state \in {"ready", "shutting_down"}
    /\ worker[r] \in {"sending", "done"} => result[r] \in Results
    /\ result[r] = NotReadyDetails => state = "shutting_down"
    /\ stop \in {"idle", "flushing"} => exposure[r] # "stranded"
    /\ Answered(r) => AnswerInv(r)

HandlersInv == \A r \in Requests : RequestInv(r)

\* A bridge that was ever ready is ready or stopping.
StampInv == readyAt => state \in {"ready", "shutting_down"}

OfrepInv == MetricsTypeOK /\ HandlerTypeOK /\ BridgeInv /\ StampInv /\ HandlersInv

------------------------------------------------------------------------------
(* The bridge under the handler *)

\* A goroutine of the evaluation handler touches the bridge only to record an
\* error in the metrics.
LEMMA RequestRefines ==
    ASSUME NEW r \in Requests, Request(r)
    PROVE  HandlerRecordsError \/ UNCHANGED bridgeVars
<1>0. CASE Deflect(r)
  BY <1>0 DEF Deflect
<1>1. CASE CheckStopped(r)
  BY <1>1 DEF CheckStopped
<1>2. CASE Decode(r)
  BY <1>2 DEF Decode
<1>3. CASE CheckState(r)
  BY <1>3 DEF CheckState
<1>4. CASE ReceiveResult(r)
  BY <1>4 DEF ReceiveResult, selectUnchanged
<1>5. CASE ContextDone(r)
  BY <1>5 DEF ContextDone, selectUnchanged
<1>6. CASE Observe(r)
  BY <1>6 DEF Observe
<1>7. CASE ReportFailure(r)
  BY <1>7 DEF ReportFailure, HandlerRecordsError, RecordError, externalUnchanged, bridgeVars
<1>8. CASE Evaluate(r)
  BY <1>8 DEF Evaluate
<1>9. CASE TimeoutFires(r)
  BY <1>9 DEF TimeoutFires
<1>10. CASE ClientGone(r)
  BY <1>10 DEF ClientGone
<1>11. CASE SendResult(r)
  BY <1>11 DEF SendResult
<1> QED
  BY <1>0, <1>1, <1>2, <1>3, <1>4, <1>5, <1>6, <1>7, <1>8, <1>9, <1>10, <1>11
     DEF Request, Handle

\* What a request's goroutines leave alone.
LEMMA RequestFrame ==
    ASSUME NEW r \in Requests, Request(r)
    PROVE  UNCHANGED <<built, state, readyAt, start, stop, stopErr, provider, config,
                       providerReady, stopped>>
<1>1. UNCHANGED stopped
  BY DEF Request, Handle, Deflect, CheckStopped, Decode, CheckState, ReceiveResult, ContextDone,
         selectUnchanged, Observe, ReportFailure, Evaluate, SendResult, TimeoutFires, ClientGone
<1> QED
  BY <1>1, RequestRefines DEF HandlerRecordsError, externalUnchanged, bridgeVars

\* What the bridge's steps outside the termination sequence leave alone.
LEMMA BridgeStepFrame ==
    ASSUME New \/ Start \/ RemoteConfig
    PROVE  /\ UNCHANGED <<stop, stopErr>>
           /\ built = "yes" => built' = "yes"
           /\ BridgeInv /\ state = "shutting_down" => state' = "shutting_down"
<1>1. CASE New
  BY <1>1 DEF New, StartTracer, NewProvider, RefuseProvider, newUnchanged, BridgeInv, BuiltInv
<1>2. CASE Start
  BY <1>2 DEF Start, RegisterProvider, ProviderInitialized, StartFails, BecomeReady,
              AnnounceReady, startUnchanged
<1>3. CASE RemoteConfig
  BY <1>3 DEF RemoteConfig, DeliverConfig, WithdrawConfig, InitializeProvider,
              externalUnchanged
<1> QED
  BY <1>1, <1>2, <1>3

\* Every step of the handler and of the bridge beside it is a step of the
\* bridge's specification or leaves the bridge alone.
LEMMA OfrepRefinesBridge == [OfrepNext]_ofrepVars => [BridgeNext]_bridgeVars
<1> SUFFICES ASSUME [OfrepNext]_ofrepVars
             PROVE  BridgeNext \/ UNCHANGED bridgeVars
  OBVIOUS
<1>1. ASSUME NEW r \in Requests, Arrive(r)
      PROVE  UNCHANGED bridgeVars
  BY <1>1 DEF Arrive
<1>2. ASSUME NEW r \in Requests, Request(r)
      PROVE  BridgeNext \/ UNCHANGED bridgeVars
  BY <1>2, RequestRefines DEF BridgeNext
<1>3. CASE BridgeStep \/ BridgeStops
  BY <1>3 DEF BridgeStep, BridgeStops, BridgeNext, Shutdown
<1>4. CASE StopServing
  BY <1>4 DEF StopServing
<1>5. ASSUME NEW failed \in BOOLEAN, FlushExposures(failed)
      PROVE  BridgeNext
  BY <1>5 DEF FlushExposures, BridgeNext, Shutdown
<1>6. CASE UNCHANGED ofrepVars
  BY <1>6
<1>7. CASE PeriodicFlush
  BY <1>7 DEF PeriodicFlush
<1> QED
  BY <1>1, <1>2, <1>3, <1>4, <1>5, <1>6, <1>7 DEF OfrepNext

\* The bridge only moves forward: past readiness, and past its own shutdown.
LEMMA BridgeMovesForward ==
    ASSUME BridgeInv, StampInv, [BridgeNext]_bridgeVars
    PROVE  /\ state # "none" => state' # "none"
           /\ state \in {"ready", "shutting_down"} => state' \in {"ready", "shutting_down"}
           /\ state = "shutting_down" => state' = "shutting_down"
           /\ readyAt => readyAt'
           /\ stop' \in {"idle", "flushing"} => stop \in {"idle", "flushing"}
           /\ StampInv'
<1> USE DEF StampInv, BridgeInv, BridgeTypeOK, BuiltInv
<1>1. CASE New
  BY <1>1 DEF New, StartTracer, NewProvider, RefuseProvider, newUnchanged
<1>2. CASE Start
  BY <1>2 DEF Start, RegisterProvider, ProviderInitialized, StartFails, BecomeReady,
              AnnounceReady, startUnchanged
<1>3. CASE BeginShutdown
  BY <1>3 DEF BeginShutdown
<1>4. CASE Shutdown
  BY <1>4 DEF Shutdown, ShutdownBegins, ShutdownProvider, StopTracer
<1>5. CASE RemoteConfig
  BY <1>5 DEF RemoteConfig, DeliverConfig, WithdrawConfig, InitializeProvider, externalUnchanged
<1>6. CASE HandlerRecordsError
  BY <1>6 DEF HandlerRecordsError, externalUnchanged
<1>7. CASE UNCHANGED bridgeVars
  BY <1>7 DEF bridgeVars
<1> QED
  BY <1>1, <1>2, <1>3, <1>4, <1>5, <1>6, <1>7 DEF BridgeNext

------------------------------------------------------------------------------
(* Results and answers *)

\* Whatever the client returns has the shape mapResult expects.
LEMMA ResultsAreDetails == Results \subseteq Details
<1>1. NotReadyDetails \in Details
  BY DEF NotReadyDetails, Details, ErrorCodes, ErrorClasses, Reasons, MetadataKinds
<1>2. WithdrawnDetails \subseteq Details
  BY DEF WithdrawnDetails, Details, ErrorCodes, ErrorClasses, Reasons, MetadataKinds
<1> QED
  BY <1>1, <1>2, EvaluationsAssumption, Zenon DEF Results

\* What an evaluation may return: a value needs a provider that is ready or
\* shut down, and the short circuit one that is not ready.
LEMMA EvaluationResults ==
    /\ evaluationResults \subseteq Results
    /\ provider \in {"unregistered", "initializing"} =>
          \A d \in evaluationResults : d.value = FALSE
    /\ provider = "ready" => NotReadyDetails \notin evaluationResults
<1>1. CASE provider \in {"unregistered", "initializing"}
  <2>1. evaluationResults = {NotReadyDetails}
    BY <1>1 DEF evaluationResults
  <2>2. NotReadyDetails.value = FALSE
    BY DEF NotReadyDetails
  <2> QED
    BY <1>1, <2>1, <2>2 DEF Results
<1>2. CASE provider = "ready"
  <2>1. evaluationResults = IF config THEN Evaluations ELSE WithdrawnDetails
    BY <1>2 DEF evaluationResults
  <2>2. NotReadyDetails \notin WithdrawnDetails
    BY DEF NotReadyDetails, WithdrawnDetails
  <2> QED
    BY <1>2, <2>1, <2>2, ShortCircuitAssumption DEF Results
<1>3. CASE provider \notin {"unregistered", "initializing", "ready"}
  <2>1. evaluationResults = Results
    BY <1>3 DEF evaluationResults
  <2> QED
    BY <1>3, <2>1
<1> QED
  BY <1>1, <1>2, <1>3

\* No refusal of the handler's own is a 503.
LEMMA NotUnavailable ==
    \A status \in Deflections \cup {StatusBadRequest, StatusRequestEntityTooLarge} :
        status # StatusServiceUnavailable
  BY DEF Deflections, StatusBadRequest, StatusRequestEntityTooLarge, StatusServiceUnavailable

\* The answers the handler builds itself.
LEMMA RefusalType ==
    ASSUME NEW status \in Statuses \cup Deflections,
           NEW code \in ErrorCodes \cup {""},
           NEW outcome \in Outcomes \cup {"uncounted"}
    PROVE  LET a == Respond(Failure(status, code, outcome, {}), FALSE)
           IN  /\ a \in Answers
               /\ a.status = status /\ a.outcome = outcome
               /\ ~a.value /\ ~a.retry
  BY DEF Respond, Failure, Answers

LEMMA UnavailableType ==
    ASSUME NEW code \in ErrorCodes, NEW outcome \in Outcomes
    PROVE  LET a == Respond(Failure(StatusServiceUnavailable, code, outcome, {}), TRUE)
           IN  /\ a \in Answers
               /\ a.status = StatusServiceUnavailable /\ a.outcome = outcome
               /\ a.value = FALSE /\ a.retry = TRUE
<1>1. StatusServiceUnavailable \in Statuses
  BY DEF Statuses
<1> QED
  BY <1>1 DEF Respond, Failure, Answers

\* The answers the client's results become, which hold no value of their own.
LEMMA ResultType ==
    ASSUME NEW d \in Results, NEW retry \in BOOLEAN
    PROVE  LET a == Respond(mapResult(d), retry)
           IN  /\ a \in Answers
               /\ a.status = mapResult(d).status /\ a.outcome \in Outcomes
               /\ a.value => d.value
               /\ a.retry = retry
<1>1. d \in Details
  BY ResultsAreDetails
<1>2. PICK q : q = mapResult(d)
  OBVIOUS
<1>3. q \in Responses /\ NoInventedValue(d, q)
  BY <1>1, <1>2, ResponseType, ValuesAreReal, Zenon
<1>4. /\ Respond(q, retry) \in Answers
      /\ Respond(q, retry).status = q.status
      /\ Respond(q, retry).outcome \in Outcomes
      /\ Respond(q, retry).value = q.value
      /\ Respond(q, retry).retry = retry
  <2>1. /\ q.status \in Statuses /\ q.code \in ErrorCodes \cup {""}
        /\ q.outcome \in Outcomes /\ q.reason \in OfrepReasons \cup {""}
        /\ q.value \in BOOLEAN /\ q.metadata \in SUBSET MetadataKinds
    BY <1>3 DEF Responses, Outcomes
  <2> QED
    BY <2>1 DEF Respond, Answers
<1> QED
  BY <1>2, <1>3, <1>4, Zenon DEF NoInventedValue

\* Counting under any key keeps a family of counters one.
LEMMA CountingType ==
    ASSUME NEW S, NEW f \in [S -> Nat], NEW o
    PROVE  [f EXCEPT ![o] = f[o] + 1] \in [S -> Nat]
<1> DEFINE g == [f EXCEPT ![o] = f[o] + 1]
<1>1. ASSUME NEW x \in S
      PROVE  g[x] \in Nat
  BY DEF g
<1> QED
  BY <1>1

------------------------------------------------------------------------------
(* The steps of one request *)

\* A request's step touches no other request.
LEMMA OtherRequests ==
    ASSUME HandlerTypeOK, NEW r \in Requests, Request(r) \/ Arrive(r),
           NEW q \in Requests, q # r
    PROVE  /\ at'[q] = at[q] /\ answer'[q] = answer[q]
           /\ worker'[q] = worker[q] /\ result'[q] = result[q]
           /\ exposure'[q] = exposure[q] /\ promised'[q] = promised[q]
<1> USE DEF HandlerTypeOK, Request, Handle, Arrive, Deflect, CheckStopped, Decode, CheckState,
            ReceiveResult, ContextDone, selectUnchanged, Observe, ReportFailure, Evaluate,
            SendResult, TimeoutFires, ClientGone
<1>1. at'[q] = at[q]
  BY DEF Step
<1>2. answer'[q] = answer[q]
  BY DEF Answer
<1>3. worker'[q] = worker[q] /\ result'[q] = result[q]
  OBVIOUS
<1>4. exposure'[q] = exposure[q] /\ promised'[q] = promised[q]
  OBVIOUS
<1> QED
  BY <1>1, <1>2, <1>3, <1>4

\* What is known of a request stays known while it does not move itself.
LEMMA Untouched ==
    ASSUME OfrepInv, [BridgeNext]_bridgeVars, NEW q \in Requests,
           at'[q] = at[q], answer'[q] = answer[q], worker'[q] = worker[q],
           result'[q] = result[q], promised'[q] = promised[q],
           \/ exposure'[q] \in {exposure[q], "offered"}
           \/ stop' \notin {"idle", "flushing"}
    PROVE  RequestInv(q)'
<1>1. RequestInv(q)
  BY DEF OfrepInv, HandlersInv
<1>2. /\ state # "none" => state' # "none"
      /\ state \in {"ready", "shutting_down"} => state' \in {"ready", "shutting_down"}
      /\ state = "shutting_down" => state' = "shutting_down"
      /\ readyAt => readyAt'
      /\ stop' \in {"idle", "flushing"} => stop \in {"idle", "flushing"}
  BY BridgeMovesForward DEF OfrepInv
<1>3. Answered(q)' => Answered(q)
  BY DEF Answered
<1>4. AnswerInv(q) => AnswerInv(q)'
  BY Zenon DEF AnswerInv
<1> QED
  BY <1>1, <1>2, <1>3, <1>4, Zenon DEF RequestInv

\* The handler answers: with no value of its own, and as not ready only a
\* request it promised nothing or whose worker is done.
LEMMA Answering ==
    ASSUME OfrepInv, NEW r \in Requests, NEW a \in Answers, NEW p \in Points, NEW t \in Points,
           Step(r, p, t), p \in Points \ {"idle", "answered", "observed", "finished"},
           t \in {"answered", "finished"},
           answer' = [answer EXCEPT ![r] = a],
           a.retry <=> a.status = StatusServiceUnavailable,
           a.value => worker[r] = "done" /\ result[r].value,
           a.outcome = "not_ready" /\ promised[r] => worker[r] = "done",
           t # "finished" => a.outcome \in Outcomes,
           UNCHANGED <<bridgeVars, stopped, worker, result, expired, gone, exposure, promised>>
    PROVE  HandlerTypeOK' /\ RequestInv(r)'
<1>0. HandlerTypeOK /\ RequestInv(r)
  BY DEF OfrepInv, HandlersInv
<1>1. at' = [at EXCEPT ![r] = t]
  BY DEF Step
<1>2. at'[r] = t /\ answer'[r] = a
  BY <1>0, <1>1 DEF HandlerTypeOK
<1>3. HandlerTypeOK'
  BY <1>0, <1>1 DEF HandlerTypeOK
<1>4. AnswerInv(r)'
  BY <1>2, Zenon DEF AnswerInv
<1>5. UNCHANGED <<readyAt, state, stop, worker, result, exposure, promised>>
  BY DEF bridgeVars
<1>6. at'[r] \notin {"idle", "entered", "decoding", "decoded"}
  BY <1>2
<1>7. state # "none"
  BY <1>0 DEF RequestInv, Step
<1> QED
  BY <1>0, <1>3, <1>4, <1>5, <1>6, <1>7, Zenon DEF RequestInv

\* The handler moves on without a word to the caller.
LEMMA Advancing ==
    ASSUME OfrepInv, NEW r \in Requests, NEW p \in Points, NEW t \in Points,
           Step(r, p, t), state # "none",
           \/ t \in {"entered", "decoding", "decoded"}
              /\ p \in {"idle", "entered", "decoding"}
           \/ t \in {"observed", "finished"} /\ p \in {"answered", "observed"},
           promised' \in [Requests -> BOOLEAN],
           promised'[r] => (readyAt /\ t # "entered"),
           Answered(r) => promised'[r] = promised[r],
           UNCHANGED <<answer, stopped, worker, result, expired, gone, exposure>>,
           UNCHANGED <<readyAt, state, stop>>
    PROVE  HandlerTypeOK' /\ RequestInv(r)'
<1>0. HandlerTypeOK /\ RequestInv(r)
  BY DEF OfrepInv, HandlersInv
<1>1. at[r] = p /\ at' = [at EXCEPT ![r] = t]
  BY DEF Step
<1>2. at'[r] = t
  BY <1>0, <1>1 DEF HandlerTypeOK
<1>3. HandlerTypeOK'
  BY <1>0, <1>1 DEF HandlerTypeOK
<1>4. CASE t \in {"entered", "decoding", "decoded"} /\ p \in {"idle", "entered", "decoding"}
  <2>1. worker[r] = "none" /\ ~Answered(r)' /\ t # "idle"
    BY <1>0, <1>1, <1>2, <1>4 DEF RequestInv, Answered
  <2> QED
    BY <1>0, <1>2, <1>3, <2>1 DEF RequestInv
<1>5. CASE t \in {"observed", "finished"} /\ p \in {"answered", "observed"}
  <2>1. Answered(r) /\ Answered(r)' /\ at[r] # "finished"
    BY <1>1, <1>2, <1>5 DEF Answered
  <2>2. promised'[r] = promised[r]
    BY <2>1
  <2>3. AnswerInv(r)'
    BY <1>0, <2>1, <2>2, Zenon DEF RequestInv, AnswerInv
  <2>4. at'[r] \notin {"idle", "entered", "decoding", "decoded"}
    BY <1>2, <1>5
  <2> QED
    BY <1>0, <1>3, <2>2, <2>3, <2>4, Zenon DEF RequestInv
<1> QED
  BY <1>4, <1>5

\* Every step of a request's goroutines preserves its invariant and the types.
LEMMA RequestStep ==
    ASSUME OfrepInv, NEW r \in Requests, Request(r)
    PROVE  HandlerTypeOK' /\ RequestInv(r)'
<1>0. /\ HandlerTypeOK /\ RequestInv(r) /\ StampInv
      /\ BridgeInv /\ BridgeTypeOK
  BY DEF OfrepInv, HandlersInv, BridgeInv
<1>1. CASE Deflect(r)
  <2>1. PICK status \in Deflections, code \in ErrorCodes \cup {""} :
            Answer(r, Failure(status, code, "uncounted", {}), FALSE)
    BY <1>1, "GENERAL" \in ErrorCodes DEF Deflect, ErrorCodes
  <2> DEFINE a == Respond(Failure(status, code, "uncounted", {}), FALSE)
  <2>2. status # StatusServiceUnavailable
    BY NotUnavailable, Zenon
  <2>3. a \in Answers /\ a.status = status /\ a.outcome = "uncounted" /\ ~a.value /\ ~a.retry
    <3>1. "uncounted" \in Outcomes \cup {"uncounted"} /\ status \in Statuses \cup Deflections
      OBVIOUS
    <3> QED
      BY <3>1, RefusalType, Zenon
  <2>4. answer' = [answer EXCEPT ![r] = a]
    BY <2>1 DEF Answer
  <2> HIDE DEF a
  <2>5. /\ Step(r, "entered", "finished")
        /\ UNCHANGED <<bridgeVars, stopped, worker, result, expired, gone, exposure, promised>>
    BY <1>1 DEF Deflect
  <2> QED
    BY <2>2, <2>3, <2>4, <2>5, Answering DEF Points
<1>2. CASE CheckStopped(r)
  <2>1. CASE stopped
    <3> DEFINE a == Respond(Failure(StatusServiceUnavailable, "GENERAL", "not_ready", {}), TRUE)
    <3>1. /\ a \in Answers /\ a.status = StatusServiceUnavailable /\ a.outcome = "not_ready"
          /\ a.value = FALSE /\ a.retry = TRUE
      BY UnavailableType, Zenon DEF ErrorCodes, Outcomes
    <3>2. answer' = [answer EXCEPT ![r] = a]
      BY <1>2, <2>1 DEF CheckStopped, Answer, Unavailable
    <3> HIDE DEF a
    <3>3. /\ Step(r, "entered", "answered")
          /\ UNCHANGED <<bridgeVars, stopped, worker, result, expired, gone, exposure, promised>>
      BY <1>2, <2>1 DEF CheckStopped
    <3>4. ~promised[r]
      BY <1>0, <3>3 DEF RequestInv, Step
    <3> QED
      BY <3>1, <3>2, <3>3, <3>4, Answering DEF Points, Outcomes
  <2>2. CASE ~stopped
    <3>1. /\ Step(r, "entered", "decoding")
          /\ promised' = [promised EXCEPT ![r] = readyAt]
          /\ UNCHANGED <<answer, stopped, worker, result, expired, gone, exposure>>
          /\ UNCHANGED <<readyAt, state, stop>>
      BY <1>2, <2>2 DEF CheckStopped, bridgeVars
    <3>2. promised' \in [Requests -> BOOLEAN] /\ (promised'[r] => readyAt)
      BY <1>0, <3>1 DEF HandlerTypeOK, BridgeTypeOK
    <3>3. ~Answered(r) /\ state # "none"
      BY <1>0, <3>1 DEF Answered, Step, RequestInv
    <3> QED
      BY <3>1, <3>2, <3>3, Advancing DEF Points
  <2> QED
    BY <2>1, <2>2
<1>3. CASE Decode(r)
  <2>1. CASE Step(r, "decoding", "decoded") /\ UNCHANGED answer
    <3>1. /\ UNCHANGED <<answer, stopped, worker, result, expired, gone, exposure, promised>>
          /\ UNCHANGED <<readyAt, state, stop>>
      BY <1>3, <2>1 DEF Decode, bridgeVars
    <3>2. /\ promised' \in [Requests -> BOOLEAN] /\ (promised'[r] => readyAt)
          /\ state # "none"
      BY <1>0, <2>1, <3>1 DEF HandlerTypeOK, RequestInv, Step
    <3> QED
      BY <2>1, <3>1, <3>2, Advancing DEF Points
  <2>2. CASE ~(Step(r, "decoding", "decoded") /\ UNCHANGED answer)
    <3>1. PICK refused \in {<<StatusBadRequest, "INVALID_CONTEXT">>,
                            <<StatusRequestEntityTooLarge, "PARSE_ERROR">>} :
              /\ Step(r, "decoding", "answered")
              /\ Answer(r, Failure(refused[1], refused[2], "invalid_request", {}), FALSE)
      BY <1>3, <2>2 DEF Decode
    <3>2. PICK status \in Statuses, code \in ErrorCodes \cup {""} :
              status = refused[1] /\ code = refused[2] /\ status # StatusServiceUnavailable
      <4>1. refused[1] \in {StatusBadRequest, StatusRequestEntityTooLarge}
            /\ refused[2] \in {"INVALID_CONTEXT", "PARSE_ERROR"}
        BY <3>1
      <4>2. refused[1] \in Statuses /\ refused[2] \in ErrorCodes
        BY <4>1 DEF Statuses, ErrorCodes
      <4>3. refused[1] # StatusServiceUnavailable
        BY <4>1, NotUnavailable, Zenon
      <4> QED
        BY <4>2, <4>3, Zenon
    <3> DEFINE a == Respond(Failure(status, code, "invalid_request", {}), FALSE)
    <3>3. "invalid_request" \in Outcomes
      BY DEF Outcomes
    <3>4. a \in Answers /\ a.status = status /\ a.outcome = "invalid_request" /\ ~a.value /\ ~a.retry
      <4>1. "invalid_request" \in Outcomes \cup {"uncounted"} /\ status \in Statuses \cup Deflections
        BY <3>3
      <4> QED
        BY <4>1, RefusalType, Zenon
    <3>5. answer' = [answer EXCEPT ![r] = a]
      BY <3>1, <3>2 DEF Answer
    <3> HIDE DEF a
    <3>6. UNCHANGED <<bridgeVars, stopped, worker, result, expired, gone, exposure, promised>>
      BY <1>3 DEF Decode
    <3> QED
      BY <3>1, <3>2, <3>3, <3>4, <3>5, <3>6, Answering DEF Points
  <2> QED
    BY <2>1, <2>2
<1>4. CASE CheckState(r)
  <2>1. CASE state = "starting"
    <3> DEFINE a == Respond(Failure(StatusServiceUnavailable, "PROVIDER_NOT_READY",
                                    "not_ready", {}), TRUE)
    <3>1. /\ a \in Answers /\ a.status = StatusServiceUnavailable /\ a.outcome = "not_ready"
          /\ a.value = FALSE /\ a.retry = TRUE
      BY UnavailableType, Zenon DEF ErrorCodes, Outcomes
    <3>2. answer' = [answer EXCEPT ![r] = a]
      BY <1>4, <2>1 DEF CheckState, Answer, Unavailable
    <3> HIDE DEF a
    <3>3. /\ Step(r, "decoded", "answered")
          /\ UNCHANGED <<bridgeVars, stopped, worker, result, expired, gone, exposure, promised>>
      BY <1>4, <2>1 DEF CheckState
    <3>4. ~promised[r]
      BY <1>0, <2>1 DEF RequestInv, StampInv
    <3> QED
      BY <3>1, <3>2, <3>3, <3>4, Answering DEF Points, Outcomes
  <2>2. CASE state # "starting"
    <3>1. /\ at[r] = "decoded" /\ at' = [at EXCEPT ![r] = "evaluating"]
          /\ worker' = [worker EXCEPT ![r] = "running"]
          /\ UNCHANGED <<stopped, answer, result, expired, gone, exposure, promised>>
          /\ UNCHANGED <<readyAt, state, stop>>
      BY <1>4, <2>2 DEF CheckState, Step, bridgeVars
    <3>2. HandlerTypeOK'
      BY <1>0, <3>1 DEF HandlerTypeOK, Points
    <3>3. at'[r] = "evaluating" /\ worker'[r] = "running"
      BY <1>0, <3>1 DEF HandlerTypeOK
    <3>4. state \in {"ready", "shutting_down"} \/ state = "none"
      BY <1>0, <2>2 DEF BridgeTypeOK, States
    <3>5. state # "none"
      BY <1>0, <3>1 DEF RequestInv
    <3>6. ~Answered(r)'
      BY <3>3 DEF Answered
    <3> QED
      BY <1>0, <3>1, <3>2, <3>3, <3>4, <3>5, <3>6 DEF RequestInv
  <2> QED
    BY <2>1, <2>2
<1>5. CASE ReceiveResult(r)
  <2>1. /\ worker[r] = "done"
        /\ Step(r, "evaluating", "answered")
        /\ UNCHANGED <<bridgeVars, stopped, worker, result, expired, gone, exposure, promised>>
    BY <1>5 DEF ReceiveResult, selectUnchanged
  <2>2. result[r] \in Results
    BY <1>0, <2>1 DEF RequestInv
  <2> DEFINE retry == mapResult(result[r]).status = StatusServiceUnavailable
             a == Respond(mapResult(result[r]), retry)
  <2>3. answer' = [answer EXCEPT ![r] = a]
    BY <1>5, Zenon DEF ReceiveResult, Answer
  <2>4. retry \in BOOLEAN
    OBVIOUS
  <2>5. /\ a \in Answers
        /\ a.status = mapResult(result[r]).status /\ a.outcome \in Outcomes
        /\ a.value => result[r].value
        /\ a.retry = retry
    BY <2>2, <2>4, ResultType, Zenon
  <2>6. a.retry <=> a.status = StatusServiceUnavailable
    BY <2>5, Zenon
  <2>7. a.value => worker[r] = "done" /\ result[r].value
    BY <2>1, <2>5, Zenon
  <2> HIDE DEF a, retry
  <2> QED
    BY <2>1, <2>3, <2>5, <2>6, <2>7, Answering DEF Points
<1>6. CASE ContextDone(r)
  <2> DEFINE a == Respond(Failure(StatusServiceUnavailable, "GENERAL", "timeout", {}), TRUE)
  <2>1. /\ a \in Answers /\ a.status = StatusServiceUnavailable /\ a.outcome = "timeout"
        /\ a.value = FALSE /\ a.retry = TRUE
    BY UnavailableType, Zenon DEF ErrorCodes, Outcomes
  <2>2. answer' = [answer EXCEPT ![r] = a]
    BY <1>6 DEF ContextDone, Answer, Unavailable
  <2> HIDE DEF a
  <2>3. /\ Step(r, "evaluating", "answered")
        /\ UNCHANGED <<bridgeVars, stopped, worker, result, expired, gone, exposure, promised>>
    BY <1>6 DEF ContextDone, selectUnchanged
  <2> QED
    BY <2>1, <2>2, <2>3, Answering DEF Points, Outcomes
<1>7. CASE Observe(r) \/ ReportFailure(r)
  <2>1. PICK p \in {"answered", "observed"}, t \in {"observed", "finished"} : Step(r, p, t)
    BY <1>7 DEF Observe, ReportFailure
  <2>2. /\ UNCHANGED <<answer, stopped, worker, result, expired, gone, exposure, promised>>
        /\ UNCHANGED <<readyAt, state, stop>>
    BY <1>7 DEF Observe, ReportFailure, bridgeVars
  <2>3. /\ promised' \in [Requests -> BOOLEAN] /\ (promised'[r] => readyAt)
        /\ state # "none"
    BY <1>0, <2>1, <2>2 DEF HandlerTypeOK, RequestInv, Step
  <2> QED
    BY <2>1, <2>2, <2>3, Advancing DEF Points
<1>8. CASE Evaluate(r)
  <2>1. PICK d \in evaluationResults, logged \in BOOLEAN :
          /\ result' = [result EXCEPT ![r] = d]
          /\ exposure' = [exposure EXCEPT ![r] =
                IF ~(d.value /\ logged) THEN exposure[r]
                ELSE IF provider = "ready" THEN "buffered" ELSE "stranded"]
    BY <1>8, Zenon DEF Evaluate
  <2>2. /\ worker[r] = "running"
        /\ worker' = [worker EXCEPT ![r] = "sending"]
        /\ UNCHANGED <<bridgeVars, stopped, at, answer, expired, gone, promised>>
    BY <1>8 DEF Evaluate
  <2>3. /\ d \in Results
        /\ provider \in {"unregistered", "initializing"} => d.value = FALSE
        /\ provider = "ready" => d # NotReadyDetails
    BY EvaluationResults
  <2>4. PICK e \in Exposures :
          /\ exposure' = [exposure EXCEPT ![r] = e]
          /\ stop \in {"idle", "flushing"} => e # "stranded"
    <3> DEFINE e == IF ~(d.value /\ logged) THEN exposure[r]
                    ELSE IF provider = "ready" THEN "buffered" ELSE "stranded"
    <3>1. e \in Exposures
      BY <1>0 DEF HandlerTypeOK, Exposures
    <3>2. ASSUME stop \in {"idle", "flushing"}
          PROVE  e # "stranded"
      <4>1. provider # "shut"
        BY <1>0, <3>2 DEF BridgeInv, ProviderInv
      <4>2. d.value => provider = "ready"
        BY <1>0, <2>3, <4>1 DEF BridgeTypeOK
      <4>3. exposure[r] # "stranded"
        BY <1>0, <3>2 DEF RequestInv
      <4> QED
        BY <4>2, <4>3
    <3> HIDE DEF e
    <3>3. exposure' = [exposure EXCEPT ![r] = e]
      BY <2>1 DEF e
    <3> QED
      BY <3>1, <3>2, <3>3
  <2>5. HandlerTypeOK'
    BY <1>0, <2>1, <2>2, <2>3, <2>4 DEF HandlerTypeOK
  <2>6. worker'[r] = "sending" /\ result'[r] = d /\ exposure'[r] = e
    BY <1>0, <2>1, <2>2, <2>4 DEF HandlerTypeOK
  <2>7. UNCHANGED <<readyAt, state, stop>>
    BY <2>2 DEF bridgeVars
  <2>8. d = NotReadyDetails => state = "shutting_down"
    <3>1. state \in {"ready", "shutting_down"}
      BY <1>0, <2>2 DEF RequestInv
    <3>2. state = "ready" => provider = "ready"
      BY <1>0 DEF BridgeInv, BridgeTypeOK, BuiltInv, ProviderInv, ReadyInv
    <3> QED
      BY <2>3, <3>1, <3>2
  <2>9. at'[r] \notin {"idle", "entered", "decoding", "decoded"}
    BY <1>0, <2>2 DEF RequestInv
  <2>10. AnswerInv(r) => AnswerInv(r)'
    <3>1. ASSUME AnswerInv(r)
          PROVE  /\ ~answer[r].value
                 /\ ~(answer[r].outcome = "not_ready" /\ promised[r])
                 /\ answer'[r] = answer[r]
      BY <2>2, <3>1 DEF AnswerInv
    <3> QED
      BY <2>2, <3>1, Zenon DEF AnswerInv
  <2>11. Answered(r)' => Answered(r)
    BY <2>2 DEF Answered
  <2> QED
    BY <1>0, <2>2, <2>3, <2>4, <2>5, <2>6, <2>7, <2>8, <2>9, <2>10, <2>11, Zenon DEF RequestInv
<1>9. CASE TimeoutFires(r) \/ ClientGone(r)
  <2>1. UNCHANGED <<bridgeVars, stopped, at, answer, worker, result, exposure, promised>>
    BY <1>9 DEF TimeoutFires, ClientGone
  <2>2. expired' \in [Requests -> BOOLEAN] /\ gone' \in [Requests -> BOOLEAN]
    BY <1>0, <1>9 DEF TimeoutFires, ClientGone, HandlerTypeOK
  <2>3. HandlerTypeOK'
    BY <1>0, <2>1, <2>2 DEF HandlerTypeOK
  <2> QED
    BY <2>1, <2>3, Untouched
<1>10. CASE SendResult(r)
  <2>1. /\ worker[r] = "sending"
        /\ worker' = [worker EXCEPT ![r] = "done"]
        /\ UNCHANGED <<bridgeVars, stopped, at, answer, result, expired, gone, exposure, promised>>
    BY <1>10 DEF SendResult
  <2>2. HandlerTypeOK' /\ worker'[r] = "done"
    BY <1>0, <2>1 DEF HandlerTypeOK
  <2>3. UNCHANGED <<readyAt, state, stop>>
    BY <2>1 DEF bridgeVars
  <2>4. AnswerInv(r) => AnswerInv(r)'
    BY <2>1, <2>2, Zenon DEF AnswerInv
  <2>5. Answered(r)' => Answered(r)
    BY <2>1 DEF Answered
  <2> QED
    BY <1>0, <2>1, <2>2, <2>3, <2>4, <2>5, Zenon DEF RequestInv
<1> QED
  BY <1>1, <1>2, <1>3, <1>4, <1>5, <1>6, <1>7, <1>8, <1>9, <1>10 DEF Request, Handle
------------------------------------------------------------------------------
(* The invariant *)

LEMMA OfrepInvInit == OfrepInit => OfrepInv
<1> SUFFICES ASSUME OfrepInit
             PROVE  OfrepInv
  OBVIOUS
<1>1. BridgeInv
  BY BridgeInvInit DEF OfrepInit
<1>2. MetricsTypeOK
  BY DEF OfrepInit, MetricsInit, MetricsTypeOK, ErrorSources
<1>3. HandlerTypeOK
  BY DEF OfrepInit, HandlerInit, HandlerTypeOK, Points, Exposures
<1>4. StampInv
  BY DEF OfrepInit, BridgeInit, StampInv
<1>5. HandlersInv
  BY DEF OfrepInit, HandlerInit, HandlersInv, RequestInv, Answered, NoResult, NotReadyDetails
<1> QED
  BY <1>1, <1>2, <1>3, <1>4, <1>5 DEF OfrepInv

\* The counters count whatever they count: their type survives every step.
LEMMA MetricsStep ==
    ASSUME OfrepInv, [OfrepNext]_ofrepVars
    PROVE  MetricsTypeOK'
<1>1. BridgeTypeOK'
  BY OfrepRefinesBridge, BridgeInvStep DEF OfrepInv, BridgeInv
<1>2. evaluations \in [Outcomes -> Nat]
  BY DEF OfrepInv, MetricsTypeOK
<1>3. CASE evaluations' = evaluations
  BY <1>1, <1>2, <1>3 DEF MetricsTypeOK, BridgeTypeOK
<1>4. ASSUME NEW r \in Requests, Observe(r)
      PROVE  MetricsTypeOK'
  <2>1. evaluations' = [evaluations EXCEPT ![answer[r].outcome] = @ + 1]
    BY <1>4 DEF Observe, ObserveEvaluation
  <2>2. evaluations' \in [Outcomes -> Nat]
    BY <1>2, <2>1, CountingType, Zenon
  <2> QED
    BY <1>1, <2>2 DEF MetricsTypeOK, BridgeTypeOK
<1>5. \/ evaluations' = evaluations
      \/ \E r \in Requests : Observe(r)
  BY DEF OfrepNext, Arrive, Request, Handle, Deflect, CheckStopped, Decode, CheckState,
         ReceiveResult, ContextDone, selectUnchanged, ReportFailure, Evaluate, SendResult, TimeoutFires,
         ClientGone, besideHandlers, StopServing, FlushExposures, PeriodicFlush
<1> QED
  BY <1>3, <1>4, <1>5

\* A step of the handlers, the bridge and its flush preserves the invariant.
LEMMA OfrepInvStep == OfrepInv /\ [OfrepNext]_ofrepVars => OfrepInv'
<1> SUFFICES ASSUME OfrepInv, [OfrepNext]_ofrepVars
             PROVE  OfrepInv'
  OBVIOUS
<1>0. [BridgeNext]_bridgeVars
  BY OfrepRefinesBridge
<1>1. MetricsTypeOK' /\ BridgeInv' /\ StampInv'
  BY <1>0, MetricsStep, BridgeInvStep, BridgeMovesForward DEF OfrepInv
<1> SUFFICES HandlerTypeOK' /\ HandlersInv'
  BY <1>1 DEF OfrepInv
<1>2. HandlerTypeOK
  BY DEF OfrepInv
<1>3. ASSUME UNCHANGED handlerVars
      PROVE  HandlerTypeOK' /\ HandlersInv'
  <2>1. HandlerTypeOK'
    BY <1>2, <1>3 DEF HandlerTypeOK
  <2> QED
    BY <1>0, <1>3, <2>1, Untouched DEF HandlersInv
<1>4. ASSUME NEW r \in Requests, Request(r) \/ Arrive(r), HandlerTypeOK', RequestInv(r)'
      PROVE  HandlerTypeOK' /\ HandlersInv'
  <2>1. ASSUME NEW q \in Requests, q # r
        PROVE  RequestInv(q)'
    <3>1. /\ at'[q] = at[q] /\ answer'[q] = answer[q]
          /\ worker'[q] = worker[q] /\ result'[q] = result[q]
          /\ exposure'[q] = exposure[q] /\ promised'[q] = promised[q]
      BY <1>2, <1>4, <2>1, OtherRequests
    <3> QED
      BY <1>0, <3>1, Untouched
  <2> QED
    BY <1>4, <2>1 DEF HandlersInv
<1>5. ASSUME NEW r \in Requests, built = "yes", Arrive(r)
      PROVE  HandlerTypeOK' /\ HandlersInv'
  <2>1. state # "none"
    BY <1>5 DEF OfrepInv, BridgeInv, BuiltInv
  <2>2. /\ Step(r, "idle", "entered")
        /\ UNCHANGED <<answer, stopped, worker, result, expired, gone, exposure, promised>>
        /\ UNCHANGED <<readyAt, state, stop>>
    BY <1>5 DEF Arrive, bridgeVars
  <2>3. promised' \in [Requests -> BOOLEAN] /\ ~promised'[r]
    BY <1>2, <2>2 DEF HandlerTypeOK, OfrepInv, HandlersInv, RequestInv, Step
  <2>4. HandlerTypeOK' /\ RequestInv(r)'
    BY <2>1, <2>2, <2>3, Advancing DEF Points
  <2> QED
    BY <1>4, <1>5, <2>4
<1>6. ASSUME NEW r \in Requests, Request(r)
      PROVE  HandlerTypeOK' /\ HandlersInv'
  BY <1>4, <1>6, RequestStep
<1>7. CASE (BridgeStep \/ BridgeStops) /\ besideHandlers
  BY <1>3, <1>7 DEF besideHandlers
<1>8. CASE StopServing
  <2>1. UNCHANGED <<at, answer, worker, result, expired, gone, exposure, promised>>
        /\ stopped' = TRUE
    BY <1>8 DEF StopServing
  <2>2. HandlerTypeOK'
    BY <1>2, <2>1 DEF HandlerTypeOK
  <2> QED
    BY <1>0, <2>1, <2>2, Untouched DEF HandlersInv
<1>9. ASSUME NEW failed \in BOOLEAN, FlushExposures(failed)
      PROVE  HandlerTypeOK' /\ HandlersInv'
  <2>1. /\ stop' = "untracing"
        /\ UNCHANGED <<stopped, at, answer, worker, result, expired, gone, promised>>
    BY <1>9 DEF FlushExposures, ShutdownProvider
  <2>2. PICK left \in SUBSET {r \in Requests : exposure[r] = "buffered"} :
          exposure' = [r \in Requests |->
              CASE r \in left -> "stranded"
                [] exposure[r] = "buffered" /\ r \notin left -> "offered"
                [] OTHER -> exposure[r]]
    BY <1>9 DEF FlushExposures
  <2>3. ASSUME NEW r \in Requests
        PROVE  exposure'[r] \in Exposures
    <3>1. CASE r \in left
      BY <2>2, <3>1 DEF Exposures
    <3>2. CASE r \notin left /\ exposure[r] = "buffered"
      BY <2>2, <3>2 DEF Exposures
    <3>3. CASE r \notin left /\ exposure[r] # "buffered"
      BY <1>2, <2>2, <3>3 DEF HandlerTypeOK
    <3> QED
      BY <3>1, <3>2, <3>3
  <2>4. exposure' \in [Requests -> Exposures]
    BY <2>2, <2>3
  <2>5. HandlerTypeOK'
    BY <1>2, <2>1, <2>4 DEF HandlerTypeOK
  <2> QED
    BY <1>0, <2>1, <2>5, Untouched DEF HandlersInv
<1>10. CASE UNCHANGED ofrepVars
  BY <1>3, <1>10
<1>11. CASE PeriodicFlush
  <2>1. /\ UNCHANGED <<stopped, at, answer, worker, result, expired, gone, promised>>
        /\ exposure' = [r \in Requests |->
              IF exposure[r] = "buffered" THEN "offered" ELSE exposure[r]]
    BY <1>11 DEF PeriodicFlush
  <2>2. \A r \in Requests : exposure'[r] \in {exposure[r], "offered"}
    BY <2>1
  <2>3. HandlerTypeOK'
    BY <1>2, <2>1, <2>2 DEF HandlerTypeOK, Exposures
  <2> QED
    BY <1>0, <2>1, <2>2, <2>3, Untouched DEF HandlersInv
<1> QED
  BY <1>5, <1>6, <1>7, <1>8, <1>9, <1>10, <1>11 DEF OfrepNext

\* The invariant holds of the handlers beside any bridge.
THEOREM OfrepInvariant == OfrepSafety => []OfrepInv
  BY OfrepInvInit, OfrepInvStep, PTL DEF OfrepSafety

------------------------------------------------------------------------------
(* The counters and the last error *)

\* Who has been counted under an outcome.
Counted(o) == {r \in Requests : at[r] \in {"observed", "finished"} /\ answer[r].outcome = o}

\* The counters and what they count move together.
LEMMA CountingStep == OfrepInv /\ CountedOnce /\ [OfrepNext]_ofrepVars => CountedOnce'
<1> SUFFICES ASSUME OfrepInv, CountedOnce, [OfrepNext]_ofrepVars
             PROVE  CountedOnce'
  OBVIOUS
<1>0. HandlerTypeOK /\ MetricsTypeOK
  BY DEF OfrepInv
<1>1. \A o \in Outcomes : evaluations[o] = Cardinality(Counted(o))
  BY DEF CountedOnce, Counted
<1>2. ASSUME evaluations' = evaluations,
             \A o \in Outcomes, q \in Requests : (q \in Counted(o))' <=> q \in Counted(o)
      PROVE  CountedOnce'
  <2>1. \A o \in Outcomes : Counted(o)' = Counted(o)
    BY <1>2 DEF Counted
  <2> QED
    BY <1>1, <1>2, <2>1 DEF CountedOnce, Counted
<1>3. ASSUME UNCHANGED <<evaluations, at, answer>>
      PROVE  CountedOnce'
  BY <1>2, <1>3 DEF Counted
<1>4. ASSUME NEW r \in Requests, Request(r) \/ Arrive(r), evaluations' = evaluations,
             at[r] \notin {"observed", "finished"},
             at'[r] \notin {"observed", "finished"} \/ answer'[r].outcome \notin Outcomes
      PROVE  CountedOnce'
  <2>1. ASSUME NEW q \in Requests, q # r
        PROVE  at'[q] = at[q] /\ answer'[q] = answer[q]
    BY <1>0, <1>4, <2>1, OtherRequests
  <2> QED
    BY <1>2, <1>4, <2>1 DEF Counted
<1>5. ASSUME NEW r \in Requests, Arrive(r)
      PROVE  CountedOnce'
  <2>1. evaluations' = evaluations /\ at[r] = "idle" /\ at'[r] = "entered"
    BY <1>0, <1>5 DEF Arrive, Step, HandlerTypeOK
  <2> QED
    BY <1>4, <1>5, <2>1
<1>6. ASSUME NEW r \in Requests, Deflect(r)
      PROVE  CountedOnce'
  <2>1. PICK status \in Deflections, code \in ErrorCodes \cup {""} :
            Answer(r, Failure(status, code, "uncounted", {}), FALSE)
    BY <1>6, "GENERAL" \in ErrorCodes DEF Deflect, ErrorCodes
  <2>2. answer'[r].outcome = "uncounted"
    BY <1>0, <2>1 DEF HandlerTypeOK, Answer, Respond, Failure
  <2>3. evaluations' = evaluations /\ at[r] = "entered"
    BY <1>6 DEF Deflect, Step
  <2>4. "uncounted" \notin Outcomes
    BY DEF Outcomes
  <2> QED
    BY <1>4, <1>6, <2>2, <2>3, <2>4 DEF Request, Handle
<1>7. ASSUME NEW r \in Requests,
             CheckStopped(r) \/ Decode(r) \/ CheckState(r) \/ ReceiveResult(r) \/ ContextDone(r)
      PROVE  CountedOnce'
  <2>1. /\ evaluations' = evaluations
        /\ at[r] \in {"entered", "decoding", "decoded", "evaluating"}
        /\ at'[r] \in {"decoding", "decoded", "evaluating", "answered"}
    BY <1>0, <1>7
       DEF CheckStopped, Decode, CheckState, ReceiveResult, ContextDone, selectUnchanged, Step,
           HandlerTypeOK
  <2> QED
    BY <1>4, <1>7, <2>1 DEF Request, Handle
<1>8. ASSUME NEW r \in Requests, Observe(r)
      PROVE  CountedOnce'
  <2>1. at[r] = "answered" /\ at' = [at EXCEPT ![r] = "observed"] /\ answer' = answer
    BY <1>8 DEF Observe, Step
  <2>2. PICK outcome \in Outcomes :
            /\ answer[r].outcome = outcome
            /\ evaluations' = [evaluations EXCEPT ![outcome] = evaluations[outcome] + 1]
    <3>1. answer[r].outcome \in Outcomes
      BY <2>1 DEF OfrepInv, HandlersInv, RequestInv, AnswerInv, Answered
    <3> QED
      BY <1>8, <3>1 DEF Observe, ObserveEvaluation
  <2>3. /\ Counted(outcome)' = Counted(outcome) \cup {r}
        /\ \A o \in Outcomes \ {outcome} : Counted(o)' = Counted(o)
        /\ r \notin Counted(outcome)
    BY <1>0, <2>1, <2>2 DEF Counted, HandlerTypeOK
  <2>4. IsFiniteSet(Counted(outcome))
    BY RequestsAssumption, FS_Subset DEF Counted
  <2>5. Cardinality(Counted(outcome)') = Cardinality(Counted(outcome)) + 1
    BY <2>3, <2>4, FS_AddElement
  <2>6. /\ evaluations'[outcome] = evaluations[outcome] + 1
        /\ \A o \in Outcomes \ {outcome} : evaluations'[o] = evaluations[o]
    BY <1>0, <2>1, <2>2 DEF MetricsTypeOK
  <2>7. ASSUME NEW o \in Outcomes
        PROVE  evaluations'[o] = Cardinality(Counted(o)')
    <3>1. CASE o = outcome
      BY <1>1, <2>2, <2>5, <2>6, <3>1
    <3>2. CASE o # outcome
      BY <1>1, <2>3, <2>6, <3>2
    <3> QED
      BY <3>1, <3>2
  <2> QED
    BY <2>7 DEF CountedOnce, Counted
<1>9. ASSUME NEW r \in Requests, ReportFailure(r)
      PROVE  CountedOnce'
  <2>1. /\ at[r] = "observed" /\ at' = [at EXCEPT ![r] = "finished"]
        /\ UNCHANGED <<evaluations, answer>>
    BY <1>9 DEF ReportFailure, Step
  <2> QED
    BY <1>0, <1>2, <2>1 DEF Counted, HandlerTypeOK
<1>10. ASSUME NEW r \in Requests,
              Evaluate(r) \/ SendResult(r) \/ TimeoutFires(r) \/ ClientGone(r)
       PROVE  CountedOnce'
  BY <1>3, <1>10 DEF Evaluate, SendResult, TimeoutFires, ClientGone
<1>11. CASE (BridgeStep \/ BridgeStops) /\ besideHandlers
  BY <1>3, <1>11 DEF besideHandlers
<1>12. CASE StopServing \/ PeriodicFlush \/ \E failed \in BOOLEAN : FlushExposures(failed)
  BY <1>3, <1>12 DEF StopServing, PeriodicFlush, FlushExposures
<1>13. CASE UNCHANGED ofrepVars
  BY <1>3, <1>13
<1> QED
  BY <1>5, <1>6, <1>7, <1>8, <1>9, <1>10, <1>11, <1>12, <1>13 DEF OfrepNext, Request, Handle
\* A request that is finished stays finished, with its answer.
LEMMA FinishedStays ==
    ASSUME HandlerTypeOK, [OfrepNext]_ofrepVars, NEW q \in Requests, at[q] = "finished"
    PROVE  at'[q] = "finished" /\ answer'[q] = answer[q]
<1>1. CASE UNCHANGED <<at, answer>>
  BY <1>1
<1>2. ASSUME NEW r \in Requests, Request(r) \/ Arrive(r)
      PROVE  at'[q] = "finished" /\ answer'[q] = answer[q]
  <2>1. CASE q # r
    BY <1>2, <2>1, OtherRequests
  <2>2. CASE q = r
    <3>1. UNCHANGED <<at, answer>>
      BY <1>2, <2>2
         DEF Request, Handle, Arrive, Deflect, CheckStopped, Decode, CheckState, ReceiveResult,
             ContextDone, Observe, ReportFailure, Evaluate, SendResult, TimeoutFires, ClientGone, Step
    <3> QED
      BY <3>1
  <2> QED
    BY <2>1, <2>2
<1> QED
  BY <1>1, <1>2 DEF OfrepNext, besideHandlers, StopServing, FlushExposures, PeriodicFlush

\* Nothing but a failed evaluation leaves a last error of its kind.
LEMMA LastErrorStep ==
    OfrepInv /\ LastErrorIsFailure /\ [OfrepNext]_ofrepVars => LastErrorIsFailure'
<1> SUFFICES ASSUME OfrepInv, LastErrorIsFailure, [OfrepNext]_ofrepVars, lastError' = "evaluation"
             PROVE  \E q \in Requests : at'[q] = "finished"
                                        /\ answer'[q].outcome \in {"error", "timeout"}
  BY DEF LastErrorIsFailure
<1>0. HandlerTypeOK
  BY DEF OfrepInv
<1>1. CASE lastError = "evaluation"
  BY <1>0, <1>1, FinishedStays DEF LastErrorIsFailure
<1>2. CASE lastError # "evaluation"
  <2>1. PICK r \in Requests : Request(r)
    <3>1. ASSUME BridgeStep \/ BridgeStops
          PROVE  lastError' # "evaluation"
      BY <1>2, <3>1
         DEF BridgeStep, BridgeStops, New, StartTracer, NewProvider, RefuseProvider, newUnchanged,
             Start, RegisterProvider, ProviderInitialized, StartFails, BecomeReady, AnnounceReady,
             startUnchanged, RemoteConfig, DeliverConfig, WithdrawConfig, InitializeProvider,
             externalUnchanged, BeginShutdown, ShutdownBegins, StopTracer, RecordError
    <3> QED
      BY <1>2, <3>1
         DEF OfrepNext, Arrive, StopServing, FlushExposures, ShutdownProvider, PeriodicFlush,
             bridgeVars
  <2>2. ReportFailure(r)
    BY <1>2, <2>1
       DEF Request, Handle, Deflect, CheckStopped, Decode, CheckState, ReceiveResult, ContextDone,
           selectUnchanged, Observe, Evaluate, SendResult, TimeoutFires, ClientGone, bridgeVars
  <2>3. /\ answer[r].outcome \in {"error", "timeout"} /\ answer' = answer
        /\ at'[r] = "finished"
    BY <1>0, <1>2, <2>2 DEF ReportFailure, HandlerTypeOK, Step
  <2> QED
    BY <2>3
<1> QED
  BY <1>1, <1>2

------------------------------------------------------------------------------
(* Theorems *)

\* Type correctness.
THEOREM OfrepTypeCorrect == OfrepSafety => [](BridgeTypeOK /\ HandlerTypeOK)
<1>1. OfrepInv => BridgeTypeOK /\ HandlerTypeOK
  BY DEF OfrepInv, BridgeInv
<1> QED
  BY <1>1, OfrepInvariant, PTL

\* The counters count every request once, however many there are (Observe).
THEOREM RequestsAreCountedOnce == OfrepSafety => []CountedOnce
<1>1. OfrepInit => CountedOnce
  <2> SUFFICES ASSUME OfrepInit, NEW o \in Outcomes
               PROVE  evaluations[o] = Cardinality(Counted(o))
    BY DEF CountedOnce, Counted
  <2>1. Counted(o) = {}
    BY DEF OfrepInit, HandlerInit, Counted
  <2> QED
    BY <2>1, FS_EmptySet DEF OfrepInit, MetricsInit
<1> QED
  BY <1>1, CountingStep, OfrepInvariant, PTL DEF OfrepSafety

\* A 503 asks for a retry and nothing else does (retryAfter).
THEOREM RetriesAreInvited == OfrepSafety => []RetryAfterOnEvery503
<1>1. OfrepInv => RetryAfterOnEvery503
  BY DEF OfrepInv, HandlersInv, RequestInv, AnswerInv, RetryAfterOnEvery503
<1> QED
  BY <1>1, OfrepInvariant, PTL

\* The drain refuses no request it let in (BeginShutdown, evaluate).
THEOREM DrainServes == OfrepSafety => []DrainKeepsServing
<1>1. OfrepInv => DrainKeepsServing
  BY DEF OfrepInv, HandlersInv, RequestInv, AnswerInv, DrainKeepsServing
<1> QED
  BY <1>1, OfrepInvariant, PTL

\* The short circuit answers nobody but a process that is going (evaluate).
THEOREM GateHolds == OfrepSafety => []UnreadyIsNotEvaluated
<1>1. OfrepInv => UnreadyIsNotEvaluated
  BY DEF OfrepInv, HandlersInv, RequestInv, UnreadyIsNotEvaluated
<1> QED
  BY <1>1, OfrepInvariant, PTL

\* A refusal leaves no last error (recordFailure).
THEOREM ErrorsAreFailures == OfrepSafety => []LastErrorIsFailure
<1>1. OfrepInit => LastErrorIsFailure
  BY DEF OfrepInit, MetricsInit, LastErrorIsFailure
<1> QED
  BY <1>1, LastErrorStep, OfrepInvariant, PTL DEF OfrepSafety

\* The bridge beside the handlers is a bridge (bridge.go).
THEOREM OfrepImplementsBridge == OfrepSafety => BridgeSpec
<1>1. OfrepInit => BridgeInit
  BY DEF OfrepInit
<1> QED
  BY <1>1, OfrepRefinesBridge, PTL DEF OfrepSafety, BridgeSpec
==============================================================================
