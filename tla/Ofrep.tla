-------------------------------- MODULE Ofrep --------------------------------
(***************************************************************************)
(* internal/ofrep: the handler of the single flag endpoint, one goroutine  *)
(* per request, with the worker goroutine each evaluation runs in.         *)
(*                                                                         *)
(* A handler reads three things other goroutines write: `stopped', the     *)
(* bridge's state, and the worker's result.  It reads them at different    *)
(* times, and everything may change in between; `at' is where it is:       *)
(*                                                                         *)
(*   idle -> entered -> decoding -> decoded -> evaluating                  *)
(*              |           |          |           |                       *)
(*              +-----------+----------+-----------+-> answered            *)
(*                                           -> observed -> finished       *)
(*                                                                         *)
(* A request that the key, the mux or the bulk endpoint turns away goes    *)
(* from entered to finished, past every metric.                            *)
(* Exposure events are the SDK's.  Its hooks buffer one for an evaluation  *)
(* whose allocation asks for it and that does not repeat an earlier one; a *)
(* flush, at intervals and in the provider's shutdown, takes what is       *)
(* buffered to a send, which may fail and drop it.                         *)
(***************************************************************************)
EXTENDS Bridge, Response, FiniteSets

CONSTANTS
    Requests,     \* the requests to the evaluation listener
    Evaluations   \* what a provider that holds a configuration may return

ASSUME RequestsAssumption == IsFiniteSet(Requests)

ASSUME EvaluationsAssumption == Evaluations \subseteq Details

VARIABLES
    stopped,    \* Handler.stopped
    at,         \* where each request's handler is
    answer,     \* the response written to each request
    worker,     \* the goroutine that runs the evaluation
    result,     \* what the evaluation returned in it
    expired,    \* HandlerTimeout has passed on the request's context
    gone,       \* the client has closed the request's connection
    exposure,   \* the exposure event of the request's evaluation
    promised    \* history: the bridge had been ready when the handler began
                \* to decode the request

handlerVars == <<stopped, at, answer, worker, result, expired, gone, exposure, promised>>
ofrepVars == <<bridgeVars, evaluations, handlerVars>>

Points == {"idle", "entered", "decoding", "decoded", "evaluating",
           "answered", "observed", "finished"}

NoAnswer == [status |-> 0]
NoResult == [code |-> "none"]

\* The client's answers while the provider is not ready, and after the
\* configuration of a ready provider was withdrawn.
NotReadyDetails == [code |-> "", err |-> "not_ready", reason |-> "ERROR",
                    value |-> FALSE, metadata |-> {}]
\* A provider that holds a configuration does not give the short circuit's answer.
ASSUME ShortCircuitAssumption == NotReadyDetails \notin Evaluations

WithdrawnDetails == {[code |-> "PROVIDER_NOT_READY", err |-> "not_ready", reason |-> "ERROR",
                      value |-> FALSE, metadata |-> {}],
                     [code |-> "", err |-> "nil", reason |-> "DEFAULT",
                      value |-> FALSE, metadata |-> {}]}

Results == Evaluations \cup WithdrawnDetails \cup {NotReadyDetails}

\* An answer is a response with the Retry-After header present or not.
Respond(r, retry) ==
    [status |-> r.status, code |-> r.code, outcome |-> r.outcome, reason |-> r.reason,
     value |-> r.value, metadata |-> r.metadata, retry |-> retry]

\* The statuses of a request that misses the single flag endpoint: the key it
\* lacks, a path or a method no endpoint has, and the bulk endpoint.
Deflections == {401, 404, 405, 501}

Answers == [status : Statuses \cup Deflections, code : ErrorCodes \cup {""},
            outcome : Outcomes \cup {"uncounted"}, reason : OfrepReasons \cup {""}, value : BOOLEAN,
            metadata : SUBSET MetadataKinds, retry : BOOLEAN]

\* No event; one that waits for a flush; one that a flush has taken to a send,
\* whatever became of it; one that no flush comes for any more.
Exposures == {"none", "buffered", "offered", "stranded"}

HandlerTypeOK ==
    /\ stopped \in BOOLEAN
    /\ at \in [Requests -> Points]
    /\ answer \in [Requests -> Answers \cup {NoAnswer}]
    /\ worker \in [Requests -> {"none", "running", "sending", "done"}]
    /\ result \in [Requests -> Results \cup {NoResult}]
    /\ expired \in [Requests -> BOOLEAN]
    /\ gone \in [Requests -> BOOLEAN]
    /\ exposure \in [Requests -> Exposures]
    /\ promised \in [Requests -> BOOLEAN]

HandlerInit ==
    /\ stopped = FALSE
    /\ at = [r \in Requests |-> "idle"]
    /\ answer = [r \in Requests |-> NoAnswer]
    /\ worker = [r \in Requests |-> "none"]
    /\ result = [r \in Requests |-> NoResult]
    /\ expired = [r \in Requests |-> FALSE]
    /\ gone = [r \in Requests |-> FALSE]
    /\ exposure = [r \in Requests |-> "none"]
    /\ promised = [r \in Requests |-> FALSE]

Step(r, from, to) == at[r] = from /\ at' = [at EXCEPT ![r] = to]

\* The 503s the handler builds itself.
Unavailable(code, outcome) == Failure(StatusServiceUnavailable, code, outcome, {})

Answer(r, response, retry) ==
    answer' = [answer EXCEPT ![r] = Respond(response, retry)]

\* The response to r has been written.
Answered(r) == at[r] \in {"answered", "observed", "finished"}

\* The caller of r holds a value.
HasValue(r) == Answered(r) /\ answer[r].value

\* The event of r's evaluation has not been taken to a send.
Unsent(r) == exposure[r] \in {"buffered", "stranded"}

\* A handler between the start of ServeHTTP and its return.
InFlight(r) == at[r] \notin {"idle", "finished"}

------------------------------------------------------------------------------
(* evaluate, up to the start of the worker *)

\* net/http calls the handler in a goroutine of its own.
Arrive(r) ==
    /\ Step(r, "idle", "entered")
    /\ UNCHANGED <<bridgeVars, evaluations, stopped, answer, worker, result, expired,
                   gone, exposure, promised>>

\* auth.APIKey, which a deployment may configure, wraps the mux, which knows
\* two endpoints; neither counts a request, asks `stopped' or retries.
Deflect(r) ==
    /\ Step(r, "entered", "finished")
    /\ \E status \in Deflections :
          LET code == IF status \in {404, 405} THEN "" ELSE "GENERAL"
          IN  Answer(r, Failure(status, code, "uncounted", {}), FALSE)
    /\ UNCHANGED <<bridgeVars, evaluations, stopped, worker, result, expired, gone,
                   exposure, promised>>

\* h.stopped.Load(): a request that arrives during the close is answered 503.
CheckStopped(r) ==
    /\ IF stopped
       THEN /\ Step(r, "entered", "answered")
            /\ Answer(r, Unavailable("GENERAL", "not_ready"), TRUE)
            /\ UNCHANGED promised
       ELSE /\ Step(r, "entered", "decoding")
            /\ promised' = [promised EXCEPT ![r] = readyAt]
            /\ UNCHANGED answer
    /\ UNCHANGED <<bridgeVars, evaluations, stopped, worker, result, expired, gone, exposure>>

\* decodeContext accepts the body, or answers for itself: 413 for a body over
\* the limit, 400 for everything else it refuses, under one of three codes
\* of which one stands for all.
Decode(r) ==
    /\ \/ /\ Step(r, "decoding", "decoded")
          /\ UNCHANGED answer
       \/ \E refused \in {<<StatusBadRequest, "INVALID_CONTEXT">>,
                        <<StatusRequestEntityTooLarge, "PARSE_ERROR">>} :
             /\ Step(r, "decoding", "answered")
             /\ Answer(r, Failure(refused[1], refused[2], "invalid_request", {}), FALSE)
    /\ UNCHANGED <<bridgeVars, evaluations, stopped, worker, result, expired, gone,
                   exposure, promised>>

\* MUTANT of CheckState: anything but ready is refused, the drain included.
CheckStateReady(r) ==
    /\ IF state # "ready"
       THEN /\ Step(r, "decoded", "answered")
            /\ Answer(r, Unavailable("PROVIDER_NOT_READY", "not_ready"), TRUE)
            /\ UNCHANGED worker
       ELSE /\ Step(r, "decoded", "evaluating")
            /\ worker' = [worker EXCEPT ![r] = "running"]
            /\ UNCHANGED answer
    /\ UNCHANGED <<bridgeVars, evaluations, stopped, result, expired, gone, exposure, promised>>

\* MUTANT of CheckState: the evaluation is left to the client's short circuit.
CheckStateNever(r) ==
    /\ Step(r, "decoded", "evaluating")
    /\ worker' = [worker EXCEPT ![r] = "running"]
    /\ UNCHANGED <<bridgeVars, evaluations, stopped, answer, result, expired, gone,
                   exposure, promised>>

\* A starting bridge refuses; otherwise the context gets its timeout and the
\* worker starts.
CheckState(r) ==
    /\ IF state = "starting"
       THEN /\ Step(r, "decoded", "answered")
            /\ Answer(r, Unavailable("PROVIDER_NOT_READY", "not_ready"), TRUE)
            /\ UNCHANGED worker
       ELSE /\ Step(r, "decoded", "evaluating")
            /\ worker' = [worker EXCEPT ![r] = "running"]
            /\ UNCHANGED answer
    /\ UNCHANGED <<bridgeVars, evaluations, stopped, result, expired, gone, exposure, promised>>

------------------------------------------------------------------------------
(* The worker, and the race between its result and the context *)

\* What the client may return, by the provider it finds.  A provider that was
\* shut down under a running evaluation may still finish it.
evaluationResults ==
    CASE provider \in {"unregistered", "initializing"} -> {NotReadyDetails}
      [] provider = "ready" -> IF config THEN Evaluations ELSE WithdrawnDetails
      [] OTHER -> Results

\* Bridge.Evaluate and the hooks it runs.  Of the evaluations that yield a
\* value, those of an allocation that logs are recorded, unless they repeat an
\* earlier one; what is recorded after the provider's shutdown is never flushed.
Evaluate(r) ==
    /\ worker[r] = "running"
    /\ \E d \in evaluationResults, logged \in BOOLEAN :
          /\ result' = [result EXCEPT ![r] = d]
          /\ exposure' = [exposure EXCEPT ![r] =
                IF ~(d.value /\ logged) THEN @
                ELSE IF provider = "ready" THEN "buffered" ELSE "stranded"]
    /\ worker' = [worker EXCEPT ![r] = "sending"]
    /\ UNCHANGED <<bridgeVars, evaluations, stopped, at, answer, expired, gone, promised>>

\* MUTANT of SendResult: the channel `done' has no room of its own.
SendResultUnbuffered(r) ==
    /\ worker[r] = "sending"
    /\ at[r] = "evaluating"
    /\ worker' = [worker EXCEPT ![r] = "done"]
    /\ UNCHANGED <<bridgeVars, evaluations, stopped, at, answer, result, expired, gone,
                   exposure, promised>>

\* The send on `done', which has room for the one result: it does not wait for
\* a handler, which may have given up.
SendResult(r) ==
    /\ worker[r] = "sending"
    /\ worker' = [worker EXCEPT ![r] = "done"]
    /\ UNCHANGED <<bridgeVars, evaluations, stopped, at, answer, result, expired, gone,
                   exposure, promised>>

\* The deadline of context.WithTimeout.
TimeoutFires(r) ==
    /\ at[r] = "evaluating"
    /\ ~expired[r]
    /\ expired' = [expired EXCEPT ![r] = TRUE]
    /\ UNCHANGED <<bridgeVars, evaluations, stopped, at, answer, worker, result, gone,
                   exposure, promised>>

\* net/http cancels the request's context when the client goes away.
ClientGone(r) ==
    /\ at[r] \in {"entered", "decoding", "decoded", "evaluating"}
    /\ ~gone[r]
    /\ gone' = [gone EXCEPT ![r] = TRUE]
    /\ UNCHANGED <<bridgeVars, evaluations, stopped, at, answer, worker, result, expired,
                   exposure, promised>>

selectUnchanged == UNCHANGED <<bridgeVars, evaluations, stopped, worker, result, expired,
                               gone, exposure, promised>>

\* MUTANT of ReceiveResult: Retry-After only on the 503s the handler builds.
ReceiveResultNoRetry(r) ==
    /\ worker[r] = "done"
    /\ Step(r, "evaluating", "answered")
    /\ Answer(r, mapResult(result[r]), FALSE)
    /\ selectUnchanged

\* select, the result.
ReceiveResult(r) ==
    /\ worker[r] = "done"
    /\ Step(r, "evaluating", "answered")
    /\ LET response == mapResult(result[r])
       IN  Answer(r, response, response.status = StatusServiceUnavailable)
    /\ selectUnchanged

\* MUTANT of ContextDone: the timeout is left to the provider.
ContextDoneClientOnly(r) ==
    /\ gone[r]
    /\ Step(r, "evaluating", "answered")
    /\ Answer(r, Unavailable("GENERAL", "timeout"), TRUE)
    /\ selectUnchanged

\* select, the context: its deadline, or the client that went away.  Go picks
\* either case when both are ready.
ContextDone(r) ==
    /\ expired[r] \/ gone[r]
    /\ Step(r, "evaluating", "answered")
    /\ Answer(r, Unavailable("GENERAL", "timeout"), TRUE)
    /\ selectUnchanged

\* MUTANT of Observe: only requests that reached the provider are counted.
ObserveEvaluated(r) ==
    /\ Step(r, "answered", "observed")
    /\ IF worker[r] = "none" THEN UNCHANGED evaluations ELSE ObserveEvaluation(answer[r].outcome)
    /\ UNCHANGED <<bridgeVars, stopped, answer, worker, result, expired, gone, exposure, promised>>

\* After the response is written, whatever the outcome.
Observe(r) ==
    /\ Step(r, "answered", "observed")
    /\ ObserveEvaluation(answer[r].outcome)
    /\ UNCHANGED <<bridgeVars, stopped, answer, worker, result, expired, gone, exposure, promised>>

\* MUTANT of ReportFailure: the handler reports every failure response.
ReportEveryFailure(r) ==
    /\ Step(r, "observed", "finished")
    /\ IF answer[r].code # "" THEN RecordError("evaluation") ELSE UNCHANGED lastError
    /\ UNCHANGED <<built, tracer, state, readyAt, start, stop, stopErr, provider, config,
                   providerReady, evaluations, stopped, answer, worker, result, expired,
                   gone, exposure, promised>>

\* Errors and timeouts become the last error; then the handler returns.
ReportFailure(r) ==
    /\ Step(r, "observed", "finished")
    /\ IF answer[r].outcome \in {"error", "timeout"}
       THEN RecordError("evaluation") ELSE UNCHANGED lastError
    /\ UNCHANGED <<built, tracer, state, readyAt, start, stop, stopErr, provider, config,
                   providerReady, evaluations, stopped, answer, worker, result, expired,
                   gone, exposure, promised>>

\* One request: its handler's goroutine, its worker's, its timer, its client.
Handle(r) == \/ Deflect(r) \/ CheckStopped(r) \/ Decode(r) \/ CheckState(r)
             \/ ReceiveResult(r) \/ ContextDone(r)
             \/ Observe(r) \/ ReportFailure(r)

Request(r) == Handle(r) \/ Evaluate(r) \/ SendResult(r) \/ TimeoutFires(r) \/ ClientGone(r)

------------------------------------------------------------------------------
(* The handler's side of the termination sequence *)

StopServing ==
    /\ stopped' = TRUE
    /\ UNCHANGED <<bridgeVars, evaluations, at, answer, worker, result, expired, gone,
                   exposure, promised>>

\* The SDK's own flush, at its interval.
PeriodicFlush ==
    /\ \E r \in Requests : exposure[r] = "buffered"
    /\ exposure' = [r \in Requests |-> IF exposure[r] = "buffered" THEN "offered" ELSE exposure[r]]
    /\ UNCHANGED <<bridgeVars, evaluations, stopped, at, answer, worker, result, expired,
                   gone, promised>>

\* MUTANT of FlushExposures: the provider goes down without a flush.
FlushExposuresNever(failed) ==
    /\ exposure' = [r \in Requests |-> IF exposure[r] = "buffered" THEN "stranded" ELSE exposure[r]]
    /\ ShutdownProvider(failed)
    /\ UNCHANGED <<evaluations, stopped, at, answer, worker, result, expired, gone, promised>>

\* api.Shutdown flushes what is buffered.  That it returns nil means that the
\* flush was over in time, not that a send of it succeeded; when it returns an
\* error, any part of the buffer may have been left, and nothing comes for it.
FlushExposures(failed) ==
    /\ \E left \in SUBSET {r \in Requests : exposure[r] = "buffered"} :
          /\ left # {} => failed
          /\ exposure' = [r \in Requests |->
                CASE r \in left -> "stranded"
                  [] exposure[r] = "buffered" /\ r \notin left -> "offered"
                  [] OTHER -> exposure[r]]
    /\ ShutdownProvider(failed)
    /\ UNCHANGED <<evaluations, stopped, at, answer, worker, result, expired, gone, promised>>

\* The bridge's own steps, none of which a handler's variables see.
BridgeStep == \/ New \/ Start \/ RemoteConfig
BridgeStops == BeginShutdown \/ ShutdownBegins \/ StopTracer
besideHandlers == UNCHANGED <<evaluations, handlerVars>>

OfrepInit == MetricsInit /\ BridgeInit /\ HandlerInit

\* Handlers beside a bridge whose owner may begin to stop at any moment.
OfrepNext ==
    \/ \E r \in Requests : built = "yes" /\ Arrive(r)
    \/ \E r \in Requests : Request(r)
    \/ BridgeStep /\ besideHandlers
    \/ BridgeStops /\ besideHandlers
    \/ built = "yes" /\ StopServing
    \/ \E failed \in BOOLEAN : FlushExposures(failed)
    \/ PeriodicFlush

\* Goroutines are scheduled, timers fire, and a select with a ready case takes
\* one.  A client may stall its body for ever and a provider its evaluation.
HandlerFairness ==
    \A r \in Requests :
        /\ WF_ofrepVars(Deflect(r) \/ CheckStopped(r) \/ CheckState(r))
        /\ WF_ofrepVars(TimeoutFires(r))
        /\ WF_ofrepVars(ReceiveResult(r) \/ ContextDone(r))
        /\ WF_ofrepVars(Observe(r) \/ ReportFailure(r))
        /\ WF_ofrepVars(SendResult(r))

OfrepSafety == OfrepInit /\ [][OfrepNext]_ofrepVars

OfrepSpec == OfrepSafety /\ HandlerFairness /\ StartFairness

------------------------------------------------------------------------------
(* Properties *)

\* Every request whose handler has counted it is counted once, under the
\* outcome of the response it got, and no other request is: the counters are
\* written after the response, from every return of evaluate.
CountedOnce ==
    \A o \in Outcomes : evaluations[o] =
        Cardinality({r \in Requests : at[r] \in {"observed", "finished"}
                                      /\ answer[r].outcome = o})

\* Every 503, from whichever of its five sources, carries Retry-After, and
\* nothing else does (retryAfter).
RetryAfterOnEvery503 ==
    \A r \in Requests :
        Answered(r) => (answer[r].retry <=> answer[r].status = StatusServiceUnavailable)

\* A request that passed the stopped check on a bridge that had been ready is
\* never refused by the handler's own gates, even if the process began to
\* stop while the body was being read: only the provider itself may still
\* say that it is not ready.  The drain keeps answering normally.
DrainKeepsServing ==
    \A r \in Requests :
        promised[r] /\ Answered(r) /\ answer[r].outcome = "not_ready"
            => worker[r] = "done"

\* While the process is not stopping, no evaluation runs against a provider
\* that never held a configuration: the gate reads the state late enough.
UnreadyIsNotEvaluated ==
    (\E r \in Requests : result[r] = NotReadyDetails) => state = "shutting_down"

\* The last error is never the work of a request that was merely refused.
LastErrorIsFailure ==
    lastError = "evaluation" =>
        \E r \in Requests : at[r] = "finished" /\ answer[r].outcome \in {"error", "timeout"}

\* A provider that stalls cannot hold a response: every request that started
\* an evaluation is answered, counted and done (Options.Timeout).
EvaluationIsAnswered ==
    \A r \in Requests : (at[r] = "evaluating") ~> (at[r] = "finished")

\* An evaluation that returns leaves no goroutine behind, even if its handler
\* gave up on it long ago and nobody will ever receive the result.
WorkerEnds ==
    \A r \in Requests : (worker[r] = "sending") ~> (worker[r] = "done")

\* The comment on the readiness gate and its test: an unready bridge must not
\* evaluate, because the hooks would fire on an evaluation that cannot
\* produce a value.
UnreadyNeverEvaluates == \A r \in Requests : result[r] # NotReadyDetails
==============================================================================
