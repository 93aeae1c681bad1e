# A TLA+ model of ddflagd

ddflagd serves OpenFeature evaluations over OFREP from the flag configuration
that the official Datadog provider holds in memory. These modules model the
process as the code in `src/` has it: the bridge that owns the provider, the
evaluation handler, the request decoding and the response mapping, the metrics,
the operational listener, the configuration, and the process with its two
listeners and its termination sequence, alone and as the container of a Pod with
the durations of its configuration. TLC checks small instances; TLAPS proves every
safety property the passing runs check, for any number of requests, probes and
observations, any limits and any durations.

## The system

| Component | State | Operations | Modules |
| --- | --- | --- | --- |
| bridge (`internal/bridge/bridge.go`, `tracer.go`) | `state`, `readyAt` under one lock; the provider; the tracer | `New`, `Start`, `State`, `Status`, `Evaluate`, `BeginShutdown`, `Shutdown` | `Bridge` |
| evaluation handler (`internal/ofrep/ofrep.go`) | `stopped`; per request a handler goroutine, a worker, a timer, a response | `evaluate`, `handleEvaluateFlag`, `StopServing` | `Ofrep` |
| request decoding (`internal/ofrep/request.go`) | none beyond the request | `decodeContext` | `Request` |
| response mapping (`internal/ofrep/response.go`) | none | `mapResult` | `Response` |
| metrics (`internal/metrics`) | counters, histograms, gauge, last error, under one lock | `ObserveEvaluation`, `SetProviderReady`, `RecordError`, `Snapshot`, `Write` | `Metrics`, `Exposition` |
| operational listener (`internal/admin`) | none; reads the bridge and the metrics | `/healthz`, `/readyz`, `/metrics`, `/debug/status` | `Admin` |
| process (`cmd/root.go`) | root context and its cause, two listeners, startup goroutine, termination sequence, exit status | `run`, `shutdown` | `Daemon` |
| configuration (`internal/bridge/config.go`) | none; a function of the environment | `LoadConfig`, `Validate`, `agentURL` | `Config` |
| API key (`internal/auth`) | none | `APIKey` | `Ofrep` |
| container lifecycle (`deploy/`) | the kubelet's: probes, grace period, deletion; the Service's endpoints | probe, signal, kill | `Pod` |
| Rust integration stub (`rust-integration/ofrepstub`) | none beyond a scripted provider | `results`, `ObjectEvaluation` | `Stub` |
| entry point, version, `e2e` | none | | not modelled |

How they interact. The main goroutine runs `run`: it builds the bridge, then
launches one goroutine per listener and one for `Bridge.Start`, and waits. A
signal, a listener that cannot serve and a failed startup each cancel one root
context, and the end of that context starts the termination sequence, a
goroutine of its own. `net/http` runs one goroutine per request; each evaluation
runs in a further one. All of them share the bridge's state (one lock), the
metrics (another), and the atomic `stopped`.

What is hard here is order and partial failure. A handler reads `stopped`, the
state and the worker's result at three different times. A provider may become
ready, or a startup fail, around the moment a SIGTERM arrives. A worker outlives
the response that gave up on it. A drain may use up the deadline the final flush
shares with it. A client may never finish its body. And four durations of the
configuration, set apart from each other and from the Pod's, decide together
whether a termination keeps what it promises. `PROJECT.json` lists these
hazards at their lines with the properties that would catch them going wrong.

## The modules

`Metrics` <- `Bridge` <- `Ofrep` <- `Daemon` is a tower by EXTENDS: each adds its
component's variables and composes the actions below with its own. `Response`
is extended by `Ofrep`. `Pod` extends `Daemon` by the clocks and the kubelet.
`Request`, `Config`, `Exposition` and `Admin` stand beside the tower, each for one
question of its own. `Lifecycle` is the abstract specification `Daemon` implements;
`Daemon` also implements `Ofrep`'s own specification, in which the bridge moves and
stops at any time, and that implements `Bridge`'s.

**Metrics.** One operator per method, conjoined into the actions of the callers.

**Bridge.** One action per stretch between critical sections. `Start` is
`RegisterProvider` (the call of `SetProviderAndWait`), `ProviderInitialized` or
`StartFails` (its return), `BecomeReady` (the critical section) and
`AnnounceReady` (after the unlock, on the copy). `New` is `StartTracer`,
`NewProvider`, `RefuseProvider`; `Shutdown` is `ShutdownBegins`,
`ShutdownProvider`, `StopTracer`. Remote Configuration may deliver and withdraw
a configuration at any time; a provider that has one becomes ready.

**Ofrep.** `at[r]` is where the handler of request `r` is; the module comment
draws it. `Deflect` is every way past the single flag endpoint: the key that
`auth.APIKey` misses, a path or a method the mux lacks, the bulk endpoint.
`CheckStopped`, `Decode`, `CheckState`, the worker's `Evaluate`, the
`select` as `ReceiveResult` and `ContextDone`, then `Observe` and
`ReportFailure` after the response. `TimeoutFires` and `ClientGone` end the
request's context. `Evaluate` is the call in the worker, `SendResult` its send on the
channel that has room for one result. An evaluation that yields a value may record an
exposure event, which the SDK's hooks buffer: only an allocation that logs has one,
and one that repeats an earlier event is dropped, so `Evaluate` leaves open which
values have one. `PeriodicFlush` takes the buffer at any time, and so does the flush
in the provider's shutdown, `FlushExposures`, wholly or, if it runs out of time, in
part. Of an event that a flush took, the model says that it was offered to a send, not
that the send succeeded: a failed send drops its events, and the process never learns
of it. An event that no flush took by the time the provider is down is stranded.
`promised` is a history variable.

**Response.** `mapResult` over the fields that decide a response.

**Request.** `decodeContext` step by step; the walk over the sorted properties
is one action per property. An integral literal within int64 stays what it is, any
other number becomes a nearest member of `Floats`, the numbers a float64 holds.
`Ofrep`'s `Decode` stands for all of it: it accepts,
or answers 400 or 413 (`DecodingIsOneStep` is the theorem that it may).

**Config.** `LoadConfig` as a function from environments to a configuration and
the set of variables the error names.

**Exposition.** The histograms, with their sums, and the page a scrape renders from
them, with the log of observations as history.

**Admin.** `handler(endpoint)` is the sequence of atomic reads each handler
makes; `Read` performs the next one. `earlier` (which probes were answered before
this one came) and `failedFirst` are history variables.

**Daemon.** `main`, `starter`, `listener`, `sequence` are the places of the
goroutines; `ctx` is the root context with its cause; `budget` is the shutdown
deadline; `errs` is what `donegroup.Wait` will join. Each step of `shutdown` is an
action; `Server.Shutdown` either returns at once or waits for the handlers up to
the deadline. A listener may fail to bind. The errors that `ofrep.NewHandler`,
`admin.NewHandler` and `donegroup.Cleanup` may return are left out: `run` passes
them arguments with which they return none.

`Work` is everything the process, its clients and the Agent do, `Signal` the rest.

**Pod.** Time is discrete: `Tick` advances the clocks, and is enabled only where
everything that runs waits for a timer, a client, the Agent or the tracer
(`MainWaits`, `ListenersWait`, `StarterWaits`, `SequenceWaits`, `HandlerWaits`), so
that what the process computes takes no time. `Run` is a step of `Daemon` with the
timers in time (`OnTime`): the drain delay has passed, and no deadline fires early;
that none fires late is the guard of `Tick`. `Clocks` starts a clock where the code
starts a timer: `spent` at the drain and at `context.WithTimeout`, `waited` at
`SetProviderAndWait`, `age` wherever a handler arrives. The kubelet observes the startup
probe, restarts a container whose startup or liveness probe fails, deletes the Pod
once, and kills it when the grace period since the SIGTERM is over. `InService` says
whether the Service may route a request here: while the process is ready, and for
`Propagation` after the drain has begun.

**Stub.** The table of the scripted provider that the Rust integration tests
evaluate against; it gives `MCOfrep` its evaluations.

**Lifecycle.** What those who run ddflagd rely on: phases starting, ready,
draining, stopping, exited, in this order; a debt of values handed out whose
exposure event no flush has taken yet, which a flush may settle at any time; and
status success only without debt. `Daemon` maps to it with `phase` and `owed`.

`MC*` modules give the constants of TLC's instances. Definitions commented
MUTANT are broken forms of the definition they stand before; `PROJECT.json` says
which property each must violate.

## What the runs check

| Run | Instance | States | What it shows |
| --- | --- | --- | --- |
| `functions` | all 2592 combinations of evaluation details; environments two variables away from a good one | 9 thousand | failure, status, code, outcome and value agree; problems do not hide each other |
| `request` | contexts of 0 to 4 properties, values on both sides of every limit | 369 thousand | the same problem is always named; an accepted context keeps to every limit, has every property, and loses of a number only what a float64 cannot hold |
| `exposition` | 3 observations, 2 buckets, 2 scrapes | 143 thousand | pages are exact and series have no gaps |
| `admin` | 2 probes of any endpoints beside the bridge | 811 thousand | observations never go back or contradict each other |
| `ofrep` | 1 request with every row of the stub's table, beside a bridge whose calls come in every order its types allow | 219 thousand | readiness is backed and final once withdrawn, the timestamp is honest, a refused `New` leaves no tracer, `Start` returns; counting, Retry-After, the drain, the readiness gate, the last error, that every evaluation is answered, and that no worker is left waiting to send |
| `daemon` | the whole process, 1 request | 1.3 million | a clean exit leaves no request unanswered and strands no exposure event; the order of the shutdown; success takes a signal; the refinements of `Ofrep` and `Lifecycle` |
| `live` | the whole process without traffic; 1 request from a ready process on | 91 thousand | startup is decided; the process exits, whatever a client or the provider stalls; a startup cut short is no failure |
| `pod` | the process in its Pod: its start without traffic, and 1 request from a ready process on | 578 thousand | the flush ends before SIGKILL; only a slow client fails the drain; a routed request meets no closed gate; a failed startup is blamed; an outage restarts nothing |

Four more runs expect a violation. Each checks one sentence of the repository
that the code does not keep:

- `unready_evaluates`: the comment and the test of the readiness gate say that an
  unready bridge does not evaluate; a SIGTERM before the first configuration
  leaves a state that passes the gate.
- `shut_after_drain`: the comments on `shutdown` and `Bridge.Shutdown` say that
  the provider goes down only after the drain; a drain that times out is followed
  by it all the same. `ProviderOutlivesHandlers` states what does hold: the error is
  then in the exit status.
- `unbounded_stop`: the comment on `donegroup.Wait` says that the shutdown timeout
  bounds every step of the sequence; `tracer.Stop` takes no context. The flush is
  over by then (`GraceSuffices` accounts for it), the exit status is what may be lost.
- `gauge_withdrawn`: the help text of `ddflagd_provider_ready` says that the
  provider holds a configuration; nothing takes the gauge down when the
  configuration is withdrawn.

### Bounds, and why they are enough

One request meets every step of the process in `daemon`, where its client stays: one
that goes away ends the request's context, as the timeout does, which may fire at any
point of an evaluation; `ofrep` has both. Requests share only the
counters, the last error, `stopped` and the exposure buffer, and their properties
are proved for any number of them. Requests, probes and scrapers are
interchangeable, so their sets are symmetric where only safety is checked.
`Evaluations` is the stub's table in `ofrep`, which has every class of result the
handler tells apart, and one value in the process, where the failures are those of
a provider without a configuration; `functions` covers all details. `live` has no request before readiness, where one meets only the
readiness gate, which `ofrep` and `daemon` cover, and one request after it. In `request`, one property
beyond `MaxAttributes` and one value on each side of each limit are what the
comparisons tell apart; `Floats` has every integer up to 7, gaps between its members
beyond, and none in the last stretch before the overflow. `MaxCount` and `MaxObservations` bound counters that the
code increments without a bound (they are 64 bits wide). In every run but `pod` a
timer may fire whenever it runs, which covers every setting of the four durations.

`pod` gives the durations small values in the order of the Deployment's: 2 for the
drain delay, 4 for the shutdown timeout, 1 for the propagation and so on. Each
property but `OutageIsSurvived` assumes an inequality between them, which the values
keep with a margin of one tick; an assumption relaxed by that tick is violated, so
the inequalities are tight. The drain, the timeouts of handlers, the silent connection, a kill with
the flush done, and requests routed during the drain all occur within them.

### Fairness, and why the code justifies it

`StartFairness`: `InitTimeout` bounds the wait inside `SetProviderAndWait`, so it
returns; the goroutine is scheduled. `HandlerFairness`: handlers are scheduled,
`context.WithTimeout` fires, a `select` with a ready case takes one, and a send on a
channel with room is made; nothing is assumed of `Decode` (a client may stall its body) nor of `Evaluate` (a provider
may stall). `Fairness` of `Daemon`: main, listeners, startup goroutine and
termination sequence are scheduled and the shutdown deadline passes; nothing is
assumed of signals, requests, the Agent or the handlers. It includes that the
calls of the sequence return: `Server.Shutdown` and `api.Shutdown` take a context
with a deadline, and `tracer.Stop`, which takes none, is assumed to return.

`Pod` has no fairness: its properties are safety, with time as a variable.

## What is proved

Every invariant, action property and refinement of the passing runs is a theorem.
`Bridge_proofs`, `Response_proofs`, `Ofrep_proofs`, `Daemon_proofs` and `Pod_proofs`
hold the proofs of the tower, each on top of the one before; `Admin_proofs`,
`Functions_proofs` and `Exposition_proofs` those of what stands beside it. The
constants are assumed to be what their names say: the requests are a finite set, what
the provider returns are evaluation details and not the client's own short circuit,
durations and limits are naturals, timeouts positive, property names finitely many
numbers in their sorted order, and the float64s a set of integers that is not empty
(in a unit that every literal is a multiple of).

*Bridge.* `BridgeInv` is inductive. `ReadyHasProvider` alone is not: that a ready
bridge's provider is initialized depends on how far `Start` and `Shutdown` have
got (only a `Start` past its wait makes the bridge ready, and a shutdown leaves the
ready state before it takes the provider down), and that on what `New` built.
These are the conjuncts it adds. From it follow type correctness,
`ReadinessIsBacked`, `GaugeIsHonest`, `RefusalIsClean` and `ReadyTimestampIsHonest`;
`ShuttingDownIsFinal` holds of each action.

*Response.* For all evaluation details: the type of a response, and the four
properties of `mapResult`.

*Ofrep.* `OfrepInv` is inductive: types, `BridgeInv`, that a readiness
timestamp means ready or shutting down, and for each request `RequestInv`, which says for
each place of its handler what the answer, the worker and the result may be. A response that says not ready to a request that was promised service
can only come from the worker; that is what `DrainServes` needs and no conjunct of
the property says. `RequestsAreCountedOnce` adds the counters up over the finite set
of the requests observed, by cardinality. `OfrepImplementsBridge` is step
simulation: a handler touches the bridge only to record an error.

*Daemon.* First, `DaemonImplementsOfrep`: every step of the process is a step of
`OfrepNext` or leaves the handler and the bridge alone, so their theorems hold
inside the process (`HandlersHold`, `ReadinessHolds`). `DaemonInv`, which is
inductive, has three parts beyond types and `OfrepInv`. `ProcessInv` ties the cause
of the end, the errors and the exit status. `SequenceInv` says, for each place of
the termination sequence, what is stopped, closed, drained and shut down.
`TrafficInv` says that no handler is left once the drain returned nil, and that no
caller's value has an event left once the provider behind such a drain is down without
an error. `NothingIsStranded` needs all of them: exit 0 implies no error, hence a nil
drain, hence no handlers whose evaluation could come after the last flush, and a flush
without error, hence no event left behind.
Type correctness, `ShutdownIsOrdered`, `SuccessIsSignalled`, `LossShows` and
`HandlersAreDrained` follow too. `DaemonImplementsLifecycle` maps every step to a
step of `Lifecycle` or a stutter. `CutShortIsNotBlamed` says that after one moment
something never happens. It takes two facts: `BlameInv`, that only a `Start` that has
failed is blamed, and `CutShort`, which no step leaves once the context has
ended over a startup that was not.

*Pod.* `PodRunsDaemon`: the clocks and the kubelet only restrict when the process
moves, so `DaemonInv` carries over. `PodInv` adds what has started when. Each
property then follows one clock through the places where time may pass, for any
durations: `GraceIsEnough` adds up what New, the drain and the deadline can use of
the grace period; `DrainFailsByClients` bounds the time that Shutdown has waited by
how far the slowest handler is; `RoutedAreServed` shows that a routed request
passes the first gate before the drain delay is over, and with the promise that the
second relies on; `FailuresAreBlamed` bounds the uptime of a container that is not
ready by New and the initialization timeout; `OutagesAreSurvived` needs only that
the operational listener serves as long as the context lives.

*Admin.* `AdminInv` is inductive, for any set of probes. The properties compare
two answered probes, and say nothing of a probe between its two reads; so the
invariant does: what a probe has seen is behind the bridge as it is now
(`ViewInv`), and in front of what was seen by every probe answered before this one
came (`OrderInv`). Being behind is transitive, and each step of the bridge moves it
forward (`BridgeMovesForward`), so that a view taken now is in front of all earlier
ones. `StampInv` ties the timestamp to the state, which share a lock; the error
and the state do not, and `RecordInv` says that an error on record before a
shutdown stays, which is why reading the bridge first is enough for
`FailuresAreShown`. `ObserversDoNotDisturb`: the listener leaves `BridgeSpec` intact.

*Functions.* `DecodeInv` is inductive, for any limits and any requests, those with
a context of any size included: what the walk has taken lies below what is left of it,
was convertible, and was kept: with its value, or as a float64 that no other is closer
to (`NearestFloat`). Its next name is the
minimum of those left (`FirstName`, from the well-foundedness of the naturals), so
that a refusal names the first problem by name, in whatever order Go's map ranged; an
accepted context has nothing left to take. `AcceptedIsBounded` covers every limit the
code sets: the body, the number of properties with the targeting key among them, and
the length of each string. `DecodingIsOneStep` closes the gap between
`Request` and `Ofrep`. `ProblemsNeverHide` holds of every environment: the parse
of a variable reads it alone, and so does its check in `Validate`, two addresses apart. The
properties of `mapResult` and `LoadConfig` carry over to the run that calls them.

*Exposition.* That a page is exact is about counts, which the code keeps by
adding. `ExpositionInv` says what each is the cardinality of: `Having` and
`Within`, the positions of the log with an outcome, and with a duration below a
bound. A new observation adds one position to its own outcome's sets and none to
the others (`NewIsCounted`), and changes nothing of a prefix (`PrefixIsKept`); a page
is the invariant frozen at its prefix. `SeriesPersist` follows because a longer prefix
has every position of a shorter one.

TLC checked these invariants on small instances before they were proved.

Only model-checked: liveness under fairness (`StartReturns`,
`EvaluationIsAnswered`, `WorkerEnds`, `ProcessExits`, `StartupIsDecided`), which is out of the
prover's reach, and the sentences that are violated, whose counterexamples are TLC's.

## What is not modelled

`main.go`, `version` and the end-to-end harness have no
state of the system. Formatting, logging, pprof and the text of messages are left
out. The provider and the OpenFeature SDK are external: whether a send of exposure
events succeeds is left out, since nothing in the process depends on it, and so are
evaluation counts. `Accept` failures of `net/http` after a successful bind are not
modelled. Of the stub, the listener and its environment variable are left out.

In `Pod`, the time a client takes to read its response or to send its headers is
left out: the response is small, and the headers have a timeout of their own, after
which the connection counts as silent. The period and the threshold of the readiness
probe are part of `Propagation`, those of the startup probe of `StartupBudget`; that
the kubelet's probes time out on a process that is starved of CPU is not modelled.
A container that the kubelet restarts begins again from `Init` with nothing kept, so
one life of it is all there is to check; the backoff between lives is the kubelet's.

## The plan

Done, in order of importance: the bridge; the handler; the process and its
termination; the abstract lifecycle; their proofs; decoding, configuration,
exposition and the operational listener; then the handler's specification as the
middle of the refinement, with its proofs, and the Pod with its durations and its
proofs; then the proofs of the operational listener, the decoding, the
configuration and the exposition, so that every safety property of a passing run is
a theorem.

Next, in this order:

1. The operational listener beside the whole process: `AdminSpec` over `Daemon`, so that
   its ordering holds of a process that also serves and stops.
2. Two containers behind one Service during a rolling update, from the properties
   of one.
3. Evaluation counts beside exposure events, which the shutdown flushes as well.
