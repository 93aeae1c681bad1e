------------------------------- MODULE Bridge --------------------------------
(***************************************************************************)
(* internal/bridge: the owner of the Datadog provider, of the OpenFeature  *)
(* client, and of the lifecycle state every probe and every evaluation     *)
(* reads.                                                                  *)
(*                                                                         *)
(* Three goroutines meet here.  The main one runs New; the startup one     *)
(* runs Start; the termination sequence runs BeginShutdown and Shutdown.   *)
(* They share `state' under a mutex, and everything between two critical   *)
(* sections interleaves: each action below is one such stretch.            *)
(*                                                                         *)
(* The provider and Remote Configuration are code of dd-trace-go and of    *)
(* the OpenFeature SDK.  They are modelled from how the bridge uses them:  *)
(* a registered provider becomes ready once it holds a configuration.      *)
(***************************************************************************)
EXTENDS Metrics

VARIABLES
    built,      \* progress of New
    tracer,     \* the dd-trace-go tracer
    state,      \* Bridge.state; "none" until New returns a Bridge
    readyAt,    \* Bridge.readyAt is not the zero time
    start,      \* progress of the startup goroutine through Start
    stop,       \* progress of Shutdown
    stopErr,    \* api.Shutdown reported an error
    provider,   \* the provider registered with the OpenFeature API
    config      \* the provider holds a flag configuration

bridgeVars == <<built, tracer, state, readyAt, start, stop, stopErr,
                provider, config, providerReady, lastError>>

States == {"none", "starting", "ready", "shutting_down"}

\* Where a started Start can be: blocked in SetProviderAndWait, past it but
\* not yet in the critical section, past the critical section with the copy
\* of the state that makes it announce readiness, or back at its caller.
StartPoints == {"idle", "waiting", "initialized", "announcing", "returned", "failed"}

BridgeTypeOK ==
    /\ built \in {"no", "tracing", "failing", "refused", "yes"}
    /\ tracer \in {"off", "on", "stopped"}
    /\ state \in States
    /\ readyAt \in BOOLEAN
    /\ start \in StartPoints
    /\ stop \in {"idle", "flushing", "untracing", "done"}
    /\ stopErr \in BOOLEAN
    /\ provider \in {"unregistered", "initializing", "ready", "shut"}
    /\ config \in BOOLEAN
    /\ providerReady \in BOOLEAN
    /\ lastError \in ErrorSources

BridgeInit ==
    /\ built = "no"
    /\ tracer = "off"
    /\ state = "none"
    /\ readyAt = FALSE
    /\ start = "idle"
    /\ stop = "idle"
    /\ stopErr = FALSE
    /\ provider = "unregistered"
    /\ config = FALSE
    /\ providerReady = FALSE
    /\ lastError = "none"

------------------------------------------------------------------------------
(* New: the tracer, then the provider, and a refusal that undoes the tracer *)

newUnchanged == UNCHANGED <<readyAt, start, stop, stopErr, provider, config,
                            providerReady, lastError>>

\* tracer.Start returns nil or an error; an error takes New's error path.
StartTracer ==
    /\ built = "no"
    /\ \/ built' = "tracing" /\ tracer' = "on"
       \/ built' = "failing" /\ UNCHANGED tracer
    /\ state' = state
    /\ newUnchanged

\* ddopenfeature.NewDatadogProvider returns a Datadog provider, or something
\* New refuses: an error, nil, or the no-op provider of a disabled feature.
NewProvider ==
    /\ built = "tracing"
    /\ \/ built' = "yes" /\ state' = "starting"
       \/ built' = "failing" /\ state' = state
    /\ tracer' = tracer
    /\ newUnchanged

\* MUTANT of RefuseProvider: the error path forgets stopTracer.
RefuseProviderLeaky ==
    /\ built = "failing"
    /\ built' = "refused"
    /\ UNCHANGED <<tracer, state>>
    /\ newUnchanged

\* New's error paths stop the tracer and return no Bridge.
RefuseProvider ==
    /\ built = "failing"
    /\ built' = "refused"
    /\ tracer' = "stopped"
    /\ state' = state
    /\ newUnchanged

------------------------------------------------------------------------------
(* Start *)

startUnchanged == UNCHANGED <<built, tracer, stop, stopErr, config>>

\* SetProviderAndWait registers the provider and blocks.
RegisterProvider ==
    /\ built = "yes"
    /\ start = "idle"
    /\ start' = "waiting"
    /\ provider' = "initializing"
    /\ UNCHANGED <<state, readyAt, providerReady, lastError>>
    /\ startUnchanged

\* SetProviderAndWait returns nil once the provider has initialized; a
\* Shutdown may have taken the provider down again before it does.
ProviderInitialized ==
    /\ start = "waiting"
    /\ provider \in {"ready", "shut"}
    /\ start' = "initialized"
    /\ UNCHANGED <<state, readyAt, provider, providerReady, lastError>>
    /\ startUnchanged

\* MUTANT of StartFails: Start waits on the process context alone, so that
\* nothing but a shutdown cuts the wait short.
StartFailsUnbounded ==
    /\ start = "waiting"
    /\ state = "shutting_down"
    /\ start' = "failed"
    /\ RecordError("initialization")
    /\ UNCHANGED <<state, readyAt, provider, providerReady>>
    /\ startUnchanged

\* SetProviderAndWait returns an error: InitTimeout passed, or the process
\* context was cancelled.  Start records it before it returns.
StartFails ==
    /\ start = "waiting"
    /\ start' = "failed"
    /\ RecordError("initialization")
    /\ UNCHANGED <<state, readyAt, provider, providerReady>>
    /\ startUnchanged

\* MUTANT of BecomeReady: the late provider wins over a SIGTERM.
BecomeReadyUnguarded ==
    /\ start = "initialized"
    /\ state' = "ready"
    /\ readyAt' = TRUE
    /\ start' = "announcing"
    /\ UNCHANGED <<provider, providerReady, lastError>>
    /\ startUnchanged

\* MUTANT of BecomeReady: readyAt is assigned outside the test of the state.
BecomeReadyStamped ==
    /\ start = "initialized"
    /\ state' = IF state = "starting" THEN "ready" ELSE state
    /\ readyAt' = TRUE
    /\ start' = IF state' = "ready" THEN "announcing" ELSE "returned"
    /\ UNCHANGED <<provider, providerReady, lastError>>
    /\ startUnchanged

\* The critical section: a SIGTERM during initialization wins.  The copy of
\* the state taken before the unlock decides what Start does next.
BecomeReady ==
    /\ start = "initialized"
    /\ state' = IF state = "starting" THEN "ready" ELSE state
    /\ readyAt' = (readyAt \/ state = "starting")
    /\ start' = IF state' = "ready" THEN "announcing" ELSE "returned"
    /\ UNCHANGED <<provider, providerReady, lastError>>
    /\ startUnchanged

\* After the unlock, on the copy: the state may have moved on meanwhile.
AnnounceReady ==
    /\ start = "announcing"
    /\ start' = "returned"
    /\ SetProviderReady
    /\ UNCHANGED <<state, readyAt, provider, lastError>>
    /\ startUnchanged

Start == \/ RegisterProvider \/ ProviderInitialized \/ StartFails
         \/ BecomeReady \/ AnnounceReady

------------------------------------------------------------------------------
(* BeginShutdown and Shutdown *)

BeginShutdown ==
    /\ built = "yes"
    /\ state' = "shutting_down"
    /\ UNCHANGED <<built, tracer, readyAt, start, stop, stopErr, provider, config,
                   providerReady, lastError>>

\* MUTANT of ShutdownBegins: Shutdown relies on its caller's BeginShutdown.
ShutdownBeginsBare ==
    /\ built = "yes"
    /\ stop = "idle"
    /\ stop' = "flushing"
    /\ UNCHANGED <<built, tracer, state, readyAt, start, stopErr, provider, config,
                   providerReady, lastError>>

\* Shutdown's own call of BeginShutdown.
ShutdownBegins ==
    /\ built = "yes"
    /\ stop = "idle"
    /\ stop' = "flushing"
    /\ state' = "shutting_down"
    /\ UNCHANGED <<built, tracer, readyAt, start, stopErr, provider, config,
                   providerReady, lastError>>

\* api.Shutdown(ctx): a registered provider is shut down, with an error when
\* its flush did not finish in time.
ShutdownProvider(failed) ==
    /\ stop = "flushing"
    /\ stop' = "untracing"
    /\ stopErr' = failed
    /\ provider' = IF provider = "unregistered" THEN provider ELSE "shut"
    /\ UNCHANGED <<built, tracer, state, readyAt, start, config, providerReady, lastError>>

StopTracer ==
    /\ stop = "untracing"
    /\ stop' = "done"
    /\ tracer' = "stopped"
    /\ UNCHANGED <<built, state, readyAt, start, stopErr, provider, config,
                   providerReady, lastError>>

------------------------------------------------------------------------------
(* External: Remote Configuration, and the other writer of lastError *)

externalUnchanged == UNCHANGED <<built, tracer, state, readyAt, start, stop, stopErr,
                                 providerReady>>

DeliverConfig ==
    /\ built = "yes"
    /\ provider # "shut"
    /\ ~config
    /\ config' = TRUE
    /\ UNCHANGED <<provider, lastError>>
    /\ externalUnchanged

\* A withdrawn configuration is cleared, and the provider stays registered.
WithdrawConfig ==
    /\ config
    /\ provider # "shut"
    /\ config' = FALSE
    /\ UNCHANGED <<provider, lastError>>
    /\ externalUnchanged

InitializeProvider ==
    /\ provider = "initializing"
    /\ config
    /\ provider' = "ready"
    /\ UNCHANGED <<config, lastError>>
    /\ externalUnchanged

\* The evaluation handler records its failures in the same Metrics.
HandlerRecordsError ==
    /\ lastError # "evaluation"
    /\ RecordError("evaluation")
    /\ UNCHANGED <<provider, config>>
    /\ externalUnchanged

------------------------------------------------------------------------------

New == StartTracer \/ NewProvider \/ RefuseProvider

Shutdown == \/ ShutdownBegins
            \/ \E failed \in BOOLEAN : ShutdownProvider(failed)
            \/ StopTracer

RemoteConfig == DeliverConfig \/ WithdrawConfig \/ InitializeProvider

BridgeNext == \/ New
              \/ Start
              \/ BeginShutdown
              \/ Shutdown
              \/ RemoteConfig
              \/ HandlerRecordsError

\* The next-state relation with the variables other components share.
BridgeSpec == BridgeInit /\ [][BridgeNext]_bridgeVars

\* InitTimeout bounds the wait, and the goroutine is scheduled.
StartFairness == WF_bridgeVars(ProviderInitialized \/ StartFails)
                 /\ WF_bridgeVars(BecomeReady)
                 /\ WF_bridgeVars(AnnounceReady)

------------------------------------------------------------------------------
(* Properties *)

\* Once a SIGTERM has moved the bridge into shutting_down, nothing brings
\* readiness back, however late the provider finishes initializing (Start's
\* critical section against BeginShutdown).
ShutdownIsFinal ==
    [][state = "shutting_down" => state' = "shutting_down"]_bridgeVars

\* The ready timestamp is written by the step that makes the bridge ready
\* and by no other: a startup overtaken by a SIGTERM never claims to have
\* been ready (Status and /debug/status publish it).
ReadyAtMeansReady ==
    [][readyAt' # readyAt => state = "starting" /\ state' = "ready"]_bridgeVars

\* Readiness is backed by a provider that was initialized and has not been
\* shut down: /readyz answers 200 in state ready alone.
ReadyHasProvider == state = "ready" => provider = "ready"

\* The provider-ready gauge never runs ahead of the state: it is set only
\* when Start itself made the bridge ready.
GaugeFollowsReady == providerReady => readyAt

\* New either hands over a bridge or leaves no tracer running, whichever of
\* its constructors failed.
RefusalStopsTracer == built = "refused" => tracer # "on"

\* Start returns: the wait for the first configuration is bounded.
StartReturns == (start = "waiting") ~> (start \in {"returned", "failed"})
==============================================================================
