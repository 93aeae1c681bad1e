------------------------------- MODULE Daemon --------------------------------
(***************************************************************************)
(* cmd/root.go: the process, composed of the bridge, the evaluation        *)
(* handler, two HTTP servers and the termination sequence.                 *)
(*                                                                         *)
(* One context ends everything.  A signal, a listener that cannot serve    *)
(* and a startup that failed each cancel it, the first of them naming the  *)
(* cause; the termination sequence is the context's cleanup.  The main     *)
(* goroutine, the two listeners, the startup goroutine, the sequence and   *)
(* every handler run concurrently, and each has a variable for its place.  *)
(*                                                                         *)
(* donegroup, os/signal and net/http are modelled from how run and         *)
(* shutdown use them: cleanup starts when the context is done, Wait        *)
(* returns when every goroutine and the cleanup have, and Server.Shutdown  *)
(* closes the listener and then waits for the connections, up to its       *)
(* context's deadline.                                                     *)
(***************************************************************************)
EXTENDS Ofrep

VARIABLES
    main,       \* the main goroutine, through run
    exit,       \* the exit status
    ctx,        \* "live", or the cause that cancelled the root context
    starter,    \* the goroutine around Bridge.Start
    listener,   \* the goroutine around ListenAndServe of each server
    closed,     \* Shutdown of the server was called
    drained,    \* evalServer.Shutdown returned nil: no connection is left
    sequence,   \* the termination sequence
    budget,     \* the ShutdownTimeout deadline the sequence runs on
    errs        \* the errors donegroup.Wait will report, by origin

daemonVars == <<main, exit, ctx, starter, listener, closed, drained, sequence,
                budget, errs>>
vars == <<ofrepVars, daemonVars>>

Servers == {"admin", "eval"}

DaemonTypeOK ==
    /\ main \in {"building", "registered", "waiting", "exited"}
    /\ exit \in {"none", "success", "failure"}
    /\ ctx \in {"live", "signal", "listener", "init"}
    /\ starter \in {"unlaunched", "running", "blaming", "done"}
    /\ listener \in [Servers -> {"unlaunched", "launched", "binding", "serving",
                                 "failing", "failed", "returned"}]
    /\ closed \in [Servers -> BOOLEAN]
    /\ drained \in BOOLEAN
    /\ sequence \in {"idle", "draining", "closing", "waitingEval", "bridge",
                     "closingAdmin", "waitingAdmin", "done"}
    /\ budget \in {"unset", "running", "expired"}
    /\ errs \subseteq {"listener", "init", "drain", "provider", "admin"}

DaemonInit ==
    /\ main = "building"
    /\ exit = "none"
    /\ ctx = "live"
    /\ starter = "unlaunched"
    /\ listener = [s \in Servers |-> "unlaunched"]
    /\ closed = [s \in Servers |-> FALSE]
    /\ drained = FALSE
    /\ sequence = "idle"
    /\ budget = "unset"
    /\ errs = {}

Init == OfrepInit /\ DaemonInit

Alive == main # "exited"

\* The first cancellation names the cause; later ones change nothing.
Cancel(cause) == ctx' = IF ctx = "live" THEN cause ELSE ctx

NoHandlers == \A r \in Requests : ~InFlight(r)

------------------------------------------------------------------------------
(* run: the main goroutine *)

\* SIGINT or SIGTERM; the handlers stay installed, so that a second one finds
\* the context already done.
Signal ==
    /\ Alive
    /\ ctx = "live"
    /\ Cancel("signal")
    /\ UNCHANGED <<ofrepVars, main, exit, starter, listener, closed, drained, sequence,
                   budget, errs>>

\* bridge.New runs whether or not a signal has come.
BuildBridge ==
    /\ main = "building"
    /\ New
    /\ UNCHANGED <<evaluations, handlerVars, daemonVars>>

\* bridge.New returned an error, which run and Execute pass on.
BuildFails ==
    /\ main = "building"
    /\ built = "refused"
    /\ main' = "exited"
    /\ exit' = "failure"
    /\ UNCHANGED <<ofrepVars, ctx, starter, listener, closed, drained, sequence, budget, errs>>

\* donegroup.Cleanup: from here on a done context starts the sequence.  The
\* errors that it and the two NewHandler calls may return are left out: with the
\* arguments that run passes they return none.
RegisterCleanup ==
    /\ main = "building"
    /\ built = "yes"
    /\ main' = "registered"
    /\ UNCHANGED <<ofrepVars, exit, ctx, starter, listener, closed, drained, sequence,
                   budget, errs>>

\* The three donegroup.Go calls; they start goroutines even on a done context.
Launch ==
    /\ main = "registered"
    /\ main' = "waiting"
    /\ listener' = [s \in Servers |-> "launched"]
    /\ starter' = "running"
    /\ UNCHANGED <<ofrepVars, exit, ctx, closed, drained, sequence, budget, errs>>

\* MUTANT of WaitReturns: run ignores what the goroutines reported.
WaitReturnsQuietly ==
    /\ main = "waiting"
    /\ sequence = "done"
    /\ starter = "done"
    /\ \A s \in Servers : listener[s] \in {"failed", "returned"}
    /\ main' = "exited"
    /\ exit' = "success"
    /\ UNCHANGED <<ofrepVars, ctx, starter, listener, closed, drained, sequence, budget, errs>>

\* donegroup.Wait joins what the goroutines and the cleanup returned, and
\* Execute exits with status 1 for any error.
WaitReturns ==
    /\ main = "waiting"
    /\ sequence = "done"
    /\ starter = "done"
    /\ \A s \in Servers : listener[s] \in {"failed", "returned"}
    /\ main' = "exited"
    /\ exit' = IF errs = {} THEN "success" ELSE "failure"
    /\ UNCHANGED <<ofrepVars, ctx, starter, listener, closed, drained, sequence, budget, errs>>

------------------------------------------------------------------------------
(* run: the listener goroutines *)

listenerUnchanged == UNCHANGED <<ofrepVars, main, exit, starter, closed, drained,
                                 sequence, budget>>

MoveListener(s, from, to) ==
    /\ listener[s] = from
    /\ listener' = [listener EXCEPT ![s] = to]

\* ListenAndServe refuses a server already shut down, then binds.
Listen(s) ==
    /\ Alive
    /\ MoveListener(s, "launched", IF closed[s] THEN "returned" ELSE "binding")
    /\ UNCHANGED <<ctx, errs>> /\ listenerUnchanged

\* net.Listen succeeds or fails, and Serve accepts until the server closes.
Bind(s) ==
    /\ Alive
    /\ \/ MoveListener(s, "binding", "serving")
       \/ MoveListener(s, "binding", "failing")
    /\ UNCHANGED <<ctx, errs>> /\ listenerUnchanged

\* ErrServerClosed, which is not an error.
ServeReturns(s) ==
    /\ Alive
    /\ closed[s]
    /\ MoveListener(s, "serving", "returned")
    /\ UNCHANGED <<ctx, errs>> /\ listenerUnchanged

\* MUTANT of ListenFails: the goroutine cancels and then returns nil.
ListenFailsQuietly(s) ==
    /\ Alive
    /\ MoveListener(s, "failing", "failed")
    /\ Cancel("listener")
    /\ UNCHANGED errs
    /\ listenerUnchanged

\* Any other error cancels the process and is reported.
ListenFails(s) ==
    /\ Alive
    /\ MoveListener(s, "failing", "failed")
    /\ Cancel("listener")
    /\ errs' = errs \cup {"listener"}
    /\ listenerUnchanged

RunListener(s) == Listen(s) \/ Bind(s) \/ ServeReturns(s) \/ ListenFails(s)

------------------------------------------------------------------------------
(* run: the startup goroutine *)

starterUnchanged == UNCHANGED <<ofrepVars, main, exit, listener, closed, drained,
                                sequence, budget>>

RunStart ==
    /\ Alive
    /\ starter = "running"
    /\ Start
    /\ UNCHANGED <<evaluations, handlerVars, daemonVars>>

StartSucceeded ==
    /\ Alive
    /\ starter = "running"
    /\ start = "returned"
    /\ starter' = "done"
    /\ UNCHANGED <<ctx, errs>>
    /\ starterUnchanged

\* MUTANT of StartFailed: every failed startup is blamed.
StartFailedAlways ==
    /\ Alive
    /\ starter = "running"
    /\ start = "failed"
    /\ starter' = "blaming"
    /\ UNCHANGED <<ctx, errs>>
    /\ starterUnchanged

\* ctx.Err(): a startup cut short by the process stopping is not a failure.
StartFailed ==
    /\ Alive
    /\ starter = "running"
    /\ start = "failed"
    /\ starter' = IF ctx = "live" THEN "blaming" ELSE "done"
    /\ UNCHANGED <<ctx, errs>>
    /\ starterUnchanged

\* MUTANT of BlameStart: the error is logged and the process stays up.
BlameStartOnly ==
    /\ Alive
    /\ starter = "blaming"
    /\ starter' = "done"
    /\ errs' = errs \cup {"init"}
    /\ UNCHANGED ctx
    /\ starterUnchanged

\* cancel(err) and return err; a signal may have come since the check.
BlameStart ==
    /\ Alive
    /\ starter = "blaming"
    /\ starter' = "done"
    /\ Cancel("init")
    /\ errs' = errs \cup {"init"}
    /\ starterUnchanged

RunStarter == RunStart \/ StartSucceeded \/ StartFailed \/ BlameStart

------------------------------------------------------------------------------
(* shutdown: the termination sequence *)

Advance(from, to) == sequence = from /\ sequence' = to

sequenceUnchanged == UNCHANGED <<main, exit, ctx, starter, listener>>

\* Readiness drops, and the drain delay begins.
BeginDrain ==
    /\ main \in {"registered", "waiting"}
    /\ ctx # "live"
    /\ Advance("idle", "draining")
    /\ BeginShutdown
    /\ UNCHANGED <<evaluations, handlerVars, closed, drained, budget, errs>>
    /\ sequenceUnchanged

\* MUTANT of EndDrain: nobody tells the handler.
EndDrainServing ==
    /\ Advance("draining", "closing")
    /\ budget' = "running"
    /\ UNCHANGED <<ofrepVars, closed, drained, errs>>
    /\ sequenceUnchanged

\* The drain delay has passed: requests that arrive from now on are refused,
\* and the deadline of the remaining steps starts.
EndDrain ==
    /\ Advance("draining", "closing")
    /\ StopServing
    /\ budget' = "running"
    /\ UNCHANGED <<closed, drained, errs>>
    /\ sequenceUnchanged

\* evalServer.Shutdown: without connections it returns at once; otherwise it
\* waits.  A listener that never served has no connection, and one that did
\* may have one that has not sent its request yet.
CloseEval ==
    /\ closed' = [closed EXCEPT !["eval"] = TRUE]
    /\ \/ /\ Advance("closing", "bridge")
          /\ NoHandlers
          /\ drained' = TRUE
       \/ /\ Advance("closing", "waitingEval")
          /\ listener["eval"] = "serving"
          /\ UNCHANGED drained
    /\ UNCHANGED <<ofrepVars, budget, errs>>
    /\ sequenceUnchanged

EvalDrained ==
    /\ Advance("waitingEval", "bridge")
    /\ NoHandlers
    /\ drained' = TRUE
    /\ UNCHANGED <<ofrepVars, closed, budget, errs>>
    /\ sequenceUnchanged

\* MUTANT of EvalTimesOut: Shutdown is given a context without a deadline.
EvalTimesOutNever ==
    /\ Advance("waitingEval", "bridge")
    /\ budget = "expired"
    /\ NoHandlers
    /\ errs' = errs \cup {"drain"}
    /\ UNCHANGED <<ofrepVars, closed, drained, budget>>
    /\ sequenceUnchanged

\* MUTANT of EvalTimesOut: the drain error is only logged.
EvalTimesOutQuietly ==
    /\ Advance("waitingEval", "bridge")
    /\ budget = "expired"
    /\ UNCHANGED <<ofrepVars, closed, drained, budget, errs>>
    /\ sequenceUnchanged

\* The deadline passed first: the sequence goes on, the handlers too.
EvalTimesOut ==
    /\ Advance("waitingEval", "bridge")
    /\ budget = "expired"
    /\ errs' = errs \cup {"drain"}
    /\ UNCHANGED <<ofrepVars, closed, drained, budget>>
    /\ sequenceUnchanged

\* MUTANT of StopBridge: the provider goes down as soon as the drain delay
\* has begun, while the evaluation listener still serves.
StopBridgeEarly ==
    /\ sequence \in {"draining", "bridge"}
    /\ \/ (ShutdownBegins \/ StopTracer) /\ UNCHANGED <<evaluations, handlerVars>>
       \/ \E failed \in BOOLEAN : FlushExposures(failed)
    /\ UNCHANGED daemonVars

\* MUTANT of StopBridge: with the deadline passed, the flush is skipped.
StopBridgeUnflushed ==
    /\ sequence = "bridge"
    /\ \/ (ShutdownBegins \/ StopTracer) /\ UNCHANGED <<evaluations, handlerVars>>
       \/ \E failed \in BOOLEAN : budget # "expired" /\ FlushExposures(failed)
       \/ /\ budget = "expired" /\ stop = "flushing"
          /\ stop' = "done" /\ tracer' = "stopped"
          /\ UNCHANGED <<built, state, readyAt, start, stopErr, provider, config, providerReady,
                         lastError, evaluations, handlerVars>>
    /\ UNCHANGED daemonVars

\* Bridge.Shutdown, on what is left of the deadline.
StopBridge ==
    /\ sequence = "bridge"
    /\ \/ (ShutdownBegins \/ StopTracer) /\ UNCHANGED <<evaluations, handlerVars>>
       \/ \E failed \in BOOLEAN : FlushExposures(failed)
    /\ UNCHANGED daemonVars

BridgeStopped ==
    /\ Advance("bridge", "closingAdmin")
    /\ stop = "done"
    /\ errs' = IF stopErr THEN errs \cup {"provider"} ELSE errs
    /\ UNCHANGED <<ofrepVars, closed, drained, budget>>
    /\ sequenceUnchanged

\* adminServer.Shutdown; a probe may be in progress.
CloseAdmin ==
    /\ closed' = [closed EXCEPT !["admin"] = TRUE]
    /\ \/ Advance("closingAdmin", "done")
       \/ Advance("closingAdmin", "waitingAdmin") /\ listener["admin"] = "serving"
    /\ UNCHANGED <<ofrepVars, drained, budget, errs>>
    /\ sequenceUnchanged

AdminDrained ==
    /\ Advance("waitingAdmin", "done")
    /\ UNCHANGED <<ofrepVars, closed, drained, budget, errs>>
    /\ sequenceUnchanged

AdminTimesOut ==
    /\ Advance("waitingAdmin", "done")
    /\ budget = "expired"
    /\ errs' = errs \cup {"admin"}
    /\ UNCHANGED <<ofrepVars, closed, drained, budget>>
    /\ sequenceUnchanged

BudgetExpires ==
    /\ Alive
    /\ budget = "running"
    /\ sequence # "done"
    /\ budget' = "expired"
    /\ UNCHANGED <<ofrepVars, sequence, closed, drained, errs>>
    /\ sequenceUnchanged

RunSequence == /\ Alive
               /\ \/ BeginDrain \/ EndDrain \/ CloseEval \/ EvalDrained \/ EvalTimesOut
                  \/ StopBridge \/ BridgeStopped
                  \/ CloseAdmin \/ AdminDrained \/ AdminTimesOut

------------------------------------------------------------------------------
(* The traffic *)

\* A request comes over a new connection, or over one that Shutdown has not
\* closed: until it has returned nil, connections may be left.
Accept(r) ==
    /\ Alive
    /\ listener["eval"] \in {"serving", "returned"}
    /\ ~drained
    /\ Arrive(r)
    /\ UNCHANGED daemonVars

Serve(r) ==
    /\ Alive
    /\ Request(r)
    /\ UNCHANGED daemonVars

\* The SDK's own goroutines: what the Agent delivers, and what goes to it.
Agent ==
    /\ Alive
    /\ \/ RemoteConfig /\ UNCHANGED <<evaluations, handlerVars>>
       \/ PeriodicFlush
    /\ UNCHANGED daemonVars

RunMain == BuildBridge \/ BuildFails \/ RegisterCleanup \/ Launch \/ WaitReturns

\* Everything but the signal: the process, its clients and the Agent.
Work == \/ RunMain
        \/ \E s \in Servers : RunListener(s)
        \/ RunStarter
        \/ RunSequence \/ BudgetExpires
        \/ \E r \in Requests : Accept(r)
        \/ \E r \in Requests : Serve(r)
        \/ Agent

Next == Work \/ Signal

\* Goroutines are scheduled, timers fire, and the SDK's calls return, the
\* ones that take a context when it is done at the latest.  Nothing is assumed
\* of clients, of running evaluations or of the Agent.
Fairness == /\ WF_vars(RunMain)
            /\ \A s \in Servers : WF_vars(RunListener(s))
            /\ WF_vars(RunStarter)
            /\ WF_vars(RunSequence)
            /\ WF_vars(BudgetExpires)

Spec == Init /\ [][Next]_vars

FairSpec == Spec /\ Fairness

TypeOK == MetricsTypeOK /\ BridgeTypeOK /\ HandlerTypeOK /\ DaemonTypeOK

------------------------------------------------------------------------------
(* Properties *)

\* The process drives its handlers and its bridge only as they allow: every
\* step of the daemon is a step of Ofrep's own specification or leaves its
\* part alone, so whatever holds of that holds here.
ImplementsOfrep == OfrepSafety

\* A clean exit strands nothing: every request was answered, and no value that
\* a caller got has an exposure event that was recorded too late for the last
\* flush or left behind by it.  Whether a send then succeeded is not known to
\* the process.  It takes the order of the whole sequence against every handler
\* and worker (shutdown in root.go).
CleanExitStrandsNothing ==
    exit = "success" =>
        \A r \in Requests : ~InFlight(r) /\ (HasValue(r) => ~Unsent(r))

\* Unless the drain timed out, the provider is not shut down under a handler.
ProviderOutlivesHandlers ==
    provider = "shut" /\ "drain" \notin errs => NoHandlers

\* A request is refused for shutting down only once readiness has dropped, and
\* the evaluation listener closes only behind the handler's refusal; the
\* operational listener answers probes until the bridge is down.
ShutdownOrder ==
    /\ stopped => state = "shutting_down"
    /\ closed["eval"] => stopped
    /\ closed["admin"] => stop = "done"

\* Only a signal ends the process with status 0: a listener that cannot serve
\* and an Agent that never delivered a configuration make the container
\* restart.
SuccessNeedsSignal == exit = "success" => ctx = "signal"

\* What went wrong on the way out shows in the exit status: a drain that timed
\* out, and a provider whose last flush failed.
LossIsReported ==
    exit = "success" => stop = "done" /\ ~stopErr /\ drained

\* A startup that the end of the process cuts short is not reported as a
\* failure (the comment in run on Start's error).
CutShortIsNoFailure ==
    []((ctx # "live" /\ start \in {"idle", "waiting"}) => []("init" \notin errs))

\* However a client stalls its body or the provider its evaluation, a process
\* whose context has ended exits.
ProcessExits == (ctx # "live") ~> (main = "exited")

\* Startup is decided: the process becomes ready, or its context ends.
StartupIsDecided == (main = "waiting") ~> (state = "ready" \/ ctx # "live")

\* The comment on shutdown: the provider is shut down only after the listener
\* has drained.
ProviderShutAfterDrain == provider = "shut" => NoHandlers

\* The help text of ddflagd_provider_ready: whether the official provider
\* holds a flag configuration.
GaugeMeansConfig == providerReady => config

------------------------------------------------------------------------------
(* What a Deployment relies on, as a specification of its own: Lifecycle *)

\* The phase an observer of the probes and of the process could tell.
phase == IF main = "exited" THEN "exited"
         ELSE IF stopped THEN "stopping"
         ELSE IF state = "shutting_down" THEN "draining"
         ELSE IF state = "ready" THEN "ready"
         ELSE "starting"

\* The requests whose caller has a value with an event that waits for a send.
owed == {r \in Requests : HasValue(r) /\ Unsent(r)}

L == INSTANCE Lifecycle WITH phase <- phase, owed <- owed, status <- exit

\* The daemon implements Lifecycle: phases only move forward, and the status
\* is success only after a shutdown that left nothing owed.
ImplementsLifecycle == L!Spec
==============================================================================
