--------------------------------- MODULE Pod ---------------------------------
(***************************************************************************)
(* The process as the only container of a Pod: Daemon, with the durations  *)
(* its configuration gives the timers, and with the kubelet that probes,   *)
(* signals and kills it.  Daemon lets timers fire in any order, which      *)
(* covers every setting of the durations; what the settings decide is      *)
(* stated here.                                                            *)
(*                                                                         *)
(* Time is discrete.  What the process computes takes none of it: the      *)
(* clocks advance (Tick) only where everything that runs is waiting for a  *)
(* timer, for a client, for the Agent or for the tracer.  A timer          *)
(* fires at its deadline, neither before nor after.  The kubelet and the   *)
(* Service are modelled from the manifests in deploy/: they are external.  *)
(***************************************************************************)
EXTENDS Daemon, Naturals

CONSTANTS
    DrainDelay, ShutdownTimeout, HandlerTimeout, InitTimeout,  \* the configuration's
    GracePeriod,    \* terminationGracePeriodSeconds
    StartupBudget,  \* what the startup probe waits for
    Propagation,    \* how long the Service routes to a Pod that is not ready
    NewTime,        \* the longest bridge.New takes
    BodyTime,       \* how long a client that is not slow takes for its body
    SilentTime      \* after which Server.Shutdown drops a silent connection

\* What Validate accepts, and what a manifest can say.
ASSUME DurationsAssumption ==
    /\ {ShutdownTimeout, HandlerTimeout, InitTimeout} \subseteq Nat \ {0}
    /\ {DrainDelay, GracePeriod, StartupBudget, Propagation, NewTime, BodyTime, SilentTime}
          \subseteq Nat

VARIABLES
    deleted,   \* the Pod has been deleted
    told,      \* the kubelet has sent the container its SIGTERM
    killed,    \* and its SIGKILL
    observed,  \* the startup probe has succeeded
    uptime,    \* since the container started, up to StartupBudget
    grace,     \* since SIGTERM
    waited,    \* since the container started, then since Start began to wait
    spent,     \* since the drain began, then since the deadline was set
    age,       \* since each handler came to where it is
    routed,    \* history: the Service sent the request, rather than a client
               \* that keeps a connection to a Pod taken out of it
    slow       \* history: a client took longer than BodyTime

clockVars == <<waited, spent, age, routed>>
kubeletVars == <<deleted, told, killed, observed, uptime, grace, slow>>
podVars == <<vars, clockVars, kubeletVars>>

PodTypeOK ==
    /\ deleted \in BOOLEAN /\ told \in BOOLEAN /\ killed \in BOOLEAN
    /\ observed \in BOOLEAN /\ slow \in BOOLEAN
    /\ uptime \in Nat /\ grace \in Nat /\ waited \in Nat /\ spent \in Nat
    /\ age \in [Requests -> Nat]
    /\ routed \in [Requests -> BOOLEAN]

PodInit ==
    /\ deleted = FALSE /\ told = FALSE /\ killed = FALSE /\ observed = FALSE /\ slow = FALSE
    /\ uptime = 0 /\ grace = 0 /\ waited = 0 /\ spent = 0
    /\ age = [r \in Requests |-> 0]
    /\ routed = [r \in Requests |-> FALSE]

------------------------------------------------------------------------------
(* The probes *)

\* MUTANT of Healthz: liveness reports a lost configuration.
HealthzFresh == listener["admin"] = "serving" /\ (readyAt => config)

\* handleHealthz answers 200 whatever the Agent and the provider do.
Healthz == listener["admin"] = "serving"

\* handleReadyz.
Readyz == listener["admin"] = "serving" /\ state = "ready"

\* The Pod is in its Service, or the news that it is not is on its way.
InService == \/ state = "ready"
             \/ readyAt /\ sequence = "draining" /\ spent <= Propagation

------------------------------------------------------------------------------
(* A step of the process, and what it does to the clocks *)

\* MUTANT of DrainDelayPassed: time.Sleep is left out.
DrainDelayNone == TRUE

\* time.Sleep(cfg.DrainDelay).
DrainDelayPassed ==
    sequence = "draining" /\ sequence' # "draining" => spent >= DrainDelay

\* The deadline of context.WithTimeout(ctx, cfg.ShutdownTimeout).
DeadlinePassed == budget = "running" /\ budget' = "expired" => spent >= ShutdownTimeout

\* The deadline of context.WithTimeout(r.Context(), h.timeout).
HandlersTimedOut ==
    \A r \in Requests : ~expired[r] /\ expired'[r] => age[r] >= HandlerTimeout

OnTime == DrainDelayPassed /\ DeadlinePassed /\ HandlersTimedOut

\* MUTANT of Clocks: every step of the sequence gets a deadline of its own.
ClocksPerStep ==
    /\ spent' = IF sequence' # sequence THEN 0 ELSE spent
    /\ waited' = IF start = "idle" /\ start' = "waiting" THEN 0 ELSE waited
    /\ age' = [r \in Requests |-> IF at'[r] # at[r] THEN 0 ELSE age[r]]
    /\ routed' = [r \in Requests |->
                    IF at[r] = "idle" /\ at'[r] # "idle" THEN InService ELSE routed[r]]

\* Where timers start: the drain's, the deadline of all that follows it, the
\* wait of Start, and those of a handler.
Clocks ==
    /\ spent' = IF sequence' # sequence /\ sequence' \in {"draining", "closing"}
                THEN 0 ELSE spent
    /\ waited' = IF start = "idle" /\ start' = "waiting" THEN 0 ELSE waited
    /\ age' = [r \in Requests |-> IF at'[r] # at[r] THEN 0 ELSE age[r]]
    /\ routed' = [r \in Requests |->
                    IF at[r] = "idle" /\ at'[r] # "idle" THEN InService ELSE routed[r]]

Run == /\ ~killed
       /\ Work
       /\ OnTime
       /\ Clocks
       /\ UNCHANGED kubeletVars

------------------------------------------------------------------------------
(* Time passes *)

\* bridge.New, and donegroup.Wait.
MainWaits == \/ main = "building" /\ waited < NewTime
             \/ main = "waiting"

ListenersWait ==
    \A s \in Servers : \/ listener[s] \in {"unlaunched", "failed", "returned"}
                       \/ listener[s] = "serving" /\ ~closed[s]

\* MUTANT of StarterWaits: the wait has no timeout of its own.
StarterWaitsOn ==
    \/ starter \in {"unlaunched", "done"}
    \/ starter = "running" /\ start = "waiting" /\ provider = "initializing" /\ ctx = "live"

\* SetProviderAndWait returns when the provider is ready, when InitTimeout
\* has passed, or when the process ends.
StarterWaits ==
    \/ starter \in {"unlaunched", "done"}
    \/ /\ starter = "running" /\ start = "waiting" /\ provider = "initializing"
       /\ ctx = "live" /\ waited < InitTimeout

\* What the sequence may be waiting for: the drain delay; the connections, of
\* which Shutdown drops a silent one after a while; the flush; a probe; and
\* the tracer, which takes no context.
SequenceWaits ==
    \/ sequence = "idle" /\ (ctx = "live" \/ main = "building")
    \/ sequence = "draining" /\ spent < DrainDelay
    \/ /\ sequence = "waitingEval" /\ spent < ShutdownTimeout
       /\ NoHandlers => spent < SilentTime
    \/ sequence = "bridge" /\ stop = "flushing" /\ spent < ShutdownTimeout
    \/ sequence = "bridge" /\ stop = "untracing"
    \/ sequence = "waitingAdmin" /\ spent < ShutdownTimeout

\* MUTANT of HandlerWaits: the timeout is left to the provider.
HandlerWaitsOn(r) ==
    \/ at[r] \in {"idle", "finished", "decoding"}
    \/ at[r] = "evaluating" /\ worker[r] = "running" /\ ~gone[r]

\* A handler waits for the rest of a body, or for the evaluation.
HandlerWaits(r) ==
    \/ at[r] \in {"idle", "finished", "decoding"}
    \/ at[r] = "evaluating" /\ age[r] < HandlerTimeout /\ worker[r] = "running" /\ ~gone[r]

\* A clock stops one past the last value that is compared with it.
After(clock, bound) == IF clock <= bound THEN clock + 1 ELSE clock

Tick ==
    /\ Alive
    /\ ~killed
    /\ told => grace < GracePeriod
    /\ MainWaits /\ ListenersWait /\ StarterWaits /\ SequenceWaits
    /\ \A r \in Requests : HandlerWaits(r)
    /\ uptime' = After(uptime, StartupBudget)
    /\ grace' = IF told THEN grace + 1 ELSE grace
    /\ waited' = IF main = "building" \/ start = "waiting" THEN waited + 1 ELSE waited
    /\ spent' = IF sequence = "idle" THEN spent
                ELSE IF sequence = "draining" THEN spent + 1
                ELSE After(spent, ShutdownTimeout)
    /\ age' = [r \in Requests |->
                 CASE at[r] = "decoding" -> After(age[r], BodyTime)
                   [] at[r] = "evaluating" -> age[r] + 1
                   [] OTHER -> age[r]]
    /\ slow' = (slow \/ \E r \in Requests : at[r] = "decoding" /\ age[r] >= BodyTime)
    /\ observed' = (observed \/ Readyz)
    /\ UNCHANGED <<vars, routed, deleted, told, killed>>

------------------------------------------------------------------------------
(* The kubelet *)

\* SIGTERM, the first time only.
StopContainer ==
    /\ told' = TRUE
    /\ grace' = IF told THEN grace ELSE 0
    /\ \/ Signal
       \/ ctx # "live" /\ UNCHANGED vars
    /\ UNCHANGED <<clockVars, killed, observed, uptime, slow>>

DeletePod ==
    /\ Alive /\ ~killed
    /\ ~deleted
    /\ deleted' = TRUE
    /\ StopContainer

\* Liveness counts from the success of the startup probe on.
ProbeFails == IF observed THEN ~Healthz ELSE uptime >= StartupBudget /\ ~Readyz

RestartContainer ==
    /\ Alive /\ ~killed
    /\ ~told
    /\ ProbeFails
    /\ StopContainer
    /\ UNCHANGED deleted

Kill ==
    /\ Alive /\ ~killed
    /\ told /\ grace >= GracePeriod
    /\ killed' = TRUE
    /\ UNCHANGED <<vars, clockVars, deleted, told, observed, uptime, grace, slow>>

PodNext == Run \/ Tick \/ DeletePod \/ RestartContainer \/ Kill

PodSpec == Init /\ PodInit /\ [][PodNext]_podVars

------------------------------------------------------------------------------
(* Properties *)

\* The comment in deploy/sidecar/deployment.yaml, with the term it leaves out:
\* a grace period beyond the drain delay, the shutdown timeout and the time
\* New takes lets the flush end before SIGKILL, wherever the SIGTERM comes.
GraceSuffices ==
    GracePeriod > NewTime + DrainDelay + ShutdownTimeout
        => (killed => stop \in {"untracing", "done"})

\* With a handler timeout that leaves room in the shutdown timeout, only a
\* client that does not send its body can make the drain fail: neither an
\* evaluation that hangs nor a connection that stays silent can.
DrainFailureIsClients ==
    BodyTime + HandlerTimeout < ShutdownTimeout /\ SilentTime < ShutdownTimeout
        => ("drain" \in errs => slow)

\* With a startup probe more patient than New and Start, a container that
\* exits with status 0 was deleted: one that never got its configuration says
\* so, rather than die of the probe's SIGTERM and report success.
FailureIsBlamed ==
    StartupBudget > NewTime + InitTimeout => (exit = "success" => deleted)

\* The comments on liveness in deploy/ and on handleHealthz: once the process
\* has been ready, nothing the Agent does makes the kubelet restart it.
OutageIsSurvived == observed /\ ctx = "signal" => deleted

\* With a drain delay that outlasts the propagation of the endpoint's removal,
\* no request that the Service routed here is refused by a gate of the
\* handler (the comment on shutdown).
RoutedIsServed ==
    Propagation < DrainDelay =>
        \A r \in Requests :
            routed[r] /\ Answered(r) /\ answer[r].outcome = "not_ready" => worker[r] = "done"

\* The comment on donegroup.Wait in run: ShutdownTimeout bounds every step of
\* the sequence.
SequenceIsBounded == sequence \notin {"idle", "draining"} => spent <= ShutdownTimeout
==============================================================================
