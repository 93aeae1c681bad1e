------------------------------ MODULE Pod_proofs -----------------------------
(***************************************************************************)
(* Proofs about the container, for any durations and any finite set of     *)
(* requests.                                                               *)
(*                                                                         *)
(* The clocks and the kubelet only restrict when the process moves: every  *)
(* step is a step of Daemon or leaves it alone, so DaemonInv carries over. *)
(* What is proved on top of it follows the clocks through the places where *)
(* time may pass, one invariant for each property.                         *)
(***************************************************************************)
EXTENDS Pod, Daemon_proofs

USE DEF vars, ofrepVars, handlerVars, daemonVars

\* Every step of the container is a step of the process or leaves it alone.
LEMMA PodStepRefines == [PodNext]_podVars => [Next]_vars
<1> SUFFICES ASSUME PodNext
             PROVE  Next \/ UNCHANGED vars
  BY DEF podVars
<1>1. CASE Run
  BY <1>1 DEF Run, Next
<1>2. CASE Tick
  BY <1>2 DEF Tick
<1>3. ASSUME StopContainer
      PROVE  Next \/ UNCHANGED vars
  BY <1>3 DEF StopContainer, Next
<1>4. CASE Kill
  BY <1>4 DEF Kill
<1> QED
  BY <1>1, <1>2, <1>3, <1>4 DEF PodNext, DeletePod, RestartContainer

\* A Pod runs the process that Daemon specifies: whatever holds of that at any
\* speed of its timers holds at the configured one.
THEOREM PodRunsDaemon == PodSpec => Spec
<1>1. Init /\ PodInit => Init
  OBVIOUS
<1>2. [PodNext]_podVars => [Next]_vars
  BY PodStepRefines
<1> QED
  BY <1>1, <1>2, PTL DEF PodSpec, Spec

------------------------------------------------------------------------------
(* How the process moves, and what it has started when *)

\* Nothing runs before the cleanup is registered and the goroutines launched.
MainInv ==
    /\ main \in {"building", "registered"} =>
          /\ starter = "unlaunched" /\ start = "idle"
          /\ \A s \in Servers : listener[s] = "unlaunched"
    /\ main = "building" => sequence = "idle"
    /\ main = "waiting" => starter # "unlaunched" /\ listener["admin"] # "unlaunched"
    /\ state = "shutting_down" => sequence # "idle"

\* What one step of the process may do to the variables that decide where
\* time may pass.
ControlMoves ==
    /\ \/ main' = main
       \/ main = "building" /\ main' \in {"registered", "exited"}
       \/ main = "registered" /\ main' = "waiting"
       \/ main = "waiting" /\ main' = "exited"
    /\ starter = "unlaunched" => starter' = "unlaunched" \/ main' = "waiting"
    /\ main' = "waiting" => starter' # "unlaunched"
    /\ state' = "shutting_down" => state = "shutting_down" \/ sequence' # "idle"
    /\ starter' # starter /\ starter' = "done" /\ ctx' = "live" => start = "returned"
    /\ start' # start => starter = "running" /\ starter' = "running" /\ main' = main
                         /\ sequence' = sequence /\ stop' = stop
    /\ start = "returned" => start' = "returned"
    /\ \/ sequence' = sequence
       \/ sequence = "idle" /\ sequence' = "draining" /\ main \in {"registered", "waiting"}
       \/ sequence = "draining" /\ sequence' = "closing" /\ budget' = "running"
       \/ sequence = "closing" /\ sequence' \in {"waitingEval", "bridge"}
       \/ sequence = "waitingEval" /\ sequence' = "bridge"
       \/ sequence \in Late /\ sequence' \in Late \ {"bridge"}
    /\ \/ budget' = budget
       \/ sequence = "draining" /\ sequence' = "closing"
       \/ budget = "running" /\ budget' = "expired" /\ sequence' = sequence
    /\ "drain" \in errs' => \/ "drain" \in errs
                            \/ sequence = "waitingEval" /\ budget = "expired"
    /\ \/ ctx' = ctx
       \/ ctx = "live" /\ ctx' \in {"listener", "init"}
    /\ stop \in {"untracing", "done"} => stop' \in {"untracing", "done"}
    /\ stop' # stop => sequence = "bridge" /\ sequence' = "bridge"

\* The same for the operational listener.
ListenerMoves ==
    /\ listener["admin"] \in {"serving", "returned"}
          => listener'["admin"] \in {"serving", "returned"}
    /\ listener'["admin"] # listener["admin"] /\ listener'["admin"] = "returned"
          => closed'["admin"]
    /\ listener'["admin"] # listener["admin"] /\ listener'["admin"] = "failed"
          => ctx' # "live"
    /\ closed["admin"] => closed'["admin"]
    /\ main' = "waiting" => listener'["admin"] # "unlaunched"
    /\ \A s \in Servers : listener[s] = "unlaunched" =>
          listener'[s] = "unlaunched" \/ main' = "waiting"

LEMMA StartFrame ==
    ASSUME Start
    PROVE  /\ start # "returned" /\ UNCHANGED stop
           /\ state' = "shutting_down" => state = "shutting_down"
  BY DEF Start, RegisterProvider, ProviderInitialized, StartFails, BecomeReady, AnnounceReady,
         startUnchanged

LEMMA BesideStart ==
    ASSUME New \/ RemoteConfig
    PROVE  /\ UNCHANGED <<start, stop>>
           /\ state' = "shutting_down" => state = "shutting_down"
  BY DEF New, StartTracer, NewProvider, RefuseProvider, newUnchanged, RemoteConfig,
         DeliverConfig, WithdrawConfig, InitializeProvider, externalUnchanged

LEMMA WorkMoves ==
    ASSUME DaemonInv, MainInv, Work
    PROVE  ControlMoves /\ ListenerMoves
<1> DEFINE Goal == ControlMoves /\ ListenerMoves
<1>0. /\ DaemonTypeOK /\ SequenceInv /\ ProcessInv
      /\ main = "waiting" => starter # "unlaunched" /\ listener["admin"] # "unlaunched"
  BY DEF DaemonInv, MainInv
<1>a. ASSUME UNCHANGED <<daemonVars, start, stop>>,
             state' = "shutting_down" => state = "shutting_down"
      PROVE  Goal
  BY <1>0, <1>a DEF ControlMoves, ListenerMoves
<1> USE DEF DaemonTypeOK, ControlMoves, ListenerMoves, Servers, Late, Cancel
<1>1. CASE BuildBridge \/ Agent
  <2>1. CASE PeriodicFlush /\ UNCHANGED daemonVars
    BY <1>a, <2>1 DEF PeriodicFlush, bridgeVars
  <2> QED
    BY <1>1, <1>a, <2>1, BesideStart DEF BuildBridge, Agent
<1>2. CASE BuildFails \/ RegisterCleanup
  BY <1>0, <1>2 DEF BuildFails, RegisterCleanup, bridgeVars
<1>3. CASE Launch
  BY <1>0, <1>3 DEF Launch, MainInv, bridgeVars
<1>4. CASE WaitReturns
  BY <1>0, <1>4 DEF WaitReturns, bridgeVars
<1>5. ASSUME NEW s \in Servers, Listen(s)
      PROVE  Goal
  BY <1>0, <1>5 DEF Listen, MoveListener, listenerUnchanged, bridgeVars
<1>6. ASSUME NEW s \in Servers, Bind(s)
      PROVE  Goal
  BY <1>0, <1>6 DEF Bind, MoveListener, listenerUnchanged, bridgeVars
<1>7. ASSUME NEW s \in Servers, ServeReturns(s)
      PROVE  Goal
  BY <1>0, <1>7 DEF ServeReturns, MoveListener, listenerUnchanged, bridgeVars
<1>8. ASSUME NEW s \in Servers, ListenFails(s)
      PROVE  Goal
  BY <1>0, <1>8 DEF ListenFails, MoveListener, listenerUnchanged, bridgeVars
<1>9. CASE RunStart
  BY <1>0, <1>9, StartFrame DEF RunStart
<1>10. CASE StartSucceeded \/ StartFailed \/ BlameStart
  BY <1>0, <1>10 DEF StartSucceeded, StartFailed, BlameStart, starterUnchanged, bridgeVars
<1>11. CASE BeginDrain
  BY <1>0, <1>11 DEF BeginDrain, BeginShutdown, Advance, sequenceUnchanged
<1>12. CASE EndDrain
  BY <1>0, <1>12 DEF EndDrain, StopServing, Advance, sequenceUnchanged, bridgeVars
<1>13. CASE CloseEval
  BY <1>0, <1>13 DEF CloseEval, Advance, sequenceUnchanged, bridgeVars
<1>14. CASE EvalDrained \/ EvalTimesOut
  BY <1>0, <1>14 DEF EvalDrained, EvalTimesOut, Advance, sequenceUnchanged, bridgeVars
<1>15. CASE StopBridge
  BY <1>0, <1>15 DEF StopBridge, FlushExposures, ShutdownBegins, ShutdownProvider, StopTracer
<1>16. CASE BridgeStopped \/ CloseAdmin
  BY <1>0, <1>16 DEF BridgeStopped, CloseAdmin, Advance, sequenceUnchanged, bridgeVars
<1>17. CASE AdminDrained \/ AdminTimesOut
  BY <1>0, <1>17 DEF AdminDrained, AdminTimesOut, Advance, sequenceUnchanged, bridgeVars
<1>18. CASE BudgetExpires
  BY <1>0, <1>18 DEF BudgetExpires, sequenceUnchanged, bridgeVars
<1>19. ASSUME NEW r \in Requests, Accept(r)
       PROVE  Goal
  BY <1>19, <1>a DEF Accept, Arrive, bridgeVars
<1>20. ASSUME NEW r \in Requests, Serve(r)
       PROVE  Goal
  BY <1>20, <1>a, RequestRefines DEF Serve, HandlerRecordsError, externalUnchanged, bridgeVars
<1> QED
  BY <1>1, <1>2, <1>3, <1>4, <1>5, <1>6, <1>7, <1>8, <1>9, <1>10, <1>11, <1>12, <1>13,
     <1>14, <1>15, <1>16, <1>17, <1>18, <1>19, <1>20
     DEF Work, RunMain, RunListener, RunStarter, RunSequence

\* What one step of the process may do to a request.
RequestMoves(q) ==
    \/ at'[q] = at[q] /\ answer'[q] = answer[q] /\ promised'[q] = promised[q]
    \/ at[q] = "idle" /\ at'[q] = "entered"
    \/ at[q] = "entered" /\ at'[q] = "decoding" /\ ~stopped /\ promised'[q] = readyAt
    \/ at[q] = "entered" /\ at'[q] = "answered" /\ stopped
    \/ at[q] = "entered" /\ at'[q] = "finished" /\ answer'[q].outcome = "uncounted"
    \/ /\ promised'[q] = promised[q]
       /\ \/ at[q] = "decoding" /\ at'[q] \in {"decoded", "answered"}
          \/ at[q] = "decoded" /\ at'[q] \in {"evaluating", "answered"}
          \/ at[q] = "evaluating" /\ at'[q] = "answered"
          \/ at[q] = "answered" /\ at'[q] = "observed" /\ answer'[q] = answer[q]
          \/ at[q] = "observed" /\ at'[q] = "finished" /\ answer'[q] = answer[q]

LEMMA RequestMovesOn ==
    ASSUME HandlerTypeOK, NEW q \in Requests, Request(q) \/ Arrive(q)
    PROVE  RequestMoves(q)
<1> USE DEF RequestMoves, HandlerTypeOK, Step, Points
<1>1. CASE Arrive(q)
  BY <1>1 DEF Arrive
<1>2. CASE Deflect(q)
  <2>1. PICK status \in Deflections, code \in {"", "GENERAL"} :
           Answer(q, Failure(status, code, "uncounted", {}), FALSE)
    BY <1>2 DEF Deflect
  <2>2. answer'[q].outcome = "uncounted"
    BY <2>1 DEF Answer, Respond, Failure
  <2> QED
    BY <1>2, <2>2 DEF Deflect
<1>3. CASE CheckStopped(q)
  BY <1>3 DEF CheckStopped
<1>4. CASE Decode(q)
  BY <1>4 DEF Decode
<1>5. CASE CheckState(q)
  BY <1>5 DEF CheckState
<1>6. CASE ReceiveResult(q) \/ ContextDone(q)
  BY <1>6 DEF ReceiveResult, ContextDone, selectUnchanged
<1>7. CASE Observe(q) \/ ReportFailure(q)
  BY <1>7 DEF Observe, ReportFailure
<1>8. CASE Evaluate(q) \/ SendResult(q) \/ TimeoutFires(q) \/ ClientGone(q)
  BY <1>8 DEF Evaluate, SendResult, TimeoutFires, ClientGone
<1> QED
  BY <1>1, <1>2, <1>3, <1>4, <1>5, <1>6, <1>7, <1>8 DEF Request, Handle

LEMMA WorkRequestMoves ==
    ASSUME DaemonInv, Work, NEW q \in Requests
    PROVE  RequestMoves(q)
<1>0. HandlerTypeOK
  BY DEF DaemonInv, OfrepInv
<1>1. ASSUME NEW r \in Requests, Request(r) \/ Arrive(r)
      PROVE  RequestMoves(q)
  <2>1. CASE q = r
    BY <1>0, <1>1, <2>1, RequestMovesOn
  <2>2. CASE q # r
    BY <1>0, <1>1, <2>2, OtherRequests DEF RequestMoves
  <2> QED
    BY <2>1, <2>2
<1>2. ASSUME UNCHANGED <<at, answer, promised>>
      PROVE  RequestMoves(q)
  BY <1>2 DEF RequestMoves
<1>3. ASSUME NEW r \in Requests, Accept(r) \/ Serve(r)
      PROVE  RequestMoves(q)
  BY <1>1, <1>3 DEF Accept, Serve
<1>4. CASE RunMain \/ RunStarter \/ BudgetExpires \/ Agent
  BY <1>2, <1>4
     DEF RunMain, BuildBridge, BuildFails, RegisterCleanup, Launch, WaitReturns, RunStarter,
         RunStart, StartSucceeded, StartFailed, BlameStart, starterUnchanged, BudgetExpires,
         Agent, PeriodicFlush
<1>5. ASSUME NEW s \in Servers, RunListener(s)
      PROVE  RequestMoves(q)
  BY <1>2, <1>5 DEF RunListener, Listen, Bind, ServeReturns, ListenFails, listenerUnchanged
<1>6. CASE RunSequence
  BY <1>2, <1>6
     DEF RunSequence, BeginDrain, EndDrain, StopServing, CloseEval, EvalDrained, EvalTimesOut,
         StopBridge, FlushExposures, BridgeStopped, CloseAdmin, AdminDrained, AdminTimesOut
<1> QED
  BY <1>3, <1>4, <1>5, <1>6 DEF Work

------------------------------------------------------------------------------
(* The inductive invariant of the container *)

\* The admin listener ends only with the process, and a startup that is over
\* without ending the process has made it ready.
StartupInv ==
    /\ listener["admin"] = "failed" => ctx # "live"
    /\ listener["admin"] = "returned" => closed["admin"]
    /\ starter = "done" /\ ctx = "live" => start = "returned"
    /\ start = "returned" => state \in {"ready", "shutting_down"}
    /\ state = "ready" => readyAt
    /\ start # "idle" => state # "none"

\* SIGTERM has ended the context, if nothing had before.
ToldInv == told => ctx # "live"

PodInv == DaemonInv /\ PodTypeOK /\ MainInv /\ StartupInv /\ ToldInv

LEMMA PodInvInit == Init /\ PodInit => PodInv
<1> SUFFICES ASSUME Init, PodInit
             PROVE  PodInv
  OBVIOUS
<1>1. DaemonInv
  BY DaemonInvInit
<1>2. PodTypeOK /\ ToldInv
  BY DEF PodInit, PodTypeOK, ToldInv
<1>3. MainInv /\ StartupInv
  BY DEF Init, OfrepInit, BridgeInit, DaemonInit, MainInv, StartupInv, Servers
<1> QED
  BY <1>1, <1>2, <1>3 DEF PodInv

\* What the kubelet's signal changes.
LEMMA StopFrame ==
    ASSUME DaemonTypeOK, StopContainer
    PROVE  /\ ctx' # "live" /\ told' /\ grace' = (IF told THEN grace ELSE 0)
           /\ ctx' = (IF ctx = "live" THEN "signal" ELSE ctx)
           /\ UNCHANGED <<ofrepVars, main, exit, starter, listener, closed, drained, sequence,
                          budget, errs>>
           /\ UNCHANGED <<clockVars, killed, observed, uptime, slow>>
  BY DEF StopContainer, Signal, Cancel, DaemonTypeOK

\* The bridge is ready only with its timestamp, and Start returns only once
\* the state is decided.
LEMMA DecidedStep ==
    ASSUME BridgeInv, StampInv, [BridgeNext]_bridgeVars, state = "ready" => readyAt,
           start = "returned" => state \in {"ready", "shutting_down"},
           start # "idle" => state # "none"
    PROVE  /\ state' = "ready" => readyAt'
           /\ start' # "idle" => state' # "none"
           /\ start' = "returned" => state' \in {"ready", "shutting_down"}
<1> USE DEF StampInv, BridgeInv, BridgeTypeOK, BuiltInv, ReadyInv
<1>1. CASE New
  BY <1>1 DEF New, StartTracer, NewProvider, RefuseProvider, newUnchanged
<1>2. CASE RegisterProvider \/ ProviderInitialized \/ StartFails
  BY <1>2 DEF RegisterProvider, ProviderInitialized, StartFails, startUnchanged
<1>3. CASE BecomeReady
  <2>1. state' = "ready" => readyAt'
    <3>1. state' = "ready" => state \in {"starting", "ready"}
      BY <1>3 DEF BecomeReady
    <3>2. state = "starting" \/ readyAt => readyAt'
      BY <1>3, Zenon DEF BecomeReady
    <3> QED
      BY <3>1, <3>2
  <2>2. state \in {"starting", "shutting_down"} /\ start' \in {"announcing", "returned"}
    BY <1>3 DEF BecomeReady, States
  <2>3. state' \in {"ready", "shutting_down"}
    BY <1>3, <2>2 DEF BecomeReady
  <2> QED
    BY <2>1, <2>3
<1>7. CASE AnnounceReady
  BY <1>7 DEF AnnounceReady, startUnchanged
<1>4. CASE BeginShutdown \/ Shutdown
  BY <1>4 DEF BeginShutdown, Shutdown, ShutdownBegins, ShutdownProvider, StopTracer
<1>5. CASE RemoteConfig \/ HandlerRecordsError
  BY <1>5 DEF RemoteConfig, DeliverConfig, WithdrawConfig, InitializeProvider,
              HandlerRecordsError, externalUnchanged
<1>6. CASE UNCHANGED bridgeVars
  BY <1>6 DEF bridgeVars
<1> QED
  BY <1>1, <1>2, <1>3, <1>4, <1>5, <1>6, <1>7 DEF BridgeNext, Start

\* Durations and clocks are naturals, and an InService is a truth value.
LEMMA ClockTypes ==
    ASSUME PodTypeOK, DaemonInv
    PROVE  /\ Clocks => /\ spent' \in Nat /\ waited' \in Nat
                        /\ age' \in [Requests -> Nat] /\ routed' \in [Requests -> BOOLEAN]
           /\ Tick  => /\ uptime' \in Nat /\ grace' \in Nat /\ waited' \in Nat /\ spent' \in Nat
                       /\ age' \in [Requests -> Nat] /\ slow' \in BOOLEAN /\ observed' \in BOOLEAN
<1>1. InService \in BOOLEAN
  BY DEF InService
<1>2. ASSUME Clocks
      PROVE  /\ spent' \in Nat /\ waited' \in Nat /\ age' \in [Requests -> Nat]
             /\ routed' \in [Requests -> BOOLEAN]
  <2>1. spent' \in Nat /\ waited' \in Nat /\ age' \in [Requests -> Nat]
    BY <1>2 DEF Clocks, PodTypeOK
  <2>2. \A r \in Requests :
           (IF at[r] = "idle" /\ at'[r] # "idle" THEN InService ELSE routed[r]) \in BOOLEAN
    BY <1>1 DEF PodTypeOK
  <2> QED
    BY <1>2, <2>1, <2>2 DEF Clocks
<1>3. ASSUME Tick
      PROVE  /\ uptime' \in Nat /\ grace' \in Nat /\ waited' \in Nat /\ spent' \in Nat
             /\ age' \in [Requests -> Nat] /\ slow' \in BOOLEAN /\ observed' \in BOOLEAN
  <2>1. uptime' \in Nat /\ grace' \in Nat /\ waited' \in Nat /\ spent' \in Nat
    BY <1>3 DEF Tick, After, PodTypeOK
  <2>2. age' \in [Requests -> Nat]
    BY <1>3 DEF Tick, After, PodTypeOK
  <2>3. slow' \in BOOLEAN /\ observed' \in BOOLEAN
    BY <1>3, Zenon DEF Tick
  <2> QED
    BY <2>1, <2>2, <2>3
<1> QED
  BY <1>2, <1>3

\* A step of the process preserves what it has started when.
LEMMA RunStep == PodInv /\ Run => PodInv'
<1> SUFFICES ASSUME PodInv, Run
             PROVE  PodInv'
  OBVIOUS
<1>0. DaemonInv /\ PodTypeOK /\ MainInv /\ StartupInv /\ ToldInv
  BY DEF PodInv
<1>1. DaemonInv' /\ [OfrepNext]_ofrepVars
  BY <1>0, DaemonInvStep, StepRefines DEF Run, Next
<1>2. ControlMoves /\ ListenerMoves
  BY <1>0, WorkMoves DEF Run
<1>3. PodTypeOK'
  BY <1>0, ClockTypes DEF Run, PodTypeOK, kubeletVars
<1>4. MainInv'
  <2>1. main' \in {"building", "registered"} => main \in {"building", "registered"}
                                                /\ starter' = "unlaunched"
                                                /\ start' = "idle"
    BY <1>0, <1>2 DEF ControlMoves, MainInv
  <2>2. main' = "building" => main = "building" /\ sequence' = "idle"
    BY <1>0, <1>2 DEF ControlMoves, MainInv, Late
  <2>3. main' = "waiting" => starter' # "unlaunched" /\ listener'["admin"] # "unlaunched"
    BY <1>2 DEF ControlMoves, ListenerMoves
  <2>4. state' = "shutting_down" => sequence' # "idle"
    BY <1>0, <1>2 DEF ControlMoves, MainInv, Late
  <2> QED
    BY <1>0, <1>2, <2>1, <2>2, <2>3, <2>4 DEF MainInv, ListenerMoves
<1>5. StartupInv'
  <2>1. ctx' = "live" => ctx = "live"
    BY <1>2 DEF ControlMoves
  <2>2. listener'["admin"] = "failed" => ctx' # "live"
    BY <1>0, <1>2, <2>1 DEF StartupInv, ListenerMoves
  <2>3. listener'["admin"] = "returned" => closed'["admin"]
    BY <1>0, <1>2 DEF StartupInv, ListenerMoves
  <2>4. starter' = "done" /\ ctx' = "live" => start' = "returned"
    BY <1>0, <1>2, <2>1 DEF StartupInv, ControlMoves
  <2>5. BridgeInv /\ StampInv /\ [BridgeNext]_bridgeVars
    BY <1>0, <1>1, OfrepRefinesBridge DEF DaemonInv, OfrepInv
  <2>6. /\ state' = "ready" => readyAt'
        /\ start' # "idle" => state' # "none"
        /\ start' = "returned" => state' \in {"ready", "shutting_down"}
    BY <1>0, <2>5, DecidedStep DEF StartupInv
  <2> QED
    BY <2>2, <2>3, <2>4, <2>6 DEF StartupInv
<1>6. ToldInv'
  BY <1>0, <1>2 DEF ToldInv, ControlMoves, Run, kubeletVars
<1> QED
  BY <1>1, <1>3, <1>4, <1>5, <1>6 DEF PodInv

\* Neither do time and the kubelet disturb it.
LEMMA PodInvStep == PodInv /\ [PodNext]_podVars => PodInv'
<1> SUFFICES ASSUME PodInv, [PodNext]_podVars
             PROVE  PodInv'
  OBVIOUS
<1>0. DaemonInv /\ DaemonTypeOK /\ PodTypeOK /\ MainInv /\ StartupInv /\ ToldInv
  BY DEF PodInv, DaemonInv
<1>1. DaemonInv'
  BY <1>0, PodStepRefines, DaemonInvStep
<1>2. CASE Run
  BY <1>2, RunStep
<1>3. CASE Tick
  <2>1. PodTypeOK'
    BY <1>0, <1>3, ClockTypes DEF Tick, PodTypeOK
  <2>2. MainInv' /\ StartupInv' /\ ToldInv'
    BY <1>0, <1>3 DEF Tick, MainInv, StartupInv, ToldInv, bridgeVars
  <2> QED
    BY <1>1, <2>1, <2>2 DEF PodInv
<1>4. ASSUME StopContainer, deleted' \in BOOLEAN
      PROVE  PodInv'
  <2>1. PodTypeOK'
    BY <1>0, <1>4, StopFrame DEF PodTypeOK, clockVars, StopContainer
  <2>2. MainInv' /\ StartupInv' /\ ToldInv'
    BY <1>0, <1>4, StopFrame DEF MainInv, StartupInv, ToldInv, bridgeVars
  <2> QED
    BY <1>1, <2>1, <2>2 DEF PodInv
<1>5. CASE DeletePod \/ RestartContainer
  BY <1>0, <1>4, <1>5 DEF DeletePod, RestartContainer, PodTypeOK
<1>6. CASE Kill
  BY <1>0, <1>1, <1>6
     DEF Kill, PodInv, PodTypeOK, clockVars, MainInv, StartupInv, ToldInv, bridgeVars
<1>7. CASE UNCHANGED podVars
  BY <1>0, <1>1, <1>7
     DEF podVars, PodInv, PodTypeOK, clockVars, kubeletVars, MainInv, StartupInv, ToldInv,
         bridgeVars
<1> QED
  BY <1>2, <1>3, <1>5, <1>6, <1>7 DEF PodNext

\* Type correctness of the clocks and of the kubelet's variables, and what
\* they rest on.
THEOREM PodInvariant == PodSpec => []PodInv
<1>1. Init /\ PodInit => PodInv
  BY PodInvInit
<1>2. PodInv /\ [PodNext]_podVars => PodInv'
  BY PodInvStep
<1> QED
  BY <1>1, <1>2, PTL DEF PodSpec

\* The arithmetic below is over naturals.
LEMMA DurationTypes ==
    /\ DrainDelay \in Nat /\ ShutdownTimeout \in Nat /\ HandlerTimeout \in Nat
    /\ InitTimeout \in Nat /\ GracePeriod \in Nat /\ StartupBudget \in Nat
    /\ Propagation \in Nat /\ NewTime \in Nat /\ BodyTime \in Nat /\ SilentTime \in Nat
  BY DurationsAssumption

------------------------------------------------------------------------------
(* The grace period *)

\* The places where time may pass before the flush, in order, and what of the
\* grace period each can have used up by the time it is left.
GraceInv ==
    /\ main = "building" => waited <= NewTime /\ (told => grace <= waited)
    /\ told /\ sequence = "idle" /\ main # "building" => grace <= NewTime
    /\ sequence = "draining" => /\ spent <= DrainDelay
                                /\ told => grace <= NewTime + spent
    /\ sequence \in {"closing", "waitingEval", "bridge"} /\ stop \in {"idle", "flushing"} =>
          /\ spent <= ShutdownTimeout
          /\ told => grace <= NewTime + DrainDelay + spent

LEMMA GraceRun == PodInv /\ GraceInv /\ Run => GraceInv'
<1> SUFFICES ASSUME PodInv, GraceInv, Run
             PROVE  GraceInv'
  OBVIOUS
<1>0. PodTypeOK /\ MainInv /\ BridgeTypeOK
  BY DEF PodInv, DaemonInv, OfrepInv, BridgeInv
<1>1. ControlMoves
  BY WorkMoves DEF Run, PodInv
<1>2. /\ told' = told /\ grace' = grace
      /\ spent' = IF sequence' # sequence /\ sequence' \in {"draining", "closing"}
                  THEN 0 ELSE spent
      /\ start' = start => waited' = waited
  BY DEF Run, kubeletVars, Clocks
<1>3. main' = "building" => main = "building" /\ waited' = waited
  BY <1>0, <1>1, <1>2 DEF ControlMoves, MainInv
<1>4. sequence' = "idle" => sequence = "idle"
  BY <1>1 DEF ControlMoves, Late
<1>5. sequence' = "draining" => \/ sequence = "draining" /\ spent' = spent
                                \/ sequence = "idle" /\ main # "building" /\ spent' = 0
  BY <1>1, <1>2 DEF ControlMoves, Late
<1>6. ASSUME sequence' \in {"closing", "waitingEval", "bridge"}, stop' \in {"idle", "flushing"}
      PROVE  \/ sequence = "draining" /\ spent' = 0
             \/ /\ sequence \in {"closing", "waitingEval", "bridge"}
                /\ stop \in {"idle", "flushing"} /\ spent' = spent
  <2>1. stop \in {"idle", "flushing"}
    BY <1>0, <1>1, <1>6 DEF ControlMoves, BridgeTypeOK
  <2> QED
    BY <1>1, <1>2, <1>6, <2>1 DEF ControlMoves, Late
<1> QED
  BY <1>0, <1>2, <1>3, <1>4, <1>5, <1>6, DurationTypes DEF GraceInv, PodTypeOK

LEMMA GraceStep == PodInv /\ GraceInv /\ [PodNext]_podVars => GraceInv'
<1> SUFFICES ASSUME PodInv, GraceInv, [PodNext]_podVars
             PROVE  GraceInv'
  OBVIOUS
<1>0. PodTypeOK /\ MainInv /\ ToldInv /\ DaemonTypeOK
  BY DEF PodInv, DaemonInv
<1>1. CASE Run
  BY <1>1, GraceRun
<1>2. CASE Tick
  <2>1. UNCHANGED <<main, sequence, stop, told>> /\ (told => grace' = grace + 1)
    BY <1>2 DEF Tick, bridgeVars
  <2>2. CASE main = "building"
    <3>1. waited < NewTime /\ waited' = waited + 1
      BY <1>2, <2>2 DEF Tick, MainWaits
    <3>2. sequence = "idle"
      BY <1>0, <2>2 DEF MainInv
    <3> QED
      BY <1>0, <2>1, <2>2, <3>1, <3>2, DurationTypes DEF GraceInv, PodTypeOK
  <2>3. CASE main # "building" /\ sequence = "idle"
    BY <1>0, <1>2, <2>1, <2>3 DEF GraceInv, Tick, SequenceWaits, ToldInv
  <2>4. CASE main # "building" /\ sequence = "draining"
    <3>1. spent < DrainDelay /\ spent' = spent + 1
      BY <1>2, <2>4 DEF Tick, SequenceWaits
    <3> QED
      BY <1>0, <2>1, <2>4, <3>1, DurationTypes DEF GraceInv, PodTypeOK
  <2>5. CASE main # "building" /\ sequence \in {"closing", "waitingEval", "bridge"}
             /\ stop \in {"idle", "flushing"}
    <3>1. spent < ShutdownTimeout
      BY <1>2, <2>5 DEF Tick, SequenceWaits
    <3>2. spent' = spent + 1
      BY <1>0, <1>2, <2>5, <3>1, DurationTypes DEF Tick, After, PodTypeOK
    <3> QED
      BY <1>0, <2>1, <2>5, <3>1, <3>2, DurationTypes DEF GraceInv, PodTypeOK
  <2> QED
    BY <2>1, <2>2, <2>3, <2>4, <2>5 DEF GraceInv
<1>3. CASE DeletePod \/ RestartContainer
  <2>1. /\ UNCHANGED <<main, sequence, stop, waited, spent>>
        /\ grace' = IF told THEN grace ELSE 0
    BY <1>0, <1>3, StopFrame DEF DeletePod, RestartContainer, clockVars, bridgeVars
  <2> QED
    BY <1>0, <2>1, DurationTypes DEF GraceInv, PodTypeOK
<1>4. CASE Kill \/ UNCHANGED podVars
  BY <1>4 DEF GraceInv, Kill, podVars, clockVars, kubeletVars, bridgeVars
<1> QED
  BY <1>1, <1>2, <1>3, <1>4 DEF PodNext

\* SIGKILL comes when the grace period is over, which is after the flush.
LEMMA KillStep ==
    PodInv /\ GraceInv /\ GraceSuffices /\ [PodNext]_podVars => GraceSuffices'
<1> SUFFICES ASSUME PodInv, GraceInv, GraceSuffices, [PodNext]_podVars,
                    GracePeriod > NewTime + DrainDelay + ShutdownTimeout, killed'
             PROVE  stop' \in {"untracing", "done"}
  BY DEF GraceSuffices
<1>0. PodTypeOK /\ DaemonTypeOK /\ BridgeTypeOK /\ SequenceInv
  BY DEF PodInv, DaemonInv, OfrepInv, BridgeInv
<1>1. CASE Kill
  <2>1. told /\ grace >= GracePeriod /\ stop' = stop
    BY <1>1 DEF Kill, bridgeVars
  <2>2. sequence \in {"closingAdmin", "waitingAdmin", "done"} => stop = "done"
    BY <1>0 DEF SequenceInv, Late
  <2> QED
    BY <1>0, <2>1, <2>2, DurationTypes
       DEF GraceInv, PodTypeOK, DaemonTypeOK, BridgeTypeOK
<1>2. CASE ~Kill
  <2>1. killed /\ stop' = stop
    BY <1>0, <1>2, StopFrame
       DEF PodNext, Run, kubeletVars, Tick, DeletePod, RestartContainer, podVars, bridgeVars
  <2> QED
    BY <2>1 DEF GraceSuffices
<1> QED
  BY <1>1, <1>2

\* For any durations, a grace period beyond New, the drain delay and the
\* shutdown timeout lets the flush end.
THEOREM GraceIsEnough == PodSpec => []GraceSuffices
<1>1. Init /\ PodInit => PodInv /\ GraceInv /\ GraceSuffices
  BY PodInvInit, DurationTypes
     DEF Init, DaemonInit, PodInit, GraceInv, GraceSuffices
<1>2. PodInv /\ GraceInv /\ GraceSuffices /\ [PodNext]_podVars
        => PodInv' /\ GraceInv' /\ GraceSuffices'
  BY PodInvStep, GraceStep, KillStep
<1> QED
  BY <1>1, <1>2, PTL DEF PodSpec

------------------------------------------------------------------------------
(* The drain *)

\* A handler waits no longer than its timeout, and for the body of a client
\* that is not slow no longer than that takes.
AgeInv ==
    \A q \in Requests : /\ at[q] = "evaluating" => age[q] <= HandlerTimeout
                        /\ at[q] = "decoding" /\ ~slow => age[q] <= BodyTime

\* The handlers that run when the evaluation listener closes began before:
\* what they have left to do bounds how long the sequence waits for them.
ClosingInv ==
    ~slow /\ sequence \in {"closing", "waitingEval"} =>
        /\ budget = "running"
        /\ spent <= BodyTime + HandlerTimeout \/ spent <= SilentTime
        /\ \A q \in Requests : /\ at[q] = "decoding" => spent <= age[q]
                               /\ at[q] = "decoded" => spent <= BodyTime
                               /\ at[q] = "evaluating" => spent <= BodyTime + age[q]

\* The clock of a request starts again where the request moves.
LEMMA AgeMoves ==
    ASSUME PodInv, Run, NEW q \in Requests
    PROVE  /\ RequestMoves(q)
           /\ age'[q] = IF at'[q] # at[q] THEN 0 ELSE age[q]
           /\ age[q] \in Nat /\ age'[q] \in Nat
<1>1. RequestMoves(q)
  BY WorkRequestMoves DEF PodInv, Run
<1>2. age'[q] = IF at'[q] # at[q] THEN 0 ELSE age[q]
  BY DEF Run, Clocks
<1>3. age[q] \in Nat
  BY DEF PodInv, PodTypeOK
<1> QED
  BY <1>1, <1>2, <1>3

\* A tick that leaves every client in time finds every body within its time.
LEMMA BodyInTime ==
    ASSUME PodTypeOK, Tick, ~slow', NEW q \in Requests, at[q] = "decoding"
    PROVE  age[q] < BodyTime
<1>1. ~ \E r \in Requests : at[r] = "decoding" /\ age[r] >= BodyTime
  BY Zenon DEF Tick
<1>2. ~(age[q] >= BodyTime)
  BY <1>1, Zenon
<1>3. age[q] \in Nat
  BY DEF PodTypeOK
<1> QED
  BY <1>2, <1>3, DurationTypes

LEMMA AgeStep == PodInv /\ AgeInv /\ [PodNext]_podVars => AgeInv'
<1> SUFFICES ASSUME PodInv, AgeInv, [PodNext]_podVars, NEW q \in Requests
             PROVE  /\ at'[q] = "evaluating" => age'[q] <= HandlerTimeout
                    /\ at'[q] = "decoding" /\ ~slow' => age'[q] <= BodyTime
  BY DEF AgeInv
<1>0. PodTypeOK /\ DaemonTypeOK /\ age[q] \in Nat
  BY DEF PodInv, DaemonInv, PodTypeOK
<1>1. CASE Run
  <2>1. slow' = slow
    BY <1>1 DEF Run, kubeletVars
  <2> QED
    BY <1>1, <2>1, AgeMoves, DurationTypes DEF AgeInv
<1>2. CASE Tick
  <2>1. /\ at'[q] = at[q]
        /\ age'[q] = CASE at[q] = "decoding" -> After(age[q], BodyTime)
                       [] at[q] = "evaluating" -> age[q] + 1
                       [] OTHER -> age[q]
    BY <1>2 DEF Tick
  <2>2. at[q] = "evaluating" => age[q] < HandlerTimeout
    BY <1>2 DEF Tick, HandlerWaits
  <2>3. at[q] = "decoding" /\ ~slow' => age[q] < BodyTime
    BY <1>0, <1>2, BodyInTime
  <2> QED
    BY <1>0, <2>1, <2>2, <2>3, DurationTypes DEF After
<1>3. CASE DeletePod \/ RestartContainer \/ Kill \/ UNCHANGED podVars
  <2>1. UNCHANGED <<at, age, slow>>
    BY <1>0, <1>3, StopFrame
       DEF DeletePod, RestartContainer, Kill, clockVars, podVars, kubeletVars
  <2> QED
    BY <2>1 DEF AgeInv
<1> QED
  BY <1>1, <1>2, <1>3 DEF PodNext

\* The durations leave the handlers and the silent connections their time.
DrainFits == BodyTime + HandlerTimeout < ShutdownTimeout /\ SilentTime < ShutdownTimeout

LEMMA ClosingRun == PodInv /\ AgeInv /\ ClosingInv /\ DrainFits /\ Run => ClosingInv'
<1> SUFFICES ASSUME PodInv, AgeInv, ClosingInv, DrainFits, Run,
                    ~slow', sequence' \in {"closing", "waitingEval"}
             PROVE  /\ budget' = "running"
                    /\ spent' <= BodyTime + HandlerTimeout \/ spent' <= SilentTime
                    /\ \A q \in Requests :
                          /\ at'[q] = "decoding" => spent' <= age'[q]
                          /\ at'[q] = "decoded" => spent' <= BodyTime
                          /\ at'[q] = "evaluating" => spent' <= BodyTime + age'[q]
  BY DEF ClosingInv
<1>0. PodTypeOK /\ SequenceInv /\ DaemonTypeOK
  BY DEF PodInv, DaemonInv
<1>1. ControlMoves
  BY WorkMoves DEF Run, PodInv
<1>2. ~slow
  BY DEF Run, kubeletVars
<1>3. CASE sequence = "draining"
  <2>1. spent' = 0 /\ budget' = "running"
    BY <1>1, <1>3 DEF ControlMoves, Run, Clocks, Late
  <2> QED
    BY <2>1, AgeMoves, DurationTypes
<1>4. CASE sequence # "draining"
  <2>1. sequence \in {"closing", "waitingEval"} /\ spent' = spent
    BY <1>1, <1>4 DEF ControlMoves, Late, Run, Clocks
  <2>2. budget = "running" /\ (spent <= BodyTime + HandlerTimeout \/ spent <= SilentTime)
    BY <1>2, <2>1 DEF ClosingInv
  <2>3. spent < ShutdownTimeout
    BY <1>0, <2>2, DurationTypes DEF DrainFits, PodTypeOK
  <2>4. budget' = "running"
    BY <1>0, <1>1, <1>4, <2>2, <2>3, DurationTypes
       DEF ControlMoves, Run, OnTime, DeadlinePassed, PodTypeOK
  <2>5. stopped
    BY <1>0, <2>1 DEF SequenceInv
  <2>6. ASSUME NEW q \in Requests
        PROVE  /\ at'[q] = "decoding" => spent' <= age'[q]
               /\ at'[q] = "decoded" => spent' <= BodyTime
               /\ at'[q] = "evaluating" => spent' <= BodyTime + age'[q]
    <3>1. /\ at[q] = "decoding" => spent <= age[q] /\ age[q] <= BodyTime
          /\ at[q] = "decoded" => spent <= BodyTime
          /\ at[q] = "evaluating" => spent <= BodyTime + age[q]
      BY <1>2, <2>1 DEF ClosingInv, AgeInv
    <3>2. /\ RequestMoves(q)
          /\ age'[q] = IF at'[q] # at[q] THEN 0 ELSE age[q]
          /\ age[q] \in Nat /\ age'[q] \in Nat
      BY AgeMoves
    <3> QED
      BY <1>0, <2>1, <2>5, <3>1, <3>2, DurationTypes DEF RequestMoves, PodTypeOK
  <2> QED
    BY <2>1, <2>2, <2>4, <2>6
<1> QED
  BY <1>3, <1>4

LEMMA ClosingTick == PodInv /\ AgeInv /\ ClosingInv /\ Tick => ClosingInv'
<1> SUFFICES ASSUME PodInv, AgeInv, ClosingInv, Tick,
                    ~slow', sequence' \in {"closing", "waitingEval"}
             PROVE  /\ budget' = "running"
                    /\ spent' <= BodyTime + HandlerTimeout \/ spent' <= SilentTime
                    /\ \A q \in Requests :
                          /\ at'[q] = "decoding" => spent' <= age'[q]
                          /\ at'[q] = "decoded" => spent' <= BodyTime
                          /\ at'[q] = "evaluating" => spent' <= BodyTime + age'[q]
  BY DEF ClosingInv
<1>0. PodTypeOK
  BY DEF PodInv
<1>1. ~slow /\ UNCHANGED <<at, sequence, budget>>
  BY DEF Tick
<1>2. spent < ShutdownTimeout /\ (NoHandlers => spent < SilentTime)
  BY <1>1 DEF Tick, SequenceWaits
<1>3. spent' = spent + 1
  BY <1>0, <1>1, <1>2, DurationTypes DEF Tick, After, PodTypeOK
<1>4. ASSUME NEW q \in Requests, InFlight(q)
      PROVE  \/ /\ at[q] = "decoding" /\ spent <= age[q]
                /\ age[q] < BodyTime /\ age'[q] = age[q] + 1
             \/ /\ at[q] = "evaluating" /\ spent <= BodyTime + age[q]
                /\ age[q] < HandlerTimeout /\ age'[q] = age[q] + 1
  <2>0. age[q] \in Nat
    BY <1>0 DEF PodTypeOK
  <2>1. CASE at[q] = "decoding"
    <3>1. age[q] < BodyTime
      BY <1>0, <2>1, BodyInTime
    <3> QED
      BY <1>1, <2>0, <2>1, <3>1, DurationTypes DEF Tick, After, ClosingInv
  <2>2. CASE at[q] = "evaluating"
    BY <1>1, <2>2 DEF Tick, HandlerWaits, ClosingInv
  <2> QED
    BY <1>4, <2>1, <2>2 DEF Tick, HandlerWaits, InFlight
<1>5. spent' <= BodyTime + HandlerTimeout \/ spent' <= SilentTime
  <2>1. CASE NoHandlers
    BY <1>0, <1>2, <1>3, <2>1, DurationTypes DEF PodTypeOK
  <2>2. CASE ~NoHandlers
    <3>1. PICK q \in Requests : InFlight(q)
      BY <2>2 DEF NoHandlers
    <3>2. age[q] \in Nat
      BY <1>0 DEF PodTypeOK
    <3> QED
      BY <1>0, <1>3, <1>4, <3>1, <3>2, DurationTypes DEF PodTypeOK
  <2> QED
    BY <2>1, <2>2
<1>6. budget' = "running"
  BY <1>1 DEF ClosingInv
<1>7. ASSUME NEW q \in Requests
      PROVE  /\ at'[q] = "decoding" => spent' <= age'[q]
             /\ at'[q] = "decoded" => spent' <= BodyTime
             /\ at'[q] = "evaluating" => spent' <= BodyTime + age'[q]
  <2>1. age[q] \in Nat
    BY <1>0 DEF PodTypeOK
  <2>2. CASE InFlight(q)
    BY <1>0, <1>1, <1>3, <1>4, <2>1, <2>2, DurationTypes DEF PodTypeOK
  <2>3. CASE ~InFlight(q)
    BY <1>1, <2>3 DEF InFlight
  <2> QED
    BY <2>2, <2>3
<1> QED
  BY <1>5, <1>6, <1>7

LEMMA DrainStep ==
    ASSUME DrainFits, PodInv, AgeInv, ClosingInv, "drain" \in errs => slow, [PodNext]_podVars
    PROVE  ClosingInv' /\ ("drain" \in errs' => slow')
<1>0. PodTypeOK /\ DaemonTypeOK
  BY DEF PodInv, DaemonInv
<1>1. CASE Run
  <2>1. ControlMoves /\ slow' = slow
    BY <1>1, WorkMoves DEF Run, PodInv, kubeletVars
  <2>2. sequence = "waitingEval" /\ budget = "expired" => slow
    BY DEF ClosingInv
  <2> QED
    BY <1>1, <2>1, <2>2, ClosingRun DEF ControlMoves
<1>2. CASE Tick
  BY <1>2, ClosingTick DEF Tick
<1>3. CASE DeletePod \/ RestartContainer \/ Kill \/ UNCHANGED podVars
  <2>1. UNCHANGED <<at, age, slow, sequence, budget, spent, errs>>
    BY <1>0, <1>3, StopFrame
       DEF DeletePod, RestartContainer, Kill, clockVars, podVars, kubeletVars
  <2> QED
    BY <2>1 DEF ClosingInv
<1> QED
  BY <1>1, <1>2, <1>3 DEF PodNext

\* For any durations that leave room for a body, an evaluation and a silent
\* connection, only a slow client makes the drain fail.
THEOREM DrainFailsByClients == PodSpec => []DrainFailureIsClients
<1> DEFINE Inv == DrainFits => AgeInv /\ ClosingInv /\ ("drain" \in errs => slow)
<1>1. Init /\ PodInit => PodInv /\ Inv
  BY PodInvInit, DurationTypes
     DEF Init, DaemonInit, OfrepInit, HandlerInit, PodInit, AgeInv, ClosingInv
<1>2. PodInv /\ Inv /\ [PodNext]_podVars => PodInv' /\ Inv'
  BY PodInvStep, AgeStep, DrainStep DEF DrainFits
<1>3. Inv => DrainFailureIsClients
  BY DEF DrainFits, DrainFailureIsClients
<1> QED
  BY <1>1, <1>2, <1>3, PTL DEF PodSpec
------------------------------------------------------------------------------
(* The Service *)

\* The removal of the endpoint may still be on its way.
EarlyDrain == \/ sequence = "idle"
              \/ sequence = "draining" /\ spent <= Propagation

\* Refused by what stands in front of the handler.
Uncounted(q) == Answered(q) /\ answer[q].outcome = "uncounted"

\* A request that the Service sent came while the process was ready, or before
\* the drain delay was over, and is past the first gate in the same instant:
\* it carries the promise on which the handler's other gate relies.
RoutedInv ==
    \A q \in Requests : routed[q] =>
        /\ at[q] = "entered" => readyAt /\ EarlyDrain
        /\ at[q] \notin {"idle", "entered"} => promised[q] \/ Uncounted(q)

LEMMA RoutedRun ==
    ASSUME Propagation < DrainDelay, PodInv, RoutedInv, Run
    PROVE  RoutedInv'
<1> SUFFICES ASSUME NEW q \in Requests, routed'[q]
             PROVE  /\ at'[q] = "entered" => readyAt' /\ EarlyDrain'
                    /\ at'[q] \notin {"idle", "entered"} => promised'[q] \/ Uncounted(q)'
  BY Zenon DEF RoutedInv
<1>0. PodTypeOK /\ SequenceInv /\ StartupInv /\ DaemonInv /\ OfrepInv
  BY DEF PodInv, DaemonInv
<1>1. ControlMoves
  BY WorkMoves DEF Run, PodInv
<1>2. RequestMoves(q)
  BY WorkRequestMoves DEF Run, PodInv
<1>3. readyAt => readyAt'
  <2>1. [BridgeNext]_bridgeVars
    BY <1>0, StepRefines, OfrepRefinesBridge DEF Run, Next
  <2> QED
    BY <1>0, <2>1, BridgeMovesForward DEF OfrepInv
<1>4. ASSUME EarlyDrain
      PROVE  EarlyDrain'
  <2>1. sequence = "draining" => sequence' = "draining"
    BY <1>0, <1>1, <1>4, DurationTypes
       DEF ControlMoves, Late, Run, OnTime, DrainDelayPassed, PodTypeOK, EarlyDrain
  <2>2. spent' = IF sequence' # sequence /\ sequence' \in {"draining", "closing"}
                 THEN 0 ELSE spent
    BY DEF Run, Clocks
  <2> QED
    BY <1>1, <1>4, <2>1, <2>2, DurationTypes DEF ControlMoves, Late, EarlyDrain
<1>5. CASE at[q] = "idle"
  <2>1. at'[q] \in {"idle", "entered"}
    BY <1>2, <1>5 DEF RequestMoves
  <2>2. at'[q] = "entered" => InService
    BY <1>5 DEF Run, Clocks
  <2>3. InService => readyAt /\ EarlyDrain
    <3>1. state = "ready" => readyAt /\ sequence = "idle"
      BY <1>0 DEF SequenceInv, StartupInv
    <3> QED
      BY <3>1, Zenon DEF InService, EarlyDrain
  <2> QED
    BY <1>3, <1>4, <2>1, <2>2, <2>3
<1>6. CASE at[q] = "entered"
  <2>1. routed[q]
    BY <1>6 DEF Run, Clocks
  <2>2. readyAt /\ EarlyDrain
    BY <1>6, <2>1 DEF RoutedInv
  <2>3. ~stopped
    BY <1>0, <2>2 DEF SequenceInv, EarlyDrain
  <2>4. CASE at'[q] = "entered"
    BY <1>3, <1>4, <2>2, <2>4
  <2>5. CASE at'[q] # "entered"
    <3>1. \/ at'[q] = "decoding" /\ promised'[q] = readyAt
          \/ at'[q] = "finished" /\ answer'[q].outcome = "uncounted"
      BY <1>2, <1>6, <2>3, <2>5 DEF RequestMoves
    <3>2. promised'[q] = readyAt => promised'[q]
      BY <2>2, Zenon
    <3>3. at'[q] = "finished" /\ answer'[q].outcome = "uncounted" => Uncounted(q)'
      BY DEF Uncounted, Answered
    <3> QED
      BY <2>5, <3>1, <3>2, <3>3, Zenon
  <2> QED
    BY <2>4, <2>5
<1>7. CASE at[q] \notin {"idle", "entered"}
  <2>1. routed[q]
    BY <1>7 DEF Run, Clocks
  <2>2. promised[q] \/ Uncounted(q)
    BY <1>7, <2>1 DEF RoutedInv
  <2>3. /\ promised'[q] = promised[q] /\ at'[q] # "entered"
        /\ Uncounted(q) => Uncounted(q)'
    BY <1>2, <1>7 DEF RequestMoves, Uncounted, Answered
  <2> QED
    BY <2>2, <2>3, Zenon
<1> QED
  BY <1>5, <1>6, <1>7

LEMMA RoutedStep ==
    ASSUME Propagation < DrainDelay, PodInv, RoutedInv, [PodNext]_podVars
    PROVE  RoutedInv'
<1>0. DaemonTypeOK
  BY DEF PodInv, DaemonInv
<1>1. CASE Run
  BY <1>1, RoutedRun
<1>2. CASE Tick
  <2>1. UNCHANGED <<at, answer, promised, readyAt, sequence, routed>>
    BY <1>2 DEF Tick, bridgeVars
  <2>2. \A q \in Requests : at[q] # "entered"
    BY <1>2 DEF Tick, HandlerWaits
  <2> QED
    BY <2>1, <2>2 DEF RoutedInv, EarlyDrain, Uncounted, Answered
<1>3. CASE DeletePod \/ RestartContainer \/ Kill \/ UNCHANGED podVars
  <2>1. UNCHANGED <<at, answer, promised, readyAt, sequence, routed, spent>>
    BY <1>0, <1>3, StopFrame
       DEF DeletePod, RestartContainer, Kill, clockVars, podVars, bridgeVars
  <2> QED
    BY <2>1 DEF RoutedInv, EarlyDrain, Uncounted, Answered
<1> QED
  BY <1>1, <1>2, <1>3 DEF PodNext

\* For any durations in which the drain delay outlasts the propagation, no
\* request that the Service sent meets a closed gate.
THEOREM RoutedAreServed == PodSpec => []RoutedIsServed
<1> DEFINE Inv == Propagation < DrainDelay => RoutedInv
<1>1. Init /\ PodInit => PodInv /\ Inv
  BY PodInvInit DEF PodInit, RoutedInv
<1>2. PodInv /\ Inv /\ [PodNext]_podVars => PodInv' /\ Inv'
  BY PodInvStep, RoutedStep
<1>3. PodInv /\ Inv => RoutedIsServed
  <2> SUFFICES ASSUME PodInv, Inv, Propagation < DrainDelay, NEW r \in Requests,
                      routed[r], Answered(r), answer[r].outcome = "not_ready"
               PROVE  worker[r] = "done"
    BY DEF RoutedIsServed
  <2>1. promised[r]
    BY DEF RoutedInv, Uncounted, Answered
  <2> QED
    BY <2>1 DEF PodInv, DaemonInv, OfrepInv, HandlersInv, RequestInv, AnswerInv
<1> QED
  BY <1>1, <1>2, <1>3, PTL DEF PodSpec

------------------------------------------------------------------------------
(* The probes *)

\* The startup probe succeeds only while the admin listener serves.
ObservedInv == observed => listener["admin"] \in {"serving", "returned"}

\* Until the startup probe succeeds, time passes only in New and in Start's
\* wait: what each leaves of the startup budget.
UptimeInv ==
    ctx = "live" /\ ~observed =>
        /\ main = "building" => uptime <= waited /\ waited <= NewTime
        /\ main # "building" /\ start = "idle" => uptime <= NewTime
        /\ start = "waiting" => uptime <= NewTime + waited /\ waited <= InitTimeout
        /\ uptime <= NewTime + InitTimeout

\* Where Start is, as far as time may pass there.
LEMMA StartMoves ==
    ASSUME DaemonInv, Work
    PROVE  /\ start' = "idle" => start = "idle"
           /\ start' = "waiting" => start \in {"idle", "waiting"}
<1>1. [BridgeNext]_bridgeVars /\ BridgeTypeOK
  BY StepRefines, OfrepRefinesBridge DEF Next, DaemonInv, OfrepInv, BridgeInv
<1> USE DEF BridgeTypeOK
<1>2. CASE New \/ RemoteConfig
  BY <1>2, BesideStart
<1>3. CASE BecomeReady
  BY <1>3 DEF BecomeReady
<1>4. CASE RegisterProvider \/ ProviderInitialized \/ StartFails \/ AnnounceReady
  BY <1>4 DEF RegisterProvider, ProviderInitialized, StartFails, AnnounceReady
<1>5. CASE BeginShutdown \/ Shutdown
  BY <1>5 DEF BeginShutdown, Shutdown, ShutdownBegins, ShutdownProvider, StopTracer
<1>6. CASE HandlerRecordsError \/ UNCHANGED bridgeVars
  BY <1>6 DEF HandlerRecordsError, externalUnchanged, bridgeVars
<1> QED
  BY <1>1, <1>2, <1>3, <1>4, <1>5, <1>6 DEF BridgeNext, Start

\* The admin listener closes with the process.
LEMMA ServesWhileLive ==
    ASSUME PodInv, ctx = "live"
    PROVE  listener["admin"] # "returned" /\ ~closed["admin"]
  BY DEF PodInv, DaemonInv, ProcessInv, SequenceInv, StartupInv

LEMMA UptimeRun ==
    ASSUME PodInv, UptimeInv, Run
    PROVE  UptimeInv'
<1> SUFFICES ASSUME ctx' = "live", ~observed'
             PROVE  /\ main' = "building" => uptime' <= waited' /\ waited' <= NewTime
                    /\ main' # "building" /\ start' = "idle" => uptime' <= NewTime
                    /\ start' = "waiting" => /\ uptime' <= NewTime + waited'
                                             /\ waited' <= InitTimeout
                    /\ uptime' <= NewTime + InitTimeout
  BY DEF UptimeInv
<1>0. PodTypeOK /\ MainInv
  BY DEF PodInv
<1>1. ControlMoves
  BY WorkMoves DEF Run, PodInv
<1>2. /\ start' = "idle" => start = "idle"
      /\ start' = "waiting" => start \in {"idle", "waiting"}
  BY StartMoves DEF Run, PodInv
<1>3. ctx = "live" /\ ~observed /\ uptime' = uptime
  BY <1>1 DEF ControlMoves, Run, kubeletVars
<1>4. waited' = IF start = "idle" /\ start' = "waiting" THEN 0 ELSE waited
  BY DEF Run, Clocks
<1>5. main' = "building" => main = "building" /\ start' = start
  BY <1>0, <1>1 DEF ControlMoves, MainInv
<1>6. start = "idle" /\ start' = "waiting" => main # "building"
  BY <1>0, <1>1 DEF ControlMoves, MainInv
<1> QED
  BY <1>0, <1>2, <1>3, <1>4, <1>5, <1>6, DurationTypes DEF UptimeInv, PodTypeOK

\* Once New and Start have returned, the first tick finds the process ready.
LEMMA UptimeTick ==
    ASSUME PodInv, UptimeInv, Tick
    PROVE  UptimeInv'
<1> SUFFICES ASSUME ctx' = "live", ~observed'
             PROVE  /\ main' = "building" => uptime' <= waited' /\ waited' <= NewTime
                    /\ main' # "building" /\ start' = "idle" => uptime' <= NewTime
                    /\ start' = "waiting" => /\ uptime' <= NewTime + waited'
                                             /\ waited' <= InitTimeout
                    /\ uptime' <= NewTime + InitTimeout
  BY DEF UptimeInv
<1>0. PodTypeOK /\ MainInv /\ StartupInv /\ ProcessInv /\ DaemonTypeOK
  BY DEF PodInv, DaemonInv
<1>1. ctx = "live" /\ UNCHANGED <<main, start>> /\ sequence = "idle"
  BY <1>0 DEF Tick, bridgeVars, ProcessInv
<1>2. ~observed /\ ~Readyz
  BY Zenon DEF Tick
<1>3. uptime' \in Nat /\ uptime' <= uptime + 1
  BY <1>0, DurationTypes DEF Tick, After, PodTypeOK
<1>4. CASE main = "building"
  <2>1. waited < NewTime /\ waited' = waited + 1
    BY <1>4 DEF Tick, MainWaits
  <2>2. start # "waiting"
    BY <1>0, <1>4 DEF MainInv
  <2> QED
    BY <1>0, <1>1, <1>2, <1>3, <1>4, <2>1, <2>2, DurationTypes DEF UptimeInv, PodTypeOK
<1>5. CASE main # "building"
  <2>1. main = "waiting"
    BY <1>5 DEF Tick, MainWaits
  <2>2. listener["admin"] = "serving"
    <3>1. listener["admin"] \in {"unlaunched", "failed", "returned", "serving"}
      BY DEF Tick, ListenersWait, Servers
    <3>2. listener["admin"] \notin {"unlaunched", "failed", "returned"}
      BY <1>0, <1>1, <2>1, ServesWhileLive DEF MainInv, StartupInv
    <3> QED
      BY <3>1, <3>2
  <2>3. starter # "done"
    BY <1>0, <1>1, <1>2, <2>2 DEF StartupInv, MainInv, Readyz
  <2>4. start = "waiting" /\ waited < InitTimeout
    BY <1>0, <2>1, <2>3 DEF Tick, StarterWaits, MainInv
  <2>5. waited' = waited + 1
    BY <2>4 DEF Tick
  <2> QED
    BY <1>0, <1>1, <1>2, <1>3, <1>5, <2>4, <2>5, DurationTypes DEF UptimeInv, PodTypeOK
<1> QED
  BY <1>4, <1>5

LEMMA UptimeStep == PodInv /\ UptimeInv /\ [PodNext]_podVars => UptimeInv'
<1> SUFFICES ASSUME PodInv, UptimeInv, [PodNext]_podVars
             PROVE  UptimeInv'
  OBVIOUS
<1>0. DaemonTypeOK
  BY DEF PodInv, DaemonInv
<1>1. CASE Run
  BY <1>1, UptimeRun
<1>2. CASE Tick
  BY <1>2, UptimeTick
<1>3. CASE DeletePod \/ RestartContainer
  BY <1>0, <1>3, StopFrame DEF DeletePod, RestartContainer, UptimeInv
<1>4. CASE Kill \/ UNCHANGED podVars
  BY <1>4 DEF Kill, podVars, clockVars, kubeletVars, bridgeVars, UptimeInv
<1> QED
  BY <1>1, <1>2, <1>3, <1>4 DEF PodNext

LEMMA ObservedStep == PodInv /\ ObservedInv /\ [PodNext]_podVars => ObservedInv'
<1> SUFFICES ASSUME PodInv, ObservedInv, [PodNext]_podVars
             PROVE  ObservedInv'
  OBVIOUS
<1>0. DaemonTypeOK
  BY DEF PodInv, DaemonInv
<1>1. CASE Run
  <2>1. ListenerMoves /\ observed' = observed
    BY <1>1, WorkMoves DEF Run, PodInv, kubeletVars
  <2> QED
    BY <2>1 DEF ListenerMoves, ObservedInv
<1>2. CASE Tick
  <2>1. observed' => observed \/ Readyz
    BY <1>2, Zenon DEF Tick
  <2>2. listener' = listener
    BY <1>2 DEF Tick
  <2> QED
    BY <2>1, <2>2 DEF ObservedInv, Readyz
<1>3. CASE DeletePod \/ RestartContainer \/ Kill \/ UNCHANGED podVars
  <2>1. UNCHANGED <<observed, listener>>
    BY <1>0, <1>3, StopFrame
       DEF DeletePod, RestartContainer, Kill, podVars, clockVars, kubeletVars
  <2> QED
    BY <2>1 DEF ObservedInv
<1> QED
  BY <1>1, <1>2, <1>3 DEF PodNext

\* A tick finds the process ready only before its end.
LEMMA ReadyIsLive ==
    ASSUME PodInv, Tick, Readyz
    PROVE  ctx = "live"
<1>0. SequenceInv /\ MainInv /\ BridgeInv
  BY DEF PodInv, DaemonInv, OfrepInv
<1>1. sequence = "idle"
  BY <1>0 DEF Readyz, SequenceInv
<1>2. main # "building"
  BY <1>0 DEF Readyz, MainInv, Servers
<1> QED
  BY <1>1, <1>2 DEF Tick, SequenceWaits

\* Where a container that was never deleted got its signal from.
LEMMA SignalStep ==
    ASSUME PodInv, ObservedInv, [PodNext]_podVars
    PROVE  \/ ctx' = "signal" => ctx = "signal"
           \/ deleted'
           \/ ~observed /\ ctx = "live" /\ uptime >= StartupBudget
<1>0. DaemonTypeOK
  BY DEF PodInv, DaemonInv
<1>1. CASE Run
  <2>1. ControlMoves
    BY <1>1, WorkMoves DEF Run, PodInv
  <2> QED
    BY <2>1 DEF ControlMoves
<1>2. CASE Tick \/ Kill \/ UNCHANGED podVars
  BY <1>2 DEF Tick, Kill, podVars
<1>3. CASE DeletePod
  BY <1>3 DEF DeletePod
<1>4. CASE RestartContainer
  <2>1. ctx' = IF ctx = "live" THEN "signal" ELSE ctx
    BY <1>0, <1>4, StopFrame DEF RestartContainer
  <2>2. ctx = "live" => ~observed
    BY <1>4, ServesWhileLive DEF RestartContainer, ProbeFails, Healthz, ObservedInv
  <2>3. ~observed => uptime >= StartupBudget
    BY <1>4 DEF RestartContainer, ProbeFails
  <2> QED
    BY <2>1, <2>2, <2>3
<1> QED
  BY <1>1, <1>2, <1>3, <1>4 DEF PodNext

LEMMA DeletedStays ==
    ASSUME PodInv, [PodNext]_podVars, deleted
    PROVE  deleted'
  BY DEF PodNext, Run, Tick, DeletePod, RestartContainer, Kill, kubeletVars, podVars

LEMMA OutageStep ==
    ASSUME PodInv, ObservedInv, OutageIsSurvived, [PodNext]_podVars
    PROVE  OutageIsSurvived'
<1>0. DaemonTypeOK
  BY DEF PodInv, DaemonInv
<1> SUFFICES ASSUME observed', ctx' = "signal", ~deleted'
             PROVE  FALSE
  BY DEF OutageIsSurvived
<1>1. ~deleted
  BY DeletedStays
<1>2. CASE observed
  BY <1>1, <1>2, SignalStep DEF OutageIsSurvived
<1>3. CASE ~observed
  <2>1. Tick
    BY <1>0, <1>3, StopFrame
       DEF PodNext, Run, DeletePod, RestartContainer, Kill, kubeletVars, podVars
  <2>2. Readyz
    BY <1>3, <2>1, Zenon DEF Tick
  <2> QED
    BY <2>1, <2>2, ReadyIsLive DEF Tick
<1> QED
  BY <1>2, <1>3

\* For any durations, the kubelet does not restart a container that has been
\* ready, unless the Pod is deleted.
THEOREM OutagesAreSurvived == PodSpec => []OutageIsSurvived
<1>1. Init /\ PodInit => PodInv /\ ObservedInv /\ OutageIsSurvived
  BY PodInvInit DEF PodInit, ObservedInv, OutageIsSurvived
<1>2. PodInv /\ ObservedInv /\ OutageIsSurvived /\ [PodNext]_podVars
        => PodInv' /\ ObservedInv' /\ OutageIsSurvived'
  BY PodInvStep, ObservedStep, OutageStep
<1> QED
  BY <1>1, <1>2, PTL DEF PodSpec

\* With a startup probe that is patient enough, only a deletion signals.
SignalInv == StartupBudget > NewTime + InitTimeout => (ctx = "signal" => deleted)

LEMMA SignalInvStep ==
    ASSUME PodInv, ObservedInv, UptimeInv, SignalInv, [PodNext]_podVars
    PROVE  SignalInv'
<1> SUFFICES ASSUME StartupBudget > NewTime + InitTimeout, ctx' = "signal", ~deleted'
             PROVE  FALSE
  BY DEF SignalInv
<1>1. ctx # "signal"
  BY DeletedStays DEF SignalInv
<1>2. ~observed /\ ctx = "live" /\ uptime >= StartupBudget
  BY <1>1, SignalStep
<1>3. uptime <= NewTime + InitTimeout
  BY <1>2 DEF UptimeInv
<1> QED
  BY <1>2, <1>3, DurationTypes DEF PodInv, PodTypeOK

\* For any durations that leave New and Start their time, status 0 means that
\* the Pod was deleted.
THEOREM FailuresAreBlamed == PodSpec => []FailureIsBlamed
<1> DEFINE Inv == ObservedInv /\ UptimeInv /\ SignalInv
<1>1. Init /\ PodInit => PodInv /\ Inv
  BY PodInvInit, DurationTypes
     DEF Init, OfrepInit, BridgeInit, DaemonInit, PodInit, ObservedInv, UptimeInv, SignalInv
<1>2. PodInv /\ Inv /\ [PodNext]_podVars => PodInv' /\ Inv'
  BY PodInvStep, ObservedStep, UptimeStep, SignalInvStep
<1>3. PodInv /\ Inv => FailureIsBlamed
  BY DEF PodInv, DaemonInv, DaemonTypeOK, ProcessInv, SignalInv, FailureIsBlamed
<1> QED
  BY <1>1, <1>2, <1>3, PTL DEF PodSpec
==============================================================================
