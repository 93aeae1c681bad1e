---------------------------- MODULE Daemon_proofs ----------------------------
(***************************************************************************)
(* Proofs about the process for any finite set of requests and any         *)
(* evaluations.                                                            *)
(*                                                                         *)
(* The process drives the handlers and the bridge as Ofrep allows, so the  *)
(* theorems about those carry over.  What is left to prove is the order of *)
(* the termination sequence, and what it leaves of the traffic.            *)
(***************************************************************************)
EXTENDS Daemon, Ofrep_proofs

USE DEF vars, ofrepVars, handlerVars, daemonVars

------------------------------------------------------------------------------
(* The inductive invariant of the process *)

\* Where the sequence is past the evaluation listener.
Late == {"bridge", "closingAdmin", "waitingAdmin", "done"}

\* The cause of the end of the context, what it left in errs, and the exit.
ProcessInv ==
    /\ ctx = "live" => sequence = "idle"
    /\ ctx = "listener" => "listener" \in errs
    /\ ctx = "init" => "init" \in errs
    /\ exit = "success" => /\ main = "exited"
                           /\ errs = {}
                           /\ sequence = "done"

\* Nothing listens before New has handed over a bridge.
LaunchInv ==
    /\ main \in {"registered", "waiting"} => built = "yes"
    /\ \A s \in Servers : listener[s] # "unlaunched" => built = "yes"

\* How far the sequence has got tells the state of everything it stops.
SequenceInv ==
    /\ sequence # "idle" => state = "shutting_down"
    /\ stopped <=> sequence \notin {"idle", "draining"}
    /\ closed["eval"] <=> sequence \notin {"idle", "draining", "closing"}
    /\ closed["admin"] <=> sequence \in {"waitingAdmin", "done"}
    /\ stop # "idle" => sequence \in Late
    /\ sequence \in Late \ {"bridge"} => stop = "done" /\ (stopErr => "provider" \in errs)
    /\ sequence \in Late => drained \/ "drain" \in errs
    /\ drained => sequence \in Late

\* A listener that drained leaves no handler, and a shutdown of the provider
\* behind it that reported no error leaves no value's exposure to be flushed.
TrafficInv ==
    /\ drained => NoHandlers
    /\ \A r \in Requests :
          drained /\ stop \in {"untracing", "done"} /\ ~stopErr /\ HasValue(r)
              => ~Unsent(r)

DaemonInv == OfrepInv /\ DaemonTypeOK /\ ProcessInv /\ LaunchInv /\ SequenceInv /\ TrafficInv

\* The initial state satisfies the invariant.
LEMMA DaemonInvInit == Init => DaemonInv
<1> SUFFICES ASSUME Init
             PROVE  DaemonInv
  OBVIOUS
<1>1. OfrepInv
  BY OfrepInvInit DEF Init
<1>2. DaemonTypeOK
  BY DEF Init, DaemonInit, DaemonTypeOK
<1>3. ProcessInv
  BY DEF Init, DaemonInit, ProcessInv
<1>4. LaunchInv
  BY DEF Init, DaemonInit, LaunchInv
<1>5. SequenceInv
  BY DEF Init, OfrepInit, BridgeInit, HandlerInit, DaemonInit, SequenceInv, Servers, Late
<1>6. TrafficInv
  BY DEF Init, OfrepInit, BridgeInit, HandlerInit, DaemonInit, TrafficInv, HasValue, Answered
<1> QED
  BY <1>1, <1>2, <1>3, <1>4, <1>5, <1>6 DEF DaemonInv

\* Every step of the process is a step of Ofrep or leaves its part alone.
LEMMA StepRefines == DaemonInv /\ [Next]_vars => [OfrepNext]_ofrepVars
<1> SUFFICES ASSUME DaemonInv, [Next]_vars
             PROVE  OfrepNext \/ UNCHANGED ofrepVars
  OBVIOUS
<1>0. DaemonTypeOK /\ LaunchInv /\ SequenceInv /\ BuiltInv
  BY DEF DaemonInv, OfrepInv, BridgeInv
<1>1. CASE RunMain
  <2>1. CASE BuildBridge
    BY <2>1 DEF BuildBridge, OfrepNext, BridgeStep, besideHandlers
  <2> QED
    BY <1>1, <2>1 DEF RunMain, BuildFails, RegisterCleanup, Launch, WaitReturns
<1>2. CASE Signal
  BY <1>2 DEF Signal
<1>3. ASSUME NEW s \in Servers, RunListener(s)
      PROVE  UNCHANGED ofrepVars
  BY <1>3 DEF RunListener, Listen, Bind, ServeReturns, ListenFails, listenerUnchanged
<1>4. CASE RunStarter
  <2>1. CASE RunStart
    BY <2>1 DEF RunStart, OfrepNext, BridgeStep, besideHandlers
  <2> QED
    BY <1>4, <2>1 DEF RunStarter, StartSucceeded, StartFailed, BlameStart, starterUnchanged
<1>5. CASE RunSequence
  <2>1. CASE BeginDrain
    BY <2>1 DEF BeginDrain, OfrepNext, BridgeStops, besideHandlers
  <2>2. CASE EndDrain
    <3>1. built = "yes"
      BY <1>0, <2>2 DEF EndDrain, Advance, SequenceInv, BuiltInv
    <3> QED
      BY <2>2, <3>1 DEF EndDrain, OfrepNext
  <2>3. CASE StopBridge
    BY <2>3 DEF StopBridge, OfrepNext, BridgeStops, besideHandlers
  <2> QED
    BY <1>5, <2>1, <2>2, <2>3
       DEF RunSequence, CloseEval, EvalDrained, EvalTimesOut, BridgeStopped, CloseAdmin,
           AdminDrained, AdminTimesOut
<1>6. CASE BudgetExpires
  BY <1>6 DEF BudgetExpires
<1>7. ASSUME NEW r \in Requests, Accept(r)
      PROVE  OfrepNext
  <2>1. built = "yes"
    BY <1>0, <1>7 DEF Accept, LaunchInv, Servers
  <2> QED
    BY <1>7, <2>1 DEF Accept, OfrepNext
<1>8. ASSUME NEW r \in Requests, Serve(r)
      PROVE  OfrepNext
  BY <1>8 DEF Serve, OfrepNext
<1>9. CASE Agent
  BY <1>9, Zenon DEF Agent, OfrepNext, BridgeStep, besideHandlers
<1>10. CASE UNCHANGED vars
  BY <1>10
<1> QED
  BY <1>1, <1>2, <1>3, <1>4, <1>5, <1>6, <1>7, <1>8, <1>9, <1>10 DEF Next, Work

\* The control of the process: every step preserves its type and the
\* invariants of what it has started and stopped.
LEMMA ControlStep ==
    ASSUME DaemonInv, [Next]_vars
    PROVE  DaemonTypeOK' /\ ProcessInv' /\ LaunchInv' /\ SequenceInv'
<1> DEFINE Goal == DaemonTypeOK' /\ ProcessInv' /\ LaunchInv' /\ SequenceInv'
<1>0. DaemonTypeOK /\ ProcessInv /\ LaunchInv /\ SequenceInv /\ BridgeInv
  BY DEF DaemonInv, OfrepInv
<1> USE DEF DaemonTypeOK, ProcessInv, LaunchInv, SequenceInv, Servers, Late, Cancel
<1>1. CASE BuildBridge
  BY <1>0, <1>1, BridgeStepFrame DEF BuildBridge
<1>2. CASE BuildFails
  BY <1>0, <1>2 DEF BuildFails, bridgeVars
<1>3. CASE RegisterCleanup
  BY <1>0, <1>3 DEF RegisterCleanup, bridgeVars
<1>4. CASE Launch
  BY <1>0, <1>4 DEF Launch, bridgeVars
<1>5. CASE WaitReturns
  BY <1>0, <1>5 DEF WaitReturns, bridgeVars
<1>6. CASE Signal
  BY <1>0, <1>6 DEF Signal, bridgeVars
<1>7. ASSUME NEW s \in Servers, Listen(s)
      PROVE  Goal
  BY <1>0, <1>7 DEF Listen, MoveListener, listenerUnchanged, bridgeVars
<1>8. ASSUME NEW s \in Servers, Bind(s)
      PROVE  Goal
  BY <1>0, <1>8 DEF Bind, MoveListener, listenerUnchanged, bridgeVars
<1>9. ASSUME NEW s \in Servers, ServeReturns(s)
      PROVE  Goal
  BY <1>0, <1>9 DEF ServeReturns, MoveListener, listenerUnchanged, bridgeVars
<1>10. ASSUME NEW s \in Servers, ListenFails(s)
       PROVE  Goal
  BY <1>0, <1>10 DEF ListenFails, MoveListener, listenerUnchanged, bridgeVars, Alive
<1>11. CASE RunStart
  BY <1>0, <1>11, BridgeStepFrame DEF RunStart
<1>12. CASE StartSucceeded \/ StartFailed
  <2>1. /\ starter' \in {"blaming", "done"}
        /\ UNCHANGED <<main, exit, ctx, listener, closed, drained, sequence, budget, errs>>
        /\ UNCHANGED <<built, state, stop, stopErr, stopped>>
    BY <1>12 DEF StartSucceeded, StartFailed, starterUnchanged, bridgeVars
  <2> QED
    BY <1>0, <2>1
<1>13. CASE BlameStart
  BY <1>0, <1>13 DEF BlameStart, starterUnchanged, bridgeVars, Alive
<1>14. CASE BeginDrain
  BY <1>0, <1>14 DEF BeginDrain, BeginShutdown, Advance, sequenceUnchanged
<1>15. CASE EndDrain
  BY <1>0, <1>15 DEF EndDrain, StopServing, Advance, sequenceUnchanged, bridgeVars
<1>16. CASE CloseEval
  <2>1. /\ sequence = "closing"
        /\ closed' = [closed EXCEPT !["eval"] = TRUE]
        /\ UNCHANGED <<main, exit, ctx, starter, listener, budget, errs>>
        /\ UNCHANGED <<built, state, stop, stopErr, stopped>>
    BY <1>16 DEF CloseEval, Advance, sequenceUnchanged, bridgeVars
  <2>2. \/ sequence' = "bridge" /\ drained' = TRUE
        \/ sequence' = "waitingEval" /\ drained' = drained
    BY <1>16 DEF CloseEval, Advance
  <2>3. /\ closed' \in [Servers -> BOOLEAN]
        /\ closed'["eval"] = TRUE
        /\ closed'["admin"] = closed["admin"]
    BY <1>0, <2>1
  <2>4. ProcessInv' /\ LaunchInv'
    BY <1>0, <2>1, <2>2
  <2>5. DaemonTypeOK'
    BY <1>0, <2>1, <2>2, <2>3
  <2>6. CASE sequence' = "bridge" /\ drained' = TRUE
    BY <1>0, <2>1, <2>3, <2>6 DEF SequenceInv
  <2>7. CASE sequence' = "waitingEval" /\ drained' = drained
    BY <1>0, <2>1, <2>3, <2>7 DEF SequenceInv
  <2>8. SequenceInv'
    BY <2>2, <2>6, <2>7
  <2> QED
    BY <2>4, <2>5, <2>8
<1>17. CASE EvalDrained
  BY <1>0, <1>17 DEF EvalDrained, Advance, sequenceUnchanged, bridgeVars
<1>18. CASE EvalTimesOut
  BY <1>0, <1>18 DEF EvalTimesOut, Advance, sequenceUnchanged, bridgeVars
<1>19. CASE StopBridge
  <2>1. sequence = "bridge" /\ UNCHANGED <<daemonVars, stopped>>
    BY <1>19 DEF StopBridge, FlushExposures
  <2>2. state' = "shutting_down"
    <3>1. state = "shutting_down"
      BY <1>0, <2>1
    <3> QED
      BY <1>19, <3>1 DEF StopBridge, FlushExposures, ShutdownBegins, ShutdownProvider, StopTracer
  <2>3. /\ UNCHANGED <<main, exit, ctx, starter, listener>>
        /\ UNCHANGED <<closed, drained, sequence, budget, errs, stopped>>
    BY <2>1
  <2>4. DaemonTypeOK' /\ ProcessInv' /\ LaunchInv'
    <3>1. built' = built
      BY <1>19 DEF StopBridge, FlushExposures, ShutdownBegins, ShutdownProvider, StopTracer
    <3> QED
      BY <1>0, <2>3, <3>1
  <2>5. SequenceInv'
    BY <1>0, <2>1, <2>2, <2>3
  <2> QED
    BY <2>4, <2>5
<1>20. CASE BridgeStopped
  BY <1>0, <1>20 DEF BridgeStopped, Advance, sequenceUnchanged, bridgeVars
<1>21. CASE CloseAdmin
  BY <1>0, <1>21 DEF CloseAdmin, Advance, sequenceUnchanged, bridgeVars
<1>22. CASE AdminDrained
  BY <1>0, <1>22 DEF AdminDrained, Advance, sequenceUnchanged, bridgeVars
<1>23. CASE AdminTimesOut
  BY <1>0, <1>23 DEF AdminTimesOut, Advance, sequenceUnchanged, bridgeVars
<1>24. CASE BudgetExpires
  BY <1>0, <1>24 DEF BudgetExpires, sequenceUnchanged, bridgeVars
<1>25. ASSUME NEW r \in Requests, Accept(r)
       PROVE  Goal
  BY <1>0, <1>25 DEF Accept, Arrive, bridgeVars
<1>26. ASSUME NEW r \in Requests, Serve(r)
       PROVE  Goal
  BY <1>0, <1>26, RequestFrame DEF Serve
<1>27. CASE Agent
  <2>1. UNCHANGED daemonVars /\ ((RemoteConfig /\ UNCHANGED stopped) \/ PeriodicFlush)
    BY <1>27 DEF Agent
  <2>2. CASE RemoteConfig /\ UNCHANGED stopped
    BY <1>0, <2>1, <2>2, BridgeStepFrame
  <2>3. CASE PeriodicFlush
    BY <1>0, <2>1, <2>3 DEF PeriodicFlush, bridgeVars
  <2> QED
    BY <2>1, <2>2, <2>3
<1>28. CASE UNCHANGED vars
  BY <1>0, <1>28 DEF bridgeVars
<1> QED
  BY <1>1, <1>2, <1>3, <1>4, <1>5, <1>6, <1>7, <1>8, <1>9, <1>10, <1>11, <1>12, <1>13,
     <1>14, <1>15, <1>16, <1>17, <1>18, <1>19, <1>20, <1>21, <1>22, <1>23, <1>24, <1>25,
     <1>26, <1>27, <1>28
     DEF Next, Work, RunMain, RunListener, RunStarter, RunSequence

------------------------------------------------------------------------------
(* The traffic *)

\* Behind a drained listener only the workers are left.
LEMMA DrainedRequest ==
    ASSUME NoHandlers, NEW r \in Requests, Request(r)
    PROVE  Evaluate(r) \/ SendResult(r)
<1>1. at[r] \in {"idle", "finished"}
  BY DEF NoHandlers, InFlight
<1> QED
  BY <1>1 DEF Request, Handle, Deflect, CheckStopped, Decode, CheckState, ReceiveResult,
              ContextDone, Observe, ReportFailure, TimeoutFires, ClientGone, Step

\* A worker that has not sent its result has given no caller a value, so that
\* no value's exposure changes.
LEMMA WorkerOwesNothing ==
    ASSUME OfrepInv, NEW r \in Requests, Evaluate(r) \/ SendResult(r)
    PROVE  \A q \in Requests : /\ HasValue(q)' <=> HasValue(q)
                               /\ HasValue(q) => exposure'[q] = exposure[q]
<1>1. HandlerTypeOK /\ RequestInv(r)
  BY DEF OfrepInv, HandlersInv
<1>2. worker[r] \in {"running", "sending"} /\ UNCHANGED <<at, answer>>
  BY DEF Evaluate, SendResult
<1>3. ~HasValue(r)
  BY <1>1, <1>2 DEF RequestInv, AnswerInv, HasValue
<1>4. ASSUME NEW q \in Requests, q # r
      PROVE  exposure'[q] = exposure[q]
  BY <1>1, <1>4 DEF Evaluate, SendResult, HandlerTypeOK
<1> QED
  BY <1>2, <1>3, <1>4 DEF HasValue, Answered

\* A flush records no event: what it leaves unsent was unsent before.
LEMMA FlushSends ==
    ASSUME PeriodicFlush \/ \E failed \in BOOLEAN : FlushExposures(failed)
    PROVE  /\ UNCHANGED <<at, answer>>
           /\ \A r \in Requests : (HasValue(r)' <=> HasValue(r)) /\ (Unsent(r)' => Unsent(r))
<1>1. CASE PeriodicFlush
  BY <1>1 DEF PeriodicFlush, HasValue, Answered, Unsent
<1>2. ASSUME NEW failed \in BOOLEAN, FlushExposures(failed)
      PROVE  /\ UNCHANGED <<at, answer>>
             /\ \A r \in Requests : (HasValue(r)' <=> HasValue(r)) /\ (Unsent(r)' => Unsent(r))
  <2>1. UNCHANGED <<at, answer>>
    BY <1>2 DEF FlushExposures
  <2>2. \A r \in Requests : exposure'[r] \in {exposure[r], "offered", "stranded"}
                          /\ (exposure'[r] # exposure[r] => exposure[r] = "buffered")
    BY <1>2 DEF FlushExposures
  <2> QED
    BY <2>1, <2>2 DEF HasValue, Answered, Unsent
<1> QED
  BY <1>1, <1>2

\* The flush of the provider's shutdown: when it reports no error, it has taken
\* to a send whatever was buffered, and nothing was stranded before it.
LEMMA FlushStep ==
    ASSUME DaemonInv, NEW failed \in BOOLEAN, FlushExposures(failed), UNCHANGED daemonVars
    PROVE  TrafficInv'
<1>0. HandlersInv /\ TrafficInv
  BY DEF DaemonInv, OfrepInv
<1>1. /\ stop = "flushing" /\ stopErr' = failed
      /\ UNCHANGED <<at, answer, drained>>
  BY DEF FlushExposures, ShutdownProvider
<1>2. ASSUME NEW r \in Requests, ~stopErr'
      PROVE  ~Unsent(r)'
  <2>1. exposure[r] # "stranded"
    BY <1>0, <1>1 DEF HandlersInv, RequestInv
  <2>2. exposure' = [q \in Requests |->
                        IF exposure[q] = "buffered" THEN "offered" ELSE exposure[q]]
    BY <1>1, <1>2 DEF FlushExposures
  <2> QED
    BY <2>1, <2>2 DEF Unsent
<1> QED
  BY <1>0, <1>1, <1>2 DEF TrafficInv, NoHandlers, InFlight

\* Every step of the process preserves TrafficInv.
LEMMA TrafficStep == DaemonInv /\ [Next]_vars => TrafficInv'
<1> SUFFICES ASSUME DaemonInv, [Next]_vars
             PROVE  TrafficInv'
  OBVIOUS
<1>0. OfrepInv /\ HandlerTypeOK /\ TrafficInv /\ SequenceInv
  BY DEF DaemonInv, OfrepInv
<1>1. ASSUME UNCHANGED <<at, answer, exposure>>, UNCHANGED <<stop, stopErr>>,
             drained' = drained \/ (NoHandlers /\ stop = "idle")
      PROVE  TrafficInv'
  <2>1. \A r \in Requests : HasValue(r)' <=> HasValue(r)
    BY <1>1 DEF HasValue, Answered
  <2>2. (drained => NoHandlers)'
    BY <1>0, <1>1 DEF TrafficInv, NoHandlers, InFlight
  <2> QED
    BY <1>0, <1>1, <2>1, <2>2 DEF TrafficInv, Unsent
<1>2. ASSUME UNCHANGED ofrepVars, drained' = drained
      PROVE  TrafficInv'
  BY <1>1, <1>2 DEF bridgeVars
<1>3. ASSUME New \/ Start \/ RemoteConfig, UNCHANGED <<evaluations, handlerVars>>, drained' = drained
      PROVE  TrafficInv'
  BY <1>1, <1>3, BridgeStepFrame
<1>4. CASE RunMain
  BY <1>2, <1>3, <1>4
     DEF RunMain, BuildBridge, BuildFails, RegisterCleanup, Launch, WaitReturns
<1>5. CASE Signal
  BY <1>2, <1>5 DEF Signal
<1>6. ASSUME NEW s \in Servers, RunListener(s)
      PROVE  TrafficInv'
  BY <1>2, <1>6 DEF RunListener, Listen, Bind, ServeReturns, ListenFails, listenerUnchanged
<1>7. CASE RunStarter
  <2>1. CASE RunStart
    BY <1>3, <2>1 DEF RunStart
  <2> QED
    BY <1>2, <1>7, <2>1 DEF RunStarter, StartSucceeded, StartFailed, BlameStart, starterUnchanged
<1>8. CASE BeginDrain
  BY <1>1, <1>8 DEF BeginDrain, BeginShutdown
<1>9. CASE EndDrain
  BY <1>1, <1>9 DEF EndDrain, StopServing, bridgeVars
<1>10. CASE CloseEval \/ EvalDrained
  <2>1. stop = "idle"
    BY <1>0, <1>10 DEF CloseEval, EvalDrained, Advance, SequenceInv, Late
  <2>2. UNCHANGED ofrepVars /\ (drained' = drained \/ NoHandlers)
    BY <1>10 DEF CloseEval, EvalDrained
  <2> QED
    BY <1>1, <2>1, <2>2 DEF bridgeVars
<1>11. CASE EvalTimesOut \/ BridgeStopped \/ CloseAdmin \/ AdminDrained \/ AdminTimesOut
  BY <1>2, <1>11 DEF EvalTimesOut, BridgeStopped, CloseAdmin, AdminDrained, AdminTimesOut
<1>12. CASE StopBridge
  <2>1. CASE \E failed \in BOOLEAN : FlushExposures(failed)
    BY <1>12, <2>1, FlushStep DEF StopBridge
  <2>2. CASE (ShutdownBegins \/ StopTracer) /\ UNCHANGED <<evaluations, handlerVars>>
    <3>1. UNCHANGED <<at, answer, exposure>> /\ UNCHANGED <<stopErr, drained>>
      BY <1>12, <2>2 DEF StopBridge, ShutdownBegins, StopTracer
    <3>2. \/ stop = "idle" /\ stop' = "flushing"
          \/ stop = "untracing" /\ stop' = "done"
      BY <2>2 DEF ShutdownBegins, StopTracer
    <3> QED
      BY <1>0, <3>1, <3>2 DEF TrafficInv, NoHandlers, InFlight, HasValue, Answered, Unsent
  <2> QED
    BY <1>12, <2>1, <2>2 DEF StopBridge
<1>13. CASE BudgetExpires
  BY <1>2, <1>13 DEF BudgetExpires
<1>14. ASSUME NEW r \in Requests, Accept(r)
       PROVE  TrafficInv'
  BY <1>14 DEF Accept, TrafficInv
<1>15. ASSUME NEW r \in Requests, Serve(r)
       PROVE  TrafficInv'
  <2>1. Request(r) /\ UNCHANGED <<stop, stopErr, drained>>
    BY <1>15, RequestFrame DEF Serve
  <2>2. CASE drained
    <3>1. NoHandlers
      BY <1>0, <2>2 DEF TrafficInv
    <3>2. Evaluate(r) \/ SendResult(r)
      BY <2>1, <3>1, DrainedRequest
    <3>3. UNCHANGED at
      BY <3>2 DEF Evaluate, SendResult
    <3>4. \A q \in Requests : /\ HasValue(q)' <=> HasValue(q)
                              /\ HasValue(q) => exposure'[q] = exposure[q]
      BY <1>0, <3>2, WorkerOwesNothing
    <3>5. NoHandlers'
      BY <3>1, <3>3 DEF NoHandlers, InFlight
    <3>6. ASSUME NEW q \in Requests, HasValue(q)', stop \in {"untracing", "done"}, ~stopErr
          PROVE  ~Unsent(q)'
      <4>1. HasValue(q) /\ exposure'[q] = exposure[q]
        BY <3>4, <3>6
      <4>2. ~Unsent(q)
        BY <1>0, <2>2, <3>6, <4>1 DEF TrafficInv
      <4> QED
        BY <4>1, <4>2 DEF Unsent
    <3> QED
      BY <2>1, <3>5, <3>6 DEF TrafficInv
  <2> QED
    BY <2>1, <2>2 DEF TrafficInv
<1>16. CASE Agent
  <2>1. CASE RemoteConfig /\ UNCHANGED <<evaluations, handlerVars>>
    BY <1>3, <1>16, <2>1 DEF Agent
  <2>2. CASE PeriodicFlush
    <3>1. UNCHANGED <<at, stop, stopErr, drained>>
      BY <1>16, <2>2 DEF Agent, PeriodicFlush, bridgeVars
    <3>2. \A r \in Requests : (HasValue(r)' <=> HasValue(r)) /\ (Unsent(r)' => Unsent(r))
      BY <2>2, FlushSends
    <3> QED
      BY <1>0, <3>1, <3>2 DEF TrafficInv, NoHandlers, InFlight
  <2> QED
    BY <1>16, <2>1, <2>2 DEF Agent
<1>17. CASE UNCHANGED vars
  BY <1>2, <1>17
<1> QED
  BY <1>4, <1>5, <1>6, <1>7, <1>8, <1>9, <1>10, <1>11, <1>12, <1>13, <1>14, <1>15, <1>16,
     <1>17 DEF Next, Work, RunSequence

------------------------------------------------------------------------------
(* Theorems *)

\* Every step of the process preserves the invariant.
LEMMA DaemonInvStep == DaemonInv /\ [Next]_vars => DaemonInv'
<1> SUFFICES ASSUME DaemonInv, [Next]_vars
             PROVE  DaemonInv'
  OBVIOUS
<1>1. DaemonTypeOK' /\ ProcessInv' /\ LaunchInv' /\ SequenceInv'
  BY ControlStep
<1>2. TrafficInv'
  BY TrafficStep
<1>3. OfrepInv'
  BY StepRefines, OfrepInvStep DEF DaemonInv
<1> QED
  BY <1>1, <1>2, <1>3 DEF DaemonInv

\* The inductive invariant holds of every behaviour of the process.
THEOREM DaemonInvariant == Spec => []DaemonInv
  BY DaemonInvInit, DaemonInvStep, PTL DEF Spec

\* The process implements the specification of the handlers beside the bridge:
\* run and shutdown drive both only as Ofrep allows.
THEOREM DaemonImplementsOfrep == Spec => ImplementsOfrep
<1>1. Init => OfrepInit
  BY DEF Init
<1> QED
  BY <1>1, StepRefines, DaemonInvariant, PTL DEF Spec, OfrepSafety, ImplementsOfrep

\* And so the bridge's own.
THEOREM DaemonImplementsBridge == Spec => BridgeSpec
  BY DaemonImplementsOfrep, OfrepImplementsBridge, PTL DEF ImplementsOfrep

\* Type correctness.
THEOREM TypeCorrect == Spec => []TypeOK
<1>1. DaemonInv => TypeOK
  BY DEF DaemonInv, OfrepInv, BridgeInv, TypeOK
<1> QED
  BY <1>1, DaemonInvariant, PTL

\* The steps of the shutdown come in their order: readiness drops, then the
\* handler refuses, then the listener closes, then the bridge is down, and
\* the operational listener closes last (shutdown in root.go).
THEOREM ShutdownIsOrdered == Spec => []ShutdownOrder
<1>1. DaemonInv => ShutdownOrder
  BY DEF DaemonInv, DaemonTypeOK, SequenceInv, Late, ShutdownOrder
<1> QED
  BY <1>1, DaemonInvariant, PTL

\* Exit status 0 takes a signal (run, Execute).
THEOREM SuccessIsSignalled == Spec => []SuccessNeedsSignal
<1>1. DaemonInv => SuccessNeedsSignal
  BY DEF DaemonInv, DaemonTypeOK, ProcessInv, SuccessNeedsSignal
<1> QED
  BY <1>1, DaemonInvariant, PTL

\* A drain that timed out and a flush that failed cannot exit 0 (shutdown's
\* joined errors).
THEOREM LossShows == Spec => []LossIsReported
<1>1. DaemonInv => LossIsReported
  BY DEF DaemonInv, OfrepInv, BridgeInv, BridgeTypeOK, DaemonTypeOK, ProcessInv, SequenceInv, Late,
         LossIsReported
<1> QED
  BY <1>1, DaemonInvariant, PTL

\* Unless the drain timed out, no handler is left when the provider goes down.
THEOREM HandlersAreDrained == Spec => []ProviderOutlivesHandlers
<1>1. DaemonInv => ProviderOutlivesHandlers
  BY DEF DaemonInv, OfrepInv, BridgeInv, ProviderInv, SequenceInv, TrafficInv, ProviderOutlivesHandlers
<1> QED
  BY <1>1, DaemonInvariant, PTL

\* The invariant lets a clean exit leave nothing behind.
LEMMA CleanExit == DaemonInv => CleanExitStrandsNothing
<1> SUFFICES ASSUME DaemonInv, exit = "success"
             PROVE  \A r \in Requests : ~InFlight(r) /\ (HasValue(r) => ~Unsent(r))
  BY DEF CleanExitStrandsNothing
<1>1. drained /\ stop = "done" /\ ~stopErr
  BY DEF DaemonInv, OfrepInv, BridgeInv, BridgeTypeOK, DaemonTypeOK, ProcessInv, SequenceInv, Late
<1> QED
  BY <1>1 DEF DaemonInv, TrafficInv, NoHandlers

\* A process that exits 0 has answered every request, and of the values its
\* callers hold none has an exposure event that no flush took (shutdown in
\* root.go).
THEOREM NothingIsStranded == Spec => []CleanExitStrandsNothing
  BY CleanExit, DaemonInvariant, PTL

\* What the bridge promises by itself it promises inside the process.
THEOREM ReadinessHolds == Spec => ShutdownIsFinal /\ []ReadyHasProvider
  BY DaemonImplementsBridge, ShuttingDownIsFinal, ReadinessIsBacked, PTL

\* And so do the handlers: each request is counted once, every 503 invites a
\* retry, and nobody is refused by a drain that let him in.
THEOREM HandlersHold ==
    Spec => /\ []CountedOnce /\ []LastErrorIsFailure /\ []RetryAfterOnEvery503
            /\ []DrainKeepsServing /\ []UnreadyIsNotEvaluated
  BY DaemonImplementsOfrep, RequestsAreCountedOnce, ErrorsAreFailures, RetriesAreInvited,
     DrainServes, GateHolds, PTL DEF ImplementsOfrep

------------------------------------------------------------------------------
(* The process implements Lifecycle *)

\* Three variables decide the phase.
LEMMA PhaseFrame ==
    ASSUME UNCHANGED <<main, stopped, state>>
    PROVE  phase' = phase
  BY DEF phase

\* The debt is the same when no caller gets a value and no exposure of a value
\* already given moves.
LEMMA OwedFrame ==
    ASSUME \A r \in Requests : /\ HasValue(r)' <=> HasValue(r)
                               /\ HasValue(r) => exposure'[r] = exposure[r]
    PROVE  owed' = owed
  BY DEF owed, Unsent

\* Steps outside the handlers and the flush leave the debt alone.
LEMMA OwedSame ==
    ASSUME UNCHANGED <<at, answer, exposure>>
    PROVE  owed' = owed
<1>1. \A r \in Requests : HasValue(r)' <=> HasValue(r)
  BY DEF HasValue, Answered
<1> QED
  BY <1>1, OwedFrame

\* A request's step either leaves the debt alone or adds that request to it.
LEMMA RequestOwes ==
    ASSUME DaemonInv, NEW r \in Requests, Request(r)
    PROVE  owed' = owed \/ owed' = owed \cup {r}
<1>0. OfrepInv /\ HandlerTypeOK
  BY DEF DaemonInv, OfrepInv
<1>1. ASSUME NEW q \in Requests, q # r
      PROVE  (HasValue(q)' <=> HasValue(q)) /\ exposure'[q] = exposure[q]
  BY <1>0, <1>1, OtherRequests DEF HasValue, Answered
<1>2. CASE Evaluate(r) \/ SendResult(r)
  BY <1>0, <1>2, WorkerOwesNothing, OwedFrame
<1>3. CASE ~(Evaluate(r) \/ SendResult(r))
  <2>1. exposure' = exposure
    BY <1>3
       DEF Request, Handle, Deflect, CheckStopped, Decode, CheckState, ReceiveResult,
           ContextDone, selectUnchanged, Observe, ReportFailure, TimeoutFires, ClientGone
  <2>2. HasValue(r) => HasValue(r)'
    <3>1. ASSUME Answered(r)
          PROVE  Answered(r)' /\ answer' = answer
      BY <1>0, <1>3, <3>1
         DEF HandlerTypeOK, Request, Handle, Deflect, CheckStopped, Decode, CheckState,
             ReceiveResult, ContextDone, selectUnchanged, Observe, ReportFailure, TimeoutFires,
             ClientGone, Step, Answered
    <3> QED
      BY <3>1, Zenon DEF HasValue
  <2> QED
    BY <1>1, <2>1, <2>2, Zenon DEF owed, Unsent
<1> QED
  BY <1>2, <1>3

\* Every step maps to a step of Lifecycle or to a stutter.
LEMMA LifecycleStep ==
    ASSUME DaemonInv, DaemonInv', [Next]_vars
    PROVE  [L!Next]_L!vars
<1>0. /\ DaemonTypeOK /\ ProcessInv /\ SequenceInv /\ TrafficInv
      /\ HandlerTypeOK /\ BridgeInv /\ BuiltInv /\ BridgeTypeOK
  BY DEF DaemonInv, OfrepInv, BridgeInv
<1> USE DEF L!vars
<1>1. ASSUME UNCHANGED <<main, exit>>, UNCHANGED <<stopped, state>>, owed' = owed
      PROVE  UNCHANGED L!vars
  BY <1>1, PhaseFrame
<1>2. ASSUME UNCHANGED ofrepVars, UNCHANGED <<main, exit>>
      PROVE  UNCHANGED L!vars
  BY <1>1, <1>2, OwedSame DEF bridgeVars
<1>3. CASE BuildBridge
  <2>1. /\ UNCHANGED <<main, exit, stopped, at, answer, exposure>>
        /\ ~stopped /\ state # "shutting_down" /\ state # "ready" /\ main # "exited"
        /\ state' \in {"none", "starting"}
    BY <1>0, <1>3
       DEF BuildBridge, New, StartTracer, NewProvider, RefuseProvider, BuiltInv, SequenceInv,
           BridgeTypeOK, States
  <2> QED
    BY <2>1, OwedSame DEF phase
<1>4. CASE BuildFails
  <2>1. /\ phase = "starting" /\ phase' = "exited"
    BY <1>0, <1>4 DEF BuildFails, phase, BuiltInv, SequenceInv, BridgeTypeOK, States
  <2>2. owed' = owed /\ exit' = "failure"
    BY <1>4, OwedSame DEF BuildFails
  <2> QED
    BY <2>1, <2>2 DEF L!Next, L!Refuse
<1>5. CASE RegisterCleanup \/ Launch
  <2>1. UNCHANGED <<exit, stopped, state, at, answer, exposure>>
    BY <1>5 DEF RegisterCleanup, Launch, bridgeVars
  <2>2. main # "exited" /\ main' # "exited"
    BY <1>5 DEF RegisterCleanup, Launch
  <2> QED
    BY <2>1, <2>2, OwedSame DEF phase
<1>6. CASE WaitReturns
  <2>1. phase = "stopping" /\ phase' = "exited"
    BY <1>0, <1>6 DEF WaitReturns, phase, SequenceInv
  <2>2. owed' = owed
    BY <1>6, OwedSame DEF WaitReturns
  <2>3. exit' = "failure" \/ (exit' = "success" /\ owed = {})
    <3>1. exit' \in {"success", "failure"}
      BY <1>6 DEF WaitReturns
    <3>2. ASSUME exit' = "success"
          PROVE  owed' = {}
      <4>1. CleanExitStrandsNothing'
        BY CleanExit, PTL
      <4> QED
        BY <3>2, <4>1 DEF CleanExitStrandsNothing, owed
    <3> QED
      BY <2>2, <3>1, <3>2
  <2> QED
    BY <2>1, <2>2, <2>3 DEF L!Next, L!Exit
<1>7. CASE Signal
  BY <1>2, <1>7 DEF Signal
<1>8. ASSUME NEW s \in Servers, RunListener(s)
      PROVE  UNCHANGED L!vars
  BY <1>2, <1>8 DEF RunListener, Listen, Bind, ServeReturns, ListenFails, listenerUnchanged
<1>9. CASE RunStart
  <2>1. UNCHANGED <<main, exit, stopped, at, answer, exposure>> /\ main # "exited"
    BY <1>9 DEF RunStart, Alive
  <2>2. owed' = owed
    BY <2>1, OwedSame
  <2>3. \/ state' = state
        \/ state = "starting" /\ state' = "ready"
    BY <1>9 DEF RunStart, Start, RegisterProvider, ProviderInitialized, StartFails, BecomeReady,
               AnnounceReady
  <2>4. CASE state = "starting" /\ state' = "ready"
    <3>1. ~stopped
      BY <1>0, <2>4 DEF SequenceInv
    <3>2. phase = "starting" /\ phase' = "ready"
      BY <2>1, <2>4, <3>1 DEF phase
    <3> QED
      BY <2>1, <2>2, <3>2 DEF L!Next, L!BecomeReady
  <2> QED
    BY <1>1, <2>1, <2>2, <2>3, <2>4
<1>10. CASE StartSucceeded \/ StartFailed \/ BlameStart
  BY <1>2, <1>10 DEF StartSucceeded, StartFailed, BlameStart, starterUnchanged
<1>11. CASE BeginDrain
  <2>1. /\ UNCHANGED <<main, exit, stopped, at, answer, exposure>> /\ main # "exited"
        /\ state' = "shutting_down" /\ ~stopped
    BY <1>0, <1>11 DEF BeginDrain, BeginShutdown, Advance, SequenceInv, sequenceUnchanged
  <2>2. owed' = owed
    BY <2>1, OwedSame
  <2>3. phase \in {"starting", "ready", "draining"} /\ phase' = "draining"
    BY <2>1 DEF phase
  <2> QED
    BY <2>1, <2>2, <2>3 DEF L!Next, L!Drain
<1>12. CASE EndDrain
  <2>1. /\ UNCHANGED <<main, exit, state, at, answer, exposure>>
        /\ state = "shutting_down" /\ ~stopped /\ stopped' = TRUE
    BY <1>0, <1>12 DEF EndDrain, StopServing, Advance, SequenceInv, sequenceUnchanged, bridgeVars
  <2>2. owed' = owed
    BY <2>1, OwedSame
  <2>3. main = "exited" \/ (phase = "draining" /\ phase' = "stopping")
    BY <2>1 DEF phase
  <2>4. CASE main = "exited"
    BY <2>1, <2>2, <2>4 DEF phase
  <2> QED
    BY <2>1, <2>2, <2>3, <2>4 DEF L!Next, L!Stop
<1>13. CASE CloseEval \/ EvalDrained \/ EvalTimesOut \/ BridgeStopped
            \/ CloseAdmin \/ AdminDrained \/ AdminTimesOut
  BY <1>2, <1>13
     DEF CloseEval, EvalDrained, EvalTimesOut, BridgeStopped, CloseAdmin, AdminDrained,
         AdminTimesOut, sequenceUnchanged
<1>14. CASE StopBridge /\ Alive
  <2>1. /\ main # "exited" /\ stopped /\ state = "shutting_down" /\ state' = "shutting_down"
        /\ UNCHANGED <<main, exit, stopped, at, answer>>
    <3>1. main # "exited" /\ stopped /\ state = "shutting_down"
      BY <1>0, <1>14 DEF StopBridge, Alive, SequenceInv
    <3>2. state' = "shutting_down"
      BY <1>14, <3>1 DEF StopBridge, FlushExposures, ShutdownBegins, ShutdownProvider, StopTracer
    <3>3. UNCHANGED <<main, exit, stopped, at, answer>>
      BY <1>14 DEF StopBridge, FlushExposures
    <3> QED
      BY <3>1, <3>2, <3>3
  <2>2. phase = "stopping" /\ phase' = "stopping"
    BY <2>1 DEF phase
  <2>3. \A r \in Requests : (HasValue(r)' <=> HasValue(r)) /\ (Unsent(r)' => Unsent(r))
    <3>1. CASE \E failed \in BOOLEAN : FlushExposures(failed)
      BY <3>1, FlushSends
    <3>2. CASE UNCHANGED handlerVars
      BY <3>2 DEF HasValue, Answered, Unsent
    <3> QED
      BY <1>14, <3>1, <3>2 DEF StopBridge
  <2>4. owed' \in SUBSET owed
    BY <2>3 DEF owed
  <2> QED
    BY <2>1, <2>2, <2>4 DEF L!Next, L!Settle
<1>15. CASE BudgetExpires
  BY <1>2, <1>15 DEF BudgetExpires, sequenceUnchanged
<1>16. ASSUME NEW r \in Requests, Accept(r)
       PROVE  UNCHANGED L!vars
  <2>1. /\ at[r] = "idle" /\ at' = [at EXCEPT ![r] = "entered"]
        /\ UNCHANGED <<main, exit, stopped, state, answer, exposure>>
    BY <1>16 DEF Accept, Arrive, Step, bridgeVars
  <2>2. at \in [Requests -> Points]
    BY <1>0 DEF HandlerTypeOK
  <2>3. \A q \in Requests : HasValue(q)' <=> HasValue(q)
    BY <2>1, <2>2 DEF HasValue, Answered
  <2>4. owed' = owed
    BY <2>1, <2>3, OwedFrame
  <2> QED
    BY <1>1, <2>1, <2>4
<1>17. ASSUME NEW r \in Requests, Serve(r)
       PROVE  [L!Next]_L!vars
  <2>1. /\ UNCHANGED <<main, exit>> /\ main # "exited"
        /\ UNCHANGED <<stopped, state>>
    BY <1>17, RequestFrame DEF Serve, Alive
  <2>2. phase' = phase /\ phase # "exited"
    BY <2>1, PhaseFrame DEF phase
  <2>3. owed' = owed \/ owed' = owed \cup {r}
    BY <1>17, RequestOwes DEF Serve
  <2> QED
    BY <1>17, <2>1, <2>2, <2>3 DEF L!Next, L!Owe
<1>18. CASE Agent
  <2>1. CASE RemoteConfig /\ UNCHANGED handlerVars
    <3>1. UNCHANGED <<main, exit, stopped, state, at, answer, exposure>>
      BY <1>18, <2>1 DEF Agent, RemoteConfig, DeliverConfig, WithdrawConfig, InitializeProvider,
                         externalUnchanged
    <3> QED
      BY <1>1, <3>1, OwedSame
  <2>2. CASE PeriodicFlush
    <3>1. UNCHANGED <<main, exit, stopped, state>> /\ main # "exited"
      BY <1>18, <2>2 DEF Agent, Alive, PeriodicFlush, bridgeVars
    <3>2. phase' = phase /\ phase # "exited"
      BY <3>1, PhaseFrame DEF phase
    <3>3. \A r \in Requests : (HasValue(r)' <=> HasValue(r)) /\ (Unsent(r)' => Unsent(r))
      BY <2>2, FlushSends
    <3>4. owed' \in SUBSET owed
      BY <3>3 DEF owed
    <3> QED
      BY <3>1, <3>2, <3>4 DEF L!Next, L!Settle
  <2> QED
    BY <1>18, <2>1, <2>2 DEF Agent
<1>19. CASE UNCHANGED vars
  BY <1>2, <1>19
<1> QED
  BY <1>3, <1>4, <1>5, <1>6, <1>7, <1>8, <1>9, <1>10, <1>11, <1>12, <1>13, <1>14, <1>15,
     <1>16, <1>17, <1>18, <1>19 DEF Next, Work, RunMain, RunStarter, RunSequence

\* The process implements the abstract lifecycle: phases move forward only,
\* and status 0 means that no value is left whose exposure waits for a flush.
THEOREM DaemonImplementsLifecycle == Spec => ImplementsLifecycle
<1>1. Init => L!Init
  <2> SUFFICES ASSUME Init
               PROVE  phase = "starting" /\ owed = {} /\ exit = "none"
    BY DEF L!Init
  <2>1. main = "building" /\ stopped = FALSE /\ state = "none" /\ exit = "none"
    BY DEF Init, DaemonInit, OfrepInit, HandlerInit, BridgeInit
  <2>2. \A r \in Requests : ~HasValue(r)
    BY DEF Init, OfrepInit, HandlerInit, HasValue, Answered
  <2> QED
    BY <2>1, <2>2 DEF phase, owed
<1>2. DaemonInv /\ DaemonInv' /\ [Next]_vars => [L!Next]_L!vars
  BY LifecycleStep
<1> QED
  BY <1>1, <1>2, DaemonInvariant, PTL DEF Spec, ImplementsLifecycle, L!Spec

------------------------------------------------------------------------------
(* Who is blamed for the end.  A failed startup is blamed by what the      *)
(* startup goroutine found when it looked at the context, so that nothing  *)
(* which ended the context earlier lets it blame anybody.                  *)

\* Whoever blames the startup saw Start fail.
BlameInv == starter = "blaming" \/ "init" \in errs => start = "failed"

\* The context has ended, and the startup is not blamed for it.
CutShort == ctx # "live" /\ starter # "blaming" /\ "init" \notin errs

\* Outside the startup goroutine nothing advances Start, nothing reports it
\* as failed, and an ended context keeps its cause.
LEMMA OthersBlameNobody ==
    ASSUME [Next]_vars, ~RunStarter
    PROVE  /\ start' = start
           /\ "init" \in errs' => "init" \in errs
           /\ starter' \in {starter, "running"}
           /\ ctx # "live" => ctx' = ctx
<1> DEFINE Goal == /\ start' = start
                   /\ "init" \in errs' => "init" \in errs
                   /\ starter' \in {starter, "running"}
                   /\ ctx # "live" => ctx' = ctx
<1>1. CASE RunMain \/ Signal
  BY <1>1 DEF RunMain, BuildBridge, New, StartTracer, NewProvider, RefuseProvider, newUnchanged,
              BuildFails, RegisterCleanup, Launch, WaitReturns, Signal, Cancel, bridgeVars
<1>2. ASSUME NEW s \in Servers, RunListener(s)
      PROVE  Goal
  BY <1>2 DEF RunListener, Listen, Bind, ServeReturns, ListenFails, Cancel, listenerUnchanged,
              bridgeVars
<1>3. CASE RunSequence
  BY <1>3 DEF RunSequence, BeginDrain, BeginShutdown, EndDrain, StopServing, CloseEval, EvalDrained,
              EvalTimesOut, StopBridge, ShutdownBegins, StopTracer, FlushExposures,
              ShutdownProvider, BridgeStopped, CloseAdmin, AdminDrained, AdminTimesOut,
              sequenceUnchanged, bridgeVars
<1>4. CASE BudgetExpires
  BY <1>4 DEF BudgetExpires, sequenceUnchanged, bridgeVars
<1>5. ASSUME NEW r \in Requests, Accept(r)
      PROVE  Goal
  BY <1>5 DEF Accept, Arrive, bridgeVars
<1>6. ASSUME NEW r \in Requests, Serve(r)
      PROVE  Goal
  BY <1>6, RequestFrame DEF Serve
<1>7. CASE Agent
  BY <1>7 DEF Agent, RemoteConfig, DeliverConfig, WithdrawConfig, InitializeProvider,
              externalUnchanged, PeriodicFlush, bridgeVars
<1>8. CASE UNCHANGED vars
  BY <1>8 DEF bridgeVars
<1> QED
  BY <1>1, <1>2, <1>3, <1>4, <1>5, <1>6, <1>7, <1>8 DEF Next, Work

\* Nobody is blamed before Start has failed.
LEMMA BlameInvStep == BlameInv /\ [Next]_vars => BlameInv'
<1> SUFFICES ASSUME BlameInv, [Next]_vars
             PROVE  BlameInv'
  OBVIOUS
<1>1. CASE RunStart
  <2>1. start # "failed" /\ UNCHANGED <<starter, errs>>
    BY <1>1 DEF RunStart, Start, RegisterProvider, ProviderInitialized, StartFails, BecomeReady,
                AnnounceReady
  <2> QED
    BY <2>1 DEF BlameInv
<1>2. CASE StartSucceeded
  BY <1>2 DEF StartSucceeded, starterUnchanged, bridgeVars, BlameInv
<1>3. CASE StartFailed \/ BlameStart
  BY <1>3 DEF StartFailed, BlameStart, starterUnchanged, bridgeVars, BlameInv
<1>4. CASE ~RunStarter
  BY <1>4, OthersBlameNobody DEF BlameInv
<1> QED
  BY <1>1, <1>2, <1>3, <1>4 DEF RunStarter

\* Once the context has ended under a startup that was not blamed, it never
\* will be: StartFailed looks at the context first.
LEMMA CutShortIsFinal == CutShort /\ [Next]_vars => CutShort'
<1> SUFFICES ASSUME CutShort, [Next]_vars
             PROVE  CutShort'
  OBVIOUS
<1>1. CASE RunStarter
  BY <1>1 DEF RunStarter, RunStart, StartSucceeded, StartFailed, BlameStart, starterUnchanged,
              CutShort
<1>2. CASE ~RunStarter
  BY <1>2, OthersBlameNobody DEF CutShort
<1> QED
  BY <1>1, <1>2

\* A startup that the end of the process cuts short is never reported as a
\* failure (the check of ctx.Err in run).
THEOREM CutShortIsNotBlamed == Spec => CutShortIsNoFailure
<1>1. Init => BlameInv
  BY DEF Init, DaemonInit, BlameInv
<1>2. BlameInv /\ ctx # "live" /\ start \in {"idle", "waiting"} => CutShort
  BY DEF BlameInv, CutShort
<1>3. CutShort => "init" \notin errs
  BY DEF CutShort
<1> QED
  BY <1>1, <1>2, <1>3, BlameInvStep, CutShortIsFinal, PTL DEF Spec, CutShortIsNoFailure
==============================================================================
