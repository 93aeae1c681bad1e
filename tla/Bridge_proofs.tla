---------------------------- MODULE Bridge_proofs ----------------------------
(***************************************************************************)
(* Proofs about the bridge on its own.  The properties of Bridge are not   *)
(* inductive: that a bridge which becomes ready has a provider which is    *)
(* up depends on how far Start and Shutdown have got, so BridgeInv ties    *)
(* the state and the provider to the progress of both.                     *)
(***************************************************************************)
EXTENDS Bridge, TLAPS

\* The bridge exists from New's success on, and Shutdown needs it.
BuiltInv ==
    /\ built = "yes" <=> state # "none"
    /\ built = "refused" => tracer # "on"
    /\ stop # "idle" => state = "shutting_down"

\* The provider is up from the moment SetProviderAndWait saw it initialized
\* until Shutdown takes it down, which it does only when stopping.
ProviderInv ==
    /\ provider = "shut" => stop \in {"untracing", "done"}
    /\ start \in {"initialized", "announcing", "returned"} => provider \in {"ready", "shut"}

\* Readiness and its two records come from the same critical section.
ReadyInv ==
    /\ state = "ready" => start \in {"announcing", "returned"}
    /\ start = "announcing" => readyAt
    /\ providerReady => readyAt

BridgeInv == BridgeTypeOK /\ BuiltInv /\ ProviderInv /\ ReadyInv

USE DEF States, StartPoints, ErrorSources

\* The initial state satisfies the invariant.
LEMMA BridgeInvInit == BridgeInit => BridgeInv
  BY DEF BridgeInit, BridgeInv, BridgeTypeOK, BuiltInv, ProviderInv, ReadyInv

\* Every step of the bridge, or of its environment, preserves the invariant.
LEMMA BridgeInvStep == BridgeInv /\ [BridgeNext]_bridgeVars => BridgeInv'
<1> SUFFICES ASSUME BridgeInv, [BridgeNext]_bridgeVars
             PROVE  BridgeInv'
  OBVIOUS
<1> USE DEF BridgeInv, BridgeTypeOK, BuiltInv, ProviderInv, ReadyInv
<1>1. CASE StartTracer
  BY <1>1 DEF StartTracer, newUnchanged
<1>2. CASE NewProvider
  BY <1>2 DEF NewProvider, newUnchanged
<1>3. CASE RefuseProvider
  BY <1>3 DEF RefuseProvider, newUnchanged
<1>4. CASE RegisterProvider
  BY <1>4 DEF RegisterProvider, startUnchanged
<1>5. CASE ProviderInitialized
  BY <1>5 DEF ProviderInitialized, startUnchanged
<1>6. CASE StartFails
  BY <1>6 DEF StartFails, startUnchanged, RecordError
<1>7. CASE BecomeReady
  BY <1>7 DEF BecomeReady, startUnchanged
<1>8. CASE AnnounceReady
  BY <1>8 DEF AnnounceReady, startUnchanged, SetProviderReady
<1>9. CASE BeginShutdown
  BY <1>9 DEF BeginShutdown
<1>10. CASE ShutdownBegins
  BY <1>10 DEF ShutdownBegins
<1>11. ASSUME NEW failed \in BOOLEAN, ShutdownProvider(failed)
       PROVE  BridgeInv'
  BY <1>11 DEF ShutdownProvider
<1>12. CASE StopTracer
  BY <1>12 DEF StopTracer
<1>13. CASE RemoteConfig
  <2>1. CASE DeliverConfig
    BY <2>1 DEF DeliverConfig, externalUnchanged
  <2>2. CASE WithdrawConfig
    <3>1. config' \in BOOLEAN
      BY <2>2 DEF WithdrawConfig
    <3>2. UNCHANGED <<built, tracer, state, readyAt, start, stop, stopErr, provider,
                      providerReady, lastError>>
      BY <2>2 DEF WithdrawConfig, externalUnchanged
    <3> QED
      BY <3>1, <3>2
  <2>3. CASE InitializeProvider
    BY <2>3 DEF InitializeProvider, externalUnchanged
  <2> QED
    BY <1>13, <2>1, <2>2, <2>3 DEF RemoteConfig
<1>14. CASE HandlerRecordsError
  BY <1>14 DEF HandlerRecordsError, externalUnchanged, RecordError
<1>15. CASE UNCHANGED bridgeVars
  BY <1>15 DEF bridgeVars
<1> QED
  BY <1>1, <1>2, <1>3, <1>4, <1>5, <1>6, <1>7, <1>8, <1>9, <1>10, <1>11, <1>12, <1>13,
     <1>14, <1>15 DEF BridgeNext, New, Start, Shutdown

\* The inductive invariant holds of every behaviour of the bridge.
THEOREM BridgeInvariant == BridgeSpec => []BridgeInv
<1>1. BridgeInit => BridgeInv
  BY BridgeInvInit
<1>2. BridgeInv /\ [BridgeNext]_bridgeVars => BridgeInv'
  BY BridgeInvStep
<1> QED
  BY <1>1, <1>2, PTL DEF BridgeSpec

\* Type correctness.
THEOREM BridgeTypeCorrect == BridgeSpec => []BridgeTypeOK
<1>1. BridgeInv => BridgeTypeOK
  BY DEF BridgeInv
<1> QED
  BY <1>1, BridgeInvariant, PTL

\* A bridge in state ready has a provider that was initialized and is not shut
\* down (State, /readyz).
THEOREM ReadinessIsBacked == BridgeSpec => []ReadyHasProvider
<1>1. BridgeInv => ReadyHasProvider
  BY DEF BridgeInv, BridgeTypeOK, BuiltInv, ProviderInv, ReadyInv, ReadyHasProvider
<1> QED
  BY <1>1, BridgeInvariant, PTL

\* The gauge is set only by a Start that made the bridge ready (SetProviderReady).
THEOREM GaugeIsHonest == BridgeSpec => []GaugeFollowsReady
<1>1. BridgeInv => GaugeFollowsReady
  BY DEF BridgeInv, ReadyInv, GaugeFollowsReady
<1> QED
  BY <1>1, BridgeInvariant, PTL

\* A refused provider leaves no tracer running (New's error paths).
THEOREM RefusalIsClean == BridgeSpec => []RefusalStopsTracer
<1>1. BridgeInv => RefusalStopsTracer
  BY DEF BridgeInv, BuiltInv, RefusalStopsTracer
<1> QED
  BY <1>1, BridgeInvariant, PTL

\* No step leaves shutting_down (BeginShutdown against Start).
THEOREM ShuttingDownIsFinal == BridgeSpec => ShutdownIsFinal
<1> DEFINE Final == state = "shutting_down" => state' = "shutting_down"
<1>1. BridgeInv /\ [BridgeNext]_bridgeVars => [Final]_bridgeVars
  <2> SUFFICES ASSUME BridgeInv, BridgeNext, state = "shutting_down"
               PROVE  state' = "shutting_down"
    OBVIOUS
  <2>1. CASE New
    BY <2>1 DEF New, StartTracer, NewProvider, RefuseProvider, BridgeInv, BuiltInv
  <2>2. CASE Start
    BY <2>2 DEF Start, RegisterProvider, ProviderInitialized, StartFails, BecomeReady,
                AnnounceReady
  <2>3. CASE BeginShutdown
    BY <2>3 DEF BeginShutdown
  <2>4. CASE Shutdown
    BY <2>4 DEF Shutdown, ShutdownBegins, ShutdownProvider, StopTracer
  <2>5. CASE RemoteConfig
    BY <2>5 DEF RemoteConfig, DeliverConfig, WithdrawConfig, InitializeProvider,
                externalUnchanged
  <2>6. CASE HandlerRecordsError
    BY <2>6 DEF HandlerRecordsError, externalUnchanged
  <2> QED
    BY <2>1, <2>2, <2>3, <2>4, <2>5, <2>6 DEF BridgeNext
<1> QED
  BY <1>1, BridgeInvariant, PTL DEF BridgeSpec, ShutdownIsFinal

\* The ready timestamp is written by the step from starting to ready alone.
THEOREM ReadyTimestampIsHonest == BridgeSpec => ReadyAtMeansReady
<1> DEFINE Honest == readyAt' # readyAt => state = "starting" /\ state' = "ready"
<1>1. BridgeInv /\ [BridgeNext]_bridgeVars => [Honest]_bridgeVars
  <2> SUFFICES ASSUME BridgeInv, BridgeNext, readyAt' # readyAt
               PROVE  state = "starting" /\ state' = "ready"
    OBVIOUS
  <2>1. BecomeReady
    BY DEF BridgeNext, New, StartTracer, NewProvider, RefuseProvider, newUnchanged,
           Start, RegisterProvider, ProviderInitialized, StartFails, AnnounceReady,
           BeginShutdown, Shutdown, ShutdownBegins, ShutdownProvider, StopTracer,
           RemoteConfig, DeliverConfig, WithdrawConfig, InitializeProvider,
           HandlerRecordsError, externalUnchanged
  <2> QED
    BY <2>1 DEF BecomeReady, BridgeInv, BridgeTypeOK
<1> QED
  BY <1>1, BridgeInvariant, PTL DEF BridgeSpec, ReadyAtMeansReady
==============================================================================
