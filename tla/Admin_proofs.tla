----------------------------- MODULE Admin_proofs ----------------------------
(***************************************************************************)
(* Proofs about the operational listener, for any set of probes and any    *)
(* number of evaluations.                                                  *)
(*                                                                         *)
(* A probe may read at two moments and is answered at a third, while the   *)
(* bridge moves.  What it saw is compared with what others saw by way of   *)
(* the state in between: whatever was seen is behind the current state,    *)
(* which only moves forward, and a probe that comes later reads from it.   *)
(* AdminInv says so for each probe and each field, according to the reads  *)
(* its handler has made.                                                   *)
(***************************************************************************)
EXTENDS Admin, Bridge_proofs

Views == [state : States, readyAt : BOOLEAN, evaluations : Nat,
          providerReady : BOOLEAN, lastError : ErrorSources]

AdminTypeOK ==
    /\ path \in [Probes -> Paths \cup {"none"}]
    /\ reads \in [Probes -> 0..2]
    /\ seen \in [Probes -> Views]
    /\ answered \in SUBSET Probes
    /\ earlier \in [Probes -> SUBSET Probes]
    /\ failedFirst \in BOOLEAN

\* The number of reads of each handler, as the length of its sequence has it.
Reads(endpoint) ==
    CASE endpoint = "/healthz" -> 0
      [] endpoint = "/readyz"  -> 1
      [] endpoint = "/metrics" -> 1
      [] OTHER                 -> 2

\* The probe has read the bridge, and has read the metrics.
HasStatus(p) == path[p] \in {"/readyz", "/debug/status"} /\ reads[p] >= 1
HasSnapshot(p) == \/ path[p] = "/metrics" /\ reads[p] >= 1
                  \/ path[p] = "/debug/status" /\ reads[p] = 2

\* The view v is behind the view w, in what the bridge or the metrics say.
StatusBehind(v, w) == Rank(v.state) <= Rank(w.state) /\ (v.readyAt => w.readyAt)
SnapshotBehind(v, w) ==
    v.evaluations <= w.evaluations /\ (v.providerReady => w.providerReady)

\* A handler that has not come to a read has seen nothing of it.
PlaceInv(p) ==
    /\ path[p] = "none" => reads[p] = 0 /\ p \notin answered
    /\ path[p] # "none" => reads[p] <= Reads(path[p])
    /\ p \in answered => reads[p] = Reads(path[p])
    /\ ~HasStatus(p) => seen[p].state = "none" /\ ~seen[p].readyAt
    /\ ~HasSnapshot(p) => seen[p].evaluations = 0 /\ ~seen[p].providerReady

\* What a probe has seen is a view of a state that was passed: state and
\* timestamp fit, and an error on record before a shutdown it saw was seen.
ViewInv(p) ==
    /\ StatusBehind(seen[p], current)
    /\ SnapshotBehind(seen[p], current)
    /\ seen[p].state = "ready" => seen[p].readyAt
    /\ seen[p].state = "starting" => ~seen[p].readyAt
    /\ HasStatus(p) /\ HasSnapshot(p) /\ seen[p].state = "shutting_down" /\ failedFirst
          => seen[p].lastError # "none"

\* A probe sent after others were answered reads a state not behind theirs.
OrderInv(p) ==
    \A q \in earlier[p] :
        /\ q \in answered
        /\ HasStatus(p) => /\ StatusBehind(seen[q], seen[p])
                           /\ seen[q].providerReady => seen[p].readyAt
        /\ HasSnapshot(p) => SnapshotBehind(seen[q], seen[p])

ProbesInv == \A p \in Probes : PlaceInv(p) /\ ViewInv(p) /\ OrderInv(p)

\* The timestamp and the state change together.
StampInv ==
    /\ readyAt => state \in {"ready", "shutting_down"}
    /\ state = "ready" => readyAt

\* An error on record is never taken back.
RecordInv == failedFirst => lastError # "none" /\ state = "shutting_down"

AdminInv == MetricsTypeOK /\ AdminTypeOK /\ BridgeInv /\ StampInv /\ RecordInv /\ ProbesInv
------------------------------------------------------------------------------
(* What a read returns *)

USE DEF States, StartPoints, ErrorSources

\* The sequence of reads of each handler, one position at a time.
LEMMA HandlerReads ==
    ASSUME NEW endpoint \in Paths
    PROVE  /\ Len(handler(endpoint)) = Reads(endpoint)
           /\ Reads(endpoint) \in 0..2
           /\ Reads(endpoint) = 2 <=> endpoint = "/debug/status"
           /\ Reads(endpoint) = 1 <=> endpoint \in {"/readyz", "/metrics"}
           /\ Reads(endpoint) = 0 <=> endpoint = "/healthz"
           /\ endpoint \in {"/readyz", "/debug/status"} => handler(endpoint)[1] = Status
           /\ endpoint = "/metrics" => handler(endpoint)[1] = Snapshot
           /\ endpoint = "/debug/status" => handler(endpoint)[2] = Snapshot
<1>1. CASE endpoint = "/healthz"
  BY <1>1 DEF handler, Reads
<1>2. CASE endpoint = "/readyz"
  BY <1>2 DEF handler, Reads
<1>3. CASE endpoint = "/metrics"
  BY <1>3 DEF handler, Reads
<1>4. CASE endpoint = "/debug/status"
  BY <1>4 DEF handler, Reads
<1> QED
  BY <1>1, <1>2, <1>3, <1>4 DEF Paths

\* The current view, field by field.
LEMMA CurrentView ==
    ASSUME BridgeTypeOK, MetricsTypeOK
    PROVE  /\ current \in Views
           /\ current.state = state
           /\ current.readyAt = readyAt
           /\ current.evaluations = evaluations["value"]
           /\ current.providerReady = providerReady
           /\ current.lastError = lastError
  BY DEF current, Views, BridgeTypeOK, MetricsTypeOK, Outcomes

\* The view v in which some fields have been read again, from w.
Merged(v, w, fields) ==
    [field \in DOMAIN Unseen |-> IF field \in fields THEN w[field] ELSE v[field]]

\* Each read is of one lock's fields and leaves the others alone.
LEMMA ViewMerged ==
    ASSUME NEW v \in Views, NEW w \in Views, NEW fields
    PROVE  /\ Merged(v, w, fields) \in Views
           /\ fields = Status => /\ Merged(v, w, fields).state = w.state
                                 /\ Merged(v, w, fields).readyAt = w.readyAt
                                 /\ Merged(v, w, fields).evaluations = v.evaluations
                                 /\ Merged(v, w, fields).providerReady = v.providerReady
           /\ fields = Snapshot => /\ Merged(v, w, fields).state = v.state
                                   /\ Merged(v, w, fields).readyAt = v.readyAt
                                   /\ Merged(v, w, fields).evaluations = w.evaluations
                                   /\ Merged(v, w, fields).providerReady = w.providerReady
                                   /\ Merged(v, w, fields).lastError = w.lastError
<1> DEFINE u == Merged(v, w, fields)
<1>1. DOMAIN Unseen = {"state", "readyAt", "evaluations", "providerReady", "lastError"}
  BY DEF Unseen
<1>2. /\ u.state = IF "state" \in fields THEN w.state ELSE v.state
      /\ u.readyAt = IF "readyAt" \in fields THEN w.readyAt ELSE v.readyAt
      /\ u.evaluations = IF "evaluations" \in fields THEN w.evaluations ELSE v.evaluations
      /\ u.providerReady = IF "providerReady" \in fields THEN w.providerReady ELSE v.providerReady
      /\ u.lastError = IF "lastError" \in fields THEN w.lastError ELSE v.lastError
  BY <1>1 DEF Merged
<1>3. u = [state |-> u.state, readyAt |-> u.readyAt, evaluations |-> u.evaluations,
           providerReady |-> u.providerReady, lastError |-> u.lastError]
  BY <1>1 DEF Merged
<1> HIDE DEF u
<1>4. /\ u.state \in States /\ u.readyAt \in BOOLEAN /\ u.evaluations \in Nat
      /\ u.providerReady \in BOOLEAN /\ u.lastError \in ErrorSources
  BY <1>2 DEF Views
<1>5. u \in Views
  BY <1>3, <1>4 DEF Views
<1> QED
  BY <1>2, <1>5 DEF u, Status, Snapshot

------------------------------------------------------------------------------
(* The bridge beside the listener *)

\* The places of the lifecycle in their order.
LEMMA Ranks ==
    /\ Rank("none") = 0
    /\ Rank("starting") = 1
    /\ Rank("ready") = 2
    /\ Rank("shutting_down") = 3
  BY Zenon DEF Rank

\* Behind is transitive where the views are views.
LEMMA BehindTransitive ==
    ASSUME NEW u \in Views, NEW v \in Views, NEW w \in Views
    PROVE  /\ StatusBehind(u, u)
           /\ SnapshotBehind(u, u)
           /\ StatusBehind(u, v) /\ StatusBehind(v, w) => StatusBehind(u, w)
           /\ SnapshotBehind(u, v) /\ SnapshotBehind(v, w) => SnapshotBehind(u, w)
  BY Ranks DEF StatusBehind, SnapshotBehind, Views

\* A step of the bridge moves what the listener reports forward, and keeps
\* the timestamp and the state together.
LEMMA BridgeMovesForward ==
    ASSUME BridgeInv, StampInv, BridgeNext
    PROVE  /\ StampInv'
           /\ Rank(state) <= Rank(state')
           /\ readyAt => readyAt'
           /\ providerReady => providerReady'
           /\ lastError # "none" => lastError' # "none"
<1> USE Ranks DEF BridgeInv, BridgeTypeOK, BuiltInv, ProviderInv, ReadyInv, StampInv
<1>1. CASE New
  BY <1>1 DEF New, StartTracer, NewProvider, RefuseProvider, newUnchanged
<1>2. CASE Start
  <2>1. CASE BecomeReady
    <3>1. CASE state = "starting"
      <4>1. state' = "ready" /\ readyAt' /\ UNCHANGED <<providerReady, lastError>>
        BY <2>1, <3>1 DEF BecomeReady, startUnchanged
      <4> QED
        BY <3>1, <4>1
    <3>2. CASE state # "starting"
      <4>1. UNCHANGED <<state, readyAt, providerReady, lastError>>
        BY <2>1, <3>2 DEF BecomeReady, startUnchanged
      <4> QED
        BY <4>1
    <3> QED
      BY <3>1, <3>2
  <2>2. CASE RegisterProvider \/ ProviderInitialized \/ StartFails \/ AnnounceReady
    BY <2>2 DEF RegisterProvider, ProviderInitialized, StartFails, AnnounceReady,
                startUnchanged, RecordError, SetProviderReady
  <2> QED
    BY <1>2, <2>1, <2>2 DEF Start
<1>3. CASE BeginShutdown
  BY <1>3 DEF BeginShutdown
<1>4. CASE Shutdown
  BY <1>4 DEF Shutdown, ShutdownBegins, ShutdownProvider, StopTracer
<1>5. CASE RemoteConfig \/ HandlerRecordsError
  BY <1>5 DEF RemoteConfig, DeliverConfig, WithdrawConfig, InitializeProvider,
              HandlerRecordsError, RecordError, externalUnchanged
<1> QED
  BY <1>1, <1>2, <1>3, <1>4, <1>5 DEF BridgeNext

\* The listener and the counters leave the bridge alone.
LEMMA AdminRefinesBridge == [AdminNext]_<<bridgeVars, evaluations, adminVars>> => [BridgeNext]_bridgeVars
<1> SUFFICES ASSUME [AdminNext]_<<bridgeVars, evaluations, adminVars>>
             PROVE  BridgeNext \/ UNCHANGED bridgeVars
  OBVIOUS
<1>1. ASSUME NEW p \in Probes, (\E endpoint \in Paths : Open(p, endpoint)) \/ Read(p) \/ Reply(p)
      PROVE  UNCHANGED bridgeVars
  BY <1>1 DEF Open, Read, Reply
<1>2. CASE CountEvaluation
  BY <1>2 DEF CountEvaluation
<1>3. CASE BridgeMoves
  BY <1>3 DEF BridgeMoves
<1> QED
  BY <1>1, <1>2, <1>3 DEF AdminNext

------------------------------------------------------------------------------
(* The invariant *)

\* At first nothing has been asked.
LEMMA AdminInvInit == AdminInit => AdminInv
<1> SUFFICES ASSUME AdminInit
             PROVE  AdminInv
  OBVIOUS
<1>1. MetricsTypeOK
  BY DEF AdminInit, MetricsInit, MetricsTypeOK
<1>2. BridgeInv
  BY BridgeInvInit DEF AdminInit
<1>3. AdminTypeOK
  <2>1. Unseen \in Views
    BY DEF Unseen, Views
  <2>2. path \in [Probes -> Paths \cup {"none"}] /\ seen \in [Probes -> Views]
    BY <2>1 DEF AdminInit
  <2>3. reads \in [Probes -> 0..2]
    BY DEF AdminInit
  <2>4. answered \in SUBSET Probes /\ earlier \in [Probes -> SUBSET Probes]
    BY DEF AdminInit
  <2>5. failedFirst \in BOOLEAN
    BY DEF AdminInit
  <2> QED
    BY <2>2, <2>3, <2>4, <2>5 DEF AdminTypeOK
<1>4. StampInv /\ RecordInv
  BY DEF AdminInit, BridgeInit, StampInv, RecordInv
<1>5. ASSUME NEW p \in Probes
      PROVE  PlaceInv(p) /\ ViewInv(p) /\ OrderInv(p)
  <2>1. seen[p] = Unseen /\ path[p] = "none" /\ reads[p] = 0 /\ answered = {} /\ earlier[p] = {}
    BY DEF AdminInit
  <2>2. PlaceInv(p)
    BY <2>1 DEF PlaceInv, Unseen
  <2>3. ViewInv(p)
    <3>1. /\ Unseen.state = current.state
          /\ Unseen.readyAt = current.readyAt
          /\ Unseen.evaluations = current.evaluations
          /\ Unseen.providerReady = current.providerReady
      BY DEF AdminInit, BridgeInit, MetricsInit, current, Unseen, Outcomes
    <3>2. Unseen.state = "none" /\ Unseen.evaluations = 0
      BY DEF Unseen
    <3>3. StatusBehind(Unseen, current) /\ SnapshotBehind(Unseen, current)
      BY <3>1, <3>2, Ranks DEF StatusBehind, SnapshotBehind
    <3> QED
      BY <2>1, <3>2, <3>3 DEF ViewInv
  <2> QED
    BY <2>1, <2>2, <2>3 DEF OrderInv
<1> QED
  BY <1>1, <1>2, <1>3, <1>4, <1>5 DEF AdminInv, ProbesInv
\* A probe arrives.
LEMMA OpenKeepsInv ==
    ASSUME AdminInv, NEW p \in Probes, NEW endpoint \in Paths, Open(p, endpoint)
    PROVE  AdminInv'
<1>1. /\ UNCHANGED <<bridgeVars, evaluations, reads, seen, answered, failedFirst>>
      /\ path[p] = "none"
      /\ path' = [path EXCEPT ![p] = endpoint]
      /\ earlier' = [earlier EXCEPT ![p] = answered]
  BY DEF Open
<1>2. AdminTypeOK'
  BY <1>1 DEF AdminInv, AdminTypeOK
<1>3. MetricsTypeOK' /\ BridgeInv' /\ StampInv' /\ RecordInv' /\ current' = current
  BY <1>1 DEF AdminInv, MetricsTypeOK, BridgeInv, BridgeTypeOK, BuiltInv, ProviderInv, ReadyInv,
              StampInv, RecordInv, current, bridgeVars
<1>4. ASSUME NEW q \in Probes
      PROVE  PlaceInv(q)' /\ ViewInv(q)' /\ OrderInv(q)'
  <2>1. PlaceInv(q) /\ ViewInv(q) /\ OrderInv(q)
    BY DEF AdminInv, ProbesInv
  <2>2. CASE q = p
    <3>1. path'[p] = endpoint /\ earlier'[p] = answered /\ reads'[p] = 0 /\ p \notin answered
      BY <1>1, <2>1, <2>2 DEF AdminInv, AdminTypeOK, PlaceInv
    <3>2. ~HasStatus(p) /\ ~HasSnapshot(p) /\ ~HasStatus(p)' /\ ~HasSnapshot(p)'
      BY <1>1, <3>1 DEF HasStatus, HasSnapshot
    <3>3. PlaceInv(p)'
      BY <1>1, <2>1, <2>2, <3>1, <3>2, HandlerReads DEF PlaceInv, Paths
    <3>4. ViewInv(p)'
      BY <1>1, <1>3, <2>1, <2>2, <3>2 DEF ViewInv
    <3> QED
      BY <1>1, <2>2, <3>1, <3>2, <3>3, <3>4 DEF OrderInv
  <2>3. CASE q # p
    <3>1. path'[q] = path[q] /\ earlier'[q] = earlier[q]
      BY <1>1, <2>3 DEF AdminInv, AdminTypeOK
    <3>2. HasStatus(q)' = HasStatus(q) /\ HasSnapshot(q)' = HasSnapshot(q)
      BY <1>1, <3>1 DEF HasStatus, HasSnapshot
    <3> QED
      BY <1>1, <1>3, <2>1, <3>1, <3>2 DEF PlaceInv, ViewInv, OrderInv
  <2> QED
    BY <2>2, <2>3
<1> QED
  BY <1>2, <1>3, <1>4 DEF AdminInv, ProbesInv

\* The response goes out once every read has been made.
LEMMA ReplyKeepsInv ==
    ASSUME AdminInv, NEW p \in Probes, Reply(p)
    PROVE  AdminInv'
<1>1. /\ UNCHANGED <<bridgeVars, evaluations, path, reads, seen, earlier, failedFirst>>
      /\ path[p] # "none"
      /\ reads[p] = Len(handler(path[p]))
      /\ answered' = answered \cup {p}
  BY DEF Reply
<1>2. AdminTypeOK'
  BY <1>1 DEF AdminInv, AdminTypeOK
<1>3. MetricsTypeOK' /\ BridgeInv' /\ StampInv' /\ RecordInv' /\ current' = current
  BY <1>1 DEF AdminInv, MetricsTypeOK, BridgeInv, BridgeTypeOK, BuiltInv, ProviderInv, ReadyInv,
              StampInv, RecordInv, current, bridgeVars
<1>4. reads[p] = Reads(path[p])
  BY <1>1, HandlerReads DEF AdminInv, AdminTypeOK
<1>5. ASSUME NEW q \in Probes
      PROVE  PlaceInv(q)' /\ ViewInv(q)' /\ OrderInv(q)'
  <2>1. PlaceInv(q) /\ ViewInv(q) /\ OrderInv(q)
    BY DEF AdminInv, ProbesInv
  <2>2. HasStatus(q)' = HasStatus(q) /\ HasSnapshot(q)' = HasSnapshot(q)
    BY <1>1 DEF HasStatus, HasSnapshot
  <2> QED
    BY <1>1, <1>3, <1>4, <2>1, <2>2 DEF PlaceInv, ViewInv, OrderInv
<1> QED
  BY <1>2, <1>3, <1>5 DEF AdminInv, ProbesInv

\* What the next read of a handler is, and what it makes of its view.
LEMMA ReadTakes ==
    ASSUME AdminInv, NEW p \in Probes, Read(p)
    PROVE  /\ UNCHANGED <<bridgeVars, evaluations, path, answered, earlier, failedFirst>>
           /\ path[p] \in Paths
           /\ p \notin answered
           /\ reads' = [reads EXCEPT ![p] = reads[p] + 1]
           /\ reads[p] < Reads(path[p])
           /\ seen' \in [Probes -> Views]
           /\ \A q \in Probes \ {p} : seen'[q] = seen[q]
           /\ \/ /\ path[p] \in {"/readyz", "/debug/status"} /\ reads[p] = 0
                 /\ seen'[p].state = state /\ seen'[p].readyAt = readyAt
                 /\ seen'[p].evaluations = seen[p].evaluations
                 /\ seen'[p].providerReady = seen[p].providerReady
              \/ /\ \/ path[p] = "/metrics" /\ reads[p] = 0
                    \/ path[p] = "/debug/status" /\ reads[p] = 1
                 /\ seen'[p].state = seen[p].state /\ seen'[p].readyAt = seen[p].readyAt
                 /\ seen'[p].evaluations = evaluations["value"]
                 /\ seen'[p].providerReady = providerReady
                 /\ seen'[p].lastError = lastError
<1> DEFINE fields == handler(path[p])[reads[p] + 1]
           view   == Merged(seen[p], current, fields)
<1>1. /\ UNCHANGED <<bridgeVars, evaluations, path, answered, earlier, failedFirst>>
      /\ path[p] # "none"
      /\ reads[p] < Len(handler(path[p]))
      /\ reads' = [reads EXCEPT ![p] = reads[p] + 1]
  BY DEF Read
<1>2. path[p] \in Paths /\ reads[p] \in 0..2 /\ seen[p] \in Views
  BY <1>1 DEF AdminInv, AdminTypeOK
<1>3. reads[p] < Reads(path[p]) /\ Reads(path[p]) \in 0..2
  BY <1>1, <1>2, HandlerReads
<1>4. p \notin answered
  BY <1>2, <1>3 DEF AdminInv, ProbesInv, PlaceInv
<1>5. seen' = [seen EXCEPT ![p] = view]
  <2>1. reads'[p] = reads[p] + 1
    BY <1>1 DEF AdminInv, AdminTypeOK
  <2> QED
    BY <2>1 DEF Read, Merged
<1>6. \/ /\ path[p] \in {"/readyz", "/debug/status"} /\ reads[p] = 0
         /\ fields = Status
      \/ /\ \/ path[p] = "/metrics" /\ reads[p] = 0
            \/ path[p] = "/debug/status" /\ reads[p] = 1
         /\ fields = Snapshot
  <2>1. CASE reads[p] = 0
    <3>1. fields = handler(path[p])[1]
      BY <2>1
    <3>2. path[p] # "/healthz"
      BY <1>2, <1>3, <2>1, HandlerReads
    <3> QED
      BY <1>2, <2>1, <3>1, <3>2, HandlerReads DEF Paths
  <2>2. CASE reads[p] = 1
    <3>1. fields = handler(path[p])[2]
      BY <2>2
    <3>2. path[p] = "/debug/status"
      BY <1>2, <1>3, <2>2, HandlerReads
    <3> QED
      BY <1>2, <2>2, <3>1, <3>2, HandlerReads
  <2> QED
    BY <1>2, <1>3, <2>1, <2>2
<1>7. /\ current \in Views /\ current.state = state /\ current.readyAt = readyAt
      /\ current.evaluations = evaluations["value"] /\ current.providerReady = providerReady
      /\ current.lastError = lastError
  BY CurrentView DEF AdminInv, BridgeInv
<1>8. /\ view \in Views
      /\ fields = Status => /\ view.state = current.state /\ view.readyAt = current.readyAt
                            /\ view.evaluations = seen[p].evaluations
                            /\ view.providerReady = seen[p].providerReady
      /\ fields = Snapshot => /\ view.state = seen[p].state /\ view.readyAt = seen[p].readyAt
                              /\ view.evaluations = current.evaluations
                              /\ view.providerReady = current.providerReady
                              /\ view.lastError = current.lastError
  <2> HIDE DEF fields
  <2>1. seen[p] \in Views /\ current \in Views
    BY <1>2, <1>7
  <2> QED
    BY <2>1, ViewMerged, SMTT(60)
<1> HIDE DEF fields, view
<1>9. /\ seen' \in [Probes -> Views]
      /\ seen'[p] = view
      /\ \A q \in Probes \ {p} : seen'[q] = seen[q]
  BY <1>5, <1>8 DEF AdminInv, AdminTypeOK
<1> QED
  BY <1>1, <1>2, <1>3, <1>4, <1>6, <1>7, <1>8, <1>9

\* A read returns the current state to a handler, which may already have seen
\* an earlier one.
LEMMA ReadKeepsInv ==
    ASSUME AdminInv, NEW p \in Probes, Read(p)
    PROVE  AdminInv'
<1>1. /\ UNCHANGED <<bridgeVars, evaluations, path, answered, earlier, failedFirst>>
      /\ path[p] \in Paths
      /\ p \notin answered
      /\ reads' = [reads EXCEPT ![p] = reads[p] + 1]
      /\ reads[p] < Reads(path[p])
      /\ seen' \in [Probes -> Views]
      /\ \A q \in Probes \ {p} : seen'[q] = seen[q]
  BY ReadTakes
<1>2. /\ reads[p] \in 0..2 /\ reads'[p] = reads[p] + 1 /\ reads' \in [Probes -> 0..2]
      /\ \A q \in Probes \ {p} : reads'[q] = reads[q]
      /\ Reads(path[p]) \in 0..2
      /\ Reads(path[p]) = 2 <=> path[p] = "/debug/status"
  <2>1. Reads(path[p]) \in 0..2 /\ (Reads(path[p]) = 2 <=> path[p] = "/debug/status")
    BY <1>1, HandlerReads
  <2>2. reads \in [Probes -> 0..2]
    BY DEF AdminInv, AdminTypeOK
  <2>3. reads[p] \in 0..2 /\ reads[p] + 1 \in 0..2
    BY <1>1, <2>1, <2>2
  <2> QED
    BY <1>1, <2>1, <2>2, <2>3
<1>3. AdminTypeOK'
  BY <1>1, <1>2 DEF AdminInv, AdminTypeOK
<1>4. MetricsTypeOK' /\ BridgeInv' /\ StampInv' /\ RecordInv' /\ current' = current
  BY <1>1 DEF AdminInv, MetricsTypeOK, BridgeInv, BridgeTypeOK, BuiltInv, ProviderInv, ReadyInv,
              StampInv, RecordInv, current, bridgeVars
<1>5. /\ current \in Views /\ current.state = state /\ current.readyAt = readyAt
      /\ current.evaluations = evaluations["value"] /\ current.providerReady = providerReady
  BY CurrentView DEF AdminInv, BridgeInv
<1>6. PlaceInv(p) /\ ViewInv(p) /\ OrderInv(p)
  BY DEF AdminInv, ProbesInv
<1>7. seen[p] \in Views /\ seen'[p] \in Views
  BY <1>1 DEF AdminInv, AdminTypeOK
<1>8. \A q \in earlier[p] : /\ q \in Probes /\ q # p /\ q \in answered
                            /\ seen'[q] = seen[q] /\ seen[q] \in Views
                            /\ StatusBehind(seen[q], current)
                            /\ SnapshotBehind(seen[q], current)
  <2> SUFFICES ASSUME NEW q \in earlier[p]
               PROVE  /\ q \in Probes /\ q # p /\ q \in answered
                      /\ seen'[q] = seen[q] /\ seen[q] \in Views
                      /\ StatusBehind(seen[q], current)
                      /\ SnapshotBehind(seen[q], current)
    OBVIOUS
  <2>1. q \in answered /\ q \in Probes
    BY <1>6 DEF OrderInv, AdminInv, AdminTypeOK
  <2>2. ViewInv(q)
    BY <2>1 DEF AdminInv, ProbesInv
  <2> QED
    BY <1>1, <2>1, <2>2 DEF ViewInv, AdminInv, AdminTypeOK
<1>9. PlaceInv(p)' /\ ViewInv(p)' /\ OrderInv(p)'
  <2>1. CASE /\ path[p] \in {"/readyz", "/debug/status"} /\ reads[p] = 0
             /\ seen'[p].state = state /\ seen'[p].readyAt = readyAt
             /\ seen'[p].evaluations = seen[p].evaluations
             /\ seen'[p].providerReady = seen[p].providerReady
    <3>1. HasStatus(p)' /\ ~HasSnapshot(p) /\ ~HasSnapshot(p)'
      BY <1>1, <1>2, <2>1 DEF HasStatus, HasSnapshot
    <3>2. PlaceInv(p)'
      BY <1>1, <1>2, <1>6, <2>1, <3>1 DEF PlaceInv
    <3>3. StatusBehind(seen'[p], current) /\ SnapshotBehind(seen'[p], current)
      BY <1>5, <1>6, <1>7, <2>1, BehindTransitive DEF ViewInv, StatusBehind, SnapshotBehind
    <3>4. ViewInv(p)'
      <4>1. /\ state = "ready" => readyAt
            /\ state = "starting" => ~readyAt
        BY DEF AdminInv, StampInv
      <4> QED
        BY <1>4, <2>1, <3>1, <3>3, <4>1 DEF ViewInv
    <3>5. \A q \in earlier[p] : /\ StatusBehind(seen[q], seen'[p])
                                /\ seen[q].providerReady => seen'[p].readyAt
      <4>1. providerReady => readyAt
        BY DEF AdminInv, BridgeInv, ReadyInv
      <4> QED
        BY <1>5, <1>8, <2>1, <4>1 DEF StatusBehind, SnapshotBehind
    <3>6. OrderInv(p)'
      BY <1>1, <1>8, <3>1, <3>5 DEF OrderInv
    <3> QED
      BY <3>2, <3>4, <3>6
  <2>2. CASE /\ \/ path[p] = "/metrics" /\ reads[p] = 0
                \/ path[p] = "/debug/status" /\ reads[p] = 1
             /\ seen'[p].state = seen[p].state /\ seen'[p].readyAt = seen[p].readyAt
             /\ seen'[p].evaluations = evaluations["value"]
             /\ seen'[p].providerReady = providerReady
             /\ seen'[p].lastError = lastError
    <3>1. HasSnapshot(p)' /\ HasStatus(p)' = HasStatus(p)
      BY <1>1, <1>2, <2>2 DEF HasStatus, HasSnapshot
    <3>2. PlaceInv(p)'
      BY <1>1, <1>2, <1>6, <2>2, <3>1 DEF PlaceInv
    <3>3. StatusBehind(seen'[p], current) /\ SnapshotBehind(seen'[p], current)
      BY <1>5, <1>6, <1>7, <2>2, BehindTransitive DEF ViewInv, StatusBehind, SnapshotBehind
    <3>4. ViewInv(p)'
      <4>1. failedFirst => lastError # "none"
        BY DEF AdminInv, RecordInv
      <4> QED
        BY <1>1, <1>4, <1>6, <2>2, <3>3, <4>1 DEF ViewInv
    <3>5. \A q \in earlier[p] : SnapshotBehind(seen[q], seen'[p])
      BY <1>5, <1>8, <2>2 DEF SnapshotBehind
    <3>6. \A q \in earlier[p] : HasStatus(p) => /\ StatusBehind(seen[q], seen'[p])
                                                /\ seen[q].providerReady => seen'[p].readyAt
      BY <1>6, <2>2 DEF OrderInv, StatusBehind
    <3>7. OrderInv(p)'
      BY <1>1, <1>8, <3>1, <3>5, <3>6 DEF OrderInv
    <3> QED
      BY <3>2, <3>4, <3>7
  <2> QED
    BY <2>1, <2>2, ReadTakes
<1>10. ASSUME NEW q \in Probes, q # p
       PROVE  PlaceInv(q)' /\ ViewInv(q)' /\ OrderInv(q)'
  <2>1. PlaceInv(q) /\ ViewInv(q) /\ OrderInv(q)
    BY DEF AdminInv, ProbesInv
  <2>2. seen'[q] = seen[q] /\ reads'[q] = reads[q]
    BY <1>1, <1>2, <1>10
  <2>3. HasStatus(q)' = HasStatus(q) /\ HasSnapshot(q)' = HasSnapshot(q)
    BY <1>1, <2>2 DEF HasStatus, HasSnapshot
  <2>4. \A o \in earlier[q] : seen'[o] = seen[o]
    BY <1>1, <2>1 DEF OrderInv, AdminInv, AdminTypeOK
  <2> QED
    BY <1>1, <1>4, <2>1, <2>2, <2>3, <2>4 DEF PlaceInv, ViewInv, OrderInv
<1> QED
  BY <1>3, <1>4, <1>9, <1>10 DEF AdminInv, ProbesInv

\* The state behind the views moves forward, and every view stays behind it.
LEMMA ForwardKeepsInv ==
    ASSUME AdminInv, UNCHANGED <<path, reads, seen, answered, earlier>>,
           MetricsTypeOK', BridgeInv', StampInv', RecordInv',
           failedFirst' \in BOOLEAN,
           failedFirst' => failedFirst \/ state # "shutting_down",
           StatusBehind(current, current'), SnapshotBehind(current, current')
    PROVE  AdminInv'
<1>1. AdminTypeOK'
  BY DEF AdminInv, AdminTypeOK
<1>2. current \in Views /\ current' \in Views /\ current.state = state
  <2>1. current \in Views /\ current.state = state
    BY CurrentView DEF AdminInv, BridgeInv
  <2>2. current' \in Views
    BY DEF current, Views, BridgeInv, BridgeTypeOK, MetricsTypeOK, Outcomes
  <2> QED
    BY <2>1, <2>2
<1>3. ASSUME NEW q \in Probes
      PROVE  PlaceInv(q)' /\ ViewInv(q)' /\ OrderInv(q)'
  <2>1. PlaceInv(q) /\ ViewInv(q) /\ OrderInv(q) /\ seen[q] \in Views
    BY DEF AdminInv, ProbesInv, AdminTypeOK
  <2>2. HasStatus(q)' = HasStatus(q) /\ HasSnapshot(q)' = HasSnapshot(q)
    BY DEF HasStatus, HasSnapshot
  <2>3. StatusBehind(seen[q], current') /\ SnapshotBehind(seen[q], current')
    BY <1>2, <2>1, BehindTransitive DEF ViewInv
  <2>4. seen[q].state = "shutting_down" => state = "shutting_down"
    BY <1>2, <2>1, Ranks DEF ViewInv, StatusBehind, Views
  <2>5. ViewInv(q)'
    BY <2>1, <2>2, <2>3, <2>4 DEF ViewInv
  <2> QED
    BY <2>1, <2>2, <2>5 DEF PlaceInv, OrderInv
<1> QED
  BY <1>1, <1>3 DEF AdminInv, ProbesInv

\* Every step preserves the invariant.
LEMMA AdminInvStep == AdminInv /\ [AdminNext]_<<bridgeVars, evaluations, adminVars>> => AdminInv'
<1> SUFFICES ASSUME AdminInv, [AdminNext]_<<bridgeVars, evaluations, adminVars>>
             PROVE  AdminInv'
  OBVIOUS
<1>1. CASE \E p \in Probes : \/ \E endpoint \in Paths : Open(p, endpoint)
                             \/ Read(p)
                             \/ Reply(p)
  BY <1>1, OpenKeepsInv, ReadKeepsInv, ReplyKeepsInv
<1>2. CASE CountEvaluation
  <2>1. /\ UNCHANGED <<bridgeVars, adminVars>>
        /\ evaluations' = [evaluations EXCEPT !["value"] = @ + 1]
    BY <1>2 DEF CountEvaluation, ObserveEvaluation
  <2>2. MetricsTypeOK' /\ evaluations["value"] \in Nat
        /\ evaluations'["value"] = evaluations["value"] + 1
    BY <2>1 DEF AdminInv, MetricsTypeOK, Outcomes, bridgeVars
  <2>3. BridgeInv' /\ StampInv' /\ RecordInv'
    BY <2>1 DEF AdminInv, BridgeInv, BridgeTypeOK, BuiltInv, ProviderInv, ReadyInv,
                StampInv, RecordInv, bridgeVars, adminVars
  <2>4. StatusBehind(current, current') /\ SnapshotBehind(current, current')
    BY <2>1, <2>2, Ranks DEF AdminInv, BridgeInv, BridgeTypeOK, StatusBehind, SnapshotBehind,
                             current, bridgeVars
  <2> QED
    BY <2>1, <2>2, <2>3, <2>4, ForwardKeepsInv DEF adminVars, AdminInv, AdminTypeOK
<1>3. CASE BridgeMoves
  <2>1. /\ BridgeNext
        /\ UNCHANGED <<evaluations, path, reads, seen, answered, earlier>>
        /\ failedFirst' = IF state # "shutting_down" /\ state' = "shutting_down"
                          THEN lastError # "none" ELSE failedFirst
    BY <1>3 DEF BridgeMoves
  <2>2. BridgeInv'
    BY <2>1, BridgeInvStep DEF AdminInv
  <2>3. MetricsTypeOK'
    BY <2>1, <2>2 DEF AdminInv, MetricsTypeOK, BridgeInv, BridgeTypeOK
  <2>4. /\ StampInv'
        /\ Rank(state) <= Rank(state')
        /\ readyAt => readyAt'
        /\ providerReady => providerReady'
        /\ lastError # "none" => lastError' # "none"
    BY <2>1, BridgeMovesForward DEF AdminInv
  <2>5. StatusBehind(current, current') /\ SnapshotBehind(current, current')
    <3>1. evaluations["value"] \in Nat
      BY DEF AdminInv, MetricsTypeOK, Outcomes
    <3> QED
      BY <2>1, <2>4, <3>1 DEF StatusBehind, SnapshotBehind, current
  <2>6. state = "shutting_down" => state' = "shutting_down"
    BY <2>2, <2>4, Ranks DEF BridgeInv, BridgeTypeOK
  <2>7. failedFirst' \in BOOLEAN /\ (failedFirst' => failedFirst \/ state # "shutting_down")
    BY <2>1 DEF AdminInv, AdminTypeOK
  <2>8. RecordInv'
    <3>1. CASE state # "shutting_down" /\ state' = "shutting_down"
      BY <2>1, <2>4, <3>1 DEF RecordInv
    <3>2. CASE ~(state # "shutting_down" /\ state' = "shutting_down")
      BY <2>1, <2>4, <2>6, <3>2 DEF AdminInv, RecordInv
    <3> QED
      BY <3>1, <3>2
  <2> QED
    BY <2>1, <2>2, <2>3, <2>4, <2>5, <2>7, <2>8, ForwardKeepsInv
<1>4. CASE UNCHANGED <<bridgeVars, evaluations, adminVars>>
  <2>1. StatusBehind(current, current') /\ SnapshotBehind(current, current')
    BY <1>4, CurrentView, BehindTransitive DEF AdminInv, BridgeInv, bridgeVars, current
  <2>2. MetricsTypeOK' /\ BridgeInv' /\ StampInv' /\ RecordInv'
    BY <1>4 DEF AdminInv, MetricsTypeOK, BridgeInv, BridgeTypeOK, BuiltInv, ProviderInv, ReadyInv,
                StampInv, RecordInv, bridgeVars, adminVars
  <2> QED
    BY <1>4, <2>1, <2>2, ForwardKeepsInv DEF adminVars, AdminInv, AdminTypeOK
<1> QED
  BY <1>1, <1>2, <1>3, <1>4 DEF AdminNext

\* What the operator asked for was read before the response went out.
LEMMA ReportsAreRead ==
    ASSUME AdminInv, NEW p \in answered
    PROVE  /\ reports(p, Status) => HasStatus(p)
           /\ reports(p, Snapshot) => HasSnapshot(p)
           /\ path[p] = "/debug/status" => HasStatus(p) /\ HasSnapshot(p)
<1>1. p \in Probes /\ PlaceInv(p)
  BY DEF AdminInv, AdminTypeOK, ProbesInv
<1>2. path[p] \in Paths /\ reads[p] = Reads(path[p])
  BY <1>1 DEF PlaceInv, AdminInv, AdminTypeOK
<1>3. Status # Snapshot
  BY DEF Status, Snapshot
<1>4. CASE path[p] = "/healthz"
  <2>1. 1..Len(handler(path[p])) = {}
    BY <1>2, <1>4, HandlerReads
  <2> QED
    BY <1>4, <2>1, Zenon DEF reports
<1>5. CASE path[p] = "/readyz"
  <2>1. Len(handler(path[p])) = 1 /\ handler(path[p])[1] = Status /\ reads[p] = 1
    BY <1>2, <1>5, HandlerReads
  <2> QED
    BY <1>3, <1>5, <2>1 DEF reports, HasStatus
<1>6. CASE path[p] = "/metrics"
  <2>1. Len(handler(path[p])) = 1 /\ handler(path[p])[1] = Snapshot /\ reads[p] = 1
    BY <1>2, <1>6, HandlerReads
  <2> QED
    BY <1>3, <1>6, <2>1 DEF reports, HasSnapshot
<1>7. CASE path[p] = "/debug/status"
  <2>1. reads[p] = 2
    BY <1>2, <1>7, HandlerReads
  <2> QED
    BY <1>7, <2>1 DEF HasStatus, HasSnapshot
<1> QED
  BY <1>2, <1>4, <1>5, <1>6, <1>7 DEF Paths

------------------------------------------------------------------------------
(* The theorems *)

\* The inductive invariant holds of every behaviour.
THEOREM AdminInvariant == AdminSpec => []AdminInv
<1>1. AdminInit => AdminInv
  BY AdminInvInit
<1>2. AdminInv /\ [AdminNext]_<<bridgeVars, evaluations, adminVars>> => AdminInv'
  BY AdminInvStep
<1> QED
  BY <1>1, <1>2, PTL DEF AdminSpec

\* The operational listener only observes: whatever is asked of it, the bridge
\* behaves as its own specification says (admin.go's handlers).
THEOREM ObserversDoNotDisturb == AdminSpec => BridgeSpec
<1>1. AdminInit => BridgeInit
  BY DEF AdminInit
<1>2. [AdminNext]_<<bridgeVars, evaluations, adminVars>> => [BridgeNext]_bridgeVars
  BY AdminRefinesBridge
<1> QED
  BY <1>1, <1>2, PTL DEF AdminSpec, BridgeSpec

\* What the listener's variables range over.
THEOREM AdminTypeCorrect == AdminSpec => [](AdminTypeOK /\ BridgeTypeOK /\ MetricsTypeOK)
<1>1. AdminInv => AdminTypeOK /\ BridgeTypeOK /\ MetricsTypeOK
  BY DEF AdminInv, BridgeInv
<1> QED
  BY <1>1, AdminInvariant, PTL

\* What operators see never goes back, whichever endpoints are asked and
\* however the bridge moves between a read and its response (Status and
\* Snapshot under two locks).
THEOREM ObservationsNeverGoBack == AdminSpec => []ObservationsAreOrdered
<1>1. AdminInv => ObservationsAreOrdered
  <2> SUFFICES ASSUME AdminInv, NEW p \in answered, NEW q \in earlier[p]
               PROVE  /\ reports(p, Status) /\ reports(q, Status)
                            => /\ Rank(seen[q].state) <= Rank(seen[p].state)
                               /\ seen[q].readyAt => seen[p].readyAt
                      /\ reports(p, Snapshot) /\ reports(q, Snapshot)
                            => /\ seen[q].evaluations <= seen[p].evaluations
                               /\ seen[q].providerReady => seen[p].providerReady
                      /\ reports(p, Status) /\ seen[q].providerReady => seen[p].readyAt
    BY Zenon DEF ObservationsAreOrdered
  <2>1. OrderInv(p)
    BY DEF AdminInv, AdminTypeOK, ProbesInv
  <2>2. /\ reports(p, Status) => HasStatus(p)
        /\ reports(p, Snapshot) => HasSnapshot(p)
    BY ReportsAreRead
  <2> QED
    BY <2>1, <2>2 DEF OrderInv, StatusBehind, SnapshotBehind
<1> QED
  BY <1>1, AdminInvariant, PTL

\* A report's timestamp belongs to its state (Bridge.Status copies both under
\* one lock).
THEOREM ReportsAreCoherent == AdminSpec => []ReportIsCoherent
<1>1. AdminInv => ReportIsCoherent
  BY DEF AdminInv, AdminTypeOK, ProbesInv, ViewInv, ReportIsCoherent
<1> QED
  BY <1>1, AdminInvariant, PTL

\* The error that was on record before a shutdown is in every status that
\* reports the shutdown (/debug/status reads the bridge first).
THEOREM FailuresAreShown == AdminSpec => []FailureIsNotHidden
<1>1. AdminInv => FailureIsNotHidden
  <2> SUFFICES ASSUME AdminInv, NEW p \in answered, path[p] = "/debug/status",
                      seen[p].state = "shutting_down", failedFirst
               PROVE  seen[p].lastError # "none"
    BY DEF FailureIsNotHidden
  <2>1. HasStatus(p) /\ HasSnapshot(p)
    BY ReportsAreRead
  <2> QED
    BY <2>1 DEF AdminInv, AdminTypeOK, ProbesInv, ViewInv
<1> QED
  BY <1>1, AdminInvariant, PTL
==============================================================================
