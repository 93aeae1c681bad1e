-------------------------------- MODULE Admin --------------------------------
(***************************************************************************)
(* internal/admin: the operational listener, beside the bridge it reports  *)
(* on.  Its handlers change nothing; what they can get wrong is what they  *)
(* read, since the bridge's state has one lock and the metrics another,    *)
(* and everything may change between two reads and before the response.    *)
(***************************************************************************)
EXTENDS Bridge, Sequences

CONSTANTS
    Probes,     \* requests to the operational listener
    MaxCount    \* bound on the evaluations counted

VARIABLES
    path,       \* the endpoint of each probe
    reads,      \* how many of its reads each handler has made
    seen,       \* what they returned
    answered,   \* the probes whose response is out
    earlier,    \* history: the probes already answered when this one came
    failedFirst \* history: an error was on record when the shutdown began

adminVars == <<path, reads, seen, answered, earlier, failedFirst>>

Paths == {"/healthz", "/readyz", "/metrics", "/debug/status"}

\* The fields Bridge.Status and Metrics.Snapshot copy, each under its lock;
\* Metrics.render reads the same fields under the same lock as Snapshot.
Status == {"state", "readyAt"}
Snapshot == {"evaluations", "providerReady", "lastError"}

\* MUTANT of handler: /debug/status copies the metrics first.
handlerSwapped(endpoint) ==
    CASE endpoint = "/healthz"      -> << >>
      [] endpoint = "/readyz"       -> <<Status>>
      [] endpoint = "/metrics"      -> <<Snapshot>>
      [] endpoint = "/debug/status" -> <<Snapshot, Status>>

\* MUTANT of handler: the status is read field by field.
handlerUnlocked(endpoint) ==
    CASE endpoint = "/healthz"      -> << >>
      [] endpoint = "/readyz"       -> <<{"state"}, {"readyAt"}>>
      [] endpoint = "/metrics"      -> <<Snapshot>>
      [] endpoint = "/debug/status" -> <<{"readyAt"}, {"state"}, Snapshot>>

\* The reads each handler makes, in order.
handler(endpoint) ==
    CASE endpoint = "/healthz"      -> << >>
      [] endpoint = "/readyz"       -> <<Status>>
      [] endpoint = "/metrics"      -> <<Snapshot>>
      [] endpoint = "/debug/status" -> <<Status, Snapshot>>

Unseen == [state |-> "none", readyAt |-> FALSE, evaluations |-> 0,
           providerReady |-> FALSE, lastError |-> "none"]

\* Of the counts one is kept, that of "value", which stands for each of them.
current == [state |-> state, readyAt |-> readyAt, evaluations |-> evaluations["value"],
            providerReady |-> providerReady, lastError |-> lastError]

AdminInit ==
    /\ MetricsInit
    /\ BridgeInit
    /\ path = [p \in Probes |-> "none"]
    /\ reads = [p \in Probes |-> 0]
    /\ seen = [p \in Probes |-> Unseen]
    /\ answered = {}
    /\ earlier = [p \in Probes |-> {}]
    /\ failedFirst = FALSE

------------------------------------------------------------------------------

\* The listener serves once there is a bridge.
Open(p, endpoint) ==
    /\ built = "yes"
    /\ path[p] = "none"
    /\ path' = [path EXCEPT ![p] = endpoint]
    /\ earlier' = [earlier EXCEPT ![p] = answered]
    /\ UNCHANGED <<bridgeVars, evaluations, reads, seen, answered, failedFirst>>

\* The next read, of all its fields at once.
Read(p) ==
    /\ path[p] # "none"
    /\ reads[p] < Len(handler(path[p]))
    /\ reads' = [reads EXCEPT ![p] = @ + 1]
    /\ seen' = [seen EXCEPT ![p] = [field \in DOMAIN Unseen |->
                  IF field \in handler(path[p])[reads'[p]] THEN current[field] ELSE @[field]]]
    /\ UNCHANGED <<bridgeVars, evaluations, path, answered, earlier, failedFirst>>

Reply(p) ==
    /\ path[p] # "none"
    /\ p \notin answered
    /\ reads[p] = Len(handler(path[p]))
    /\ answered' = answered \cup {p}
    /\ UNCHANGED <<bridgeVars, evaluations, path, reads, seen, earlier, failedFirst>>

\* An evaluation handler counts a request.
CountEvaluation ==
    /\ evaluations["value"] < MaxCount
    /\ ObserveEvaluation("value")
    /\ UNCHANGED <<bridgeVars, adminVars>>

BridgeMoves ==
    /\ BridgeNext
    /\ failedFirst' = IF state # "shutting_down" /\ state' = "shutting_down"
                      THEN lastError # "none" ELSE failedFirst
    /\ UNCHANGED <<evaluations, path, reads, seen, answered, earlier>>

AdminNext ==
    \/ \E p \in Probes : \/ \E endpoint \in Paths : Open(p, endpoint)
                         \/ Read(p)
                         \/ Reply(p)
    \/ CountEvaluation
    \/ BridgeMoves

AdminSpec == AdminInit /\ [][AdminNext]_<<bridgeVars, evaluations, adminVars>>

------------------------------------------------------------------------------
(* Properties *)

reports(p, fields) == p \in answered /\ fields \in {handler(path[p])[i] : i \in 1..Len(handler(path[p]))}

Rank(s) == CASE s = "none" -> 0 [] s = "starting" -> 1 [] s = "ready" -> 2 [] OTHER -> 3

\* What an operator sees never goes back, whichever endpoints are asked: a
\* probe sent after another was answered finds the lifecycle at the same
\* place or further on, the counts no lower, the gauge still up, and no
\* starting bridge once the gauge was up.
ObservationsAreOrdered ==
    \A p \in answered : \A q \in earlier[p] :
        /\ reports(p, Status) /\ reports(q, Status)
              => /\ Rank(seen[q].state) <= Rank(seen[p].state)
                 /\ seen[q].readyAt => seen[p].readyAt
        /\ reports(p, Snapshot) /\ reports(q, Snapshot)
              => /\ seen[q].evaluations <= seen[p].evaluations
                 /\ seen[q].providerReady => seen[p].providerReady
        /\ reports(p, Status) /\ seen[q].providerReady => seen[p].readyAt

\* The timestamp published belongs to the state published beside it: /readyz
\* formats readyAt without looking whether it is zero.
ReportIsCoherent ==
    \A p \in answered : path[p] \in {"/readyz", "/debug/status"} =>
        /\ seen[p].state = "ready" => seen[p].readyAt
        /\ seen[p].state = "starting" => ~seen[p].readyAt

\* A status that says the process is shutting down shows an error if one was
\* on record when it began to, although state and error have two locks: what
\* made a startup fail is not hidden by the shutdown it causes.
FailureIsNotHidden ==
    \A p \in answered :
        path[p] = "/debug/status" /\ seen[p].state = "shutting_down" /\ failedFirst
            => seen[p].lastError # "none"
==============================================================================
