----------------------------- MODULE Exposition ------------------------------
(***************************************************************************)
(* internal/metrics again, for what Metrics.tla leaves out: the duration   *)
(* histograms, and the text a scrape renders from them and the counters.   *)
(* Handlers observe while scrapers render and, outside the lock, write.    *)
(***************************************************************************)
EXTENDS Metrics, Integers, Sequences, FiniteSets

CONSTANTS
    Buckets,         \* number of buckets below the one for +Inf
    Durations,       \* durations handlers may observe; bucket i ends at i
    Scrapers,        \* requests for /metrics
    MaxObservations  \* bound on the evaluations observed

ASSUME ExpositionAssumption ==
    Buckets \in Nat \ {0} /\ Durations \subseteq Nat /\ MaxObservations \in Nat

VARIABLES
    durations,   \* Metrics.durations: a histogram for each outcome observed
    page,        \* what each scraper has been rendered
    log          \* history: every observation, in order

expositionVars == <<metricsVars, durations, page, log>>

EmptyHistogram == [counts |-> [i \in 1..Buckets |-> 0], sum |-> 0, total |-> 0]

NoPage == [counters |-> << >>, histograms |-> << >>, at |-> -1]

ExpositionInit ==
    /\ MetricsInit
    /\ durations = << >>
    /\ page = [s \in Scrapers |-> NoPage]
    /\ log = << >>

\* MUTANT of observe: only the bucket the duration falls into.
observeOwnBucket(histogram, d) ==
    [counts |-> [i \in 1..Buckets |-> histogram.counts[i] + IF d = i THEN 1 ELSE 0],
     sum |-> histogram.sum + d,
     total |-> histogram.total + 1]

\* Every bucket whose upper bound the duration does not exceed.
observe(histogram, d) ==
    [counts |-> [i \in 1..Buckets |-> histogram.counts[i] + IF d <= i THEN 1 ELSE 0],
     sum |-> histogram.sum + d,
     total |-> histogram.total + 1]

\* Metrics.ObserveEvaluation with its duration; the first observation of an
\* outcome makes its histogram.
ObserveDuration(outcome, d) ==
    /\ Len(log) < MaxObservations
    /\ ObserveEvaluation(outcome)
    /\ durations' = [o \in DOMAIN durations \cup {outcome} |->
          LET old == IF o \in DOMAIN durations THEN durations[o] ELSE EmptyHistogram
          IN  IF o = outcome THEN observe(old, d) ELSE old]
    /\ log' = Append(log, <<outcome, d>>)
    /\ UNCHANGED <<providerReady, lastError, page>>

\* MUTANT of knownOutcomes: an outcome appears when it first happens.
knownOutcomesObserved == DOMAIN durations

\* Every outcome once anything was observed.
knownOutcomes == IF DOMAIN durations = {} THEN {} ELSE Outcomes

\* Write: the page is built under the lock, and written some time later.
Render(s) ==
    /\ page[s] = NoPage
    /\ page' = [page EXCEPT ![s] =
          [counters |-> [o \in knownOutcomes |-> evaluations[o]],
           histograms |-> [o \in knownOutcomes \cap DOMAIN durations |-> durations[o]],
           at |-> Len(log)]]
    /\ UNCHANGED <<metricsVars, durations, log>>

ExpositionNext == \/ \E o \in Outcomes, d \in Durations : ObserveDuration(o, d)
                  \/ \E s \in Scrapers : Render(s)

ExpositionSpec == ExpositionInit /\ [][ExpositionNext]_expositionVars

------------------------------------------------------------------------------
(* Properties *)

\* What the page of s says of outcome o is the truth about the observations
\* made before it was rendered: each bucket counts the durations up to its
\* bound, and +Inf, the count and the counter agree on all of them.
PagesAreExact ==
    \A s \in Scrapers : \A o \in DOMAIN page[s].histograms :
        LET h      == page[s].histograms[o]
            past(d) == Cardinality({i \in 1..page[s].at : log[i][1] = o /\ log[i][2] <= d})
        IN  /\ \A i \in 1..Buckets : h.counts[i] = past(i)
            /\ h.total = page[s].counters[o]
            /\ h.total = Cardinality({i \in 1..page[s].at : log[i][1] = o})

\* A series that a page shows is in every later page, and a page with one
\* counter has them all, so that a rate over the first occurrence of an outcome
\* is not lost.  The histogram of an outcome, unlike its counter, appears only
\* with the first observation.
SeriesHaveNoGaps ==
    \A s, t \in Scrapers :
        page[s].at > 0 /\ page[s].at <= page[t].at
            => /\ DOMAIN page[t].counters = Outcomes
               /\ DOMAIN page[s].histograms \subseteq DOMAIN page[t].histograms
==============================================================================
