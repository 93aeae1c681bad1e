-------------------------- MODULE Exposition_proofs --------------------------
(***************************************************************************)
(* Proofs about what a scrape shows.  The histograms and the counters are  *)
(* kept by adding, so that they are exact is an invariant about counting:  *)
(* each is the number of positions of the log that it stands for.  A page  *)
(* is the same about a prefix of the log, which later observations leave   *)
(* alone.                                                                  *)
(***************************************************************************)
EXTENDS Exposition, FiniteSetTheorems, TLAPS

Observations == Seq(Outcomes \X Durations)

\* The first k observations that had outcome o, and those of them that took
\* no longer than d.
Having(observed, o, k) == {i \in 1..k : observed[i][1] = o}
Within(observed, o, d, k) == {i \in 1..k : observed[i][1] = o /\ observed[i][2] <= d}

Histograms == [counts : [1..Buckets -> Nat], sum : Nat, total : Nat]

\* The histogram is exactly what the first k observations of outcome o make it.
Exact(observed, histogram, o, k) ==
    /\ \A i \in 1..Buckets : histogram.counts[i] = Cardinality(Within(observed, o, i, k))
    /\ histogram.total = Cardinality(Having(observed, o, k))

ExpositionTypeOK ==
    /\ evaluations \in [Outcomes -> Nat]
    /\ DOMAIN durations \subseteq Outcomes
    /\ \A o \in DOMAIN durations : durations[o] \in Histograms
    /\ log \in Observations
    /\ DOMAIN page = Scrapers
    /\ \A s \in Scrapers : page[s].at \in Int /\ page[s].at >= -1

\* The counters and the histograms count the log, and an outcome has a
\* histogram once it was observed.
CountingInv ==
    \A o \in Outcomes :
        /\ evaluations[o] = Cardinality(Having(log, o, Len(log)))
        /\ o \in DOMAIN durations <=> Having(log, o, Len(log)) # {}
        /\ o \in DOMAIN durations => Exact(log, durations[o], o, Len(log))

\* The same of each page and the prefix it was rendered after.
PageOK(shown) ==
    /\ shown.at <= Len(log)
    /\ shown.at > 0 => DOMAIN shown.counters = Outcomes
    /\ \A o \in DOMAIN shown.histograms : o \in Outcomes
    /\ \A o \in Outcomes :
          o \in DOMAIN shown.histograms <=> Having(log, o, shown.at) # {}
    /\ \A o \in DOMAIN shown.histograms :
          /\ Exact(log, shown.histograms[o], o, shown.at)
          /\ shown.counters[o] = shown.histograms[o].total

PagesInv == \A s \in Scrapers : PageOK(page[s])

ExpositionInv == ExpositionTypeOK /\ CountingInv /\ PagesInv

------------------------------------------------------------------------------
(* Counting positions of a sequence *)

\* What is counted of a prefix is finite, and nothing is counted of no prefix.
LEMMA CountsAreFinite ==
  ASSUME NEW observed, NEW o, NEW d, NEW k \in Int
  PROVE  /\ IsFiniteSet(Having(observed, o, k))
         /\ IsFiniteSet(Within(observed, o, d, k))
         /\ k <= 0 => Having(observed, o, k) = {} /\ Within(observed, o, d, k) = {}
<1>1. IsFiniteSet(1..k)
  BY FS_Interval
<1>2. Having(observed, o, k) \in SUBSET (1..k) /\ Within(observed, o, d, k) \in SUBSET (1..k)
  BY DEF Having, Within
<1>3. k <= 0 => 1..k = {}
  OBVIOUS
<1> QED
  BY <1>1, <1>2, <1>3, FS_Subset

\* A later observation changes nothing of what a prefix holds.
LEMMA PrefixIsKept ==
  ASSUME NEW observed \in Observations, NEW new \in Outcomes \X Durations,
         NEW k \in Int, k <= Len(observed), NEW o, NEW d
  PROVE  /\ Having(Append(observed, new), o, k) = Having(observed, o, k)
         /\ Within(Append(observed, new), o, d, k) = Within(observed, o, d, k)
<1>1. \A i \in 1..k : Append(observed, new)[i] = observed[i]
  BY DEF Observations
<1> QED
  BY <1>1 DEF Having, Within

\* A new observation is counted with its own outcome, below the bounds its
\* duration does not exceed, and nowhere else.
LEMMA NewIsCounted ==
  ASSUME NEW observed \in Observations, NEW p \in Outcomes, NEW e \in Durations
  PROVE  LET longer == Append(observed, <<p, e>>)
             n      == Len(observed)
         IN  /\ Having(longer, p, n + 1) = Having(observed, p, n) \cup {n + 1}
             /\ Cardinality(Having(longer, p, n + 1)) = Cardinality(Having(observed, p, n)) + 1
             /\ \A d : Cardinality(Within(longer, p, d, n + 1)) =
                           Cardinality(Within(observed, p, d, n)) + IF e <= d THEN 1 ELSE 0
             /\ \A o : o # p =>
                    /\ Having(longer, o, n + 1) = Having(observed, o, n)
                    /\ \A d : Within(longer, o, d, n + 1) = Within(observed, o, d, n)
<1> DEFINE longer == Append(observed, <<p, e>>)
           n      == Len(observed)
<1>1. n \in Nat
  BY DEF Observations
<1>2. longer[n + 1][1] = p /\ longer[n + 1][2] = e
  BY DEF Observations
<1>3. \A i \in 1..n : longer[i] = observed[i]
  BY DEF Observations
<1> HIDE DEF longer, n
<1>4. 1..(n + 1) = 1..n \cup {n + 1} /\ n + 1 \notin 1..n
  BY <1>1
<1>5. Having(longer, p, n + 1) = Having(observed, p, n) \cup {n + 1}
  BY <1>2, <1>3, <1>4 DEF Having
<1>6. ASSUME NEW o, o # p
      PROVE  /\ Having(longer, o, n + 1) = Having(observed, o, n)
             /\ \A d : Within(longer, o, d, n + 1) = Within(observed, o, d, n)
  BY <1>2, <1>3, <1>4, <1>6 DEF Having, Within
<1>7. \A d : Within(longer, p, d, n + 1) =
          IF e <= d THEN Within(observed, p, d, n) \cup {n + 1} ELSE Within(observed, p, d, n)
  BY <1>2, <1>3, <1>4 DEF Within
<1>8. n + 1 \notin Having(observed, p, n) /\ \A d : n + 1 \notin Within(observed, p, d, n)
  BY <1>4 DEF Having, Within
<1>9. /\ IsFiniteSet(Having(observed, p, n))
      /\ \A d : /\ IsFiniteSet(Within(observed, p, d, n))
                /\ Cardinality(Within(observed, p, d, n)) \in Nat
  BY <1>1, CountsAreFinite, FS_CardinalityType
<1>10. Cardinality(Having(longer, p, n + 1)) = Cardinality(Having(observed, p, n)) + 1
  BY <1>5, <1>8, <1>9, FS_AddElement, Zenon
<1>11. ASSUME NEW d
       PROVE  Cardinality(Within(longer, p, d, n + 1)) =
                  Cardinality(Within(observed, p, d, n)) + IF e <= d THEN 1 ELSE 0
  <2>1. CASE e <= d
    <3>1. Cardinality(Within(observed, p, d, n) \cup {n + 1})
              = Cardinality(Within(observed, p, d, n)) + 1
      BY <1>8, <1>9, FS_AddElement, Zenon
    <3> QED
      BY <1>7, <2>1, <3>1
  <2>2. CASE ~(e <= d)
    <3>1. Within(longer, p, d, n + 1) = Within(observed, p, d, n)
      BY <1>7, <2>2
    <3>2. Cardinality(Within(observed, p, d, n)) \in Nat
      BY <1>9
    <3> QED
      BY <2>2, <3>1, <3>2
  <2> QED
    BY <2>1, <2>2
<1> QED
  BY <1>5, <1>6, <1>10, <1>11, Zenon DEF longer, n

\* Observing a duration keeps a histogram exact.
LEMMA ObserveIsExact ==
  ASSUME NEW observed \in Observations, NEW p \in Outcomes, NEW e \in Durations,
         NEW h \in Histograms, Exact(observed, h, p, Len(observed))
  PROVE  /\ observe(h, e) \in Histograms
         /\ Exact(Append(observed, <<p, e>>), observe(h, e), p, Len(observed) + 1)
<1> DEFINE longer == Append(observed, <<p, e>>)
           n      == Len(observed)
<1>1. h.counts \in [1..Buckets -> Nat] /\ h.sum \in Nat /\ h.total \in Nat
  BY DEF Histograms
<1>2. /\ observe(h, e).total = h.total + 1
      /\ observe(h, e).counts = [i \in 1..Buckets |-> h.counts[i] + IF e <= i THEN 1 ELSE 0]
  BY DEF observe
<1>3. observe(h, e) \in Histograms
  <2>1. ASSUME NEW i \in 1..Buckets
        PROVE  h.counts[i] + (IF e <= i THEN 1 ELSE 0) \in Nat
    <3>1. h.counts[i] \in Nat
      BY <1>1
    <3> QED
      BY <3>1
  <2>2. [i \in 1..Buckets |-> h.counts[i] + IF e <= i THEN 1 ELSE 0] \in [1..Buckets -> Nat]
    BY <2>1
  <2>3. h.sum + e \in Nat
    BY <1>1, ExpositionAssumption
  <2> QED
    BY <1>1, <2>2, <2>3 DEF observe, Histograms
<1>4. Cardinality(Having(longer, p, n + 1)) = Cardinality(Having(observed, p, n)) + 1
  BY NewIsCounted, Zenon
<1>5. \A d : Cardinality(Within(longer, p, d, n + 1)) =
                 Cardinality(Within(observed, p, d, n)) + IF e <= d THEN 1 ELSE 0
  BY NewIsCounted, Zenon
<1>6. Exact(observed, h, p, n)
  OBVIOUS
<1> HIDE DEF longer, n
<1>7. Exact(longer, observe(h, e), p, n + 1)
  <2>1. observe(h, e).total = Cardinality(Having(longer, p, n + 1))
    BY <1>2, <1>4, <1>6 DEF Exact
  <2>2. ASSUME NEW i \in 1..Buckets
        PROVE  observe(h, e).counts[i] = Cardinality(Within(longer, p, i, n + 1))
    <3>1. h.counts[i] = Cardinality(Within(observed, p, i, n))
      BY <1>6 DEF Exact
    <3>2. observe(h, e).counts[i] = h.counts[i] + IF e <= i THEN 1 ELSE 0
      BY <1>2
    <3> QED
      BY <1>5, <3>1, <3>2
  <2> QED
    BY <2>1, <2>2 DEF Exact
<1> QED
  BY <1>3, <1>7 DEF longer, n

------------------------------------------------------------------------------
(* The invariant *)

\* Nothing was observed, and nothing is counted.
LEMMA ExpositionInvInit == ExpositionInit => ExpositionInv
<1> SUFFICES ASSUME ExpositionInit
             PROVE  ExpositionInv
  OBVIOUS
<1> USE DEF ExpositionInit, MetricsInit
<1>1. log \in Observations /\ Len(log) = 0
  BY DEF Observations
<1>2. DOMAIN durations = {}
  OBVIOUS
<1>3. \A s \in Scrapers : page[s].at = -1 /\ DOMAIN page[s].histograms = {}
  BY DEF NoPage
<1>4. \A o : Having(log, o, 0) = {} /\ Having(log, o, -1) = {}
  BY DEF Having
<1>5. ExpositionTypeOK
  <2>1. evaluations \in [Outcomes -> Nat]
    OBVIOUS
  <2> QED
    BY <1>1, <1>2, <1>3, <2>1 DEF ExpositionTypeOK
<1>6. CountingInv
  BY <1>1, <1>2, <1>4, FS_EmptySet DEF CountingInv
<1>7. PagesInv
  BY <1>1, <1>3, <1>4 DEF PagesInv, PageOK
<1> QED
  BY <1>5, <1>6, <1>7 DEF ExpositionInv

\* A new observation counts in its own outcome's series, and leaves what the
\* pages say of earlier observations as true as it was.
LEMMA ObserveKeepsInv ==
  ASSUME ExpositionInv, NEW p \in Outcomes, NEW e \in Durations, ObserveDuration(p, e)
  PROVE  ExpositionInv'
<1>1. /\ log \in Observations /\ Len(log) \in Nat
      /\ log' = Append(log, <<p, e>>)
      /\ log' \in Observations
      /\ Len(log') = Len(log) + 1
  BY DEF ExpositionInv, ExpositionTypeOK, ObserveDuration, Observations
<1>2. \A o \in Outcomes :
         /\ evaluations[o] = Cardinality(Having(log, o, Len(log)))
         /\ o \in DOMAIN durations <=> Having(log, o, Len(log)) # {}
         /\ o \in DOMAIN durations =>
                durations[o] \in Histograms /\ Exact(log, durations[o], o, Len(log))
  BY DEF ExpositionInv, ExpositionTypeOK, CountingInv
<1>3. /\ DOMAIN durations' = DOMAIN durations \cup {p}
      /\ \A o \in DOMAIN durations : o # p => durations'[o] = durations[o]
      /\ durations'[p] = observe(IF p \in DOMAIN durations THEN durations[p] ELSE EmptyHistogram, e)
  BY DEF ObserveDuration
<1>4. /\ evaluations \in [Outcomes -> Nat]
      /\ evaluations' = [evaluations EXCEPT ![p] = @ + 1]
      /\ UNCHANGED page
  BY DEF ExpositionInv, ExpositionTypeOK, ObserveDuration, ObserveEvaluation
<1>5. durations'[p] \in Histograms /\ Exact(log', durations'[p], p, Len(log'))
  <2> DEFINE old == IF p \in DOMAIN durations THEN durations[p] ELSE EmptyHistogram
  <2>1. CASE p \in DOMAIN durations
    <3>1. durations'[p] = observe(durations[p], e)
      BY <1>3, <2>1
    <3> QED
      BY <1>1, <1>2, <2>1, <3>1, ObserveIsExact
  <2>2. CASE p \notin DOMAIN durations
    <3>1. Having(log, p, Len(log)) = {} /\ \A d : Within(log, p, d, Len(log)) = {}
      BY <1>2, <2>2 DEF Having, Within
    <3>2. EmptyHistogram \in Histograms /\ Exact(log, EmptyHistogram, p, Len(log))
      BY <3>1, FS_EmptySet DEF EmptyHistogram, Histograms, Exact
    <3>3. durations'[p] = observe(EmptyHistogram, e)
      BY <1>3, <2>2
    <3> QED
      BY <1>1, <3>2, <3>3, ObserveIsExact
  <2> QED
    BY <2>1, <2>2
<1>6. /\ Having(log', p, Len(log')) = Having(log, p, Len(log)) \cup {Len(log) + 1}
      /\ Cardinality(Having(log', p, Len(log'))) = Cardinality(Having(log, p, Len(log))) + 1
      /\ \A o : o # p => /\ Having(log', o, Len(log')) = Having(log, o, Len(log))
                         /\ \A d : Within(log', o, d, Len(log')) = Within(log, o, d, Len(log))
  <2> DEFINE longer == Append(log, <<p, e>>)
  <2>1. /\ Having(longer, p, Len(log) + 1) = Having(log, p, Len(log)) \cup {Len(log) + 1}
        /\ Cardinality(Having(longer, p, Len(log) + 1)) = Cardinality(Having(log, p, Len(log))) + 1
        /\ \A o : o # p =>
               /\ Having(longer, o, Len(log) + 1) = Having(log, o, Len(log))
               /\ \A d : Within(longer, o, d, Len(log) + 1) = Within(log, o, d, Len(log))
    BY <1>1, NewIsCounted, Zenon
  <2>2. longer = log' /\ Len(log) + 1 = Len(log')
    BY <1>1
  <2> HIDE DEF longer
  <2> QED
    BY <2>1, <2>2, Zenon
<1>7. ExpositionTypeOK'
  <2>1. evaluations' \in [Outcomes -> Nat]
    BY <1>4
  <2>2. ASSUME NEW o \in DOMAIN durations'
        PROVE  o \in Outcomes /\ durations'[o] \in Histograms
    BY <1>2, <1>3, <1>5 DEF ExpositionInv, ExpositionTypeOK
  <2> QED
    BY <1>1, <1>4, <2>1, <2>2 DEF ExpositionInv, ExpositionTypeOK
<1>8. CountingInv'
  <2> SUFFICES ASSUME NEW o \in Outcomes
               PROVE  /\ evaluations'[o] = Cardinality(Having(log', o, Len(log')))
                      /\ o \in DOMAIN durations' <=> Having(log', o, Len(log')) # {}
                      /\ o \in DOMAIN durations' => Exact(log', durations'[o], o, Len(log'))
    BY DEF CountingInv
  <2>1. CASE o = p
    BY <1>2, <1>3, <1>4, <1>5, <1>6, <2>1
  <2>2. CASE o # p
    <3>1. evaluations'[o] = evaluations[o]
      BY <1>4, <2>2
    <3> QED
      BY <1>2, <1>3, <1>6, <2>2, <3>1 DEF Exact
  <2> QED
    BY <2>1, <2>2
<1>9. PagesInv'
  <2> SUFFICES ASSUME NEW s \in Scrapers
               PROVE  PageOK(page[s])'
    BY <1>4 DEF PagesInv
  <2>1. PageOK(page[s]) /\ page[s].at \in Int
    BY DEF ExpositionInv, ExpositionTypeOK, PagesInv
  <2>2. page[s].at <= Len(log)
    BY <2>1 DEF PageOK
  <2>3. ASSUME NEW o, NEW d
        PROVE  /\ Having(log', o, page[s].at) = Having(log, o, page[s].at)
               /\ Within(log', o, d, page[s].at) = Within(log, o, d, page[s].at)
    BY <1>1, <2>1, <2>2, PrefixIsKept
  <2>4. \A h, o : Exact(log', h, o, page[s].at) <=> Exact(log, h, o, page[s].at)
    BY <2>3 DEF Exact
  <2>5. page[s].at <= Len(log')
    BY <1>1, <2>1, <2>2
  <2> QED
    BY <1>4, <2>1, <2>3, <2>4, <2>5 DEF PageOK
<1> QED
  BY <1>7, <1>8, <1>9 DEF ExpositionInv

\* Something was observed exactly when some outcome has a histogram.
LEMMA KnownOnceObserved ==
  ASSUME ExpositionInv
  PROVE  Len(log) > 0 => knownOutcomes = Outcomes
<1> SUFFICES ASSUME Len(log) > 0
             PROVE  DOMAIN durations # {}
  BY DEF knownOutcomes
<1>1. 1 \in 1..Len(log) /\ log[1][1] \in Outcomes
  BY DEF ExpositionInv, ExpositionTypeOK, Observations
<1>2. 1 \in Having(log, log[1][1], Len(log))
  BY <1>1 DEF Having
<1> QED
  BY <1>1, <1>2 DEF ExpositionInv, CountingInv

\* A page is rendered from values that agree with one another, because none
\* of them changes while the lock is held.
LEMMA RenderKeepsInv ==
  ASSUME ExpositionInv, NEW s \in Scrapers, Render(s)
  PROVE  ExpositionInv'
<1> DEFINE shown == [counters   |-> [o \in knownOutcomes |-> evaluations[o]],
                     histograms |-> [o \in knownOutcomes \cap DOMAIN durations |-> durations[o]],
                     at         |-> Len(log)]
<1>1. /\ page' = [page EXCEPT ![s] = shown]
      /\ UNCHANGED <<evaluations, durations, log>>
  BY DEF Render, metricsVars
<1>2. DOMAIN page = Scrapers /\ Len(log) \in Nat
  BY DEF ExpositionInv, ExpositionTypeOK, Observations
<1>3. DOMAIN durations \subseteq Outcomes
  BY DEF ExpositionInv, ExpositionTypeOK
<1>4. knownOutcomes \cap DOMAIN durations = DOMAIN durations
  BY <1>3 DEF knownOutcomes
<1>5. PageOK(shown)
  <2>1. /\ shown.at = Len(log)
        /\ DOMAIN shown.counters = knownOutcomes
        /\ DOMAIN shown.histograms = DOMAIN durations
        /\ \A o \in DOMAIN durations : /\ shown.histograms[o] = durations[o]
                                       /\ shown.counters[o] = evaluations[o]
    BY <1>4
  <2>2. \A o \in DOMAIN durations :
            /\ Exact(log, durations[o], o, Len(log))
            /\ evaluations[o] = durations[o].total
    BY <1>3 DEF ExpositionInv, CountingInv, Exact
  <2>3. \A o \in Outcomes : o \in DOMAIN durations <=> Having(log, o, Len(log)) # {}
    BY DEF ExpositionInv, CountingInv
  <2> HIDE DEF shown
  <2> QED
    BY <1>2, <1>3, <2>1, <2>2, <2>3, KnownOnceObserved DEF PageOK
<1>6. shown.at = Len(log)
  OBVIOUS
<1> HIDE DEF shown
<1>7. DOMAIN page' = Scrapers /\ \A t \in Scrapers : page'[t] = IF t = s THEN shown ELSE page[t]
  BY <1>1, <1>2
<1>8. ExpositionTypeOK'
  BY <1>1, <1>2, <1>6, <1>7 DEF ExpositionInv, ExpositionTypeOK
<1>9. CountingInv'
  BY <1>1 DEF ExpositionInv, CountingInv
<1>10. PagesInv'
  <2> SUFFICES ASSUME NEW t \in Scrapers
               PROVE  PageOK(page[t])'
    BY DEF PagesInv
  <2>1. PageOK(IF t = s THEN shown ELSE page[t])
    BY <1>5 DEF ExpositionInv, PagesInv
  <2> QED
    BY <1>1, <1>7, <2>1 DEF PageOK
<1> QED
  BY <1>8, <1>9, <1>10 DEF ExpositionInv

\* Every observation and every scrape preserves the invariant.
LEMMA ExpositionInvStep ==
  ExpositionInv /\ [ExpositionNext]_expositionVars => ExpositionInv'
<1> SUFFICES ASSUME ExpositionInv, [ExpositionNext]_expositionVars
             PROVE  ExpositionInv'
  OBVIOUS
<1>1. ASSUME NEW o \in Outcomes, NEW d \in Durations, ObserveDuration(o, d)
      PROVE  ExpositionInv'
  BY <1>1, ObserveKeepsInv
<1>2. ASSUME NEW s \in Scrapers, Render(s)
      PROVE  ExpositionInv'
  BY <1>2, RenderKeepsInv
<1>3. CASE UNCHANGED expositionVars
  BY <1>3 DEF ExpositionInv, ExpositionTypeOK, CountingInv, PagesInv, PageOK, Exact,
              expositionVars, metricsVars
<1> QED
  BY <1>1, <1>2, <1>3 DEF ExpositionNext

------------------------------------------------------------------------------
(* Theorems *)

\* Metrics.ObserveEvaluation and Write keep the counters, the histograms and
\* the pages of Exposition exact, whatever is observed.
THEOREM ExpositionInvariant == ExpositionSpec => []ExpositionInv
  BY ExpositionInvInit, ExpositionInvStep, PTL DEF ExpositionSpec

\* What Write renders is the truth about the evaluations observed before it:
\* its cumulative buckets, its counts and its counters agree.
THEOREM PagesTellTheTruth == ExpositionSpec => []PagesAreExact
<1>1. ExpositionInv => PagesAreExact
  BY DEF ExpositionInv, PagesInv, PageOK, Exact, Having, Within, PagesAreExact
<1> QED
  BY <1>1, ExpositionInvariant, PTL

\* A series knownOutcomes and Write have once shown is in every later page.
THEOREM SeriesPersist == ExpositionSpec => []SeriesHaveNoGaps
<1>1. ExpositionInv => SeriesHaveNoGaps
  <2> SUFFICES ASSUME ExpositionInv, NEW s \in Scrapers, NEW t \in Scrapers,
                      page[s].at > 0, page[s].at <= page[t].at
               PROVE  /\ DOMAIN page[t].counters = Outcomes
                      /\ DOMAIN page[s].histograms \subseteq DOMAIN page[t].histograms
    BY DEF SeriesHaveNoGaps
  <2>1. /\ page[s].at \in Int /\ page[t].at \in Int
        /\ PageOK(page[s]) /\ PageOK(page[t])
    BY DEF ExpositionInv, ExpositionTypeOK, PagesInv
  <2>2. \A o : Having(log, o, page[s].at) \subseteq Having(log, o, page[t].at)
    BY <2>1 DEF Having
  <2>3. page[t].at > 0
    BY <2>1
  <2> QED
    BY <2>1, <2>2, <2>3 DEF PageOK
<1> QED
  BY <1>1, ExpositionInvariant, PTL
==============================================================================
