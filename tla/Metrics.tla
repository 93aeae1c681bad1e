------------------------------- MODULE Metrics -------------------------------
(***************************************************************************)
(* The values ddflagd observes about itself (internal/metrics).  Every     *)
(* operation of the Go type runs under one mutex, so each is one operator  *)
(* here; the components that hold a *metrics.Metrics conjoin it to their   *)
(* own actions.  The duration histograms and the rendering of a page are   *)
(* in Exposition: no other component reads them.                           *)
(***************************************************************************)
EXTENDS Naturals

VARIABLES
    evaluations,    \* evaluations[o]: requests counted with outcome o
    providerReady,  \* providerRdy, the gauge ddflagd_provider_ready
    lastError       \* who recorded the most recent error

metricsVars == <<evaluations, providerReady, lastError>>

Outcomes == {"value", "code_default", "flag_not_found", "invalid_request",
             "not_ready", "timeout", "error"}

\* The writers of lastError: nobody yet, Start, or an evaluation handler.
ErrorSources == {"none", "initialization", "evaluation"}

MetricsTypeOK ==
    /\ evaluations \in [Outcomes -> Nat]
    /\ providerReady \in BOOLEAN
    /\ lastError \in ErrorSources

MetricsInit ==
    /\ evaluations = [o \in Outcomes |-> 0]
    /\ providerReady = FALSE
    /\ lastError = "none"

ObserveEvaluation(o) ==
    evaluations' = [evaluations EXCEPT ![o] = @ + 1]

SetProviderReady ==
    providerReady' = TRUE

RecordError(source) ==
    lastError' = source
==============================================================================
