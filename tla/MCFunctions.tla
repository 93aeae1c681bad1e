----------------------------- MODULE MCFunctions -----------------------------
(***************************************************************************)
(* The two parts of the process that are functions: mapResult, for every   *)
(* combination of the fields that decide the response, and LoadConfig, for *)
(* every environment that differs from a good one in up to two variables.  *)
(***************************************************************************)
EXTENDS Response, Config

VARIABLES input, output

Pending == [status |-> 0]

good == [name \in {EnvService, EnvFlaggingProviderEnabled, EnvTraceEnabled, EnvTraceAgentURL,
                   EnvAgentHost, EnvTraceAgentPort, EnvListenAddr, EnvAdminAddr,
                   EnvPprofEnabled, EnvAPIKey} \cup Durations |->
            CASE name = EnvService -> "checkout"
              [] name = EnvFlaggingProviderEnabled -> "true"
              [] OTHER -> unset]

Words(name) ==
    {unset, ""} \cup
    CASE name \in Durations -> DOMAIN DurationWords \cup {"soon"}
      [] name \in {EnvFlaggingProviderEnabled, EnvTraceEnabled, EnvPprofEnabled} ->
            TrueWords \cup FalseWords \cup {"yes"}
      [] name \in {EnvListenAddr, EnvAdminAddr} -> {DefaultListenAddr, DefaultAdminAddr, ":9000"}
      [] OTHER -> {"text"}

MCEnvs == UNION {{[good EXCEPT ![m] = v, ![n] = w] : v \in Words(m), w \in Words(n)} :
                    m \in DOMAIN good, n \in DOMAIN good}

Init == /\ input \in [details : Details] \cup [env : MCEnvs]
        /\ output = Pending

evaluated == "details" \in DOMAIN input
done == output # Pending

Reply == evaluated /\ ~done /\ output' = mapResult(input.details) /\ UNCHANGED input
Load == ~evaluated /\ ~done /\ output' = LoadConfig(input.env) /\ UNCHANGED input

Spec == Init /\ [][Reply \/ Load]_<<input, output>>

replied == evaluated /\ done
loaded == ~evaluated /\ done

\* A failed evaluation is a failure response and no other is (mapResult).
FailuresReported == replied => FailureIsReported(input.details, output)

\* Status and outcome agree on every path (mapShortCircuit, mapErrorCode).
OutcomesMatch == replied => OutcomeMatchesStatus(output)

\* Both ways to say not ready are a retryable 503 (mapResult).
NotReadyRetryable == replied => NotReadyIsRetryable(input.details, output)

\* DISABLED and DEFAULT never carry a value (mapReason, mapResult).
ValuesNotInvented == replied => NoInventedValue(input.details, output)

\* Every problem is reported at once (LoadConfig, Validate).
ProblemsAreIndependent == loaded => NoProblemHides(input.env, good)
==============================================================================
