------------------------------ MODULE Response -------------------------------
(***************************************************************************)
(* internal/ofrep/response.go: the total function from what the            *)
(* OpenFeature client returned to an OFREP response.  Names, values and    *)
(* messages are opaque; what is kept is what decides the response: the     *)
(* error code, the class of the error, the reason, whether there is a      *)
(* value, and the kinds of metadata entries.                               *)
(***************************************************************************)

\* The statuses of net/http the handler uses.
StatusOK == 200
StatusBadRequest == 400
StatusNotFound == 404
StatusRequestEntityTooLarge == 413
StatusInternalServerError == 500
StatusServiceUnavailable == 503

Statuses == {StatusOK, StatusBadRequest, StatusNotFound, StatusRequestEntityTooLarge,
             StatusInternalServerError, StatusServiceUnavailable}

\* Error codes of OpenFeature, and "" for none.
ErrorCodes == {"FLAG_NOT_FOUND", "TARGETING_KEY_MISSING", "INVALID_CONTEXT", "PARSE_ERROR",
               "TYPE_MISMATCH", "PROVIDER_NOT_READY", "PROVIDER_FATAL", "GENERAL"}

\* What errors.Is can tell of the error beside the details.
ErrorClasses == {"nil", "not_ready", "fatal", "other"}

\* Reasons of OpenFeature.
Reasons == {"TARGETING_MATCH", "SPLIT", "STATIC", "DISABLED", "DEFAULT", "CACHED",
            "UNKNOWN", "ERROR", ""}

\* Kinds of metadata entries: booleans, strings and numbers, or anything else.
MetadataKinds == {"primitive", "composite"}

\* openfeature.InterfaceEvaluationDetails with the error returned beside it.
Details == [code : ErrorCodes \cup {""}, err : ErrorClasses, reason : Reasons,
            value : BOOLEAN, metadata : SUBSET MetadataKinds]

\* The reason enum of OFREP.
OfrepReasons == {"STATIC", "TARGETING_MATCH", "SPLIT", "DISABLED", "UNKNOWN"}

\* failureResponse and successResponse, each with its status and outcome.  A
\* failure has no reason and no value, a success no error code.
Failure(status, code, outcome, metadata) ==
    [status |-> status, code |-> code, outcome |-> outcome,
     reason |-> "", value |-> FALSE, metadata |-> metadata]

Success(reason, value, metadata) ==
    [status |-> StatusOK, code |-> "", outcome |-> IF value THEN "value" ELSE "code_default",
     reason |-> reason, value |-> value, metadata |-> metadata]

\* Entries OFREP does not allow are dropped, never coerced.
ofrepMetadata(in) == in \cap {"primitive"}

\* DEFAULT and DISABLED carry no value; a reason OFREP lacks is UNKNOWN.
mapReason(reason) ==
    IF reason \in {"TARGETING_MATCH", "SPLIT", "STATIC", "DISABLED"} THEN reason ELSE "UNKNOWN"

\* MUTANT of hasValue: a disabled flag passes on the value the client returned.
hasValueDisabled(reason) == reason # "DEFAULT"

hasValue(reason) == reason \notin {"DISABLED", "DEFAULT"}

\* What the switches of a failure return: status, code and outcome.
Verdict(status, code, outcome) == [status |-> status, code |-> code, outcome |-> outcome]

\* An evaluation error that carries no code.
mapShortCircuit(err) ==
    CASE err = "not_ready" -> Verdict(StatusServiceUnavailable, "PROVIDER_NOT_READY", "not_ready")
      [] err = "fatal"     -> Verdict(StatusInternalServerError, "PROVIDER_FATAL", "error")
      [] OTHER             -> Verdict(StatusInternalServerError, "GENERAL", "error")

\* MUTANT of mapErrorCode: the code is named where its status is forgotten.
mapErrorCodeMisfiled(code) ==
    CASE code = "FLAG_NOT_FOUND" ->
            Verdict(StatusNotFound, code, "flag_not_found")
      [] code \in {"INVALID_CONTEXT", "PARSE_ERROR"} ->
            Verdict(StatusBadRequest, code, "invalid_request")
      [] code = "PROVIDER_NOT_READY" ->
            Verdict(StatusServiceUnavailable, code, "not_ready")
      [] OTHER -> Verdict(StatusInternalServerError, code,
                           IF code = "TARGETING_KEY_MISSING" THEN "invalid_request" ELSE "error")

\* MUTANT of mapErrorCode: a not-ready provider falls into the default case.
mapErrorCodeNoNotReady(code) ==
    CASE code = "FLAG_NOT_FOUND" ->
            Verdict(StatusNotFound, code, "flag_not_found")
      [] code \in {"TARGETING_KEY_MISSING", "INVALID_CONTEXT", "PARSE_ERROR"} ->
            Verdict(StatusBadRequest, code, "invalid_request")
      [] OTHER -> Verdict(StatusInternalServerError, code, "error")

\* MUTANT of mapErrorCode: a code counts under its own name, which no counter has.
mapErrorCodeUncounted(code) ==
    CASE code = "FLAG_NOT_FOUND" ->
            Verdict(StatusNotFound, code, "flag_not_found")
      [] code \in {"TARGETING_KEY_MISSING", "INVALID_CONTEXT", "PARSE_ERROR"} ->
            Verdict(StatusBadRequest, code, "invalid_request")
      [] code = "PROVIDER_NOT_READY" ->
            Verdict(StatusServiceUnavailable, code, "provider_not_ready")
      [] OTHER -> Verdict(StatusInternalServerError, code, "error")

mapErrorCode(code) ==
    CASE code = "FLAG_NOT_FOUND" ->
            Verdict(StatusNotFound, code, "flag_not_found")
      [] code \in {"TARGETING_KEY_MISSING", "INVALID_CONTEXT", "PARSE_ERROR"} ->
            Verdict(StatusBadRequest, code, "invalid_request")
      [] code = "PROVIDER_NOT_READY" ->
            Verdict(StatusServiceUnavailable, code, "not_ready")
      [] OTHER -> Verdict(StatusInternalServerError, code, "error")

\* A nil value under a value-bearing reason is a code default; only DISABLED
\* keeps its name then.
mapSuccess(d, metadata) ==
    LET reason == mapReason(d.reason)
    IN  IF d.value
        THEN Success(reason, hasValue(d.reason), metadata)
        ELSE Success(IF reason = "DISABLED" THEN reason ELSE "UNKNOWN", FALSE, metadata)

\* MUTANT of mapResult: the short circuit, which has an error and no code, is
\* taken for a success.
mapResultCodesOnly(d) ==
    LET metadata == ofrepMetadata(d.metadata)
        failed   == mapErrorCode(d.code)
    IN  IF d.code # ""
        THEN Failure(failed.status, failed.code, failed.outcome, metadata)
        ELSE mapSuccess(d, metadata)

mapResult(d) ==
    LET metadata == ofrepMetadata(d.metadata)
        failed   == IF d.code = "" THEN mapShortCircuit(d.err) ELSE mapErrorCode(d.code)
    IN  IF d.code = "" /\ d.err = "nil"
        THEN mapSuccess(d, metadata)
        ELSE Failure(failed.status, failed.code, failed.outcome, metadata)

------------------------------------------------------------------------------
(* Properties of a response r to the details d *)

\* An evaluation that failed, with a code or by the error alone, is never
\* answered as a success, and one that did not fail always is.
FailureIsReported(d, r) == (r.status = StatusOK) <=> (d.code = "" /\ d.err = "nil")

\* The outcome the metrics count is the class of the status the caller saw:
\* the two are chosen side by side in three switches.
OutcomeMatchesStatus(r) ==
    \/ r.status = StatusOK /\ r.outcome \in {"value", "code_default"}
    \/ r.status = StatusBadRequest /\ r.outcome = "invalid_request"
    \/ r.status = StatusNotFound /\ r.outcome = "flag_not_found"
    \/ r.status = StatusServiceUnavailable /\ r.outcome = "not_ready"
    \/ r.status = StatusInternalServerError /\ r.outcome = "error"

\* However the client says that the provider is not ready, by the error code
\* or by the bare error of its short circuit, the caller gets the 503 that
\* tells it to retry.
NotReadyIsRetryable(d, r) ==
    d.code = "PROVIDER_NOT_READY" \/ (d.code = "" /\ d.err = "not_ready")
        => r.status = StatusServiceUnavailable /\ r.code = "PROVIDER_NOT_READY"

\* A value reaches the caller only under a reason of the protocol that may
\* carry one, and only when the client returned one.
NoInventedValue(d, r) ==
    r.value => /\ d.value
               /\ r.reason \in OfrepReasons \ {"DISABLED"}
               /\ d.reason # "DEFAULT"
==============================================================================
