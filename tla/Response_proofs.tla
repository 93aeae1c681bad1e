--------------------------- MODULE Response_proofs ---------------------------
(***************************************************************************)
(* Facts about mapResult for every combination of details.  The run of     *)
(* MCFunctions enumerates them for the two kinds of metadata entries; here *)
(* each fact follows from the shape of the response, and the composition   *)
(* of the handler with the daemon uses them.                               *)
(***************************************************************************)
EXTENDS Response, TLAPS

\* What the fields of a response range over.
Responses == [status : Statuses, code : ErrorCodes \cup {""},
              outcome : {"value", "code_default", "flag_not_found", "invalid_request",
                         "not_ready", "error"},
              reason : OfrepReasons \cup {""}, value : BOOLEAN,
              metadata : SUBSET MetadataKinds]

\* The statuses and the outcomes of failures.
FailureStatuses == {StatusBadRequest, StatusNotFound, StatusInternalServerError,
                    StatusServiceUnavailable}
FailureOutcomes == {"flag_not_found", "invalid_request", "not_ready", "error"}

\* The outcome that goes with a failure's status.
Agree(status, outcome) ==
    \/ status = StatusBadRequest /\ outcome = "invalid_request"
    \/ status = StatusNotFound /\ outcome = "flag_not_found"
    \/ status = StatusInternalServerError /\ outcome = "error"
    \/ status = StatusServiceUnavailable /\ outcome = "not_ready"

\* mapReason stays inside the protocol's enum, and a reason that may carry a
\* value is not DISABLED.
LEMMA ReasonType ==
    ASSUME NEW reason \in Reasons
    PROVE  /\ mapReason(reason) \in OfrepReasons
           /\ hasValue(reason) \in BOOLEAN
           /\ hasValue(reason) => mapReason(reason) # "DISABLED" /\ reason # "DEFAULT"
  BY DEF mapReason, hasValue, Reasons, OfrepReasons

\* Metadata is filtered.
LEMMA MetadataType ==
    ASSUME NEW in \in SUBSET MetadataKinds
    PROVE  ofrepMetadata(in) \in SUBSET MetadataKinds
  BY DEF ofrepMetadata

\* The pairs are those of OutcomeMatchesStatus.
LEMMA AgreeMatches ==
    ASSUME NEW r, Agree(r.status, r.outcome)
    PROVE  OutcomeMatchesStatus(r)
  BY DEF Agree, OutcomeMatchesStatus

\* What an agreeing pair ranges over.
LEMMA AgreeType ==
    ASSUME NEW status, NEW outcome, Agree(status, outcome)
    PROVE  /\ status \in FailureStatuses
           /\ outcome \in FailureOutcomes
  BY DEF Agree, FailureStatuses, FailureOutcomes

\* A success: what its fields are.
LEMMA SuccessShape ==
    ASSUME NEW reason \in OfrepReasons, NEW value \in BOOLEAN,
           NEW metadata \in SUBSET MetadataKinds
    PROVE  /\ Success(reason, value, metadata) \in Responses
           /\ Success(reason, value, metadata).status = StatusOK
           /\ Success(reason, value, metadata).reason = reason
           /\ Success(reason, value, metadata).value = value
           /\ OutcomeMatchesStatus(Success(reason, value, metadata))
<1>1. Success(reason, value, metadata) \in Responses
  BY DEF Success, Responses, Statuses
<1>2. /\ Success(reason, value, metadata).status = StatusOK
      /\ Success(reason, value, metadata).reason = reason
      /\ Success(reason, value, metadata).value = value
  BY DEF Success
<1>3. Success(reason, value, metadata).outcome \in {"value", "code_default"}
  BY DEF Success
<1>4. OutcomeMatchesStatus(Success(reason, value, metadata))
  BY <1>2, <1>3, Zenon DEF OutcomeMatchesStatus
<1> QED
  BY <1>1, <1>2, <1>4

\* A failure: what its fields are.
LEMMA FailureShape ==
    ASSUME NEW status \in FailureStatuses, NEW code \in ErrorCodes,
           NEW outcome \in FailureOutcomes,
           Agree(status, outcome),
           NEW metadata \in SUBSET MetadataKinds
    PROVE  /\ Failure(status, code, outcome, metadata) \in Responses
           /\ Failure(status, code, outcome, metadata).status = status
           /\ Failure(status, code, outcome, metadata).status # StatusOK
           /\ Failure(status, code, outcome, metadata).code = code
           /\ Failure(status, code, outcome, metadata).value = FALSE
           /\ OutcomeMatchesStatus(Failure(status, code, outcome, metadata))
<1> DEFINE f == Failure(status, code, outcome, metadata)
<1>1. f \in Responses
  BY DEF Failure, Responses, Statuses, FailureStatuses, FailureOutcomes
<1>2. /\ f.status = status
      /\ f.outcome = outcome
      /\ f.code = code
      /\ f.value = FALSE
  BY DEF Failure
<1>3. status # StatusOK
  BY DEF FailureStatuses, StatusOK, StatusBadRequest, StatusNotFound,
         StatusInternalServerError, StatusServiceUnavailable
<1>4. OutcomeMatchesStatus(f)
  <2> HIDE DEF f
  <2>1. Agree(f.status, f.outcome)
    BY <1>2, Zenon
  <2> QED
    BY <2>1, AgreeMatches, Zenon
<1> QED
  BY <1>1, <1>2, <1>3, <1>4, Zenon

\* Every error code has one of the four pairs of status and outcome, and only
\* the not-ready code has 503.
LEMMA ErrorCodeMapped ==
    ASSUME NEW code \in ErrorCodes
    PROVE  /\ Agree(mapErrorCode(code).status, mapErrorCode(code).outcome)
           /\ mapErrorCode(code).code = code
           /\ code = "PROVIDER_NOT_READY" => mapErrorCode(code).status = StatusServiceUnavailable
<1> SUFFICES ASSUME NEW f, f = mapErrorCode(code)
             PROVE  /\ Agree(f.status, f.outcome)
                    /\ f.code = code
                    /\ code = "PROVIDER_NOT_READY" => f.status = StatusServiceUnavailable
  BY Zenon
<1>1. CASE code = "FLAG_NOT_FOUND"
  <2>1. f = Verdict(StatusNotFound, code, "flag_not_found")
    BY <1>1 DEF mapErrorCode, Verdict
  <2> QED
    BY <1>1, <2>1 DEF Agree, Verdict
<1>2. CASE code \in {"TARGETING_KEY_MISSING", "INVALID_CONTEXT", "PARSE_ERROR"}
  <2>1. f = Verdict(StatusBadRequest, code, "invalid_request")
    BY <1>2 DEF mapErrorCode, Verdict
  <2> QED
    BY <1>2, <2>1 DEF Agree, Verdict
<1>3. CASE code = "PROVIDER_NOT_READY"
  <2>1. f = Verdict(StatusServiceUnavailable, code, "not_ready")
    BY <1>3 DEF mapErrorCode, Verdict
  <2> QED
    BY <2>1 DEF Agree, Verdict
<1>4. CASE code \in {"TYPE_MISMATCH", "PROVIDER_FATAL", "GENERAL"}
  <2>1. f = Verdict(StatusInternalServerError, code, "error")
    BY <1>4 DEF mapErrorCode, Verdict
  <2> QED
    BY <1>4, <2>1 DEF Agree, Verdict
<1> QED
  BY <1>1, <1>2, <1>3, <1>4 DEF ErrorCodes

\* An error without a code gets one, and not_ready gets the retryable pair.
LEMMA ShortCircuitMapped ==
    ASSUME NEW err \in ErrorClasses
    PROVE  /\ Agree(mapShortCircuit(err).status, mapShortCircuit(err).outcome)
           /\ mapShortCircuit(err).code \in ErrorCodes
           /\ err = "not_ready" => /\ mapShortCircuit(err).status = StatusServiceUnavailable
                                  /\ mapShortCircuit(err).code = "PROVIDER_NOT_READY"
<1> SUFFICES ASSUME NEW f, f = mapShortCircuit(err)
             PROVE  /\ Agree(f.status, f.outcome)
                    /\ f.code \in ErrorCodes
                    /\ err = "not_ready" => f.status = StatusServiceUnavailable /\ f.code = "PROVIDER_NOT_READY"
  BY Zenon
<1>1. CASE err = "not_ready"
  <2>1. f = Verdict(StatusServiceUnavailable, "PROVIDER_NOT_READY", "not_ready")
    BY <1>1 DEF mapShortCircuit
  <2> QED
    BY <2>1 DEF Agree, ErrorCodes, Verdict
<1>2. CASE err = "fatal"
  <2>1. f = Verdict(StatusInternalServerError, "PROVIDER_FATAL", "error")
    BY <1>2 DEF mapShortCircuit
  <2> QED
    BY <1>2, <2>1 DEF Agree, ErrorCodes, Verdict
<1>3. CASE err \in {"nil", "other"}
  <2>1. f = Verdict(StatusInternalServerError, "GENERAL", "error")
    BY <1>3 DEF mapShortCircuit
  <2> QED
    BY <1>3, <2>1 DEF Agree, ErrorCodes, Verdict
<1> QED
  BY <1>1, <1>2, <1>3 DEF ErrorClasses

\* A result without code and error is a success, with a value only when the
\* client returned one under a reason that may carry it.
LEMMA SuccessMapped ==
    ASSUME NEW d \in Details, d.code = "", d.err = "nil"
    PROVE  /\ mapResult(d) \in Responses
           /\ mapResult(d).status = StatusOK
           /\ OutcomeMatchesStatus(mapResult(d))
           /\ NoInventedValue(d, mapResult(d))
<1> SUFFICES ASSUME NEW r, r = mapResult(d)
             PROVE  /\ r \in Responses
                    /\ r.status = StatusOK
                    /\ OutcomeMatchesStatus(r)
                    /\ NoInventedValue(d, r)
  BY Zenon
<1>1. /\ d.reason \in Reasons
      /\ d.value \in BOOLEAN
      /\ ofrepMetadata(d.metadata) \in SUBSET MetadataKinds
  BY MetadataType DEF Details
<1>2. /\ mapReason(d.reason) \in OfrepReasons
      /\ hasValue(d.reason) \in BOOLEAN
      /\ hasValue(d.reason) => mapReason(d.reason) # "DISABLED" /\ d.reason # "DEFAULT"
  BY <1>1, ReasonType
<1>3. r = mapSuccess(d, ofrepMetadata(d.metadata))
  BY Zenon DEF mapResult
<1>4. CASE d.value
  <2>1. r = Success(mapReason(d.reason), hasValue(d.reason), ofrepMetadata(d.metadata))
    BY <1>3, <1>4, Zenon DEF mapSuccess
  <2>2. /\ r \in Responses
        /\ r.status = StatusOK
        /\ r.reason = mapReason(d.reason)
        /\ r.value = hasValue(d.reason)
        /\ OutcomeMatchesStatus(r)
    <3> DEFINE q == Success(mapReason(d.reason), hasValue(d.reason), ofrepMetadata(d.metadata))
    <3>1. /\ q \in Responses
          /\ q.status = StatusOK
          /\ q.reason = mapReason(d.reason)
          /\ q.value = hasValue(d.reason)
          /\ OutcomeMatchesStatus(q)
      BY <1>1, <1>2, SuccessShape, Zenon
    <3>2. r = q
      BY <2>1
    <3> HIDE DEF q
    <3> QED
      BY <3>1, <3>2, Zenon
  <2>3. NoInventedValue(d, r)
    BY <1>2, <1>4, <2>2, Zenon DEF NoInventedValue
  <2> QED
    BY <2>2, <2>3
<1>5. CASE ~d.value
  <2>1. PICK reason \in OfrepReasons :
            r = Success(reason, FALSE, ofrepMetadata(d.metadata))
    <3>1. mapReason(d.reason) = "DISABLED" =>
            r = Success("DISABLED", FALSE, ofrepMetadata(d.metadata))
      BY <1>3, <1>5, Zenon DEF mapSuccess
    <3>2. mapReason(d.reason) # "DISABLED" =>
            r = Success("UNKNOWN", FALSE, ofrepMetadata(d.metadata))
      BY <1>3, <1>5, Zenon DEF mapSuccess
    <3>3. "DISABLED" \in OfrepReasons /\ "UNKNOWN" \in OfrepReasons
      BY DEF OfrepReasons
    <3> QED
      BY <3>1, <3>2, <3>3, Zenon
  <2>2. /\ r \in Responses
        /\ r.status = StatusOK
        /\ r.value = FALSE
        /\ OutcomeMatchesStatus(r)
    <3> DEFINE q == Success(reason, FALSE, ofrepMetadata(d.metadata))
    <3>1. /\ q \in Responses
          /\ q.status = StatusOK
          /\ q.value = FALSE
          /\ OutcomeMatchesStatus(q)
      BY <1>1, SuccessShape, Zenon
    <3>2. r = q
      BY <2>1
    <3> HIDE DEF q
    <3> QED
      BY <3>1, <3>2, Zenon
  <2>3. NoInventedValue(d, r)
    BY <2>2, Zenon DEF NoInventedValue
  <2> QED
    BY <2>2, <2>3
<1> QED
  BY <1>4, <1>5

\* Any other result is a failure: no value, a status and an outcome chosen
\* together, and the retryable pair for a provider that is not ready.
LEMMA FailureMapped ==
    ASSUME NEW d \in Details, ~(d.code = "" /\ d.err = "nil")
    PROVE  /\ mapResult(d) \in Responses
           /\ mapResult(d).status # StatusOK
           /\ mapResult(d).value = FALSE
           /\ OutcomeMatchesStatus(mapResult(d))
           /\ NotReadyIsRetryable(d, mapResult(d))
<1> SUFFICES ASSUME NEW r, r = mapResult(d)
             PROVE  /\ r \in Responses
                    /\ r.status # StatusOK
                    /\ r.value = FALSE
                    /\ OutcomeMatchesStatus(r)
                    /\ NotReadyIsRetryable(d, r)
  BY Zenon
<1>1. /\ d.code \in ErrorCodes \cup {""}
      /\ d.err \in ErrorClasses
      /\ ofrepMetadata(d.metadata) \in SUBSET MetadataKinds
  BY MetadataType DEF Details
<1>2. PICK f : f = IF d.code = "" THEN mapShortCircuit(d.err) ELSE mapErrorCode(d.code)
  OBVIOUS
<1>3. r = Failure(f.status, f.code, f.outcome, ofrepMetadata(d.metadata))
  BY <1>2, Zenon DEF mapResult
<1>4. /\ Agree(f.status, f.outcome)
      /\ f.code \in ErrorCodes
      /\ d.code = "PROVIDER_NOT_READY" \/ (d.code = "" /\ d.err = "not_ready")
            => f.status = StatusServiceUnavailable /\ f.code = "PROVIDER_NOT_READY"
  <2>1. CASE d.code = ""
    <3>1. f = mapShortCircuit(d.err)
      BY <1>2, <2>1, Zenon
    <3>2. d.code # "PROVIDER_NOT_READY"
      BY <2>1
    <3> QED
      BY <1>1, <3>1, <3>2, ShortCircuitMapped, Zenon
  <2>2. CASE d.code # ""
    <3>1. f = mapErrorCode(d.code)
      BY <1>2, <2>2, Zenon
    <3>2. d.code \in ErrorCodes
      BY <1>1, <2>2
    <3>3. /\ Agree(f.status, f.outcome)
          /\ f.code = d.code
          /\ d.code = "PROVIDER_NOT_READY" => f.status = StatusServiceUnavailable
      BY <3>1, <3>2, ErrorCodeMapped, Zenon
    <3> QED
      BY <2>2, <3>2, <3>3, Zenon
  <2> QED
    BY <2>1, <2>2
<1>5. /\ f.status \in FailureStatuses
      /\ f.outcome \in FailureOutcomes
  BY <1>4, AgreeType, Zenon
<1>6. /\ r \in Responses
      /\ r.status = f.status
      /\ r.status # StatusOK
      /\ r.code = f.code
      /\ r.value = FALSE
      /\ OutcomeMatchesStatus(r)
  <2> DEFINE q == Failure(f.status, f.code, f.outcome, ofrepMetadata(d.metadata))
  <2>1. /\ q \in Responses
        /\ q.status = f.status
        /\ q.status # StatusOK
        /\ q.code = f.code
        /\ q.value = FALSE
        /\ OutcomeMatchesStatus(q)
    BY <1>1, <1>4, <1>5, FailureShape, Zenon
  <2>2. r = q
    BY <1>3
  <2> HIDE DEF q
  <2> QED
    BY <2>1, <2>2, Zenon
<1>7. NotReadyIsRetryable(d, r)
  BY <1>4, <1>6, Zenon DEF NotReadyIsRetryable
<1> QED
  BY <1>6, <1>7

------------------------------------------------------------------------------

\* Every response is well formed.
THEOREM ResponseType == \A d \in Details : mapResult(d) \in Responses
<1> SUFFICES ASSUME NEW d \in Details
             PROVE  mapResult(d) \in Responses
  OBVIOUS
<1>1. CASE d.code = "" /\ d.err = "nil"
  BY <1>1, SuccessMapped, Zenon
<1>2. CASE ~(d.code = "" /\ d.err = "nil")
  BY <1>2, FailureMapped, Zenon
<1> QED
  BY <1>1, <1>2

\* A failed evaluation is answered as a failure, and no other is (mapResult).
THEOREM FailuresAreReported == \A d \in Details : FailureIsReported(d, mapResult(d))
  BY SuccessMapped, FailureMapped, Zenon DEF FailureIsReported

\* Status and outcome agree (mapErrorCode, mapShortCircuit).
THEOREM OutcomesAgree == \A d \in Details : OutcomeMatchesStatus(mapResult(d))
<1> SUFFICES ASSUME NEW d \in Details
             PROVE  OutcomeMatchesStatus(mapResult(d))
  OBVIOUS
<1>1. CASE d.code = "" /\ d.err = "nil"
  BY <1>1, SuccessMapped, Zenon
<1>2. CASE ~(d.code = "" /\ d.err = "nil")
  BY <1>2, FailureMapped, Zenon
<1> QED
  BY <1>1, <1>2

\* Not ready is a retryable 503 however the client says it (the short circuit
\* of mapResult).
THEOREM NotReadyIs503 == \A d \in Details : NotReadyIsRetryable(d, mapResult(d))
<1> SUFFICES ASSUME NEW d \in Details
             PROVE  NotReadyIsRetryable(d, mapResult(d))
  OBVIOUS
<1>1. CASE d.code = "" /\ d.err = "nil"
  <2>1. d.code # "PROVIDER_NOT_READY" /\ d.err # "not_ready"
    BY <1>1
  <2> QED
    BY <2>1, Zenon DEF NotReadyIsRetryable
<1>2. CASE ~(d.code = "" /\ d.err = "nil")
  BY <1>2, FailureMapped, Zenon
<1> QED
  BY <1>1, <1>2

\* No value is invented, and none is sent for DISABLED or DEFAULT (mapReason).
THEOREM ValuesAreReal == \A d \in Details : NoInventedValue(d, mapResult(d))
<1> SUFFICES ASSUME NEW d \in Details
             PROVE  NoInventedValue(d, mapResult(d))
  OBVIOUS
<1>1. CASE d.code = "" /\ d.err = "nil"
  BY <1>1, SuccessMapped, Zenon
<1>2. CASE ~(d.code = "" /\ d.err = "nil")
  <2>1. mapResult(d).value = FALSE
    BY <1>2, FailureMapped, Zenon
  <2> QED
    BY <2>1, Zenon DEF NoInventedValue
<1> QED
  BY <1>1, <1>2
==============================================================================
