--------------------------------- MODULE Stub ---------------------------------
(***************************************************************************)
(* rust-integration/ofrepstub: what the scripted provider makes of each    *)
(* flag key of the Rust integration tests.  The stub serves the handler of *)
(* internal/ofrep, which Ofrep models, over this table instead of over a   *)
(* bridge; its state is always ready.                                      *)
(***************************************************************************)
EXTENDS Response

\* resolutions with a value, with none, and with an error code, as the
\* OpenFeature client hands them on.
resolution(reason, value, metadata) ==
    [code |-> "", err |-> "nil", reason |-> reason, value |-> value, metadata |-> metadata]

failure(code) ==
    [code |-> code, err |-> IF code = "PROVIDER_NOT_READY" THEN "not_ready" ELSE "other",
     reason |-> "ERROR", value |-> FALSE, metadata |-> {}]

valueReason == [key \in {"value-bool", "value-false", "value-string", "value-int",
                         "value-float", "value-object", "slow"} |->
    CASE key \in {"value-bool", "value-false"}   -> "TARGETING_MATCH"
      [] key \in {"value-float", "value-object"} -> "SPLIT"
      [] OTHER                                   -> "STATIC"]

errorCode == [key \in {"targeting-key-missing", "parse-error", "invalid-context",
                       "provider-not-ready", "general-error"} |->
    CASE key = "targeting-key-missing" -> "TARGETING_KEY_MISSING"
      [] key = "parse-error"           -> "PARSE_ERROR"
      [] key = "invalid-context"       -> "INVALID_CONTEXT"
      [] key = "provider-not-ready"    -> "PROVIDER_NOT_READY"
      [] key = "general-error"         -> "GENERAL"]

\* The metadata of every value and of the code default are primitives.
results == [key \in {"code-default", "disabled"} \cup DOMAIN valueReason \cup DOMAIN errorCode |->
    CASE key = "code-default"        -> resolution("DEFAULT", FALSE, {"primitive"})
      [] key = "disabled"            -> resolution("DISABLED", FALSE, {})
      [] key \in DOMAIN valueReason  -> resolution(valueReason[key], TRUE, {"primitive"})
      [] key \in DOMAIN errorCode    -> failure(errorCode[key])]

\* ObjectEvaluation: a key without a row is not found, as with the official
\* provider.  The slow key answers once its context has ended, past the
\* handler's timeout; Ofrep's Evaluate may run that late for every key.
ObjectEvaluation(flag) ==
    IF flag \in DOMAIN results THEN results[flag] ELSE failure("FLAG_NOT_FOUND")
==============================================================================
