------------------------------- MODULE Request -------------------------------
(***************************************************************************)
(* internal/ofrep/request.go: decodeContext, which turns the body of a     *)
(* request into an evaluation context or into the failure that names the   *)
(* first thing wrong with it.  Ofrep's Decode stands for all of this.      *)
(*                                                                         *)
(* Property names are numbers, in the order sort.Strings gives them.  Of a *)
(* JSON value its kind is kept, and one number: the length of a string in  *)
(* bytes, or the number itself.  The JSON decoder is external; it keeps    *)
(* the last of two properties with one name, so a context is a function.   *)
(* A number is counted in a unit that every literal is a multiple of.      *)
(***************************************************************************)
EXTENDS Response, Integers, FiniteSetsExt

CONSTANTS
    Names,            \* names of properties, as numbers
    TargetingKey,     \* the one that is the targeting key
    MaxAttributes,    \* Handler.maxAttributes
    MaxStringBytes,   \* Handler.maxStringBytes
    MaxInt,           \* the largest int64
    Floats,           \* the numbers that a float64 holds
    FloatOverflow     \* the magnitude from which a literal rounds to infinity

ASSUME RequestAssumption ==
    /\ Names \subseteq Nat /\ IsFiniteSet(Names) /\ TargetingKey \in Names
    /\ {MaxAttributes, MaxStringBytes, MaxInt, FloatOverflow} \subseteq Nat
    /\ MaxInt < FloatOverflow

ASSUME FloatsAssumption == Floats \subseteq Int /\ Floats # {}

VARIABLES
    request,       \* what the client sent
    at,            \* how far decodeContext has got
    unread,        \* the properties the walk has not come to
    targetingKey,  \* length of the targeting key, 0 for none
    attributes,    \* the attributes converted so far
    refusal        \* the requestFailure: status, code, and the property named

decodeVars == <<request, at, unread, targetingKey, attributes, refusal>>

Kinds == {"null", "object", "array", "bool", "string", "integer", "decimal"}

\* An oversized body is one whose JSON value is not over, nor found malformed,
\* within maxBodyBytes: what follows the value is never read.
Keys == {"empty", "not_utf8", "valid"}
Bodies == {"oversized", "malformed", "object"}

NoName == -1
NoRefusal == [status |-> StatusOK, code |-> "", property |-> NoName]

DecodeInit(requests) ==
    /\ request \in requests
    /\ at = "key"
    /\ unread = {}
    /\ targetingKey = 0
    /\ attributes = << >>
    /\ refusal = NoRefusal

------------------------------------------------------------------------------
(* One property *)

Refused == [ok |-> FALSE]
Converted(type, n) == [ok |-> TRUE, type |-> type, n |-> n]

\* MUTANT of decodeTargetingKey: the subject id is not bounded.
decodeTargetingKeyUnbounded(v) ==
    CASE v.kind = "null"   -> Converted("none", 0)
      [] v.kind = "string" -> Converted("string", v.n)
      [] OTHER             -> Refused

\* A string up to the limit; null means that the caller has none.
decodeTargetingKey(v) ==
    CASE v.kind = "null"   -> Converted("none", 0)
      [] v.kind = "string" -> IF v.n > MaxStringBytes THEN Refused ELSE Converted("string", v.n)
      [] OTHER             -> Refused

\* What separates a literal from the number it was decoded to.
distance(m, n) == IF m < n THEN n - m ELSE m - n

\* The float64 closest to a number.  Of two as close ParseFloat takes the one
\* with the even significand; which one it is makes no difference here.
nearestFloat(n) == CHOOSE f \in Floats : \A g \in Floats : distance(f, n) <= distance(g, n)

inFloatRange(n) == -FloatOverflow < n /\ n < FloatOverflow
isInt64(n) == -MaxInt - 1 <= n /\ n <= MaxInt

\* MUTANT of decodeNumber: every number becomes a float64, as in plain JSON.
decodeNumberAsFloat(v) ==
    IF inFloatRange(v.n) THEN Converted("float64", nearestFloat(v.n)) ELSE Refused

\* An integral literal that an int64 holds stays an integer; every other number
\* is rounded to a float64, unless it is out of the range of those.
decodeNumber(v) ==
    IF v.kind = "integer" /\ isInt64(v.n) THEN Converted("int64", v.n)
    ELSE IF inFloatRange(v.n) THEN Converted("float64", nearestFloat(v.n))
    ELSE Refused

decodeAttribute(v) ==
    CASE v.kind = "null"                 -> Converted("nil", 0)
      [] v.kind \in {"object", "array"}  -> Refused
      [] v.kind = "bool"                 -> Converted("bool", v.n)
      [] v.kind = "string"               -> IF v.n > MaxStringBytes THEN Refused
                                            ELSE Converted("string", v.n)
      [] OTHER                           -> decodeNumber(v)

------------------------------------------------------------------------------
(* decodeContext *)

Refuse(status, code, property) ==
    /\ at' = "refused"
    /\ refusal' = [status |-> status, code |-> code, property |-> property]
    /\ UNCHANGED <<request, unread, targetingKey, attributes>>

Proceed(to) == at' = to /\ UNCHANGED <<request, targetingKey, attributes, refusal>>

CheckKey ==
    /\ at = "key"
    /\ \/ request.key = "empty" /\ Refuse(StatusBadRequest, "GENERAL", NoName)
       \/ request.key = "not_utf8" /\ Refuse(StatusBadRequest, "PARSE_ERROR", NoName)
       \/ request.key = "valid" /\ Proceed("body") /\ UNCHANGED unread

ReadBody ==
    /\ at = "body"
    /\ \/ /\ request.body = "oversized"
          /\ Refuse(StatusRequestEntityTooLarge, "PARSE_ERROR", NoName)
       \/ /\ request.body = "malformed"
          /\ Refuse(StatusBadRequest, "PARSE_ERROR", NoName)
       \/ /\ request.body = "object"
          /\ Proceed("count")
          /\ UNCHANGED unread

\* MUTANT of CountAttributes: the targeting key is not counted.
CountAttributesOnly ==
    /\ at = "count"
    /\ IF Cardinality(DOMAIN request.context \ {TargetingKey}) > MaxAttributes
       THEN Refuse(StatusBadRequest, "INVALID_CONTEXT", NoName)
       ELSE Proceed("walk") /\ unread' = DOMAIN request.context

\* The targeting key counts as a property.
CountAttributes ==
    /\ at = "count"
    /\ IF Cardinality(DOMAIN request.context) > MaxAttributes
       THEN Refuse(StatusBadRequest, "INVALID_CONTEXT", NoName)
       ELSE Proceed("walk") /\ unread' = DOMAIN request.context

convert(name) ==
    IF name = TargetingKey THEN decodeTargetingKey(request.context[name])
    ELSE decodeAttribute(request.context[name])

\* What the walk does with one property, whichever comes next.
TakeProperty(name) ==
    LET d == convert(name)
    IN  IF ~d.ok
        THEN Refuse(StatusBadRequest, "INVALID_CONTEXT", name)
        ELSE /\ unread' = unread \ {name}
             /\ IF name = TargetingKey
                THEN targetingKey' = d.n /\ UNCHANGED attributes
                ELSE /\ attributes' = [n \in DOMAIN attributes \cup {name} |->
                                        IF n = name THEN d ELSE attributes[n]]
                     /\ UNCHANGED targetingKey
             /\ UNCHANGED <<request, at, refusal>>

\* MUTANT of Walk: the properties come in the order of the map.
WalkUnsorted ==
    /\ at = "walk"
    /\ \E name \in unread : TakeProperty(name)

\* sortedKeys.
Walk ==
    /\ at = "walk"
    /\ unread # {}
    /\ TakeProperty(Min(unread))

Accept ==
    /\ at = "walk"
    /\ unread = {}
    /\ Proceed("accepted")
    /\ UNCHANGED unread

decodeContext == CheckKey \/ ReadBody \/ CountAttributes \/ Walk \/ Accept

------------------------------------------------------------------------------
(* Properties *)

\* A request with several problems is always refused for the same one, the
\* first of them by name, however Go orders the map it was decoded into.
SameProblemNamed ==
    at = "refused" /\ refusal.property # NoName =>
        \A name \in DOMAIN request.context :
            name < refusal.property => convert(name).ok

\* What reaches the provider, and the exposure event, is bounded by every limit
\* and flat: a body that was read whole, no more properties than allowed, no
\* object, no array, no string that is too long, the subject id included.
ContextIsBounded ==
    at = "accepted" =>
        /\ request.key = "valid" /\ request.body = "object"
        /\ Cardinality(DOMAIN request.context) <= MaxAttributes
        /\ targetingKey <= MaxStringBytes
        /\ \A name \in DOMAIN request.context \ {TargetingKey} :
              LET v == request.context[name]
              IN  /\ v.kind \notin {"object", "array"}
                  /\ v.kind = "string" => v.n <= MaxStringBytes

\* A number arrives as it was written if it is an integer that an int64 holds;
\* any other becomes a float64, and no float64 would have been closer to it.
NumberIsKept(v, a) ==
    IF v.kind = "integer" /\ isInt64(v.n)
    THEN a.type = "int64" /\ a.n = v.n
    ELSE /\ a.type = "float64"
         /\ a.n \in Floats
         /\ \A f \in Floats : distance(a.n, v.n) <= distance(f, v.n)

\* No property is lost or invented between the body and the evaluation
\* context, a null one included, and none loses more of its value than a
\* float64 has to.  Past an int64 that may be a part of the integer.
ContextIsComplete ==
    at = "accepted" =>
        /\ DOMAIN attributes = DOMAIN request.context \ {TargetingKey}
        /\ \A name \in DOMAIN attributes :
              LET v == request.context[name]
                  a == attributes[name]
              IN  /\ (a.type = "nil") <=> (v.kind = "null")
                  /\ v.kind \in {"bool", "string"} => a.type = v.kind /\ a.n = v.n
                  /\ v.kind \in {"integer", "decimal"} => NumberIsKept(v, a)
        /\ targetingKey > 0 => /\ TargetingKey \in DOMAIN request.context
                               /\ request.context[TargetingKey].n = targetingKey
==============================================================================
