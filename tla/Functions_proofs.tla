--------------------------- MODULE Functions_proofs --------------------------
(***************************************************************************)
(* Proofs about what the process computes: the decoding of a request, for  *)
(* any limits and any body, and the two functions the run of MCFunctions   *)
(* calls, the response to an evaluation and the configuration.             *)
(***************************************************************************)
EXTENDS Request, MCFunctions, Response_proofs, FiniteSetTheorems

(***************************************************************************)
(* decodeContext.  The walk is over the sorted names, so what it has taken *)
(* lies below what is left of it; that is what makes the refusal the first *)
(* by name, and what it says of an accepted context is said of every name. *)
(***************************************************************************)

\* A value of the body: any kind, any length or number.
Values == [kind : Kinds, n : Int]

\* A request with any context.
Requests == [key : Keys, body : Bodies, context : UNION {[S -> Values] : S \in SUBSET Names}]

\* The decoding of any of them; MCRequest's specification is the instance for
\* the requests it lists.
DecodeSpec(requests) == DecodeInit(requests) /\ [][decodeContext]_decodeVars

Context == request.context
Taken == DOMAIN Context \ unread

\* The walk has begun: it goes on, is over, or ended at a property.
Walked == at \in {"walk", "accepted"} \/ (at = "refused" /\ refusal.property # NoName)

DecodeTypeOK ==
    /\ request \in Requests
    /\ at \in {"key", "body", "count", "walk", "accepted", "refused"}
    /\ unread \subseteq DOMAIN Context
    /\ at # "refused" => refusal = NoRefusal
    /\ at = "refused" => refusal.status \in {StatusBadRequest, StatusRequestEntityTooLarge}

\* What each check before the walk has let through.
CheckedInv ==
    /\ at \notin {"key", "refused"} => request.key = "valid"
    /\ at \in {"count", "walk", "accepted"} => request.body = "object"
    /\ at \in {"walk", "accepted"} => Cardinality(DOMAIN Context) <= MaxAttributes

\* Before the walk nothing has been taken.
BeforeWalkInv ==
    at \in {"key", "body", "count"} => attributes = << >> /\ targetingKey = 0

\* What was taken came before what is left, was accepted, and was kept.
TakenInv ==
    Walked =>
        /\ \A name \in Taken : convert(name).ok /\ \A other \in unread : name < other
        /\ DOMAIN attributes = Taken \ {TargetingKey}
        /\ \A name \in DOMAIN attributes : attributes[name] = convert(name)
        /\ targetingKey = IF TargetingKey \in Taken THEN convert(TargetingKey).n ELSE 0

\* The walk ends with nothing left, or at the first of what is left.
EndInv ==
    /\ at = "accepted" => unread = {}
    /\ at = "refused" /\ refusal.property # NoName =>
          /\ refusal.property \in unread
          /\ ~convert(refusal.property).ok
          /\ \A other \in unread : refusal.property <= other

DecodeInv == DecodeTypeOK /\ CheckedInv /\ BeforeWalkInv /\ TakenInv /\ EndInv

------------------------------------------------------------------------------

\* Every set of names has a first one (sort.Strings).
LEMMA FirstName ==
    ASSUME NEW S \in SUBSET Nat, S # {}
    PROVE  Min(S) \in S /\ \A name \in S : Min(S) <= name
<1> DEFINE R == OpToRel(<, Nat)
<1>1. IsWellFoundedOn(R, Nat)
  BY NatLessThanWellFounded
<1>2. \A m, n \in Nat : <<m, n>> \in R <=> m < n
  BY DEF OpToRel
<1> HIDE DEF R
<1>3. PICK first \in S : \A name \in S : ~(<<name, first>> \in R)
  BY <1>1, WFMin, Zenon
<1>4. \A name \in S : first <= name
  <2> SUFFICES ASSUME NEW name \in S
               PROVE  first <= name
    OBVIOUS
  <2>1. ~(name < first)
    BY <1>2, <1>3, Zenon
  <2> QED
    BY <2>1
<1> QED
  BY <1>4 DEF Min

\* Every number has a closest float64.
LEMMA NearestFloat ==
    ASSUME NEW n \in Int
    PROVE  /\ nearestFloat(n) \in Floats
           /\ \A f \in Floats : distance(nearestFloat(n), n) <= distance(f, n)
<1> DEFINE D == {distance(f, n) : f \in Floats}
<1>1. ASSUME NEW f \in Floats
      PROVE  distance(f, n) \in Nat
  BY FloatsAssumption DEF distance
<1>2. D \in SUBSET Nat /\ D # {}
  BY <1>1, FloatsAssumption
<1>3. Min(D) \in D /\ \A d \in D : Min(D) <= d
  <2> HIDE DEF D
  <2> QED
    BY <1>2, FirstName
<1>4. PICK f \in Floats : Min(D) = distance(f, n)
  BY <1>3
<1>5. \A g \in Floats : distance(f, n) <= distance(g, n)
  BY <1>3, <1>4
<1> QED
  BY <1>5, Zenon DEF nearestFloat

\* What becomes of a number.
LEMMA NumberConverted ==
    ASSUME NEW v \in Values, v.kind \in {"integer", "decimal"}
    PROVE  LET d == decodeNumber(v)
           IN  /\ d.ok \in BOOLEAN
               /\ d.ok => d.type \in {"int64", "float64"} /\ NumberIsKept(v, d)
<1> DEFINE d == decodeNumber(v)
<1>1. CASE v.kind = "integer" /\ isInt64(v.n)
  <2>1. d = Converted("int64", v.n)
    BY <1>1 DEF decodeNumber
  <2> QED
    BY <1>1, <2>1 DEF Converted, NumberIsKept
<1>2. CASE ~(v.kind = "integer" /\ isInt64(v.n)) /\ inFloatRange(v.n)
  <2>1. d = Converted("float64", nearestFloat(v.n))
    BY <1>2 DEF decodeNumber
  <2>2. d.ok = TRUE /\ d.type = "float64" /\ d.n = nearestFloat(v.n)
    BY <2>1 DEF Converted
  <2>3. /\ nearestFloat(v.n) \in Floats
        /\ \A f \in Floats : distance(nearestFloat(v.n), v.n) <= distance(f, v.n)
    BY NearestFloat DEF Values
  <2> QED
    BY <1>2, <2>2, <2>3, Zenon DEF NumberIsKept
<1>3. CASE ~(v.kind = "integer" /\ isInt64(v.n)) /\ ~inFloatRange(v.n)
  <2>1. d = Refused
    BY <1>3 DEF decodeNumber
  <2> QED
    BY <2>1 DEF Refused
<1> QED
  BY <1>1, <1>2, <1>3

\* A context is a function from names to values.
LEMMA ContextType ==
    ASSUME request \in Requests
    PROVE  /\ DOMAIN Context \subseteq Names
           /\ \A name \in DOMAIN Context : Context[name] \in Values
  BY DEF Requests, Context

\* What becomes of the targeting key.
LEMMA TargetingKeyConverted ==
    ASSUME NEW v \in Values
    PROVE  LET d == decodeTargetingKey(v)
           IN  /\ d.ok \in BOOLEAN
               /\ d.ok => /\ d.n \in Int
                          /\ d.n <= MaxStringBytes
                          /\ d.n > 0 => d.n = v.n
<1> DEFINE d == decodeTargetingKey(v)
<1> USE RequestAssumption DEF Values
<1>1. CASE v.kind = "null"
  <2>1. d = Converted("none", 0)
    BY <1>1, Zenon DEF decodeTargetingKey
  <2> QED
    BY <2>1 DEF Converted
<1>2. CASE v.kind = "string" /\ v.n > MaxStringBytes
  <2>1. d = Refused
    BY <1>2 DEF decodeTargetingKey
  <2> QED
    BY <2>1 DEF Refused
<1>3. CASE v.kind = "string" /\ ~(v.n > MaxStringBytes)
  <2>1. d = Converted("string", v.n)
    BY <1>3 DEF decodeTargetingKey
  <2> QED
    BY <1>3, <2>1 DEF Converted
<1>4. CASE v.kind \notin {"null", "string"}
  <2>1. d = Refused
    BY <1>4, Zenon DEF decodeTargetingKey
  <2> QED
    BY <2>1 DEF Refused
<1> QED
  BY <1>1, <1>2, <1>3, <1>4

\* What becomes of any other property.
LEMMA AttributeConverted ==
    ASSUME NEW v \in Values
    PROVE  LET d == decodeAttribute(v)
           IN  /\ d.ok \in BOOLEAN
               /\ d.ok => /\ v.kind \notin {"object", "array"}
                          /\ v.kind = "string" => v.n <= MaxStringBytes
                          /\ d.type = "nil" <=> v.kind = "null"
                          /\ v.kind \in {"bool", "string"} => d.type = v.kind /\ d.n = v.n
                          /\ v.kind \in {"integer", "decimal"} => NumberIsKept(v, d)
<1> DEFINE d == decodeAttribute(v)
<1> USE RequestAssumption DEF Values
<1>1. CASE v.kind = "null"
  <2>1. d = Converted("nil", 0)
    BY <1>1, Zenon DEF decodeAttribute
  <2> QED
    BY <1>1, <2>1 DEF Converted
<1>2. CASE v.kind \in {"object", "array"}
  <2>1. d = Refused
    BY <1>2 DEF decodeAttribute
  <2> QED
    BY <2>1 DEF Refused
<1>3. CASE v.kind = "bool"
  <2>1. d = Converted("bool", v.n)
    BY <1>3 DEF decodeAttribute
  <2> QED
    BY <1>3, <2>1 DEF Converted
<1>4. CASE v.kind = "string"
  <2>1. d = IF v.n > MaxStringBytes THEN Refused ELSE Converted("string", v.n)
    BY <1>4 DEF decodeAttribute
  <2> QED
    BY <1>4, <2>1 DEF Converted, Refused
<1>5. CASE v.kind \in {"integer", "decimal"}
  <2>1. d = decodeNumber(v)
    BY <1>5 DEF decodeAttribute
  <2>2. d.ok \in BOOLEAN /\ (d.ok => d.type \in {"int64", "float64"} /\ NumberIsKept(v, d))
    BY <1>5, <2>1, NumberConverted, Zenon
  <2> QED
    BY <1>5, <2>2
<1> QED
  BY <1>1, <1>2, <1>3, <1>4, <1>5 DEF Kinds

\* What the decoder keeps of any property.
LEMMA PropertyConverted ==
    ASSUME DecodeTypeOK, NEW name \in DOMAIN Context
    PROVE  /\ convert(name).ok \in BOOLEAN
           /\ name = TargetingKey /\ convert(name).ok => convert(name).n \in Int
<1>1. request.context[name] \in Values
  BY ContextType DEF Context, DecodeTypeOK
<1>2. CASE name = TargetingKey
  <2>1. convert(name) = decodeTargetingKey(request.context[name])
    BY <1>2 DEF convert
  <2> QED
    BY <1>1, <2>1, TargetingKeyConverted, Zenon
<1>3. CASE name # TargetingKey
  <2>1. convert(name) = decodeAttribute(request.context[name])
    BY <1>3 DEF convert
  <2> QED
    BY <1>1, <1>3, <2>1, AttributeConverted, Zenon
<1> QED
  BY <1>2, <1>3

\* The checks before the walk end with a failure that names no property, or
\* go on with everything as it was.
LEMMA RefuseKeepsInv ==
    ASSUME DecodeInv, NEW code,
           NEW status \in {StatusBadRequest, StatusRequestEntityTooLarge},
           Refuse(status, code, NoName)
    PROVE  DecodeInv'
  BY DEF Refuse, DecodeInv, DecodeTypeOK, CheckedInv, BeforeWalkInv, TakenInv, EndInv, Walked, Context

\* One property of the walk.
LEMMA WalkKeepsInv ==
    ASSUME DecodeInv, Walk
    PROVE  DecodeInv'
<1> DEFINE name == Min(unread)
           d    == convert(name)
<1>1. at = "walk" /\ unread # {} /\ TakeProperty(name)
  BY DEF Walk
<1>2. /\ DOMAIN Context \subseteq Names /\ Names \subseteq Nat
      /\ unread \subseteq DOMAIN Context
  BY ContextType, RequestAssumption DEF DecodeInv, DecodeTypeOK
<1>3. name \in unread /\ \A other \in unread : name <= other
  BY <1>1, <1>2, FirstName
<1> HIDE DEF name
<1>4. name \in Nat /\ name # NoName
  <2>1. name \in Nat
    BY <1>2, <1>3, Zenon
  <2> QED
    BY <2>1 DEF NoName
<1>5. /\ \A other \in Taken : convert(other).ok /\ \A left \in unread : other < left
      /\ DOMAIN attributes = Taken \ {TargetingKey}
      /\ \A other \in DOMAIN attributes : attributes[other] = convert(other)
      /\ targetingKey = IF TargetingKey \in Taken THEN convert(TargetingKey).n ELSE 0
  BY <1>1 DEF DecodeInv, TakenInv, Walked
<1>6. CASE ~d.ok
  <2>1. /\ at' = "refused"
        /\ refusal' = [status |-> StatusBadRequest, code |-> "INVALID_CONTEXT", property |-> name]
        /\ UNCHANGED <<request, unread, targetingKey, attributes>>
    BY <1>1, <1>6, Zenon DEF TakeProperty, Refuse
  <2>2. refusal'.property = name /\ refusal'.status = StatusBadRequest
    BY <2>1
  <2>3. \A other : convert(other)' = convert(other)
    BY <2>1 DEF convert
  <2>4. Context' = Context /\ Taken' = Taken
    BY <2>1 DEF Context, Taken
  <2>5. DecodeTypeOK' /\ CheckedInv' /\ BeforeWalkInv'
    BY <2>1, <2>2, <2>4 DEF DecodeInv, DecodeTypeOK, CheckedInv, BeforeWalkInv
  <2>6. TakenInv'
    BY <1>5, <2>1, <2>3, <2>4 DEF TakenInv
  <2>7. EndInv'
    BY <1>3, <1>6, <2>1, <2>2, <2>3 DEF EndInv
  <2> QED
    BY <2>5, <2>6, <2>7 DEF DecodeInv
<1>7. CASE d.ok
  <2>1. /\ unread' = unread \ {name}
        /\ UNCHANGED <<request, at, refusal>>
        /\ name = TargetingKey => targetingKey' = d.n /\ UNCHANGED attributes
        /\ name # TargetingKey =>
              /\ attributes' = [n \in DOMAIN attributes \cup {name} |->
                                  IF n = name THEN d ELSE attributes[n]]
              /\ UNCHANGED targetingKey
    BY <1>1, <1>7, Zenon DEF TakeProperty
  <2>2. \A other : convert(other)' = convert(other)
    BY <2>1 DEF convert
  <2>3. Context' = Context /\ Taken' = Taken \cup {name} /\ name \notin Taken
    BY <1>2, <1>3, <2>1 DEF Context, Taken
  <2>4. DecodeTypeOK' /\ CheckedInv' /\ BeforeWalkInv' /\ EndInv'
    BY <1>1, <1>2, <2>1, <2>3 DEF DecodeInv, DecodeTypeOK, CheckedInv, BeforeWalkInv, EndInv
  <2>5. \A other \in Taken' : convert(other)'.ok /\ \A left \in unread' : other < left
    <3>1. \A left \in unread' : name < left
      BY <1>2, <1>3, <1>4, <2>1
    <3> QED
      BY <1>5, <1>7, <2>1, <2>2, <2>3, <3>1
  <2>6. /\ DOMAIN attributes' = Taken' \ {TargetingKey}
        /\ \A other \in DOMAIN attributes' : attributes'[other] = convert(other)'
    <3>1. CASE name = TargetingKey
      BY <1>5, <2>1, <2>2, <2>3, <3>1
    <3>2. CASE name # TargetingKey
      <4>1. /\ DOMAIN attributes' = DOMAIN attributes \cup {name}
            /\ \A other \in DOMAIN attributes' :
                  attributes'[other] = IF other = name THEN d ELSE attributes[other]
        BY <2>1, <3>2
      <4> QED
        BY <1>5, <2>2, <2>3, <3>2, <4>1
    <3> QED
      BY <3>1, <3>2
  <2>7. targetingKey' = IF TargetingKey \in Taken' THEN convert(TargetingKey)'.n ELSE 0
    BY <1>5, <2>1, <2>2, <2>3
  <2> QED
    BY <2>4, <2>5, <2>6, <2>7 DEF DecodeInv, TakenInv
<1>8. d.ok \in BOOLEAN
  BY <1>2, <1>3, PropertyConverted DEF DecodeInv
<1> QED
  BY <1>6, <1>7, <1>8

\* Every step of the decoder preserves the invariant.
LEMMA DecodeInvStep == DecodeInv /\ [decodeContext]_decodeVars => DecodeInv'
<1> SUFFICES ASSUME DecodeInv, [decodeContext]_decodeVars
             PROVE  DecodeInv'
  OBVIOUS
<1>1. CASE CheckKey
  <2>1. CASE \E code : Refuse(StatusBadRequest, code, NoName)
    BY <2>1, RefuseKeepsInv
  <2>2. CASE at = "key" /\ request.key = "valid" /\ Proceed("body") /\ UNCHANGED unread
    BY <2>2 DEF Proceed, DecodeInv, DecodeTypeOK, CheckedInv, BeforeWalkInv, TakenInv, EndInv, Walked, Context
  <2> QED
    BY <1>1, <2>1, <2>2 DEF CheckKey
<1>2. CASE ReadBody
  <2>1. CASE \E status \in {StatusBadRequest, StatusRequestEntityTooLarge} :
                \E code : Refuse(status, code, NoName)
    BY <2>1, RefuseKeepsInv
  <2>2. CASE at = "body" /\ request.body = "object" /\ Proceed("count") /\ UNCHANGED unread
    BY <2>2 DEF Proceed, DecodeInv, DecodeTypeOK, CheckedInv, BeforeWalkInv, TakenInv, EndInv, Walked, Context
  <2> QED
    BY <1>2, <2>1, <2>2 DEF ReadBody
<1>3. CASE CountAttributes
  <2>1. CASE Refuse(StatusBadRequest, "INVALID_CONTEXT", NoName)
    BY <2>1, RefuseKeepsInv
  <2>2. CASE /\ at = "count" /\ Proceed("walk") /\ unread' = DOMAIN request.context
             /\ ~(Cardinality(DOMAIN request.context) > MaxAttributes)
    <3>1. /\ at' = "walk" /\ Taken' = {} /\ Context' = Context /\ unread' = DOMAIN Context
          /\ attributes' = << >> /\ targetingKey' = 0 /\ UNCHANGED <<request, refusal>>
      BY <2>2 DEF Proceed, DecodeInv, BeforeWalkInv, Taken, Context
    <3>2. DecodeTypeOK' /\ BeforeWalkInv' /\ EndInv'
      BY <2>2, <3>1 DEF DecodeInv, DecodeTypeOK, BeforeWalkInv, EndInv
    <3>3. TakenInv'
      BY <3>1 DEF TakenInv
    <3>4. Cardinality(DOMAIN Context) <= MaxAttributes
      <4>1. IsFiniteSet(DOMAIN Context)
        BY ContextType, FS_Subset, RequestAssumption DEF DecodeInv, DecodeTypeOK
      <4>2. Cardinality(DOMAIN Context) \in Nat
        BY <4>1, FS_CardinalityType
      <4> QED
        BY <2>2, <4>2, RequestAssumption DEF Context
    <3>5. CheckedInv'
      BY <2>2, <3>1, <3>4 DEF DecodeInv, CheckedInv
    <3> QED
      BY <3>2, <3>3, <3>5 DEF DecodeInv
  <2> QED
    BY <1>3, <2>1, <2>2 DEF CountAttributes
<1>4. CASE Walk
  BY <1>4, WalkKeepsInv
<1>5. CASE Accept
  <2>1. /\ at = "walk" /\ unread = {} /\ at' = "accepted"
        /\ UNCHANGED <<request, unread, targetingKey, attributes, refusal>>
    BY <1>5 DEF Accept, Proceed
  <2>2. \A name : convert(name)' = convert(name)
    BY <2>1 DEF convert
  <2>3. Context' = Context /\ Taken' = Taken
    BY <2>1 DEF Context, Taken
  <2>4. DecodeTypeOK' /\ CheckedInv' /\ BeforeWalkInv' /\ EndInv'
    BY <2>1, <2>3 DEF DecodeInv, DecodeTypeOK, CheckedInv, BeforeWalkInv, EndInv
  <2>5. TakenInv'
    BY <2>1, <2>2, <2>3 DEF DecodeInv, TakenInv, Walked
  <2> QED
    BY <2>4, <2>5 DEF DecodeInv
<1>6. CASE UNCHANGED decodeVars
  <2>1. /\ \A name : convert(name)' = convert(name)
        /\ Context' = Context /\ Taken' = Taken
    BY <1>6 DEF decodeVars, convert, Context, Taken
  <2> QED
    BY <1>6, <2>1 DEF decodeVars, DecodeInv, DecodeTypeOK, CheckedInv, BeforeWalkInv, TakenInv, EndInv, Walked
<1> QED
  BY <1>1, <1>2, <1>3, <1>4, <1>5, <1>6 DEF decodeContext

\* The invariant holds of every decoding, whatever the requests are.
THEOREM DecodeInvariant ==
    ASSUME NEW requests \in SUBSET Requests
    PROVE  DecodeSpec(requests) => []DecodeInv
<1>1. DecodeInit(requests) => DecodeInv
  BY DEF DecodeInit, DecodeInv, DecodeTypeOK, CheckedInv, BeforeWalkInv, TakenInv, EndInv, Walked
<1>2. DecodeInv /\ [decodeContext]_decodeVars => DecodeInv'
  BY DecodeInvStep
<1> QED
  BY <1>1, <1>2, PTL DEF DecodeSpec

\* A request is refused for the first of its problems by name, for any number
\* of properties (sortedKeys, against Go's order of a map).
THEOREM FirstProblemIsNamed ==
    ASSUME NEW requests \in SUBSET Requests
    PROVE  DecodeSpec(requests) => []SameProblemNamed
<1>1. DecodeInv => SameProblemNamed
  <2> SUFFICES ASSUME DecodeInv, at = "refused", refusal.property # NoName,
                      NEW name \in DOMAIN request.context, name < refusal.property
               PROVE  convert(name).ok
    BY DEF SameProblemNamed
  <2>1. /\ DOMAIN Context \subseteq Names /\ Names \subseteq Nat
        /\ unread \subseteq DOMAIN Context
    BY ContextType, RequestAssumption DEF DecodeInv, DecodeTypeOK
  <2>2. refusal.property \in unread /\ \A other \in unread : refusal.property <= other
    BY DEF DecodeInv, EndInv
  <2>3. name \notin unread
    <3>1. name \in Nat /\ refusal.property \in Nat
      BY <2>1, <2>2, Zenon DEF Context
    <3> QED
      BY <2>2, <3>1
  <2> QED
    BY <2>3 DEF DecodeInv, TakenInv, Walked, Taken, Context
<1> QED
  BY <1>1, DecodeInvariant, PTL

\* A context that was accepted is flat and within every limit, that on the body
\* and on the number of properties and the subject id's included (decodeContext,
\* decodeAttribute, decodeTargetingKey).
THEOREM AcceptedIsBounded ==
    ASSUME NEW requests \in SUBSET Requests
    PROVE  DecodeSpec(requests) => []ContextIsBounded
<1>1. DecodeInv => ContextIsBounded
  <2> SUFFICES ASSUME DecodeInv, at = "accepted"
               PROVE  ContextIsBounded
    BY DEF ContextIsBounded
  <2>1. /\ request \in Requests /\ Taken = DOMAIN Context /\ Walked
    BY DEF DecodeInv, DecodeTypeOK, EndInv, Taken, Walked
  <2>2. \A name \in DOMAIN Context : convert(name).ok /\ Context[name] \in Values
    BY <2>1, ContextType DEF DecodeInv, TakenInv
  <2>3. targetingKey <= MaxStringBytes
    <3>1. CASE TargetingKey \in DOMAIN Context
      <4>1. convert(TargetingKey) = decodeTargetingKey(Context[TargetingKey])
        BY DEF convert, Context
      <4> QED
        BY <2>1, <2>2, <3>1, <4>1, TargetingKeyConverted DEF DecodeInv, TakenInv
    <3>2. CASE TargetingKey \notin DOMAIN Context
      BY <2>1, <3>2, RequestAssumption DEF DecodeInv, TakenInv
    <3> QED
      BY <3>1, <3>2
  <2>4. ASSUME NEW name \in DOMAIN Context \ {TargetingKey}
        PROVE  /\ Context[name].kind \notin {"object", "array"}
               /\ Context[name].kind = "string" => Context[name].n <= MaxStringBytes
    <3>1. convert(name) = decodeAttribute(Context[name])
      BY DEF convert, Context
    <3> QED
      BY <2>2, <3>1, AttributeConverted
  <2>5. /\ request.key = "valid" /\ request.body = "object"
        /\ Cardinality(DOMAIN Context) <= MaxAttributes
    BY DEF DecodeInv, CheckedInv
  <2> QED
    BY <2>3, <2>4, <2>5 DEF ContextIsBounded, Context
<1> QED
  BY <1>1, DecodeInvariant, PTL

\* An accepted context has every property of the body and no other, and each
\* has its value, or the float64 closest to it where no int64 holds it
\* (decodeContext's loop, decodeNumber).
THEOREM AcceptedIsComplete ==
    ASSUME NEW requests \in SUBSET Requests
    PROVE  DecodeSpec(requests) => []ContextIsComplete
<1>1. DecodeInv => ContextIsComplete
  <2> SUFFICES ASSUME DecodeInv, at = "accepted"
               PROVE  ContextIsComplete
    BY DEF ContextIsComplete
  <2>1. /\ request \in Requests /\ Taken = DOMAIN Context /\ Walked
    BY DEF DecodeInv, DecodeTypeOK, EndInv, Taken, Walked
  <2>2. /\ \A name \in DOMAIN Context : convert(name).ok /\ Context[name] \in Values
        /\ DOMAIN attributes = DOMAIN Context \ {TargetingKey}
        /\ \A name \in DOMAIN attributes : attributes[name] = convert(name)
        /\ targetingKey = IF TargetingKey \in DOMAIN Context THEN convert(TargetingKey).n ELSE 0
    BY <2>1, ContextType DEF DecodeInv, TakenInv
  <2>3. ASSUME NEW name \in DOMAIN attributes
        PROVE  /\ attributes[name].type = "nil" <=> Context[name].kind = "null"
               /\ Context[name].kind \in {"bool", "string"} =>
                     /\ attributes[name].type = Context[name].kind
                     /\ attributes[name].n = Context[name].n
               /\ Context[name].kind \in {"integer", "decimal"} =>
                     NumberIsKept(Context[name], attributes[name])
    <3>1. convert(name) = decodeAttribute(Context[name])
      BY <2>2 DEF convert, Context
    <3> QED
      BY <2>2, <3>1, AttributeConverted
  <2>4. ASSUME targetingKey > 0
        PROVE  TargetingKey \in DOMAIN Context /\ Context[TargetingKey].n = targetingKey
    <3>1. TargetingKey \in DOMAIN Context
      BY <2>2, <2>4
    <3>2. convert(TargetingKey) = decodeTargetingKey(Context[TargetingKey])
      BY DEF convert, Context
    <3> QED
      BY <2>2, <2>4, <3>1, <3>2, TargetingKeyConverted
  <2> QED
    BY <2>2, <2>3, <2>4 DEF ContextIsComplete, Context
<1> QED
  BY <1>1, DecodeInvariant, PTL

\* What the handler sees of the decoding: where it leaves the request, in the
\* words of Ofrep's places, and the status of a refusal.
decision == <<IF at = "accepted" THEN "decoded" ELSE IF at = "refused" THEN "answered"
                                                ELSE "decoding",
              refusal.status>>

\* All that Ofrep's Decode lets it be: undecided, then decided once.
OneDecision ==
    /\ decision = <<"decoding", StatusOK>>
    /\ [][/\ decision = <<"decoding", StatusOK>>
          /\ decision' \in {<<"decoded", StatusOK>>, <<"answered", StatusBadRequest>>,
                            <<"answered", StatusRequestEntityTooLarge>>}]_decision

\* However many steps the walk takes, the handler sees one: the request is
\* accepted, or answered with 400 or 413, and that is final.  Ofrep's Decode may
\* therefore stand for decodeContext.
THEOREM DecodingIsOneStep ==
    ASSUME NEW requests \in SUBSET Requests
    PROVE  DecodeSpec(requests) => OneDecision
<1>0. NoRefusal.status = StatusOK
  BY DEF NoRefusal
<1>1. DecodeInit(requests) => decision = <<"decoding", StatusOK>>
  BY <1>0 DEF DecodeInit, decision
<1>2. ASSUME DecodeInv, DecodeInv', [decodeContext]_decodeVars
      PROVE  \/ UNCHANGED decision
             \/ /\ decision = <<"decoding", StatusOK>>
                /\ decision' \in {<<"decoded", StatusOK>>, <<"answered", StatusBadRequest>>,
                                  <<"answered", StatusRequestEntityTooLarge>>}
  <2>1. CASE UNCHANGED decodeVars
    BY <2>1 DEF decodeVars, decision
  <2>2. CASE decodeContext
    <3>1. at \notin {"accepted", "refused"}
      BY <2>2 DEF decodeContext, CheckKey, ReadBody, CountAttributes, Walk, Accept
    <3>2. decision = <<"decoding", StatusOK>>
      BY <1>0, <1>2, <3>1 DEF DecodeInv, DecodeTypeOK, decision
    <3>3. \/ at' = "refused" /\ refusal'.status \in {StatusBadRequest, StatusRequestEntityTooLarge}
          \/ at' # "refused" /\ refusal'.status = StatusOK
      BY <1>0, <1>2 DEF DecodeInv, DecodeTypeOK
    <3> QED
      BY <3>2, <3>3 DEF decision
  <2> QED
    BY <1>2, <2>1, <2>2
<1> QED
  BY <1>1, <1>2, DecodeInvariant, PTL DEF DecodeSpec, OneDecision

------------------------------------------------------------------------------
(* LoadConfig: a problem of a variable is a problem of its value alone *)

\* Two environments that agree on a variable have the same word, the same
\* switch and the same duration there.
LEMMA VariableIsLocal ==
    ASSUME NEW e, NEW f, NEW name, e[name] = f[name]
    PROVE  /\ Getenv(e, name) = Getenv(f, name)
           /\ \A default : boolEnv(e, name, default) = boolEnv(f, name, default)
           /\ durationEnv(e, name) = durationEnv(f, name)
  BY Zenon DEF Getenv, boolEnv, durationEnv

\* The configuration has each variable's own.
LEMMA ConfigFields ==
    ASSUME NEW e
    PROVE  /\ configOf(e).Service = Getenv(e, EnvService)
           /\ \A name \in Durations : configOf(e).duration[name] = durationEnv(e, name).value
  BY DEF configOf

\* Apart from the two addresses, which are compared with each other, whether
\* a variable is refused depends on its value and on no other variable.
LEMMA ProblemIsLocal ==
    ASSUME NEW e, NEW f, NEW name, e[name] = f[name],
           name \notin {EnvListenAddr, EnvAdminAddr},
           name \in LoadConfig(e).errors
    PROVE  name \in LoadConfig(f).errors
<1>1. /\ LoadConfig(e).errors = unparsable(e) \cup Validate(configOf(e), e)
      /\ LoadConfig(f).errors = unparsable(f) \cup Validate(configOf(f), f)
  BY DEF LoadConfig
<1>2. CASE name \in unparsable(e)
  <2>1. name \in unparsable(f)
    BY <1>2, VariableIsLocal, Zenon DEF unparsable
  <2> QED
    BY <1>1, <2>1
<1>3. CASE name \in Validate(configOf(e), e)
  <2>1. /\ Getenv(e, name) = Getenv(f, name)
        /\ \A default : boolEnv(e, name, default) = boolEnv(f, name, default)
        /\ durationEnv(e, name) = durationEnv(f, name)
    BY VariableIsLocal
  <2>2. CASE name = EnvService /\ configOf(e).Service = ""
    <3>1. configOf(f).Service = ""
      BY <2>1, <2>2, ConfigFields
    <3> QED
      BY <1>1, <2>2, <3>1 DEF Validate
  <2>3. CASE name = EnvFlaggingProviderEnabled /\ ~boolEnv(e, name, FALSE)
    BY <1>1, <2>1, <2>3 DEF Validate
  <2>4. CASE name = EnvTraceEnabled /\ e[name] # unset /\ ~parseBool(e[name], TRUE)
    BY <1>1, <2>4 DEF Validate
  <2>5. CASE name = EnvDrainDelay /\ configOf(e).duration[name] < 0
    <3>1. configOf(f).duration[name] < 0
      BY <2>1, <2>5, ConfigFields DEF Durations
    <3> QED
      BY <1>1, <2>5, <3>1 DEF Validate
  <2>6. CASE name \in Timeouts /\ configOf(e).duration[name] <= 0
    <3>1. configOf(f).duration[name] <= 0
      BY <2>1, <2>6, ConfigFields DEF Durations
    <3> QED
      BY <1>1, <2>6, <3>1 DEF Validate
  <2> QED
    BY <1>3, <2>2, <2>3, <2>4, <2>5, <2>6 DEF Validate
<1> QED
  BY <1>1, <1>2, <1>3

\* Whatever an otherwise good environment is, and however many variables are
\* wrong beside it, one start names every problem (LoadConfig's two loops and
\* errors.Join).
THEOREM ProblemsNeverHide ==
    ASSUME NEW env, NEW base, DOMAIN env = DOMAIN base
    PROVE  NoProblemHides(env, base)
<1> SUFFICES ASSUME NEW name \in DOMAIN env \ {EnvListenAddr, EnvAdminAddr},
                    name \in LoadConfig([base EXCEPT ![name] = env[name]]).errors
             PROVE  name \in LoadConfig(env).errors
  BY DEF NoProblemHides
<1>1. [base EXCEPT ![name] = env[name]][name] = env[name]
  OBVIOUS
<1> QED
  BY <1>1, ProblemIsLocal

------------------------------------------------------------------------------
(* The run of MCFunctions *)

\* The output is that of the function the input is for.
OutputInv ==
    /\ input \in [details : Details] \cup [env : MCEnvs]
    /\ done => output = IF evaluated THEN mapResult(input.details) ELSE LoadConfig(input.env)

\* Each function is called once, with an input that stays: what the theorems
\* about the two functions need to carry over to the run.
LEMMA OutputInvariant == Spec => []OutputInv
<1>1. Init => OutputInv
  BY DEF Init, OutputInv, done
<1>2. OutputInv /\ [Reply \/ Load]_<<input, output>> => OutputInv'
  BY DEF OutputInv, Reply, Load, done, evaluated
<1> QED
  BY <1>1, <1>2, PTL DEF Spec

\* What was replied is the response to an evaluation's details.
LEMMA RepliedIsMapped ==
    ASSUME OutputInv, replied
    PROVE  input.details \in Details /\ output = mapResult(input.details)
<1>1. evaluated /\ done
  BY DEF replied
<1>2. input \notin [env : MCEnvs]
  BY <1>1 DEF evaluated
<1> QED
  BY <1>1, <1>2 DEF OutputInv

\* No failure is answered as a success, and no success as a failure (mapResult).
THEOREM RepliesReportFailures == Spec => []FailuresReported
<1>1. OutputInv => FailuresReported
  BY RepliedIsMapped, FailuresAreReported, Zenon DEF FailuresReported
<1> QED
  BY <1>1, OutputInvariant, PTL

\* The outcome counted is the class of the status answered (mapErrorCode,
\* mapShortCircuit).
THEOREM RepliesMatchOutcomes == Spec => []OutcomesMatch
<1>1. OutputInv => OutcomesMatch
  BY RepliedIsMapped, OutcomesAgree, Zenon DEF OutcomesMatch
<1> QED
  BY <1>1, OutputInvariant, PTL

\* Not ready is retryable, by the code and by the bare error (mapShortCircuit).
THEOREM RepliesInviteRetry == Spec => []NotReadyRetryable
<1>1. OutputInv => NotReadyRetryable
  BY RepliedIsMapped, NotReadyIs503, Zenon DEF NotReadyRetryable
<1> QED
  BY <1>1, OutputInvariant, PTL

\* A value in a reply is one the client returned (mapSuccess).
THEOREM RepliesInventNothing == Spec => []ValuesNotInvented
<1>1. OutputInv => ValuesNotInvented
  BY RepliedIsMapped, ValuesAreReal, Zenon DEF ValuesNotInvented
<1> QED
  BY <1>1, OutputInvariant, PTL

\* Every problem of an environment is named at once (LoadConfig).
THEOREM LoadsNameEveryProblem == Spec => []ProblemsAreIndependent
<1>1. OutputInv => ProblemsAreIndependent
  <2> SUFFICES ASSUME OutputInv, loaded
               PROVE  NoProblemHides(input.env, good)
    BY DEF ProblemsAreIndependent
  <2>1. input \in [env : MCEnvs]
    BY DEF OutputInv, loaded, evaluated
  <2>2. input.env \in MCEnvs
    BY <2>1
  <2>3. DOMAIN input.env = DOMAIN good
    BY <2>2 DEF MCEnvs
  <2> QED
    BY <2>3, ProblemsNeverHide
<1> QED
  BY <1>1, OutputInvariant, PTL
==============================================================================
