------------------------------ MODULE MCRequest ------------------------------
(***************************************************************************)
(* Every request with up to four properties, one of them the targeting    *)
(* key, whose values sit on both sides of each limit.                      *)
(***************************************************************************)
EXTENDS Request

\* A significand of three bits, where an int64 has four and a sign.
MCFloats == {m * e : m \in -7..7, e \in {1, 2, 4}}

Value(kind, n) == [kind |-> kind, n |-> n]

MCValues ==
    {Value("null", 0), Value("object", 0), Value("array", 0), Value("bool", 1)}
    \cup {Value("string", n) : n \in {0, MaxStringBytes, MaxStringBytes + 1}}
    \cup {Value("integer", n) : n \in {-MaxInt - 2, -MaxInt - 1, MaxInt, MaxInt + 2,
                                        FloatOverflow - 1, FloatOverflow}}
    \cup {Value("decimal", n) : n \in {1, MaxInt, FloatOverflow}}

MCContexts == UNION {[S -> MCValues] : S \in SUBSET Names}

MCRequests ==
    [key : {"valid"}, body : {"object"}, context : MCContexts]
    \cup [key : Keys, body : Bodies, context : {<< >>}]

Spec == DecodeInit(MCRequests) /\ [][decodeContext]_decodeVars
==============================================================================
