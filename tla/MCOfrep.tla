------------------------------- MODULE MCOfrep -------------------------------
(***************************************************************************)
(* The handler beside the bridge.  The provider may return what the Rust   *)
(* integration tests make theirs return: the value, the code default and   *)
(* every code the handler maps.                                            *)
(***************************************************************************)
EXTENDS Ofrep, Stub

MCEvaluations == {ObjectEvaluation(flag) : flag \in DOMAIN results \cup {"no-such-flag"}}
==============================================================================
