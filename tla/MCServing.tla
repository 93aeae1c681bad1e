------------------------------ MODULE MCServing ------------------------------
(***************************************************************************)
(* The process from the moment it has become ready, which leaves out the   *)
(* interleavings of the startup and so affords more requests.  The initial *)
(* state is one the full specification reaches: New, the launches, both    *)
(* binds and Start have happened, and nothing else has.                    *)
(***************************************************************************)
EXTENDS MCDaemon, TLC

ServingInit ==
    /\ HandlerInit
    /\ evaluations = [o \in Outcomes |-> 0]
    /\ built = "yes" /\ tracer = "on" /\ state = "ready" /\ readyAt = TRUE
    /\ start = "returned" /\ stop = "idle" /\ stopErr = FALSE
    /\ provider = "ready" /\ config = TRUE
    /\ providerReady = TRUE /\ lastError = "none"
    /\ main = "waiting" /\ exit = "none" /\ ctx = "live" /\ starter = "done"
    /\ listener = [s \in Servers |-> "serving"]
    /\ closed = [s \in Servers |-> FALSE]
    /\ drained = FALSE /\ sequence = "idle" /\ budget = "unset" /\ errs = {}

ServingSpec == ServingInit /\ [][Next]_vars

\* Requests are interchangeable.
RequestSymmetry == Permutations(Requests)
==============================================================================
