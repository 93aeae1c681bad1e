------------------------------ MODULE Lifecycle ------------------------------
(***************************************************************************)
(* What ddflagd promises those who run it, without saying how: a process   *)
(* that becomes ready at most once, drains while it still answers, stops,  *)
(* and reports success only if no value it handed out has an exposure      *)
(* event that was never taken to a send.                                   *)
(***************************************************************************)
CONSTANT Requests

VARIABLES
    phase,   \* starting, ready, draining, stopping, exited
    owed,    \* requests answered with a value whose event waits for a send
    status   \* none, success, failure

vars == <<phase, owed, status>>

Init == phase = "starting" /\ owed = {} /\ status = "none"

\* A value is handed out, in any phase: a connection may outlive the drain.
Owe(r) == /\ phase # "exited"
          /\ owed' = owed \cup {r}
          /\ UNCHANGED <<phase, status>>

\* A flush, at any time and once more when the process has stopped serving.
Settle == /\ phase # "exited"
          /\ owed' \in SUBSET owed
          /\ UNCHANGED <<phase, status>>

\* Readiness comes up once, and never after it was withdrawn.
BecomeReady == /\ phase = "starting"
               /\ phase' = "ready"
               /\ UNCHANGED <<owed, status>>

Drain == /\ phase \in {"starting", "ready"}
         /\ phase' = "draining"
         /\ UNCHANGED <<owed, status>>

Stop == /\ phase = "draining"
        /\ phase' = "stopping"
        /\ UNCHANGED <<owed, status>>

Refuse == /\ phase = "starting"
          /\ phase' = "exited"
          /\ status' = "failure"
          /\ UNCHANGED owed

Exit == /\ phase = "stopping"
        /\ phase' = "exited"
        /\ \/ status' = "failure"
           \/ status' = "success" /\ owed = {}
        /\ UNCHANGED owed

Next == \/ \E r \in Requests : Owe(r)
        \/ Settle \/ BecomeReady \/ Drain \/ Stop \/ Refuse \/ Exit

Spec == Init /\ [][Next]_vars
==============================================================================
