------------------------------ MODULE MCDaemon -------------------------------
(***************************************************************************)
(* The whole process with a single request, whose handler meets every step *)
(* of the startup and of the termination sequence.                         *)
(***************************************************************************)
EXTENDS Daemon

\* An evaluation with a value; a provider without a configuration gives those
\* without one.
MCEvaluations == {
    [code |-> "", err |-> "nil", reason |-> "SPLIT", value |-> TRUE, metadata |-> {}]}

\* The client stays.  One that goes away does to its handler what the timeout
\* does, which may fire at any point of an evaluation: it ends the context.
MCSpec == Init /\ [][Next /\ UNCHANGED gone]_vars
==============================================================================
