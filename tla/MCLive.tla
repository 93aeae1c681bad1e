------------------------------- MODULE MCLive --------------------------------
(***************************************************************************)
(* Progress, from two beginnings: the start of a process that clients leave *)
(* alone, and a ready process with traffic.  Clients may stay away for as   *)
(* long as they like, so each is a behaviour of the process.               *)
(***************************************************************************)
EXTENDS MCServing

VARIABLE quiet    \* the clients make no requests

LiveInit == \/ Init /\ quiet = TRUE
            \/ ServingInit /\ quiet = FALSE

LiveNext == Next /\ (quiet => UNCHANGED at) /\ UNCHANGED quiet

LiveSpec == LiveInit /\ [][LiveNext]_<<vars, quiet>> /\ Fairness
==============================================================================
