-------------------------------- MODULE MCPod --------------------------------
(***************************************************************************)
(* The container from two beginnings, like MCLive: its start, without      *)
(* traffic, and a ready process with one request.                          *)
(***************************************************************************)
EXTENDS Pod, MCServing

VARIABLE quiet    \* the clients make no requests

MCPodInit == /\ PodInit
             /\ \/ Init /\ quiet = TRUE
                \/ ServingInit /\ quiet = FALSE

MCPodNext == PodNext /\ (quiet => UNCHANGED at) /\ UNCHANGED quiet

MCPodSpec == MCPodInit /\ [][MCPodNext]_<<podVars, quiet>>
==============================================================================
