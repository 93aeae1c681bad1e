------------------------------- MODULE MCAdmin -------------------------------
(***************************************************************************)
(* Two probes of any endpoints beside every behaviour of the bridge.       *)
(***************************************************************************)
EXTENDS Admin, TLC

\* Probes are interchangeable.
ProbeSymmetry == Permutations(Probes)
==============================================================================
