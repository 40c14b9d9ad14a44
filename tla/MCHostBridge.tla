---------------------------- MODULE MCHostBridge ----------------------------
(* Two browser requests and two invocations for TLC, interchangeable. *)
EXTENDS HostBridge, TLC

Symmetry == Permutations(Requests) \cup Permutations(Attempts)
=============================================================================
