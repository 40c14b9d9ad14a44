-------------------------- MODULE MCWorkflowApproval --------------------------
(***************************************************************************)
(* An instance of WorkflowApproval: a server that serves two requests at a *)
(* time and one that serves one, over the same files.                      *)
(***************************************************************************)
EXTENDS WorkflowApproval, TLC

CONSTANTS alpha, beta, a1, a2, b1

TwoServers == [h \in Handlers |-> IF h = b1 THEN beta ELSE alpha]

(* Nothing tells the two handlers of the first server apart.               *)
SameServer == Permutations({a1, a2})
=============================================================================
