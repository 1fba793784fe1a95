---------------------------- MODULE MCOperations ----------------------------
(* The whole tables.                                                       *)
EXTENDS Operations, AgentControlOps, NodeOps, ControlPlaneOps

\* All the operations of the Go clients.
AllOps == AgentControlOps \cup NodeOps \cup ControlPlaneOps

=============================================================================
