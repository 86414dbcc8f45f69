-------------------------- MODULE MCMcpSupervisor ---------------------------
(* Model checking of McpSupervisor. *)
EXTENDS McpSupervisor

CallerSymmetry == Permutations(Caller)

=============================================================================
